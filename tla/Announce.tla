------------------------------ MODULE Announce ------------------------------
(***************************************************************************)
(* The announcing loops of pkg/blockchain/ledger.go, on top of Ledger.     *)
(*                                                                         *)
(* Every worker runs one of the four loops, or none.  A tick reads a copy of the    *)
(* node's data under the ledger's lock, decides, and, when something is    *)
(* missing (or still there), calls Add, Delete or DeleteBucket, which read *)
(* the last block again: other writers run between the two reads.          *)
(* AnnounceUpdate repeats for as long as the node runs.  Persist and the   *)
(* two deletions cancel themselves at the first tick that finds what they  *)
(* want, or give up at their timeout; the HTTP API starts them (api/api.go *)
(* and api/client).                                                        *)
(***************************************************************************)
EXTENDS Ledger

CONSTANTS
    Tasks,      \* the loops the workers may be running: worker -> loop
    Restarting, \* the nodes that may restart
    MaxTries    \* bound: writes of a loop that has a timeout

TaskType == [kind: {"update", "persist", "deleteKey", "deleteBucket", "none"},
             bucket: Bucket, key: Key, value: Value]

ASSUME AnnounceAssumption ==
    /\ Tasks \subseteq [Worker -> TaskType]
    /\ Restarting \subseteq Node
    /\ MaxTries \in Nat

VARIABLES
    task,       \* worker -> its loop, the same for ever
    asked,      \* worker -> its loop was started
    due,        \* worker -> the tick decided to write, the call has not begun
    ended       \* worker -> the loop is over

loopVars == <<task, asked, due, ended>>
allVars == <<vars, loopVars>>

-----------------------------------------------------------------------------

Kind(w) == task[w].kind
TimesOut(w) == Kind(w) \notin {"update", "none"}

HasKey(s, t) == t.bucket \in DOMAIN s /\ t.key \in DOMAIN s[t.bucket]

HasValue(s, t) == HasKey(s, t) /\ s[t.bucket][t.key] = t.value

(* What the tick of a loop looks for in the current data.                   *)
Aim(w, s) ==
    CASE Kind(w) \in {"update", "persist"} -> HasValue(s, task[w])
      [] Kind(w) = "deleteKey" -> ~ HasKey(s, task[w])
      [] Kind(w) = "deleteBucket" -> task[w].bucket \notin DOMAIN s
      [] Kind(w) = "none" -> TRUE

AnnounceInit ==
    /\ Init
    /\ task \in Tasks
    /\ asked = [w \in Worker |-> ~ TimesOut(w)]
    /\ due = [w \in Worker |-> FALSE]
    /\ ended = [w \in Worker |-> FALSE]

(* A request of a client: the handler starts the loop and answers at once,   *)
(* whether the client gets the answer or not.                               *)
Ask(w) ==
    /\ ~ asked[w]
    /\ asked' = [asked EXCEPT ![w] = TRUE]
    /\ UNCHANGED <<vars, task, due, ended>>

ClientPut(w) == Kind(w) = "persist" /\ Ask(w)

ClientDelete(w) == Kind(w) = "deleteKey" /\ Ask(w)

ClientDeleteBucket(w) == Kind(w) = "deleteBucket" /\ Ask(w)

Waiting(w) == asked[w] /\ pc[w] = "idle" /\ ~ due[w] /\ ~ ended[w]

(* A tick that finds something to do.                                       *)
Tick(w) ==
    /\ Waiting(w)
    /\ ~ Aim(w, Last(w).storage)
    /\ TimesOut(w) => calls[w] < MaxTries
    /\ due' = [due EXCEPT ![w] = TRUE]
    /\ UNCHANGED <<vars, task, asked, ended>>

(* The call the tick decided on: it starts from the last block as it is now.*)
Write(w) ==
    /\ due[w]
    /\ LET t == task[w] IN
        CASE Kind(w) \in {"update", "persist"} -> Add(w, t.bucket, [k \in {t.key} |-> t.value])
          [] Kind(w) = "deleteKey" -> Delete(w, t.bucket, t.key)
          [] Kind(w) = "deleteBucket" -> DeleteBucket(w, t.bucket)
    /\ due' = [due EXCEPT ![w] = FALSE]
    /\ UNCHANGED <<task, asked, ended>>

(* mutated Cancel: AnnounceUpdate cancels itself as Persist does            *)
CancelAny(w) ==
    /\ Waiting(w)
    /\ Aim(w, Last(w).storage)
    /\ ended' = [ended EXCEPT ![w] = TRUE]
    /\ UNCHANGED <<vars, task, asked, due>>

(* A tick that finds the aim reached: all loops but AnnounceUpdate cancel.  *)
Cancel(w) ==
    /\ Waiting(w)
    /\ TimesOut(w)
    /\ Aim(w, Last(w).storage)
    /\ ended' = [ended EXCEPT ![w] = TRUE]
    /\ UNCHANGED <<vars, task, asked, due>>

(* The deadline of the loop's context, noticed between two ticks.           *)
Timeout(w) ==
    /\ Waiting(w)
    /\ TimesOut(w)
    /\ ended' = [ended EXCEPT ![w] = TRUE]
    /\ UNCHANGED <<vars, task, asked, due>>

(* The network services of a restarted node announce anew; what the API was *)
(* asked to persist or delete is forgotten.                                 *)
RestartLoops(n) ==
    /\ Restart(n)
    /\ due' = [w \in Worker |-> due[w] /\ Home[w] # n]
    /\ ended' = [w \in Worker |-> ended[w] \/ (Home[w] = n /\ TimesOut(w) /\ asked[w])]
    /\ UNCHANGED <<task, asked>>

Loop(w) == Tick(w) \/ Write(w) \/ Cancel(w)

AnnounceStep ==
    \/ \E w \in Worker : ClientPut(w) \/ ClientDelete(w) \/ ClientDeleteBucket(w)
    \/ \E w \in Worker : Loop(w) \/ Timeout(w)
    \/ \E w \in Worker : WriteData(w) /\ UNCHANGED loopVars
    \/ \E n \in Node : Syncronize(n) /\ UNCHANGED loopVars
    \/ \E n \in Node, m \in net : Update(n, m) /\ UNCHANGED loopVars

AnnounceNext == AnnounceStep \/ \E n \in Restarting : RestartLoops(n)

AnnounceSpec == AnnounceInit /\ [][AnnounceNext]_allVars

(* Tickers of utils.BackoffTicker never stop; goroutines run on; gossip as  *)
(* in Ledger.                                                               *)
AnnounceFairness ==
    /\ \A w \in Worker :
        /\ WF_allVars(Loop(w))
        /\ WF_allVars(WriteData(w) /\ UNCHANGED loopVars)
    /\ \A n, m \in Node : WF_allVars(Gossip(n, m) /\ UNCHANGED loopVars)

AnnounceFairSpec == AnnounceSpec /\ AnnounceFairness

-----------------------------------------------------------------------------
(* Properties *)

Announces(w) == Kind(w) = "update"

Seen(n, w) == HasValue(chain[n].storage, task[w])

(* What a node announces forever is, in the end, always visible in its own  *)
(* ledger: updates lost to other workers of the node, keys and buckets they *)
(* delete at the same time, restarts from genesis, and older blocks of its  *)
(* own that come back through gossip only delay it.                         *)
AnnouncedAtHome ==
    \A w \in Worker : Announces(w) => <>[]Seen(Home[w], w)

(* All writers announce, and do so on one node.                              *)
Agreeing ==
    /\ \A w \in Worker : Kind(w) \in {"update", "none"}
    /\ \A w, u \in Worker : Announces(w) /\ Announces(u) => Home[w] = Home[u]

(* When the writers of the network are announcers of one node, what they    *)
(* announce is in the end always visible on every node: each update lost    *)
(* between them is made again, at an index the readers accept.  A node that *)
(* restarts from genesis may write again at an index its readers have.      *)
AnnouncedSettles ==
    Agreeing /\ [](restarts = 0) =>
        \A w \in Worker : Announces(w) => <>[](\A n \in Node : Seen(n, w))
=============================================================================
