------------------------------ MODULE Services ------------------------------
(***************************************************************************)
(* TCP services, files and proxied requests: services.go, files.go and     *)
(* egress.go of pkg/services.                                              *)
(*                                                                         *)
(* A node starts what was registered with it in order; one that connects   *)
(* never returns, and whatever was registered after it never starts.       *)
(* A node that offers something writes its name into the ledger, and a     *)
(* node that wants to connect writes itself among the users.  A call looks *)
(* the name up in the ledger of its own node and opens a stream to the     *)
(* peer it finds; that peer looks the caller up in its own ledger, which   *)
(* may lag behind, and serves it or resets the stream.  Two goroutines on  *)
(* either side copy bytes until one of the connections ends.  A request to *)
(* a proxy goes no further than the opening of its stream.                 *)
(***************************************************************************)
EXTENDS Integers, FiniteSets, SequencesExt

CONSTANTS
    Node,
    Name,           \* names of services and files
    File,           \* those that are files
    Call,           \* connections and receptions, one goroutine each
    Deployments,    \* who offers and who calls what
    MaxAhead,       \* bound: how far ahead of the lowest ledger a node still writes
    MaxFaults       \* bound: streams the network resets, files nobody can open

None == "none"

(* What calls of a proxy want.                                              *)
Egress == "egress"

(* What is registered with a node before it starts: a name it offers, one   *)
(* it lets local applications connect to, a proxy, or itself as an egress.  *)
Registration == [kind: {"offer", "connect", "proxy", "egress"}, name: Name \cup {None}]

Deployment == [present: SUBSET Node,    \* nodes of the network
               registered: [Node -> Seq(Registration)],
               caller: [Call -> Node], wants: [Call -> Name \cup {Egress, None}]]

ASSUME ServicesAssumption ==
    /\ None \notin Node /\ Name \cap {None, Egress} = {}
    /\ File \subseteq Name
    /\ Deployments \subseteq Deployment
    /\ MaxAhead \in Nat /\ MaxFaults \in Nat

VARIABLES
    deployment, \* the same for ever
    started,    \* node -> how many of its registrations have been started
    ledger,     \* node -> the storage of its last block (role, alive: see Roles)
    index,      \* node -> index of that block, above the lowest of all nodes
    call,       \* call -> its state
    faults

ledgerVars == <<ledger, index>>
vars == <<deployment, started, ledgerVars, call, faults>>

Registered(n) == deployment.registered[n]

Caller(c) == deployment.caller[c]
Wants(c) == deployment.wants[c]
IsFile(c) == Wants(c) \in File
IsProxied(c) == Wants(c) = Egress

(* The ends of connections a call may hold: the local one, the two ends of  *)
(* the stream, and what the peer has dialled or opened.                     *)
End == {"conn", "near", "far", "out"}

(* The goroutines of copyStream: towards the service and back, on either    *)
(* side.                                                                    *)
Copier == {"up", "down", "farUp", "farDown"}

(* at, serve: where the goroutines of caller and peer are.  closed: ends    *)
(* that one of them has closed.  hung: ends the application closed.         *)
(* stalled: copiers in a Write that nobody reads.                           *)
(* egress: the nodes a proxy has read from the ledger.                      *)
NewCall ==
    [at |-> "ready", serve |-> "none", to |-> None, dest |-> None, egress |-> {},
     closed |-> {}, hung |-> {}, reset |-> FALSE, copying |-> {}, stalled |-> {},
     signals |-> 0, farSignals |-> 0]

Init ==
    /\ deployment \in Deployments
    /\ started = [n \in Node |-> 0]
    /\ ledger = [n \in Node |-> [users |-> {}, owner |-> [s \in Name |-> None], egress |-> {},
                                  role |-> [m \in Node |-> None], alive |-> {}]]
    /\ index = [n \in Node |-> 0]
    /\ call = [c \in Call |-> NewCall]
    /\ faults = 0

-----------------------------------------------------------------------------
(* The ledger *)

Rebased(i) ==
    LET these == {i[n] : n \in deployment.present}
        lowest == CHOOSE l \in these : \A j \in these : l <= j
    IN  [n \in Node |-> IF n \in deployment.present THEN i[n] - lowest ELSE 0]

Write(n, storage) ==
    /\ index[n] < MaxAhead
    /\ ledger' = [ledger EXCEPT ![n] = storage]
    /\ index' = Rebased([index EXCEPT ![n] = @ + 1])
    /\ UNCHANGED <<started, call, faults>>

Gossip(n, m) ==
    /\ {n, m} \subseteq deployment.present /\ index[m] > index[n]
    /\ ledger' = [ledger EXCEPT ![n] = ledger[m]]
    /\ index' = Rebased([index EXCEPT ![n] = index[m]])
    /\ UNCHANGED <<started, call, faults>>

-----------------------------------------------------------------------------
(* Start *)

(* mutated Blocks: every service runs until the end                         *)
BlocksAlways(r) == TRUE

(* ConnectNetworkService accepts connections for as long as the node runs.  *)
Blocks(r) == r.kind = "connect"

StartNext(n) ==
    LET i == started[n] IN
    /\ i < Len(Registered(n))
    /\ i > 0 => ~ Blocks(Registered(n)[i])
    /\ started' = [started EXCEPT ![n] = i + 1]
    /\ UNCHANGED <<ledgerVars, call, faults>>

Runs(n, kind) ==
    {Registered(n)[i].name : i \in {j \in 1 .. started[n] : Registered(n)[j].kind = kind}}

(* The local end of a call is there: its port or the proxy's is open, or    *)
(* Start has come back and ReceiveFile was called.                          *)
Begun(c) ==
    \/ IsFile(c) /\ started[Caller(c)] = Len(Registered(Caller(c)))
    \/ IsProxied(c) /\ Runs(Caller(c), "proxy") # {}
    \/ Wants(c) \in Runs(Caller(c), "connect")

(* A tick of what announces a service.                                      *)
ExposeService(n, s) ==
    /\ s \in Runs(n, "offer") \ File
    /\ ledger[n].owner[s] # n
    /\ Write(n, [ledger[n] EXCEPT !.owner[s] = n])

(* A tick of what announces a file.                                         *)
ShareFile(n, s) ==
    /\ s \in Runs(n, "offer") \cap File
    /\ ledger[n].owner[s] # n
    /\ Write(n, [ledger[n] EXCEPT !.owner[s] = n])

(* A tick of what announces an egress.                                      *)
EgressService(n) ==
    /\ Runs(n, "egress") # {} /\ n \notin ledger[n].egress
    /\ Write(n, [ledger[n] EXCEPT !.egress = @ \cup {n}])

NewUser(n) ==
    /\ n \notin ledger[n].users
    /\ Write(n, [ledger[n] EXCEPT !.users = @ \cup {n}])

(* A tick of what announces a node with a port for a service.               *)
ConnectService(n) ==
    (\E c \in Call : Caller(c) = n /\ Wants(c) \in Name \ File /\ Begun(c)) /\ NewUser(n)

(* A tick of what announces a node that waits for a file.                   *)
ReceiveFile(n) ==
    (\E c \in Call : Caller(c) = n /\ IsFile(c) /\ Begun(c)) /\ NewUser(n)

ProxyService(n) == Runs(n, "proxy") # {} /\ NewUser(n)

-----------------------------------------------------------------------------
(* The caller *)

Becomes(c, state) ==
    /\ call' = [call EXCEPT ![c] = state]
    /\ UNCHANGED <<started, ledgerVars, faults>>

Owner(c) == ledger[Caller(c)].owner[Wants(c)]

(* A connection was accepted: without an entry in the ledger it is closed.  *)
Look(c) ==
    /\ Wants(c) \in Name \ File /\ call[c].at = "ready" /\ Begun(c)
    /\ Becomes(c, IF Owner(c) = None
                  THEN [call[c] EXCEPT !.at = "over", !.closed = @ \cup {"conn"}]
                  ELSE [call[c] EXCEPT !.at = "chosen", !.to = Owner(c)])

(* ReceiveFile reads the ledger until the file is there, and then again.    *)
FindFile(c) ==
    /\ IsFile(c) /\ call[c].at = "ready" /\ Begun(c) /\ Owner(c) # None
    /\ Becomes(c, [call[c] EXCEPT !.at = "found"])

ChooseFile(c) ==
    /\ IsFile(c) /\ call[c].at = "found"
    /\ Becomes(c, IF Owner(c) = None
                  THEN [call[c] EXCEPT !.at = "over"]
                  ELSE [call[c] EXCEPT !.at = "chosen", !.to = Owner(c)])

(* ServeHTTP reads who is an egress, and then whose health checks are in    *)
(* the ledger and fresh.                                                    *)
ReadEgress(c) ==
    /\ IsProxied(c) /\ call[c].at = "ready" /\ Begun(c)
    /\ Becomes(c, [call[c] EXCEPT !.at = "found", !.egress = ledger[Caller(c)].egress])

AvailableNodes(n) == SUBSET ledger[n].alive

(* The index of the chosen one is drawn below their number less one: with   *)
(* fewer than two it panics, and the connection is closed.  Their order is  *)
(* that of a map, so that any may come first.                               *)
ChooseEgress(c) ==
    /\ IsProxied(c) /\ call[c].at = "found"
    /\ \E nodes \in AvailableNodes(Caller(c)) :
        LET available == call[c].egress \cap nodes
            done == [call[c] EXCEPT !.egress = {}]
        IN  IF Cardinality(available) < 2
            THEN Becomes(c, [done EXCEPT !.at = "over", !.closed = @ \cup {"conn"}])
            ELSE \E n \in available : Becomes(c, [done EXCEPT !.at = "chosen", !.to = n])

(* A protocol has one handler, that of the last name registered with it;    *)
(* it is set before anything is started.                                    *)
LastOf(n, names) ==
    LET those == {i \in DOMAIN Registered(n) :
                    Registered(n)[i].kind = "offer" /\ Registered(n)[i].name \in names}
    IN  IF those = {} THEN None ELSE Registered(n)[Max(those)].name

(* mutated Handles: files and services share a protocol                     *)
HandlesEither(c, n) == LastOf(n, Name)

(* What the handler of the protocol of c offers on n.                       *)
Handles(c, n) == LastOf(n, IF IsFile(c) THEN File ELSE Name \ File)

(* The peer takes streams of the protocol, and no node dials itself.  A     *)
(* proxy takes the printed form of an id for the id, which nobody has.      *)
Reachable(c) ==
    ~ IsProxied(c) /\ call[c].to # Caller(c) /\ Handles(c, call[c].to) # None

NewStream(c) ==
    /\ call[c].at = "chosen" /\ Reachable(c)
    /\ Becomes(c, IF IsFile(c)
                  THEN [call[c] EXCEPT !.at = "create", !.serve = "new"]
                  ELSE [call[c] EXCEPT !.at = "open", !.serve = "new",
                         !.copying = {"up", "down"}])

(* A service's connection is closed, a file is looked for again.            *)
NewStreamFails(c) ==
    /\ call[c].at = "chosen" /\ ~ IsProxied(c)
    /\ Becomes(c, IF IsFile(c)
                  THEN [call[c] EXCEPT !.at = "ready", !.to = None]
                  ELSE [call[c] EXCEPT !.at = "over", !.closed = @ \cup {"conn"}])

(* The request is answered with the error.                                  *)
ProxyFails(c) ==
    /\ IsProxied(c) /\ call[c].at = "chosen"
    /\ Becomes(c, [call[c] EXCEPT !.at = "over", !.closed = @ \cup {"conn"}])

(* The file to save to; without it the stream is left as it is.             *)
CreateFile(c) ==
    /\ call[c].at = "create"
    /\ Becomes(c, [call[c] EXCEPT !.at = "open", !.copying = @ \cup {"down"}])

Fault == faults < MaxFaults /\ faults' = faults + 1

CreateFails(c) ==
    /\ call[c].at = "create"
    /\ Fault /\ UNCHANGED <<started, ledgerVars>>
    /\ call' = [call EXCEPT ![c].at = "over"]

-----------------------------------------------------------------------------
(* The peer *)

(* A handler looks for the caller in the ledger of its own node.            *)
Checked(c) ==
    /\ call[c].serve = "new"
    /\ Becomes(c, IF Caller(c) \in ledger[call[c].to].users
                  THEN [call[c] EXCEPT !.serve = "known"]
                  ELSE [call[c] EXCEPT !.serve = "over", !.reset = TRUE])

CheckService(c) == ~ IsFile(c) /\ Checked(c)

CheckFile(c) == IsFile(c) /\ Checked(c)

Serve(c) ==
    /\ call[c].serve = "known"
    /\ Becomes(c, [call[c] EXCEPT !.serve = "open", !.dest = Handles(c, call[c].to),
                    !.copying = @ \cup (IF IsFile(c) THEN {"farDown"} ELSE {"farUp", "farDown"})])

(* The destination is down.                                                 *)
DialFails(c) ==
    /\ call[c].serve = "known" /\ ~ IsFile(c)
    /\ Becomes(c, [call[c] EXCEPT !.serve = "over", !.reset = TRUE])

(* The file cannot be opened: the handler returns and leaves the stream.    *)
OpenFails(c) ==
    /\ call[c].serve = "known" /\ IsFile(c)
    /\ Fault /\ UNCHANGED <<started, ledgerVars>>
    /\ call' = [call EXCEPT ![c].serve = "over"]

-----------------------------------------------------------------------------
(* Copying *)

(* The network cuts the stream.                                             *)
Reset(c) ==
    /\ call[c].at \in {"create", "open"} /\ ~ call[c].reset
    /\ Fault /\ UNCHANGED <<started, ledgerVars>>
    /\ call' = [call EXCEPT ![c].reset = TRUE]

(* One of the two applications closes its connection.                       *)
HangUp(c, e) ==
    /\ e \in {"conn", "out"} /\ ~ IsFile(c)
    /\ e \notin call[c].hung \cup call[c].closed
    /\ IF e = "conn" THEN call[c].at = "open" ELSE call[c].serve = "open"
    /\ Becomes(c, [call[c] EXCEPT !.hung = @ \cup {e}])

(* A local connection ends when either side of it closes it, the stream     *)
(* also when it is reset or closed at its other end.                        *)
Ended(s, e) ==
    IF e \in {"conn", "out"}
    THEN e \in s.closed \cup s.hung
    ELSE s.reset \/ {"near", "far"} \cap s.closed # {}

Source(g) == CASE g = "up" -> "conn" [] g = "down" -> "near"
               [] g = "farUp" -> "far" [] g = "farDown" -> "out"

Target(g) == CASE g = "up" -> "near" [] g = "down" -> "conn"
               [] g = "farUp" -> "out" [] g = "farDown" -> "far"

(* mutated Signalled: the channel has no buffer                             *)
SignalledNow(s, g) ==
    LET ended == [s EXCEPT !.copying = @ \ {g}, !.stalled = @ \ {g}] IN
    IF g \in {"up", "down"}
    THEN IF s.at = "open" THEN [ended EXCEPT !.signals = @ + 1] ELSE s
    ELSE IF s.serve = "open" THEN [ended EXCEPT !.farSignals = @ + 1] ELSE s

(* The deferred send of copyStream on closer, which holds two signals.      *)
Signalled(s, g) ==
    LET ended == [s EXCEPT !.copying = @ \ {g}, !.stalled = @ \ {g}] IN
    IF g \in {"up", "down"}
    THEN [ended EXCEPT !.signals = @ + 1]
    ELSE [ended EXCEPT !.farSignals = @ + 1]

(* io.Copy sees the end of its source.                                      *)
CopyEnds(c, g) ==
    /\ ~ IsFile(c) /\ g \in call[c].copying \ call[c].stalled
    /\ Ended(call[c], Source(g))
    /\ Becomes(c, Signalled(call[c], g))

(* io.Copy writes, and neither peer nor application reads: the Write has no *)
(* deadline, and does not return as long as its target has not ended.       *)
Stall(c, g) ==
    /\ ~ IsFile(c) /\ g \in call[c].copying \ call[c].stalled
    /\ ~ Ended(call[c], Target(g))
    /\ Becomes(c, [call[c] EXCEPT !.stalled = @ \cup {g}])

(* io.Copy writes, and the target has ended.                                *)
WriteFails(c, g) ==
    /\ ~ IsFile(c) /\ g \in call[c].copying
    /\ Ended(call[c], Target(g))
    /\ Becomes(c, Signalled(call[c], g))

(* A Write that stalled returns when its own end is closed, its application *)
(* hangs up or the stream is reset; it need not when the peer closes only.  *)
StallEnds(c, g) ==
    /\ g \in call[c].stalled
    /\ \/ Target(g) \in call[c].closed \cup call[c].hung
       \/ call[c].reset /\ Target(g) \in {"near", "far"}
    /\ WriteFails(c, g)

(* The first signal makes a side close all it has.                          *)
CloseNear(c) ==
    /\ call[c].at = "open" /\ call[c].signals > 0
    /\ Becomes(c, [call[c] EXCEPT !.at = "over", !.signals = @ - 1,
                    !.closed = @ \cup {"near", "conn"}])

CloseFar(c) ==
    /\ call[c].serve = "open" /\ call[c].farSignals > 0
    /\ Becomes(c, [call[c] EXCEPT !.serve = "over", !.farSignals = @ - 1,
                    !.closed = @ \cup {"far", "out"}])

(* The handler of a file has copied it, or the disk or the stream failed:   *)
(* it does not look at which, and closes the stream.                        *)
SendFile(c) ==
    /\ IsFile(c) /\ call[c].serve = "open"
    /\ Becomes(c, [call[c] EXCEPT !.serve = "over", !.copying = @ \ {"farDown"},
                    !.closed = @ \cup {"far", "out"}])

(* ReceiveFile has copied what it could, does not look at the error, and    *)
(* returns.                                                                 *)
SaveFile(c) ==
    /\ IsFile(c) /\ call[c].at = "open"
    /\ call[c].reset \/ "far" \in call[c].closed
    /\ Becomes(c, [call[c] EXCEPT !.at = "over", !.copying = @ \ {"down"}])

-----------------------------------------------------------------------------

CallerStep(c) ==
    \/ Look(c) \/ FindFile(c) \/ ChooseFile(c) \/ NewStream(c)
    \/ CreateFile(c) \/ ReadEgress(c) \/ ChooseEgress(c) \/ ProxyFails(c)

PeerStep(c) == CheckService(c) \/ CheckFile(c) \/ Serve(c)

CloseStep(c) ==
    \/ \E g \in Copier : CopyEnds(c, g)
    \/ CloseNear(c) \/ CloseFar(c) \/ SendFile(c) \/ SaveFile(c)

Step ==
    \/ \E n, m \in Node : Gossip(n, m)
    \/ \E n \in Node, s \in Name : ExposeService(n, s) \/ ShareFile(n, s)
    \/ \E n \in Node : ConnectService(n) \/ ReceiveFile(n) \/ StartNext(n)
    \/ \E n \in Node : ProxyService(n) \/ EgressService(n)
    \/ \E c \in Call : CallerStep(c) \/ NewStreamFails(c) \/ CreateFails(c)
    \/ \E c \in Call : PeerStep(c) \/ DialFails(c) \/ OpenFails(c)
    \/ \E c \in Call : CloseStep(c) \/ Reset(c)
    \/ \E c \in Call, e \in End : HangUp(c, e)
    \/ \E c \in Call, g \in Copier : Stall(c, g) \/ WriteFails(c, g)

Next == Step /\ UNCHANGED deployment

Spec == Init /\ [][Next]_vars

(* Goroutines run on, and the Syncronizer sends the last block again and    *)
(* again; streams, destinations and applications owe nothing, and what a    *)
(* peer sends goes nowhere unless it is read: a Write may stall for ever.   *)
(* (Announcing is strongly fair because MaxAhead may hold it up, which no   *)
(* ticker does.)                                                            *)
Fairness ==
    /\ \A n \in Node : WF_vars(StartNext(n) /\ UNCHANGED deployment)
    /\ WF_vars((\E n, m \in Node : Gossip(n, m)) /\ UNCHANGED deployment)
    /\ \A n \in Node :
        SF_vars((\E s \in Name : ExposeService(n, s) \/ ShareFile(n, s)) /\ UNCHANGED deployment)
    /\ \A c \in Call :
        /\ WF_vars(PeerStep(c) /\ UNCHANGED deployment)
        /\ \A g \in Copier : /\ WF_vars(CopyEnds(c, g) /\ UNCHANGED deployment)
                              /\ WF_vars(StallEnds(c, g) /\ UNCHANGED deployment)
        /\ WF_vars(CloseNear(c) /\ UNCHANGED deployment)
        /\ WF_vars(CloseFar(c) /\ UNCHANGED deployment)
        /\ WF_vars((call[c].at = "open" \/ call[c].reset) /\ SendFile(c)
                     /\ UNCHANGED deployment)
        /\ WF_vars((CreateFile(c) \/ SaveFile(c)) /\ UNCHANGED deployment)
        /\ WF_vars((ChooseEgress(c) \/ ProxyFails(c)) /\ UNCHANGED deployment)

FairSpec == Spec /\ Fairness

-----------------------------------------------------------------------------
(* Properties *)

Offers(n) == {r.name : r \in {r \in ToSet(Registered(n)) : r.kind = "offer"}}

(* The nodes that offer one service and one file at most.                   *)
Plain(n) ==
    /\ Cardinality(Offers(n) \ File) <= 1
    /\ Cardinality(Offers(n) \cap File) <= 1

(* A call reaches what it asked for, whichever of several nodes has the     *)
(* name in a ledger however old.  A node that registers two services hands  *)
(* the streams of both to the last one, so it must not.                     *)
RightService ==
    (\A n \in Node : Plain(n)) =>
        \A c \in Call : call[c].dest \in {None, Wants(c)}

(* Nothing of a call is left: the caller has returned, the copying has      *)
(* stopped, and both local connections are closed.                          *)
Gone(c) ==
    /\ call[c].at = "over" /\ call[c].copying = {}
    /\ call[c].serve \in {"none", "over"}
    /\ ~ IsFile(c) => "conn" \in call[c].closed
    /\ call[c].dest # None => "out" \in call[c].closed

(* An application hung up, the stream was cut, both ends opened the file, or *)
(* a proxy has begun with a request.                                        *)
Ending(c) ==
    \/ IsProxied(c) /\ call[c].at # "ready"
    \/ call[c].hung # {} \/ call[c].reset
    \/ IsFile(c) /\ call[c].serve = "open" /\ call[c].at = "open"

(* When either application hangs up, or both sides have opened the file, no *)
(* goroutine and no connection is left on either side in the end, whatever  *)
(* else ends or is cut meanwhile, if no Write stalls for ever; nor when the *)
(* stream is cut, nor of a request to a proxy.  A Write that nobody reads   *)
(* keeps its goroutine, which then does not see its source end.             *)
NothingLeft ==
    \A c \in Call : []<>(call[c].stalled = {}) => (Ending(c) ~> Gone(c))

(* Nothing that connects is registered with n before it offers s.           *)
Unhindered(n, s) ==
    \E i \in 1 .. Len(Registered(n)) :
        /\ Registered(n)[i] = [kind |-> "offer", name |-> s]
        /\ \A j \in 1 .. i - 1 : Registered(n)[j].kind = "offer"

(* What nodes offer gets into their ledgers, and stays there under one name *)
(* or another, unless something that connects is registered before it       *)
(* (Node.Start runs what is registered one by one).                         *)
Offered ==
    <>[](\A n \in Node, s \in Name : Unhindered(n, s) => ledger[n].owner[s] # None)
=============================================================================
