----------------------------- MODULE EventLoop -----------------------------
(***************************************************************************)
(* The goroutines of one node that share the ledger's lock and the         *)
(* channels of pkg/node, and what they wait for.                           *)
(*                                                                         *)
(*   sync      the Syncronizer: takes the ledger's lock and sends on       *)
(*             inputCh while it holds it                                   *)
(*   workers   Announce loops and API calls: they read and store under the *)
(*             lock and send on inputCh without it; the Challenger sends   *)
(*             on genericHubCh                                             *)
(*   loop      handleEvents of the ledger: the only reader of inputCh and  *)
(*             of the room's Messages; Update takes the lock               *)
(*   ploop     handleEvents of the public room: the only reader of         *)
(*             genericHubCh and of PublicMessages; ReceiveMessage takes    *)
(*             the lock to read the ledger                                 *)
(*                                                                         *)
(* A channel is bounded, a send on a full one blocks, and what a message   *)
(* says does not matter here: a channel is the number of messages in it.   *)
(* A section that holds the lock and cannot block is one action guarded by *)
(* the lock being free.  Only sync blocks while it holds the lock, so the  *)
(* lock is taken exactly when sync is "locked".                            *)
(***************************************************************************)
EXTENDS Integers

CONSTANTS
    Worker,     \* goroutines that use the ledger
    ChanSize,   \* capacity of inputCh and genericHubCh (defaultChanSize)
    RoomSize    \* capacity of a room's channel (roomBufSize)

ASSUME EventLoopAssumption ==
    /\ ChanSize \in Nat \ {0}
    /\ RoomSize \in Nat \ {0}
    /\ Worker \cap {"sync", "loop", "ploop"} = {}

Loop == {"loop", "ploop"}
Goroutine == Worker \cup Loop \cup {"sync"}

Room == {"Messages", "PublicMessages"}
Channel == Room \cup {"inputCh", "genericHubCh"}
Size(c) == IF c \in Room THEN RoomSize ELSE ChanSize

SyncState == {"select", "locked", "ended"}
LoopState == {"select", "publish", "handle", "update", "ended"}
WorkerState == {"select", "read", "store", "send", "challenge", "ended"}
State == SyncState \cup LoopState \cup WorkerState

(* The channels a loop selects on.                                          *)
In(l) == IF l = "loop" THEN "Messages" ELSE "PublicMessages"
Out(l) == IF l = "loop" THEN "inputCh" ELSE "genericHubCh"

VARIABLES
    queue,      \* channel -> messages in it
    pc,         \* goroutine -> where it is
    cancelled   \* the context of the node is done

vars == <<queue, pc, cancelled>>

Init ==
    /\ queue = [c \in Channel |-> 0]
    /\ pc = [g \in Goroutine |-> "select"]
    /\ cancelled = FALSE

-----------------------------------------------------------------------------

Goto(g, from, to) ==
    /\ pc[g] = from
    /\ pc' = [pc EXCEPT ![g] = to]

(* mutated Put: a channel takes one message more than it has room for       *)
PutPast(c) ==
    /\ queue[c] <= Size(c)
    /\ queue' = [queue EXCEPT ![c] = @ + 1]

Put(c) ==
    /\ queue[c] < Size(c)
    /\ queue' = [queue EXCEPT ![c] = @ + 1]

Take(c) ==
    /\ queue[c] > 0
    /\ queue' = [queue EXCEPT ![c] = @ - 1]

(* mutated LockFree: writeData keeps the lock until it has sent its block   *)
LockFreeIfSent == pc["sync"] # "locked" /\ \A w \in Worker : pc[w] # "send"

LockFree == pc["sync"] # "locked"

(* Syncronizer *)

SyncTick ==
    /\ Goto("sync", "select", "locked")
    /\ UNCHANGED <<queue, cancelled>>

SyncSend ==
    /\ Goto("sync", "locked", "select")
    /\ Put("inputCh")
    /\ UNCHANGED cancelled

(* Workers *)

Tick(w) ==
    /\ Goto(w, "select", "read")
    /\ UNCHANGED <<queue, cancelled>>

(* The current data is read: there is nothing to do, a challenge to send, a *)
(* block to store, or one that turns out not to be valid.                   *)
Read(w) ==
    /\ LockFree
    /\ \E to \in {"select", "challenge", "store", "send"} : Goto(w, "read", to)
    /\ UNCHANGED <<queue, cancelled>>

Store(w) ==
    /\ LockFree
    /\ Goto(w, "store", "send")
    /\ UNCHANGED <<queue, cancelled>>

Send(w) ==
    /\ Goto(w, "send", "select")
    /\ Put("inputCh")
    /\ UNCHANGED cancelled

Challenge(w) ==
    /\ Goto(w, "challenge", "select")
    /\ Put("genericHubCh")
    /\ UNCHANGED cancelled

(* handleEvents *)

TakeOutgoing(l) ==
    /\ Goto(l, "select", "publish")
    /\ Take(Out(l))
    /\ UNCHANGED cancelled

(* mutated Publish: an error of pub ends the loop instead of being logged   *)
PublishOrEnd(l) ==
    /\ \E to \in {"select", "ended"} : Goto(l, "publish", to)
    /\ UNCHANGED <<queue, cancelled>>

(* pub under the hub's lock; an error is logged.                            *)
Publish(l) ==
    /\ Goto(l, "publish", "select")
    /\ UNCHANGED <<queue, cancelled>>

TakeMessage(l) ==
    /\ Goto(l, "select", "handle")
    /\ Take(In(l))
    /\ UNCHANGED cancelled

(* A message that is gated, or that no handler can decode.                  *)
Drop(l) ==
    /\ Goto(l, "handle", "select")
    /\ UNCHANGED <<queue, cancelled>>

(* A message whose handler goes on to the ledger waits for the lock.        *)
Decode(l) ==
    /\ Goto(l, "handle", "update")
    /\ UNCHANGED <<queue, cancelled>>

(* mutated Update: the lock is not taken                                    *)
UpdateUnlocked(l) ==
    /\ Goto(l, "update", "select")
    /\ UNCHANGED <<queue, cancelled>>

Update(l) ==
    /\ LockFree
    /\ Goto(l, "update", "select")
    /\ UNCHANGED <<queue, cancelled>>

(* The environment: readLoop of a room, and the end of the node's context,  *)
(* which each goroutine notices in its select only.                         *)

Receive(c) ==
    /\ Put(c)
    /\ UNCHANGED <<pc, cancelled>>

Cancel ==
    /\ ~ cancelled
    /\ cancelled' = TRUE
    /\ UNCHANGED <<queue, pc>>

End(g) ==
    /\ cancelled
    /\ Goto(g, "select", "ended")
    /\ UNCHANGED <<queue, cancelled>>

-----------------------------------------------------------------------------

(* What a goroutine does once it has something to do.                       *)
Proceed(w) == Read(w) \/ Store(w) \/ Send(w) \/ Challenge(w)
Finish(l) == Publish(l) \/ Drop(l) \/ Decode(l) \/ Update(l)

Work ==
    \/ SyncSend
    \/ \E w \in Worker : Proceed(w)
    \/ \E l \in Loop : TakeOutgoing(l) \/ TakeMessage(l) \/ Finish(l)

Next ==
    \/ Work
    \/ SyncTick
    \/ \E w \in Worker : Tick(w)
    \/ \E c \in Room : Receive(c)
    \/ Cancel
    \/ \E g \in Goroutine : End(g)

Spec == Init /\ [][Next]_vars

(* Runnable goroutines run; Go's select picks among the ready cases at      *)
(* random, its mutexes and channels serve waiters in turn: what is possible *)
(* again and again happens.                                                 *)
Fairness ==
    /\ WF_vars(SyncTick) /\ SF_vars(SyncSend)
    /\ \A w \in Worker : SF_vars(Proceed(w))
    /\ \A l \in Loop :
        SF_vars(TakeOutgoing(l)) /\ SF_vars(TakeMessage(l)) /\ SF_vars(Finish(l))

FairSpec == Spec /\ Fairness

-----------------------------------------------------------------------------
(* Properties *)

(* Channels stay within their capacities and goroutines where they can be.  *)
TypeOK ==
    /\ queue \in [Channel -> Nat]
    /\ \A c \in Channel : queue[c] <= Size(c)
    /\ pc \in [Goroutine -> State]
    /\ pc["sync"] \in SyncState
    /\ \A l \in Loop : pc[l] \in LoopState
    /\ \A w \in Worker : pc[w] \in WorkerState
    /\ cancelled \in BOOLEAN

(* The Syncronizer waits, lock in hand, for room in inputCh, and the loop   *)
(* that would make room waits for the lock in Update.                       *)
Wedged ==
    /\ pc["sync"] = "locked"
    /\ queue["inputCh"] = ChanSize
    /\ pc["loop"] = "update"

(* Goroutines that are in the middle of something.                          *)
Busy == \E g \in Goroutine : pc[g] \notin {"select", "ended"}

(* While the node runs, the wedge is the only way its goroutines can end up *)
(* all waiting for each other: no other combination of full channels and    *)
(* the lock blocks, also not through the public room.                       *)
OnlyTheWedgeBlocks ==
    Busy /\ ~ cancelled => Wedged \/ ENABLED Work

(* The wedge is for ever: no message received, no tick and not even the end *)
(* of the node's context takes the node out of it.                          *)
WedgeIsForEver == [][Wedged => Wedged']_vars

(* As long as the node is not wedged and runs on, everything a goroutine    *)
(* has begun is finished: reads and writes of the ledger return, and what   *)
(* was received is handled.                                                 *)
WorkIsDone ==
    [](~ Wedged /\ ~ cancelled) =>
        /\ \A g \in Goroutine : []<>(pc[g] = "select")
        /\ \A c \in Channel : []<>(queue[c] < Size(c))

=============================================================================
