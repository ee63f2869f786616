-------------------------- MODULE EventLoopProofs --------------------------
(***************************************************************************)
(* Proofs about EventLoop: channels never exceed their capacities, the     *)
(* wedge, once reached, is for ever, and nothing else makes all goroutines *)
(* wait, for every number of workers and every size of the channels.  A    *)
(* larger channel makes the wedge rarer, it does not make it go away.      *)
(***************************************************************************)
EXTENDS EventLoop, TLAPS

(* The names of the channels and of the fixed goroutines are distinct.      *)
LEMMA Names ==
    /\ "inputCh" \in Channel \ Room /\ "genericHubCh" \in Channel \ Room
    /\ Room \subseteq Channel /\ Size("inputCh") = ChanSize
    /\ Loop \subseteq Goroutine /\ Worker \subseteq Goroutine /\ "sync" \in Goroutine
    /\ "sync" \notin Loop \cup Worker /\ Loop \cap Worker = {}
    /\ \A l \in Loop : In(l) \in Channel /\ Out(l) \in Channel
    /\ \A c \in Channel : Size(c) \in Nat
BY EventLoopAssumption DEF Channel, Room, Size, Loop, Goroutine, In, Out

(* A goroutine that moves from a state to one its kind can be in.           *)
LEMMA GotoType ==
    ASSUME TypeOK, NEW g \in Goroutine, NEW from, NEW to, Goto(g, from, to),
           g = "sync" => to \in SyncState,
           g \in Loop => to \in LoopState,
           g \in Worker => to \in WorkerState
    PROVE  /\ pc' \in [Goroutine -> State]
           /\ pc'["sync"] \in SyncState
           /\ \A l \in Loop : pc'[l] \in LoopState
           /\ \A w \in Worker : pc'[w] \in WorkerState
<1>1. to \in State
  BY DEF Goroutine, State
<1>2. pc' = [pc EXCEPT ![g] = to] /\ pc \in [Goroutine -> State]
  BY DEF Goto, TypeOK
<1>3. \A x \in Goroutine : pc'[x] = IF x = g THEN to ELSE pc[x]
  BY <1>2
<1>4. QED
  BY <1>1, <1>2, <1>3, Names DEF TypeOK

(* A send keeps every channel within its capacity.                          *)
LEMMA PutType ==
    ASSUME TypeOK, NEW c \in Channel, Put(c)
    PROVE  queue' \in [Channel -> Nat] /\ \A d \in Channel : queue'[d] <= Size(d)
BY Names DEF TypeOK, Put

(* So does a receive.                                                       *)
LEMMA TakeType ==
    ASSUME TypeOK, NEW c \in Channel, Take(c)
    PROVE  queue' \in [Channel -> Nat] /\ \A d \in Channel : queue'[d] <= Size(d)
BY Names DEF TypeOK, Take

(* Every step of the goroutines and of the environment keeps the types.     *)
LEMMA TypeStep == TypeOK /\ [Next]_vars => TypeOK'
<1> SUFFICES ASSUME TypeOK, [Next]_vars PROVE TypeOK'
  OBVIOUS
<1> USE Names
<1> DEFINE PcOK == /\ pc' \in [Goroutine -> State]
                   /\ pc'["sync"] \in SyncState
                   /\ \A l \in Loop : pc'[l] \in LoopState
                   /\ \A w \in Worker : pc'[w] \in WorkerState
           QueueOK == queue' \in [Channel -> Nat] /\ \A d \in Channel : queue'[d] <= Size(d)
<1>1. ASSUME PcOK, QueueOK, cancelled' \in BOOLEAN PROVE TypeOK'
  BY <1>1 DEF TypeOK
<1>2. queue' = queue => QueueOK
  BY DEF TypeOK
<1>3. pc' = pc => PcOK
  BY DEF TypeOK
<1>4. cancelled' = cancelled => cancelled' \in BOOLEAN
  BY DEF TypeOK
<1> HIDE DEF PcOK, QueueOK
<1>5. CASE SyncTick
  <2>1. PcOK
    BY <1>5, GotoType DEF SyncTick, SyncState, PcOK
  <2>2. QED
    BY <1>1, <1>2, <1>4, <1>5, <2>1 DEF SyncTick
<1>6. CASE SyncSend
  <2>1. PcOK
    BY <1>6, GotoType DEF SyncSend, SyncState, PcOK
  <2>2. QueueOK
    BY <1>6, PutType DEF SyncSend, QueueOK
  <2>3. QED
    BY <1>1, <1>4, <1>6, <2>1, <2>2 DEF SyncSend
<1>7. ASSUME NEW w \in Worker, Tick(w) \/ Read(w) \/ Store(w) PROVE TypeOK'
  <2>1. /\ \E from, to : Goto(w, from, to) /\ to \in WorkerState
        /\ queue' = queue /\ cancelled' = cancelled
    BY <1>7 DEF Tick, Read, Store, WorkerState
  <2>2. PcOK
    BY <2>1, GotoType DEF PcOK
  <2>3. QED
    BY <1>1, <1>2, <1>4, <2>1, <2>2
<1>8. ASSUME NEW w \in Worker, Send(w) \/ Challenge(w) PROVE TypeOK'
  <2>1. /\ \E from, to : Goto(w, from, to) /\ to \in WorkerState
        /\ \E c \in Channel : Put(c)
        /\ cancelled' = cancelled
    BY <1>8 DEF Send, Challenge, WorkerState
  <2>2. PcOK
    BY <2>1, GotoType DEF PcOK
  <2>3. QueueOK
    BY <2>1, PutType DEF QueueOK
  <2>4. QED
    BY <1>1, <1>4, <2>1, <2>2, <2>3
<1>9. ASSUME NEW l \in Loop, TakeOutgoing(l) \/ TakeMessage(l) PROVE TypeOK'
  <2>1. /\ \E from, to : Goto(l, from, to) /\ to \in LoopState
        /\ \E c \in Channel : Take(c)
        /\ cancelled' = cancelled
    BY <1>9 DEF TakeOutgoing, TakeMessage, LoopState
  <2>2. PcOK
    BY <2>1, GotoType DEF PcOK
  <2>3. QueueOK
    BY <2>1, TakeType DEF QueueOK
  <2>4. QED
    BY <1>1, <1>4, <2>1, <2>2, <2>3
<1>10. ASSUME NEW l \in Loop, Finish(l) PROVE TypeOK'
  <2>1. /\ \E from, to : Goto(l, from, to) /\ to \in LoopState
        /\ queue' = queue /\ cancelled' = cancelled
    BY <1>10 DEF Finish, Publish, Drop, Decode, Update, LoopState
  <2>2. PcOK
    BY <2>1, GotoType DEF PcOK
  <2>3. QED
    BY <1>1, <1>2, <1>4, <2>1, <2>2
<1>11. ASSUME NEW c \in Room, Receive(c) PROVE TypeOK'
  <2>1. QueueOK
    BY <1>11, PutType DEF Receive, QueueOK
  <2>2. QED
    BY <1>1, <1>3, <1>4, <1>11, <2>1 DEF Receive
<1>12. CASE Cancel
  BY <1>1, <1>2, <1>3, <1>12 DEF Cancel
<1>13. ASSUME NEW g \in Goroutine, End(g) PROVE TypeOK'
  <2>1. PcOK
    BY <1>13, GotoType DEF End, PcOK, SyncState, LoopState, WorkerState
  <2>2. QED
    BY <1>1, <1>2, <1>4, <1>13, <2>1 DEF End
<1>14. CASE UNCHANGED vars
  BY <1>1, <1>2, <1>3, <1>4, <1>14 DEF vars
<1>15. QED
  BY <1>5, <1>6, <1>7, <1>8, <1>9, <1>10, <1>11, <1>12, <1>13, <1>14
     DEF Next, Work, Proceed

(* Channels never hold more than their capacity, goroutines are where their *)
(* code can be.                                                             *)
THEOREM TypeCorrect == Spec => []TypeOK
<1>1. ASSUME Init PROVE TypeOK
  <2>1. queue \in [Channel -> Nat] /\ \A c \in Channel : queue[c] <= Size(c)
    BY <1>1, Names DEF Init
  <2>2. "select" \in SyncState \cap LoopState \cap WorkerState
    BY DEF SyncState, LoopState, WorkerState
  <2>3. /\ pc \in [Goroutine -> State] /\ pc["sync"] \in SyncState
        /\ \A l \in Loop : pc[l] \in LoopState
        /\ \A w \in Worker : pc[w] \in WorkerState
    BY <1>1, <2>2, Names DEF Init, State
  <2>4. QED
    BY <1>1, <2>1, <2>3 DEF Init, TypeOK
<1>2. QED
  BY <1>1, TypeStep, PTL DEF Spec

(* A wedged node stays wedged: the two goroutines of the wedge cannot move, *)
(* and nothing else takes from inputCh, frees the lock or moves them.       *)
THEOREM WedgeForEver == Spec => WedgeIsForEver
<1>1. TypeOK /\ [Next]_vars => (Wedged => Wedged')
  <2> SUFFICES ASSUME TypeOK, Wedged, [Next]_vars PROVE Wedged'
    OBVIOUS
  <2> USE Names
  <2>1. /\ pc["sync"] = "locked" /\ pc["loop"] = "update"
        /\ queue["inputCh"] = ChanSize /\ ~ LockFree
        /\ pc \in [Goroutine -> State] /\ queue \in [Channel -> Nat]
    BY DEF Wedged, LockFree, TypeOK
  <2>2. ASSUME NEW g \in Goroutine, NEW from, NEW to, Goto(g, from, to),
               from # "locked", g = "loop" => from # "update"
        PROVE  pc'["sync"] = "locked" /\ pc'["loop"] = "update"
    BY <2>1, <2>2 DEF Goto, Loop
  <2>3. ASSUME NEW c \in Channel, c # "inputCh", Put(c) \/ Take(c)
        PROVE  queue'["inputCh"] = ChanSize
    BY <2>1, <2>3 DEF Put, Take
  <2>4. ~ Put("inputCh") /\ ~ SyncSend
    BY <2>1, EventLoopAssumption DEF Put, SyncSend
  <2>5. CASE SyncTick
    BY <2>1, <2>5 DEF SyncTick, Goto
  <2>6. ASSUME NEW w \in Worker, Tick(w) \/ Read(w) \/ Store(w) PROVE Wedged'
    BY <2>1, <2>2, <2>6 DEF Tick, Read, Store, Wedged
  <2>7. ASSUME NEW w \in Worker, Send(w) \/ Challenge(w) PROVE Wedged'
    <3>1. Challenge(w)
      BY <2>4, <2>7 DEF Send
    <3>2. pc'["sync"] = "locked" /\ pc'["loop"] = "update"
      BY <2>2, <3>1 DEF Challenge
    <3>3. queue'["inputCh"] = ChanSize
      BY <2>3, <3>1 DEF Challenge
    <3>4. QED
      BY <3>2, <3>3 DEF Wedged
  <2>8. ASSUME NEW l \in Loop, TakeOutgoing(l) \/ TakeMessage(l) PROVE Wedged'
    <3>1. l = "ploop"
      BY <2>1, <2>8 DEF TakeOutgoing, TakeMessage, Goto, Loop
    <3>2. In(l) # "inputCh" /\ Out(l) # "inputCh"
      BY <3>1 DEF In, Out
    <3>3. pc'["sync"] = "locked" /\ pc'["loop"] = "update"
      BY <2>2, <2>8, <3>1 DEF TakeOutgoing, TakeMessage
    <3>4. queue'["inputCh"] = ChanSize
      BY <2>3, <2>8, <3>2 DEF TakeOutgoing, TakeMessage
    <3>5. QED
      BY <3>3, <3>4 DEF Wedged
  <2>9. ASSUME NEW l \in Loop, Finish(l) PROVE Wedged'
    BY <2>1, <2>2, <2>9 DEF Finish, Publish, Drop, Decode, Update, Wedged
  <2>10. ASSUME NEW c \in Room, Receive(c) PROVE Wedged'
    BY <2>1, <2>3, <2>10 DEF Receive, Wedged
  <2>11. CASE Cancel \/ UNCHANGED vars
    BY <2>11 DEF Cancel, vars, Wedged
  <2>12. ASSUME NEW g \in Goroutine, End(g) PROVE Wedged'
    BY <2>1, <2>2, <2>12 DEF End, Wedged
  <2>13. QED
    BY <2>4, <2>5, <2>6, <2>7, <2>8, <2>9, <2>10, <2>11, <2>12 DEF Next, Work, Proceed
<1>2. QED
  BY <1>1, TypeCorrect, PTL DEF Spec, WedgeIsForEver

-----------------------------------------------------------------------------
(* What goroutines wait for                                                *)

(* g can do nothing of Work: it holds no lock that is free for the taking,  *)
(* no room is left where it sends, nothing is there for it to receive.      *)
WaitsForLock(g) == pc[g] \in {"read", "store", "update"} /\ ~ LockFree

WaitsForRoom(g) ==
    \/ pc[g] \in {"send", "locked"} /\ queue["inputCh"] = ChanSize
    \/ pc[g] = "challenge" /\ queue["genericHubCh"] = ChanSize

WaitsForMessage(l) == pc[l] = "select" /\ queue[In(l)] = 0 /\ queue[Out(l)] = 0

Waits(g) ==
    \/ WaitsForLock(g)
    \/ WaitsForRoom(g)
    \/ g \in Loop /\ WaitsForMessage(g)
    \/ g \notin Loop /\ pc[g] = "select"
    \/ pc[g] = "ended"

AllWait == \A g \in Goroutine : Waits(g)

(* Whoever has ended saw the end of the context.                            *)
EndedByContext == \A g \in Goroutine : pc[g] = "ended" => cancelled

(* When all wait there is no step of Work: Waits leaves nothing out that    *)
(* could go on.                                                             *)
LEMMA WaitingIsIdle == TypeOK /\ AllWait => ~ Work
<1> SUFFICES ASSUME TypeOK, AllWait PROVE ~ Work
  OBVIOUS
<1> USE Names
<1>1. ~ SyncSend
  BY DEF AllWait, Waits, WaitsForLock, WaitsForRoom, SyncSend, Goto, Put, TypeOK
<1>2. ASSUME NEW w \in Worker PROVE ~ Proceed(w)
  <2>1. Waits(w) /\ w \notin Loop /\ Size("genericHubCh") = ChanSize
    BY DEF AllWait, Size, Room
  <2>2. ~ Read(w) /\ ~ Store(w)
    BY <2>1 DEF Waits, WaitsForLock, WaitsForRoom, Read, Store, Goto
  <2>3. ~ Send(w) /\ ~ Challenge(w)
    BY <2>1, EventLoopAssumption DEF Waits, WaitsForLock, WaitsForRoom, Send, Challenge, Goto, Put
  <2> QED
    BY <2>2, <2>3 DEF Proceed
<1>3. ASSUME NEW l \in Loop PROVE ~ TakeOutgoing(l) /\ ~ TakeMessage(l) /\ ~ Finish(l)
  <2>1. Waits(l)
    BY DEF AllWait
  <2>2. ~ TakeOutgoing(l) /\ ~ TakeMessage(l)
    BY <2>1 DEF Waits, WaitsForLock, WaitsForRoom, WaitsForMessage, TakeOutgoing, TakeMessage, Goto, Take
  <2>3. ~ Finish(l)
    BY <2>1 DEF Waits, WaitsForLock, WaitsForRoom, WaitsForMessage, Finish, Publish, Drop, Decode, Update, Goto
  <2> QED
    BY <2>2, <2>3
<1> QED
  BY <1>1, <1>2, <1>3 DEF Work

LEMMA EndedStep == TypeOK /\ EndedByContext /\ [Next]_vars => EndedByContext'
<1> SUFFICES ASSUME TypeOK, EndedByContext, [Next]_vars PROVE EndedByContext'
  OBVIOUS
<1> USE Names
<1>1. ASSUME NEW g \in Goroutine, NEW from, NEW to, Goto(g, from, to), to # "ended",
             cancelled' = cancelled
      PROVE  EndedByContext'
  BY <1>1 DEF Goto, EndedByContext, TypeOK
<1>2. CASE SyncTick \/ SyncSend
  BY <1>1, <1>2 DEF SyncTick, SyncSend
<1>3. ASSUME NEW w \in Worker, Tick(w) \/ Proceed(w) PROVE EndedByContext'
  BY <1>1, <1>3 DEF Tick, Proceed, Read, Store, Send, Challenge
<1>4. ASSUME NEW l \in Loop, TakeOutgoing(l) \/ TakeMessage(l) \/ Finish(l) PROVE EndedByContext'
  BY <1>1, <1>4 DEF TakeOutgoing, TakeMessage, Finish, Publish, Drop, Decode, Update
<1>5. ASSUME NEW c \in Room, Receive(c) PROVE EndedByContext'
  BY <1>5 DEF Receive, EndedByContext
<1>6. CASE Cancel \/ UNCHANGED vars
  BY <1>6 DEF Cancel, vars, EndedByContext
<1>7. ASSUME NEW g \in Goroutine, End(g) PROVE EndedByContext'
  BY <1>7 DEF End, EndedByContext, Goto, TypeOK
<1> QED
  BY <1>2, <1>3, <1>4, <1>5, <1>6, <1>7 DEF Next, Work

(* OnlyTheWedgeBlocks without ENABLED, for any workers and channels: while   *)
(* the node runs and somebody is in the middle of something, not all        *)
(* goroutines wait, unless the node is wedged.                              *)
THEOREM OnlyTheWedge == Spec => [](Busy /\ ~ cancelled /\ AllWait => Wedged)
<1>1. Init => EndedByContext
  BY DEF Init, EndedByContext
<1>2. TypeOK /\ EndedByContext => (Busy /\ ~ cancelled /\ AllWait => Wedged)
  <2> SUFFICES ASSUME TypeOK, EndedByContext, Busy, ~ cancelled, AllWait PROVE Wedged
    OBVIOUS
  <2> USE Names, EventLoopAssumption
  <2>1. PICK g \in Goroutine : pc[g] \notin {"select", "ended"}
    BY DEF Busy
  <2>2. \A h \in Goroutine : Waits(h) /\ pc[h] # "ended"
    BY DEF AllWait, EndedByContext
  <2>3. "loop" \in Loop /\ "ploop" \in Loop
    BY DEF Loop
  <2>4. ~ LockFree => Wedged
    <3> SUFFICES ASSUME ~ LockFree PROVE Wedged
      OBVIOUS
    <3>1. pc["sync"] = "locked" /\ queue["inputCh"] = ChanSize
      BY <2>2 DEF LockFree, Waits, WaitsForLock, WaitsForRoom
    <3>2. pc["loop"] = "update"
      BY <2>2, <2>3, <3>1 DEF Waits, WaitsForLock, WaitsForRoom, WaitsForMessage, Out, TypeOK, LoopState
    <3> QED
      BY <3>1, <3>2 DEF Wedged
  <2>5. \A l \in Loop : queue[Out(l)] = ChanSize => ~ LockFree
    BY <2>2 DEF Waits, WaitsForLock, WaitsForRoom, WaitsForMessage, TypeOK, LoopState
  <2>6. WaitsForLock(g) \/ WaitsForRoom(g)
    BY <2>1, <2>2 DEF Waits, WaitsForMessage
  <2>7. WaitsForRoom(g) => ~ LockFree
    BY <2>3, <2>5 DEF WaitsForRoom, Out
  <2> QED
    BY <2>4, <2>6, <2>7 DEF WaitsForLock
<1> QED
  BY <1>1, <1>2, EndedStep, TypeStep, TypeCorrect, PTL DEF Spec
=============================================================================
