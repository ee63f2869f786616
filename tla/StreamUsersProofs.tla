------------------------- MODULE StreamUsersProofs -------------------------
(***************************************************************************)
(* Proofs about the two that live on the stream manager, Decayer and       *)
(* Forwarder, from what StreamManagerProofs shows of the manager itself.   *)
(*                                                                         *)
(* Of Decayer, for any peers, tags, names, intervals and sizes of the      *)
(* queues: no tag falls behind while ticks are not further apart than its  *)
(* interval, a closed tag that is gone is gone for good, and the value of  *)
(* an entry is the total of its ordinary and decaying tags.                *)
(*                                                                         *)
(* Of Forwarder, for any workers, addresses, peers, streams, tables and    *)
(* bounds: the streams it opens are closed, and a frame goes to a peer     *)
(* that had its address, on a stream to that peer.                         *)
(***************************************************************************)
EXTENDS Decayer, Forwarder, StreamManagerProofs

-----------------------------------------------------------------------------
(* The clock of the tags *)

(* Outside a tick's round tracked tags are within their interval.  In one   *)
(* they are less than an interval late, and those that are due are visited. *)
OnTime == dpc # "decay" => \A t \in knownTags : left[t] \in 1 .. Interval[t]

Late ==
    dpc = "decay" =>
        /\ visit = {t \in knownTags : left[t] <= 0}
        /\ \A t \in knownTags : -Interval[t] < left[t] /\ left[t] <= Interval[t]

ClockInv ==
    /\ left \in [DecayingTag -> Int]
    /\ knownTags \subseteq DecayingTag
    /\ OnTime /\ Late

LEMMA ClockInit == DecayerInit => ClockInv
BY DecayerAssumption DEF DecayerInit, ClockInv, OnTime, Late

(* Steps that change neither the clock nor the place of process.            *)
LEMMA ClockKept ==
    ASSUME ClockInv, left' = left, knownTags' \subseteq knownTags,
           dpc' = dpc \/ (dpc = "select" /\ dpc' \in {"close", "ended"})
                      \/ (dpc = "close" /\ dpc' = "select"),
           dpc = "decay" => visit' = visit /\ knownTags' = knownTags
    PROVE  ClockInv'
BY DEF ClockInv, OnTime, Late

(* A tick takes at most an interval off, and a round gives an interval back *)
(* to the tags it took to zero or below.                                    *)
LEMMA ClockStep ==
    ASSUME \A t \in DecayingTag : MaxJump <= Interval[t],
           ClockInv, [DecayerNext]_decayerVars
    PROVE  ClockInv'
<1> USE DecayerAssumption
<1>1. ASSUME NEW t \in DecayingTag, RegisterDecayingTag(t) PROVE ClockInv'
  <2>1. /\ left' = [left EXCEPT ![t] = Interval[t]]
        /\ knownTags' = knownTags \cup {t}
        /\ dpc' = dpc /\ visit' = visit /\ t \notin Named(Name[t])
    BY <1>1 DEF RegisterDecayingTag, roundVars
  <2>2. t \notin knownTags
    BY <2>1 DEF Named
  <2>3. /\ left' \in [DecayingTag -> Int] /\ Interval[t] \in Nat \ {0}
        /\ \A u \in DecayingTag : left'[u] = IF u = t THEN Interval[t] ELSE left[u]
    BY <2>1 DEF ClockInv
  <2>4. OnTime'
    BY <2>1, <2>3 DEF ClockInv, OnTime
  <2>5. Late'
    BY <2>1, <2>2, <2>3 DEF ClockInv, Late
  <2>6. QED
    BY <2>1, <2>3, <2>4, <2>5 DEF ClockInv
<1>2. ASSUME NEW j \in 1 .. MaxJump, Tick(j) PROVE ClockInv'
  <2>1. /\ dpc = "select" /\ dpc' = "decay" /\ knownTags' = knownTags
        /\ left' = [t \in DecayingTag |-> IF t \in knownTags THEN left[t] - j ELSE left[t]]
        /\ visit' = {t \in knownTags : left'[t] <= 0}
    BY <1>2 DEF Tick, Round, tagVars
  <2>2. left' \in [DecayingTag -> Int]
    BY <2>1 DEF ClockInv
  <2>3. \A t \in knownTags : -Interval[t] < left'[t] /\ left'[t] <= Interval[t]
    BY <2>1 DEF ClockInv, OnTime
  <2>4. QED
    BY <2>1, <2>2, <2>3 DEF ClockInv, OnTime, Late
<1>3. CASE DecayEnd
  <2>1. /\ dpc = "decay" /\ dpc' = "select" /\ knownTags' = knownTags
        /\ left' = [t \in DecayingTag |-> IF t \in visit THEN left[t] + Interval[t] ELSE left[t]]
    BY <1>3 DEF DecayEnd, Advance, tagVars
  <2>2. left' \in [DecayingTag -> Int]
    BY <2>1 DEF ClockInv
  <2>3. \A t \in knownTags : left'[t] \in 1 .. Interval[t]
    BY <2>1 DEF ClockInv, Late
  <2>4. QED
    BY <2>1, <2>2, <2>3 DEF ClockInv, OnTime, Late
<1>4. CASE TakeClose \/ CloseEnd \/ End
  BY <1>4, ClockKept DEF TakeClose, CloseEnd, End, Receive, Round, tagVars
<1>5. CASE ManagerStep \/ Stop \/ TakeBump \/ TakeRemove
  BY <1>5, ClockKept DEF ManagerStep, Stop, TakeBump, TakeRemove, tagVars, roundVars
<1>6. ASSUME NEW p \in Peer, DecayPeer(p) \/ ClosePeer(p) PROVE ClockInv'
  BY <1>6, ClockKept DEF DecayPeer, ClosePeer, tagVars
<1>7. ASSUME NEW c \in Command, Begin(c) \/ Send(c) PROVE ClockInv'
  BY <1>7, ClockKept DEF Begin, Send, tagVars, roundVars
<1>8. CASE UNCHANGED decayerVars
  BY <1>8, ClockKept DEF decayerVars, decayVars, tagVars, roundVars
<1>9. QED
  BY <1>1, <1>2, <1>3, <1>4, <1>5, <1>6, <1>7, <1>8 DEF DecayerNext, ProcessStep

(* If ticks never come more than an interval apart, no tracked tag is       *)
(* overdue between the rounds of process, nor is its next tick more than an *)
(* interval away, however registrations fall between the ticks.             *)
THEOREM NeverOverdue ==
    ASSUME \A t \in DecayingTag : MaxJump <= Interval[t]
    PROVE  DecayerSpec => []NoneOverdue
<1>1. ClockInv => NoneOverdue
  BY DEF ClockInv, OnTime, NoneOverdue
<1>2. ClockInv /\ [DecayerNext]_decayerVars => ClockInv'
  BY ClockStep
<1>3. QED
  BY <1>1, <1>2, ClockInit, PTL DEF DecayerSpec

-----------------------------------------------------------------------------
(* Closed tags *)

(* Closed tags were registered, and each queue holds commands.              *)
QueueInv ==
    /\ isClosed \subseteq created
    /\ calls \subseteq Command
    /\ channel \in [{"bump", "remove", "close"} -> Seq(Command)]

LEMMA OpOf == \A c \in Command : c.op \in {"bump", "remove", "close"}
BY DEF Command

LEMMA ReceiveType ==
    ASSUME QueueInv, NEW op \in {"bump", "remove", "close"}, Receive(op)
    PROVE  /\ channel' \in [{"bump", "remove", "close"} -> Seq(Command)]
           /\ \A o \in {"bump", "remove", "close"} \ {op} : channel'[o] = channel[o]
           /\ channel'[op] = Tail(channel[op]) /\ channel[op] \in Seq(Command)
           /\ channel[op] # <<>>
<1>1. channel[op] \in Seq(Command) /\ channel[op] # <<>>
  BY DEF QueueInv, Receive
<1>2. Tail(channel[op]) \in Seq(Command)
  BY <1>1
<1>3. QED
  BY <1>1, <1>2 DEF QueueInv, Receive

LEMMA QueueStep == QueueInv /\ [DecayerNext]_decayerVars => QueueInv'
<1> SUFFICES ASSUME QueueInv, [DecayerNext]_decayerVars PROVE QueueInv'
  OBVIOUS
<1>1. ASSUME NEW t \in DecayingTag, RegisterDecayingTag(t) PROVE QueueInv'
  BY <1>1 DEF RegisterDecayingTag, QueueInv
<1>2. ASSUME NEW c \in Command, Begin(c) PROVE QueueInv'
  BY <1>2 DEF Begin, Open, QueueInv
<1>3. ASSUME NEW c \in Command, Send(c) PROVE QueueInv'
  <2>1. c.op \in {"bump", "remove", "close"} /\ channel[c.op] \in Seq(Command)
    BY OpOf DEF QueueInv
  <2>2. Append(channel[c.op], c) \in Seq(Command)
    BY <2>1
  <2>3. channel' \in [{"bump", "remove", "close"} -> Seq(Command)]
    BY <1>3, <2>1, <2>2 DEF Send, QueueInv
  <2>4. QED
    BY <1>3, <2>3 DEF Send, QueueInv, tagVars
<1>4. CASE TakeBump
  BY <1>4, ReceiveType DEF TakeBump, QueueInv, tagVars
<1>5. CASE TakeRemove
  BY <1>5, ReceiveType DEF TakeRemove, QueueInv, tagVars
<1>6. CASE TakeClose
  BY <1>6, ReceiveType DEF TakeClose, QueueInv
<1>7. ASSUME NEW p \in Peer, DecayPeer(p) \/ ClosePeer(p) PROVE QueueInv'
  BY <1>7 DEF DecayPeer, ClosePeer, QueueInv, tagVars
<1>8. ASSUME NEW j \in 1 .. MaxJump, Tick(j) PROVE QueueInv'
  BY <1>8 DEF Tick, QueueInv, tagVars
<1>9. CASE ManagerStep \/ Stop \/ DecayEnd \/ CloseEnd \/ End \/ UNCHANGED decayerVars
  BY <1>9 DEF ManagerStep, Stop, DecayEnd, CloseEnd, End, QueueInv, tagVars,
              decayerVars, decayVars
<1>10. QED
  BY <1>1, <1>2, <1>3, <1>4, <1>5, <1>6, <1>7, <1>8, <1>9 DEF DecayerNext, ProcessStep

(* What is in a queue after a command was taken was in it before.           *)
LEMMA TailElements ==
    ASSUME NEW S, NEW s \in Seq(S), s # <<>>
    PROVE  /\ \A i \in DOMAIN Tail(s) : i + 1 \in DOMAIN s /\ Tail(s)[i] = s[i + 1]
           /\ 1 \in DOMAIN s /\ Head(s) = s[1]
OBVIOUS

(* No bump of a tag is pending: none is in a call, none in the queue.       *)
LEMMA NonePending ==
    ASSUME NEW t
    PROVE  PendingBumps(t) = {} <=>
              /\ \A c \in calls : ~ (c.op = "bump" /\ c.tag = t)
              /\ \A i \in DOMAIN channel["bump"] : channel["bump"][i].tag # t
BY DEF PendingBumps

(* The same of the next state.                                              *)
LEMMA NonePendingNext ==
    ASSUME NEW t
    PROVE  PendingBumps(t)' = {} <=>
              /\ \A c \in calls' : ~ (c.op = "bump" /\ c.tag = t)
              /\ \A i \in DOMAIN channel'["bump"] : channel'["bump"][i].tag # t
BY DEF PendingBumps

(* A peer holds the tags its values are of.                                 *)
LEMMA ValuesHeld == \A p, t : t \in DOMAIN ValuesOf(p) => Holds(p, t)
BY DEF ValuesOf, NoValues, Holds

(* New values of a peer change nothing for the others.                      *)
LEMMA RevalueHolds ==
    ASSUME NEW p, NEW new, Revalue(p, new), NEW t, t \notin DOMAIN new \ DOMAIN ValuesOf(p)
    PROVE  \A q : Holds(q, t)' => Holds(q, t)
<1>1. Tracked' = Tracked \cup {p}
  BY DEF Revalue, Put, Tracked
<1>2. \A q \in Tracked \cup {p} : decaying'[q] = IF q = p THEN new ELSE decaying[q]
  BY DEF Revalue
<1>3. ASSUME NEW q, Holds(q, t)' PROVE Holds(q, t)
  BY <1>1, <1>2, <1>3, ValuesHeld DEF Holds
<1>4. QED
  BY <1>3

(* A visit of process leaves a peer no tag it did not have.                 *)
LEMMA VisitHolds ==
    ASSUME NEW p, NEW new, VisitPeer(p, new), NEW t, DOMAIN new \subseteq DOMAIN ValuesOf(p)
    PROVE  \A q : Holds(q, t)' => Holds(q, t)
<1>1. CASE Revalue(p, new)
  BY <1>1, RevalueHolds
<1>2. CASE UNCHANGED <<peers, decaying>>
  BY <1>2 DEF Holds, Tracked
<1>3. QED
  BY <1>1, <1>2 DEF VisitPeer

(* The names of what Gone says of the next state.                           *)
LEMMA GoneNext ==
    ASSUME NEW t, Gone(t), QueueInv,
           t \in isClosed', t \notin knownTags',
           \A c \in calls' : c \in calls \/ c.tag # t,
           \A i \in DOMAIN channel'["bump"] : channel'["bump"][i].tag # t,
           \A q : Holds(q, t)' => Holds(q, t)
    PROVE  Gone(t)'
<1>1. \A c \in calls : ~ (c.op = "bump" /\ c.tag = t)
  BY NonePending DEF Gone
<1>2. PendingBumps(t)' = {}
  BY <1>1, NonePendingNext
<1>3. \A p \in Peer : ~ Holds(p, t)'
  BY DEF Gone
<1>4. QED
  BY <1>2, <1>3 DEF Gone

(* A tag that is gone can only come back by a bump, and a bump needs an     *)
(* open tag or one that is pending.                                         *)
LEMMA GoneStep ==
    ASSUME QueueInv, [DecayerNext]_decayerVars, NEW t \in DecayingTag, Gone(t)
    PROVE  Gone(t)'
<1>1. /\ t \in isClosed /\ t \in created /\ t \notin knownTags
      /\ \A c \in calls : ~ (c.op = "bump" /\ c.tag = t)
      /\ \A i \in DOMAIN channel["bump"] : channel["bump"][i].tag # t
  BY NonePending DEF Gone, QueueInv
<1>2. channel["bump"] \in Seq(Command)
  BY DEF QueueInv
<1>3. peers' = peers /\ decaying' = decaying => \A q : Holds(q, t)' => Holds(q, t)
  BY DEF Holds, Tracked
<1>4. ASSUME NEW u \in DecayingTag, RegisterDecayingTag(u) PROVE Gone(t)'
  BY <1>1, <1>3, <1>4, GoneNext DEF RegisterDecayingTag, vars, entryVars
<1>5. ASSUME NEW c \in Command, Begin(c) PROVE Gone(t)'
  BY <1>1, <1>3, <1>5, GoneNext DEF Begin, Open, vars, entryVars
<1>6. ASSUME NEW c \in Command, Send(c) PROVE Gone(t)'
  <2>1. CASE c.op = "bump"
    <3>1. c.tag # t
      BY <1>1, <1>6, <2>1 DEF Send
    <3>2. \A i \in DOMAIN Append(channel["bump"], c) : Append(channel["bump"], c)[i].tag # t
      BY <1>1, <1>2, <3>1
    <3>3. channel'["bump"] = Append(channel["bump"], c) \/ channel' = channel
      BY <1>6, <2>1 DEF Send, QueueInv
    <3>4. QED
      BY <1>1, <1>3, <1>6, <3>2, <3>3, GoneNext DEF Send, vars, entryVars, tagVars
  <2>2. CASE c.op # "bump"
    <3>1. channel'["bump"] = channel["bump"]
      BY <1>6, <2>2, OpOf DEF Send, QueueInv
    <3>2. QED
      BY <1>1, <1>3, <1>6, <3>1, GoneNext DEF Send, vars, entryVars, tagVars
  <2>3. QED
    BY <2>1, <2>2
<1>7. CASE TakeBump
  <2>1. /\ channel["bump"] # <<>> /\ channel'["bump"] = Tail(channel["bump"])
    BY <1>7, ReceiveType DEF TakeBump
  <2>2. \A i \in DOMAIN channel'["bump"] : channel'["bump"][i].tag # t
    BY <1>1, <1>2, <2>1, TailElements
  <2> DEFINE c == Head(channel["bump"])
             new == Bumped(ValuesOf(c.peer), c.tag, c.delta)
  <2>3. c.tag # t
    BY <1>1, <1>2, <2>1, TailElements
  <2>4. DOMAIN new = DOMAIN ValuesOf(c.peer) \cup {c.tag}
    BY DEF Bumped
  <2>5. Revalue(c.peer, new)
    BY <1>7 DEF TakeBump
  <2>6. \A q : Holds(q, t)' => Holds(q, t)
    <3> HIDE DEF new, c
    <3> QED BY <2>3, <2>4, <2>5, RevalueHolds
  <2>7. QED
    BY <1>1, <1>7, <2>2, <2>6, GoneNext DEF TakeBump, tagVars
<1>8. CASE TakeRemove
  <2>1. channel'["bump"] = channel["bump"]
    BY <1>8, ReceiveType DEF TakeRemove
  <2> DEFINE c == Head(channel["remove"])
             new == Without(ValuesOf(c.peer), c.tag)
  <2>2. DOMAIN new \subseteq DOMAIN ValuesOf(c.peer)
    BY DEF Without
  <2>3. Revalue(c.peer, new)
    BY <1>8 DEF TakeRemove
  <2>4. \A q : Holds(q, t)' => Holds(q, t)
    <3> HIDE DEF new, c
    <3> QED BY <2>2, <2>3, RevalueHolds
  <2>5. QED
    BY <1>1, <1>8, <2>1, <2>4, GoneNext DEF TakeRemove, tagVars
<1>9. CASE TakeClose
  <2>1. channel'["bump"] = channel["bump"]
    BY <1>9, ReceiveType DEF TakeClose
  <2>2. QED
    BY <1>1, <1>3, <1>9, <2>1, GoneNext DEF TakeClose, vars, entryVars
<1>10. ASSUME NEW p \in Peer, DecayPeer(p) PROVE Gone(t)'
  <2> DEFINE new == Decayed(ValuesOf(p), visit)
  <2>1. DOMAIN new \subseteq DOMAIN ValuesOf(p)
    BY DEF Decayed
  <2>2. VisitPeer(p, new)
    BY <1>10 DEF DecayPeer
  <2> HIDE DEF new
  <2>3. \A q : Holds(q, t)' => Holds(q, t)
    BY <2>1, <2>2, VisitHolds
  <2>4. QED
    BY <1>1, <1>10, <2>3, GoneNext DEF DecayPeer, tagVars
<1>11. ASSUME NEW p \in Peer, ClosePeer(p) PROVE Gone(t)'
  <2> DEFINE new == Without(ValuesOf(p), CHOOSE u \in visit : TRUE)
  <2>1. DOMAIN new \subseteq DOMAIN ValuesOf(p)
    BY DEF Without
  <2>2. VisitPeer(p, new)
    BY <1>11 DEF ClosePeer
  <2> HIDE DEF new
  <2>3. \A q : Holds(q, t)' => Holds(q, t)
    BY <2>1, <2>2, VisitHolds
  <2>4. QED
    BY <1>1, <1>11, <2>3, GoneNext DEF ClosePeer, tagVars
<1>12. CASE ManagerStep
  <2>1. decaying' = [p \in DOMAIN peers' |-> ValuesOf(p)]
    BY <1>12 DEF ManagerStep
  <2>2. \A q : Holds(q, t)' => Holds(q, t)
    BY <2>1, ValuesHeld DEF Holds, Tracked
  <2>3. QED
    BY <1>1, <1>12, <2>2, GoneNext DEF ManagerStep, tagVars
<1>13. ASSUME NEW j \in 1 .. MaxJump, Tick(j) PROVE Gone(t)'
  BY <1>1, <1>3, <1>13, GoneNext DEF Tick, vars, entryVars, tagVars
<1>14. CASE Stop \/ DecayEnd \/ CloseEnd \/ End \/ UNCHANGED decayerVars
  BY <1>1, <1>3, <1>14, GoneNext
     DEF Stop, DecayEnd, CloseEnd, End, decayerVars, decayVars, vars, entryVars, tagVars
<1>15. QED
  BY <1>4, <1>5, <1>6, <1>7, <1>8, <1>9, <1>10, <1>11, <1>12, <1>13, <1>14
     DEF DecayerNext, ProcessStep

(* Once a tag is closed, untracked, held by no peer, and without a bump     *)
(* that was begun and not applied, it stays so: the look at the closed flag *)
(* in Bump is enough for every bump that begins after the closing.          *)
THEOREM GoneForGood == DecayerSpec => ClosedStaysGone
<1>1. DecayerInit => QueueInv
  BY DEF DecayerInit, QueueInv
<1>2. QueueInv /\ [DecayerNext]_decayerVars => QueueInv'
  BY QueueStep
<1>3. QueueInv /\ [DecayerNext]_decayerVars
        => [\A t \in DecayingTag : Gone(t) => Gone(t)']_decayerVars
  BY GoneStep
<1>4. QED
  BY <1>1, <1>2, <1>3, PTL DEF DecayerSpec, ClosedStaysGone

-----------------------------------------------------------------------------
(* The value of an entry *)

(* Each queue holds commands of its own kind.                               *)
SortedInv ==
    \A op \in {"bump", "remove", "close"} :
        \A i \in DOMAIN channel[op] : channel[op][i].op = op

LEMMA SortedStep == QueueInv /\ SortedInv /\ [DecayerNext]_decayerVars => SortedInv'
<1> SUFFICES ASSUME QueueInv, SortedInv, [DecayerNext]_decayerVars PROVE SortedInv'
  OBVIOUS
<1>1. CASE UNCHANGED channel
  BY <1>1 DEF SortedInv
<1>2. ASSUME NEW c \in Command, Send(c) PROVE SortedInv'
  <2>1. c.op \in {"bump", "remove", "close"} /\ channel[c.op] \in Seq(Command)
    BY OpOf DEF QueueInv
  <2>2. \A i \in DOMAIN Append(channel[c.op], c) : Append(channel[c.op], c)[i].op = c.op
    BY <2>1 DEF SortedInv
  <2>3. QED
    BY <1>1, <1>2, <2>1, <2>2 DEF Send, SortedInv, QueueInv
<1>3. ASSUME NEW op \in {"bump", "remove", "close"}, Receive(op) PROVE SortedInv'
  <2>1. /\ \A o \in {"bump", "remove", "close"} \ {op} : channel'[o] = channel[o]
        /\ channel'[op] = Tail(channel[op]) /\ channel[op] \in Seq(Command)
        /\ channel[op] # <<>>
    BY <1>3, ReceiveType
  <2>2. \A i \in DOMAIN Tail(channel[op]) : Tail(channel[op])[i].op = op
    BY <2>1, TailElements DEF SortedInv
  <2>3. \A i \in DOMAIN channel'[op] : channel'[op][i].op = op
    BY <2>1, <2>2
  <2>4. ASSUME NEW o \in {"bump", "remove", "close"} \ {op}
        PROVE  \A i \in DOMAIN channel'[o] : channel'[o][i].op = o
    BY <2>1 DEF SortedInv
  <2>5. QED
    BY <2>3, <2>4 DEF SortedInv
<1>4. QED
  BY <1>1, <1>2, <1>3 DEF DecayerNext, ProcessStep, RegisterDecayingTag, Begin, TakeBump, TakeRemove,
     TakeClose, DecayPeer, ClosePeer, Tick, ManagerStep, Stop, DecayEnd, CloseEnd, End,
     decayerVars, decayVars

(* Values of finitely many tags, which have a sum.                          *)
ValuesOK(values) == IsFiniteSet(DOMAIN values) /\ \A t \in DOMAIN values : values[t] \in Int

LEMMA TotalType == ASSUME NEW values, ValuesOK(values) PROVE Total(values) \in Int
<1>1. Total(values) = SumOver(values, DOMAIN values)
  BY DEF Total, SumOver
<1>2. QED
  BY <1>1, SumSame DEF ValuesOK

LEMMA NoTotal == ValuesOK(NoValues) /\ Total(NoValues) = 0
<1>1. DOMAIN NoValues = {} /\ IsFiniteSet({})
  BY FS_EmptySet DEF NoValues
<1>2. SumOver(NoValues, {}) = 0
  BY <1>1, SumZero
<1>3. QED
  BY <1>1, <1>2 DEF ValuesOK, Total, SumOver

(* What process makes of the values of a peer.                              *)
LEMMA NewValuesOK ==
    ASSUME NEW values, ValuesOK(values)
    PROVE  /\ \A t : ValuesOK(Without(values, t))
           /\ \A tags : ValuesOK(Decayed(values, tags))
           /\ \A t : \A delta \in Int : ValuesOK(Bumped(values, t, delta))
<1>1. ASSUME NEW t PROVE ValuesOK(Without(values, t))
  <2>1. IsFiniteSet(DOMAIN values \ {t})
    BY FS_RemoveElement DEF ValuesOK
  <2>2. QED
    BY <2>1 DEF ValuesOK, Without
<1>2. ASSUME NEW tags PROVE ValuesOK(Decayed(values, tags))
  <2>1. IsFiniteSet({u \in DOMAIN values : u \in tags => values[u] > 1})
    BY FS_Subset DEF ValuesOK
  <2>2. QED
    BY <2>1 DEF ValuesOK, Decayed
<1>3. ASSUME NEW t, NEW delta \in Int PROVE ValuesOK(Bumped(values, t, delta))
  <2> DEFINE v == IF t \in DOMAIN values THEN values[t] ELSE 0
             sum == IF v + delta > MaxValue THEN MaxValue ELSE v + delta
  <2>1. IsFiniteSet(DOMAIN values \cup {t})
    BY FS_AddElement DEF ValuesOK
  <2>2. sum \in Int
    BY DecayerAssumption DEF ValuesOK
  <2>3. Bumped(values, t, delta) = [u \in DOMAIN values \cup {t} |-> IF u = t THEN sum ELSE values[u]]
    BY DEF Bumped
  <2> HIDE DEF sum
  <2>4. QED
    BY <2>1, <2>2, <2>3 DEF ValuesOK
<1>4. QED
  BY <1>1, <1>2, <1>3

(* What an entry has beyond its tags is the total of its decaying values.   *)
TotalInv ==
    /\ CacheOK
    /\ DOMAIN decaying = Tracked
    /\ \A p \in Tracked : ValuesOK(decaying[p]) /\ Excess(peers[p]) = Total(decaying[p])

LEMMA ValuesOfOK == ASSUME TotalInv, NEW p PROVE ValuesOK(ValuesOf(p))
BY NoTotal DEF TotalInv, ValuesOf

(* The cache does not mind a change of an entry's value, nor a temporary    *)
(* entry.                                                                   *)
LEMMA CacheRevalue ==
    ASSUME CacheOK, NEW p \in Peer, NEW e \in Entry, peers' = Put(p, e),
           e.temp = TagInfoFor(p).temp, e.conn = TagInfoFor(p).conn,
           UNCHANGED <<mapped, used, connCount>>
    PROVE  CacheOK'
<1>1. /\ p \in Tracked => e.temp = peers[p].temp /\ e.conn = peers[p].conn
      /\ p \notin Tracked => e.temp /\ e.conn = None
  BY DEF TagInfoFor, NewEntry
<1>2. /\ Tracked' = Tracked \cup {p} /\ peers' \in [Tracked' -> Entry]
      /\ \A q \in Tracked' : peers'[q] = IF q = p THEN e ELSE peers[q]
  BY PutType DEF CacheOK
<1>3. TrackedHasItsStream'
  BY <1>1, <1>2 DEF TrackedHasItsStream, CacheOK
<1>4. QED
  BY <1>2, <1>3 DEF CacheOK, CountsMapped

LEMMA RevalueTotal ==
    ASSUME TotalInv, NEW p \in Peer, NEW new, ValuesOK(new), Revalue(p, new),
           UNCHANGED <<mapped, used, connCount>>
    PROVE  TotalInv'
<1> DEFINE e == TagInfoFor(p)
           f == [e EXCEPT !.value = @ + Total(new) - Total(ValuesOf(p))]
<1>1. e \in Entry /\ Excess(e) = Total(ValuesOf(p))
  BY NewEntryType, ExcessNew, NoTotal DEF TagInfoFor, ValuesOf, TotalInv, CacheOK
<1>2. Total(new) \in Int /\ Total(ValuesOf(p)) \in Int
  BY TotalType, ValuesOfOK
<1>3. peers' = Put(p, f)
  BY DEF Revalue
<1> HIDE DEF e
<1>4. /\ f \in Entry /\ f.temp = e.temp /\ f.conn = e.conn /\ f.tags = e.tags
      /\ f.value = e.value + Total(new) - Total(ValuesOf(p))
  BY <1>1, <1>2 DEF Entry
<1> HIDE DEF f
<1>5. Excess(f) = Total(new)
  BY <1>1, <1>2, <1>4, EntrySum DEF Excess
<1>6. CacheOK'
  BY <1>3, <1>4, CacheRevalue DEF TotalInv, e
<1>7. /\ Tracked' = Tracked \cup {p}
      /\ \A q \in Tracked' : peers'[q] = IF q = p THEN f ELSE peers[q]
  BY <1>3, <1>4, PutType DEF TotalInv, CacheOK
<1>8. /\ DOMAIN decaying' = Tracked \cup {p}
      /\ \A q \in Tracked \cup {p} : decaying'[q] = IF q = p THEN new ELSE decaying[q]
  BY DEF Revalue
<1>9. QED
  BY <1>5, <1>6, <1>7, <1>8 DEF TotalInv

LEMMA SameTotal ==
    ASSUME TotalInv, UNCHANGED <<entryVars, decaying>>
    PROVE  TotalInv'
BY DEF TotalInv, entryVars, CacheOK, TrackedHasItsStream, CountsMapped, Tracked

LEMMA TotalStep == QueueInv /\ SortedInv /\ TotalInv /\ [DecayerNext]_decayerVars => TotalInv'
<1> SUFFICES ASSUME QueueInv, SortedInv, TotalInv, [DecayerNext]_decayerVars PROVE TotalInv'
  OBVIOUS
<1>1. ASSUME NEW p \in Peer, NEW new, ValuesOK(new), VisitPeer(p, new),
             UNCHANGED <<mapped, used, connCount>>
      PROVE  TotalInv'
  BY <1>1, RevalueTotal, SameTotal DEF VisitPeer, entryVars
<1>2. ASSUME NEW op \in {"bump", "remove"}, channel[op] # <<>>
      PROVE  /\ Head(channel[op]).peer \in Peer
             /\ op = "bump" => Head(channel[op]).delta \in Int
  <2>1. channel[op] \in Seq(Command) /\ Head(channel[op]) \in Command
    BY <1>2 DEF QueueInv
  <2>2. Head(channel[op]).op = op
    BY <1>2, <2>1, TailElements DEF SortedInv
  <2>3. Delta \subseteq Int
    BY DecayerAssumption
  <2>4. QED
    BY <2>1, <2>2, <2>3 DEF Command
<1>3. CASE TakeBump
  <2> DEFINE c == Head(channel["bump"])
  <2>1. c.peer \in Peer /\ c.delta \in Int
    BY <1>2, <1>3 DEF TakeBump, Receive
  <2>2. /\ Revalue(c.peer, Bumped(ValuesOf(c.peer), c.tag, c.delta))
        /\ UNCHANGED <<mapped, used, connCount>>
    BY <1>3 DEF TakeBump
  <2> HIDE DEF c
  <2>3. QED
    BY <2>1, <2>2, ValuesOfOK, NewValuesOK, RevalueTotal
<1>4. CASE TakeRemove
  <2> DEFINE c == Head(channel["remove"])
  <2>1. c.peer \in Peer
    BY <1>2, <1>4 DEF TakeRemove, Receive
  <2>2. /\ Revalue(c.peer, Without(ValuesOf(c.peer), c.tag))
        /\ UNCHANGED <<mapped, used, connCount>>
    BY <1>4 DEF TakeRemove
  <2> HIDE DEF c
  <2>3. QED
    BY <2>1, <2>2, ValuesOfOK, NewValuesOK, RevalueTotal
<1>5. ASSUME NEW p \in Peer, DecayPeer(p) PROVE TotalInv'
  BY <1>1, <1>5, ValuesOfOK, NewValuesOK DEF DecayPeer
<1>6. ASSUME NEW p \in Peer, ClosePeer(p) PROVE TotalInv'
  BY <1>1, <1>6, ValuesOfOK, NewValuesOK DEF ClosePeer
<1>7. CASE ManagerStep
  <2>1. CacheOK /\ [Next]_vars /\ decaying' = [p \in Tracked' |-> ValuesOf(p)]
    BY <1>7 DEF ManagerStep, TotalInv, Tracked
  <2>2. CacheOK' /\ \A q \in Tracked' :
                       Excess(peers'[q]) = IF q \in Tracked THEN Excess(peers[q]) ELSE 0
    BY <2>1, CacheStep, ExcessKept
  <2>3. \A q \in Tracked' : ValuesOK(decaying'[q]) /\ Excess(peers'[q]) = Total(decaying'[q])
    BY <2>1, <2>2, NoTotal DEF TotalInv, ValuesOf
  <2>4. QED
    BY <2>1, <2>2, <2>3 DEF TotalInv
<1>8. CASE UNCHANGED <<entryVars, decaying>>
  BY <1>8, SameTotal
<1>9. QED
  BY <1>3, <1>4, <1>5, <1>6, <1>7, <1>8 DEF DecayerNext, ProcessStep, RegisterDecayingTag, Begin,
     Send, TakeClose, Tick, Stop, DecayEnd, CloseEnd, End, decayerVars, decayVars, vars

LEMMA DecayerStart == DecayerInit => QueueInv /\ SortedInv /\ TotalInv
<1> SUFFICES ASSUME DecayerInit PROVE QueueInv /\ SortedInv /\ TotalInv
  OBVIOUS
<1>1. CacheOK /\ Tracked = {} /\ DOMAIN decaying = {}
  BY CacheInit DEF DecayerInit, Init, Tracked
<1>2. QED
  BY <1>1 DEF DecayerInit, QueueInv, SortedInv, TotalInv

LEMMA TotalInvariant == DecayerSpec => []TotalInv
BY DecayerStart, QueueStep, SortedStep, TotalStep, PTL DEF DecayerSpec

(* The value a trim sorts by is the sum of the tags and of what is left of  *)
(* the decaying ones: process takes off what it had added (p.value), though *)
(* entries come, get streams and go between the segments of its rounds.     *)
THEOREM ValuesAreTotals == DecayerSpec => []ValueIsTotal
<1>1. TotalInv => ValueIsTotal
  <2> SUFFICES ASSUME TotalInv, NEW p \in Tracked
               PROVE  peers[p].value = SumOver(peers[p].tags, Tag) + Total(decaying[p])
    BY DEF ValueIsTotal, SumOver
  <2>1. peers[p] \in Entry /\ Excess(peers[p]) = Total(decaying[p])
    BY DEF TotalInv, CacheOK
  <2>2. QED
    BY <2>1, EntrySum DEF Excess
<1>2. QED
  BY <1>1, TotalInvariant, PTL

(* The decayer keeps to the manager's rules: entries that process makes are *)
(* temporary, and what Connected and Disconnected keep stays so.            *)
THEOREM DecayerKeepsCache == DecayerSpec => [](TrackedHasItsStream /\ CountCoversConnected)
<1>1. TotalInv => TrackedHasItsStream /\ CountCoversConnected
  BY CacheCovers DEF TotalInv, CacheOK
<1>2. QED
  BY <1>1, TotalInvariant, PTL

-----------------------------------------------------------------------------
(* The forwarder and its workers                                           *)

Frame == {f \in [dst: Address, local: BOOLEAN, to: Address] : f.to = f.dst}

WorkerPc == {"idle", "route", "lookup", "look", "reuse", "drop", "open", "track",
             "write", "close", "ended"}

StreamPc == {"reuse", "drop", "track", "write", "close"}

ForwarderTypeOK ==
    /\ machines \in [Address -> Held]
    /\ reader \in {"select", "read", "send", "close", "wait", "over"}
    /\ reader = "send" => held \in Frame
    /\ frames \in Seq(Frame)
    /\ opened \subseteq Stream
    /\ wpc \in [Worker -> WorkerPc]
    /\ job \in [Worker -> [dst: Address \cup {None}, local: BOOLEAN, to: Address \cup {None}]]
    /\ DOMAIN seen = Worker /\ DOMAIN dest = Worker
    /\ stream \in [Worker -> Stream \cup {None}]

(* The address a frame goes to is the frame's own, or the router's.         *)
Addressed(w) ==
    \/ job[w].to = job[w].dst
    \/ job[w].local /\ job[w].to = Router /\ <<job[w].dst, None>> \in seen[w]

(* While a worker reads the ledger it has seen what the ledger says now;    *)
(* what it has found out is still so, and it has a stream while it uses it. *)
WorkerOK(w) ==
    /\ wpc[w] \in {"route", "lookup", "look"} => job[w].dst \in Address /\ job[w].to \in Address
    /\ wpc[w] = "route" => job[w].to = job[w].dst
    /\ wpc[w] \in {"route", "lookup"} => Now \subseteq seen[w]
    /\ wpc[w] \in {"lookup", "look"} => Addressed(w)
    /\ wpc[w] = "look" => \/ <<job[w].to, dest[w]>> \in seen[w]
                          \/ table[job[w].to] = dest[w]
    /\ stream[w] # None <=> wpc[w] \in StreamPc
    /\ stream[w] # None => RemotePeer[stream[w]] = dest[w]

WorkersOK == \A w \in Worker : WorkerOK(w)

Uses(w, c) == stream[w] = c /\ wpc[w] \in {"track", "write", "close"}

(* An open stream has a worker that closes it.                              *)
OpenUsed == \A c \in opened \ closed : \E w \in Worker : Uses(w, c)

(* A worker ends when no frame is left and none can come, and readPackets   *)
(* returns after all workers.                                               *)
Ending ==
    /\ \A w \in Worker : wpc[w] = "ended" => reader \in {"wait", "over"} /\ frames = <<>>
    /\ reader = "over" => \A w \in Worker : wpc[w] = "ended"

ForwarderInv == CacheOK /\ ForwarderTypeOK /\ WorkersOK /\ OpenUsed /\ Ending

-----------------------------------------------------------------------------
(* What a step may change *)

(* A step of a worker is the worker's own, and leaves the ledger and        *)
(* readPackets alone but for the frame it takes.                            *)
LEMMA OwnWorkerStep ==
    ASSUME ForwarderTypeOK, NEW w \in Worker, HandleStep(w) \/ WriteStep(w)
    PROVE  /\ \A v \in Worker \ {w} : /\ wpc'[v] = wpc[v] /\ job'[v] = job[v]
                                      /\ seen'[v] = seen[v] /\ dest'[v] = dest[v]
                                      /\ stream'[v] = stream[v]
           /\ UNCHANGED <<table, machines, reader, held>>
BY DEF ForwarderTypeOK, HandleStep, WriteStep, EndWorker, Take, Unparsed, Route, Lookup, NotFound,
       LookNone, Drop, NewStreamFails, Track, CloseNew, LookFound, NewStream, Reuse, ReuseFails,
       WriteNew, Done, Step, Forget, inputUnchanged, ledgerVars, readerVars

(* What the service does to the manager are steps of the manager, or leave  *)
(* its entries alone.                                                       *)
LEMMA CacheKept ==
    ASSUME CacheOK, ForwarderTypeOK, WorkersOK, [ForwarderNext]_forwarderVars
    PROVE  CacheOK'
<1>1. CASE UNCHANGED entryVars
  BY <1>1 DEF entryVars, CacheOK, TrackedHasItsStream, CountsMapped, Tracked
<1>2. ASSUME ManagerRuns PROVE Next
  BY <1>2 DEF ManagerRuns, Next, Trimmer
<1>3. ASSUME NEW w \in Worker, HandleStep(w) \/ WriteStep(w) PROVE Next \/ UNCHANGED entryVars
  <2>1. stream[w] \in Stream \cup {None} /\ (wpc[w] \in {"drop", "track"} => stream[w] # None)
    BY DEF ForwarderTypeOK, WorkersOK, WorkerOK, StreamPc
  <2>2. ASSUME Drop(w) PROVE Next \/ UNCHANGED entryVars
    BY <2>1, <2>2 DEF Drop, Step, Next, managerUnchanged, managerVars
  <2>3. ASSUME Track(w) PROVE Next \/ UNCHANGED entryVars
    BY <2>1, <2>3 DEF Track, Step, Next
  <2>4. QED
    BY <1>3, <2>2, <2>3 DEF HandleStep, WriteStep, EndWorker, Take, Unparsed, Route, Lookup, NotFound,
       LookNone, NewStreamFails, CloseNew, LookFound, NewStream, Reuse, ReuseFails,
       WriteNew, managerUnchanged, managerVars
<1>4. CASE UNCHANGED forwarderVars
  BY <1>1, <1>4 DEF forwarderVars, vars
<1>5. CASE ForwarderNext
  <2>1. Next \/ UNCHANGED entryVars
    BY <1>2, <1>3, <1>5 DEF ForwarderNext, AnnounceMachine, Learn, HeldBy, Cancel, ReaderStep, ReadStep,
       NextFrame, GetFrame, GetFrameFails, SendFrame, CloseFrames, Return, Read, managerUnchanged, managerVars
  <2>2. QED
    BY <1>1, <2>1, CacheStep
<1>6. QED
  BY <1>4, <1>5

(* A worker that does nothing keeps what it has found out.                  *)
LEMMA IdleWorkerOK ==
    ASSUME NEW v \in Worker, WorkerOK(v), UNCHANGED <<table, machines>>,
           wpc'[v] = wpc[v], job'[v] = job[v], seen'[v] = seen[v],
           dest'[v] = dest[v], stream'[v] = stream[v]
    PROVE  WorkerOK(v)'
BY DEF WorkerOK, Addressed, Now

(* Nor does a stream that is used become unused, unless it is closed.       *)
LEMMA UseKept ==
    ASSUME OpenUsed, opened' \ closed' \subseteq opened \ closed,
           \A v \in Worker, c \in opened \ closed' : Uses(v, c) => Uses(v, c)'
    PROVE  OpenUsed'
BY DEF OpenUsed

-----------------------------------------------------------------------------
(* handleFrame *)

(* A worker that is done with a frame knows nothing of it any more.         *)
LEMMA DoneOK ==
    ASSUME ForwarderTypeOK, NEW w \in Worker, NEW from, Done(w, from)
    PROVE  /\ wpc' \in [Worker -> WorkerPc] /\ stream' \in [Worker -> Stream \cup {None}]
           /\ job' \in [Worker -> [dst: Address \cup {None}, local: BOOLEAN,
                                   to: Address \cup {None}]]
           /\ DOMAIN seen' = Worker /\ DOMAIN dest' = Worker
           /\ wpc'[w] = "idle" /\ WorkerOK(w)'
<1>1. wpc' = [wpc EXCEPT ![w] = "idle"] /\ stream' = [stream EXCEPT ![w] = None]
  BY DEF Done, Step
<1>2. /\ job' = [job EXCEPT ![w] = NoJob] /\ seen' = [seen EXCEPT ![w] = {}]
      /\ dest' = [dest EXCEPT ![w] = None]
  BY DEF Done, Forget
<1>3. NoJob \in [dst: Address \cup {None}, local: BOOLEAN, to: Address \cup {None}]
  BY DEF NoJob
<1>4. wpc'[w] = "idle" /\ stream'[w] = None
  BY <1>1 DEF ForwarderTypeOK
<1>5. WorkerOK(w)'
  BY <1>4 DEF WorkerOK, StreamPc
<1>6. QED
  BY <1>1, <1>2, <1>3, <1>4, <1>5 DEF ForwarderTypeOK, WorkerPc

(* The types of what workers change.                                        *)
LEMMA WorkerTypes ==
    ASSUME ForwarderTypeOK, WorkersOK, NEW w \in Worker, HandleStep(w) \/ WriteStep(w)
    PROVE  ForwarderTypeOK'
<1> DEFINE Job == [dst: Address \cup {None}, local: BOOLEAN, to: Address \cup {None}]
<1>0. /\ UNCHANGED <<machines, reader, held>>
      /\ wpc \in [Worker -> WorkerPc] /\ stream \in [Worker -> Stream \cup {None}]
      /\ job \in [Worker -> Job] /\ DOMAIN seen = Worker /\ DOMAIN dest = Worker
      /\ frames \in Seq(Frame) /\ opened \subseteq Stream
  BY OwnWorkerStep DEF ForwarderTypeOK
<1> SUFFICES /\ wpc' \in [Worker -> WorkerPc] /\ stream' \in [Worker -> Stream \cup {None}]
             /\ job' \in [Worker -> Job] /\ DOMAIN seen' = Worker /\ DOMAIN dest' = Worker
             /\ frames' \in Seq(Frame) /\ opened' \subseteq Stream
  BY <1>0 DEF ForwarderTypeOK
<1>1. CASE Take(w)
  <2>1. /\ wpc' = [wpc EXCEPT ![w] = "route"] /\ job' = [job EXCEPT ![w] = Head(frames)]
        /\ seen' = [seen EXCEPT ![w] = Now] /\ frames # <<>> /\ frames' = Tail(frames)
        /\ UNCHANGED <<stream, dest, opened>>
    BY <1>1 DEF Take, Step
  <2>2. Head(frames) \in Frame /\ Tail(frames) \in Seq(Frame)
    BY <1>0, <2>1
  <2>3. Head(frames) \in Job
    BY <2>2 DEF Frame
  <2>4. QED
    BY <1>0, <2>1, <2>2, <2>3 DEF WorkerPc
<1>2. CASE Route(w)
  <2>1. /\ wpc' = [wpc EXCEPT ![w] = "lookup"]
        /\ job' = [job EXCEPT ![w].to = IF Fallback(w) THEN Router ELSE @]
        /\ UNCHANGED <<frames, seen, stream, dest, opened>>
    BY <1>2 DEF Route, Step, inputUnchanged, readerVars
  <2>2. job' \in [Worker -> Job]
    <3>1. PICK a \in Address \cup {None} : job' = [job EXCEPT ![w].to = a]
      <4>1. job[w].to \in Address \cup {None} /\ Router \in Address \cup {None}
        BY <1>0, ForwarderAssumption
      <4>2. job' = [job EXCEPT ![w].to = IF Fallback(w) THEN Router ELSE job[w].to]
        BY <2>1
      <4>3. QED
        BY <4>1, <4>2
    <3>2. QED
      BY <1>0, <3>1
  <2>3. QED
    BY <1>0, <2>1, <2>2 DEF WorkerPc
<1>3. CASE Unparsed(w) \/ NotFound(w) \/ Reuse(w) \/ NewStreamFails(w) \/ CloseNew(w)
  <2>1. (\E from : Done(w, from)) /\ UNCHANGED <<frames, opened>>
    BY <1>3 DEF Unparsed, NotFound, Reuse, NewStreamFails, CloseNew, inputUnchanged, readerVars
  <2>2. QED
    BY <1>0, <2>1, DoneOK
<1>4. CASE EndWorker(w) \/ Lookup(w) \/ Drop(w) \/ ReuseFails(w) \/ Track(w) \/ WriteNew(w)
  <2>1. /\ \E to \in WorkerPc : wpc' = [wpc EXCEPT ![w] = to]
        /\ stream' = stream \/ stream' = [stream EXCEPT ![w] = None]
        /\ dest' = dest \/ dest' = [dest EXCEPT ![w] = Holder(job[w].to)]
        /\ UNCHANGED <<job, seen, frames, opened>>
    BY <1>4 DEF EndWorker, Lookup, Drop, ReuseFails, Track, WriteNew, Step, WorkerPc,
       inputUnchanged, readerVars
  <2>2. QED
    BY <1>0, <2>1
<1>5. NoJob \in Job
  BY DEF NoJob
<1>6. CASE LookNone(w)
  <2>1. /\ wpc' = [wpc EXCEPT ![w] = "open"] /\ job' = [job EXCEPT ![w] = NoJob]
        /\ seen' = [seen EXCEPT ![w] = {}] /\ UNCHANGED <<stream, dest, frames, opened>>
    BY <1>6 DEF LookNone, Step, Forget, inputUnchanged, readerVars
  <2>2. QED
    BY <1>0, <1>5, <2>1 DEF WorkerPc
<1>7. ASSUME NEW c \in Stream, LookFound(w, c) \/ NewStream(w, c)
      PROVE  /\ wpc' \in [Worker -> WorkerPc] /\ stream' \in [Worker -> Stream \cup {None}]
             /\ job' \in [Worker -> Job] /\ DOMAIN seen' = Worker /\ DOMAIN dest' = Worker
             /\ frames' \in Seq(Frame) /\ opened' \subseteq Stream
  <2>1. /\ wpc' = [wpc EXCEPT ![w] = "reuse"] \/ wpc' = [wpc EXCEPT ![w] = "track"]
        /\ job' = job \/ job' = [job EXCEPT ![w] = NoJob]
        /\ seen' = seen \/ seen' = [seen EXCEPT ![w] = {}]
        /\ stream' = [stream EXCEPT ![w] = c]
        /\ opened' = opened \/ opened' = opened \cup {c}
        /\ UNCHANGED <<dest, frames>>
    BY <1>7 DEF LookFound, NewStream, Step, Forget, inputUnchanged, readerVars
  <2>2. job' \in [Worker -> Job] /\ DOMAIN seen' = Worker
    BY <1>0, <1>5, <2>1
  <2>3. wpc' \in [Worker -> WorkerPc] /\ stream' \in [Worker -> Stream \cup {None}]
    BY <1>0, <1>7, <2>1 DEF WorkerPc
  <2>4. QED
    BY <1>0, <1>7, <2>1, <2>2, <2>3
<1>8. QED
  BY <1>1, <1>2, <1>3, <1>4, <1>6, <1>7 DEF HandleStep, WriteStep

(* The stream the cache has for a peer leads to that peer.                  *)
LEMMA CachedIsPeers ==
    ASSUME CacheOK, NEW p, NEW c \in CachedStreams(p)
    PROVE  RemotePeer[c] = p
<1>1. p \in Tracked /\ c = peers[p].conn /\ c \in mapped
  BY DEF CachedStreams, Conns
<1>2. c # None
  BY <1>1, StreamManagerAssumption DEF CacheOK
<1>3. QED
  BY <1>1, <1>2 DEF CacheOK, TrackedHasItsStream

(* What the worker that takes a step knows then.                            *)
LEMMA MovedOK ==
    ASSUME CacheOK, ForwarderTypeOK, WorkersOK, NEW w \in Worker,
           HandleStep(w) \/ WriteStep(w)
    PROVE  WorkerOK(w)'
<1>0. /\ WorkerOK(w) /\ UNCHANGED <<table, machines>>
      /\ wpc[w] \in WorkerPc /\ DOMAIN wpc = Worker /\ DOMAIN stream = Worker
      /\ DOMAIN seen = Worker /\ DOMAIN dest = Worker
      /\ job \in [Worker -> [dst: Address \cup {None}, local: BOOLEAN,
                             to: Address \cup {None}]]
  BY OwnWorkerStep DEF WorkersOK, ForwarderTypeOK
<1>1. CASE Take(w)
  <2>1. /\ wpc'[w] = "route" /\ seen'[w] = Now /\ Now' = Now
        /\ job'[w] = Head(frames) /\ Head(frames) \in Frame /\ stream'[w] = stream[w]
        /\ dest'[w] = dest[w] /\ wpc[w] = "idle"
    BY <1>0, <1>1 DEF Take, Step, Now, ForwarderTypeOK
  <2>2. job'[w].dst \in Address /\ job'[w].to = job'[w].dst
    BY <2>1 DEF Frame
  <2>3. QED
    BY <1>0, <2>1, <2>2 DEF WorkerOK, StreamPc
<1>2. CASE Route(w)
  <2>1. /\ wpc[w] = "route" /\ wpc'[w] = "lookup" /\ Now' = Now
        /\ seen'[w] = seen[w] /\ stream'[w] = stream[w] /\ dest'[w] = dest[w]
        /\ job'[w].dst = job[w].dst /\ job'[w].local = job[w].local
        /\ job'[w].to = IF Fallback(w) THEN Router ELSE job[w].to
    BY <1>0, <1>2 DEF Route, Step, Now
  <2>2. Addressed(w)' /\ job'[w].to \in Address
    <3>1. CASE Fallback(w)
      <4>1. /\ job[w].local /\ machines[job[w].dst] = None /\ job[w].dst \in Address
            /\ Now \subseteq seen[w] /\ Router \in Address
        BY <1>0, <2>1, <3>1, ForwarderAssumption DEF Fallback, WorkerOK
      <4>2. <<job[w].dst, None>> \in Now
        BY <4>1 DEF Now
      <4>3. QED
        BY <2>1, <3>1, <4>1, <4>2 DEF Addressed
    <3>2. CASE ~ Fallback(w)
      BY <1>0, <2>1, <3>2 DEF Addressed, WorkerOK
    <3>3. QED
      BY <3>1, <3>2
  <2>3. QED
    BY <1>0, <2>1, <2>2 DEF WorkerOK, StreamPc
<1>3. CASE Lookup(w)
  <2>1. /\ wpc[w] = "lookup" /\ wpc'[w] = "look"
        /\ seen'[w] = seen[w] /\ stream'[w] = stream[w] /\ job'[w] = job[w]
        /\ dest'[w] = Holder(job[w].to)
    BY <1>0, <1>3 DEF Lookup, Step
  <2>2. job[w].to \in Address /\ Now \subseteq seen[w] /\ Addressed(w)
    BY <1>0, <2>1 DEF WorkerOK
  <2>3. \/ <<job[w].to, dest'[w]>> \in Now
        \/ table[job[w].to] = dest'[w]
    BY <2>1, <2>2 DEF Holder, Now
  <2>4. Addressed(w)'
    BY <2>1, <2>2 DEF Addressed
  <2>5. QED
    BY <1>0, <2>1, <2>2, <2>3, <2>4 DEF WorkerOK, StreamPc
<1>4. CASE Unparsed(w) \/ NotFound(w) \/ Reuse(w) \/ NewStreamFails(w) \/ CloseNew(w)
  BY <1>4, DoneOK DEF Unparsed, NotFound, Reuse, NewStreamFails, CloseNew
<1>5. CASE LookNone(w)
  BY <1>0, <1>5 DEF LookNone, Step, WorkerOK, StreamPc
<1>6. CASE EndWorker(w) \/ ReuseFails(w) \/ Track(w) \/ WriteNew(w)
  BY <1>0, <1>6 DEF EndWorker, ReuseFails, Track, WriteNew, Step, WorkerOK, StreamPc
<1>7. CASE Drop(w)
  BY <1>0, <1>7 DEF Drop, Step, WorkerOK, StreamPc
<1>8. ASSUME NEW c \in Stream, LookFound(w, c) PROVE WorkerOK(w)'
  <2>1. wpc'[w] = "reuse" /\ stream'[w] = c /\ dest'[w] = dest[w]
    BY <1>0, <1>8 DEF LookFound, Step
  <2>2. RemotePeer[c] = dest[w] /\ c # None
    BY <1>8, CachedIsPeers, StreamManagerAssumption DEF LookFound
  <2>3. QED
    BY <2>1, <2>2 DEF WorkerOK, StreamPc
<1>9. ASSUME NEW c \in Stream, NewStream(w, c) PROVE WorkerOK(w)'
  <2>1. wpc'[w] = "track" /\ stream'[w] = c /\ dest'[w] = dest[w] /\ RemotePeer[c] = dest[w]
    BY <1>0, <1>9 DEF NewStream, Step
  <2>2. QED
    BY <2>1, StreamManagerAssumption DEF WorkerOK, StreamPc
<1>10. QED
  BY <1>1, <1>2, <1>3, <1>4, <1>5, <1>6, <1>7, <1>8, <1>9 DEF HandleStep, WriteStep

(* A worker opens a stream for itself, and closes it before it forgets it.  *)
LEMMA WorkerUses ==
    ASSUME ForwarderTypeOK, OpenUsed, NEW w \in Worker, HandleStep(w) \/ WriteStep(w)
    PROVE  OpenUsed'
<1>0. /\ \A v \in Worker \ {w} : wpc'[v] = wpc[v] /\ stream'[v] = stream[v]
      /\ DOMAIN wpc = Worker /\ DOMAIN stream = Worker
  BY OwnWorkerStep DEF ForwarderTypeOK
<1>1. \A v \in Worker \ {w}, c \in Stream : Uses(v, c) => Uses(v, c)'
  BY <1>0 DEF Uses
<1>2. ASSUME NEW c \in Stream, NewStream(w, c) PROVE OpenUsed'
  <2>1. /\ wpc[w] = "open" /\ wpc'[w] = "track" /\ stream'[w] = c
        /\ opened' = opened \cup {c} /\ closed' = closed
    BY <1>0, <1>2 DEF NewStream, Step, managerUnchanged, managerVars
  <2>2. ~ \E d \in Stream : Uses(w, d)
    BY <2>1 DEF Uses
  <2>3. Uses(w, c)'
    BY <2>1 DEF Uses
  <2>4. QED
    BY <1>1, <2>1, <2>2, <2>3 DEF OpenUsed, ForwarderTypeOK
<1>3. CASE CloseNew(w)
  <2>1. /\ opened' = opened /\ closed' = closed \cup {stream[w]}
    BY <1>3 DEF CloseNew, Closes
  <2>2. \A c \in opened \ closed' : ~ Uses(w, c)
    BY <2>1 DEF Uses
  <2>3. QED
    BY <1>1, <2>1, <2>2, UseKept DEF ForwarderTypeOK
<1>4. ASSUME opened' = opened, closed \subseteq closed',
             \A c \in Stream : Uses(w, c) => Uses(w, c)'
      PROVE  OpenUsed'
  BY <1>1, <1>4, UseKept DEF ForwarderTypeOK
<1>5. CASE \/ EndWorker(w) \/ Take(w) \/ Unparsed(w) \/ Route(w) \/ Lookup(w) \/ NotFound(w)
           \/ LookNone(w) \/ NewStreamFails(w) \/ Reuse(w) \/ ReuseFails(w)
  <2>1. wpc[w] \notin {"track", "write", "close"} /\ opened' = opened /\ closed' = closed
    BY <1>5 DEF EndWorker, Take, Unparsed, Route, Lookup, NotFound, LookNone, NewStreamFails, Reuse,
       ReuseFails, Done, Step, managerUnchanged, managerVars
  <2>2. QED
    BY <1>4, <2>1 DEF Uses
<1>6. CASE Drop(w)
  <2>1. wpc[w] = "drop" /\ opened' = opened /\ closed' = closed
    BY <1>6 DEF Drop, Step, Disconnected, managerUnchanged, managerVars
  <2>2. QED
    BY <1>4, <2>1 DEF Uses
<1>7. CASE Track(w) \/ WriteNew(w)
  <2>1. /\ wpc'[w] \in {"write", "close"} /\ stream' = stream
        /\ opened' = opened /\ closed' = closed
    BY <1>0, <1>7 DEF Track, WriteNew, Connected, Step, managerUnchanged, managerVars
  <2>2. QED
    BY <1>4, <2>1 DEF Uses
<1>8. ASSUME NEW c \in Stream, LookFound(w, c) PROVE OpenUsed'
  <2>1. wpc[w] = "look" /\ opened' = opened /\ closed' = closed
    BY <1>8 DEF LookFound, Step, managerUnchanged, managerVars
  <2>2. QED
    BY <1>4, <2>1 DEF Uses
<1>9. QED
  BY <1>2, <1>3, <1>5, <1>6, <1>7, <1>8 DEF HandleStep, WriteStep

(* No worker ends while a frame is left.                                    *)
LEMMA WorkerEnds ==
    ASSUME ForwarderTypeOK, Ending, NEW w \in Worker, HandleStep(w) \/ WriteStep(w)
    PROVE  Ending'
<1>0. /\ \A v \in Worker \ {w} : wpc'[v] = wpc[v]
      /\ reader' = reader /\ DOMAIN wpc = Worker
  BY OwnWorkerStep DEF ForwarderTypeOK
<1>1. wpc[w] # "ended"
  BY DEF HandleStep, WriteStep, EndWorker, Take, Unparsed, Route, Lookup, NotFound,
     LookNone, Drop, NewStreamFails, Track, CloseNew, LookFound, NewStream, Reuse, ReuseFails,
     WriteNew, Done, Step
<1>2. frames' = frames \/ frames # <<>>
  BY DEF HandleStep, WriteStep, EndWorker, Take, Unparsed, Route, Lookup, NotFound,
     LookNone, Drop, NewStreamFails, Track, CloseNew, LookFound, NewStream, Reuse, ReuseFails,
     WriteNew, inputUnchanged, readerVars
<1>3. wpc'[w] = "ended" => reader = "wait" /\ frames = <<>>
  BY <1>0 DEF HandleStep, WriteStep, EndWorker, Take, Unparsed, Route, Lookup, NotFound,
     LookNone, Drop, NewStreamFails, Track, CloseNew, LookFound, NewStream, Reuse, ReuseFails,
     WriteNew, Done, Step, Closed
<1>4. QED
  BY <1>0, <1>1, <1>2, <1>3 DEF Ending

-----------------------------------------------------------------------------
(* The ledger and readPackets *)

(* What changes in the ledger is seen by the workers that are reading it.   *)
LEMMA LedgerStep ==
    ASSUME ForwarderTypeOK, WorkersOK, OpenUsed, Ending,
           NEW a \in Address, NEW p \in Held, HeldBy(a, p)
    PROVE  ForwarderTypeOK' /\ WorkersOK' /\ OpenUsed' /\ Ending'
<1>1. /\ machines' = [machines EXCEPT ![a] = p] /\ machines \in [Address -> Held]
      /\ seen' = [w \in Worker |-> IF wpc[w] \in {"route", "lookup"}
                                   THEN seen[w] \cup {<<a, p>>} ELSE seen[w]]
      /\ UNCHANGED <<table, opened, closed, wpc, job, dest, stream, reader, held, frames>>
  BY DEF HeldBy, ForwarderTypeOK, readerVars, managerUnchanged, managerVars
<1>2. ForwarderTypeOK' /\ OpenUsed' /\ Ending'
  BY <1>1 DEF ForwarderTypeOK, OpenUsed, Uses, Ending
<1>3. Now' \subseteq Now \cup {<<a, p>>}
  BY <1>1 DEF Now
<1>4. ASSUME NEW w \in Worker PROVE WorkerOK(w)'
  <2>1. WorkerOK(w) /\ seen[w] \subseteq seen'[w]
    BY <1>1 DEF WorkersOK
  <2>2. wpc[w] \in {"route", "lookup"} => Now' \subseteq seen'[w]
    BY <1>1, <1>3, <2>1 DEF WorkerOK
  <2>3. Addressed(w) => Addressed(w)'
    BY <1>1, <2>1 DEF Addressed
  <2>4. QED
    BY <1>1, <2>1, <2>2, <2>3 DEF WorkerOK
<1>5. QED
  BY <1>2, <1>4 DEF WorkersOK

LEMMA ReadPackets ==
    ASSUME ForwarderTypeOK, Ending,
           Cancel \/ ReaderStep \/ ReadStep
    PROVE  /\ ForwarderTypeOK' /\ Ending'
           /\ UNCHANGED <<table, machines, opened, closed, wpc, job, seen, dest, stream>>
<1>0. /\ UNCHANGED <<table, machines, opened, closed, wpc, job, seen, dest, stream>>
      /\ frames \in Seq(Frame)
  BY DEF Cancel, ReaderStep, ReadStep, NextFrame, GetFrame, GetFrameFails, SendFrame, CloseFrames, Return,
     Read, ForwarderTypeOK, ledgerVars, workerVars, managerUnchanged, managerVars
<1>1. ASSUME NEW f \in Sent, GetFrame(f) PROVE ForwarderTypeOK' /\ Ending'
  <2>1. f \in [dst: Address, local: BOOLEAN]
    BY ForwarderAssumption
  <2>2. held' \in Frame /\ reader = "read" /\ reader' = "send" /\ frames' = frames
    BY <1>1, <2>1 DEF GetFrame, Read, Frame
  <2>3. QED
    BY <1>0, <2>2 DEF ForwarderTypeOK, Ending
<1>2. CASE SendFrame
  <2>1. reader = "send" /\ reader' = "select" /\ held \in Frame /\ frames' = Append(frames, held)
    BY <1>2 DEF SendFrame, Read, ForwarderTypeOK
  <2>2. frames' \in Seq(Frame)
    BY <1>0, <2>1
  <2>3. QED
    BY <1>0, <2>1, <2>2 DEF ForwarderTypeOK, Ending
<1>3. CASE Cancel \/ NextFrame \/ GetFrameFails
  BY <1>0, <1>3 DEF Cancel, NextFrame, GetFrameFails, Read, ForwarderTypeOK, Ending
<1>4. CASE CloseFrames \/ Return
  BY <1>0, <1>4 DEF CloseFrames, Return, Read, ForwarderTypeOK, Ending
<1>5. QED
  BY <1>0, <1>1, <1>2, <1>3, <1>4 DEF ReaderStep, ReadStep

-----------------------------------------------------------------------------
LEMMA ForwarderInitially == ForwarderInit => ForwarderInv
<1> SUFFICES ASSUME ForwarderInit PROVE ForwarderInv
  OBVIOUS
<1>1. CacheOK
  BY CacheInit DEF ForwarderInit
<1>2. NoJob \in [dst: Address \cup {None}, local: BOOLEAN, to: Address \cup {None}]
  BY DEF NoJob
<1>3. ForwarderTypeOK
  BY <1>2, ForwarderAssumption DEF ForwarderInit, ForwarderTypeOK, WorkerPc
<1>4. WorkersOK
  BY DEF ForwarderInit, WorkersOK, WorkerOK, StreamPc
<1>5. OpenUsed /\ Ending
  BY DEF ForwarderInit, OpenUsed, Ending
<1>6. QED
  BY <1>1, <1>3, <1>4, <1>5 DEF ForwarderInv

LEMMA ForwarderInductive == ForwarderInv /\ [ForwarderNext]_forwarderVars => ForwarderInv'
<1> SUFFICES ASSUME ForwarderInv, [ForwarderNext]_forwarderVars PROVE ForwarderInv'
  OBVIOUS
<1>0. CacheOK /\ ForwarderTypeOK /\ WorkersOK /\ OpenUsed /\ Ending /\ CacheOK'
  BY CacheKept DEF ForwarderInv
<1>1. ASSUME NEW a \in Address, NEW p \in Held, HeldBy(a, p) PROVE ForwarderInv'
  BY <1>0, <1>1, LedgerStep DEF ForwarderInv
<1>2. CASE Cancel \/ ReaderStep \/ ReadStep
  <2>1. /\ ForwarderTypeOK' /\ Ending'
        /\ UNCHANGED <<table, machines, opened, closed, wpc, job, seen, dest, stream>>
    BY <1>0, <1>2, ReadPackets
  <2>2. WorkersOK' /\ OpenUsed'
    BY <1>0, <2>1, IdleWorkerOK, UseKept DEF WorkersOK, Uses
  <2>3. QED
    BY <1>0, <2>1, <2>2 DEF ForwarderInv
<1>3. ASSUME NEW w \in Worker, HandleStep(w) \/ WriteStep(w) PROVE ForwarderInv'
  <2>1. WorkersOK'
    BY <1>0, <1>3, MovedOK, OwnWorkerStep, IdleWorkerOK DEF WorkersOK
  <2>2. QED
    BY <1>0, <1>3, <2>1, WorkerTypes, WorkerUses, WorkerEnds DEF ForwarderInv
<1>4. CASE ManagerRuns /\ UNCHANGED <<ledgerVars, readerVars, workerVars>>
  <2>1. closed \subseteq closed'
    BY <1>4 DEF ManagerRuns, BackgroundTick, Age, TrimStep, Check, Scan, Scanned, Select,
       Selected, Close, Trimmed
  <2>2. ForwarderTypeOK' /\ Ending'
    BY <1>0, <1>4 DEF ForwarderTypeOK, Ending, ledgerVars, readerVars, workerVars
  <2>3. WorkersOK' /\ OpenUsed'
    BY <1>0, <1>4, <2>1, IdleWorkerOK, UseKept DEF WorkersOK, Uses, ledgerVars, workerVars
  <2>4. QED
    BY <1>0, <2>2, <2>3 DEF ForwarderInv
<1>5. CASE UNCHANGED forwarderVars
  <2>1. /\ UNCHANGED <<table, machines, opened, closed, wpc, job, seen, dest, stream>>
        /\ UNCHANGED <<reader, held, frames>>
    BY <1>5 DEF forwarderVars, vars, ledgerVars, readerVars, workerVars
  <2>2. WorkersOK' /\ OpenUsed'
    BY <1>0, <2>1, IdleWorkerOK, UseKept DEF WorkersOK, Uses
  <2>3. QED
    BY <1>0, <2>1, <2>2 DEF ForwarderInv, ForwarderTypeOK, Ending
<1>6. ASSUME AnnounceMachine \/ \E c \in Claims : Learn(c[1], c[2]) PROVE ForwarderInv'
  <2>1. Own \in Address /\ Self \in Held /\ Claims \subseteq Address \X Held
    BY ForwarderAssumption DEF Held
  <2>2. QED
    BY <1>1, <1>6, <2>1 DEF AnnounceMachine, Learn
<1>7. QED
  BY <1>2, <1>3, <1>4, <1>5, <1>6 DEF ForwarderNext

LEMMA ForwarderInvariant == ForwarderSpec => []ForwarderInv
BY ForwarderInitially, ForwarderInductive, PTL DEF ForwarderSpec

(* No stream that handleFrame opens stays open: its worker closes it when   *)
(* the frame is sent, though the manager has it by then, and readPackets    *)
(* returns after the last worker has (close, then wg.Wait).                 *)
THEOREM StreamsClosed == ForwarderSpec => []OpenIsHeld
<1>1. ForwarderInv => OpenIsHeld
  <2> SUFFICES ASSUME ForwarderInv PROVE OpenIsHeld
    OBVIOUS
  <2>1. OpenUsed /\ Ending
    BY DEF ForwarderInv
  <2>2. reader = "over" => opened \subseteq closed /\ frames = <<>>
    BY <2>1, WorkerAssumption DEF OpenUsed, Ending, Uses
  <2>3. QED
    BY <2>1, <2>2 DEF OpenIsHeld, OpenUsed, Uses
<1>2. QED
  BY <1>1, ForwarderInvariant, PTL

(* handleFrame sends a frame to a peer that had its address since it has    *)
(* the frame, and on a stream to that peer: the one the manager has for it  *)
(* (HasStream), whatever other workers and trims do to the manager, or one  *)
(* it opened.                                                               *)
THEOREM RoutedRight == ForwarderSpec => []RoutedToHolder
<1>1. ForwarderInv => RoutedToHolder
  BY DEF ForwarderInv, WorkersOK, WorkerOK, Addressed, RoutedToHolder
<1>2. QED
  BY <1>1, ForwarderInvariant, PTL

(* The service keeps to the manager's rules (Connected, Disconnected,       *)
(* HasStream), so that what these keep of the cache holds for its manager.  *)
THEOREM ForwarderKeepsCache == ForwarderSpec => [](TrackedHasItsStream /\ CountCoversConnected)
<1>1. ForwarderInv => TrackedHasItsStream /\ CountCoversConnected
  BY CacheCovers DEF ForwarderInv, CacheOK
<1>2. QED
  BY <1>1, ForwarderInvariant, PTL
=============================================================================
