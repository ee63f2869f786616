---------------------------- MODULE WindowProofs ----------------------------
(***************************************************************************)
(* Proofs about what depends on the windows of the one-time password.      *)
(*                                                                         *)
(* Of Rotation, SettledIsCurrent for any nodes, publishers, windows and    *)
(* failures.  The key the poller has seen is never ahead of the clock, so  *)
(* a rotation unsettles a node; and while joinRoom is between its two      *)
(* rooms, the first is of the present window unless the poller has yet to  *)
(* see it.                                                                 *)
(*                                                                         *)
(* Of Discovery, KeepsLast for any nodes, lengths of the history, clocks   *)
(* and faults, and with a rendezvous that changes or never does.           *)
(***************************************************************************)
EXTENDS Rotation, Discovery, TLAPS

TypeOK ==
    /\ clock \in [Node -> Int]
    /\ told \in [Node -> BOOLEAN] /\ failed \in [Node -> BOOLEAN]
    /\ DOMAIN polled = Node /\ DOMAIN join = Node
    /\ DOMAIN room = Node /\ DOMAIN public = Node

NotAhead == \A n \in Node : polled[n] \in Int /\ polled[n] <= clock[n]

Current(n) == [topic |-> clock[n], live |-> TRUE]

(* The poller has seen the window, and the main loop knows.                 *)
UpToDate(n) == polled[n] = clock[n] /\ ~ told[n]

HalfJoined ==
    \A n \in Node : UpToDate(n) /\ join[n] = "public" => room[n] = Current(n)

Joined ==
    \A n \in Node : UpToDate(n) /\ join[n] = "idle" /\ ~ failed[n] =>
        room[n] = Current(n) /\ public[n] = Current(n)

IInv == TypeOK /\ NotAhead /\ HalfJoined /\ Joined

LEMMA Initially == Init => IInv
  BY DEF Init, IInv, TypeOK, NotAhead, HalfJoined, Joined, UpToDate, None

(* A step that leaves another node's share of the hub alone.                *)
LEMMA Elsewhere ==
    ASSUME IInv, NEW n \in Node, NEW m \in Node,
           clock'[m] = clock[m], polled'[m] = polled[m], told'[m] = told[m],
           join'[m] = join[m], room'[m] = room[m], public'[m] = public[m],
           failed'[m] = failed[m]
    PROVE  /\ polled'[m] \in Int /\ polled'[m] <= clock'[m]
           /\ UpToDate(m)' /\ join'[m] = "public" => room'[m] = Current(m)'
           /\ UpToDate(m)' /\ join'[m] = "idle" /\ ~ failed'[m] =>
                  room'[m] = Current(m)' /\ public'[m] = Current(m)'
BY DEF IInv, NotAhead, HalfJoined, Joined, UpToDate, Current

(* What a step must show for the one node it concerns.                      *)
LEMMA OneNode ==
    ASSUME IInv, TypeOK', NEW n \in Node,
           \A m \in Node \ {n} :
               /\ clock'[m] = clock[m] /\ polled'[m] = polled[m] /\ told'[m] = told[m]
               /\ join'[m] = join[m] /\ room'[m] = room[m] /\ public'[m] = public[m]
               /\ failed'[m] = failed[m],
           polled'[n] \in Int, polled'[n] <= clock'[n],
           UpToDate(n)' /\ join'[n] = "public" => room'[n] = Current(n)',
           UpToDate(n)' /\ join'[n] = "idle" /\ ~ failed'[n] =>
               room'[n] = Current(n)' /\ public'[n] = Current(n)'
    PROVE  IInv'
<1>1. \A m \in Node :
          /\ polled'[m] \in Int /\ polled'[m] <= clock'[m]
          /\ UpToDate(m)' /\ join'[m] = "public" => room'[m] = Current(m)'
          /\ UpToDate(m)' /\ join'[m] = "idle" /\ ~ failed'[m] =>
                 room'[m] = Current(m)' /\ public'[m] = Current(m)'
  BY Elsewhere
<1> QED
  BY <1>1 DEF IInv, NotAhead, HalfJoined, Joined

LEMMA Inductive == IInv /\ [Next]_vars => IInv'
<1> SUFFICES ASSUME IInv, [Next]_vars PROVE IInv'
  OBVIOUS
<1>0. TypeOK /\ NotAhead /\ HalfJoined /\ Joined
  BY DEF IInv
<1>1. ASSUME NEW n \in Node, Rotate(n) PROVE IInv'
  <2>1. TypeOK'
    BY <1>0, <1>1 DEF TypeOK, Rotate, hubVars
  <2>2. clock'[n] = clock[n] + 1 /\ polled'[n] = polled[n] /\ polled[n] <= clock[n]
        /\ polled[n] \in Int /\ clock[n] \in Int
    BY <1>0, <1>1 DEF TypeOK, NotAhead, Rotate, hubVars
  <2>3. ~ UpToDate(n)' /\ polled'[n] <= clock'[n]
    BY <2>2 DEF UpToDate
  <2> QED
    BY <1>0, <1>1, <2>1, <2>2, <2>3, OneNode DEF TypeOK, Rotate, hubVars
<1>2. ASSUME NEW n \in Node, Poll(n) PROVE IInv'
  <2>1. TypeOK'
    BY <1>0, <1>2 DEF TypeOK, Poll
  <2>2. polled'[n] = clock[n] /\ told'[n] /\ clock' = clock /\ clock[n] \in Int
    BY <1>0, <1>2 DEF TypeOK, Poll, TopicKey, TOTP
  <2>3. ~ UpToDate(n)'
    BY <2>2 DEF UpToDate
  <2>4. \A m \in Node \ {n} :
            /\ clock'[m] = clock[m] /\ polled'[m] = polled[m] /\ told'[m] = told[m]
            /\ join'[m] = join[m] /\ room'[m] = room[m] /\ public'[m] = public[m]
            /\ failed'[m] = failed[m]
    BY <1>0, <1>2 DEF TypeOK, Poll
  <2>5. polled'[n] \in Int /\ polled'[n] <= clock'[n]
    BY <2>2
  <2> QED
    BY <2>1, <2>3, <2>4, <2>5, OneNode
<1>3. ASSUME NEW n \in Node, Leave(n) PROVE IInv'
  <2>1. /\ clock' = clock /\ polled' = polled /\ told' = [told EXCEPT ![n] = FALSE]
        /\ room' = [room EXCEPT ![n] = Left(@)] /\ public' = [public EXCEPT ![n] = Left(@)]
    BY <1>3 DEF Leave
  <2>2. \/ join' = [join EXCEPT ![n] = "chain"] /\ failed' = failed
        \/ join' = [join EXCEPT ![n] = "idle"] /\ failed' = [failed EXCEPT ![n] = TRUE]
    BY <1>3 DEF Leave, Goes, Fails
  <2>3. TypeOK'
    BY <1>0, <2>1, <2>2 DEF TypeOK
  <2>4. join'[n] = "chain" \/ (join'[n] = "idle" /\ failed'[n])
    <3>1. CASE join' = [join EXCEPT ![n] = "chain"]
      BY <1>0, <3>1 DEF TypeOK
    <3>2. CASE join' = [join EXCEPT ![n] = "idle"] /\ failed' = [failed EXCEPT ![n] = TRUE]
      <4>1. join'[n] = "idle"
        BY <1>0, <3>2 DEF TypeOK
      <4>2. failed'[n]
        BY <1>0, <3>2 DEF TypeOK
      <4> QED
        BY <4>1, <4>2
    <3> QED
      BY <2>2, <3>1, <3>2
  <2>5. \A m \in Node \ {n} :
            /\ clock'[m] = clock[m] /\ polled'[m] = polled[m] /\ told'[m] = told[m]
            /\ join'[m] = join[m] /\ room'[m] = room[m] /\ public'[m] = public[m]
            /\ failed'[m] = failed[m]
    BY <1>0, <2>1, <2>2 DEF TypeOK
  <2>6. polled'[n] \in Int /\ polled'[n] <= clock'[n]
    BY <1>0, <2>1 DEF NotAhead
  <2> QED
    BY <2>3, <2>4, <2>5, <2>6, OneNode
<1>4. ASSUME NEW n \in Node, ConnectChain(n) PROVE IInv'
  <2>1. TypeOK'
    BY <1>0, <1>4 DEF TypeOK, ConnectChain, Goes, Fails
  <2>2. clock' = clock /\ polled' = polled /\ told' = told /\ public' = public
    BY <1>4 DEF ConnectChain
  <2>3. \/ join'[n] = "public" /\ room'[n] = Current(n)'
        \/ join'[n] = "idle" /\ failed'[n]
    BY <1>0, <1>4, <2>2
       DEF TypeOK, ConnectChain, Goes, Fails, Connected, Current, TopicKey, TOTP
  <2> QED
    BY <1>0, <1>4, <2>1, <2>2, <2>3, OneNode DEF TypeOK, NotAhead, ConnectChain, Goes, Fails
<1>5. ASSUME NEW n \in Node, ConnectPublic(n) PROVE IInv'
  <2>1. TypeOK'
    BY <1>0, <1>5 DEF TypeOK, ConnectPublic, Fails
  <2>2. clock' = clock /\ polled' = polled /\ told' = told /\ room' = room
    BY <1>5 DEF ConnectPublic
  <2>3. \/ join'[n] = "idle" /\ public'[n] = Current(n)'
        \/ join'[n] = "idle" /\ failed'[n]
    BY <1>0, <1>5, <2>2
       DEF TypeOK, ConnectPublic, Fails, Connected, Current, TopicKey, TOTP
  <2>4. join[n] = "public" /\ (UpToDate(n)' <=> UpToDate(n)) /\ Current(n)' = Current(n)
    BY <1>5, <2>2 DEF ConnectPublic, UpToDate, Current
  <2>5. UpToDate(n)' => room'[n] = Current(n)'
    BY <1>0, <2>2, <2>4 DEF HalfJoined
  <2> QED
    BY <1>0, <1>5, <2>1, <2>2, <2>3, <2>5, OneNode DEF TypeOK, NotAhead, ConnectPublic, Fails
<1>6. ASSUME clock' = clock, UNCHANGED hubVars PROVE IInv'
  BY <1>0, <1>6 DEF hubVars, IInv, TypeOK, NotAhead, HalfJoined, Joined, UpToDate, Current
<1>7. ASSUME NEW n \in Node,
             Seal(n) \/ PublishMessage(n) \/ Deliver(n) \/ Take(n)
               \/ (\E f \in air : Read(n, f)) \/ (\E key \in late[n] : DeliverLate(n, key))
      PROVE  clock' = clock /\ UNCHANGED hubVars
  BY <1>7 DEF Seal, PublishMessage, Deliver, Take, Read, DeliverLate, hubVars
<1>8. CASE UNCHANGED vars
  BY <1>6, <1>8 DEF vars
<1> QED
  BY <1>1, <1>2, <1>3, <1>4, <1>5, <1>6, <1>7, <1>8 DEF Next, HubStep

(* However rotations fall between the polls of MessageHub.Start, its        *)
(* signals and the two joins of joinRoom, a node that has nothing left to   *)
(* do and whose last join returned no error is in both rooms of its window. *)
THEOREM AlwaysSettled == Spec => []SettledIsCurrent
<1>1. IInv => SettledIsCurrent
  BY DEF IInv, Joined, UpToDate, Current, SettledIsCurrent
<1> QED
  BY <1>1, Initially, Inductive, PTL DEF Spec

-----------------------------------------------------------------------------
(* Discovery *)

DiscoveryTypes ==
    /\ window \in Nat /\ fresh \subseteq Node
    /\ DOMAIN loop = Node /\ DOMAIN round = Node /\ DOMAIN behind = Node
    /\ history \in [Node -> Seq(Int)]

(* Nothing goes round before the goroutine runs.                            *)
OffIsIdle ==
    \A n \in Node : loop[n] = "off" =>
        round[n] = NoRound /\ behind[n] = NoRound /\ history[n] = <<>>

(* The last entry is the rendezvous of this window or, until n adds it, the *)
(* one before; the entry before the last is one less.                       *)
Newest(n) == IF OTP /\ n \notin fresh THEN Rendezvous(n) - 1 ELSE Rendezvous(n)

UpToNewest(n, ring) ==
    /\ ring # <<>> => Last(ring) = Newest(n)
    /\ Len(ring) > 1 => OTP /\ ring[Len(ring) - 1] = Newest(n) - 1

Histories ==
    \A n \in Node :
        /\ n \in fresh => history[n] # <<>>
        /\ UpToNewest(n, history[n])

DiscoveryInv == DiscoveryTypes /\ OffIsIdle /\ Histories

LEMMA DiscoveryInitially == DiscoveryInit => DiscoveryInv
  BY DEF DiscoveryInit, DiscoveryInv, DiscoveryTypes, OffIsIdle, Histories, UpToNewest

LEMMA RendezvousType ==
    ASSUME window \in Nat, NEW n \in Node
    PROVE  Rendezvous(n) \in Int
BY DiscoveryAssumption DEF Rendezvous

(* Whichever round adds the rendezvous of the window, the last of the       *)
(* history that Ring.Add gives is that, and the last but one is not lost.   *)
LEMMA AddedKeepsLast ==
    ASSUME window \in Nat, NEW n \in Node, NEW ring \in Seq(Int), UpToNewest(n, ring)
    PROVE  LET now == Rendezvous(n)
               new == Added(ring, now)
           IN  /\ new \in Seq(Int) /\ new # <<>> /\ Last(new) = now
               /\ Len(new) > 1 => OTP /\ new[Len(new) - 1] = now - 1
<1> DEFINE now == Rendezvous(n)
           kept == IF Len(ring) + 1 > Length THEN Tail(ring) ELSE ring
<1>1. now \in Int /\ Length \in Nat \ {0, 1} /\ OTP \in BOOLEAN
  BY RendezvousType, DiscoveryAssumption
<1>2. CASE ring # <<>> /\ Last(ring) = now
  <2>1. Added(ring, now) = ring
    BY <1>2 DEF Added
  <2>2. Newest(n) = now
    BY <1>2 DEF UpToNewest
  <2> QED
    BY <1>2, <2>1, <2>2 DEF UpToNewest
<1>3. CASE ~ (ring # <<>> /\ Last(ring) = now)
  <2>1. Added(ring, now) = Append(kept, now)
    BY <1>3 DEF Added
  <2>2. kept \in Seq(Int) /\ (kept # <<>> => ring # <<>> /\ Last(kept) = Last(ring))
    <3>1. CASE Len(ring) + 1 > Length
      <4>1. Len(ring) \in Nat /\ Len(ring) > 1 /\ ring # <<>>
        BY <1>1, <3>1
      <4>2. Tail(ring) \in Seq(Int) /\ Len(Tail(ring)) = Len(ring) - 1
        BY <4>1
      <4>3. Tail(ring)[Len(ring) - 1] = ring[Len(ring)]
        BY <4>1
      <4> QED
        BY <3>1, <4>1, <4>2, <4>3 DEF Last
    <3>2. CASE ~ (Len(ring) + 1 > Length)
      BY <3>2
    <3> QED
      BY <3>1, <3>2
  <2> HIDE DEF kept
  <2> DEFINE new == Append(kept, now)
  <2>3. new \in Seq(Int) /\ new # <<>> /\ Len(new) = Len(kept) + 1 /\ Len(kept) \in Nat
    <3>1. kept \in Seq(Int) /\ now \in Int
      BY <1>1, <2>2
    <3>2. Len(kept) \in Nat /\ new \in Seq(Int) /\ Len(new) = Len(kept) + 1
      <4> HIDE DEF now
      <4> QED
        BY <3>1
    <3>3. Len(new) # 0
      BY <3>2
    <3> QED
      BY <3>2, <3>3
  <2>4. Last(new) = now
    BY <1>1, <2>2, <2>3 DEF Last
  <2>5. ASSUME Len(new) > 1 PROVE OTP /\ new[Len(new) - 1] = now - 1
    <3>1. kept # <<>> /\ Len(kept) > 0
      BY <2>2, <2>3, <2>5
    <3>2. new[Len(new) - 1] = Last(kept)
      BY <1>1, <2>2, <2>3, <3>1 DEF Last
    <3>3. Last(kept) = Newest(n) /\ Newest(n) # now
      BY <1>3, <2>2, <3>1 DEF UpToNewest
    <3>4. OTP /\ Newest(n) = now - 1
      BY <3>3 DEF Newest
    <3> QED
      BY <3>2, <3>3, <3>4
  <2> QED
    BY <2>1, <2>3, <2>4, <2>5
<1> QED
  BY <1>2, <1>3

(* A step that leaves the window and the histories alone, and starts no     *)
(* round where the goroutine does not run.                                  *)
LEMMA HistoriesKept ==
    ASSUME DiscoveryInv, UNCHANGED <<window, history, fresh>>,
           DOMAIN loop' = Node, DOMAIN round' = Node, DOMAIN behind' = Node,
           \A n \in Node : loop'[n] = "off" =>
               loop[n] = "off" /\ round'[n] = round[n] /\ behind'[n] = behind[n]
    PROVE  DiscoveryInv'
<1>1. DiscoveryTypes'
  BY DEF DiscoveryInv, DiscoveryTypes
<1>2. OffIsIdle'
  BY DEF DiscoveryInv, OffIsIdle
<1>3. Histories'
  BY DEF DiscoveryInv, Histories, UpToNewest, Newest, Rendezvous
<1> QED
  BY <1>1, <1>2, <1>3 DEF DiscoveryInv

LEMMA AddStep ==
    ASSUME DiscoveryInv, NEW n \in Node, NEW isLate \in BOOLEAN, AddRendezvous(n, isLate)
    PROVE  DiscoveryInv'
<1> DEFINE ring == Added(history[n], Rendezvous(n))
<1>1. /\ history' = [history EXCEPT ![n] = ring] /\ fresh' = fresh \cup {n}
      /\ window' = window /\ loop' = loop
      /\ \/ behind' = [behind EXCEPT ![n] = [at |-> "advertise", todo |-> ring]]
            /\ round' = round
         \/ round' = [round EXCEPT ![n] = [at |-> "advertise", todo |-> ring]]
            /\ behind' = behind
  BY DEF AddRendezvous, Proceeds
<1>2. loop[n] # "off"
  BY DEF AddRendezvous, Round, NoRound, DiscoveryInv, OffIsIdle
<1>3. window \in Nat /\ history \in [Node -> Seq(Int)] /\ UpToNewest(n, history[n])
  BY DEF DiscoveryInv, DiscoveryTypes, Histories
<1>4. /\ ring \in Seq(Int) /\ ring # <<>> /\ Last(ring) = Rendezvous(n)
      /\ Len(ring) > 1 => OTP /\ ring[Len(ring) - 1] = Rendezvous(n) - 1
  BY <1>3, AddedKeepsLast
<1> HIDE DEF ring
<1>5. DiscoveryTypes'
  BY <1>1, <1>3, <1>4 DEF DiscoveryInv, DiscoveryTypes
<1>6. OffIsIdle'
  BY <1>1, <1>2 DEF DiscoveryInv, DiscoveryTypes, OffIsIdle
<1>7. Histories'
  <2> SUFFICES ASSUME NEW m \in Node
               PROVE  (m \in fresh => history[m] # <<>>)' /\ UpToNewest(m, history[m])'
    BY DEF Histories
  <2>1. Rendezvous(m)' = Rendezvous(m)
    BY <1>1 DEF Rendezvous
  <2>2. CASE m = n
    <3>1. history'[m] = ring /\ Newest(m)' = Rendezvous(n)
      BY <1>1, <1>3, <2>1, <2>2 DEF Newest
    <3> QED
      BY <1>4, <3>1 DEF UpToNewest
  <2>3. CASE m # n
    <3>1. history'[m] = history[m] /\ Newest(m)' = Newest(m)
          /\ (m \in fresh' <=> m \in fresh)
      BY <1>1, <1>3, <2>1, <2>3 DEF Newest
    <3> QED
      BY <3>1 DEF DiscoveryInv, Histories, UpToNewest
  <2> QED
    BY <2>2, <2>3
<1> QED
  BY <1>5, <1>6, <1>7 DEF DiscoveryInv

(* Everyone who runs has added the rendezvous of the window that ends.      *)
LEMMA WindowStep ==
    ASSUME DiscoveryInv, NextWindow
    PROVE  DiscoveryInv'
<1>1. /\ window' = window + 1 /\ fresh' = {}
      /\ UNCHANGED <<loop, round, behind, history>>
      /\ \A n \in Node : loop[n] # "off" => n \in fresh
  BY DEF NextWindow
<1>2. DiscoveryTypes' /\ OffIsIdle'
  BY <1>1 DEF DiscoveryInv, DiscoveryTypes, OffIsIdle
<1>3. Histories'
  <2> SUFFICES ASSUME NEW n \in Node, history[n] # <<>>
               PROVE  UpToNewest(n, history[n])'
    BY <1>1 DEF Histories, UpToNewest
  <2>1. n \in fresh
    BY <1>1 DEF DiscoveryInv, OffIsIdle
  <2>2. UpToNewest(n, history[n])
    BY DEF DiscoveryInv, Histories
  <2>3. window \in Nat /\ Skew[n] \in Int
    BY DiscoveryAssumption DEF DiscoveryInv, DiscoveryTypes
  <2>4. Newest(n)' = Newest(n)
    BY <1>1, <2>1, <2>3 DEF Newest, Rendezvous
  <2> QED
    BY <1>1, <2>2, <2>4 DEF UpToNewest
<1> QED
  BY <1>2, <1>3 DEF DiscoveryInv

LEMMA DiscoveryInductive == DiscoveryInv /\ [DiscoveryNext]_discoveryVars => DiscoveryInv'
<1> SUFFICES ASSUME DiscoveryInv, [DiscoveryNext]_discoveryVars PROVE DiscoveryInv'
  OBVIOUS
<1>0. DOMAIN loop = Node /\ DOMAIN round = Node /\ DOMAIN behind = Node
  BY DEF DiscoveryInv, DiscoveryTypes
<1>1. ASSUME NEW n \in Node, Run(n) \/ Tick(n) PROVE DiscoveryInv'
  <2>1. /\ UNCHANGED <<window, history, fresh, behind>>
        /\ round' = [round EXCEPT ![n] = NewRound]
        /\ \/ loop' = [loop EXCEPT ![n] = "first"]
           \/ loop' = [loop EXCEPT ![n] = "timed"]
    BY <1>1 DEF Run, Tick, Loops
  <2>2. DOMAIN loop' = Node /\ DOMAIN round' = Node /\ DOMAIN behind' = Node
    BY <1>0, <2>1
  <2>3. \A m \in Node : loop'[m] = "off" =>
            loop[m] = "off" /\ round'[m] = round[m] /\ behind'[m] = behind[m]
    BY <1>0, <2>1
  <2> QED
    BY <2>1, <2>2, <2>3, HistoriesKept
<1>2. ASSUME NEW n \in Node, TimesOut(n) PROVE DiscoveryInv'
  <2>1. /\ UNCHANGED <<window, history, fresh, loop>> /\ loop[n] = "timed"
        /\ round' = [round EXCEPT ![n] = NewRound]
        /\ behind' = [behind EXCEPT ![n] = round[n]]
    BY <1>2 DEF TimesOut, Loops
  <2>2. \A m \in Node : loop'[m] = "off" =>
            loop[m] = "off" /\ round'[m] = round[m] /\ behind'[m] = behind[m]
    BY <1>0, <2>1
  <2> QED
    BY <1>0, <2>1, <2>2, HistoriesKept
<1>3. ASSUME NEW n \in Node, NEW isLate \in BOOLEAN, NEW r, Round(n, isLate) # NoRound,
             Proceeds(n, isLate, r), UNCHANGED <<history, fresh>>
      PROVE  DiscoveryInv'
  <2>1. /\ UNCHANGED <<window, loop>>
        /\ \/ behind' = [behind EXCEPT ![n] = r] /\ round' = round
           \/ round' = [round EXCEPT ![n] = r] /\ behind' = behind
    BY <1>3 DEF Proceeds
  <2>2. loop[n] # "off"
    BY <1>3 DEF Round, DiscoveryInv, OffIsIdle
  <2>3. \A m \in Node : loop'[m] = "off" =>
            loop[m] = "off" /\ round'[m] = round[m] /\ behind'[m] = behind[m]
    BY <1>0, <2>1, <2>2
  <2>4. DOMAIN round' = Node /\ DOMAIN behind' = Node
    BY <1>0, <2>1
  <2> QED
    BY <1>0, <1>3, <2>1, <2>3, <2>4, HistoriesKept
<1>4. ASSUME NEW n \in Node, NEW isLate \in BOOLEAN, Step(n, isLate) PROVE DiscoveryInv'
  <2>1. CASE Bootstrap(n, isLate)
    BY <2>1, AddStep DEF Bootstrap, BootstrapPeers, BootstrapFails
  <2>2. CASE Advertise(n, isLate) \/ NextRendezvous(n, isLate)
    BY <1>3, <2>2 DEF Advertise, NextRendezvous, NoRound
  <2> QED
    BY <1>4, <2>1, <2>2 DEF Step
<1>5. ASSUME NEW n \in Node, LateEnds(n) PROVE DiscoveryInv'
  <2>1. Proceeds(n, TRUE, NoRound) /\ UNCHANGED <<history, fresh>>
    BY <1>5 DEF LateEnds
  <2>2. behind[n].at = "advertise"
    BY <1>5 DEF LateEnds
  <2>3. Round(n, TRUE) # NoRound
    BY <2>2 DEF Round, NoRound
  <2> QED
    BY <1>3, <2>1, <2>3
<1>6. ASSUME UNCHANGED <<window, history, fresh, loop, round, behind>> PROVE DiscoveryInv'
  BY <1>0, <1>6, HistoriesKept
<1>7. ASSUME NEW n \in Node,
             \/ Lose(n)
             \/ \E isLate \in BOOLEAN, m \in Node : Connect(n, isLate, m)
             \/ \E m \in Node : HandlePeerFound(n, m)
      PROVE  DiscoveryInv'
  BY <1>6, <1>7 DEF Lose, Connect, HandlePeerFound
<1>8. CASE UNCHANGED discoveryVars
  BY <1>6, <1>8 DEF discoveryVars
<1> QED
  BY <1>1, <1>2, <1>4, <1>5, <1>7, <1>8, WindowStep DEF DiscoveryNext

(* However a round that timed out and the one after it take turns in adding *)
(* to the history (Ring.Add), a node that has gone round in a window keeps  *)
(* the rendezvous of that window and the one before, for any number of      *)
(* nodes and windows and any history of two or more.                        *)
THEOREM NeighboursKept == DiscoverySpec => []KeepsLast
<1>1. DiscoveryInv => KeepsLast
  <2> SUFFICES ASSUME DiscoveryInv, NEW n \in fresh
               PROVE  /\ Contains(history[n], Rendezvous(n))
                      /\ Len(history[n]) > 1 => Contains(history[n], Rendezvous(n) - 1)
    BY DEF KeepsLast
  <2>1. n \in Node /\ history[n] \in Seq(Int) /\ history[n] # <<>> /\ UpToNewest(n, history[n])
    BY DEF DiscoveryInv, DiscoveryTypes, Histories
  <2>2. Newest(n) = Rendezvous(n)
    BY DEF Newest
  <2>3. Len(history[n]) \in Nat /\ Len(history[n]) > 0
    BY <2>1
  <2>4. Contains(history[n], Rendezvous(n))
    BY <2>1, <2>2, <2>3 DEF UpToNewest, Contains, Last
  <2>5. Len(history[n]) > 1 => Contains(history[n], Rendezvous(n) - 1)
    <3> SUFFICES ASSUME Len(history[n]) > 1
                 PROVE  Contains(history[n], Rendezvous(n) - 1)
      OBVIOUS
    <3>1. Len(history[n]) - 1 \in 1 .. Len(history[n])
      BY <2>3
    <3> QED
      BY <2>1, <2>2, <3>1 DEF UpToNewest, Contains
  <2> QED
    BY <2>4, <2>5
<1> QED
  BY <1>1, DiscoveryInitially, DiscoveryInductive, PTL DEF DiscoverySpec
=============================================================================
