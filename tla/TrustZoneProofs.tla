-------------------------- MODULE TrustZoneProofs --------------------------
(***************************************************************************)
(* OnlySigners, ClosedIsClean and NobodyShutOut for any nodes, signers,    *)
(* networks and bounds.  OnlySigners is inductive with the types;          *)
(* ClosedIsClean needs that the gate of a closed node is never switched    *)
(* off, and that what its gater trusts was once the zone of its own        *)
(* ledger.  NobodyShutOut follows from what the zones of two signers have  *)
(* in common, Acquainted.                                                  *)
(***************************************************************************)
EXTENDS TrustZone, TLAPS

TypeOK ==
    /\ mode \in [Node -> Mode]
    /\ routes \subseteq {r \in Node \X Node \X Node : r[3] \notin {r[1], r[2]}}
    /\ ledger \in [Node -> Storage]
    /\ trustDB \in [Node -> SUBSET Node]
    /\ enabled \in [Node -> BOOLEAN]
    /\ adding \in [Node -> SUBSET Node]

(* The gates of closed signers are on, and open to the trusted only.        *)
GatesShut ==
    AllClosed => \A n \in Signer :
        enabled[n] /\ trustDB[n] \subseteq Trusted /\ (Sealed => ~ ledger[n].foreign)

IInv == TypeOK /\ OnlySigners /\ GatesShut

(* What a step that keeps the setup keeps with it.                          *)
Kept ==
    /\ mode' = mode /\ routes' = routes /\ Present' = Present
    /\ Trusted' = Trusted /\ (Sealed' <=> Sealed) /\ (AllClosed' <=> AllClosed)

LEMMA SetupKept == UNCHANGED setup => Kept
<1> SUFFICES ASSUME UNCHANGED setup PROVE Kept
  OBVIOUS
<1>1. mode' = mode /\ routes' = routes
  BY DEF setup
<1>2. Present' = Present /\ Trusted' = Trusted
  BY <1>1 DEF Present, Guarded, Trusted, Couriers
<1>3. (Sealed' <=> Sealed) /\ (AllClosed' <=> AllClosed)
  BY <1>1, <1>2 DEF Sealed, AllClosed
<1> QED
  BY <1>1, <1>2, <1>3 DEF Kept

LEMMA Initially == Init => IInv
<1> SUFFICES ASSUME Init PROVE IInv
  OBVIOUS
<1> USE TrustAssumption
<1>1. TypeOK
  <2>1. ledger \in [Node -> Storage]
    <3>1. \A n \in Node : [Empty EXCEPT !.auth = OnDisk(n)] \in Storage
      BY DEF Empty, Storage, OnDisk
    <3> QED
      BY <3>1 DEF Init
  <2>2. mode \in [Node -> Mode]
        /\ routes \subseteq {r \in Node \X Node \X Node : r[3] \notin {r[1], r[2]}}
        /\ trustDB \in [Node -> SUBSET Node]
        /\ enabled \in [Node -> BOOLEAN] /\ adding \in [Node -> SUBSET Node]
    BY DEF Init
  <2> QED
    BY <2>1, <2>2 DEF TypeOK
<1>2. OnlySigners
  BY DEF Init, OnlySigners, Empty
<1>3. GatesShut
  BY DEF Init, GatesShut, AllClosed, Empty
<1> QED
  BY <1>1, <1>2, <1>3 DEF IInv

(* Every write of a node keeps the invariant, if what it puts into the zone  *)
(* is a signer.                                                             *)
LEMMA WriteKeeps ==
    ASSUME IInv, Kept, trustDB' = trustDB, enabled' = enabled,
           NEW n \in Node, NEW storage \in Storage, Write(n, storage),
           storage.tz \subseteq Trusted, storage.foreign = ledger[n].foreign
    PROVE  /\ ledger' \in [Node -> Storage]
           /\ \A p \in Node : ledger'[p].tz \subseteq Trusted
           /\ GatesShut'
<1> USE TrustAssumption DEF IInv
<1> DEFINE new == [storage EXCEPT !.foreign = @ \/ n \notin Signer]
<1>1. /\ new \in Storage /\ new.tz = storage.tz
      /\ new.foreign = (storage.foreign \/ n \notin Signer)
  BY DEF Storage
<1>2. ledger' = [ledger EXCEPT ![n] = new]
  BY DEF Write
<1>3. \A p \in Node : ledger'[p] = IF p = n THEN new ELSE ledger[p]
  BY <1>2 DEF TypeOK
<1> HIDE DEF new
<1>4. ledger' \in [Node -> Storage]
  BY <1>1, <1>2 DEF TypeOK
<1>5. \A p \in Node : ledger'[p].tz \subseteq Trusted
  BY <1>1, <1>3 DEF OnlySigners
<1>6. GatesShut'
  BY <1>1, <1>3 DEF GatesShut, Kept
<1> QED
  BY <1>4, <1>5, <1>6

(* A closed signer that is sealed takes blocks of signers only.             *)
LEMMA SealedFromSigners ==
    ASSUME IInv, AllClosed, Sealed, NEW n \in Signer, NEW f \in Node, NEW m \in Node, Gossip(n, f, m)
    PROVE  m \in Signer
<1>1. enabled[n] /\ trustDB[n] \subseteq Trusted /\ mode[n] = "closed"
  BY DEF IInv, GatesShut, AllClosed
<1>2. m \in Present /\ <<m, f, n>> \in routes /\ ~ Gate(n, f)
  BY DEF Gossip
<1>3. f \in Trusted
  BY <1>1, <1>2 DEF Gate
<1> QED
  BY <1>2, <1>3 DEF Sealed

LEMMA Inductive == IInv /\ [Next]_vars => IInv'
<1> SUFFICES ASSUME IInv, [Next]_vars PROVE IInv'
  OBVIOUS
<1> USE TrustAssumption DEF IInv
<1>0. TypeOK /\ OnlySigners /\ GatesShut
  OBVIOUS
<1>1. ASSUME NEW n \in Node, NEW f \in Node, NEW m \in Node, Gossip(n, f, m), Kept PROVE IInv'
  <2>1. TypeOK'
    BY <1>0, <1>1 DEF TypeOK, Gossip, loops, Kept
  <2>2. OnlySigners'
    BY <1>0, <1>1 DEF TypeOK, OnlySigners, Gossip, loops, Kept
  <2>3. GatesShut'
    <3>1. ASSUME AllClosed, Sealed, n \in Signer PROVE m \in Signer
      BY <1>0, <1>1, <3>1, SealedFromSigners
    <3> QED
      BY <1>0, <1>1, <3>1 DEF TypeOK, GatesShut, Gossip, Kept
  <2> QED
    BY <2>1, <2>2, <2>3
<1>2. ASSUME NEW n \in Node, NEW f \in Node, NEW m \in Node, Challenge(m, f, n), Kept PROVE IInv'
  <2>1. f \in Trusted
    BY <1>2 DEF Challenge, Challenged, Authenticate, Trusted, Couriers
  <2> QED
    BY <1>0, <1>2, <2>1 DEF TypeOK, OnlySigners, GatesShut, Challenge, Kept
<1>3. ASSUME NEW n \in Node, Announce(n), Kept PROVE IInv'
  <2>1. /\ ledger[n] \in Storage /\ ledger[n].tz \subseteq Trusted
        /\ Write(n, ledger[n]) /\ trustDB' = trustDB /\ enabled' = enabled /\ adding' = adding
    BY <1>0, <1>3 DEF TypeOK, OnlySigners, Announce, loops
  <2> QED
    BY <1>0, <1>3, <2>1, WriteKeeps DEF TypeOK, OnlySigners, Kept
<1>4. ASSUME NEW n \in Node, UpdaterService(n), Kept PROVE IInv'
  BY <1>0, <1>4 DEF TypeOK, OnlySigners, GatesShut, Kept, UpdaterService, Storage, loops
<1>5. ASSUME NEW n \in Node, Switch(n), Kept PROVE IInv'
  BY <1>0, <1>5 DEF TypeOK, OnlySigners, GatesShut, AllClosed, Kept, Switch, loops
<1>6. ASSUME NEW n \in Node, PersistKey(n), Kept PROVE IInv'
  <2>0. trustDB' = trustDB /\ enabled' = enabled /\ adding' = adding
    BY <1>6 DEF PersistKey
  <2>1. CASE ledger[n].auth
    <3>1. ledger' = ledger
      BY <1>6, <2>1 DEF PersistKey
    <3> QED
      BY <1>0, <1>6, <2>0, <3>1 DEF TypeOK, OnlySigners, GatesShut, Kept
  <2>2. CASE ~ ledger[n].auth
    <3> DEFINE new == [ledger[n] EXCEPT !.auth = TRUE]
    <3>1. Write(n, new)
      BY <1>6, <2>2 DEF PersistKey
    <3>2. ledger[n] \in Storage /\ ledger[n].tz \subseteq Trusted
      BY <1>0 DEF TypeOK, OnlySigners
    <3>3. /\ new \in Storage /\ new.foreign = ledger[n].foreign
          /\ new.tz \subseteq Trusted
      BY <3>2 DEF Storage
    <3> HIDE DEF new
    <3> QED
      BY <1>0, <1>6, <2>0, <3>1, <3>3, WriteKeeps DEF TypeOK, OnlySigners, Kept
  <2> QED
    BY <2>1, <2>2
<1>7. ASSUME NEW n \in Node, NEW p \in Node, PersistAdd(n, p), Kept PROVE IInv'
  <2> DEFINE new == [ledger[n] EXCEPT !.tz = @ \cup {p}]
  <2>1. Write(n, new) /\ trustDB' = trustDB /\ enabled' = enabled /\ adding' = adding
    BY <1>7 DEF PersistAdd, loops
  <2>2. p \in Trusted
    BY <1>0, <1>7 DEF PersistAdd, OnlySigners
  <2>3. /\ new \in Storage /\ new.foreign = ledger[n].foreign /\ new.tz \subseteq Trusted
    BY <1>0, <2>2 DEF TypeOK, Storage, OnlySigners
  <2> HIDE DEF new
  <2> QED
    BY <1>0, <1>7, <2>1, <2>3, WriteKeeps DEF TypeOK, OnlySigners, Kept
<1>8. ASSUME NEW n \in Node, NEW p \in Node,
             PersistCancel(n, p) \/ PersistTimeout(n, p), Kept PROVE IInv'
  BY <1>0, <1>8 DEF TypeOK, OnlySigners, GatesShut, Kept, PersistCancel, PersistTimeout
<1>9. ASSUME NEW n \in Node, CleanBegin(n), Kept PROVE IInv'
  BY <1>0, <1>9 DEF TypeOK, OnlySigners, GatesShut, Kept, CleanBegin
<1>10. ASSUME NEW n \in Node, NEW k \in Node, CleanKey(n, k), Kept PROVE IInv'
  <2> DEFINE new == [ledger[n] EXCEPT !.tz = @ \ {k}]
  <2>1. Write(n, new) /\ trustDB' = trustDB /\ enabled' = enabled /\ adding' = adding
    BY <1>10 DEF CleanKey
  <2>2. /\ new \in Storage /\ new.foreign = ledger[n].foreign /\ new.tz \subseteq Trusted
    BY <1>0 DEF TypeOK, Storage, OnlySigners
  <2> HIDE DEF new
  <2> QED
    BY <1>0, <1>10, <2>1, <2>2, WriteKeeps DEF TypeOK, OnlySigners, Kept
<1>11. ASSUME NEW n \in Node, Restart(n), Kept PROVE IInv'
  <2>1. \A p \in Node : /\ p # n => ledger'[p] = ledger[p] /\ trustDB'[p] = trustDB[p]
                                    /\ enabled'[p] = enabled[p] /\ adding'[p] = adding[p]
                        /\ p = n => /\ trustDB'[p] = {} /\ adding'[p] = {}
                                    /\ enabled'[p] = (mode[n] \in {"closed", "relaxed"})
                                    /\ ledger'[p] = IF OnDisk(n) THEN ledger[n] ELSE Empty
    BY <1>0, <1>11 DEF TypeOK, Restart
  <2>2. Empty \in Storage /\ Empty.tz = {} /\ ~ Empty.foreign
    BY DEF Empty, Storage
  <2>3. TypeOK'
    <3>1. ledger' \in [Node -> Storage]
      BY <1>0, <1>11, <2>2 DEF TypeOK, Restart
    <3>2. enabled' \in [Node -> BOOLEAN]
      BY <1>0, <1>11 DEF TypeOK, Restart
    <3>3. trustDB' \in [Node -> SUBSET Node] /\ adding' \in [Node -> SUBSET Node]
      BY <1>0, <1>11 DEF TypeOK, Restart
    <3> QED
      BY <1>0, <1>11, <3>1, <3>2, <3>3 DEF TypeOK, Kept
  <2>4. OnlySigners'
    BY <1>0, <1>11, <2>1, <2>2 DEF OnlySigners, Kept
  <2>5. GatesShut'
    <3> SUFFICES ASSUME AllClosed, NEW p \in Signer
                 PROVE  /\ enabled'[p] /\ trustDB'[p] \subseteq Trusted
                        /\ Sealed => ~ ledger'[p].foreign
      BY <1>11 DEF GatesShut, Kept
    <3>1. /\ enabled[p] /\ trustDB[p] \subseteq Trusted /\ mode[p] = "closed"
          /\ Sealed => ~ ledger[p].foreign
      BY <1>0 DEF GatesShut, AllClosed
    <3> QED
      BY <2>1, <3>1 DEF OnDisk
  <2> QED
    BY <2>3, <2>4, <2>5
<1>12. CASE UNCHANGED vars
  <2>1. Kept
    BY <1>12, SetupKept DEF vars
  <2> QED
    BY <1>0, <1>12, <2>1 DEF vars, zoneVars, TypeOK, OnlySigners, GatesShut, Kept
<1> QED
  BY <1>1, <1>2, <1>3, <1>4, <1>5, <1>6, <1>7, <1>8, <1>9, <1>10, <1>11, <1>12, SetupKept DEF Next, Step

LEMMA Invariant == Spec => []IInv
  BY Initially, Inductive, PTL DEF Spec

(* Only nodes that own a key of the ledger, and neighbours that hand on      *)
(* their challenges, come into the trust zone: PeerGuardian and the loops of *)
(* Persist behind it let nobody else in, for any network, restarts and       *)
(* cleanings.                                                               *)
THEOREM ZoneOfSigners == Spec => []OnlySigners
<1>1. IInv => OnlySigners
  BY DEF IInv
<1> QED
  BY <1>1, Invariant, PTL

(* Closed gates (Gate in peergater.go) keep what others write out of the    *)
(* ledgers of those who sign, in every network where no one they may come   *)
(* to trust brings them a block of another's; and whom they come to trust   *)
(* is known in any network.                                                 *)
THEOREM ClosedStaysClean == Spec => []ClosedIsClean
<1>1. IInv => ClosedIsClean
  BY DEF IInv, GatesShut, AllClosed, ClosedIsClean
<1> QED
  BY <1>1, Invariant, PTL

-----------------------------------------------------------------------------
(* Who is in the zones of two that can sign                                *)

(* n has never gone through the zone, nor will it while Undisturbed.        *)
Spares(n) == cleans = 0 \/ n \notin Cleaner

(* If two signers each find themselves in their own zone, the one that      *)
(* deletes nothing has the other in its zone too: it was itself who put the *)
(* other there, or it took its block from where the other was.              *)
Acquainted ==
    Undisturbed =>
        \A n, p \in Node :
            n # p /\ Signer = {n, p} /\ Spares(n) /\ n \in ledger[n].tz /\ p \in ledger[p].tz
                => p \in ledger[n].tz

PairInv ==
    /\ cleans \in Nat
    /\ cleaning \in [Node -> SUBSET Node]
    /\ \A n \in Node : n \notin adding[n]
    /\ \A n \in Node : cleaning[n] # {} => n \in Cleaner /\ cleans > 0
    /\ \A n \in Node : enabled[n] => mode[n] \in {"closed", "relaxed", "off"}
    /\ Acquainted

LEMMA PairInitially == Init => PairInv
<1> SUFFICES ASSUME Init PROVE PairInv
  OBVIOUS
<1> USE TrustAssumption
<1>1. cleans \in Nat /\ cleaning \in [Node -> SUBSET Node]
  BY DEF Init
<1>2. \A n \in Node : /\ n \notin adding[n] /\ cleaning[n] = {} /\ ledger[n].tz = {}
                      /\ enabled[n] => mode[n] \in {"closed", "relaxed", "off"}
  BY DEF Init, Empty
<1>3. Acquainted
  BY <1>2 DEF Acquainted
<1> QED
  BY <1>1, <1>2, <1>3 DEF PairInv

(* A step that lets nobody find itself in its zone who did not before, and  *)
(* takes no one else out of the zone of a node that still does and that     *)
(* deletes nothing, keeps them acquainted.                                  *)
LEMMA ZonesKept ==
    ASSUME Acquainted, Kept, cleans' = 0 => cleans = 0,
           \A n \in Node : n \in ledger'[n].tz => n \in ledger[n].tz,
           \A n, p \in Node :
               n # p /\ Spares(n) /\ n \in ledger'[n].tz /\ p \in ledger[n].tz
                   => p \in ledger'[n].tz
    PROVE  Acquainted'
<1>1. Undisturbed' => Undisturbed
  BY DEF Undisturbed, Kept
<1>2. \A n \in Node : Spares(n)' => Spares(n)
  BY DEF Spares
<1> QED
  BY <1>1, <1>2 DEF Acquainted

(* While nothing disturbs them, two signers take blocks of each other only. *)
LEMMA SignersHearSigners ==
    ASSUME IInv, Undisturbed, NEW n \in Signer,
           NEW f \in Node, NEW m \in Node, Gossip(n, f, m)
    PROVE  m \in Signer
<1> USE TrustAssumption
<1>1. m \in Present
  BY DEF Gossip
<1>2. CASE Present \subseteq Signer
  BY <1>1, <1>2
<1>3. CASE AllClosed /\ Sealed
  BY <1>3, SealedFromSigners
<1> QED
  BY <1>2, <1>3 DEF Undisturbed

LEMMA GossipAcquaints ==
    ASSUME IInv, PairInv, NEW n \in Node, NEW f \in Node, NEW m \in Node,
           Gossip(n, f, m), Kept
    PROVE  Acquainted'
<1> USE TrustAssumption
<1>1. cleans' = cleans /\ Acquainted /\ ledger \in [Node -> Storage]
  BY DEF Gossip, PairInv, IInv, TypeOK
<1>2. \A q \in Node : ledger'[q] = IF q = n THEN ledger[m] ELSE ledger[q]
  BY <1>1 DEF Gossip
<1>3. Undisturbed' => Undisturbed
  BY <1>1 DEF Undisturbed, Kept
<1> SUFFICES ASSUME Undisturbed, NEW q \in Node, NEW r \in Node, q # r, Signer = {q, r},
                    Spares(q), q \in ledger'[q].tz, r \in ledger'[r].tz
             PROVE  r \in ledger'[q].tz
  BY <1>1, <1>3 DEF Acquainted, Spares
<1>4. CASE n \notin {q, r}
  BY <1>1, <1>2, <1>4 DEF Acquainted
<1>5. CASE n \in {q, r}
  <2>1. m \in {q, r}
    BY <1>5, SignersHearSigners
  <2>2. CASE m = n
    BY <1>1, <1>2, <2>2 DEF Acquainted
  <2>3. CASE m # n
    <3>1. ledger'[q] = ledger'[r]
      BY <1>2, <1>5, <2>1, <2>3
    <3> QED
      BY <3>1
  <2> QED
    BY <2>2, <2>3
<1> QED
  BY <1>4, <1>5

(* What Write leaves of the zones.                                          *)
LEMMA WriteZones ==
    ASSUME IInv, NEW n \in Node, NEW storage \in Storage, Write(n, storage)
    PROVE  \A q \in Node : ledger'[q].tz = IF q = n THEN storage.tz ELSE ledger[q].tz
<1> DEFINE new == [storage EXCEPT !.foreign = @ \/ n \notin Signer]
<1>1. new.tz = storage.tz
  BY DEF Storage
<1>2. ledger' = [ledger EXCEPT ![n] = new]
  BY DEF Write
<1> HIDE DEF new
<1> QED
  BY <1>1, <1>2 DEF IInv, TypeOK

LEMMA PairInductive == IInv /\ PairInv /\ [Next]_vars => PairInv'
<1> SUFFICES ASSUME IInv, PairInv, [Next]_vars PROVE PairInv'
  OBVIOUS
<1> USE TrustAssumption
<1> DEFINE Rest == /\ cleans \in Nat
                   /\ cleaning \in [Node -> SUBSET Node]
                   /\ \A n \in Node : n \notin adding[n]
                   /\ \A n \in Node : cleaning[n] # {} => n \in Cleaner /\ cleans > 0
                   /\ \A n \in Node : enabled[n] => mode[n] \in {"closed", "relaxed", "off"}
<1>0. TypeOK /\ Acquainted /\ Rest
  BY DEF IInv, PairInv
<1>a. Acquainted' /\ Rest' => PairInv'
  BY DEF PairInv
<1>b. \A n \in Node : ledger[n] \in Storage
  BY <1>0 DEF TypeOK
(* Steps that leave the ledgers as they are.                                *)
<1>c. ASSUME ledger' = ledger, Kept, cleans' = 0 => cleans = 0 PROVE Acquainted'
  BY <1>0, <1>c, ZonesKept
<1>1. ASSUME NEW n \in Node, NEW f \in Node, NEW m \in Node, Gossip(n, f, m), Kept PROVE PairInv'
  <2>1. Rest'
    BY <1>0, <1>1 DEF Gossip, loops, Kept
  <2> QED
    BY <1>a, <1>1, <2>1, GossipAcquaints
<1>2. ASSUME NEW n \in Node, NEW f \in Node, NEW m \in Node, Challenge(m, f, n), Kept PROVE PairInv'
  <2>1. f # n
    BY <1>0, <1>2 DEF Challenge, TypeOK
  <2>2. Rest'
    BY <1>0, <1>2, <2>1 DEF Challenge, TypeOK, Kept
  <2> QED
    BY <1>0, <1>a, <1>c, <1>2, <2>2 DEF Challenge
<1>3. ASSUME NEW n \in Node, Announce(n), Kept PROVE PairInv'
  <2>1. Rest'
    BY <1>0, <1>3 DEF Announce, loops, Kept
  <2>2. \A q \in Node : ledger'[q].tz = ledger[q].tz
    BY <1>b, <1>3, WriteZones DEF Announce
  <2>3. Acquainted'
    BY <1>0, <1>3, <2>2, ZonesKept DEF Announce
  <2> QED
    BY <1>a, <2>1, <2>3
<1>4. ASSUME NEW n \in Node, UpdaterService(n), Kept PROVE PairInv'
  <2>1. Rest'
    BY <1>0, <1>4 DEF UpdaterService, loops, Kept
  <2> QED
    BY <1>0, <1>a, <1>c, <1>4, <2>1 DEF UpdaterService
<1>5. ASSUME NEW n \in Node, Switch(n), Kept PROVE PairInv'
  <2>1. Rest'
    BY <1>0, <1>5 DEF Switch, loops, TypeOK, Kept
  <2> QED
    BY <1>0, <1>a, <1>c, <1>5, <2>1 DEF Switch
<1>6. ASSUME NEW n \in Node, PersistKey(n), Kept PROVE PairInv'
  <2>1. Rest'
    BY <1>0, <1>6 DEF PersistKey, Kept
  <2>2. \A q \in Node : ledger'[q].tz = ledger[q].tz
    <3>1. CASE ledger[n].auth
      BY <1>6, <3>1 DEF PersistKey
    <3>2. CASE ~ ledger[n].auth
      <4> DEFINE new == [ledger[n] EXCEPT !.auth = TRUE]
      <4>1. Write(n, new)
        BY <1>6, <3>2 DEF PersistKey
      <4>2. ledger[n] \in Storage
        BY <1>b
      <4>3. new \in Storage /\ new.tz = ledger[n].tz
        BY <4>2 DEF Storage
      <4> HIDE DEF new
      <4> QED
        BY <4>1, <4>3, WriteZones
    <3> QED
      BY <3>1, <3>2
  <2>3. Acquainted'
    BY <1>0, <1>6, <2>2, ZonesKept DEF PersistKey
  <2> QED
    BY <1>a, <2>1, <2>3
<1>7. ASSUME NEW n \in Node, NEW p \in Node, PersistAdd(n, p), Kept PROVE PairInv'
  <2>1. Rest'
    BY <1>0, <1>7 DEF PersistAdd, loops, Kept
  <2>2. \A q \in Node : ledger'[q].tz = IF q = n THEN ledger[n].tz \cup {p} ELSE ledger[q].tz
    <3> DEFINE new == [ledger[n] EXCEPT !.tz = @ \cup {p}]
    <3>1. new \in Storage /\ new.tz = ledger[n].tz \cup {p} /\ Write(n, new)
      BY <1>b, <1>7 DEF PersistAdd, Storage
    <3> HIDE DEF new
    <3> QED
      BY <3>1, WriteZones
  <2>3. p # n /\ cleans' = cleans
    BY <1>0, <1>7 DEF PersistAdd
  <2>4. Acquainted'
    BY <1>0, <1>7, <2>2, <2>3, ZonesKept
  <2> QED
    BY <1>a, <2>1, <2>4
<1>8. ASSUME NEW n \in Node, NEW p \in Node,
             PersistCancel(n, p) \/ PersistTimeout(n, p), Kept PROVE PairInv'
  <2>1. Rest'
    BY <1>0, <1>8 DEF PersistCancel, PersistTimeout, TypeOK, Kept
  <2> QED
    BY <1>0, <1>a, <1>c, <1>8, <2>1 DEF PersistCancel, PersistTimeout
<1>9. ASSUME NEW n \in Node, CleanBegin(n), Kept PROVE PairInv'
  <2>1. Rest'
    <3>1. cleaning' \in [Node -> SUBSET Node]
      BY <1>0, <1>b, <1>9 DEF CleanBegin, Storage
    <3> QED
      BY <1>0, <1>9, <3>1 DEF CleanBegin, Kept
  <2> QED
    BY <1>0, <1>a, <1>c, <1>9, <2>1 DEF CleanBegin
<1>10. ASSUME NEW n \in Node, NEW k \in Node, CleanKey(n, k), Kept PROVE PairInv'
  <2>1. Rest'
    BY <1>0, <1>10 DEF CleanKey, Kept
  <2>2. \A q \in Node : ledger'[q].tz = IF q = n THEN ledger[n].tz \ {k} ELSE ledger[q].tz
    <3> DEFINE new == [ledger[n] EXCEPT !.tz = @ \ {k}]
    <3>1. new \in Storage /\ new.tz = ledger[n].tz \ {k} /\ Write(n, new)
      BY <1>b, <1>10 DEF CleanKey, Storage
    <3> HIDE DEF new
    <3> QED
      BY <3>1, WriteZones
  <2>3. ~ Spares(n) /\ cleans' = cleans
    BY <1>0, <1>10 DEF CleanKey, Spares
  <2>4. Acquainted'
    BY <1>0, <1>10, <2>2, <2>3, ZonesKept
  <2> QED
    BY <1>a, <2>1, <2>4
<1>11. ASSUME NEW n \in Node, Restart(n), Kept PROVE PairInv'
  <2>1. Rest'
    <3>1. enabled' = [enabled EXCEPT ![n] = mode[n] \in {"closed", "relaxed"}]
      BY <1>11 DEF Restart
    <3>2. \A q \in Node : enabled'[q] => mode[q] \in {"closed", "relaxed", "off"}
      BY <1>0, <3>1 DEF TypeOK
    <3>3. /\ cleans' \in Nat
          /\ cleaning' \in [Node -> SUBSET Node]
          /\ \A q \in Node : q \notin adding'[q]
          /\ \A q \in Node : cleaning'[q] # {} => q \in Cleaner /\ cleans' > 0
      BY <1>0, <1>11 DEF Restart, TypeOK
    <3> QED
      BY <1>11, <3>2, <3>3 DEF Kept
  <2>2. \A q \in Node : \/ ledger'[q] = ledger[q]
                       \/ ledger'[q] = Empty
    BY <1>0, <1>11 DEF Restart, TypeOK
  <2>3. cleans' = cleans /\ Empty.tz = {}
    BY <1>11 DEF Restart, Empty
  <2>4. Acquainted'
    BY <1>0, <1>11, <2>2, <2>3, ZonesKept
  <2> QED
    BY <1>a, <2>1, <2>4
<1>12. CASE UNCHANGED vars
  <2>0. Kept
    BY <1>12, SetupKept DEF vars
  <2>1. Rest'
    BY <1>0, <1>12, <2>0 DEF vars, zoneVars, Kept
  <2> QED
    BY <1>0, <1>a, <1>c, <1>12, <2>0, <2>1 DEF vars, zoneVars
<1> QED
  BY <1>1, <1>2, <1>3, <1>4, <1>5, <1>6, <1>7, <1>8, <1>9, <1>10, <1>11, <1>12, SetupKept DEF Next, Step

(* Two that can sign always keep a way back to each other (Challenger and   *)
(* challengeHandler in peerguardian.go, with the gate of peergater.go): for *)
(* any configuration of their gates and any number of restarts and passes,  *)
(* unless both of them clean, or a third keeps old blocks for them; as long  *)
(* as they are neighbours, for the hand that brings a challenge is added.    *)
THEOREM TwoSignersMeet == Spec => []NobodyShutOut
<1>1. IInv /\ PairInv => NobodyShutOut
  <2> SUFFICES ASSUME IInv, PairInv, Undisturbed, NEW n \in Node, NEW p \in Node,
                      n # p, Signer = {n, p}, ~ Challenged(n), ~ Challenged(p),
                      ~ Hears(n, p), ~ Hears(p, n)
               PROVE  FALSE
    BY DEF NobodyShutOut
  <2>1. n \in Guarded /\ p \in Guarded
    BY DEF Hears, Gate, Guarded, Present, PairInv
  <2>2. n \in ledger[n].tz /\ p \in ledger[p].tz
    BY <2>1 DEF Challenged, InTrustZone
  <2>3. p \notin ledger[n].tz /\ n \notin ledger[p].tz
    BY DEF Hears
  <2>4. Spares(n) \/ Spares(p)
    BY DEF Undisturbed, Spares
  <2> QED
    BY <2>2, <2>3, <2>4 DEF PairInv, Acquainted
<1>2. Spec => []PairInv
  BY Invariant, PairInitially, PairInductive, PTL DEF Spec
<1> QED
  BY <1>1, <1>2, Invariant, PTL
=============================================================================
