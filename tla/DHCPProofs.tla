----------------------------- MODULE DHCPProofs -----------------------------
(***************************************************************************)
(* Proofs about DHCP, for any nodes, replicas, hashes, leases and bounds:  *)
(* its types, that a node is announced under one address only, and that no *)
(* two nodes take the same address while every pass that goes on sees all  *)
(* nodes and every address its ledger had before.                          *)
(***************************************************************************)
EXTENDS DHCP, FiniteSetTheorems, WellFoundedInduction, TLAPS

Machines == UNION {[ips -> Node] : ips \in {D \in SUBSET (Nat \ {0}) : IsFiniteSet(D)}}

Storage == [alive: SUBSET Node, machines: Machines, leader: Node \cup {None}]

Reading == [nodes: SUBSET Node, needy: SUBSET Node, ips: {D \in SUBSET Nat : IsFiniteSet(D)}]

TypeOK ==
    /\ home \in [Node -> Replica]
    /\ ledger \in [Replica -> Storage]
    /\ met \in [Replica -> SUBSET Node]
    /\ lease \in [Node -> Nat] /\ address \in [Node -> Nat]
    /\ pc \in [Node -> {"silent", "sleep", "machines", "leader", "up"}]
    /\ seen \in [Node -> Reading]
    /\ loops \in [Node -> Nat] /\ due \in [Node -> Nat]
    /\ partial \in BOOLEAN /\ forgot \subseteq Node

(* A node without address is the one that runs the loop.                    *)
AddressEndsLoop ==
    \A n \in Node : /\ address[n] # 0 => pc[n] \in {"up", "silent"}
                    /\ pc[n] = "up" => address[n] # 0
                    /\ lease[n] \in {0, address[n]}

(* What these machines have for a node is the address it has taken, unless  *)
(* it forgot it.                                                            *)
Truthful(machines) ==
    \A ip \in DOMAIN machines : machines[ip] \notin forgot => address[machines[ip]] = ip

AnnouncesAddress == \A r \in Replica : Truthful(ledger[r].machines)

(* Who was ever in a ledger has an address.                                 *)
MetIsServed ==
    \A r \in Replica :
        /\ Range(ledger[r].machines) \subseteq met[r]
        /\ \A m \in met[r] : m \notin forgot => address[m] # 0

Inv1 == TypeOK /\ AddressEndsLoop /\ AnnouncesAddress /\ MetIsServed

Trying(n) == (\E r \in Replica : ledger[r].leader = n) \/ loops[n] + due[n] > 0

Unique == \A n, m \in Node : n # m /\ address[n] # 0 => address[n] # address[m]

(* Who leads in some ledger, or has itself announced as leader, without an  *)
(* address has seen all nodes of greater hash with theirs in its ledger.    *)
TryingHasMet ==
    \A n \in Node : Trying(n) /\ address[n] = 0 =>
        \A m \in Node : Rank[m] > Rank[n] => m \in met[home[n]]

(* A node served before one of greater hash was served in an earlier run.   *)
ServedInOrder ==
    \A n, m \in Node : address[m] # 0 /\ address[n] = 0 /\ Rank[m] < Rank[n] =>
        \A r \in Replica : m \in met[r]

(* What a node that goes on has read lacks only nodes that its ledger had.  *)
SeesUnserved ==
    \A n \in Node : pc[n] = "leader" =>
        seen[n].needy # {} /\ \A m \in Node \ seen[n].needy : m \in met[home[n]]

ReadIsFresh ==
    \A n \in Node : pc[n] = "leader" /\ Trying(n) =>
        \A m \in Node \ {n} : address[m] # 0 => address[m] \in seen[n].ips

Clean == ~ partial /\ forgot = {}

Inv2 == Clean => Unique /\ TryingHasMet /\ ServedInOrder /\ SeesUnserved /\ ReadIsFresh

-----------------------------------------------------------------------------
(* Finite sets *)

(* Of some finite sets one contains no other: what an induction over finite *)
(* sets takes as its smallest counterexample.                               *)
LEMMA LeastFiniteSet ==
    ASSUME NEW S, NEW T \in SUBSET FiniteSubsetsOf(S), T # {}
    PROVE  \E U \in T : \A V \in T : V \subseteq U => V = U
<1>1. PICK U \in T : \A V \in T : ~ (<<V, U>> \in StrictSubsetOrdering(S))
  BY FS_StrictSubsetOrderingWellFounded, WFMin
<1>2. QED
  BY <1>1 DEF StrictSubsetOrdering, FiniteSubsetsOf

(* Max is defined on the finite sets of naturals that are not empty.        *)
LEMMA HasGreatest ==
    ASSUME NEW S \in SUBSET Nat, IsFiniteSet(S), S # {}
    PROVE  \E x \in S : \A y \in S : x >= y
<1> DEFINE Bad == {U \in FiniteSubsetsOf(S) : U # {} /\ \A x \in U : \E y \in U : ~ (x >= y)}
<1>1. SUFFICES ASSUME Bad # {} PROVE FALSE
  BY DEF FiniteSubsetsOf
<1>2. PICK U \in Bad : \A V \in Bad : V \subseteq U => V = U
  <2>1. Bad \in SUBSET FiniteSubsetsOf(S)
    OBVIOUS
  <2> HIDE DEF Bad
  <2>2. QED
    BY <1>1, <2>1, LeastFiniteSet
<1>3. PICK x \in U : TRUE
  OBVIOUS
<1> DEFINE W == U \ {x}
<1>4. IsFiniteSet(W) /\ W \subseteq U /\ W # U /\ W \subseteq S
  BY <1>3, FS_Subset DEF FiniteSubsetsOf
<1>5. W \notin Bad
  BY <1>2, <1>4
<1>6. CASE W = {}
  BY <1>2, <1>3, <1>6 DEF FiniteSubsetsOf
<1>7. CASE W # {}
  <2>1. PICK z \in W : \A y \in W : z >= y
    BY <1>4, <1>5, <1>7 DEF FiniteSubsetsOf
  <2>2. x \in Nat /\ z \in Nat /\ U \subseteq Nat
    BY <1>3, <1>4 DEF FiniteSubsetsOf
  <2>3. CASE z >= x
    BY <1>2, <2>1, <2>2, <2>3
  <2>4. CASE ~ (z >= x)
    BY <1>2, <1>3, <2>1, <2>2, <2>4
  <2>5. QED
    BY <2>3, <2>4
<1>8. QED
  BY <1>6, <1>7

LEMMA ImageFinite ==
    ASSUME NEW S, IsFiniteSet(S), NEW f, DOMAIN f = S, f \in [S -> Range(f)]
    PROVE  IsFiniteSet(Range(f))
<1>1. f \in Surjection(S, Range(f))
  BY DEF Surjection, Range
<1>2. QED
  BY <1>1, FS_Surjection

(* The address after the greatest is taken by nobody.                       *)
LEMMA NextIPIsNew ==
    ASSUME NEW ips \in SUBSET Nat, IsFiniteSet(ips)
    PROVE  NextIP(ips) \in Nat \ {0} /\ NextIP(ips) \notin ips
<1>1. CASE ips = {}
  BY <1>1, DHCPAssumption DEF NextIP
<1>2. CASE ips # {}
  <2>1. Max(ips) \in ips /\ \A y \in ips : Max(ips) >= y
    BY <1>2, HasGreatest DEF Max
  <2> DEFINE m == Max(ips)
  <2>2. NextIP(ips) = m + 1
    BY <1>2 DEF NextIP
  <2>3. m \in ips /\ m \in Nat /\ \A y \in ips : m >= y
    BY <2>1
  <2> HIDE DEF m
  <2>4. m + 1 \notin ips /\ m + 1 \in Nat \ {0}
    BY <2>3
  <2>5. QED
    BY <2>2, <2>4
<1>3. QED
  BY <1>1, <1>2

(* Of any nodes one has the greatest hash, and only one.                    *)
LEMMA LeaderLeads ==
    ASSUME NEW actives \in SUBSET Node, actives # {}
    PROVE  /\ Leader(actives) \in actives
           /\ \A m \in actives : Rank[m] <= Rank[Leader(actives)]
<1> DEFINE f == [n \in actives |-> Rank[n]]
<1>1. IsFiniteSet(actives) /\ Rank \in [Node -> Nat]
  BY FS_Subset, DHCPAssumption
<1>2. Range(f) \in SUBSET Nat /\ Range(f) # {} /\ IsFiniteSet(Range(f))
  <2>1. DOMAIN f = actives /\ f \in [actives -> Range(f)]
    BY DEF Range
  <2>2. IsFiniteSet(Range(f))
    BY <1>1, <2>1, ImageFinite
  <2>3. QED
    BY <1>1, <2>2 DEF Range
<1>3. PICK n \in actives : \A m \in actives : f[n] >= f[m]
  <2>1. PICK x \in Range(f) : \A y \in Range(f) : x >= y
    BY <1>2, HasGreatest
  <2>2. QED
    BY <2>1 DEF Range
<1>4. \A m \in actives : Rank[m] <= Rank[n]
  BY <1>1, <1>3
<1>5. QED
  BY <1>4 DEF Leader

-----------------------------------------------------------------------------
(* What is announced *)

LEMMA MachinesAre ==
    ASSUME NEW machines \in Machines
    PROVE  /\ DOMAIN machines \subseteq Nat \ {0} /\ IsFiniteSet(DOMAIN machines)
           /\ machines \in [DOMAIN machines -> Node]
BY DEF Machines

(* The ledger of the start: every lease is announced, as a node's that has  *)
(* it.                                                                      *)
LEMMA InitMachines ==
    ASSUME NEW leases \in [Node -> Nat]
    PROVE  /\ Announced(leases) \in Machines
           /\ \A ip \in DOMAIN Announced(leases) :
                 /\ Announced(leases)[ip] \in Leased(leases)
                 /\ leases[Announced(leases)[ip]] = ip
<1> DEFINE all == Announced(leases)
<1>1. /\ DOMAIN all = {leases[n] : n \in Leased(leases)}
      /\ all = [ip \in DOMAIN all |-> all[ip]]
      /\ \A ip \in DOMAIN all : all[ip] = CHOOSE n \in Leased(leases) : leases[n] = ip
  BY DEF Announced
<1>2. IsFiniteSet(DOMAIN all)
  <2> DEFINE f == [n \in Leased(leases) |-> leases[n]]
  <2>1. IsFiniteSet(Leased(leases))
    BY FS_Subset, DHCPAssumption DEF Leased
  <2>2. DOMAIN f = Leased(leases) /\ f \in [Leased(leases) -> Range(f)]
    BY DEF Range
  <2>3. Range(f) = DOMAIN all
    BY <1>1 DEF Range
  <2>4. QED
    BY <2>1, <2>2, <2>3, ImageFinite
<1> HIDE DEF all
<1>3. \A ip \in DOMAIN all : all[ip] \in Leased(leases) /\ leases[all[ip]] = ip
  BY <1>1
<1>4. DOMAIN all \in SUBSET (Nat \ {0}) /\ all \in [DOMAIN all -> Node]
  BY <1>1, <1>3 DEF Leased
<1>5. all \in Machines
  BY <1>2, <1>4 DEF Machines
<1>6. QED
  BY <1>3, <1>5 DEF all

LEMMA NothingIsReading == NothingSeen \in Reading
BY FS_EmptySet DEF NothingSeen, Reading

LEMMA Initially1 == Init => Inv1
<1> SUFFICES ASSUME Init PROVE Inv1
  OBVIOUS
<1>1. /\ home \in [Node -> Replica] /\ lease \in [Node -> Nat] /\ address = lease
      /\ \A r \in Replica : ledger[r].machines = Announced(lease) /\ met[r] = Leased(lease)
      /\ \A n \in Node : pc[n] = StartAt(n, lease[n])
      /\ forgot = {} /\ partial = FALSE
  BY DHCPAssumption DEF Init
<1>2. ledger \in [Replica -> Storage]
  <2>1. PICK start \in Starts :
            \E lead \in IF Leased(lease) = {} THEN {None} ELSE Leased(lease) :
                ledger = [r \in Replica |-> [alive |-> start.alive, machines |-> Announced(lease),
                                            leader |-> lead]]
    BY DEF Init
  <2>2. start.alive \in SUBSET Node
    BY <2>1, DHCPAssumption
  <2>3. QED
    BY <1>1, <2>1, <2>2, InitMachines DEF Storage, Leased
<1>3. TypeOK
  <2>1. pc \in [Node -> {"silent", "sleep", "machines", "leader", "up"}]
    BY DEF Init, StartAt
  <2>2. met \in [Replica -> SUBSET Node]
    BY DEF Init, Leased
  <2>3. seen \in [Node -> Reading] /\ loops \in [Node -> Nat] /\ due \in [Node -> Nat]
    BY NothingIsReading DEF Init
  <2>4. QED
    BY <1>1, <1>2, <2>1, <2>2, <2>3 DEF TypeOK
<1>4. AddressEndsLoop
  BY <1>1 DEF AddressEndsLoop, StartAt
<1>5. AnnouncesAddress
  BY <1>1, InitMachines DEF AnnouncesAddress, Truthful
<1>6. MetIsServed
  BY <1>1, InitMachines DEF MetIsServed, Range, Leased
<1>7. QED
  BY <1>3, <1>4, <1>5, <1>6 DEF Inv1

(* What Put leaves of the ledgers, and of who was ever in them.             *)
LEMMA PutIs ==
    ASSUME TypeOK, NEW r \in Replica, NEW storage \in Storage, NEW i, Put(r, storage, i)
    PROVE  /\ ledger' \in [Replica -> Storage] /\ met' \in [Replica -> SUBSET Node]
           /\ \A q \in Replica :
                 /\ ledger'[q] = IF q = r THEN storage ELSE ledger[q]
                 /\ met'[q] = IF q = r THEN met[q] \cup Range(storage.machines) ELSE met[q]
<1>1. ledger' = [ledger EXCEPT ![r] = storage]
      /\ met' = [met EXCEPT ![r] = @ \cup Range(storage.machines)]
  BY DEF Put
<1>2. Range(storage.machines) \subseteq Node
  BY MachinesAre DEF Storage, Range
<1>3. QED
  BY <1>1, <1>2 DEF TypeOK

(* A step that puts a truthful storage over a block and leaves the nodes    *)
(* alone.                                                                   *)
LEMMA PutKeeps ==
    ASSUME Inv1, NEW r \in Replica, NEW storage \in Storage, NEW i, Put(r, storage, i),
           UNCHANGED <<home, nodeVars, forgot>>, partial' \in BOOLEAN,
           loops' \in [Node -> Nat], due' \in [Node -> Nat],
           Truthful(storage.machines), \A ip \in DOMAIN storage.machines : ip # 0
    PROVE  Inv1'
<1>1. TypeOK /\ AddressEndsLoop /\ AnnouncesAddress /\ MetIsServed
  BY DEF Inv1
<1>2. /\ ledger' \in [Replica -> Storage] /\ met' \in [Replica -> SUBSET Node]
      /\ \A q \in Replica :
            /\ ledger'[q] = IF q = r THEN storage ELSE ledger[q]
            /\ met'[q] = IF q = r THEN met[q] \cup Range(storage.machines) ELSE met[q]
  BY <1>1, PutIs
<1>3. TypeOK' /\ AddressEndsLoop'
  BY <1>1, <1>2 DEF TypeOK, AddressEndsLoop, nodeVars
<1>4. AnnouncesAddress'
  BY <1>1, <1>2 DEF AnnouncesAddress, Truthful, nodeVars
<1>5. MetIsServed'
  <2>1. \A m \in Range(storage.machines) : m \notin forgot => address[m] # 0
    BY DEF Truthful, Range
  <2>2. QED
    BY <1>1, <1>2, <2>1 DEF MetIsServed, nodeVars
<1>6. QED
  BY <1>3, <1>4, <1>5 DEF Inv1

(* Every copy is one of these, and truthful.                                *)
LEMMA CopiesAre ==
    ASSUME Inv1, NEW copy \in Copies
    PROVE  /\ copy \in Storage /\ Truthful(copy.machines)
           /\ \A ip \in DOMAIN copy.machines : ip # 0
           /\ \E r \in Replica : copy = ledger[r]
<1>1. PICK r \in Replica : copy = ledger[r]
  BY DEF Copies, Homes, Range, Inv1, TypeOK
<1>2. copy \in Storage /\ Truthful(copy.machines)
  BY <1>1 DEF Inv1, TypeOK, AnnouncesAddress
<1>3. QED
  BY <1>1, <1>2, MachinesAre DEF Storage

(* Announcing an address adds it, as the node's.                            *)
LEMMA WithAdds ==
    \A machines \in Machines, ip \in Nat \ {0}, n \in Node :
        With(machines, ip, n) \in Machines
<1> TAKE machines \in Machines, ip \in Nat \ {0}, n \in Node
<1>1. /\ DOMAIN machines \subseteq Nat \ {0} /\ IsFiniteSet(DOMAIN machines)
      /\ machines \in [DOMAIN machines -> Node]
  BY MachinesAre
<1>2. IsFiniteSet(DOMAIN machines \cup {ip})
  BY <1>1, FS_AddElement
<1>3. With(machines, ip, n) \in [DOMAIN machines \cup {ip} -> Node]
  BY <1>1 DEF With
<1>4. QED
  BY <1>1, <1>2, <1>3 DEF Machines

LEMMA EmptyIsStorage ==
    Empty \in Storage /\ Truthful(Empty.machines) /\ DOMAIN Empty.machines = {} /\ Empty.leader = None
<1>1. <<>> \in [{} -> Node] /\ DOMAIN <<>> = {}
  OBVIOUS
<1>2. IsFiniteSet({})
  BY FS_EmptySet
<1>3. <<>> \in Machines
  BY <1>1, <1>2 DEF Machines
<1>4. QED
  BY <1>1, <1>3 DEF Empty, Storage, Truthful

LEMMA Inductive1 == Inv1 /\ [Next]_vars => Inv1'
<1> SUFFICES ASSUME Inv1, [Next]_vars PROVE Inv1'
  OBVIOUS
<1>0. TypeOK /\ AddressEndsLoop /\ AnnouncesAddress /\ MetIsServed /\ NothingSeen \in Reading
  BY NothingIsReading DEF Inv1
<1>h. \A n \in Node : home[n] \in Replica /\ My(n) \in Storage
  BY <1>0 DEF TypeOK, My
(* Steps that leave ledgers and addresses alone.                            *)
<1>s. ASSUME UNCHANGED <<home, ledgerVars, lease, address, forgot>>, partial' \in BOOLEAN,
             pc' \in [Node -> {"silent", "sleep", "machines", "leader", "up"}],
             seen' \in [Node -> Reading], loops' \in [Node -> Nat], due' \in [Node -> Nat],
             \A n \in Node : pc'[n] = pc[n] \/ (pc[n] \notin {"up", "silent"} /\ pc'[n] # "up")
      PROVE  Inv1'
  <2>1. TypeOK' /\ AnnouncesAddress' /\ MetIsServed'
    BY <1>0, <1>s DEF TypeOK, AnnouncesAddress, Truthful, MetIsServed, ledgerVars
  <2>2. AddressEndsLoop'
    BY <1>0, <1>s DEF TypeOK, AddressEndsLoop
  <2>3. QED
    BY <2>1, <2>2 DEF Inv1
<1>1. ASSUME NEW n \in Node, Beat(n) PROVE Inv1'
  <2>1. PICK copy \in Copies : Write(n, [copy EXCEPT !.alive = @ \cup {n}])
    BY <1>1 DEF Beat
  <2> DEFINE new == [copy EXCEPT !.alive = @ \cup {n}]
  <2>2. new \in Storage /\ new.machines = copy.machines
    BY CopiesAre DEF Storage
  <2> HIDE DEF new
  <2>3. Put(home[n], new, index[home[n]] + 1)
    BY <2>1 DEF Write, new
  <2>4. QED
    BY <1>0, <1>1, <1>h, <2>2, <2>3, CopiesAre, PutKeeps DEF Beat, persistVars, history, TypeOK
<1>2. ASSUME NEW n \in Node, Scrub(n) PROVE Inv1'
  <2>1. PICK copy \in Copies : Write(n, [copy EXCEPT !.alive = {}])
    BY <1>2 DEF Scrub
  <2> DEFINE new == [copy EXCEPT !.alive = {}]
  <2>2. new \in Storage /\ new.machines = copy.machines
    BY CopiesAre DEF Storage
  <2> HIDE DEF new
  <2>3. Put(home[n], new, index[home[n]] + 1)
    BY <2>1 DEF Write, new
  <2>4. QED
    BY <1>0, <1>2, <1>h, <2>2, <2>3, CopiesAre, PutKeeps DEF Scrub, Lose, persistVars, history, TypeOK
<1>3. ASSUME NEW r \in Replica, NEW n \in Node, Expire(r, n) PROVE Inv1'
  <2> DEFINE new == [ledger[r] EXCEPT !.alive = @ \ {n}]
  <2>1. /\ ledger' = [ledger EXCEPT ![r] = new]
        /\ UNCHANGED <<met, home, nodeVars, loops, due, partial, forgot>>
    BY <1>3 DEF Expire, Lose, persistVars, history
  <2>2. new \in Storage /\ new.machines = ledger[r].machines
    <3>1. ledger[r] \in Storage
      BY <1>0 DEF TypeOK
    <3>2. QED
      BY <3>1 DEF Storage
  <2> HIDE DEF new
  <2>3. /\ ledger' \in [Replica -> Storage]
        /\ \A q \in Replica : ledger'[q].machines = ledger[q].machines
    BY <1>0, <2>1, <2>2 DEF TypeOK
  <2>4. QED
    BY <1>0, <2>1, <2>3 DEF Inv1, TypeOK, AddressEndsLoop, AnnouncesAddress, Truthful, MetIsServed,
                            nodeVars
<1>4. ASSUME NEW n \in Node, ReadNodes(n) PROVE Inv1'
  <2>1. My(n).alive \in SUBSET Node
    BY <1>h DEF Storage
  <2>2. seen' \in [Node -> Reading]
    BY <1>0, <1>4, <2>1 DEF TypeOK, ReadNodes, Reading
  <2>3. QED
    BY <1>0, <1>4, <1>s, <2>2 DEF TypeOK, ReadNodes, Goto, persistVars, history
<1>5. ASSUME NEW n \in Node, ReadMachines(n) PROVE Inv1'
  <2>1. PICK read \in Reading : seen' = [seen EXCEPT ![n] = read]
    <3> DEFINE all == [nodes |-> {}, needy |-> seen[n].nodes \ Range(My(n).machines),
                       ips |-> DOMAIN My(n).machines]
    <3>1. seen[n] \in Reading /\ My(n).machines \in Machines
      BY <1>0, <1>h DEF TypeOK, Storage
    <3>2. DOMAIN My(n).machines \subseteq Nat /\ IsFiniteSet(DOMAIN My(n).machines)
      BY <3>1, MachinesAre
    <3>3. all \in Reading
      BY <3>1, <3>2 DEF Reading
    <3>4. seen' = [seen EXCEPT ![n] = all] \/ seen' = [seen EXCEPT ![n] = NothingSeen]
      BY <1>5 DEF ReadMachines
    <3> HIDE DEF all
    <3>5. QED
      BY <1>0, <3>3, <3>4
  <2>2. seen' \in [Node -> Reading]
    BY <1>0, <2>1 DEF TypeOK
  <2>3. partial' \in BOOLEAN
    BY <1>5 DEF ReadMachines
  <2>4. /\ pc[n] = "machines" /\ \E to \in {"leader", "sleep"} : pc' = [pc EXCEPT ![n] = to]
        /\ UNCHANGED <<home, ledgerVars, lease, address, persistVars, forgot>>
    BY <1>5 DEF ReadMachines, Goto
  <2>5. QED
    BY <1>0, <1>s, <2>2, <2>3, <2>4 DEF TypeOK, persistVars
<1>6. ASSUME NEW n \in Node, Wait(n) PROVE Inv1'
  BY <1>0, <1>6, <1>s DEF TypeOK, Wait, Again, Goto, persistVars, history
<1>7. ASSUME NEW n \in Node, Claim(n) PROVE Inv1'
  BY <1>0, <1>7, <1>s DEF TypeOK, Claim, Again, Goto, history
<1>8. ASSUME NEW n \in Node, Choose(n) PROVE Inv1'
  <2> DEFINE ip == NextIP(seen[n].ips)
  <2>1. ip \in Nat \ {0}
    BY <1>0, NextIPIsNew DEF TypeOK, Reading
  <2> HIDE DEF ip
  <2>2. /\ pc[n] = "leader" /\ pc' = [pc EXCEPT ![n] = "up"]
        /\ address' = [address EXCEPT ![n] = ip]
        /\ lease' = lease \/ lease' = [lease EXCEPT ![n] = ip]
        /\ seen' = [seen EXCEPT ![n] = NothingSeen]
        /\ UNCHANGED <<home, ledger, met, loops, due, partial, forgot>>
    BY <1>8 DEF Choose, Goto, ledgerVars, persistVars, history, ip
  <2>3. address[n] = 0 /\ lease[n] = 0
    BY <1>0, <2>2 DEF AddressEndsLoop, TypeOK
  <2>4. TypeOK' /\ AddressEndsLoop'
    BY <1>0, <2>1, <2>2, <2>3 DEF TypeOK, AddressEndsLoop
  <2>5. AnnouncesAddress'
    <3>1. ASSUME NEW r \in Replica, NEW i \in DOMAIN ledger[r].machines,
                 ledger[r].machines[i] \notin forgot
          PROVE  address'[ledger[r].machines[i]] = i
      <4>1. ledger[r].machines[i] \in Node /\ i # 0
        BY <1>0, MachinesAre DEF TypeOK, Storage
      <4>2. address[ledger[r].machines[i]] = i
        BY <1>0, <3>1 DEF AnnouncesAddress, Truthful
      <4>3. QED
        BY <1>0, <2>2, <2>3, <4>1, <4>2 DEF TypeOK
    <3>2. QED
      BY <2>2, <3>1 DEF AnnouncesAddress, Truthful
  <2>6. MetIsServed'
    BY <1>0, <2>1, <2>2 DEF MetIsServed, TypeOK
  <2>7. QED
    BY <2>4, <2>5, <2>6 DEF Inv1
<1>9. ASSUME NEW n \in Node, PersistTick(n) \/ PersistTimeout(n) PROVE Inv1'
  <2>1. loops' \in [Node -> Nat] /\ due' \in [Node -> Nat]
    BY <1>0, <1>9 DEF TypeOK, PersistTick, PersistTimeout
  <2>2. QED
    BY <1>0, <1>9, <1>s, <2>1 DEF TypeOK, PersistTick, PersistTimeout, nodeVars, history
<1>10. ASSUME NEW n \in Node, PersistWrite(n) PROVE Inv1'
  <2>1. PICK copy \in Copies : Write(n, [copy EXCEPT !.leader = n])
    BY <1>10 DEF PersistWrite
  <2> DEFINE new == [copy EXCEPT !.leader = n]
  <2>2. new \in Storage /\ new.machines = copy.machines
    BY CopiesAre DEF Storage
  <2> HIDE DEF new
  <2>3. Put(home[n], new, index[home[n]] + 1)
    BY <2>1 DEF Write, new
  <2>4. loops' \in [Node -> Nat] /\ due' \in [Node -> Nat]
    BY <1>0, <1>10 DEF TypeOK, PersistWrite
  <2>5. QED
    BY <1>0, <1>10, <1>h, <2>2, <2>3, <2>4, CopiesAre, PutKeeps DEF PersistWrite, history, TypeOK
<1>11. ASSUME NEW n \in Node, AnnounceAddress(n) PROVE Inv1'
  <2>1. PICK copy \in Copies : Write(n, [copy EXCEPT !.machines = With(@, address[n], n)])
    BY <1>11 DEF AnnounceAddress
  <2> DEFINE new == [copy EXCEPT !.machines = With(@, address[n], n)]
  <2>2. address[n] \in Nat \ {0}
    BY <1>0, <1>11 DEF TypeOK, AddressEndsLoop, AnnounceAddress
  <2>3. /\ copy \in Storage /\ copy.machines \in Machines /\ Truthful(copy.machines)
        /\ \A i \in DOMAIN copy.machines : i # 0
    BY CopiesAre DEF Storage
  <2>a. PICK old \in Machines : old = copy.machines
    BY <2>3
  <2>b. PICK ip \in Nat \ {0} : ip = address[n]
    BY <2>2
  <2>c. With(old, ip, n) \in Machines
    BY WithAdds, Zenon
  <2>4. /\ With(old, ip, n) \in Machines
        /\ DOMAIN With(old, ip, n) = DOMAIN old \cup {ip}
        /\ \A i \in DOMAIN old \cup {ip} : With(old, ip, n)[i] = IF i = ip THEN n ELSE old[i]
    BY <2>c DEF With
  <2>5. new \in Storage /\ new.machines = With(old, ip, n)
    BY <2>3, <2>a, <2>b, <2>4 DEF Storage
  <2> HIDE DEF new
  <2>6. Put(home[n], new, index[home[n]] + 1)
    BY <2>1 DEF Write, new
  <2>7. Truthful(new.machines) /\ \A i \in DOMAIN new.machines : i # 0
    BY <2>2, <2>3, <2>a, <2>b, <2>4, <2>5 DEF Truthful
  <2>8. QED
    BY <1>0, <1>11, <1>h, <2>5, <2>6, <2>7, PutKeeps DEF AnnounceAddress, persistVars, history, TypeOK
<1>12. ASSUME NEW r \in Replica, NEW s \in Replica, Gossip(r, s) PROVE Inv1'
  <2>1. ledger[s] \in Storage /\ Truthful(ledger[s].machines) /\ Put(r, ledger[s], index[s])
    BY <1>0, <1>12 DEF TypeOK, AnnouncesAddress, Gossip
  <2>2. \A ip \in DOMAIN ledger[s].machines : ip # 0
    BY <2>1, MachinesAre DEF Storage
  <2>3. QED
    BY <1>0, <1>12, <2>1, <2>2, PutKeeps DEF Gossip, persistVars, history, TypeOK
<1>13. ASSUME NEW n \in Node, Restart(n) PROVE Inv1'
  <2>1. /\ address' = [address EXCEPT ![n] = lease[n]]
        /\ pc' = [pc EXCEPT ![n] = StartAt(n, lease[n])]
        /\ seen' = [seen EXCEPT ![n] = NothingSeen]
        /\ loops' = [loops EXCEPT ![n] = 0] /\ due' = [due EXCEPT ![n] = 0]
        /\ forgot' = IF address[n] # lease[n] THEN forgot \cup {n} ELSE forgot
        /\ UNCHANGED <<home, lease, partial>>
    BY <1>13 DEF Restart, Kept, Goto
  <2>2. /\ ledger' \in [Replica -> Storage] /\ met' \in [Replica -> SUBSET Node]
        /\ \A r \in Replica :
              /\ met'[r] = met[r]
              /\ ledger'[r] = ledger[r] \/ ledger'[r] = Empty
    <3>1. CASE UNCHANGED ledgerVars
      BY <1>0, <3>1 DEF ledgerVars, TypeOK
    <3>2. CASE Put(home[n], Empty, -1)
      <4>1. /\ ledger' \in [Replica -> Storage] /\ met' \in [Replica -> SUBSET Node]
            /\ \A q \in Replica :
                  /\ ledger'[q] = IF q = home[n] THEN Empty ELSE ledger[q]
                  /\ met'[q] = IF q = home[n] THEN met[q] \cup Range(Empty.machines) ELSE met[q]
        BY <1>0, <1>h, <3>2, EmptyIsStorage, PutIs
      <4>2. Range(Empty.machines) = {}
        BY EmptyIsStorage DEF Range
      <4>3. QED
        BY <4>1, <4>2
    <3>3. QED
      BY <1>13, <3>1, <3>2 DEF Restart
  <2>3. address[n] # 0 /\ n \notin forgot' => address'[n] = address[n]
    BY <1>0, <2>1 DEF TypeOK
  <2>4. forgot \subseteq forgot' /\ \A m \in Node : m \notin forgot' => address'[m] = address[m]
    BY <1>0, <2>1 DEF TypeOK
  <2>5. TypeOK'
    BY <1>0, <2>1, <2>2 DEF TypeOK, StartAt
  <2>6. AddressEndsLoop'
    BY <1>0, <2>1 DEF TypeOK, AddressEndsLoop, StartAt
  <2>7. AnnouncesAddress'
    <3> SUFFICES ASSUME NEW r \in Replica, NEW ip \in DOMAIN ledger'[r].machines,
                        ledger'[r].machines[ip] \notin forgot'
                 PROVE  address'[ledger'[r].machines[ip]] = ip
      BY DEF AnnouncesAddress, Truthful
    <3>1. ledger'[r] = ledger[r]
      BY <2>2, EmptyIsStorage
    <3>2. ledger[r].machines[ip] \in Node
      BY <1>0, <3>1, MachinesAre DEF TypeOK, Storage
    <3>3. QED
      BY <1>0, <2>4, <3>1, <3>2 DEF AnnouncesAddress, Truthful
  <2>8. MetIsServed'
    <3>1. \A r \in Replica : Range(ledger'[r].machines) \subseteq met'[r]
      BY <1>0, <2>2, EmptyIsStorage DEF MetIsServed, Range
    <3>2. QED
      BY <1>0, <2>2, <2>4, <3>1 DEF MetIsServed, TypeOK
  <2>9. QED
    BY <2>5, <2>6, <2>7, <2>8 DEF Inv1
<1>14. CASE UNCHANGED vars
  BY <1>0, <1>14, <1>s DEF TypeOK, vars, nodeVars, persistVars, history
<1>15. QED
  BY <1>1, <1>2, <1>3, <1>4, <1>5, <1>6, <1>7, <1>8, <1>9, <1>10, <1>11, <1>12, <1>13, <1>14
     DEF Next, DHCPStep

LEMMA Invariant1 == Spec => []Inv1
BY Initially1, Inductive1, PTL DEF Spec

(* No ledger has a node under two addresses (checkDHCPLease and the writing *)
(* of the lease in DHCPNetworkService): an address comes into a ledger from *)
(* its node only, a node with a lease never runs the negotiation again, and *)
(* one that could not write its lease takes another only after a restart.   *)
THEOREM AnnouncedOnce == Spec => []OneAddressPerNode
<1>1. Inv1 => OneAddressPerNode
  <2> SUFFICES ASSUME Inv1 PROVE OneAddressPerNode
    OBVIOUS
  <2>1. Homes \subseteq Replica
    BY DEF Homes, Range, Inv1, TypeOK
  <2>2. QED
    BY <2>1 DEF Inv1, AnnouncesAddress, Truthful, OneAddressPerNode
<1>2. QED
  BY <1>1, Invariant1, PTL

-----------------------------------------------------------------------------
(* Who takes which address *)

LEMMA Initially2 == Init => Inv2
<1> SUFFICES ASSUME Init PROVE Inv2
  OBVIOUS
<1>1. /\ lease \in [Node -> Nat] /\ address = lease
      /\ \A n, m \in Node : n # m /\ lease[n] # 0 => lease[n] # lease[m]
      /\ \A n \in Node : pc[n] # "leader" /\ loops[n] = 0 /\ due[n] = 0
      /\ \A r \in Replica : met[r] = Leased(lease) /\ ledger[r].leader \in Leased(lease) \cup {None}
  BY DHCPAssumption, LeasesAssumption DEF Init, StartAt
<1>2. Unique
  BY <1>1 DEF Unique
<1>3. TryingHasMet
  BY <1>1, DHCPAssumption DEF TryingHasMet, Trying, Leased
<1>4. ServedInOrder
  BY <1>1 DEF ServedInOrder, Leased
<1>5. SeesUnserved /\ ReadIsFresh
  BY <1>1 DEF SeesUnserved, ReadIsFresh
<1>6. QED
  BY <1>2, <1>3, <1>4, <1>5 DEF Inv2

(* A step after which no node has another address, reads more, or leads or  *)
(* tries to without having tried before.                                    *)
LEMMA Same2 ==
    ASSUME Inv2, Clean, UNCHANGED <<home, address>>,
           \A r \in Replica : met[r] \subseteq met'[r],
           TypeOK,
           \A n \in Node : pc'[n] = "leader" => pc[n] = "leader" /\ seen'[n] = seen[n],
           \A n \in Node : Trying(n)' => Trying(n)
    PROVE  Inv2'
<1>1. Unique /\ TryingHasMet /\ ServedInOrder /\ SeesUnserved /\ ReadIsFresh
  BY DEF Inv2
<1>2. \A n \in Node : home[n] \in Replica
  BY DEF TypeOK
<1>3. Unique'
  BY <1>1 DEF Unique
<1>4. TryingHasMet'
  <2> SUFFICES ASSUME NEW n \in Node, Trying(n)', address'[n] = 0,
                      NEW m \in Node, Rank[m] > Rank[n]
               PROVE  m \in met'[home'[n]]
    BY DEF TryingHasMet
  <2>1. Trying(n) /\ address[n] = 0
    OBVIOUS
  <2>2. m \in met[home[n]]
    BY <1>1, <2>1 DEF TryingHasMet
  <2>3. QED
    BY <1>2, <2>2
<1>5. ServedInOrder'
  BY <1>1 DEF ServedInOrder
<1>6. SeesUnserved'
  BY <1>1, <1>2 DEF SeesUnserved
<1>7. ReadIsFresh'
  <2> SUFFICES ASSUME NEW n \in Node, pc'[n] = "leader", Trying(n)',
                      NEW m \in Node \ {n}, address'[m] # 0
               PROVE  address'[m] \in seen'[n].ips
    BY DEF ReadIsFresh
  <2>1. Trying(n) /\ pc[n] = "leader" /\ seen'[n] = seen[n]
    OBVIOUS
  <2>2. QED
    BY <1>1, <2>1 DEF ReadIsFresh
<1>8. QED
  BY <1>3, <1>4, <1>5, <1>6, <1>7 DEF Inv2

(* A write of a node, or gossip, brings a leader that another ledger has.   *)
LEMMA PutTriesNobody ==
    ASSUME TypeOK, NEW r \in Replica, NEW storage \in Storage, NEW i, Put(r, storage, i),
           \A n \in Node : storage.leader = n => Trying(n),
           \A n \in Node : loops'[n] + due'[n] > 0 => loops[n] + due[n] > 0
    PROVE  /\ \A n \in Node : Trying(n)' => Trying(n)
           /\ \A q \in Replica : met[q] \subseteq met'[q]
<1>1. \A q \in Replica : /\ ledger'[q] = IF q = r THEN storage ELSE ledger[q]
                         /\ met[q] \subseteq met'[q]
  BY PutIs
<1>2. QED
  BY <1>1 DEF Trying

(* A pass that misses nobody leaves out those only whose address the ledger *)
(* has, and a node that may choose has read all addresses.                  *)
LEMMA ReadMachines2 ==
    ASSUME Inv1, Inv2, Clean', NEW n \in Node, ReadMachines(n)
    PROVE  Inv2'
<1> DEFINE machines == My(n).machines
<1>1. TypeOK /\ AddressEndsLoop /\ AnnouncesAddress /\ MetIsServed
  BY DEF Inv1
<1>2. Clean
  BY <1>1 DEF Clean, ReadMachines, TypeOK
<1>3. Unique /\ TryingHasMet /\ ServedInOrder /\ SeesUnserved /\ ReadIsFresh
  BY <1>2 DEF Inv2
<1>4. /\ pc[n] = "machines"
      /\ UNCHANGED <<home, ledger, met, address, loops, due, forgot>>
      /\ \E to \in {"leader", "sleep"} : pc' = [pc EXCEPT ![n] = to]
      /\ \A m \in Node \ {n} : pc'[m] = pc[m] /\ seen'[m] = seen[m]
  BY <1>1 DEF ReadMachines, Goto, ledgerVars, persistVars, TypeOK
<1>5. \A m \in Node : Trying(m)' <=> Trying(m)
  BY <1>4 DEF Trying
<1>6. home[n] \in Replica /\ machines = ledger[home[n]].machines /\ machines \in Machines
  BY <1>1 DEF TypeOK, My, Storage
<1>7. CASE pc'[n] # "leader"
  BY <1>1, <1>2, <1>4, <1>5, <1>7, Same2
<1>8. CASE pc'[n] = "leader"
  <2> DEFINE needy == seen[n].nodes \ Range(machines)
  <2>1. /\ needy # {} /\ Complete(n)
        /\ seen'[n] = [nodes |-> {}, needy |-> needy, ips |-> DOMAIN machines]
    BY <1>1, <1>4, <1>8 DEF ReadMachines, Goto, Clean, TypeOK
  <2>2. needy = Node \ Range(machines) /\ met[home[n]] \subseteq Range(machines)
        /\ Range(machines) \subseteq met[home[n]]
    BY <1>1, <1>6, <2>1 DEF Complete, MetIsServed
  <2>3. Unique' /\ ServedInOrder'
    BY <1>3, <1>4 DEF Unique, ServedInOrder
  <2>4. TryingHasMet'
    BY <1>3, <1>4, <1>5 DEF TryingHasMet
  <2>5. SeesUnserved'
    <3>1. seen'[n].needy # {} /\ \A m \in Node \ seen'[n].needy : m \in met'[home'[n]]
      BY <1>4, <2>1, <2>2
    <3>2. QED
      BY <1>3, <1>4, <3>1 DEF SeesUnserved
  <2>6. ReadIsFresh'
    <3>1. ASSUME Trying(n), NEW m \in Node \ {n}, address[m] # 0
          PROVE  address[m] \in DOMAIN machines
      <4>1. address[n] = 0
        BY <1>1, <1>4 DEF AddressEndsLoop
      <4>2. Rank[m] > Rank[n] \/ Rank[m] < Rank[n]
        BY DHCPAssumption DEF IsInjective
      <4>3. m \in met[home[n]]
        BY <1>3, <1>6, <3>1, <4>1, <4>2 DEF TryingHasMet, ServedInOrder
      <4>4. PICK ip \in DOMAIN machines : machines[ip] = m
        BY <2>2, <4>3 DEF Range
      <4>5. address[m] = ip
        BY <1>1, <1>2, <1>6, <4>4 DEF AnnouncesAddress, Truthful, Clean
      <4>6. QED
        BY <4>5
    <3>2. ASSUME NEW k \in Node, pc'[k] = "leader", Trying(k)', NEW m \in Node \ {k}, address'[m] # 0
          PROVE  address'[m] \in seen'[k].ips
      <4>1. Trying(k) /\ address[m] # 0 /\ address'[m] = address[m]
        BY <1>4, <1>5, <3>2
      <4>2. CASE k = n
        BY <2>1, <3>1, <4>1, <4>2
      <4>3. CASE k # n
        BY <1>3, <1>4, <3>2, <4>1, <4>3 DEF ReadIsFresh
      <4>4. QED
        BY <4>2, <4>3
    <3>3. QED
      BY <3>2 DEF ReadIsFresh
  <2>7. QED
    BY <2>3, <2>4, <2>5, <2>6 DEF Inv2
<1>9. QED
  BY <1>7, <1>8

(* Who claims to lead has seen all nodes of greater hash with an address.   *)
LEMMA Claim2 ==
    ASSUME Inv1, Inv2, Clean', NEW n \in Node, Claim(n)
    PROVE  Inv2'
<1>1. TypeOK /\ AddressEndsLoop
  BY DEF Inv1
<1>2. Clean
  BY DEF Clean, Claim, history
<1>3. Unique /\ TryingHasMet /\ ServedInOrder /\ SeesUnserved /\ ReadIsFresh
  BY <1>2 DEF Inv2
<1>4. /\ pc[n] = "leader" /\ Leader(seen[n].needy) = n
      /\ UNCHANGED <<home, ledger, met, address, due>>
      /\ pc' = [pc EXCEPT ![n] = "sleep"] /\ seen' = [seen EXCEPT ![n] = NothingSeen]
      /\ \A m \in Node \ {n} : loops'[m] = loops[m]
  BY <1>1 DEF Claim, ShouldBeLeader, Again, Goto, ledgerVars, TypeOK
<1>5. \A m \in Node \ {n} : Trying(m)' => Trying(m)
  BY <1>4 DEF Trying
<1>6. \A m \in Node : Rank[m] > Rank[n] => m \in met[home[n]]
  <2>1. seen[n].needy \in SUBSET Node /\ seen[n].needy # {}
    BY <1>1, <1>3, <1>4 DEF TypeOK, Reading, SeesUnserved
  <2>2. \A m \in seen[n].needy : Rank[m] <= Rank[n]
    BY <1>4, <2>1, LeaderLeads
  <2>3. \A m \in Node : Rank[m] > Rank[n] => m \notin seen[n].needy
    BY <2>1, <2>2, DHCPAssumption
  <2>4. QED
    BY <1>3, <1>4, <2>3 DEF SeesUnserved
<1>7. TryingHasMet'
  <2> SUFFICES ASSUME NEW k \in Node, Trying(k)', address'[k] = 0, NEW m \in Node, Rank[m] > Rank[k]
               PROVE  m \in met'[home'[k]]
    BY DEF TryingHasMet
  <2>1. CASE k = n
    BY <1>4, <1>6, <2>1
  <2>2. CASE k # n
    BY <1>3, <1>4, <1>5, <2>2 DEF TryingHasMet
  <2>3. QED
    BY <2>1, <2>2
<1>8. Unique' /\ ServedInOrder'
  BY <1>3, <1>4 DEF Unique, ServedInOrder
<1>9. SeesUnserved'
  BY <1>1, <1>3, <1>4 DEF SeesUnserved, TypeOK
<1>10. ReadIsFresh'
  <2> SUFFICES ASSUME NEW k \in Node, pc'[k] = "leader", Trying(k)',
                      NEW m \in Node \ {k}, address'[m] # 0
               PROVE  address'[m] \in seen'[k].ips
    BY DEF ReadIsFresh
  <2>1. k # n /\ pc[k] = "leader" /\ seen'[k] = seen[k] /\ address[m] # 0 /\ address'[m] = address[m]
    BY <1>1, <1>4 DEF TypeOK
  <2>2. Trying(k)
    BY <1>5, <2>1
  <2>3. QED
    BY <1>3, <2>1, <2>2 DEF ReadIsFresh
<1>11. QED
  BY <1>7, <1>8, <1>9, <1>10 DEF Inv2

(* The only node that may choose takes an address that it has not read.     *)
LEMMA Choose2 ==
    ASSUME Inv1, Inv2, Clean', NEW n \in Node, Choose(n)
    PROVE  Inv2'
<1>1. TypeOK /\ AddressEndsLoop /\ MetIsServed
  BY DEF Inv1
<1>2. Clean
  BY DEF Clean, Choose, history
<1>3. Unique /\ TryingHasMet /\ ServedInOrder /\ SeesUnserved /\ ReadIsFresh
  BY <1>2 DEF Inv2
<1> DEFINE new == NextIP(seen[n].ips)
<1>4. new \in Nat \ {0} /\ new \notin seen[n].ips
  BY <1>1, NextIPIsNew DEF TypeOK, Reading
<1> HIDE DEF new
<1>5. /\ pc[n] = "leader" /\ ledger[home[n]].leader = n /\ home[n] \in Replica
      /\ UNCHANGED <<home, ledger, met, loops, due>>
      /\ address' = [address EXCEPT ![n] = new]
      /\ pc' = [pc EXCEPT ![n] = "up"] /\ seen' = [seen EXCEPT ![n] = NothingSeen]
  BY <1>1 DEF Choose, My, Goto, ledgerVars, persistVars, TypeOK, new
<1>6. Trying(n) /\ address[n] = 0 /\ address'[n] = new
  BY <1>1, <1>5 DEF Trying, AddressEndsLoop, TypeOK
<1>7. \A m \in Node \ {n} : address'[m] = address[m] /\ pc'[m] = pc[m] /\ seen'[m] = seen[m]
  BY <1>1, <1>5 DEF TypeOK
<1>8. \A m \in Node : Trying(m)' <=> Trying(m)
  BY <1>5 DEF Trying
(* All nodes of greater hash are served.                                    *)
<1>9. \A m \in Node : Rank[m] > Rank[n] => address[m] # 0
  BY <1>1, <1>2, <1>3, <1>5, <1>6 DEF TryingHasMet, MetIsServed, Clean
(* Nobody else may choose.                                                  *)
<1>10. \A m \in Node \ {n} : ~ (Trying(m) /\ address[m] = 0)
  <2> SUFFICES ASSUME NEW m \in Node \ {n}, Trying(m), address[m] = 0 PROVE FALSE
    OBVIOUS
  <2>1. Rank[m] > Rank[n] \/ Rank[n] > Rank[m]
    BY DHCPAssumption DEF IsInjective
  <2>2. CASE Rank[m] > Rank[n]
    BY <1>9, <2>2
  <2>3. CASE Rank[n] > Rank[m]
    <3>1. n \in met[home[m]] /\ home[m] \in Replica
      BY <1>1, <1>3, <2>3 DEF TryingHasMet, TypeOK
    <3>2. QED
      BY <1>1, <1>2, <1>6, <3>1 DEF MetIsServed, Clean
  <2>4. QED
    BY <2>1, <2>2, <2>3
<1>11. Unique'
  <2>1. \A m \in Node \ {n} : address[m] # new
    BY <1>3, <1>4, <1>5, <1>6 DEF ReadIsFresh
  <2>2. \A k, m \in Node : k # m /\ address'[k] # 0 => address'[k] # address'[m]
    <3> SUFFICES ASSUME NEW k \in Node, NEW m \in Node, k # m, address'[k] # 0
                 PROVE  address'[k] # address'[m]
      OBVIOUS
    <3>1. CASE k = n
      BY <1>6, <1>7, <2>1, <3>1
    <3>2. CASE m = n
      BY <1>6, <1>7, <2>1, <3>2
    <3>3. CASE k # n /\ m # n
      BY <1>3, <1>7, <3>3 DEF Unique
    <3>4. QED
      BY <3>1, <3>2, <3>3
  <2>3. QED
    BY <2>2 DEF Unique
<1>12. TryingHasMet'
  <2> SUFFICES ASSUME NEW k \in Node, Trying(k)', address'[k] = 0, NEW m \in Node, Rank[m] > Rank[k]
               PROVE  m \in met'[home'[k]]
    BY DEF TryingHasMet
  <2>1. Trying(k) /\ address[k] = 0
    BY <1>4, <1>6, <1>7, <1>8
  <2>2. QED
    BY <1>3, <1>5, <2>1 DEF TryingHasMet
<1>13. ServedInOrder'
  <2> SUFFICES ASSUME NEW k \in Node, NEW m \in Node, address'[m] # 0, address'[k] = 0,
                      Rank[m] < Rank[k], NEW r \in Replica
               PROVE  m \in met'[r]
    BY DEF ServedInOrder
  <2>1. k # n /\ address[k] = 0
    BY <1>4, <1>6, <1>7
  <2>2. m # n
    BY <1>9, <2>1, DHCPAssumption
  <2>3. address[m] # 0
    BY <1>7, <2>2
  <2>4. QED
    BY <1>3, <1>5, <2>1, <2>3 DEF ServedInOrder
<1>14. SeesUnserved'
  BY <1>1, <1>3, <1>5 DEF SeesUnserved, TypeOK
<1>15. ReadIsFresh'
  <2> SUFFICES ASSUME NEW k \in Node, pc'[k] = "leader", Trying(k)' PROVE FALSE
    BY DEF ReadIsFresh
  <2>1. k # n /\ pc[k] = "leader" /\ Trying(k)
    BY <1>1, <1>5, <1>8 DEF TypeOK
  <2>2. address[k] = 0
    BY <1>1, <2>1 DEF AddressEndsLoop
  <2>3. QED
    BY <1>10, <2>1, <2>2
<1>16. QED
  BY <1>11, <1>12, <1>13, <1>14, <1>15 DEF Inv2

(* A node that restarts with its address, and no other: nothing is lost but *)
(* what it had read and its loops.                                          *)
LEMMA Restart2 ==
    ASSUME Inv1, Inv2, Clean', NEW n \in Node, Restart(n)
    PROVE  Inv2'
<1>1. TypeOK
  BY DEF Inv1
<1>2. /\ UNCHANGED <<home, lease, partial>>
      /\ address' = [address EXCEPT ![n] = lease[n]]
      /\ forgot' = IF address[n] # lease[n] THEN forgot \cup {n} ELSE forgot
      /\ pc' = [pc EXCEPT ![n] = StartAt(n, lease[n])]
      /\ seen' = [seen EXCEPT ![n] = NothingSeen]
      /\ loops' = [loops EXCEPT ![n] = 0] /\ due' = [due EXCEPT ![n] = 0]
  BY DEF Restart, Kept, Goto
<1>3. Clean /\ address' = address
  BY <1>1, <1>2 DEF Clean, TypeOK
<1>4. \A m \in Node : pc'[m] = "leader" => pc[m] = "leader" /\ seen'[m] = seen[m]
  BY <1>1, <1>2 DEF TypeOK, StartAt
<1>5. \A m \in Node : loops'[m] + due'[m] > 0 => loops[m] + due[m] > 0
  BY <1>1, <1>2 DEF TypeOK
<1>6. /\ \A m \in Node : Trying(m)' => Trying(m)
      /\ \A r \in Replica : met[r] \subseteq met'[r]
  <2>1. CASE UNCHANGED ledgerVars
    BY <1>5, <2>1 DEF ledgerVars, Trying
  <2>2. CASE Put(home[n], Empty, -1)
    <3>1. home[n] \in Replica /\ Empty \in Storage /\ \A m \in Node : Empty.leader # m
      BY <1>1, EmptyIsStorage, DHCPAssumption DEF TypeOK
    <3>2. QED
      BY <1>1, <1>5, <2>2, <3>1, PutTriesNobody
  <2>3. QED
    BY <2>1, <2>2 DEF Restart
<1>7. QED
  BY <1>1, <1>2, <1>3, <1>4, <1>6, Same2

(* Beat, Scrub, AnnounceAddress and PersistWrite put a copy over a block.   *)
LEMMA Write2 ==
    ASSUME Inv1, Inv2, Clean', NEW n \in Node, NEW storage \in Storage, Write(n, storage),
           UNCHANGED <<home, nodeVars, history>>,
           \A m \in Node : storage.leader = m => Trying(m),
           \A m \in Node : loops'[m] + due'[m] > 0 => loops[m] + due[m] > 0
    PROVE  Inv2'
<1>1. TypeOK /\ Clean
  BY DEF Inv1, Clean, history
<1>2. home[n] \in Replica /\ Put(home[n], storage, index[home[n]] + 1)
  BY <1>1 DEF TypeOK, Write
<1>3. /\ \A m \in Node : Trying(m)' => Trying(m)
      /\ \A q \in Replica : met[q] \subseteq met'[q]
  BY <1>1, <1>2, PutTriesNobody
<1>4. QED
  BY <1>1, <1>3, Same2 DEF nodeVars

LEMMA Inductive2 == Inv1 /\ Inv2 /\ [Next]_vars => Inv2'
<1> SUFFICES ASSUME Inv1, Inv2, [Next]_vars, Clean' PROVE Inv2'
  BY DEF Inv2
<1>0. TypeOK
  BY DEF Inv1
<1>c. \A copy \in Copies : copy \in Storage /\ \A m \in Node : copy.leader = m => Trying(m)
  BY CopiesAre DEF Trying
<1>1. ASSUME NEW n \in Node, Beat(n) PROVE Inv2'
  <2>1. PICK copy \in Copies : Write(n, [copy EXCEPT !.alive = @ \cup {n}])
    BY <1>1 DEF Beat
  <2> DEFINE new == [copy EXCEPT !.alive = @ \cup {n}]
  <2>2. new \in Storage /\ new.leader = copy.leader
    BY <1>c DEF Storage
  <2> HIDE DEF new
  <2>3. Write(n, new)
    BY <2>1 DEF new
  <2>4. QED
    BY <1>1, <1>c, <2>2, <2>3, Write2 DEF Beat, persistVars
<1>2. ASSUME NEW n \in Node, Scrub(n) PROVE Inv2'
  <2>1. PICK copy \in Copies : Write(n, [copy EXCEPT !.alive = {}])
    BY <1>2 DEF Scrub
  <2> DEFINE new == [copy EXCEPT !.alive = {}]
  <2>2. new \in Storage /\ new.leader = copy.leader
    BY <1>c DEF Storage
  <2> HIDE DEF new
  <2>3. Write(n, new)
    BY <2>1 DEF new
  <2>4. QED
    BY <1>2, <1>c, <2>2, <2>3, Write2 DEF Scrub, Lose, persistVars
<1>3. ASSUME NEW r \in Replica, NEW n \in Node, Expire(r, n) PROVE Inv2'
  <2>1. /\ ledger' = [ledger EXCEPT ![r] = [ledger[r] EXCEPT !.alive = @ \ {n}]]
        /\ UNCHANGED <<met, home, nodeVars, loops, due, history>>
    BY <1>3 DEF Expire, Lose, persistVars
  <2>2. \A q \in Replica : ledger'[q].leader = ledger[q].leader
    <3>1. ledger[r] \in Storage
      BY <1>0 DEF TypeOK
    <3>2. QED
      BY <1>0, <2>1, <3>1 DEF TypeOK, Storage
  <2>3. \A m \in Node : Trying(m)' => Trying(m)
    BY <2>1, <2>2 DEF Trying
  <2>4. QED
    BY <1>0, <2>1, <2>3, Same2 DEF nodeVars, history, Clean
<1>4. ASSUME NEW n \in Node, ReadNodes(n) PROVE Inv2'
  <2>1. \A m \in Node : pc'[m] = "leader" => pc[m] = "leader" /\ seen'[m] = seen[m]
    BY <1>0, <1>4 DEF ReadNodes, Goto, TypeOK
  <2>2. \A m \in Node : Trying(m)' => Trying(m)
    BY <1>4 DEF ReadNodes, ledgerVars, persistVars, Trying
  <2>3. QED
    BY <1>0, <1>4, <2>1, <2>2, Same2 DEF ReadNodes, ledgerVars, history, Clean
<1>5. ASSUME NEW n \in Node, Wait(n) PROVE Inv2'
  <2>1. \A m \in Node : pc'[m] = "leader" => pc[m] = "leader" /\ seen'[m] = seen[m]
    BY <1>0, <1>5 DEF Wait, Again, Goto, TypeOK
  <2>2. \A m \in Node : Trying(m)' => Trying(m)
    BY <1>5 DEF Wait, ledgerVars, persistVars, Trying
  <2>3. QED
    BY <1>0, <1>5, <2>1, <2>2, Same2 DEF Wait, ledgerVars, history, Clean
<1>6. ASSUME NEW n \in Node, PersistTick(n) \/ PersistTimeout(n) PROVE Inv2'
  <2>1. /\ \A m \in Node : loops'[m] + due'[m] > 0 => loops[m] + due[m] > 0
        /\ UNCHANGED <<home, ledgerVars, nodeVars, history>>
    BY <1>0, <1>6 DEF TypeOK, PersistTick, PersistTimeout
  <2>2. \A m \in Node : Trying(m)' => Trying(m)
    BY <2>1 DEF Trying, ledgerVars
  <2>3. QED
    BY <1>0, <2>1, <2>2, Same2 DEF ledgerVars, nodeVars, history, Clean
<1>7. ASSUME NEW n \in Node, PersistWrite(n) PROVE Inv2'
  <2>1. PICK copy \in Copies : Write(n, [copy EXCEPT !.leader = n])
    BY <1>7 DEF PersistWrite
  <2> DEFINE new == [copy EXCEPT !.leader = n]
  <2>2. new \in Storage /\ new.leader = n
    BY <1>c DEF Storage
  <2> HIDE DEF new
  <2>3. Write(n, new)
    BY <2>1 DEF new
  <2>4. /\ due[n] > 0 /\ loops[n] \in Nat /\ due[n] \in Nat
        /\ \A m \in Node : loops'[m] + due'[m] > 0 => loops[m] + due[m] > 0
    BY <1>0, <1>7 DEF TypeOK, PersistWrite
  <2>5. Trying(n)
    BY <2>4 DEF Trying
  <2>6. QED
    BY <1>7, <2>2, <2>3, <2>4, <2>5, Write2 DEF PersistWrite
<1>8. ASSUME NEW n \in Node, AnnounceAddress(n) PROVE Inv2'
  <2>1. PICK copy \in Copies : Write(n, [copy EXCEPT !.machines = With(@, address[n], n)])
    BY <1>8 DEF AnnounceAddress
  <2> DEFINE new == [copy EXCEPT !.machines = With(@, address[n], n)]
  <2>2. address[n] \in Nat \ {0} /\ copy.machines \in Machines
    BY <1>0, <1>8, <1>c DEF Inv1, TypeOK, AddressEndsLoop, AnnounceAddress, Storage
  <2>a. PICK old \in Machines, ip \in Nat \ {0} : old = copy.machines /\ ip = address[n]
    BY <2>2
  <2>b. With(old, ip, n) \in Machines
    BY WithAdds, Zenon
  <2>3. With(copy.machines, address[n], n) \in Machines
    BY <2>a, <2>b
  <2>4. new \in Storage /\ new.leader = copy.leader
    BY <1>c, <2>3 DEF Storage
  <2> HIDE DEF new
  <2>5. Write(n, new)
    BY <2>1 DEF new
  <2>6. QED
    BY <1>8, <1>c, <2>4, <2>5, Write2 DEF AnnounceAddress, persistVars
<1>9. ASSUME NEW r \in Replica, NEW s \in Replica, Gossip(r, s) PROVE Inv2'
  <2>1. /\ Put(r, ledger[s], index[s]) /\ ledger[s] \in Storage
        /\ \A m \in Node : ledger[s].leader = m => Trying(m)
        /\ UNCHANGED <<home, nodeVars, loops, due, history>>
    BY <1>0, <1>9 DEF Gossip, TypeOK, Trying, persistVars
  <2>2. /\ \A m \in Node : Trying(m)' => Trying(m)
        /\ \A q \in Replica : met[q] \subseteq met'[q]
    BY <1>0, <2>1, PutTriesNobody
  <2>3. QED
    BY <1>0, <2>1, <2>2, Same2 DEF nodeVars, history, Clean
<1>10. CASE UNCHANGED vars
  <2>1. \A m \in Node : Trying(m)' => Trying(m)
    BY <1>10 DEF vars, ledgerVars, persistVars, Trying
  <2>2. QED
    BY <1>0, <1>10, <2>1, Same2 DEF vars, ledgerVars, nodeVars, history, Clean
<1>11. QED
  BY <1>1, <1>2, <1>3, <1>4, <1>5, <1>6, <1>7, <1>8, <1>9, <1>10,
     ReadMachines2, Claim2, Choose2, Restart2 DEF Next, DHCPStep

(* No two nodes take the same address (DHCPNetworkService) while every pass *)
(* that goes on sees all nodes, and every address that its own ledger had   *)
(* before, and no lease is lost, however far the ledgers are apart and      *)
(* whatever they lose to old copies: a node that leads in any of them, or   *)
(* is about to, has seen all nodes of greater hash served, so at most one   *)
(* node at a time may choose, and it has read every address taken.          *)
THEOREM AddressesUnique == Spec => []UniqueWhileComplete
<1>1. Inv2 => UniqueWhileComplete
  BY DEF Inv2, Clean, Unique, UniqueWhileComplete
<1>2. Spec => [](Inv1 /\ Inv2)
  BY Initially1, Initially2, Inductive1, Inductive2, PTL DEF Spec
<1>3. QED
  BY <1>1, <1>2, PTL
=============================================================================
