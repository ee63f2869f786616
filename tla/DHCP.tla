-------------------------------- MODULE DHCP --------------------------------
(***************************************************************************)
(* How nodes agree on their addresses: pkg/vpn/dhcp.go over the health     *)
(* checks of pkg/services/alive.go, the choice of pkg/utils/leader.go and  *)
(* ip.go, and the announcing of addresses by pkg/vpn/vpn.go.               *)
(*                                                                         *)
(* A node reads and writes its own copy of the ledger, its replica; nodes  *)
(* in step may share one.  What is read in one pass of a loop is read      *)
(* piece by piece, Persist decides at one tick and writes later, and a     *)
(* write puts a change on a copy taken earlier.  An address is a number,   *)
(* and 0 is none.                                                          *)
(***************************************************************************)
EXTENDS Integers, FiniteSets, FiniteSetsExt, Functions

CONSTANTS
    Node,
    Silent,         \* nodes that are alive and have no VPN (the API, services, files)
    Rank,           \* hash of a node's name
    None,           \* no leader
    DefaultIP,      \* the address of the command line
    Replica,        \* copies of the ledger
    Starts,         \* how a network may start: see DHCPAssumption
    MaxLoops,       \* bound: loops of Persist that a node has at one time
    MaxAhead        \* bound: how far ahead of the lowest a replica is written

(* home: node -> its replica; lease: node -> the address in its lease file; *)
(* alive: whose health checks the ledger has; losses, restarts: bounds, how *)
(* often the health checks lose nodes, and a node restarts.                 *)
ASSUME DHCPAssumption ==
    /\ IsFiniteSet(Node) /\ Silent \subseteq Node /\ None \notin Node
    /\ Rank \in [Node -> Nat] /\ IsInjective(Rank)
    /\ DefaultIP \in Nat \ {0}
    /\ Starts \subseteq [home: [Node -> Replica], lease: [Node -> Nat], alive: SUBSET Node,
                         losses: Nat, restarts: Nat]
    /\ MaxLoops \in Nat /\ MaxAhead \in Nat

(* The leases of earlier runs differ.                                       *)
ASSUME LeasesAssumption ==
    \A start \in Starts : \A n, m \in Node :
        n # m /\ start.lease[n] # 0 => start.lease[n] # start.lease[m]

VARIABLES
    home,       \* node -> the replica it reads and writes
    ledger,     \* replica -> the storage of its last block
    index,      \* replica -> index of that block, above the lowest
    lease,      \* node -> the address in its lease file
    address,    \* node -> the address it has taken
    pc,         \* node -> where its loop is
    seen,       \* node -> what it has read in this pass
    loops,      \* node -> its loops of Persist
    due,        \* node -> how many of them are about to write
    restarts, losses,   \* how many are still to come
    met,        \* history: replica -> nodes whose address was ever in it
    partial,    \* history: a pass went on with a list that lacks somebody
    forgot      \* history: nodes that restarted without their address

ledgerVars == <<ledger, index, met>>
nodeVars == <<lease, address, pc, seen>>
persistVars == <<loops, due>>
boundVars == <<restarts, losses>>
history == <<partial, forgot>>
vars == <<home, ledgerVars, nodeVars, persistVars, boundVars, history>>

NothingSeen == [nodes |-> {}, needy |-> {}, ips |-> {}]

Leased(leases) == {n \in Node : leases[n] # 0}

(* The ledger at the start has the addresses and the leader of earlier runs. *)
Announced(leases) ==
    [ip \in {leases[n] : n \in Leased(leases)} |->
        CHOOSE n \in Leased(leases) : leases[n] = ip]

(* alive: bucket of health checks, nodes whose check has not expired;       *)
(* machines: bucket of machines, address -> node; leader: key "leader" of   *)
(* the bucket "dhcp".                                                       *)
Empty == [alive |-> {}, machines |-> <<>>, leader |-> None]

(* checkDHCPLease: a node with a lease skips the loop.                      *)
StartAt(n, ip) == IF n \in Silent THEN "silent" ELSE IF ip = 0 THEN "sleep" ELSE "up"

Init ==
    \E start \in Starts :
        /\ home = start.home
        /\ lease = start.lease /\ address = start.lease
        /\ \E lead \in IF Leased(lease) = {} THEN {None} ELSE Leased(lease) :
              ledger = [r \in Replica |-> [alive |-> start.alive, machines |-> Announced(lease),
                                          leader |-> lead]]
        /\ index = [r \in Replica |-> 0]
        /\ met = [r \in Replica |-> Leased(lease)]
        /\ pc = [n \in Node |-> StartAt(n, lease[n])]
        /\ seen = [n \in Node |-> NothingSeen]
        /\ loops = [n \in Node |-> 0] /\ due = [n \in Node |-> 0]
        /\ restarts = start.restarts /\ losses = start.losses
        /\ partial = FALSE /\ forgot = {}

(* The node whose name has the greatest hash.                               *)
Leader(actives) == CHOOSE n \in actives : \A m \in actives : Rank[m] <= Rank[n]

NextIP(ips) == IF ips = {} THEN DefaultIP ELSE Max(ips) + 1

-----------------------------------------------------------------------------
(* The ledgers *)

My(n) == ledger[home[n]]

Homes == Range(home)

Rebased(i) ==
    LET lowest == CHOOSE l \in {i[r] : r \in Homes} : \A r \in Homes : l <= i[r]
    IN  [r \in Replica |-> IF r \in Homes THEN i[r] - lowest ELSE 0]

Put(r, storage, i) ==
    /\ ledger' = [ledger EXCEPT ![r] = storage]
    /\ index' = Rebased([index EXCEPT ![r] = i])
    /\ met' = [met EXCEPT ![r] = @ \cup Range(storage.machines)]

(* What a writer may have copied before: as old as what any replica has.    *)
Copies == {ledger[r] : r \in Homes}

(* Add and Delete of n, which change a copy and put it over its last block. *)
Write(n, storage) ==
    /\ index[home[n]] < MaxAhead
    /\ Put(home[n], storage, index[home[n]] + 1)

(* The last block of s reaches r.                                           *)
Gossip(r, s) ==
    /\ {r, s} \subseteq Homes
    /\ index[s] > index[r]
    /\ Put(r, ledger[s], index[s])
    /\ UNCHANGED <<home, nodeVars, persistVars, boundVars, history>>

-----------------------------------------------------------------------------
(* Health checks *)

(* A tick of Alive.                                                         *)
Beat(n) ==
    /\ \E copy \in Copies : Write(n, [copy EXCEPT !.alive = @ \cup {n}])
    /\ UNCHANGED <<home, nodeVars, persistVars, boundVars, history>>

Lose ==
    /\ losses > 0
    /\ losses' = losses - 1
    /\ UNCHANGED <<home, nodeVars, persistVars, restarts, history>>

(* A tick of Alive on which the node's time to clean has come: the leader   *)
(* of the alive deletes the bucket, itself included.                        *)
Scrub(n) ==
    /\ Leader(My(n).alive \cup {n}) = n
    /\ \E copy \in Copies : Write(n, [copy EXCEPT !.alive = {}])
    /\ Lose

(* A health check that is too old, as the readers of r have it.             *)
Expire(r, n) ==
    /\ n \in ledger[r].alive
    /\ ledger' = [ledger EXCEPT ![r].alive = @ \ {n}]
    /\ UNCHANGED <<index, met>>
    /\ Lose

-----------------------------------------------------------------------------
(* The loop of DHCPNetworkService *)

Goto(n, to) == pc' = [pc EXCEPT ![n] = to]

ReadNodes(n) ==
    /\ pc[n] = "sleep"
    /\ seen' = [seen EXCEPT ![n].nodes = My(n).alive]
    /\ Goto(n, "machines")
    /\ UNCHANGED <<home, ledgerVars, lease, address, persistVars, boundVars, history>>

Alone(n) == Cardinality(seen[n].nodes) <= 1

(* All nodes are in the list, and all addresses that its ledger ever had.   *)
Complete(n) == seen[n].nodes = Node /\ met[home[n]] \subseteq Range(My(n).machines)

ReadMachines(n) ==
    LET needy == seen[n].nodes \ Range(My(n).machines)
        goesOn == ~ Alone(n) /\ needy # {}
    IN
    /\ pc[n] = "machines"
    /\ Goto(n, IF goesOn THEN "leader" ELSE "sleep")
    /\ seen' = [seen EXCEPT ![n] =
                  IF goesOn THEN [nodes |-> {}, needy |-> needy, ips |-> DOMAIN My(n).machines]
                  ELSE NothingSeen]
    /\ partial' = (partial \/ (goesOn /\ ~ Complete(n)))
    /\ UNCHANGED <<home, ledgerVars, lease, address, persistVars, boundVars, forgot>>

(* mutated ShouldBeLeader: the first of the list leads, and lists differ    *)
AnyoneShouldLead(n) == n \in seen[n].needy

ShouldBeLeader(n) == Leader(seen[n].needy) = n

(* mutated NoLeader: a leader that has an address is still the leader       *)
NoLeaderYet(n) == My(n).leader = None

NoLeader(n) == My(n).leader = None \/ My(n).leader \notin seen[n].needy

(* Back to the start of the loop.                                           *)
Again(n) == Goto(n, "sleep") /\ seen' = [seen EXCEPT ![n] = NothingSeen]

(* Another node leads or should.                                            *)
Wait(n) ==
    /\ pc[n] = "leader"
    /\ My(n).leader # n
    /\ ~ (ShouldBeLeader(n) /\ NoLeader(n))
    /\ Again(n)
    /\ UNCHANGED <<home, ledgerVars, lease, address, persistVars, boundVars, history>>

(* It has itself announced as the leader.                                   *)
Claim(n) ==
    /\ pc[n] = "leader"
    /\ ShouldBeLeader(n) /\ NoLeader(n)
    /\ loops' = [loops EXCEPT ![n] = IF @ + due[n] < MaxLoops THEN @ + 1 ELSE @]
    /\ Again(n)
    /\ UNCHANGED <<home, ledgerVars, lease, address, due, boundVars, history>>

(* The leader takes an address, and the VPN starts, with the lease on disk  *)
(* or, when it could not be written, without.                               *)
Choose(n) ==
    /\ pc[n] = "leader"
    /\ My(n).leader = n
    /\ ~ (ShouldBeLeader(n) /\ NoLeader(n))
    /\ address' = [address EXCEPT ![n] = NextIP(seen[n].ips)]
    /\ lease' \in {lease, [lease EXCEPT ![n] = NextIP(seen[n].ips)]}
    /\ Goto(n, "up")
    /\ seen' = [seen EXCEPT ![n] = NothingSeen]
    /\ UNCHANGED <<home, ledgerVars, persistVars, boundVars, history>>

DHCPStep(n) == ReadNodes(n) \/ ReadMachines(n) \/ Wait(n) \/ Claim(n) \/ Choose(n)

-----------------------------------------------------------------------------
(* Announcing *)

(* A tick of a loop of Persist: it decides to write, or cancels itself.     *)
PersistTick(n) ==
    /\ loops[n] > 0
    /\ loops' = [loops EXCEPT ![n] = @ - 1]
    /\ due' = [due EXCEPT ![n] = IF My(n).leader = n THEN @ ELSE @ + 1]
    /\ UNCHANGED <<home, ledgerVars, nodeVars, boundVars, history>>

PersistWrite(n) ==
    /\ due[n] > 0
    /\ \E copy \in Copies : Write(n, [copy EXCEPT !.leader = n])
    /\ due' = [due EXCEPT ![n] = @ - 1]
    /\ loops' = [loops EXCEPT ![n] = @ + 1]
    /\ UNCHANGED <<home, nodeVars, boundVars, history>>

PersistTimeout(n) ==
    /\ loops[n] > 0
    /\ loops' = [loops EXCEPT ![n] = @ - 1]
    /\ UNCHANGED <<home, ledgerVars, nodeVars, due, boundVars, history>>

(* ip is announced as an address of n.                                      *)
With(machines, ip, n) == [i \in DOMAIN machines \cup {ip} |-> IF i = ip THEN n ELSE machines[i]]

(* The VPN announces its address when its ledger lacks it, or has it for    *)
(* another node.                                                            *)
AnnounceAddress(n) ==
    /\ pc[n] = "up"
    /\ ~ (address[n] \in DOMAIN My(n).machines /\ My(n).machines[address[n]] = n)
    /\ \E copy \in Copies : Write(n, [copy EXCEPT !.machines = With(@, address[n], n)])
    /\ UNCHANGED <<home, nodeVars, persistVars, boundVars, history>>

(* mutated Kept: the lease is not read                                      *)
Forgotten(n) == 0

Kept(n) == lease[n]

(* What the process had in memory is gone, the lease file is not.  Others   *)
(* that are in step have its ledger; without them it may be gone as well.   *)
Restart(n) ==
    /\ restarts > 0
    /\ restarts' = restarts - 1
    /\ address' = [address EXCEPT ![n] = Kept(n)]
    /\ forgot' = IF address[n] # lease[n] THEN forgot \cup {n} ELSE forgot
    /\ Goto(n, StartAt(n, Kept(n)))
    /\ seen' = [seen EXCEPT ![n] = NothingSeen]
    /\ loops' = [loops EXCEPT ![n] = 0] /\ due' = [due EXCEPT ![n] = 0]
    /\ \/ UNCHANGED ledgerVars
       \/ /\ \A m \in Node \ {n} : home[m] # home[n]
          /\ Put(home[n], Empty, -1)
    /\ UNCHANGED <<home, lease, losses, partial>>

-----------------------------------------------------------------------------

Next ==
    \/ \E n \in Node :
        \/ Beat(n) \/ Scrub(n)
        \/ DHCPStep(n)
        \/ PersistTick(n) \/ PersistWrite(n) \/ PersistTimeout(n)
        \/ AnnounceAddress(n)
        \/ Restart(n)
    \/ \E r, s \in Replica : Gossip(r, s)
    \/ \E r \in Replica, n \in Node : Expire(r, n)

Spec == Init /\ [][Next]_vars

(* The loops run; a loop of Persist ticks before it times out, and times    *)
(* out some day.  Nothing cleans, expires or restarts because it must.      *)
FairSpec ==
    /\ Spec
    /\ \A n \in Node :
        /\ WF_vars(Beat(n)) /\ WF_vars(DHCPStep(n))
        /\ SF_vars(PersistTick(n)) /\ SF_vars(PersistTimeout(n)) /\ WF_vars(PersistWrite(n))
        /\ WF_vars(AnnounceAddress(n))

-----------------------------------------------------------------------------
(* Properties *)

(* No two nodes take the same address as long as every pass that went on    *)
(* saw all nodes alive and missed no address that its ledger had before, and *)
(* no node lost its lease: although ledgers lag behind each other and lose   *)
(* entries to old copies, a node reads nodes, machines and leader at         *)
(* different moments, announces its address only some time after it chose    *)
(* it, and loops of Persist of former leaders still write their name, the    *)
(* leader never changes between a choice and its announcement.  With a list  *)
(* that lacks somebody it may (a pass during a cleaning, a newcomer, or an   *)
(* entry that was overwritten and is not announced again yet).               *)
UniqueWhileComplete ==
    ~ partial /\ forgot = {} =>
        \A n, m \in Node : n # m /\ address[n] # 0 => address[n] # address[m]

(* No ledger has a node under two addresses, however often it restarts      *)
(* during the negotiation or after it, and whoever overwrote its address:   *)
(* the lease on disk outlives the process.  Where it could not be written   *)
(* and the node restarts, it may come under a second one.                   *)
OneAddressPerNode ==
    \A r \in Homes : \A a, b \in DOMAIN ledger[r].machines :
        /\ ledger[r].machines[a] = ledger[r].machines[b]
        /\ ledger[r].machines[a] \notin forgot
        => a = b

InStep == \A n, m \in Node : home[n] = home[m]

AllAlive == \A n \in Node : My(n).alive = Node

(* A node that needs an address gets one, unless one that is alive and      *)
(* never asks has the greater hash, if the ledgers are in step, all nodes   *)
(* are alive in the end, nobody acted on an incomplete list and no lease is *)
(* lost: a leader that is served, restarted, or whose announcement timed    *)
(* out is replaced, late writes of former leaders are overruled, and nodes  *)
(* that never ask (the list of nodes without address holds them too) are    *)
(* outranked.                                                               *)
EveryoneServed ==
    InStep /\ <>[]AllAlive /\ [](~ partial /\ forgot = {}) =>
        \A n \in Node \ Silent :
            (\A s \in Silent : Rank[s] < Rank[n]) => <>(address[n] # 0)
=============================================================================
