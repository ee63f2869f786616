------------------------------- MODULE Roles -------------------------------
(***************************************************************************)
(* The service nodes of api/client/service, beside the services of a       *)
(* network and over the same ledger.                                       *)
(*                                                                         *)
(* A service node talks to the HTTP API of a node of the network.  It      *)
(* advertises itself, counts the nodes whose health checks are in the      *)
(* ledger, and when they are enough looks for a role a coordinator has     *)
(* set for it, and runs it, in every round anew.  Roles configured as      *)
(* persistent are run in every round too; a node with default roles runs   *)
(* these and never asks.  What the API is asked to put or to delete is     *)
(* done by a loop that ends when it has seen it done, or at its timeout.   *)
(***************************************************************************)
EXTENDS Services

CONSTANTS
    Role,
    Known,      \* those the nodes have handlers for
    Plans       \* who runs a service node, and what coordinators do

(* beats: nodes that announce health checks.  sets: a coordinator's node,   *)
(* the node, and the role it gives it.                                      *)
Plan == [deployment: Deployment, serves: SUBSET Node, beats: SUBSET Node, minNode: Nat,
         persistent: [Node -> Role \cup {None}], default: [Node -> Role \cup {None}],
         sets: SUBSET (Node \X Node \X Role), cleans: SUBSET Node]

ASSUME RolesAssumption ==
    /\ None \notin Role /\ Known \subseteq Role
    /\ Plans \subseteq Plan

VARIABLES
    plan,       \* the same for ever
    at,         \* node -> where Start of its service node is
    ran,        \* node -> the roles it has run in its round, in order
    putting,    \* the sets the API is still at
    deleting    \* nodes whose API is deleting the bucket

loopVars == <<putting, deleting>>
roleVars == <<plan, at, ran, loopVars>>

RolesInit ==
    /\ Init
    /\ plan \in {p \in Plans : p.deployment = deployment}
    /\ at = [n \in Node |-> "off"] /\ ran = [n \in Node |-> <<>>]
    /\ putting = plan.sets /\ deleting = plan.cleans

-----------------------------------------------------------------------------
(* Loops of Persist and AnnounceDeleteBucket *)

Set(m, n, r) ==
    /\ <<m, n, r>> \in putting /\ ledger[m].role[n] # r
    /\ Write(m, [ledger[m] EXCEPT !.role[n] = r])
    /\ UNCHANGED <<at, ran, loopVars>>

(* The role is there, or the time is over.                                  *)
SetEnds(m, n, r) ==
    /\ <<m, n, r>> \in putting /\ putting' = putting \ {<<m, n, r>>}
    /\ UNCHANGED <<started, ledgerVars, call, faults, at, ran, deleting>>

NoRoles == [n \in Node |-> None]

(* The bucket goes with everything in it, the roles of other nodes too.     *)
Clean(m) ==
    /\ m \in deleting /\ ledger[m].role # NoRoles
    /\ Write(m, [ledger[m] EXCEPT !.role = NoRoles])
    /\ UNCHANGED <<at, ran, loopVars>>

CleanEnds(m) ==
    /\ m \in deleting /\ deleting' = deleting \ {m}
    /\ UNCHANGED <<started, ledgerVars, call, faults, at, ran, putting>>

(* The health check of a node.                                              *)
Beat(n) ==
    /\ n \in plan.beats /\ n \notin ledger[n].alive
    /\ Write(n, [ledger[n] EXCEPT !.alive = @ \cup {n}])
    /\ UNCHANGED <<at, ran, loopVars>>

(* One of them deletes all health checks now and then.                      *)
Scrub(n) ==
    /\ n \in plan.beats /\ ledger[n].alive # {}
    /\ Write(n, [ledger[n] EXCEPT !.alive = {}])
    /\ UNCHANGED <<at, ran, loopVars>>

-----------------------------------------------------------------------------
(* The service node *)

(* Whoever has no handler for a role passes it over.                        *)
Apply(n, r, before) == IF r \in Known THEN Append(before, r) ELSE before

Goes(n, to, roles) ==
    /\ at' = [at EXCEPT ![n] = to]
    /\ ran' = [ran EXCEPT ![n] = roles]
    /\ UNCHANGED <<started, ledgerVars, call, loopVars>>

(* The role that the node runs first.                                       *)
Prepare(n) == Apply(n, plan.persistent[n], <<>>)

Start(n) ==
    /\ n \in plan.serves /\ at[n] = "off"
    /\ Goes(n, "count", Prepare(n))
    /\ UNCHANGED faults

(* The time in the entry makes it a new one: a block is written.            *)
Advertize(n) ==
    /\ at[n] = "count"
    /\ Write(n, ledger[n])
    /\ UNCHANGED <<at, ran, loopVars>>

ActiveNodes(n) == ledger[n].alive

(* How many must be alive; two if nothing is configured.                    *)
MinNode == IF plan.minNode = 0 THEN 2 ELSE plan.minNode

Enough(n, active) == Cardinality(active) >= MinNode

(* Where a round goes when persistent and default roles have run.           *)
AfterRoles(n, active) ==
    IF plan.default[n] = None /\ Enough(n, active) THEN "get" ELSE "count"

(* An API that does not answer is one without nodes.  (MaxFaults bounds how *)
(* often it does not.)                                                      *)
Count(n, active) ==
    /\ at[n] = "count"
    /\ Goes(n, AfterRoles(n, active),
            Apply(n, plan.default[n], Apply(n, plan.persistent[n], <<>>)))

CountNodes(n) == Count(n, ActiveNodes(n)) /\ UNCHANGED faults

CountFails(n) == Count(n, {}) /\ Fault

Get(n) == ledger[n].role[n]

(* mutated GetRole: the node returns when it has run its role               *)
GetRoleOnce(n) ==
    /\ at[n] = "get"
    /\ Goes(n, IF Get(n) \in Known THEN "over" ELSE "count", Apply(n, Get(n), ran[n]))
    /\ UNCHANGED faults

GetRole(n) ==
    /\ at[n] = "get"
    /\ Goes(n, "count", Apply(n, Get(n), ran[n]))
    /\ UNCHANGED faults

GetFails(n) == at[n] = "get" /\ Goes(n, "count", ran[n]) /\ Fault

-----------------------------------------------------------------------------

Api ==
    \/ \E s \in plan.sets : Set(s[1], s[2], s[3]) \/ SetEnds(s[1], s[2], s[3])
    \/ \E m \in plan.cleans : Clean(m) \/ CleanEnds(m)
    \/ \E n \in Node : Beat(n) \/ Scrub(n)

ServiceNode(n) ==
    \/ Start(n) \/ Advertize(n)
    \/ CountNodes(n) \/ CountFails(n) \/ GetRole(n) \/ GetFails(n)

RolesNext ==
    \/ Next /\ UNCHANGED roleVars
    \/ (Api \/ \E n \in Node : ServiceNode(n)) /\ UNCHANGED <<deployment, plan>>

RolesSpec == RolesInit /\ [][RolesNext]_<<vars, roleVars>>

(* The rounds go on.                                                        *)
RolesFairSpec ==
    /\ RolesSpec /\ Fairness
    /\ \A n \in Node :
        WF_<<at, ran>>((Start(n) \/ CountNodes(n) \/ GetRole(n))
                         /\ UNCHANGED <<deployment, plan>>)

-----------------------------------------------------------------------------
(* Properties *)

(* n has a role to run from the ledger.                                     *)
Due(n) ==
    /\ n \in plan.serves /\ plan.default[n] = None
    /\ ledger[n].role[n] \in Known /\ Enough(n, ledger[n].alive)

(* n runs the role that its ledger has for it.                              *)
RunsRole(n) == at[n] = "get" /\ ran'[n] = Append(ran[n], ledger[n].role[n])

(* A role that stays in the ledger of its node, with enough health checks   *)
(* beside it, is run again and again, one round after the other, although   *)
(* the API fails now and then.                                              *)
RoleTaken ==
    \A n \in Node : <>[]Due(n) => []<><<RunsRole(n)>>_<<at, ran>>
=============================================================================
