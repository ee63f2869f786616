----------------------------- MODULE TrustZone -----------------------------
(***************************************************************************)
(* Who may write to the ledger: pkg/trustzone, the gate of handleEvents    *)
(* (pkg/node/connection.go) and their wiring in pkg/config.                *)
(*                                                                         *)
(* The trust zone is a bucket of the ledger with the ids of the trusted    *)
(* peers.  Each node refreshes its own copy of it, trustDB, with a ticker, *)
(* and refuses blocks sent by anyone who is not in the copy.  A node that  *)
(* does not find itself in the zone sends signed challenges on the public  *)
(* room, which nobody gates; whoever can verify one adds the sender with a *)
(* loop of Persist.  The sender of a message is the neighbour it came from *)
(* (ReceivedFrom in pkg/hub/room.go), which need not be its author: the    *)
(* nodes of a room hand on what others publish before they look at it.     *)
(* The ledger is one last block per node, as in Ledger; a call that writes *)
(* to it is one action here.                                               *)
(***************************************************************************)
EXTENDS Integers

CONSTANTS
    Node,
    Signer,         \* nodes whose private key fits the key in the ledger
    Networks,       \* the networks: modes, routes, services and faults of each
    Provisioned,    \* nodes where an operator PUTs the public key
    Cleaner,        \* nodes with Autocleanup
    MaxAhead        \* bound: how far ahead of the lowest a node still announces

(* Gate closed, relaxed or off at the start; without PeerGuard.Enable        *)
(* (plain); or not in the network at all.                                    *)
Mode == {"closed", "relaxed", "off", "plain", "absent"}

ASSUME TrustAssumption ==
    /\ \A w \in Networks :
        /\ w.mode \in [Node -> Mode]
        /\ w.routes \subseteq {r \in Node \X Node \X Node : r[3] \notin {r[1], r[2]}}
        /\ w.services \subseteq Node
        /\ w.faults \in Nat
    /\ Signer \subseteq Node /\ Provisioned \subseteq Node /\ Cleaner \subseteq Node
    /\ MaxAhead \in Nat

VARIABLES
    mode,       \* node -> its mode, the same for ever
    routes,     \* <<m, f, n>>: what m publishes may reach n from the hand of f
    services,   \* nodes with a service that announces something
    ledger,     \* node -> the storage of its last block
    index,      \* node -> index of that block, above the lowest of all nodes
    trustDB,    \* node -> the peers its gater knows
    enabled,    \* node -> its gate is on
    adding,     \* node -> peers its loops of Persist are adding to the zone
    keying,     \* node -> a loop of Persist is adding the public key
    cleaning,   \* node -> the keys its autoclean has still to go through
    cleans,     \* passes of the autoclean
    faults      \* bound: passes of the autoclean and restarts to come

zoneVars == <<ledger, index, trustDB, enabled, adding, keying, cleaning, cleans, faults>>
setup == <<mode, routes, services>>
vars == <<setup, zoneVars>>
loops == <<adding, keying, cleaning>>

(* auth: the bucket trustzoneAuth has a key of ecdsa.  foreign (history): a *)
(* node that cannot sign has written to the block or to one it came from.  *)
Storage == [tz: SUBSET Node, auth: BOOLEAN, foreign: BOOLEAN]

Present == {n \in Node : mode[n] # "absent"}

Guarded == {n \in Present : mode[n] # "plain"}

Empty == [tz |-> {}, auth |-> FALSE, foreign |-> FALSE]

(* As peerguardian.md asks: a node that is not relaxed starts with a ledger *)
(* on its disk and the public key in it.                                    *)
OnDisk(n) == mode[n] = "closed"

Init ==
    /\ \E w \in Networks :
        mode = w.mode /\ routes = w.routes /\ services = w.services /\ faults = w.faults
    /\ ledger = [n \in Node |-> [Empty EXCEPT !.auth = OnDisk(n)]]
    /\ index = [n \in Node |-> 0]
    /\ trustDB = [n \in Node |-> {}]
    /\ enabled = [n \in Node |-> mode[n] \in {"closed", "relaxed"}]
    /\ adding = [n \in Node |-> {}]
    /\ keying = [n \in Node |-> n \in Provisioned \cap Guarded]
    /\ cleaning = [n \in Node |-> {}]
    /\ cleans = 0

-----------------------------------------------------------------------------
(* The ledger *)

Lowest(i) == CHOOSE l \in {i[n] : n \in Present} : \A n \in Present : l <= i[n]

Rebased(i) == [n \in Node |-> IF n \in Present THEN i[n] - Lowest(i) ELSE 0]

(* mutated Gate: the empty copy opens every gate                            *)
GateUnlessEmpty(n, p) ==
    /\ enabled[n]
    /\ trustDB[n] # {}
    /\ p \notin trustDB[n]

(* TRUE when n refuses messages of p.                                       *)
Gate(n, p) ==
    /\ enabled[n]
    /\ ~ (mode[n] = "relaxed" /\ trustDB[n] = {})
    /\ p \notin trustDB[n]

(* A block that m published reaches n by the hand of f: the Syncronizer of  *)
(* m sends the last one again and again, and of the copies that arrive the  *)
(* first counts.  The gate looks at f.                                      *)
Gossip(n, f, m) ==
    /\ {n, f, m} \subseteq Present
    /\ <<m, f, n>> \in routes
    /\ ~ Gate(n, f)
    /\ index[m] > index[n]
    /\ ledger' = [ledger EXCEPT ![n] = ledger[m]]
    /\ index' = Rebased([index EXCEPT ![n] = index[m]])
    /\ UNCHANGED <<trustDB, enabled, loops, cleans, faults>>

(* Add or Delete, and whatever other services write through them.          *)
Write(n, storage) ==
    /\ ledger' = [ledger EXCEPT ![n] = [storage EXCEPT !.foreign = @ \/ n \notin Signer]]
    /\ index' = Rebased([index EXCEPT ![n] = @ + 1])

(* A service of n announces something of its own.                           *)
Announce(n) ==
    /\ n \in Present \cap services
    /\ index[n] < MaxAhead
    /\ Write(n, ledger[n])
    /\ UNCHANGED <<trustDB, enabled, loops, cleans, faults>>

-----------------------------------------------------------------------------
(* PeerGater *)

UpdaterService(n) ==
    /\ n \in Guarded
    /\ trustDB[n] # ledger[n].tz
    /\ trustDB' = [trustDB EXCEPT ![n] = ledger[n].tz]
    /\ UNCHANGED <<ledger, index, enabled, loops, cleans, faults>>

(* PUT /api/peergate/:state, on nodes that start with the gate off.         *)
Switch(n) ==
    /\ mode[n] = "off"
    /\ enabled' = [enabled EXCEPT ![n] = ~ @]
    /\ UNCHANGED <<ledger, index, trustDB, loops, cleans, faults>>

-----------------------------------------------------------------------------
(* PeerGuardian and its ECDSA provider *)

(* mutated Authenticate: without a public key anybody is taken              *)
AuthenticateWithoutKey(n, p) == ledger[n].auth => p \in Signer

(* n verifies what p has signed with the public keys of its own ledger.     *)
Authenticate(n, p) == ledger[n].auth /\ p \in Signer

InTrustZone(n) == n \in ledger[n].tz

(* mutated Challenged: n looks itself up in the copy of its gater           *)
ChallengedByCopy(n) == n \in Guarded /\ n \notin trustDB[n]

Challenged(n) == n \in Guarded /\ ~ InTrustZone(n)

(* A tick of the Challenger of p: it does not see itself in the zone, signs *)
(* and publishes; n receives it by the hand of f, verifies what p signed    *)
(* and adds f.  Only guarded nodes are in the public room.                  *)
Challenge(p, f, n) ==
    /\ Challenged(p)
    /\ {n, f} \subseteq Guarded
    /\ <<p, f, n>> \in routes
    /\ f \notin ledger[n].tz
    /\ Authenticate(n, p)
    /\ f \notin adding[n]
    /\ adding' = [adding EXCEPT ![n] = @ \cup {f}]
    /\ UNCHANGED <<ledger, index, trustDB, enabled, keying, cleaning, cleans, faults>>

(* Ticks of the loop of Persist that adds p: it writes until it sees p.     *)
PersistAdd(n, p) ==
    /\ p \in adding[n]
    /\ p \notin ledger[n].tz
    /\ Write(n, [ledger[n] EXCEPT !.tz = @ \cup {p}])
    /\ UNCHANGED <<trustDB, enabled, loops, cleans, faults>>

PersistCancel(n, p) ==
    /\ p \in adding[n]
    /\ p \in ledger[n].tz
    /\ adding' = [adding EXCEPT ![n] = @ \ {p}]
    /\ UNCHANGED <<ledger, index, trustDB, enabled, keying, cleaning, cleans, faults>>

PersistTimeout(n, p) ==
    /\ p \in adding[n]
    /\ adding' = [adding EXCEPT ![n] = @ \ {p}]
    /\ UNCHANGED <<ledger, index, trustDB, enabled, keying, cleaning, cleans, faults>>

(* A tick of the loop of Persist behind PUT /api/ledger/trustzoneAuth/...   *)
PersistKey(n) ==
    /\ keying[n]
    /\ IF ledger[n].auth
       THEN /\ keying' = [keying EXCEPT ![n] = FALSE]
            /\ UNCHANGED <<ledger, index>>
       ELSE /\ Write(n, [ledger[n] EXCEPT !.auth = TRUE])
            /\ UNCHANGED keying
    /\ UNCHANGED <<trustDB, enabled, adding, cleaning, cleans, faults>>

(* The peers of the room, as ListPeers has them: the neighbours.            *)
ListPeers(n) == {p \in Present : <<p, p, n>> \in routes}

(* The rest of a tick with autoclean: it copies the zone when the room is   *)
(* known, and then goes through the copy.                                   *)
CleanBegin(n) ==
    /\ n \in Cleaner \cap Guarded
    /\ faults > 0
    /\ cleaning[n] = {}
    /\ ledger[n].tz # {}
    /\ cleaning' = [cleaning EXCEPT ![n] = ledger[n].tz]
    /\ cleans' = cleans + 1
    /\ faults' = faults - 1
    /\ UNCHANGED <<ledger, index, trustDB, enabled, adding, keying>>

(* The labelled break only leaves the loop over the peers: Delete follows   *)
(* whether k was found among them or not.                                   *)
CleanKey(n, k) ==
    /\ k \in cleaning[n]
    /\ cleaning' = [cleaning EXCEPT ![n] = @ \ {k}]
    /\ Write(n, [ledger[n] EXCEPT !.tz = @ \ {k}])
    /\ UNCHANGED <<trustDB, enabled, adding, keying, cleans, faults>>

-----------------------------------------------------------------------------

(* A node with a MemoryStore begins again below all others, one with a      *)
(* DiskStore where it was; the gater's copy and all loops are gone.         *)
Restart(n) ==
    /\ n \in Present
    /\ faults > 0
    /\ faults' = faults - 1
    /\ IF OnDisk(n)
       THEN UNCHANGED <<ledger, index>>
       ELSE /\ ledger' = [ledger EXCEPT ![n] = Empty]
            /\ index' = Rebased([index EXCEPT ![n] = -1])
    /\ trustDB' = [trustDB EXCEPT ![n] = {}]
    /\ enabled' = [enabled EXCEPT ![n] = mode[n] \in {"closed", "relaxed"}]
    /\ adding' = [adding EXCEPT ![n] = {}]
    /\ keying' = [keying EXCEPT ![n] = FALSE]
    /\ cleaning' = [cleaning EXCEPT ![n] = {}]
    /\ UNCHANGED cleans

Step ==
    \/ \E n, f, m \in Node : Gossip(n, f, m) \/ Challenge(m, f, n)
    \/ \E n \in Node : Announce(n) \/ UpdaterService(n) \/ Switch(n) \/ PersistKey(n)
    \/ \E n \in Node, p \in Node : PersistAdd(n, p) \/ PersistCancel(n, p) \/ PersistTimeout(n, p)
    \/ \E n \in Node : CleanBegin(n) \/ Restart(n)
    \/ \E n, k \in Node : CleanKey(n, k)

Next == Step /\ UNCHANGED setup

Spec == Init /\ [][Next]_vars

-----------------------------------------------------------------------------
(* Properties *)

(* Guarded nodes that may hand a signer's challenge on.                     *)
Couriers ==
    {f \in Guarded : \E p \in Signer \cap Guarded, n \in Guarded : p # f /\ <<p, f, n>> \in routes}

(* Those who may come into the zone.                                        *)
Trusted == Signer \cup Couriers

(* Whoever is in the zone, or about to be, has proved that it owns a key of *)
(* the ledger it asked, or stands between two others and has handed on such *)
(* a proof: whatever blocks a node takes, and whoever restarts or cleans.   *)
OnlySigners ==
    \A n \in Node : ledger[n].tz \cup adding[n] \subseteq Trusted

(* No signer has blocks of a foreign author from one who may be in a zone.  *)
Sealed ==
    \A n \in Signer, f \in Trusted, m \in Present \ Signer : <<m, f, n>> \notin routes

AllClosed == \A n \in Signer : mode[n] = "closed"

(* Where the gates of all who can sign are closed from the start, they come *)
(* to trust signers and couriers only; and while no such node brings them   *)
(* the blocks of a foreign author, as the gates look at who brings a block, *)
(* none of them ever holds what a node unable to sign has written, directly *)
(* or by way of others.                                                     *)
ClosedIsClean ==
    AllClosed =>
        \A n \in Signer :
            /\ trustDB[n] \subseteq Trusted
            /\ Sealed => ~ ledger[n].foreign

(* n reads blocks of p, or will after the next refresh of its copy.         *)
Hears(n, p) == ~ Gate(n, p) \/ p \in adding[n] \cup ledger[n].tz

Neighbours(n, p) == <<n, n, p>> \in routes /\ <<p, p, n>> \in routes

(* No third node keeps blocks from before a restart for later, and at most  *)
(* one of those who sign goes through the zone to delete from it.           *)
Undisturbed ==
    /\ Present \subseteq Signer \/ (AllClosed /\ Sealed)
    /\ cleans = 0 \/ \A n, p \in Cleaner \cap Signer : n = p

(* Two neighbours that can sign never come to refuse each other for good:    *)
(* while neither reads the other's blocks one of them does not find itself   *)
(* in the zone and still asks, and the other hears it from its own hand.     *)
(* Restarts, lost writes and loops that time out do not change that; the two *)
(* conditions, and the number of two, do matter.                             *)
NobodyShutOut ==
    Undisturbed =>
        \A n, p \in Node : n # p /\ Signer = {n, p} /\ Neighbours(n, p) =>
            Hears(n, p) \/ Hears(p, n) \/ Challenged(n) \/ Challenged(p)

(* Comment of peerguardian.go: the autoclean takes out of the zone the peers *)
(* that are not in the hub.                                                 *)
AutocleanSparesPeers ==
    [][\A n \in Node : \A k \in ListPeers(n) \cap ledger[n].tz :
        cleaning'[n] # cleaning[n] => k \in ledger'[n].tz]_vars
=============================================================================
