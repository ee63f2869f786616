----------------------------- MODULE Discovery -----------------------------
(***************************************************************************)
(* How nodes of a network find each other, pkg/discovery.                  *)
(*                                                                         *)
(* The background goroutine of a node announces it again and again: it     *)
(* joins the DHT through the bootstrap peers, adds the rendezvous of the   *)
(* current window of time to a short history, and for every rendezvous in  *)
(* there advertises the node and connects to whoever else is advertised.   *)
(* The clocks of two nodes may be a window apart.  A round that takes      *)
(* longer than an hour is left behind: its context is over, so it ends     *)
(* soon, but it and the next one may both touch the history.               *)
(*                                                                         *)
(* Beside this, multicast DNS may show one node to another at any time.    *)
(***************************************************************************)
EXTENDS Windows, SequencesExt

CONSTANTS
    Length,         \* of the history, d.rendezvousHistory
    Skew,           \* node -> how far its clock is ahead
    OTP,            \* whether the rendezvous changes with time
    MaxFaults       \* bound: lost connections, rounds that time out

ASSUME DiscoveryAssumption ==
    /\ IsFiniteSet(Node)
    /\ Length \in Nat \ {0, 1}
    /\ Skew \in [Node -> {0, 1}]
    /\ OTP \in BOOLEAN
    /\ MaxFaults \in Nat

VARIABLES
    window,     \* the window
    joined,     \* nodes that reach the DHT
    adverts,    \* who is advertised where
    connected,  \* pairs of nodes
    loop,       \* node -> off, in its first round, or in one with a time limit
    round,      \* node -> the round that the goroutine waits for
    behind,     \* node -> the round that it no longer waits for
    history,    \* node -> d.rendezvousHistory.Data
    fresh,      \* nodes that have added their rendezvous in this window
    faults

dhtVars == <<joined, adverts, connected>>
discoveryVars == <<window, dhtVars, loop, round, behind, history, fresh, faults>>

Rendezvous(n) == IF OTP THEN window + Skew[n] ELSE 0

(* todo: the rendezvous still to go through.                                *)
NoRound == [at |-> "none", todo |-> <<>>]

NewRound == [NoRound EXCEPT !.at = "bootstrap"]

DiscoveryInit ==
    /\ window = 0
    /\ joined = {} /\ adverts = {} /\ connected = {}
    /\ loop = [n \in Node |-> "off"]
    /\ round = [n \in Node |-> NoRound] /\ behind = [n \in Node |-> NoRound]
    /\ history = [n \in Node |-> <<>>]
    /\ fresh = {} /\ faults = 0

Pair(n, m) == {n, m}

-----------------------------------------------------------------------------
(* The ring *)

(* mutated Added: a full ring keeps what it has                             *)
AddedUntilFull(ring, rv) ==
    IF Len(ring) = Length THEN ring
    ELSE IF ring # <<>> /\ Last(ring) = rv THEN ring ELSE Append(ring, rv)

(* mutated Added: the last entry may be there twice                         *)
AddedAgain(ring, rv) ==
    Append(IF Len(ring) + 1 > Length THEN Tail(ring) ELSE ring, rv)

(* Ring.Add                                                                 *)
Added(ring, rv) ==
    IF ring # <<>> /\ Last(ring) = rv THEN ring
    ELSE Append(IF Len(ring) + 1 > Length THEN Tail(ring) ELSE ring, rv)

-----------------------------------------------------------------------------
(* A round, announceRendezvous, of the goroutine that is in "round" or late *)

(* The step of a round that is now as r says.                               *)
Proceeds(n, isLate, r) ==
    /\ IF isLate THEN behind' = [behind EXCEPT ![n] = r] /\ UNCHANGED round
                 ELSE round' = [round EXCEPT ![n] = r] /\ UNCHANGED behind
    /\ UNCHANGED <<window, loop, faults>>

Round(n, isLate) == IF isLate THEN behind[n] ELSE round[n]

(* bootstrapPeers has some peer answer or none; then the clock is read and  *)
(* what it says is added, with no wait between.                             *)
AddRendezvous(n, isLate) ==
    LET ring == Added(history[n], Rendezvous(n)) IN
    /\ Round(n, isLate).at = "bootstrap"
    /\ history' = [history EXCEPT ![n] = ring]
    /\ fresh' = fresh \cup {n}
    /\ Proceeds(n, isLate, [at |-> "advertise", todo |-> ring])
    /\ UNCHANGED <<adverts, connected>>

BootstrapPeers(n, isLate) == AddRendezvous(n, isLate) /\ joined' = joined \cup {n}

BootstrapFails(n, isLate) == AddRendezvous(n, isLate) /\ UNCHANGED joined

(* announceAndConnect: Advertise, with no look at whether it succeeds.      *)
Advertise(n, isLate) ==
    LET r == Round(n, isLate) IN
    /\ r.at = "advertise" /\ r.todo # <<>>
    /\ adverts' = IF n \in joined THEN adverts \cup {<<Head(r.todo), n>>} ELSE adverts
    /\ Proceeds(n, isLate, [r EXCEPT !.at = "find"])
    /\ UNCHANGED <<joined, connected, history, fresh>>

(* Peers come from FindPeers one by one; whoever is connected already is    *)
(* passed over.                                                             *)
Connect(n, isLate, m) ==
    LET r == Round(n, isLate) IN
    /\ r.at = "find" /\ n \in joined
    /\ m # n /\ <<Head(r.todo), m>> \in adverts
    /\ Pair(n, m) \notin connected
    /\ connected' = connected \cup {Pair(n, m)}
    /\ UNCHANGED <<window, joined, adverts, loop, round, behind, history, fresh, faults>>

(* No more is found at this rendezvous; what was may not have answered.     *)
NextRendezvous(n, isLate) ==
    LET r == Round(n, isLate) IN
    /\ r.at = "find"
    /\ Proceeds(n, isLate, [at |-> "advertise", todo |-> Tail(r.todo)])
    /\ UNCHANGED <<dhtVars, history, fresh>>

(* A late round sends to a channel that nobody reads and stays there.       *)
LateEnds(n) ==
    /\ behind[n].at = "advertise" /\ behind[n].todo = <<>>
    /\ Proceeds(n, TRUE, NoRound)
    /\ UNCHANGED <<dhtVars, history, fresh>>

-----------------------------------------------------------------------------
(* The background goroutine *)

Loops(n, from) ==
    /\ loop[n] \in from
    /\ round' = [round EXCEPT ![n] = NewRound]
    /\ UNCHANGED <<window, dhtVars, history, fresh>>

(* The first round has no limit.                                            *)
Run(n) ==
    /\ Loops(n, {"off"})
    /\ loop' = [loop EXCEPT ![n] = "first"]
    /\ UNCHANGED <<behind, faults>>

(* The ticker starts the next round when one has ended.                     *)
Tick(n) ==
    /\ round[n].at = "advertise" /\ round[n].todo = <<>>
    /\ Loops(n, {"first", "timed"})
    /\ loop' = [loop EXCEPT ![n] = "timed"]
    /\ UNCHANGED <<behind, faults>>

(* An hour has gone by: the next round starts without the end of this one.  *)
TimesOut(n) ==
    /\ faults < MaxFaults /\ faults' = faults + 1
    /\ behind[n] = NoRound
    /\ Loops(n, {"timed"})
    /\ behind' = [behind EXCEPT ![n] = round[n]]
    /\ UNCHANGED loop

-----------------------------------------------------------------------------
(* The world *)

(* A window is longer than the time from one round to the next and than an  *)
(* hour: in each, every node that runs adds its rendezvous, and what timed  *)
(* out ends.  The DHT drops what is no longer advertised.  (The last window *)
(* waits for all to start: everyone goes through two.)                      *)
NextWindow ==
    /\ window < LastWindow /\ window' = window + 1
    /\ \A n \in Node : loop[n] # "off" => n \in fresh
    /\ \A n \in Node : behind[n] = NoRound
    /\ window' = LastWindow => \A n \in Node : loop[n] # "off"
    /\ fresh' = {}
    /\ adverts' = {ad \in adverts : Contains(history[ad[2]], ad[1])}
    /\ UNCHANGED <<joined, connected, loop, round, behind, history, faults>>

(* A node loses the network, and with it its connections.                   *)
Lose(n) ==
    /\ faults < MaxFaults /\ faults' = faults + 1
    /\ loop[n] # "off"
    /\ joined' = joined \ {n}
    /\ connected' = {p \in connected : n \notin p}
    /\ UNCHANGED <<window, adverts, loop, round, behind, history, fresh>>

(* mDNS: what it finds is connected to, or not, once.                       *)
HandlePeerFound(n, m) ==
    /\ n # m /\ loop[n] # "off" /\ loop[m] # "off"
    /\ connected' = connected \cup {Pair(n, m)}
    /\ UNCHANGED <<window, joined, adverts, loop, round, behind, history, fresh, faults>>

-----------------------------------------------------------------------------

Bootstrap(n, isLate) == BootstrapPeers(n, isLate) \/ BootstrapFails(n, isLate)

Step(n, isLate) ==
    \/ Bootstrap(n, isLate) \/ Advertise(n, isLate) \/ NextRendezvous(n, isLate)

DiscoveryNext ==
    \/ NextWindow
    \/ \E n \in Node :
        \/ Run(n) \/ Tick(n) \/ LateEnds(n) \/ TimesOut(n) \/ Lose(n)
        \/ \E isLate \in BOOLEAN :
            \/ Step(n, isLate)
            \/ \E m \in Node : Connect(n, isLate, m)
        \/ \E m \in Node : HandlePeerFound(n, m)

DiscoverySpec == DiscoveryInit /\ [][DiscoveryNext]_discoveryVars

(* Nodes are started and their goroutines run, those left behind too; of    *)
(* the tries to reach a bootstrap peer, or another node, some succeed.      *)
FairDiscoverySpec ==
    /\ DiscoverySpec
    /\ \A n \in Node :
        /\ WF_discoveryVars(Run(n) \/ Tick(n) \/ Step(n, FALSE))
        /\ WF_discoveryVars(Step(n, TRUE) \/ LateEnds(n))
        /\ SF_discoveryVars(BootstrapPeers(n, FALSE))
        /\ \A m \in Node \ {n} : SF_discoveryVars(Connect(n, FALSE, m))
    /\ WF_discoveryVars(NextWindow)

-----------------------------------------------------------------------------
(* Properties *)

(* A node that has gone round in this window has its rendezvous and, unless  *)
(* it has just started, that of the window before in its history, however   *)
(* late rounds and their successors take turns in adding to it (Ring.Add):  *)
(* nodes whose clocks are a window apart share one.                         *)
KeepsLast ==
    \A n \in fresh :
        LET now == Rendezvous(n) IN
            /\ Contains(history[n], now)
            /\ Len(history[n]) > 1 => Contains(history[n], now - 1)

(* Any two nodes are connected again and again, although their clocks are a *)
(* window apart, rounds time out, and connections are lost.                 *)
Met == \A p \in {Pair(n, m) : n, m \in Node} : Cardinality(p) = 2 => []<>(p \in connected)
=============================================================================
