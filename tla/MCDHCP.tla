------------------------------- MODULE MCDHCP -------------------------------
(* A small instance of DHCP: n1 is a node without VPN and has the least     *)
(* hash, n3 the greatest.                                                   *)
EXTENDS DHCP, TLC

CONSTANTS n1, n2, n3, r1, r2

MCRank == n1 :> 1 @@ n2 :> 2 @@ n3 :> 3

Lease(n, ip) == [m \in Node |-> IF m = n THEN ip ELSE 0]

(* The ledgers are in step, and nobody has an address or n2 has one from an *)
(* earlier run; or n2 has a ledger of its own, and nobody has an address or *)
(* n3 has one, and n2 may lose its ledger in a restart.                     *)
MCStarts ==
    {[home |-> [n \in Node |-> r1], lease |-> Lease(n2, ip),
      alive |-> {}, losses |-> 1, restarts |-> 1] : ip \in {0, 1}}
    \cup
    {[home |-> [n \in Node |-> IF n = n2 THEN r1 ELSE r2], lease |-> Lease(n3, ip),
      alive |-> Node, losses |-> 0, restarts |-> ip] : ip \in {0, 1}}
=============================================================================
