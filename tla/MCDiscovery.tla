---------------------------- MODULE MCDiscovery ----------------------------
(* Two nodes with histories of two, as NewDHT sets them; three windows,     *)
(* and the clock of one of them a window ahead.                             *)
EXTENDS Discovery

MCNode == {"a", "b"}
MCSkew == [n \in MCNode |-> IF n = "a" THEN 0 ELSE 1]
=============================================================================
