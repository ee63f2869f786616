------------------------------ MODULE Windows ------------------------------
(***************************************************************************)
(* What Rotation and Discovery have in common: the nodes of a network and  *)
(* the windows of the one-time password, from which the one takes the      *)
(* names of rooms and the keys, and the other the rendezvous.              *)
(***************************************************************************)
EXTENDS Integers, Sequences, FiniteSets

CONSTANTS
    Node,
    LastWindow      \* bound: the clocks stop there

ASSUME WindowsAssumption == LastWindow \in Nat
=============================================================================
