----------------------------- MODULE MCRotation -----------------------------
(* A small instance of Rotation: a node that publishes and one that reads,  *)
(* while they join, rotate, and fail to join.                               *)
EXTENDS Rotation

CONSTANTS a, b
=============================================================================
