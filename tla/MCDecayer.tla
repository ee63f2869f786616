----------------------------- MODULE MCDecayer -----------------------------
(* A small instance of Decayer: two decaying tags of one name, so that the  *)
(* second can only be registered after the first is closed.                 *)
EXTENDS Decayer

CONSTANTS p1, c1, g, bg, d1, d2

MCRemotePeer == [c \in Stream |-> p1]
MCName == [t \in DecayingTag |-> "name"]
MCInterval == [t \in DecayingTag |-> 2]
MCDelta == {1}
MCVal == {1}
=============================================================================
