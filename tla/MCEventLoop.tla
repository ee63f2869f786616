---------------------------- MODULE MCEventLoop ----------------------------
(* One node with one worker and small channels: two slots are enough for a *)
(* channel to be empty, partly filled and full.                             *)
EXTENDS EventLoop

CONSTANTS w1
=============================================================================
