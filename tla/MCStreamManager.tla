-------------------------- MODULE MCStreamManager --------------------------
(* Small instances of the stream manager for TLC.                           *)
EXTENDS StreamManager, TLC

CONSTANTS t1, t2, p1, p2, p3, c1, c2, c3

(* Two peers with a stream each.                                            *)
OneEach == c1 :> p1 @@ c2 :> p2
(* Three peers with a stream each.                                          *)
ThreePeers == c1 :> p1 @@ c2 :> p2 @@ c3 :> p3

(* The callers are alike, and so are the peers, each with its stream: no    *)
(* property tells them apart.                                               *)
Symmetric ==
    Permutations({t1, t2}) \cup {p1 :> p2 @@ p2 :> p1 @@ c1 :> c2 @@ c2 :> c1}
=============================================================================
