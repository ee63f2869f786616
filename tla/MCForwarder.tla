---------------------------- MODULE MCForwarder ----------------------------
(* Small instances of the VPN service with its stream manager.              *)
EXTENDS Forwarder, TLC

CONSTANTS p1, p2, c1, c2, c3, w1, w2, me, other, far

(* Two streams to the first peer, one to the other.                         *)
ThreeStreams == c1 :> p1 @@ c2 :> p2 @@ c3 :> p1

(* No peer table, or one with both peers.                                   *)
NoTable == [x \in Address |-> None]
AllTables == {NoTable, [NoTable EXCEPT ![other] = p1, ![far] = p2]}

(* A frame of the node's own and one of somebody behind it; the address it  *)
(* is for passes to the other peer, or is lost.                             *)
AllSent == [dst: {other}, local: BOOLEAN]
AllClaims == {<<other, p2>>, <<other, None>>, <<other, Garbled>>}

(* Both peers are known, the second is the router.                          *)
Known == {me :> None @@ other :> p1 @@ far :> p2}
=============================================================================
