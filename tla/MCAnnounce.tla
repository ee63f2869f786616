----------------------------- MODULE MCAnnounce -----------------------------
(* Small instances of Announce: two workers on n1 and one on n2, of which   *)
(* two at a time run a loop; and one announcer of records that n2 resolves.    *)
EXTENDS DNS, TLC

CONSTANTS n1, n2, w1, w2, w3, b1, k1, k2, v1, q1, x1, x2, y1, s1, s2

Homes == w1 :> n1 @@ w2 :> n1 @@ w3 :> n2

LoopOf(kind, k) == [kind |-> kind, bucket |-> b1, key |-> k, value |-> v1]

Pair(w, u, loop) ==
    [x \in Worker |-> CASE x = w -> LoopOf("update", k1)
                        [] x = u -> loop
                        [] OTHER -> LoopOf("none", k1)]

(* What runs beside the announcer of k1: an announcer of another key, a     *)
(* loop that deletes k1 or its bucket, or one that persists another key.    *)
Another == LoopOf("update", k2)
DeleteKey == LoopOf("deleteKey", k1)
DeleteAll == LoopOf("deleteBucket", k1)
Persist == LoopOf("persist", k2)

(* Records for n2, which has a resolver: one question has an answer there,  *)
(* for the other the record has no entry of its type.                       *)
Alone == Pair(w1, w2, LoopOf("none", k1))
AllResolving == {<<Alone, n2>>}
AllMatches == [x \in Question |-> {k1}]
AllTyped == x1 :> {v1} @@ x2 :> {}
Servers == <<s1, s2>>

(* Both on n1; one on each node, where n2 may restart.                      *)
AllLoops ==
    {Pair(w1, w2, loop) : loop \in {Another, DeleteKey, DeleteAll, Persist}}
        \cup {Pair(w1, w3, Another), Pair(w1, w3, DeleteKey), Pair(w3, w1, DeleteAll), Alone}
=============================================================================
