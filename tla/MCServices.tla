----------------------------- MODULE MCServices -----------------------------
(* Small instances of Services, where b calls and a and e offer, and one of *)
(* Roles, where b runs a service node.                                      *)
EXTENDS Roles, TLC

CONSTANTS a, b, e, s, t, f, c, p, q, u

Offer(x) == [kind |-> "offer", name |-> x]
Connects(x) == [kind |-> "connect", name |-> x]
IsEgress == <<[kind |-> "egress", name |-> None]>>
Proxies == <<[kind |-> "proxy", name |-> None]>>

(* What is registered with a, with b and with e; what b asks for.           *)
Net(ofA, ofB, ofE, wanted) ==
    [present |-> {a, b} \cup (IF ofE = <<>> THEN {} ELSE {e}),
     registered |-> a :> ofA @@ b :> ofB @@ e :> ofE,
     caller |-> c :> b, wants |-> c :> wanted]

(* One name on two nodes, the second of which may be the one that calls;    *)
(* two services on one node; a file and a service on one node, which        *)
(* connects before it offers the service.                                   *)
Calling == {
    Net(<<Offer(s)>>, <<Connects(s)>>, <<Offer(s)>>, s),
    Net(<<Offer(s)>>, <<Offer(s), Connects(s)>>, <<>>, s),
    Net(<<Offer(s), Offer(t)>>, <<Connects(s)>>, <<>>, s),
    Net(<<Offer(f), Connects(t), Offer(s)>>, <<>>, <<>>, f)}

Quiet == Net(<<>>, <<>>, <<>>, None)

(* A proxy on one of two nodes that are an egress.                          *)
Proxied == Net(IsEgress, Proxies \o IsEgress, <<>>, Egress)

AllDeployments == Calling \cup {Quiet, Proxied}

NoRole == [n \in Node |-> None]

WithoutRoles(d) ==
    [deployment |-> d, serves |-> {}, beats |-> {}, minNode |-> 0,
     persistent |-> NoRole, default |-> NoRole, sets |-> {}, cleans |-> {}]

(* b gets a role, beside one of a, which also cleans; or b has a persistent *)
(* role, which it does not know, and a default one.                         *)
Assigned ==
    [WithoutRoles(Quiet) EXCEPT
        !.serves = {b}, !.beats = {a, b},
        !.sets = {<<a, b, q>>, <<b, a, p>>}, !.cleans = {a}]

Configured ==
    [WithoutRoles(Quiet) EXCEPT
        !.serves = {b}, !.beats = {a, b}, !.sets = {<<a, b, q>>},
        !.persistent[b] = u, !.default[b] = p]

AllPlans ==
    {WithoutRoles(d) : d \in Calling} \cup {Assigned, Configured}
    \cup {[WithoutRoles(Proxied) EXCEPT !.beats = {a, b}]}
=============================================================================
