---------------------------- MODULE MCTrustZone ----------------------------
(* Small instances of TrustZone: two signers and a node without a key.      *)
EXTENDS TrustZone, TLC

CONSTANTS a, b, x

Gates(f, g, h) == [n \in Node |-> CASE n = a -> f [] n = b -> g [] n = x -> h]

Pairs == {Gates("closed", "absent", "relaxed"), Gates("relaxed", "absent", "relaxed"),
          Gates("closed", "closed", "absent"), Gates("closed", "relaxed", "absent"),
          Gates("relaxed", "relaxed", "absent"), Gates("off", "relaxed", "absent")}

(* Where the nodes of g are present, and mesh has the connections.           *)
Routes(g, mesh) ==
    {<<m, f, n>> \in Node \X Node \X Node :
        /\ n \notin {m, f}
        /\ \A q \in {m, f, n} : g[q] # "absent"
        /\ {f, n} \in mesh
        /\ m = f \/ {m, f} \in mesh}

Mesh == {{a, b}, {a, x}, {b, x}}

(* x is connected to a signer that hands its blocks to the other, or stands *)
(* between the two, with or without a place in the public room.             *)
AllNetworks ==
    {[mode |-> g, routes |-> Routes(g, Mesh), services |-> Node, faults |-> 2] : g \in Pairs}
    \cup {[mode |-> t[1], routes |-> Routes(t[1], t[2]), services |-> {x}, faults |-> 0] : t \in {
        <<Gates("closed", "closed", "plain"), Mesh>>,
        <<Gates("closed", "closed", "plain"), {{a, b}, {b, x}}>>,
        <<Gates("closed", "closed", "plain"), {{a, x}, {b, x}}>>,
        <<Gates("closed", "closed", "relaxed"), {{a, x}, {b, x}}>>}}
=============================================================================
