------------------------------ MODULE BlockTree ------------------------------
(***************************************************************************)
(* What the ledgers of a network promise together, as the shortest         *)
(* specification that says it: the blocks ever stored form a tree rooted   *)
(* at the common genesis block, every node's head is a block of that tree, *)
(* and a head moves only by storing a fresh child of some block of the     *)
(* tree, by adopting a strictly higher block of the tree, or by falling    *)
(* back to genesis when a node without a disk restarts.  It does not       *)
(* promise that a head only rises, nor that heads ever meet: the ledger    *)
(* does not provide either (see Ledger).                                   *)
(***************************************************************************)
EXTENDS Integers, FiniteSets

CONSTANTS
    Node,       \* the peers
    Hash,       \* identities of blocks, the genesis block's excepted
    Storage,    \* the contents a block can carry
    Empty,      \* the contents of the genesis block
    Root,       \* the hash of the genesis block, the same on every node
    NoHash      \* the previous hash of the genesis block

VARIABLES
    tree,       \* every block some node has ever stored
    head        \* the last block of each node

treeVars == <<tree, head>>

Genesis == [index |-> 0, storage |-> Empty, hash |-> Root, prev |-> NoHash]

Child(p, s, h) == [index |-> p.index + 1, storage |-> s, hash |-> h, prev |-> p.hash]

Init ==
    /\ tree = {Genesis}
    /\ head = [n \in Node |-> Genesis]

Fresh(h) == \A b \in tree : b.hash # h

Write(n) ==
    \E p \in tree, s \in Storage, h \in Hash :
        /\ Fresh(h)
        /\ tree' = tree \cup {Child(p, s, h)}
        /\ head' = [head EXCEPT ![n] = Child(p, s, h)]

Adopt(n) ==
    \E b \in tree :
        /\ b.index > head[n].index
        /\ head' = [head EXCEPT ![n] = b]
        /\ UNCHANGED tree

Reset(n) ==
    /\ head' = [head EXCEPT ![n] = Genesis]
    /\ UNCHANGED tree

Next == \E n \in Node : Write(n) \/ Adopt(n) \/ Reset(n)

Spec == Init /\ [][Next]_treeVars
=============================================================================
