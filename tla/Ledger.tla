------------------------------- MODULE Ledger -------------------------------
(***************************************************************************)
(* The replicated ledger of pkg/blockchain.                                *)
(*                                                                         *)
(* Every node keeps only the last block of its chain.  Goroutines of a     *)
(* node (the "workers": Announce loops, API handlers, network services)    *)
(* call Add, Delete or DeleteBucket, each of which copies the storage of   *)
(* the last block under the ledger's lock, gives the lock back, and then   *)
(* runs writeData on the copy WITHOUT the lock: make a block on top of the *)
(* last one, validate it against the last one, take the lock to store it,  *)
(* and publish whatever the last block is by then.  Other workers of the   *)
(* node and Update, the handler of gossip messages, run in between.        *)
(*                                                                         *)
(* A section of the code that holds the lock is one action; so is each     *)
(* read of the store outside it (the store has a lock of its own).         *)
(*                                                                         *)
(* Gossip: "net" holds every message ever published and none ever leaves,  *)
(* so a message can be received late, many times, out of order, or never.  *)
(* hub/room.go drops a node's own messages.                                *)
(*                                                                         *)
(* A block's hash is the SHA-256 of its index, storage, previous hash and  *)
(* of a wall clock timestamp: it is modelled as the identity of the block, *)
(* the worker that made it and the number of that call, and the third test *)
(* of IsValid (a block carries its own checksum) always holds of a block   *)
(* that NewBlock just made.                                                *)
(***************************************************************************)
EXTENDS Integers, FiniteSets

CONSTANTS
    Node,           \* peers
    Worker,         \* goroutines that write to a ledger
    Home,           \* the node a worker runs on
    Durable,        \* nodes whose store is a DiskStore
    Bucket, Key, Value,
    Entries,        \* the maps Add is called with
    Root, NoHash,   \* hash and previous hash of the genesis block
    MaxCalls,       \* bound: writes per worker
    MaxRestarts     \* bound: restarts in a behaviour

VARIABLES
    chain,      \* node -> the last block, all that a store keeps for its readers
    net,        \* messages published: the sender and the block
    pc,         \* worker -> the next step of its call
    draft,      \* worker -> the map its call hands to writeData
    block,      \* worker -> newBlock of writeData
    calls,      \* worker -> writes begun
    restarts,   \* restarts so far
    stored      \* history: every block a node has ever stored

vars == <<chain, net, pc, draft, block, calls, restarts, stored>>

-----------------------------------------------------------------------------
(* Data *)

Contents == UNION {[K -> Value] : K \in SUBSET Key}
Storage == UNION {[B -> Contents] : B \in SUBSET Bucket}
Empty == [b \in {} |-> b]

Hash == Worker \X (1..MaxCalls)

ASSUME LedgerAssumption ==
    /\ Home \in [Worker -> Node]
    /\ Durable \subseteq Node
    /\ Entries \subseteq Contents \ {Empty}
    /\ Root \notin Worker \X Nat
    /\ MaxCalls \in Nat
    /\ MaxRestarts \in Nat

Block == [index: Nat, storage: Storage, hash: Hash \cup {Root},
          prev: Hash \cup {Root, NoHash}]

Genesis == [index |-> 0, storage |-> Empty, hash |-> Root, prev |-> NoHash]

NewBlock(old, s, h) ==
    [index |-> old.index + 1, storage |-> s, hash |-> h, prev |-> old.hash]

IsValid(new, old) ==
    /\ new.index = old.index + 1
    /\ new.prev = old.hash

InBucket(s, b) == IF b \in DOMAIN s THEN s[b] ELSE Empty

Merged(old, entries) ==
    [k \in DOMAIN old \cup DOMAIN entries |->
        IF k \in DOMAIN entries THEN entries[k] ELSE old[k]]

Added(s, b, entries) ==
    [bb \in DOMAIN s \cup {b} |->
        IF bb = b THEN Merged(InBucket(s, b), entries) ELSE s[bb]]

Deleted(s, b, k) ==
    [bb \in DOMAIN s |->
        IF bb = b THEN [kk \in DOMAIN s[bb] \ {k} |-> s[bb][kk]] ELSE s[bb]]

(* mutated BucketDeleted: the bucket is left in the storage, set to nil     *)
BucketNil(s, b) == [bb \in DOMAIN s |-> IF bb = b THEN NoHash ELSE s[bb]]

BucketDeleted(s, b) == [bb \in DOMAIN s \ {b} |-> s[bb]]

-----------------------------------------------------------------------------
(* The specification *)

Init ==
    /\ chain = [n \in Node |-> Genesis]
    /\ net = {}
    /\ pc = [w \in Worker |-> "idle"]
    /\ draft = [w \in Worker |-> Empty]
    /\ block = [w \in Worker |-> Genesis]
    /\ calls = [w \in Worker |-> 0]
    /\ restarts = 0
    /\ stored = {Genesis}

Last(w) == chain[Home[w]]

(* The locked half of Add, Delete and DeleteBucket: s is computed from the  *)
(* storage of the last block.                                              *)
Snapshot(w, s) ==
    /\ pc[w] = "idle"
    /\ calls[w] < MaxCalls
    /\ calls' = [calls EXCEPT ![w] = @ + 1]
    /\ draft' = [draft EXCEPT ![w] = s]
    /\ pc' = [pc EXCEPT ![w] = "make"]
    /\ UNCHANGED <<chain, net, block, restarts, stored>>

Add(w, b, entries) == Snapshot(w, Added(Last(w).storage, b, entries))

Delete(w, b, k) == Snapshot(w, Deleted(Last(w).storage, b, k))

DeleteBucket(w, b) == Snapshot(w, BucketDeleted(Last(w).storage, b))

(* writeData, first read of the last block. *)
Make(w) ==
    /\ pc[w] = "make"
    /\ block' = [block EXCEPT ![w] = NewBlock(Last(w), draft[w], <<w, calls[w]>>)]
    /\ pc' = [pc EXCEPT ![w] = "validate"]
    /\ UNCHANGED <<chain, net, draft, calls, restarts, stored>>

(* writeData, second read: a block that lost the race is not stored. *)
Validate(w) ==
    /\ pc[w] = "validate"
    /\ pc' = [pc EXCEPT ![w] = IF IsValid(block[w], Last(w)) THEN "store" ELSE "publish"]
    /\ UNCHANGED <<chain, net, draft, block, calls, restarts, stored>>

StoreBlock(w, b) ==
    /\ pc[w] = "store"
    /\ chain' = [chain EXCEPT ![Home[w]] = b]
    /\ stored' = stored \cup {b}
    /\ pc' = [pc EXCEPT ![w] = "publish"]
    /\ UNCHANGED <<net, draft, block, calls, restarts>>

(* mutated Store: the block is moved onto the last one, but keeps its index *)
StoreRehung(w) == StoreBlock(w, [block[w] EXCEPT !.prev = Last(w).hash])

(* mutated Store: the index is counted up once more                         *)
StoreCounted(w) == StoreBlock(w, [block[w] EXCEPT !.index = @ + 1])

(* writeData, the only step under the lock: nothing is checked again. *)
Store(w) == StoreBlock(w, block[w])

(* mutated Published: writeData sends its own block, stored or not *)
PublishedOwn(w) == block[w]

Published(w) == Last(w)

(* writeData, third read: the last block, whosever it is, is published. *)
Publish(w) ==
    /\ pc[w] = "publish"
    /\ net' = net \cup {[from |-> Home[w], block |-> Published(w)]}
    /\ pc' = [pc EXCEPT ![w] = "idle"]
    /\ draft' = [draft EXCEPT ![w] = Empty]
    /\ block' = [block EXCEPT ![w] = Genesis]
    /\ UNCHANGED <<chain, calls, restarts, stored>>

WriteData(w) == Make(w) \/ Validate(w) \/ Store(w) \/ Publish(w)

(* A tick of the Syncronizer of a node. *)
Syncronize(n) ==
    /\ net' = net \cup {[from |-> n, block |-> chain[n]]}
    /\ UNCHANGED <<chain, pc, draft, block, calls, restarts, stored>>

(* mutated Newer: only the direct successor is accepted *)
NewerByOne(b, old) == b.index = old.index + 1

(* mutated Newer: a block of the same index replaces the last one *)
NewerOrEqual(b, old) == b.index >= old.index

Newer(b, old) == b.index > old.index

(* The node handles a message of another node. *)
Update(n, m) ==
    /\ m.from # n
    /\ Newer(m.block, chain[n])
    /\ chain' = [chain EXCEPT ![n] = m.block]
    /\ UNCHANGED <<net, pc, draft, block, calls, restarts, stored>>

(* The process dies and New runs again: a MemoryStore starts from a genesis *)
(* block, a DiskStore from the block it had; calls in progress are gone.    *)
Restart(n) ==
    /\ restarts < MaxRestarts
    /\ restarts' = restarts + 1
    /\ chain' = IF n \in Durable THEN chain ELSE [chain EXCEPT ![n] = Genesis]
    /\ pc' = [w \in Worker |-> IF Home[w] = n THEN "idle" ELSE pc[w]]
    /\ draft' = [w \in Worker |-> IF Home[w] = n THEN Empty ELSE draft[w]]
    /\ block' = [w \in Worker |-> IF Home[w] = n THEN Genesis ELSE block[w]]
    /\ UNCHANGED <<net, calls, stored>>

Call(w) ==
    \/ \E b \in Bucket, entries \in Entries : Add(w, b, entries)
    \/ \E b \in Bucket, k \in Key : Delete(w, b, k)
    \/ \E b \in Bucket : DeleteBucket(w, b)

Next ==
    \/ \E w \in Worker : Call(w) \/ WriteData(w)
    \/ \E n \in Node : Syncronize(n) \/ Restart(n)
    \/ \E n \in Node, m \in net : Update(n, m)

Spec == Init /\ [][Next]_vars

(* A call that has begun runs on, and what a node's Syncronizer keeps       *)
(* resending (its last block) reaches every other node in the end; an older *)
(* message may be lost for good.                                           *)
Gossip(n, m) ==
    \/ /\ [from |-> m, block |-> chain[m]] \notin net
       /\ chain[m].index > chain[n].index
       /\ Syncronize(m)
    \/ /\ [from |-> m, block |-> chain[m]] \in net
       /\ Update(n, [from |-> m, block |-> chain[m]])

Fairness ==
    /\ \A w \in Worker : WF_vars(WriteData(w))
    /\ \A n, m \in Node : WF_vars(Gossip(n, m))

FairSpec == Spec /\ Fairness
-----------------------------------------------------------------------------
(* Properties *)

(* The variables hold what the declarations above say.                      *)
TypeOK ==
    /\ chain \in [Node -> Block]
    /\ net \subseteq [from: Node, block: Block]
    /\ pc \in [Worker -> {"idle", "make", "validate", "store", "publish"}]
    /\ draft \in [Worker -> Storage]
    /\ block \in [Worker -> Block]
    /\ calls \in [Worker -> 0..MaxCalls]
    /\ restarts \in 0..MaxRestarts
    /\ stored \subseteq Block

(* Nobody ever hears of a block that did not win its race: although         *)
(* writeData publishes after giving the lock back, and publishes also when  *)
(* its own block was refused, every block that is published or held was     *)
(* stored by the worker that made it.                                       *)
NothingUnstoredIsSeen ==
    /\ \A m \in net : m.block \in stored
    /\ \A n \in Node : chain[n] \in stored

(* The blocks ever stored form one tree rooted at genesis: the block a      *)
(* stored block was made on was itself stored, with the index just below,   *)
(* however writeData's three unlocked reads interleave with other writers.  *)
Grounded ==
    \A b \in stored \ {Genesis} : \E p \in stored : IsValid(b, p)

(* Indices are earned: no node's index exceeds the number of writes that    *)
(* were stored anywhere, whatever gossip, races and restarts do.  It is     *)
(* what makes "a higher index" in Update mean "more writes went into it".   *)
IndexCountsWrites ==
    \A n \in Node : chain[n].index < Cardinality(stored)

Tree == INSTANCE BlockTree WITH tree <- stored, head <- chain

(* The ledger implements the tree of blocks of BlockTree: each step moves   *)
(* at most one head, to a fresh child of a stored block, to a strictly      *)
(* higher stored block, or, at a restart, back to genesis.                  *)
ImplementsTree == Tree!Spec

(* Once the writes stop, the Syncronizers bring every node to one index,    *)
(* also when nodes restart from genesis or stored lower blocks in between.  *)
IndicesAgree == <>[](\A n, m \in Node : chain[n].index = chain[m].index)
=============================================================================
