---------------------------- MODULE LedgerProofs ----------------------------
(***************************************************************************)
(* Proofs about Ledger: type correctness, the safety properties of its     *)
(* runs, and that it implements the tree of blocks of BlockTree, for every *)
(* set of nodes, workers, keys and values and every bound.                 *)
(***************************************************************************)
EXTENDS DNS, FiniteSetTheorems, TLAPS

-----------------------------------------------------------------------------
(* Operators on storages *)

(* A function into a set, on part of another set, is in the union that      *)
(* Contents and Storage are.                                               *)
LEMMA PartialFunction ==
    ASSUME NEW D, NEW R, NEW f, f = [x \in DOMAIN f |-> f[x]],
           DOMAIN f \subseteq D, \A x \in DOMAIN f : f[x] \in R
    PROVE  f \in UNION {[E -> R] : E \in SUBSET D}
<1>1. f \in [DOMAIN f -> R]
  OBVIOUS
<1>2. QED
  BY <1>1

(* What is in that union is a function on part of D into R.                 *)
LEMMA PartialFunctionElim ==
    ASSUME NEW D, NEW R, NEW f \in UNION {[E -> R] : E \in SUBSET D}
    PROVE  /\ f = [x \in DOMAIN f |-> f[x]]
           /\ DOMAIN f \subseteq D
           /\ \A x \in DOMAIN f : f[x] \in R
<1>1. PICK E \in SUBSET D : f \in [E -> R]
  OBVIOUS
<1>2. QED
  BY <1>1

(* The empty map is a storage and the contents of a bucket.                 *)
LEMMA EmptyType == Empty \in Storage /\ Empty \in Contents
<1>1. Empty = [x \in DOMAIN Empty |-> Empty[x]] /\ DOMAIN Empty = {}
  BY DEF Empty
<1>2. Empty \in UNION {[E -> Contents] : E \in SUBSET Bucket}
  BY <1>1, PartialFunction
<1>3. Empty \in UNION {[E -> Value] : E \in SUBSET Key}
  BY <1>1, PartialFunction
<1>4. QED
  BY <1>2, <1>3 DEF Storage, Contents

(* The merge of Add is the contents of a bucket.                            *)
LEMMA MergedType ==
    ASSUME NEW old \in Contents, NEW entries \in Contents
    PROVE  Merged(old, entries) \in Contents
<1> DEFINE f == Merged(old, entries)
<1>1. DOMAIN entries \subseteq Key /\ \A k \in DOMAIN entries : entries[k] \in Value
  BY PartialFunctionElim DEF Contents
<1>2. DOMAIN old \subseteq Key /\ \A k \in DOMAIN old : old[k] \in Value
  BY PartialFunctionElim DEF Contents
<1>3. /\ f = [k \in DOMAIN f |-> f[k]]
      /\ DOMAIN f \subseteq Key
      /\ \A k \in DOMAIN f : f[k] \in Value
  BY <1>1, <1>2 DEF Merged
<1> HIDE DEF f
<1>4. f \in UNION {[E -> Value] : E \in SUBSET Key}
  BY <1>3, PartialFunction
<1>5. QED
  BY <1>4 DEF f, Contents

(* Add puts its entries over the bucket, which it creates when missing, and *)
(* leaves every other bucket alone.                                         *)
LEMMA AddedType ==
    ASSUME NEW s \in Storage, NEW b \in Bucket, NEW entries \in Contents
    PROVE  Added(s, b, entries) \in Storage
<1> DEFINE t == Added(s, b, entries)
<1>1. /\ DOMAIN s \subseteq Bucket
      /\ \A bb \in DOMAIN s : s[bb] \in Contents
  BY PartialFunctionElim DEF Storage
<1>2. InBucket(s, b) \in Contents
  BY <1>1, EmptyType DEF InBucket
<1>3. Merged(InBucket(s, b), entries) \in Contents
  BY <1>2, MergedType
<1>4. /\ t = [bb \in DOMAIN t |-> t[bb]]
      /\ DOMAIN t = DOMAIN s \cup {b}
      /\ \A bb \in DOMAIN t : t[bb] = IF bb = b THEN Merged(InBucket(s, b), entries) ELSE s[bb]
  BY DEF Added
<1>5. DOMAIN t \subseteq Bucket /\ \A bb \in DOMAIN t : t[bb] \in Contents
  BY <1>1, <1>3, <1>4
<1> HIDE DEF t
<1>6. t \in UNION {[E -> Contents] : E \in SUBSET Bucket}
  BY <1>4, <1>5, PartialFunction
<1>7. QED
  BY <1>6 DEF t, Storage

(* Delete keeps every bucket, one key less in the bucket it names.          *)
LEMMA DeletedType ==
    ASSUME NEW s \in Storage, NEW b, NEW k
    PROVE  Deleted(s, b, k) \in Storage
<1> DEFINE t == Deleted(s, b, k)
           c == [kk \in DOMAIN s[b] \ {k} |-> s[b][kk]]
<1>1. /\ DOMAIN s \subseteq Bucket
      /\ \A bb \in DOMAIN s : s[bb] \in Contents
  BY PartialFunctionElim DEF Storage
<1>2. ASSUME b \in DOMAIN s PROVE c \in Contents
  <2>1. DOMAIN s[b] \subseteq Key /\ \A kk \in DOMAIN s[b] : s[b][kk] \in Value
    BY <1>1, <1>2, PartialFunctionElim DEF Contents
  <2>2. /\ c = [kk \in DOMAIN c |-> c[kk]]
        /\ DOMAIN c \subseteq Key
        /\ \A kk \in DOMAIN c : c[kk] \in Value
    BY <2>1
  <2> HIDE DEF c
  <2>3. c \in UNION {[E -> Value] : E \in SUBSET Key}
    BY <2>2, PartialFunction
  <2>4. QED
    BY <2>3 DEF Contents
<1>3. /\ t = [bb \in DOMAIN t |-> t[bb]]
      /\ DOMAIN t = DOMAIN s
      /\ \A bb \in DOMAIN t : t[bb] = IF bb = b THEN c ELSE s[bb]
  BY DEF Deleted
<1> HIDE DEF t, c
<1>4. DOMAIN t \subseteq Bucket /\ \A bb \in DOMAIN t : t[bb] \in Contents
  BY <1>1, <1>2, <1>3
<1>5. t \in UNION {[E -> Contents] : E \in SUBSET Bucket}
  BY <1>3, <1>4, PartialFunction
<1>6. QED
  BY <1>5 DEF t, Storage

(* What DeleteBucket makes of a storage is a storage.                       *)
LEMMA BucketDeletedType ==
    ASSUME NEW s \in Storage, NEW b
    PROVE  BucketDeleted(s, b) \in Storage
<1> DEFINE t == BucketDeleted(s, b)
<1>1. /\ DOMAIN s \subseteq Bucket
      /\ \A bb \in DOMAIN s : s[bb] \in Contents
  BY PartialFunctionElim DEF Storage
<1>2. /\ t = [bb \in DOMAIN t |-> t[bb]]
      /\ DOMAIN t \subseteq Bucket
      /\ \A bb \in DOMAIN t : t[bb] \in Contents
  BY <1>1 DEF BucketDeleted
<1> HIDE DEF t
<1>3. t \in UNION {[E -> Contents] : E \in SUBSET Bucket}
  BY <1>2, PartialFunction
<1>4. QED
  BY <1>3 DEF t, Storage
-----------------------------------------------------------------------------
(* The inductive invariant *)

(* A call that has copied the storage and not yet stored its block owns the *)
(* hash its block will have.                                               *)
Pending == {"make", "validate", "store"}

HashesTaken ==
    /\ \A b \in stored, w \in Worker, k \in Nat : b.hash = <<w, k>> => k <= calls[w]
    /\ \A w \in Worker : pc[w] \in Pending =>
          /\ calls[w] \in 1..MaxCalls
          /\ \A b \in stored : b.hash # <<w, calls[w]>>

(* The block of a call is a child of a stored block from the moment it is   *)
(* made, and stays one although the last block may change.                  *)
MadeOnStored ==
    \A w \in Worker : pc[w] \in {"validate", "store"} =>
        /\ block[w].hash = <<w, calls[w]>>
        /\ \E p \in stored : IsValid(block[w], p)

Counted ==
    /\ IsFiniteSet(stored)
    /\ \A b \in stored : b.index < Cardinality(stored)

IInv ==
    /\ TypeOK
    /\ Genesis \in stored
    /\ NothingUnstoredIsSeen
    /\ Grounded
    /\ HashesTaken
    /\ MadeOnStored
    /\ Counted

(* The genesis block is a block.                                            *)
LEMMA GenesisType == Genesis \in Block
BY EmptyType DEF Genesis, Block

(* What a worker reads of its node is a block.                              *)
LEMMA LastType ==
    ASSUME TypeOK, NEW w \in Worker
    PROVE  Home[w] \in Node /\ Last(w) \in Block /\ Last(w).storage \in Storage
BY LedgerAssumption DEF TypeOK, Last, Block

(* A call begins with a well-formed draft, whichever of the three it is.    *)
LEMMA CallIsSnapshot ==
    ASSUME TypeOK, NEW w \in Worker, Call(w)
    PROVE  \E s \in Storage : Snapshot(w, s)
<1> DEFINE last == Last(w).storage
<1>1. last \in Storage
  BY LastType
<1> HIDE DEF last
<1>2. CASE \E b \in Bucket, e \in Entries : Add(w, b, e)
  <2>1. PICK b \in Bucket, e \in Entries : Add(w, b, e)
    BY <1>2
  <2>2. e \in Contents
    BY LedgerAssumption
  <2>3. Added(last, b, e) \in Storage
    BY <1>1, <2>2, AddedType
  <2>4. QED
    BY <2>1, <2>3 DEF Add, last
<1>3. CASE \E b \in Bucket, k \in Key : Delete(w, b, k)
  <2>1. PICK b \in Bucket, k \in Key : Delete(w, b, k)
    BY <1>3
  <2>2. Deleted(last, b, k) \in Storage
    BY <1>1, DeletedType
  <2>3. QED
    BY <2>1, <2>2 DEF Delete, last
<1>4. CASE \E b \in Bucket : DeleteBucket(w, b)
  <2>1. PICK b \in Bucket : DeleteBucket(w, b)
    BY <1>4
  <2>2. BucketDeleted(last, b) \in Storage
    BY <1>1, BucketDeletedType
  <2>3. QED
    BY <2>1, <2>2 DEF DeleteBucket, last
<1>5. QED
  BY <1>2, <1>3, <1>4 DEF Call

(* The inductive invariant holds at the start.                              *)
LEMMA InitInvariant == Init => IInv
<1> SUFFICES ASSUME Init PROVE IInv
  OBVIOUS
<1>1. TypeOK
  BY GenesisType, EmptyType, LedgerAssumption DEF Init, TypeOK
<1>2. Genesis \in stored /\ NothingUnstoredIsSeen /\ Grounded
  BY DEF Init, NothingUnstoredIsSeen, Grounded
<1>3. HashesTaken
  BY LedgerAssumption DEF Init, HashesTaken, Genesis, Pending
<1>4. MadeOnStored
  BY DEF Init, MadeOnStored
<1>5. Counted
  <2>1. IsFiniteSet({Genesis}) /\ Cardinality({Genesis}) = 1
    BY FS_Singleton
  <2>2. QED
    BY <2>1 DEF Init, Counted, Genesis
<1>6. QED
  BY <1>1, <1>2, <1>3, <1>4, <1>5 DEF IInv

(* Storing the block of a call: what each conjunct of the invariant needs.  *)
LEMMA StoreInvariant ==
    ASSUME IInv, NEW w \in Worker, Store(w)
    PROVE  IInv'
<1> USE DEF Store, StoreBlock
<1> DEFINE b == block[w]
<1>0. /\ TypeOK /\ Genesis \in stored /\ NothingUnstoredIsSeen
      /\ Grounded /\ HashesTaken /\ MadeOnStored /\ Counted
      /\ stored' = stored \cup {b}
      /\ pc[w] = "store"
  BY DEF IInv
<1>1. b \in Block /\ Home[w] \in Node
  BY <1>0, LedgerAssumption DEF TypeOK
<1>2. TypeOK'
  BY <1>0, <1>1 DEF TypeOK
<1>3. Genesis \in stored'
  BY <1>0
<1>4. NothingUnstoredIsSeen'
  BY <1>0, <1>1 DEF NothingUnstoredIsSeen, TypeOK
<1>5. PICK p \in stored : IsValid(b, p)
  BY <1>0 DEF MadeOnStored
<1>6. Grounded'
  BY <1>0, <1>5 DEF Grounded
<1>7. b.hash = <<w, calls[w]>> /\ b \notin stored
  BY <1>0 DEF MadeOnStored, HashesTaken, Pending
<1>8. HashesTaken'
  <2>1. ASSUME NEW c \in stored', NEW u \in Worker, NEW k \in Nat, c.hash = <<u, k>>
        PROVE  k <= calls'[u]
    <3>1. CASE c \in stored
      BY <1>0, <2>1, <3>1 DEF HashesTaken
    <3>2. CASE c = b
      <4>1. u = w /\ k = calls[w]
        BY <1>7, <2>1, <3>2
      <4>2. QED
        BY <4>1
    <3>3. QED
      BY <1>0, <3>1, <3>2
  <2>2. ASSUME NEW u \in Worker, pc'[u] \in Pending
        PROVE  /\ calls'[u] \in 1..MaxCalls
               /\ \A c \in stored' : c.hash # <<u, calls'[u]>>
    <3>1. u # w /\ pc[u] \in Pending
      BY <1>0, <2>2 DEF TypeOK, Pending
    <3>2. b.hash # <<u, calls[u]>>
      BY <1>7, <3>1
    <3>3. QED
      BY <1>0, <3>1, <3>2 DEF HashesTaken
  <2>3. QED
    BY <2>1, <2>2 DEF HashesTaken
<1>9. MadeOnStored'
  BY <1>0 DEF MadeOnStored, TypeOK
<1>10. Counted'
  <2>1. /\ IsFiniteSet(stored')
        /\ Cardinality(stored') = Cardinality(stored) + 1
    BY <1>0, <1>7, FS_AddElement DEF Counted
  <2>2. Cardinality(stored) \in Nat
    BY <1>0, FS_CardinalityType DEF Counted
  <2>3. \A c \in stored \cup {b} : c.index \in Nat
    BY <1>0, <1>1 DEF TypeOK, Block
  <2>4. b.index = p.index + 1 /\ p.index < Cardinality(stored)
    BY <1>0, <1>5 DEF IsValid, Counted
  <2>5. ASSUME NEW c \in stored' PROVE c.index < Cardinality(stored')
    BY <1>0, <2>1, <2>2, <2>3, <2>4, <2>5 DEF Counted
  <2>6. QED
    BY <2>1, <2>5 DEF Counted
<1>11. QED
  BY <1>2, <1>3, <1>4, <1>6, <1>8, <1>9, <1>10 DEF IInv

(* A call copies the storage of the last block; whatever it makes of it is  *)
(* only a draft.                                                            *)
LEMMA SnapshotInvariant ==
    ASSUME IInv, NEW w \in Worker, NEW s \in Storage, Snapshot(w, s)
    PROVE  IInv'
<1> USE DEF Snapshot
<1>0. /\ TypeOK /\ Genesis \in stored /\ NothingUnstoredIsSeen
      /\ Grounded /\ HashesTaken /\ MadeOnStored /\ Counted
  BY DEF IInv
<1>1. (Genesis \in stored)' /\ Grounded' /\ Counted'
  BY <1>0 DEF Grounded, Counted
<1>2. calls[w] + 1 \in 1..MaxCalls
  BY <1>0, LedgerAssumption DEF TypeOK
<1>3. TypeOK'
  BY <1>0, <1>2, LedgerAssumption DEF TypeOK
<1>4. NothingUnstoredIsSeen'
  BY <1>0 DEF NothingUnstoredIsSeen
<1>5. HashesTaken'
  <2>1. /\ calls \in [Worker -> 0..MaxCalls]
        /\ calls' = [calls EXCEPT ![w] = calls[w] + 1]
        /\ pc' = [pc EXCEPT ![w] = "make"]
        /\ pc \in [Worker -> {"idle", "make", "validate", "store", "publish"}]
        /\ stored' = stored
    BY <1>0 DEF TypeOK
  <2>2. ASSUME NEW b \in stored', NEW u \in Worker, NEW k \in Nat, b.hash = <<u, k>>
        PROVE  k <= calls'[u]
    <3>1. k <= calls[u]
      BY <1>0, <2>1, <2>2 DEF HashesTaken
    <3>2. calls[u] \in Nat /\ (calls'[u] = calls[u] \/ calls'[u] = calls[u] + 1)
      BY <2>1, LedgerAssumption
    <3>3. QED
      BY <3>1, <3>2
  <2>3. ASSUME NEW u \in Worker, pc'[u] \in Pending
        PROVE  /\ calls'[u] \in 1..MaxCalls
               /\ \A b \in stored' : b.hash # <<u, calls'[u]>>
    <3>1. CASE u = w
      <4>1. calls'[u] = calls[w] + 1 /\ calls[w] \in Nat
        BY <2>1, <3>1, LedgerAssumption
      <4>2. \A b \in stored : b.hash # <<w, calls[w] + 1>>
        BY <1>0, <4>1 DEF HashesTaken
      <4>3. QED
        BY <1>2, <2>1, <3>1, <4>1, <4>2
    <3>2. CASE u # w
      BY <1>0, <2>1, <2>3, <3>2 DEF HashesTaken
    <3>3. QED
      BY <3>1, <3>2
  <2>4. QED
    BY <2>2, <2>3 DEF HashesTaken
<1>6. MadeOnStored'
  BY <1>0 DEF MadeOnStored, TypeOK
<1>7. QED
  BY <1>1, <1>3, <1>4, <1>5, <1>6 DEF IInv

(* Every other step leaves stored as it is.                                 *)
LEMMA StepInvariant == IInv /\ [Next]_vars => IInv'
<1> SUFFICES ASSUME IInv, [Next]_vars PROVE IInv'
  OBVIOUS
<1>0. /\ TypeOK /\ Genesis \in stored /\ NothingUnstoredIsSeen
      /\ Grounded /\ HashesTaken /\ MadeOnStored /\ Counted
  BY DEF IInv
<1>1. ASSUME stored' = stored PROVE (Genesis \in stored)' /\ Grounded' /\ Counted'
  BY <1>0, <1>1 DEF Grounded, Counted
<1>2. ASSUME NEW w \in Worker, Call(w) PROVE IInv'
  BY <1>0, <1>2, CallIsSnapshot, SnapshotInvariant
<1>3. ASSUME NEW w \in Worker, Make(w) PROVE IInv'
  <2> USE <1>3 DEF Make
  <2>1. /\ Last(w) \in Block /\ Last(w) \in stored
        /\ calls[w] \in 1..MaxCalls /\ draft[w] \in Storage
    BY <1>0, LastType DEF TypeOK, NothingUnstoredIsSeen, Last, HashesTaken, Pending
  <2> DEFINE b == NewBlock(Last(w), draft[w], <<w, calls[w]>>)
  <2>2. b \in Block /\ IsValid(b, Last(w)) /\ b.hash = <<w, calls[w]>>
    BY <2>1 DEF NewBlock, Block, Hash, IsValid
  <2> HIDE DEF b
  <2>3. block' = [block EXCEPT ![w] = b] /\ pc' = [pc EXCEPT ![w] = "validate"]
    BY DEF b
  <2>4. TypeOK'
    BY <1>0, <2>2, <2>3 DEF TypeOK
  <2>5. NothingUnstoredIsSeen'
    BY <1>0 DEF NothingUnstoredIsSeen
  <2>6. HashesTaken'
    BY <1>0, <2>3 DEF HashesTaken, Pending, TypeOK
  <2>7. MadeOnStored'
    <3>1. ASSUME NEW u \in Worker, pc'[u] \in {"validate", "store"}
          PROVE  /\ block'[u].hash = <<u, calls'[u]>>
                 /\ \E p \in stored' : IsValid(block'[u], p)
      <4>1. CASE u = w
        <5>1. block'[u] = b /\ stored' = stored /\ calls' = calls
          BY <1>0, <2>3, <4>1 DEF TypeOK
        <5>2. IsValid(block'[u], Last(w)) /\ block'[u].hash = <<u, calls'[u]>>
          BY <2>2, <4>1, <5>1
        <5>3. QED
          BY <2>1, <5>1, <5>2
      <4>2. CASE u # w
        <5>1. block'[u] = block[u] /\ pc'[u] = pc[u] /\ stored' = stored /\ calls' = calls
          BY <1>0, <2>3, <4>2 DEF TypeOK
        <5>2. QED
          BY <1>0, <3>1, <5>1 DEF MadeOnStored
      <4>3. QED
        BY <4>1, <4>2
    <3>2. QED
      BY <3>1 DEF MadeOnStored
  <2>8. QED
    BY <1>1, <2>4, <2>5, <2>6, <2>7 DEF IInv
<1>4. ASSUME NEW w \in Worker, Validate(w) PROVE IInv'
  <2> USE <1>4 DEF Validate
  <2>1. pc' = [pc EXCEPT ![w] = "store"] \/ pc' = [pc EXCEPT ![w] = "publish"]
    OBVIOUS
  <2>2. TypeOK'
    BY <1>0, <2>1 DEF TypeOK
  <2>3. NothingUnstoredIsSeen'
    BY <1>0 DEF NothingUnstoredIsSeen
  <2>4. HashesTaken'
    BY <1>0, <2>1 DEF HashesTaken, Pending, TypeOK
  <2>5. MadeOnStored'
    BY <1>0, <2>1 DEF MadeOnStored, TypeOK
  <2>6. QED
    BY <1>1, <2>2, <2>3, <2>4, <2>5 DEF IInv
<1>5. ASSUME NEW w \in Worker, Store(w) PROVE IInv'
  BY <1>5, StoreInvariant
<1>6. ASSUME NEW w \in Worker, Publish(w) PROVE IInv'
  <2> USE <1>6 DEF Publish
  <2>1. Home[w] \in Node /\ Last(w) \in Block /\ Last(w) \in stored
    BY <1>0, LastType DEF NothingUnstoredIsSeen, Last
  <2>2. TypeOK'
    BY <1>0, <2>1, EmptyType, GenesisType DEF TypeOK, Published
  <2>3. NothingUnstoredIsSeen'
    BY <1>0, <2>1 DEF NothingUnstoredIsSeen, Published
  <2>4. HashesTaken'
    BY <1>0 DEF HashesTaken, Pending, TypeOK
  <2>5. MadeOnStored'
    BY <1>0 DEF MadeOnStored, TypeOK
  <2>6. QED
    BY <1>1, <2>2, <2>3, <2>4, <2>5 DEF IInv
<1>7. ASSUME NEW n \in Node, Syncronize(n) PROVE IInv'
  <2> USE <1>7 DEF Syncronize
  <2>1. TypeOK'
    BY <1>0 DEF TypeOK
  <2>2. NothingUnstoredIsSeen'
    BY <1>0 DEF NothingUnstoredIsSeen
  <2>3. HashesTaken' /\ MadeOnStored'
    BY <1>0 DEF HashesTaken, MadeOnStored
  <2>4. QED
    BY <1>1, <2>1, <2>2, <2>3 DEF IInv
<1>8. ASSUME NEW n \in Node, Restart(n) PROVE IInv'
  <2> USE <1>8 DEF Restart
  <2>1. TypeOK'
    BY <1>0, EmptyType, GenesisType, LedgerAssumption DEF TypeOK
  <2>2. NothingUnstoredIsSeen'
    BY <1>0 DEF NothingUnstoredIsSeen, TypeOK
  <2>3. HashesTaken'
    BY <1>0 DEF HashesTaken, Pending
  <2>4. MadeOnStored'
    BY <1>0 DEF MadeOnStored
  <2>5. QED
    BY <1>1, <2>1, <2>2, <2>3, <2>4 DEF IInv
<1>9. ASSUME NEW n \in Node, NEW m \in net, Update(n, m) PROVE IInv'
  <2> USE <1>9 DEF Update
  <2>1. m.block \in Block /\ m.block \in stored
    BY <1>0 DEF TypeOK, NothingUnstoredIsSeen
  <2>2. TypeOK'
    BY <1>0, <2>1 DEF TypeOK
  <2>3. NothingUnstoredIsSeen'
    BY <1>0, <2>1 DEF NothingUnstoredIsSeen, TypeOK
  <2>4. HashesTaken' /\ MadeOnStored'
    BY <1>0 DEF HashesTaken, MadeOnStored
  <2>5. QED
    BY <1>1, <2>2, <2>3, <2>4 DEF IInv
<1>10. CASE UNCHANGED vars
  BY <1>0, <1>10 DEF IInv, vars, TypeOK, NothingUnstoredIsSeen, Grounded, HashesTaken,
                     MadeOnStored, Counted
<1>11. QED
  BY <1>2, <1>3, <1>4, <1>5, <1>6, <1>7, <1>8, <1>9, <1>10 DEF Next, WriteData

(* The inductive invariant holds in every reachable state.                  *)
THEOREM Invariance == Spec => []IInv
<1>1. Init => IInv
  BY InitInvariant
<1>2. IInv /\ [Next]_vars => IInv'
  BY StepInvariant
<1>3. QED
  BY <1>1, <1>2, PTL DEF Spec

-----------------------------------------------------------------------------
(* The properties of the runs *)

(* The variables of the ledger always have their types.                     *)
THEOREM TypeCorrect == Spec => []TypeOK
<1>1. IInv => TypeOK
  BY DEF IInv
<1>2. QED
  BY <1>1, Invariance, PTL

(* What is published or held was stored by the worker that made it.         *)
THEOREM OnlyStoredIsSeen == Spec => []NothingUnstoredIsSeen
<1>1. IInv => NothingUnstoredIsSeen
  BY DEF IInv
<1>2. QED
  BY <1>1, Invariance, PTL

(* Every stored block but genesis is a child of a stored block.             *)
THEOREM AlwaysGrounded == Spec => []Grounded
<1>1. IInv => Grounded
  BY DEF IInv
<1>2. QED
  BY <1>1, Invariance, PTL

(* A node's index is below the number of blocks ever stored.                *)
THEOREM IndexBound == Spec => []IndexCountsWrites
<1>1. IInv => IndexCountsWrites
  BY DEF IInv, IndexCountsWrites, NothingUnstoredIsSeen, Counted
<1>2. QED
  BY <1>1, Invariance, PTL

(* Each step of the ledger is one of the tree of blocks, or leaves it alone. *)
LEMMA TreeStep == IInv /\ [Next]_vars => [Tree!Next]_(Tree!treeVars)
<1> SUFFICES ASSUME IInv, [Next]_vars PROVE [Tree!Next]_(Tree!treeVars)
  OBVIOUS
<1>0. TypeOK /\ NothingUnstoredIsSeen /\ HashesTaken /\ MadeOnStored
  BY DEF IInv
<1>1. ASSUME NEW w \in Worker, Store(w) PROVE Tree!Next
  <2> USE <1>1 DEF Store, StoreBlock
  <2>1. Home[w] \in Node /\ block[w] \in Block
    BY <1>0, LedgerAssumption DEF TypeOK
  <2>2. /\ block[w].hash = <<w, calls[w]>> /\ calls[w] \in 1..MaxCalls
        /\ \A b \in stored : b.hash # <<w, calls[w]>>
    BY <1>0 DEF MadeOnStored, HashesTaken, Pending
  <2>3. PICK p \in stored : IsValid(block[w], p)
    BY <1>0 DEF MadeOnStored
  <2>4. /\ block[w].storage \in Storage /\ block[w].hash \in Hash
        /\ block[w] = Tree!Child(p, block[w].storage, block[w].hash)
    BY <2>1, <2>2, <2>3 DEF Block, Hash, IsValid, Tree!Child
  <2>5. Tree!Fresh(block[w].hash)
    BY <2>2 DEF Tree!Fresh
  <2>6. Tree!Write(Home[w])
    BY <2>3, <2>4, <2>5 DEF Tree!Write
  <2>7. QED
    BY <2>1, <2>6 DEF Tree!Next
<1>2. ASSUME NEW n \in Node, NEW m \in net, Update(n, m) PROVE Tree!Next
  BY <1>0, <1>2 DEF Update, Newer, NothingUnstoredIsSeen, Tree!Next, Tree!Adopt
<1>3. ASSUME NEW n \in Node, Restart(n) PROVE [Tree!Next]_(Tree!treeVars)
  BY <1>3 DEF Restart, Tree!Next, Tree!Reset, Tree!treeVars, Genesis, Tree!Genesis
<1>4. ASSUME NEW w \in Worker, Call(w) PROVE UNCHANGED Tree!treeVars
  BY <1>0, <1>4, CallIsSnapshot DEF Snapshot, Tree!treeVars
<1>5. ASSUME NEW w \in Worker, Make(w) \/ Validate(w) \/ Publish(w)
      PROVE UNCHANGED Tree!treeVars
  BY <1>5 DEF Make, Validate, Publish, Tree!treeVars
<1>6. ASSUME NEW n \in Node, Syncronize(n) PROVE UNCHANGED Tree!treeVars
  BY <1>6 DEF Syncronize, Tree!treeVars
<1>7. CASE UNCHANGED vars
  BY <1>7 DEF vars, Tree!treeVars
<1>8. QED
  BY <1>1, <1>2, <1>3, <1>4, <1>5, <1>6, <1>7 DEF Next, WriteData

LEMMA TreeInit == Init => Tree!Init
BY DEF Init, Tree!Init, Genesis, Tree!Genesis

(* The ledger implements the tree of blocks.                                *)
THEOREM Implementation == Spec => ImplementsTree
BY TreeInit, TreeStep, Invariance, PTL DEF Spec, ImplementsTree, Tree!Spec

-----------------------------------------------------------------------------
(* Under the announcing loops and the resolvers *)

(* A loop that is about to write has something to write.                    *)
DueWrites ==
    /\ task \in Tasks
    /\ \A w \in Worker : due[w] => Kind(w) # "none"

AnnounceInv == IInv /\ DueWrites

LEMMA AnnounceInitially == AnnounceInit => AnnounceInv
BY InitInvariant DEF AnnounceInit, AnnounceInv, DueWrites

(* The call of a tick is one of the ledger's, with what the loop is for.    *)
LEMMA WriteIsSnapshot ==
    ASSUME AnnounceInv, NEW w \in Worker, Write(w)
    PROVE  \E s \in Storage : Snapshot(w, s)
<1> DEFINE last == Last(w).storage
           t == task[w]
<1>1. last \in Storage
  BY LastType DEF AnnounceInv, IInv
<1>2. /\ t.bucket \in Bucket /\ t.key \in Key /\ t.value \in Value
      /\ Kind(w) \in {"update", "persist", "deleteKey", "deleteBucket"}
  BY AnnounceAssumption DEF AnnounceInv, DueWrites, TaskType, Kind, Write
<1> HIDE DEF last
<1>3. CASE Kind(w) \in {"update", "persist"}
  <2>1. Add(w, t.bucket, [k \in {t.key} |-> t.value])
    BY <1>3 DEF Write
  <2>2. [k \in {t.key} |-> t.value] \in Contents
    <3>1. [k \in {t.key} |-> t.value] \in [{t.key} -> Value] /\ {t.key} \in SUBSET Key
      BY <1>2
    <3> QED
      BY <3>1 DEF Contents
  <2>3. Added(last, t.bucket, [k \in {t.key} |-> t.value]) \in Storage
    BY <1>1, <1>2, <2>2, AddedType
  <2> QED
    BY <2>1, <2>3 DEF Add, last
<1>4. CASE Kind(w) = "deleteKey"
  <2>1. Delete(w, t.bucket, t.key)
    BY <1>4 DEF Write
  <2>2. Deleted(last, t.bucket, t.key) \in Storage
    BY <1>1, <1>2, DeletedType
  <2> QED
    BY <2>1, <2>2 DEF Delete, last
<1>5. CASE Kind(w) = "deleteBucket"
  <2>1. DeleteBucket(w, t.bucket)
    BY <1>5 DEF Write
  <2>2. BucketDeleted(last, t.bucket) \in Storage
    BY <1>1, <1>2, BucketDeletedType
  <2> QED
    BY <2>1, <2>2 DEF DeleteBucket, last
<1> QED
  BY <1>2, <1>3, <1>4, <1>5

(* To the ledger, a step of the loops or of a resolver is a call, a step of *)
(* its own, a restart, or nothing.                                          *)
LEMMA LoopsOnLedger ==
    ASSUME AnnounceInv, [DNSNext]_<<allVars, dnsVars>>
    PROVE  [Next]_vars \/ \E w \in Worker, s \in Storage : Snapshot(w, s)
<1>1. ASSUME NEW w \in Worker, Loop(w) \/ Timeout(w)
      PROVE  UNCHANGED vars \/ \E s \in Storage : Snapshot(w, s)
  BY <1>1, WriteIsSnapshot DEF Loop, Tick, Cancel, Timeout
<1>2. ASSUME NEW w \in Worker, ClientPut(w) \/ ClientDelete(w) \/ ClientDeleteBucket(w)
      PROVE  UNCHANGED vars
  BY <1>2 DEF ClientPut, ClientDelete, ClientDeleteBucket, Ask
<1>3. CASE AnnounceStep
  BY <1>1, <1>2, <1>3 DEF AnnounceStep, Next
<1>4. ASSUME NEW n \in Restarting, RestartResolver(n) PROVE Next
  BY <1>4, AnnounceAssumption DEF RestartResolver, RestartLoops, Next
<1>5. CASE UNCHANGED allVars
  BY <1>5 DEF allVars
<1> QED
  BY <1>3, <1>4, <1>5 DEF DNSNext

LEMMA DueWritesStep ==
    ASSUME AnnounceInv, [DNSNext]_<<allVars, dnsVars>>
    PROVE  DueWrites'
<1>0. DueWrites
  BY DEF AnnounceInv
<1>1. ASSUME UNCHANGED <<task, due>> PROVE DueWrites'
  BY <1>0, <1>1 DEF DueWrites, Kind
<1>2. ASSUME NEW w \in Worker, Loop(w) PROVE DueWrites'
  <2>1. CASE Tick(w)
    <3>1. Kind(w) # "none"
      BY <2>1 DEF Tick, Aim
    <3>2. task' = task /\ due' = [due EXCEPT ![w] = TRUE]
      BY <2>1 DEF Tick
    <3>3. \A u \in Worker : due'[u] => due[u] \/ u = w
      BY <3>2
    <3> QED
      BY <1>0, <3>1, <3>2, <3>3 DEF DueWrites, Kind
  <2>2. CASE Write(w)
    <3>1. task' = task /\ due' = [due EXCEPT ![w] = FALSE]
      BY <2>2 DEF Write
    <3>2. \A u \in Worker : due'[u] => due[u]
      BY <3>1
    <3> QED
      BY <1>0, <3>1, <3>2 DEF DueWrites, Kind
  <2>3. CASE Cancel(w)
    BY <1>1, <2>3 DEF Cancel
  <2> QED
    BY <1>2, <2>1, <2>2, <2>3 DEF Loop
<1>3. CASE AnnounceStep
  BY <1>1, <1>2, <1>3
     DEF AnnounceStep, ClientPut, ClientDelete, ClientDeleteBucket, Ask, Timeout, loopVars
<1>4. ASSUME NEW n \in Restarting, RestartResolver(n) PROVE DueWrites'
  <2>1. task' = task /\ due' = [w \in Worker |-> due[w] /\ Home[w] # n]
    BY <1>4 DEF RestartResolver, RestartLoops
  <2>2. \A u \in Worker : due'[u] => due[u]
    BY <2>1
  <2> QED
    BY <1>0, <2>1, <2>2 DEF DueWrites, Kind
<1>5. CASE UNCHANGED allVars
  BY <1>1, <1>5 DEF allVars, loopVars
<1> QED
  BY <1>3, <1>4, <1>5 DEF DNSNext

(* With the loops and the resolvers running, whatever the worker and        *)
(* whenever its tick decides, the ledger keeps its inductive invariant.     *)
THEOREM AnnounceInvariance == DNSSpec => []AnnounceInv
<1>1. DNSInit => AnnounceInv
  BY AnnounceInitially DEF DNSInit
<1>2. AnnounceInv /\ [DNSNext]_<<allVars, dnsVars>> => AnnounceInv'
  BY LoopsOnLedger, DueWritesStep, StepInvariant, SnapshotInvariant DEF AnnounceInv
<1> QED
  BY <1>1, <1>2, PTL DEF DNSSpec

(* AnnounceUpdate, Persist, AnnounceDeleteBucket and                        *)
(* AnnounceDeleteBucketKey decide on one copy of the data and write on a    *)
(* later one.  Running over a shared ledger they still publish only what    *)
(* was stored, keep every block the child of a stored one, and never carry  *)
(* an index past the number of blocks ever made.                            *)
THEOREM AnnouncingKeepsLedger ==
    DNSSpec => [](NothingUnstoredIsSeen /\ Grounded /\ IndexCountsWrites)
<1>1. AnnounceInv => NothingUnstoredIsSeen /\ Grounded /\ IndexCountsWrites
  BY DEF AnnounceInv, IInv, IndexCountsWrites, NothingUnstoredIsSeen, Counted
<1> QED
  BY <1>1, AnnounceInvariance, PTL

(* The ledger implements the tree of blocks under the loops and the         *)
(* resolvers as well: a restart of the machine is a reset, and the tick, the *)
(* timeout and the request of a client leave the blocks alone.              *)
THEOREM AnnouncingImplementsTree == DNSSpec => ImplementsTree
<1>1. DNSInit => Tree!Init
  BY TreeInit DEF DNSInit, AnnounceInit
<1>2. AnnounceInv /\ [DNSNext]_<<allVars, dnsVars>> => [Tree!Next]_(Tree!treeVars)
  <2> SUFFICES ASSUME AnnounceInv, [DNSNext]_<<allVars, dnsVars>>
               PROVE  [Tree!Next]_(Tree!treeVars)
    OBVIOUS
  <2>1. CASE [Next]_vars
    BY <2>1, TreeStep DEF AnnounceInv
  <2>2. ASSUME NEW w \in Worker, NEW s \in Storage, Snapshot(w, s)
        PROVE  UNCHANGED Tree!treeVars
    BY <2>2 DEF Snapshot, Tree!treeVars
  <2> QED
    BY <2>1, <2>2, LoopsOnLedger
<1> QED
  BY <1>1, <1>2, AnnounceInvariance, PTL DEF DNSSpec, ImplementsTree, Tree!Spec
=============================================================================
