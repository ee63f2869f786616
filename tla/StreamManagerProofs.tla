------------------------ MODULE StreamManagerProofs ------------------------
(***************************************************************************)
(* Proofs about StreamManager, for any peers, streams, tags, callers and   *)
(* watermarks: its types, that connCount covers the cached streams, that   *)
(* calls of TrimOpenConns exclude each other and return only after a trim  *)
(* that ended since, that a trim collects no protected peer and leaves the *)
(* low watermark, and that the value of an entry is the sum of its tags.   *)
(***************************************************************************)
EXTENDS StreamManager, FiniteSetTheorems, WellFoundedInduction, TLAPS

(* What is counted: the streams that are still in the map made for them.    *)
CountsMapped == IsFiniteSet(mapped) /\ connCount = Cardinality(mapped)

(* A map holds one stream or none.                                          *)
LEMMA ConnsCount == ASSUME NEW m PROVE Cardinality(Conns(m)) \in Nat
<1>1. IsFiniteSet({m}) /\ Conns(m) \in SUBSET {m}
  BY FS_Singleton DEF Conns
<1>2. QED
  BY <1>1, FS_Subset, FS_CardinalityType

(* The entry made for a peer that is not tracked.                           *)
LEMMA NewEntryType == \A temp \in BOOLEAN : NewEntry(temp) \in Entry
BY DEF NewEntry, Entry

(* Storing an entry under a peer, and deleting one.                         *)
LEMMA PutType ==
    ASSUME peers \in [Tracked -> Entry], Tracked \subseteq Peer,
           NEW p \in Peer, NEW e \in Entry, peers' = Put(p, e)
    PROVE  /\ Tracked' = Tracked \cup {p} /\ peers' \in [Tracked' -> Entry]
           /\ \A q \in Tracked' : peers'[q] = IF q = p THEN e ELSE peers[q]
BY DEF Put, Tracked

(* Deleting an entry keeps the others.                                      *)
LEMMA RemoveType ==
    ASSUME peers \in [Tracked -> Entry], Tracked \subseteq Peer,
           NEW p, peers' = Remove(p)
    PROVE  /\ Tracked' = Tracked \ {p} /\ peers' \in [Tracked' -> Entry]
           /\ \A q \in Tracked' : peers'[q] = peers[q]
BY DEF Remove, Tracked

(* A change of tags keeps the rest of an entry.                             *)
LEMMA TaggedType ==
    ASSUME NEW e \in Entry, NEW tag \in Tag, NEW val \in Int
    PROVE  /\ Tagged(e, tag, val) \in Entry
           /\ Tagged(e, tag, val).temp = e.temp /\ Tagged(e, tag, val).conn = e.conn
<1>1. /\ [e.tags EXCEPT ![tag] = val] \in [Tag -> Int]
      /\ e.value + val - e.tags[tag] \in Int
  BY DEF Entry
<1>2. QED
  BY <1>1 DEF Tagged, Entry

(* And so does taking a tag away.                                           *)
LEMMA UntaggedType ==
    ASSUME NEW e \in Entry, NEW tag \in Tag
    PROVE  /\ Untagged(e, tag) \in Entry
           /\ Untagged(e, tag).temp = e.temp /\ Untagged(e, tag).conn = e.conn
<1>1. /\ [e.tags EXCEPT ![tag] = 0] \in [Tag -> Int]
      /\ e.value - e.tags[tag] \in Int
  BY DEF Entry
<1>2. QED
  BY <1>1 DEF Untagged, Entry

(* What an entry is after Connected.                                        *)
LEMMA ConnectingType ==
    ASSUME peers \in [Tracked -> Entry], NEW p \in Peer, NEW c \in Stream
    PROVE  /\ Connecting(p, c) \in Entry
           /\ ~ Connecting(p, c).temp /\ Connecting(p, c).conn = c
<1> DEFINE e == IF p \in Tracked THEN peers[p] ELSE NewEntry(FALSE)
<1>1. e \in Entry
  BY NewEntryType
<1>2. Connecting(p, c) = [e EXCEPT !.temp = FALSE, !.conn = c, !.old = @ /\ ~ e.temp]
  BY DEF Connecting
<1> HIDE DEF e
<1>3. QED
  BY <1>1, <1>2 DEF Entry

-----------------------------------------------------------------------------
(* The cache: what the manager's handlers do, whatever the trims do. *)

CacheOK ==
    /\ Tracked \subseteq Peer /\ peers \in [Tracked -> Entry]
    /\ mapped \subseteq used /\ used \subseteq Stream
    /\ TrackedHasItsStream /\ CountsMapped

(* Early tags make a temporary entry, which has no stream.                  *)
LEMMA CacheTag ==
    ASSUME CacheOK, NEW p \in Peer, NEW tag \in Tag, NEW val \in Val, TagPeer(p, tag, val)
    PROVE  CacheOK'
<1> DEFINE e == TagInfoFor(p)
<1>1. /\ e \in Entry
      /\ p \in Tracked => e = peers[p]
      /\ p \notin Tracked => e.temp /\ e.conn = None
  BY NewEntryType DEF TagInfoFor, CacheOK, NewEntry
<1>2. val \in Int
  BY StreamManagerAssumption
<1>3. peers' = Put(p, Tagged(e, tag, val))
  BY DEF TagPeer
<1>4. UNCHANGED <<mapped, used, connCount>>
  BY DEF TagPeer
<1> HIDE DEF e
<1>5. /\ Tracked' = Tracked \cup {p} /\ peers' \in [Tracked' -> Entry]
      /\ \A q \in Tracked' : peers'[q] = IF q = p THEN Tagged(e, tag, val) ELSE peers[q]
  BY <1>1, <1>2, <1>3, PutType, TaggedType DEF CacheOK
<1>6. TrackedHasItsStream'
  BY <1>1, <1>2, <1>4, <1>5, TaggedType DEF TrackedHasItsStream, CacheOK
<1>7. QED
  BY <1>4, <1>5, <1>6 DEF CacheOK, CountsMapped

(* The other changes of an entry leave its stream alone.                    *)
LEMMA CacheUntag ==
    ASSUME CacheOK, NEW p \in Peer, NEW tag \in Tag, UntagPeer(p, tag)
    PROVE  CacheOK'
<1>1. p \in Tracked /\ UNCHANGED <<mapped, used, connCount>>
  BY DEF UntagPeer
<1>2. peers \in [Tracked -> Entry]
  BY DEF CacheOK
<1> DEFINE e == Untagged(peers[p], tag)
<1>3. peers' = [peers EXCEPT ![p] = e]
  BY <1>1, <1>2 DEF UntagPeer
<1>4. e \in Entry /\ e.temp = peers[p].temp /\ e.conn = peers[p].conn
  BY <1>1, <1>2, UntaggedType
<1> HIDE DEF e
<1>5. /\ Tracked' = Tracked /\ peers' \in [Tracked -> Entry]
      /\ \A q \in Tracked : peers'[q] = IF q = p THEN e ELSE peers[q]
  BY <1>1, <1>2, <1>3, <1>4 DEF Tracked
<1>6. TrackedHasItsStream'
  BY <1>1, <1>4, <1>5 DEF TrackedHasItsStream, CacheOK
<1>7. QED
  BY <1>1, <1>5, <1>6 DEF CacheOK, CountsMapped

(* So does the end of its grace period.                                     *)
LEMMA CacheAge ==
    ASSUME CacheOK, NEW p \in Peer, Age(p)
    PROVE  CacheOK'
<1>1. p \in Tracked /\ UNCHANGED <<mapped, used, connCount>>
  BY DEF Age
<1>2. peers \in [Tracked -> Entry]
  BY DEF CacheOK
<1> DEFINE e == [peers[p] EXCEPT !.old = TRUE]
<1>3. peers' = [peers EXCEPT ![p] = e]
  BY <1>1, <1>2 DEF Age
<1>4. e \in Entry /\ e.temp = peers[p].temp /\ e.conn = peers[p].conn
  BY <1>1, <1>2 DEF Entry
<1> HIDE DEF e
<1>5. /\ Tracked' = Tracked /\ peers' \in [Tracked -> Entry]
      /\ \A q \in Tracked : peers'[q] = IF q = p THEN e ELSE peers[q]
  BY <1>1, <1>2, <1>3, <1>4 DEF Tracked
<1>6. TrackedHasItsStream'
  BY <1>1, <1>4, <1>5 DEF TrackedHasItsStream, CacheOK
<1>7. QED
  BY <1>1, <1>5, <1>6 DEF CacheOK, CountsMapped

(* A stream is mapped once only, for it is handed to Connected once only.   *)
LEMMA CacheConnected ==
    ASSUME CacheOK, NEW c \in Stream, Connected(c)
    PROVE  CacheOK'
<1> DEFINE p == RemotePeer[c]
<1>1. /\ p \in Peer /\ c \notin mapped
      /\ used' = used \cup {c} /\ mapped' = mapped \cup {c} /\ connCount' = connCount + 1
      /\ peers' = Put(p, Connecting(p, c))
  BY StreamManagerAssumption DEF Connected, CacheOK
<1> HIDE DEF p
<1>2. /\ Connecting(p, c) \in Entry
      /\ ~ Connecting(p, c).temp /\ Connecting(p, c).conn = c
  BY <1>1, ConnectingType DEF CacheOK
<1>3. /\ Tracked' = Tracked \cup {p} /\ peers' \in [Tracked' -> Entry]
      /\ \A q \in Tracked' : peers'[q] = IF q = p THEN Connecting(p, c) ELSE peers[q]
  BY <1>1, <1>2, PutType DEF CacheOK
<1>4. TrackedHasItsStream'
  BY <1>1, <1>2, <1>3 DEF TrackedHasItsStream, CacheOK, p
<1>5. CountsMapped'
  BY <1>1, FS_AddElement DEF CacheOK, CountsMapped
<1>6. QED
  BY <1>1, <1>3, <1>4, <1>5 DEF CacheOK

(* Only the peer of a stream can have it, so nothing else loses its stream. *)
LEMMA CacheDisconnected ==
    ASSUME CacheOK, NEW c \in Stream, Disconnected(c)
    PROVE  CacheOK'
<1> DEFINE p == RemotePeer[c]
<1>1. /\ p \in Peer /\ p \in Tracked /\ peers[p].conn = c /\ c \in mapped
      /\ UNCHANGED used /\ mapped' = mapped \ {c} /\ connCount' = connCount - 1
      /\ peers' = Remove(p)
  BY StreamManagerAssumption DEF Disconnected, IsTracked, Conns
<1>2. /\ Tracked' = Tracked \ {p} /\ peers' \in [Tracked' -> Entry]
      /\ \A q \in Tracked' : peers'[q] = peers[q]
  BY <1>1, RemoveType DEF CacheOK
<1>3. TrackedHasItsStream'
  BY <1>1, <1>2 DEF TrackedHasItsStream, CacheOK
<1>4. CountsMapped'
  BY <1>1, FS_RemoveElement DEF CacheOK, CountsMapped
<1>5. QED
  BY <1>1, <1>2, <1>3, <1>4 DEF CacheOK

(* A trim may delete any entry, the streams of others stay where they are.  *)
LEMMA CacheSelect ==
    ASSUME CacheOK, NEW p, peers' = Remove(p), UNCHANGED <<mapped, used, connCount>>
    PROVE  CacheOK'
<1>1. /\ Tracked' = Tracked \ {p} /\ peers' \in [Tracked' -> Entry]
      /\ \A q \in Tracked' : peers'[q] = peers[q]
  BY RemoveType DEF CacheOK
<1>2. QED
  BY <1>1 DEF CacheOK, TrackedHasItsStream, CountsMapped

(* Of a trim only the delete of a temporary entry touches the cache.        *)
LEMMA CacheTrim ==
    ASSUME CacheOK, NEW t \in Trimmer, TrimStep(t)
    PROVE  CacheOK'
<1>1. CASE UNCHANGED entryVars
  BY <1>1 DEF entryVars, CacheOK, TrackedHasItsStream, CountsMapped, Tracked
<1>2. ASSUME NEW c, Select(t, c) PROVE CacheOK'
  BY <1>1, <1>2, CacheSelect DEF Select, entryVars
<1>3. QED
  BY <1>1, <1>2 DEF TrimStep, Check, Scanned, Selected, Trimmed, Scan, Close

(* Every step keeps the cache.                                              *)
LEMMA CacheStep == CacheOK /\ [Next]_vars => CacheOK'
<1> SUFFICES ASSUME CacheOK, [Next]_vars PROVE CacheOK'
  OBVIOUS
<1>1. CASE UNCHANGED entryVars
  BY <1>1 DEF entryVars, CacheOK, TrackedHasItsStream, CountsMapped, Tracked
<1>2. ASSUME NEW p \in Peer, Age(p) PROVE CacheOK'
  BY <1>2, CacheAge
<1>3. ASSUME NEW p \in Peer, NEW tag \in Tag, UntagPeer(p, tag) PROVE CacheOK'
  BY <1>3, CacheUntag
<1>4. ASSUME NEW p \in Peer, NEW tag \in Tag, Protect(p, tag) \/ Unprotect(p, tag) PROVE CacheOK'
  BY <1>1, <1>4 DEF Protect, Unprotect
<1>5. ASSUME NEW p \in Peer, NEW tag \in Tag, NEW val \in Val, TagPeer(p, tag, val) PROVE CacheOK'
  BY <1>5, CacheTag
<1>6. ASSUME NEW c \in Stream, Connected(c) PROVE CacheOK'
  BY <1>6, CacheConnected
<1>7. ASSUME NEW c \in Stream, Disconnected(c) PROVE CacheOK'
  BY <1>7, CacheDisconnected
<1>8. CASE BackgroundTick
  BY <1>1, <1>8 DEF BackgroundTick
<1>9. ASSUME NEW t \in Caller, TrimOpenConns(t) \/ LockTrim(t) \/ UnlockTrim(t) PROVE CacheOK'
  BY <1>1, <1>9 DEF TrimOpenConns, LockTrim, UnlockTrim
<1>10. ASSUME NEW t \in Trimmer, TrimStep(t) PROVE CacheOK'
  BY <1>10, CacheTrim
<1>11. CASE UNCHANGED vars
  BY <1>1, <1>11 DEF vars
<1>12. QED
  BY <1>2, <1>3, <1>4, <1>5, <1>6, <1>7, <1>8, <1>9, <1>10, <1>11 DEF Next

LEMMA CacheInit == Init => CacheOK
<1> SUFFICES ASSUME Init PROVE CacheOK
  OBVIOUS
<1>1. Tracked = {} /\ peers \in [Tracked -> Entry]
  BY DEF Init, Tracked
<1>2. QED
  BY <1>1, FS_EmptySet DEF Init, CacheOK, TrackedHasItsStream, CountsMapped

(* So the cache is in order from the start on.                              *)
LEMMA CacheInvariant == Spec => []CacheOK
BY CacheInit, CacheStep, PTL DEF Spec

(* HasStream never finds a connected peer with nothing to offer, nor with   *)
(* another peer's stream.                                                   *)
THEOREM StreamTracked == Spec => []TrackedHasItsStream
<1>1. CacheOK => TrackedHasItsStream
  BY DEF CacheOK
<1>2. QED
  BY <1>1, CacheInvariant, PTL

(* Different connected peers have different mapped streams.                 *)
LEMMA CacheCovers == CacheOK => CountCoversConnected
<1> SUFFICES ASSUME CacheOK PROVE CountCoversConnected
  OBVIOUS
<1> DEFINE f == [p \in ConnectedPeers |-> peers[p].conn]
<1>1. \A p \in ConnectedPeers : f[p] \in mapped /\ RemotePeer[f[p]] = p
  BY DEF CacheOK, TrackedHasItsStream, ConnectedPeers
<1>2. f \in Injection(ConnectedPeers, mapped)
  BY <1>1 DEF Injection, IsInjective
<1>3. QED
  BY <1>2, FS_Injection DEF CacheOK, CountsMapped, CountCoversConnected

(* The watermarks never overlook a cached stream: connCount counts the      *)
(* mapped ones.                                                             *)
THEOREM CountCovers == Spec => []CountCoversConnected
BY CacheCovers, CacheInvariant, PTL

-----------------------------------------------------------------------------
(* The types, with the locals of the trims. *)

PcState == {"idle", "lock", "check", "scan", "select", "close", "unlock"}

TrimOK ==
    /\ closed \subseteq Stream /\ protected \in [Peer -> SUBSET Tag]
    /\ trimCount \in Nat /\ trimMutex \in Caller \cup {None}
    /\ pc \in [Trimmer -> PcState]
    /\ trim \in [Trimmer -> Locals]

(* A trim that goes on to its next step.                                    *)
LEMMA GotoType ==
    ASSUME TrimOK, NEW t \in Trimmer, NEW to \in PcState, Goto(t, to)
    PROVE  /\ pc' \in [Trimmer -> PcState]
           /\ \A u \in Trimmer : pc'[u] = IF u = t THEN to ELSE pc[u]
BY DEF TrimOK, Goto

(* New locals for one trim leave those of the others.                       *)
LEMMA LocalsType ==
    ASSUME TrimOK, NEW t \in Trimmer, NEW l \in Locals, trim' = [trim EXCEPT ![t] = l]
    PROVE  /\ trim' \in [Trimmer -> Locals]
           /\ \A u \in Trimmer : trim'[u] = IF u = t THEN l ELSE trim[u]
BY DEF TrimOK

(* What each step of a trim makes of its locals.                            *)
LEMMA NewLocalsType ==
    ASSUME TrimOK, CacheOK, NEW t \in Trimmer
    PROVE  /\ NoLocals \in Locals
           /\ [trim[t] EXCEPT !.count = trimCount] \in Locals
           /\ [trim[t] EXCEPT !.todo = Peer] \in Locals
           /\ [trim[t] EXCEPT !.target = trim[t].n - LowWater] \in Locals
           /\ [NoLocals EXCEPT !.count = trim[t].count] \in Locals
           /\ \A c : [trim[t] EXCEPT !.cands = @ \ {c}] \in Locals
           /\ \A c : [trim[t] EXCEPT !.selected = @ \ {c}] \in Locals
<1>1. trim[t] \in Locals /\ trimCount \in Nat /\ LowWater \in Nat
  BY StreamManagerAssumption DEF TrimOK
<1>2. NoLocals \in Locals
  BY DEF NoLocals, Locals
<1>3. trim[t].n - LowWater \in Int
  BY <1>1 DEF Locals
<1>4. QED
  BY <1>1, <1>2, <1>3 DEF Locals

(* A visited peer's entry, if it is a candidate, is copied and counted.     *)
LEMMA ScanLocals ==
    ASSUME TrimOK, CacheOK, NEW t \in Trimmer, NEW p \in Peer
    PROVE  Visited(trim[t], p) \in Locals
<1>1. trim[t] \in Locals
  BY DEF TrimOK
<1>2. Candidate(p) => peers[p] \in Entry
  BY DEF Candidate, CacheOK
<1>3. Cardinality(Conns(peers[p].conn)) \in Nat
  BY ConnsCount
<1> DEFINE todo == trim[t].todo \ {p}
           cands == IF Candidate(p) THEN trim[t].cands \cup {<<p, peers[p]>>} ELSE trim[t].cands
           n == IF Candidate(p) THEN trim[t].n + Cardinality(Conns(peers[p].conn)) ELSE trim[t].n
<1>4. todo \in SUBSET Peer /\ cands \in SUBSET (Peer \X Entry) /\ n \in Nat
  BY <1>1, <1>2, <1>3 DEF Locals
<1> HIDE DEF todo, cands, n
<1>5. [trim[t] EXCEPT !.todo = todo, !.cands = cands, !.n = n] \in Locals
  BY <1>1, <1>4 DEF Locals
<1>6. QED
  BY <1>5 DEF todo, cands, n, Visited

(* The streams of a selected copy join those to close.                      *)
LEMMA SelectLocals ==
    ASSUME TrimOK, CacheOK, NEW t \in Trimmer, NEW c \in trim[t].cands
    PROVE  Taken(trim[t], c) \in Locals
<1>1. trim[t] \in Locals
  BY DEF TrimOK
<1>2. Conns(c[2].conn) \subseteq Stream
  BY DEF Conns, CacheOK
<1>3. Cardinality(Conns(c[2].conn)) \in Nat
  BY ConnsCount
<1> DEFINE selected == trim[t].selected \cup Conns(c[2].conn)
           target == trim[t].target - Cardinality(Conns(c[2].conn))
           cands == trim[t].cands \ {c}
<1>4. selected \in SUBSET Stream /\ target \in Int /\ cands \in SUBSET (Peer \X Entry)
  BY <1>1, <1>2, <1>3 DEF Locals
<1> HIDE DEF selected, target, cands
<1>5. [trim[t] EXCEPT !.cands = cands, !.selected = selected, !.target = target] \in Locals
  BY <1>1, <1>4 DEF Locals
<1>6. QED
  BY <1>5 DEF selected, target, cands, Taken

(* Every step keeps the types of the trims.                                 *)
LEMMA TrimTypeStep == TrimOK /\ CacheOK /\ [Next]_vars => TrimOK'
<1> SUFFICES ASSUME TrimOK, CacheOK, [Next]_vars PROVE TrimOK'
  OBVIOUS
<1> DEFINE PcOK == pc' \in [Trimmer -> PcState]
           LocalsOK == trim' \in [Trimmer -> Locals]
           RestOK == /\ closed' \subseteq Stream /\ protected' \in [Peer -> SUBSET Tag]
                     /\ trimCount' \in Nat /\ trimMutex' \in Caller \cup {None}
<1>1. ASSUME PcOK, LocalsOK, RestOK PROVE TrimOK'
  BY <1>1 DEF TrimOK
<1>2. (pc' = pc => PcOK) /\ (trim' = trim => LocalsOK)
      /\ (UNCHANGED <<closed, protected, trimCount, trimMutex>> => RestOK)
  BY DEF TrimOK
<1>3. ASSUME NEW t \in Trimmer, NEW to \in PcState, Goto(t, to) PROVE PcOK
  BY <1>3, GotoType
<1>4. ASSUME NEW t \in Trimmer, NEW l \in Locals, trim' = [trim EXCEPT ![t] = l] PROVE LocalsOK
  BY <1>4, LocalsType
<1> HIDE DEF PcOK, LocalsOK
<1>5. ASSUME NEW t \in Trimmer, TrimStep(t) PROVE TrimOK'
  <2> USE DEF PcState
  <2>1. CASE Check(t)
    <3>1. PcOK
      BY <1>3, <2>1 DEF Check
    <3>2. LocalsOK
      BY <1>2, <1>4, <2>1, NewLocalsType DEF Check
    <3>3. QED
      BY <1>1, <1>2, <2>1, <3>1, <3>2 DEF Check
  <2>2. ASSUME NEW p \in Peer, Scan(t, p) PROVE TrimOK'
    <3>1. LocalsOK
      BY <1>4, <2>2, ScanLocals DEF Scan
    <3>2. QED
      BY <1>1, <1>2, <2>2, <3>1 DEF Scan
  <2>3. CASE Scanned(t)
    <3>1. PcOK
      BY <1>3, <2>3 DEF Scanned
    <3>2. LocalsOK
      BY <1>4, <2>3, NewLocalsType DEF Scanned
    <3>3. QED
      BY <1>1, <1>2, <2>3, <3>1, <3>2 DEF Scanned
  <2>4. ASSUME NEW c \in trim[t].cands, Select(t, c) PROVE TrimOK'
    <3>1. /\ [trim[t] EXCEPT !.cands = @ \ {c}] \in Locals
          /\ Taken(trim[t], c) \in Locals
      BY NewLocalsType, SelectLocals
    <3>2. \/ trim' = [trim EXCEPT ![t] = [trim[t] EXCEPT !.cands = @ \ {c}]]
          \/ trim' = [trim EXCEPT ![t] = Taken(trim[t], c)]
      BY <2>4 DEF Select, TrimOK
    <3>3. LocalsOK
      BY <1>4, <3>1, <3>2
    <3>4. QED
      BY <1>1, <1>2, <2>4, <3>3 DEF Select
  <2>5. CASE Selected(t)
    <3>1. PcOK
      BY <1>3, <2>5 DEF Selected
    <3>2. QED
      BY <1>1, <1>2, <2>5, <3>1 DEF Selected
  <2>6. ASSUME NEW c \in Stream, Close(t, c) PROVE TrimOK'
    <3>1. LocalsOK
      BY <1>4, <2>6, NewLocalsType DEF Close
    <3>2. RestOK
      BY <2>6 DEF Close, TrimOK
    <3>3. QED
      BY <1>1, <1>2, <2>6, <3>1, <3>2 DEF Close
  <2>7. CASE Trimmed(t)
    <3>1. PcOK
      BY <1>3, <2>7 DEF Trimmed
    <3>2. LocalsOK
      BY <1>4, <2>7, NewLocalsType DEF Trimmed
    <3>3. RestOK
      BY <2>7 DEF Trimmed, TrimOK
    <3>4. QED
      BY <1>1, <3>1, <3>2, <3>3
  <2>8. QED
    BY <1>5, <2>1, <2>2, <2>3, <2>4, <2>5, <2>6, <2>7 DEF TrimStep
<1>6. CASE BackgroundTick
  <2>1. Background \in Trimmer /\ "check" \in PcState
    BY DEF Trimmer, PcState
  <2>2. PcOK
    BY <1>3, <1>6, <2>1 DEF BackgroundTick
  <2>3. QED
    BY <1>1, <1>2, <1>6, <2>2 DEF BackgroundTick
<1>7. ASSUME NEW t \in Caller, TrimOpenConns(t) PROVE TrimOK'
  <2>1. t \in Trimmer /\ "lock" \in PcState
    BY DEF Trimmer, PcState
  <2>2. PcOK
    BY <1>3, <1>7, <2>1 DEF TrimOpenConns
  <2>3. [trim[t] EXCEPT !.count = trimCount] \in Locals
    BY <2>1, NewLocalsType
  <2>4. trim' = [trim EXCEPT ![t] = [trim[t] EXCEPT !.count = trimCount]]
    BY <1>7, <2>1 DEF TrimOpenConns, TrimOK
  <2>5. LocalsOK
    BY <1>4, <2>1, <2>3, <2>4
  <2>6. QED
    BY <1>1, <1>2, <1>7, <2>2, <2>5 DEF TrimOpenConns
<1>8. ASSUME NEW t \in Caller, LockTrim(t) PROVE TrimOK'
  <2>1. t \in Trimmer /\ {"check", "unlock"} \subseteq PcState
    BY DEF Trimmer, PcState
  <2>2. PcOK
    BY <1>3, <1>8, <2>1 DEF LockTrim
  <2>3. RestOK
    BY <1>8 DEF LockTrim, TrimOK
  <2>4. QED
    BY <1>1, <1>2, <1>8, <2>2, <2>3 DEF LockTrim
<1>9. ASSUME NEW t \in Caller, UnlockTrim(t) PROVE TrimOK'
  <2>1. t \in Trimmer /\ "idle" \in PcState /\ NoLocals \in Locals
    BY NewLocalsType DEF Trimmer, PcState
  <2>2. PcOK
    BY <1>3, <1>9, <2>1 DEF UnlockTrim
  <2>3. LocalsOK
    BY <1>4, <1>9, <2>1 DEF UnlockTrim
  <2>4. RestOK
    BY <1>9 DEF UnlockTrim, TrimOK
  <2>5. QED
    BY <1>1, <2>2, <2>3, <2>4
<1>10. ASSUME NEW p \in Peer, NEW tag \in Tag, Protect(p, tag) \/ Unprotect(p, tag) PROVE TrimOK'
  <2>1. RestOK
    BY <1>10 DEF Protect, Unprotect, trimVars, TrimOK
  <2>2. QED
    BY <1>1, <1>2, <1>10, <2>1 DEF Protect, Unprotect, trimVars
<1>11. CASE UNCHANGED <<closed, protected, trimVars>>
  BY <1>1, <1>2, <1>11 DEF trimVars
<1>12. QED
  BY <1>5, <1>6, <1>7, <1>8, <1>9, <1>10, <1>11
  DEF Next, Age, UntagPeer, TagPeer, Connected, Disconnected, vars

(* Every variable, and the locals of every trim, keep their types: no       *)
(* sequence of calls makes the counter negative or copies an entry of a     *)
(* peer that is not there.                                                  *)
THEOREM TypeCorrect == Spec => []TypeOK
<1>1. Init => TrimOK
  BY DEF Init, TrimOK, NoLocals, Locals, PcState
<1>2. TrimOK /\ CacheOK => TypeOK
  BY FS_CardinalityType DEF TrimOK, CacheOK, CountsMapped, TypeOK, PcState
<1>3. QED
  BY <1>1, <1>2, CacheInvariant, TrimTypeStep, PTL DEF Spec

-----------------------------------------------------------------------------
(* Trims and their mutex. *)

Holding(t) == pc[t] \notin {"idle", "lock"}

(* A caller that is past the lock holds the mutex; while it trims no other  *)
(* trim was counted since it was called, when it is done one was.           *)
MutexInv ==
    \A t \in Caller :
        /\ Holding(t) => trimMutex = t
        /\ trim[t].count <= trimCount
        /\ pc[t] = "unlock" => trim[t].count < trimCount
        /\ Holding(t) /\ pc[t] # "unlock" => trim[t].count = trimCount

(* The steps that leave the callers' locals, their places past the lock,    *)
(* the mutex and the count alone.                                           *)
LEMMA MutexKept ==
    ASSUME TrimOK, MutexInv, UNCHANGED <<trimCount, trimMutex>>,
           \A t \in Caller :
              /\ trim'[t].count = trim[t].count
              /\ pc'[t] # pc[t] => ~ Holding(t)' \/ (Holding(t) /\ {pc[t], pc'[t]} \cap {"unlock"} = {})
    PROVE  MutexInv'
BY DEF MutexInv, Holding, TrimOK, Trimmer, Locals

(* The steps that do not: through the lock, the end of a trim, the unlock.  *)
LEMMA MutexStep == TrimOK /\ CacheOK /\ MutexInv /\ [Next]_vars => MutexInv'
<1> SUFFICES ASSUME TrimOK, CacheOK, MutexInv, [Next]_vars PROVE MutexInv'
  OBVIOUS
<1>1. /\ Caller \subseteq Trimmer /\ Background \in Trimmer \ Caller /\ None \notin Caller
      /\ \A t \in Trimmer : trim[t] \in Locals /\ trim[t].count \in Nat
      /\ trimCount \in Nat
  BY StreamManagerAssumption DEF Trimmer, TrimOK, Locals
<1>2. ASSUME NEW t \in Trimmer, Check(t) PROVE MutexInv'
  <2>1. \A u \in Caller : trim'[u].count = trim[u].count
    BY <1>1, <1>2 DEF Check, TrimOK, Locals
  <2>2. pc[t] = "check" /\ \A u \in Trimmer : pc'[u] = IF u = t THEN pc'[t] ELSE pc[u]
    BY <1>2 DEF Check, Goto, TrimOK
  <2>3. pc'[t] \in {"close", "scan"}
    BY <1>2 DEF Check, Goto, TrimOK
  <2>4. QED
    BY <1>1, <1>2, <2>1, <2>2, <2>3, MutexKept DEF Check, Holding
<1>3. ASSUME NEW t \in Trimmer, NEW p \in Peer, Scan(t, p) PROVE MutexInv'
  <2>1. \A u \in Caller : trim'[u].count = trim[u].count
    BY <1>1, <1>3 DEF Scan, Visited, TrimOK, Locals
  <2>2. QED
    BY <1>3, <2>1, MutexKept DEF Scan
<1>4. ASSUME NEW t \in Trimmer, Scanned(t) PROVE MutexInv'
  <2>1. \A u \in Caller : trim'[u].count = trim[u].count
    BY <1>1, <1>4 DEF Scanned, TrimOK, Locals
  <2>2. pc[t] = "scan" /\ \A u \in Trimmer : pc'[u] = IF u = t THEN pc'[t] ELSE pc[u]
    BY <1>4 DEF Scanned, Goto, TrimOK
  <2>3. pc'[t] \in {"close", "select"}
    BY <1>4 DEF Scanned, Goto, TrimOK
  <2>4. QED
    BY <1>1, <1>4, <2>1, <2>2, <2>3, MutexKept DEF Scanned, Holding
<1>5. ASSUME NEW t \in Trimmer, NEW c \in trim[t].cands, Select(t, c) PROVE MutexInv'
  <2>1. \/ trim' = [trim EXCEPT ![t] = [trim[t] EXCEPT !.cands = @ \ {c}]]
        \/ trim' = [trim EXCEPT ![t] = Taken(trim[t], c)]
    BY <1>5 DEF Select, TrimOK
  <2>2. /\ [trim[t] EXCEPT !.cands = @ \ {c}].count = trim[t].count
        /\ Taken(trim[t], c).count = trim[t].count
    BY <1>1 DEF Taken, Locals
  <2>3. \A u \in Caller : trim'[u].count = trim[u].count
    BY <1>1, <2>1, <2>2 DEF TrimOK
  <2>4. QED
    BY <1>5, <2>3, MutexKept DEF Select
<1>6. ASSUME NEW t \in Trimmer, Selected(t) PROVE MutexInv'
  <2>1. pc[t] = "select" /\ \A u \in Trimmer : pc'[u] = IF u = t THEN "close" ELSE pc[u]
    BY <1>6 DEF Selected, Goto, TrimOK
  <2>2. QED
    BY <1>1, <1>6, <2>1, MutexKept DEF Selected, Holding
<1>7. ASSUME NEW t \in Trimmer, NEW c \in Stream, Close(t, c) PROVE MutexInv'
  <2>1. \A u \in Caller : trim'[u].count = trim[u].count
    BY <1>1, <1>7 DEF Close, TrimOK, Locals
  <2>2. QED
    BY <1>7, <2>1, MutexKept DEF Close
<1>8. ASSUME NEW t \in Trimmer, Trimmed(t) PROVE MutexInv'
  <2>1. \A u \in Trimmer : trim'[u].count = trim[u].count
    BY <1>1, <1>8 DEF Trimmed, NoLocals, TrimOK, Locals
  <2>2. pc[t] = "close" /\ trimMutex' = trimMutex
        /\ \A u \in Trimmer : pc'[u] = IF u = t THEN pc'[t] ELSE pc[u]
    BY <1>8 DEF Trimmed, Goto, TrimOK
  <2>3. CASE t = Background
    BY <1>1, <1>8, <2>1, <2>2, <2>3, MutexKept DEF Trimmed
  <2>4. CASE t \in Caller
    <3>1. trimCount' = trimCount + 1 /\ pc'[t] = "unlock"
      BY <1>1, <1>8, <2>4 DEF Trimmed, Goto, TrimOK
    <3>2. trimMutex = t /\ \A u \in Caller \ {t} : ~ Holding(u)
      BY <1>1, <2>2, <2>4 DEF MutexInv, Holding
    <3>3. QED
      BY <1>1, <2>1, <2>2, <2>4, <3>1, <3>2 DEF MutexInv, Holding
  <2>5. QED
    BY <2>3, <2>4 DEF Trimmer
<1>9. ASSUME NEW t \in Caller, TrimOpenConns(t) PROVE MutexInv'
  <2>1. \A u \in Caller : trim'[u].count = IF u = t THEN trimCount ELSE trim[u].count
    BY <1>1, <1>9 DEF TrimOpenConns, TrimOK, Locals
  <2>2. \A u \in Caller : pc'[u] = IF u = t THEN "lock" ELSE pc[u]
    BY <1>1, <1>9 DEF TrimOpenConns, Goto, TrimOK
  <2>3. UNCHANGED <<trimCount, trimMutex>>
    BY <1>9 DEF TrimOpenConns
  <2>4. QED
    BY <1>1, <2>1, <2>2, <2>3 DEF MutexInv, Holding
<1>10. ASSUME NEW t \in Caller, LockTrim(t) PROVE MutexInv'
  <2>1. trimMutex = None /\ trimMutex' = t /\ UNCHANGED <<trimCount, trim>>
    BY <1>10 DEF LockTrim, MutexFree
  <2>2. \A u \in Caller : ~ Holding(u)
    BY <1>1, <2>1 DEF MutexInv
  <2>3. \A u \in Caller :
           pc'[u] = IF u = t THEN (IF FirstSince(t) THEN "check" ELSE "unlock") ELSE pc[u]
    BY <1>1, <1>10 DEF LockTrim, Goto, TrimOK
  <2>4. QED
    BY <1>1, <2>1, <2>2, <2>3 DEF MutexInv, Holding, FirstSince
<1>11. ASSUME NEW t \in Caller, UnlockTrim(t) PROVE MutexInv'
  <2>1. \A u \in Caller : trim'[u].count = IF u = t THEN 0 ELSE trim[u].count
    BY <1>1, <1>11 DEF UnlockTrim, NoLocals, TrimOK, Locals
  <2>2. \A u \in Caller : pc'[u] = IF u = t THEN "idle" ELSE pc[u]
    BY <1>1, <1>11 DEF UnlockTrim, Goto, TrimOK
  <2>3. trimCount' = trimCount /\ \A u \in Caller \ {t} : ~ Holding(u)
    BY <1>1, <1>11 DEF UnlockTrim, MutexInv, Holding
  <2>4. QED
    BY <1>1, <2>1, <2>2, <2>3 DEF MutexInv, Holding
<1>12. CASE BackgroundTick
  <2>1. \A u \in Caller : pc'[u] = pc[u]
    BY <1>1, <1>12 DEF BackgroundTick, Goto, TrimOK
  <2>2. QED
    BY <1>12, <2>1, MutexKept DEF BackgroundTick
<1>13. CASE UNCHANGED trimVars
  BY <1>13, MutexKept DEF trimVars
<1>14. QED
  BY <1>2, <1>3, <1>4, <1>5, <1>6, <1>7, <1>8, <1>9, <1>10, <1>11, <1>12, <1>13
  DEF Next, TrimStep, Age, UntagPeer, TagPeer, Protect, Unprotect, Connected, Disconnected, vars

(* Together with the types it is an invariant.                              *)
LEMMA MutexInvariant == Spec => [](TrimOK /\ MutexInv)
<1>1. Init => TrimOK /\ MutexInv
  BY DEF Init, TrimOK, MutexInv, Holding, NoLocals, Locals, PcState, Trimmer
<1>2. QED
  BY <1>1, CacheInvariant, TrimTypeStep, MutexStep, PTL DEF Spec

(* Two calls of TrimOpenConns never trim at the same time, however many     *)
(* there are.                                                               *)
THEOREM CallersExclude == Spec => []OneCallerTrims
<1>1. MutexInv => OneCallerTrims
  BY DEF MutexInv, OneCallerTrims, Holding
<1>2. QED
  BY <1>1, MutexInvariant, PTL

(* A call of TrimOpenConns does not return before a trim has ended that was *)
(* not over when it was called.                                             *)
THEOREM TrimmedSince == Spec => []TrimmedSinceCalled
<1>1. MutexInv => TrimmedSinceCalled
  BY DEF MutexInv, TrimmedSinceCalled
<1>2. QED
  BY <1>1, MutexInvariant, PTL

-----------------------------------------------------------------------------
(* What a trim collects and what it takes. *)

(* A trim's step changes nothing of another trim.                           *)
LEMMA OwnStep ==
    ASSUME TrimOK, NEW t \in Trimmer,
           TrimStep(t) \/ TrimOpenConns(t) \/ LockTrim(t) \/ UnlockTrim(t)
                       \/ (t = Background /\ BackgroundTick),
           NEW u \in Trimmer \ {t}
    PROVE  pc'[u] = pc[u] /\ trim'[u] = trim[u]
BY DEF TrimStep, Check, Scan, Scanned, Select, Selected, Close, Trimmed, Goto, TrimOK,
       TrimOpenConns, LockTrim, UnlockTrim, BackgroundTick

(* A copied map holds at most one stream.                                   *)
LEMMA ConnsOne ==
    ASSUME NEW m
    PROVE  IsFiniteSet(Conns(m)) /\ Cardinality(Conns(m)) \in {0, 1}
<1>1. CASE m \in mapped
  <2>1. Conns(m) = {m}
    BY <1>1 DEF Conns
  <2>2. QED
    BY <2>1, FS_Singleton
<1>2. CASE m \notin mapped
  <2>1. Conns(m) = {}
    BY <1>2 DEF Conns
  <2>2. QED
    BY <2>1, FS_EmptySet
<1>3. QED
  BY <1>1, <1>2

(* Adding the streams of one copy adds at most their number.                *)
LEMMA TakenCount ==
    ASSUME NEW S, IsFiniteSet(S), NEW m
    PROVE  /\ IsFiniteSet(S \cup Conns(m))
           /\ Cardinality(S \cup Conns(m)) <= Cardinality(S) + Cardinality(Conns(m))
<1>1. CASE m \in mapped
  <2>1. Conns(m) = {m}
    BY <1>1 DEF Conns
  <2>2. Cardinality({m}) = 1
    BY FS_Singleton
  <2>3. QED
    BY <2>1, <2>2, FS_AddElement, FS_CardinalityType
<1>2. CASE m \notin mapped
  <2>1. S \cup Conns(m) = S /\ Conns(m) = {}
    BY <1>2 DEF Conns
  <2>2. QED
    BY <2>1, FS_EmptySet, FS_CardinalityType
<1>3. QED
  BY <1>1, <1>2

(* What one trim has at its place: nothing before it scans; while it scans, *)
(* unprotected candidates; then no more streams than it may take, with room *)
(* for its target as long as it selects.                                    *)
Collects(t) ==
    /\ pc[t] \in {"idle", "lock", "check"} => trim[t].cands = {}
    /\ pc[t] = "scan" => \A c \in trim[t].cands : protected[c[1]] = {}

Takes(t) ==
    /\ IsFiniteSet(trim[t].selected)
    /\ pc[t] \notin {"select", "close"} => trim[t].selected = {}
    /\ pc[t] = "select" =>
           /\ trim[t].target >= 0
           /\ Cardinality(trim[t].selected) + trim[t].target + LowWater <= trim[t].n
    /\ pc[t] = "close" /\ trim[t].selected # {} =>
           Cardinality(trim[t].selected) + LowWater <= trim[t].n

TakesInv == \A t \in Trimmer : Collects(t) /\ Takes(t)

(* Selecting keeps below the target, one stream at a time.                  *)
LEMMA TakesSelect ==
    ASSUME TrimOK, CacheOK, TakesInv, NEW t \in Trimmer, NEW c \in trim[t].cands, Select(t, c)
    PROVE  Collects(t)' /\ Takes(t)'
<1>1. trim[t] \in Locals /\ LowWater \in Nat /\ pc[t] = "select" /\ pc' = pc
      /\ trim[t].target > 0
  BY StreamManagerAssumption DEF TrimOK, Select, TargetReached, Locals
<1>2. Takes(t)
  BY DEF TakesInv
<1>3. CASE trim' = [trim EXCEPT ![t] = [trim[t] EXCEPT !.cands = @ \ {c}]]
  <2>1. trim'[t] = [trim[t] EXCEPT !.cands = @ \ {c}]
    BY <1>3 DEF TrimOK
  <2>2. trim'[t].selected = trim[t].selected /\ trim'[t].target = trim[t].target
        /\ trim'[t].n = trim[t].n
    BY <1>1, <2>1 DEF Locals
  <2>3. QED
    BY <1>1, <1>2, <2>2 DEF Collects, Takes
<1>4. CASE trim' = [trim EXCEPT ![t] = Taken(trim[t], c)]
  <2> DEFINE k == Cardinality(Conns(c[2].conn))
             S == trim[t].selected
  <2>1. trim'[t] = Taken(trim[t], c)
    BY <1>4 DEF TrimOK
  <2>2. trim'[t].selected = S \cup Conns(c[2].conn) /\ trim'[t].target = trim[t].target - k
        /\ trim'[t].n = trim[t].n
    BY <1>1, <2>1 DEF Taken, Locals
  <2>3. k \in {0, 1} /\ IsFiniteSet(S) /\ Cardinality(S) \in Nat
    BY <1>2, ConnsOne, FS_CardinalityType DEF Takes
  <2>4. IsFiniteSet(trim'[t].selected) /\ Cardinality(trim'[t].selected) \in Nat
        /\ Cardinality(trim'[t].selected) <= Cardinality(S) + k
    BY <2>2, <2>3, TakenCount, FS_CardinalityType
  <2>5. trim[t].target \in Int /\ trim[t].n \in Nat
    BY <1>1 DEF Locals
  <2>6. Cardinality(S) + trim[t].target + LowWater <= trim[t].n
    BY <1>1, <1>2 DEF Takes
  <2> HIDE DEF k, S
  <2>7. QED
    BY <1>1, <2>2, <2>3, <2>4, <2>5, <2>6 DEF Collects, Takes
<1>5. QED
  BY <1>3, <1>4 DEF Select, TrimOK

(* Closing only makes what is selected less.                                *)
LEMMA TakesClose ==
    ASSUME TrimOK, CacheOK, TakesInv, NEW t \in Trimmer, NEW c \in Stream, Close(t, c)
    PROVE  Collects(t)' /\ Takes(t)'
<1>1. trim[t] \in Locals /\ LowWater \in Nat /\ pc[t] = "close" /\ pc' = pc
      /\ c \in trim[t].selected
  BY StreamManagerAssumption DEF TrimOK, Close
<1>2. trim'[t].selected = trim[t].selected \ {c} /\ trim'[t].n = trim[t].n
  BY <1>1 DEF Close, TrimOK, Locals
<1>3. Takes(t)
  BY DEF TakesInv
<1>4. IsFiniteSet(trim[t].selected) /\ Cardinality(trim[t].selected) \in Nat
      /\ Cardinality(trim[t].selected) + LowWater <= trim[t].n /\ trim[t].n \in Nat
  BY <1>1, <1>3, FS_CardinalityType DEF Takes, Locals
<1>5. IsFiniteSet(trim'[t].selected)
      /\ Cardinality(trim'[t].selected) = Cardinality(trim[t].selected) - 1
  <2> DEFINE S == trim[t].selected
  <2>1. IsFiniteSet(S) /\ c \in S
    BY <1>1, <1>4
  <2> HIDE DEF S
  <2>2. IsFiniteSet(S \ {c}) /\ Cardinality(S \ {c}) = Cardinality(S) - 1
    BY <2>1, FS_RemoveElement
  <2>3. QED
    BY <1>2, <2>2 DEF S
<1>6. QED
  BY <1>1, <1>2, <1>4, <1>5 DEF Collects, Takes

(* Visiting a peer, while its protection cannot change.                     *)
LEMMA TakesScan ==
    ASSUME TrimOK, CacheOK, TakesInv, NEW t \in Trimmer, NEW p \in Peer, Scan(t, p)
    PROVE  Collects(t)' /\ Takes(t)'
<1>1. trim[t] \in Locals /\ pc[t] = "scan" /\ pc' = pc /\ protected' = protected
  BY DEF TrimOK, Scan, entryVars
<1>2. trim'[t] = Visited(trim[t], p)
  BY DEF TrimOK, Scan
<1>3. trim'[t].selected = trim[t].selected
      /\ trim'[t].cands = IF Candidate(p) THEN trim[t].cands \cup {<<p, peers[p]>>}
                          ELSE trim[t].cands
  BY <1>1, <1>2 DEF Visited, Locals
<1>4. Collects(t) /\ Takes(t)
  BY DEF TakesInv
<1>5. QED
  BY <1>1, <1>3, <1>4 DEF Collects, Takes, Candidate

(* Every step keeps it.                                                     *)
LEMMA TakesStep == TrimOK /\ CacheOK /\ TakesInv /\ [Next]_vars => TakesInv'
<1> SUFFICES ASSUME TrimOK, CacheOK, TakesInv, [Next]_vars PROVE TakesInv'
  OBVIOUS
<1>1. /\ Caller \subseteq Trimmer /\ Background \in Trimmer
      /\ LowWater \in Nat /\ trimCount \in Nat
      /\ \A t \in Trimmer : trim[t] \in Locals /\ Collects(t) /\ Takes(t)
  BY StreamManagerAssumption DEF Trimmer, TrimOK, TakesInv
<1>2. NoLocals.cands = {} /\ NoLocals.selected = {} /\ IsFiniteSet({})
  BY FS_EmptySet DEF NoLocals
<1>3. ASSUME NEW t \in Trimmer, protected' = protected, Collects(t)' /\ Takes(t)',
             \A u \in Trimmer \ {t} : pc'[u] = pc[u] /\ trim'[u] = trim[u]
      PROVE  TakesInv'
  BY <1>1, <1>3 DEF TakesInv, Collects, Takes
<1>4. ASSUME NEW t \in Trimmer, TrimStep(t) PROVE TakesInv'
  <2>1. protected' = protected
    BY <1>4 DEF TrimStep, Check, Scan, Scanned, Select, Selected, Close, Trimmed
  <2>2. CASE Check(t)
    <3>1. pc[t] = "check" /\ pc'[t] \in {"close", "scan"}
      BY <2>2 DEF Check, Goto, TrimOK
    <3>2. trim'[t].cands = trim[t].cands /\ trim'[t].selected = trim[t].selected
      BY <1>1, <2>2 DEF Check, TrimOK, Locals
    <3>3. QED
      BY <1>1, <1>3, <1>4, <2>1, <3>1, <3>2, OwnStep DEF Collects, Takes
  <2>3. ASSUME NEW p \in Peer, Scan(t, p) PROVE TakesInv'
    BY <1>3, <1>4, <2>1, <2>3, TakesScan, OwnStep
  <2>4. CASE Scanned(t)
    <3>1. pc[t] = "scan" /\ pc'[t] = IF trim[t].n < LowWater THEN "close" ELSE "select"
      BY <2>4 DEF Scanned, Goto, TrimOK
    <3>2. /\ trim'[t].selected = trim[t].selected /\ trim'[t].n = trim[t].n
          /\ trim'[t].target = trim[t].n - LowWater
      BY <1>1, <2>4 DEF Scanned, TrimOK, Locals
    <3>3. trim[t].selected = {} /\ Cardinality({}) = 0 /\ trim[t].n \in Nat
      BY <1>1, <3>1, FS_EmptySet DEF Takes, Locals
    <3>4. Collects(t)' /\ Takes(t)'
      BY <1>1, <1>2, <3>1, <3>2, <3>3 DEF Collects, Takes
    <3>5. QED
      BY <1>3, <1>4, <2>1, <3>4, OwnStep
  <2>5. ASSUME NEW c \in trim[t].cands, Select(t, c) PROVE TakesInv'
    BY <1>3, <1>4, <2>1, <2>5, TakesSelect, OwnStep
  <2>6. CASE Selected(t)
    <3>1. pc[t] = "select" /\ pc'[t] = "close" /\ trim' = trim
      BY <2>6 DEF Selected, Goto, TrimOK
    <3>2. IsFiniteSet(trim[t].selected) /\ Cardinality(trim[t].selected) \in Nat
          /\ trim[t].target \in Int /\ trim[t].n \in Nat
      BY <1>1, FS_CardinalityType DEF Takes, Locals
    <3>3. Collects(t)' /\ Takes(t)'
      BY <1>1, <3>1, <3>2 DEF Collects, Takes
    <3>4. QED
      BY <1>3, <1>4, <2>1, <3>3, OwnStep
  <2>7. ASSUME NEW c \in Stream, Close(t, c) PROVE TakesInv'
    BY <1>3, <1>4, <2>1, <2>7, TakesClose, OwnStep
  <2>8. CASE Trimmed(t)
    <3>1. pc'[t] \in {"idle", "unlock"}
      BY <2>8 DEF Trimmed, Goto, TrimOK
    <3>2. trim'[t].cands = {} /\ trim'[t].selected = {}
      BY <2>8 DEF Trimmed, TrimOK, NoLocals
    <3>3. QED
      BY <1>2, <1>3, <1>4, <2>1, <3>1, <3>2, OwnStep DEF Collects, Takes
  <2>9. QED
    BY <1>4, <2>2, <2>3, <2>4, <2>5, <2>6, <2>7, <2>8 DEF TrimStep
<1>5. CASE BackgroundTick
  <2>1. pc[Background] = "idle" /\ pc'[Background] = "check"
        /\ trim' = trim /\ protected' = protected
    BY <1>1, <1>5 DEF BackgroundTick, Goto, TrimOK
  <2>2. QED
    BY <1>1, <1>3, <1>5, <2>1, OwnStep DEF Collects, Takes
<1>6. ASSUME NEW t \in Caller, TrimOpenConns(t) PROVE TakesInv'
  <2>1. pc[t] = "idle" /\ pc'[t] = "lock" /\ protected' = protected
    BY <1>1, <1>6 DEF TrimOpenConns, Goto, TrimOK
  <2>2. trim'[t].cands = trim[t].cands /\ trim'[t].selected = trim[t].selected
    BY <1>1, <1>6 DEF TrimOpenConns, TrimOK, Locals
  <2>3. QED
    BY <1>1, <1>3, <1>6, <2>1, <2>2, OwnStep DEF Collects, Takes
<1>7. ASSUME NEW t \in Caller, LockTrim(t) PROVE TakesInv'
  <2>1. pc[t] = "lock" /\ pc'[t] \in {"check", "unlock"}
        /\ trim' = trim /\ protected' = protected
    BY <1>1, <1>7 DEF LockTrim, Goto, TrimOK
  <2>2. QED
    BY <1>1, <1>3, <1>7, <2>1, OwnStep DEF Collects, Takes
<1>8. ASSUME NEW t \in Caller, UnlockTrim(t) PROVE TakesInv'
  <2>1. pc'[t] = "idle" /\ protected' = protected
        /\ trim'[t].cands = {} /\ trim'[t].selected = {}
    BY <1>1, <1>8 DEF UnlockTrim, Goto, TrimOK, NoLocals
  <2>2. Collects(t)' /\ Takes(t)'
    BY <1>2, <2>1 DEF Collects, Takes
  <2>3. \A u \in Trimmer \ {t} : pc'[u] = pc[u] /\ trim'[u] = trim[u]
    BY <1>1, <1>8, OwnStep
  <2>4. QED
    BY <1>1, <1>3, <2>1, <2>2, <2>3
<1>9. ASSUME NEW p \in Peer, NEW tag \in Tag, Protect(p, tag) \/ Unprotect(p, tag) PROVE TakesInv'
  <2>1. UNCHANGED <<pc, trim>> /\ \A t \in Trimmer : pc[t] # "scan"
    BY <1>9 DEF Protect, Unprotect, ProtectionFree, trimVars
  <2>2. QED
    BY <2>1 DEF TakesInv, Collects, Takes
<1>10. CASE UNCHANGED <<protected, trimVars>>
  BY <1>10 DEF trimVars, TakesInv, Collects, Takes
<1>11. QED
  BY <1>4, <1>5, <1>6, <1>7, <1>8, <1>9, <1>10
  DEF Next, Age, UntagPeer, TagPeer, Connected, Disconnected, vars

(* Together with the types it is an invariant.                              *)
LEMMA TakesInvariant == Spec => [](TrimOK /\ TakesInv)
<1>1. Init => TrimOK /\ TakesInv
  <2> SUFFICES ASSUME Init PROVE TrimOK /\ TakesInv
    OBVIOUS
  <2>1. TrimOK
    BY DEF Init, TrimOK, NoLocals, Locals, PcState
  <2>2. \A t \in Trimmer : pc[t] = "idle" /\ trim[t].cands = {} /\ trim[t].selected = {}
    BY DEF Init, NoLocals
  <2>3. QED
    BY <2>1, <2>2, FS_EmptySet DEF TakesInv, Collects, Takes
<1>2. QED
  BY <1>1, CacheInvariant, TrimTypeStep, TakesStep, PTL DEF Spec

(* No protected peer is among the candidates of a trim that is collecting   *)
(* them: with any number of trims at a time, each holds the read lock.      *)
THEOREM ProtectedSkipped == Spec => []ProtectedIsNoCandidate
<1>1. TakesInv => ProtectedIsNoCandidate
  BY DEF TakesInv, Collects, ProtectedIsNoCandidate
<1>2. QED
  BY <1>1, TakesInvariant, PTL

(* A trim leaves the low watermark of the streams it counted, for any       *)
(* watermarks and whatever streams come and go while it selects.            *)
THEOREM LowWaterLeft == Spec => []TrimLeavesLowWater
<1>1. TrimOK /\ TakesInv => TrimLeavesLowWater
  <2> SUFFICES ASSUME TrimOK, TakesInv, NEW t \in Trimmer, trim[t].selected # {}
               PROVE  Cardinality(trim[t].selected) + LowWater <= trim[t].n
    BY DEF TrimLeavesLowWater
  <2>1. Takes(t) /\ LowWater \in Nat /\ trim[t].n \in Nat /\ trim[t].target \in Int
    BY StreamManagerAssumption DEF TakesInv, TrimOK, Locals
  <2>2. Cardinality(trim[t].selected) \in Nat
    BY <2>1, FS_CardinalityType DEF Takes
  <2>3. QED
    BY <2>1, <2>2 DEF Takes
<1>2. QED
  BY <1>1, TakesInvariant, PTL
-----------------------------------------------------------------------------
(* Sums over finite sets *)

(* Of some finite sets one contains no other: what an induction over finite *)
(* sets takes as its smallest counterexample.                               *)
LEMMA LeastFiniteSet ==
    ASSUME NEW S, NEW T \in SUBSET FiniteSubsetsOf(S), T # {}
    PROVE  \E U \in T : \A V \in T : V \subseteq U => V = U
<1>1. PICK U \in T : \A V \in T : ~ (<<V, U>> \in StrictSubsetOrdering(S))
  BY FS_StrictSubsetOrderingWellFounded, WFMin
<1>2. QED
  BY <1>1 DEF StrictSubsetOrdering, FiniteSubsetsOf

SumOver(f, S) == MapThenSumSet(LAMBDA x : f[x], S)

Chosen(s) == CHOOSE x \in s : TRUE

SumStep(f, g, s) == IF s = {} THEN 0 ELSE f[Chosen(s)] + g[s \ {Chosen(s)}]

(* g has the sums of f over all subsets of S.                               *)
Sums(g, f, S) == g = [s \in SUBSET S |-> SumStep(f, g, s)]

IntSums(g, f, S) == g \in [SUBSET S -> Int] /\ Sums(g, f, S)

(* There is such a g, first for the subsets that are no larger than U.      *)
LEMMA SumsExist ==
    ASSUME NEW S, IsFiniteSet(S), NEW f, \A x \in S : f[x] \in Int
    PROVE  \E g \in [SUBSET S -> Int] : Sums(g, f, S)
<1> DEFINE UpTo(g, U) == \A s \in SUBSET S :
                            Cardinality(s) <= Cardinality(U) => g[s] = SumStep(f, g, s)
           Bad == {U \in FiniteSubsetsOf(S) : ~ \E g \in [SUBSET S -> Int] : UpTo(g, U)}
<1>0. \A s \in SUBSET S : IsFiniteSet(s) /\ Cardinality(s) \in Nat
  BY FS_Subset, FS_CardinalityType
<1>1. ASSUME Bad # {} PROVE FALSE
  <2>1. PICK U \in Bad : \A V \in Bad : V \subseteq U => V = U
    <3>1. Bad \in SUBSET FiniteSubsetsOf(S)
      OBVIOUS
    <3> HIDE DEF Bad
    <3>2. QED
      BY <1>1, <3>1, LeastFiniteSet
  <2>2. U \subseteq S /\ IsFiniteSet(U)
    BY DEF FiniteSubsetsOf
  <2>3. CASE U = {}
    <3> DEFINE g == [s \in SUBSET S |-> 0]
    <3>1. \A s \in SUBSET S : Cardinality(s) <= Cardinality(U) => s = {}
      BY <1>0, <2>3, FS_EmptySet
    <3>2. g \in [SUBSET S -> Int] /\ UpTo(g, U)
      BY <3>1 DEF SumStep
    <3>3. QED
      BY <2>1, <3>2
  <2>4. CASE U # {}
    <3>1. PICK x \in U : TRUE
      BY <2>4
    <3> DEFINE V == U \ {x}
               n == Cardinality(V)
    <3>2. V \in FiniteSubsetsOf(S) /\ n \in Nat /\ Cardinality(U) = n + 1
      BY <1>0, <2>2, <3>1, FS_RemoveElement, FS_CardinalityType DEF FiniteSubsetsOf
    <3>3. PICK h \in [SUBSET S -> Int] : UpTo(h, V)
      <4>1. V \notin Bad
        BY <2>1, <3>1
      <4>2. QED
        BY <3>2, <4>1
    <3> DEFINE g == [s \in SUBSET S |-> IF Cardinality(s) <= n THEN h[s] ELSE SumStep(f, h, s)]
    <3>4. \A s \in SUBSET S : s # {} => Chosen(s) \in s
      BY DEF Chosen
    <3>5. \A s \in SUBSET S : SumStep(f, h, s) \in Int
      BY <3>4 DEF SumStep
    <3>6. \A s \in SUBSET S : s # {} => /\ s \ {Chosen(s)} \in SUBSET S
                                        /\ Cardinality(s \ {Chosen(s)}) = Cardinality(s) - 1
      BY <1>0, <3>4, FS_RemoveElement
    <3>7. ASSUME NEW s \in SUBSET S, Cardinality(s) <= n + 1 PROVE g[s] = SumStep(f, g, s)
      <4>1. SumStep(f, g, s) = SumStep(f, h, s)
        BY <1>0, <3>2, <3>6, <3>7 DEF SumStep
      <4>2. QED
        BY <3>3, <4>1
    <3>8. g \in [SUBSET S -> Int] /\ UpTo(g, U)
      BY <3>2, <3>5, <3>7
    <3>9. QED
      BY <2>1, <3>8
  <2>5. QED
    BY <2>3, <2>4
<1>2. PICK g \in [SUBSET S -> Int] : UpTo(g, S)
  BY <1>1 DEF FiniteSubsetsOf
<1>3. \A s \in SUBSET S : Cardinality(s) <= Cardinality(S)
  BY FS_Subset
<1>4. QED
  BY <1>2, <1>3 DEF Sums

(* What is summed does not depend on the set that the sums are taken in.    *)
LEMMA SumsAgree ==
    ASSUME NEW S, NEW T, NEW f, NEW e, NEW g, NEW h, Sums(g, f, S), Sums(h, e, T),
           NEW R \in SUBSET (S \cap T), IsFiniteSet(R), \A x \in R : f[x] = e[x]
    PROVE  g[R] = h[R]
<1> DEFINE Bad == {U \in FiniteSubsetsOf(R) : g[U] # h[U]}
<1>1. SUFFICES ASSUME Bad # {} PROVE FALSE
  BY DEF FiniteSubsetsOf
<1>2. PICK U \in Bad : \A V \in Bad : V \subseteq U => V = U
  <2>1. Bad \in SUBSET FiniteSubsetsOf(R)
    OBVIOUS
  <2> HIDE DEF Bad
  <2>2. QED
    BY <1>1, <2>1, LeastFiniteSet
<1> DEFINE x == Chosen(U)
<1>3. g[U] = SumStep(f, g, U) /\ h[U] = SumStep(e, h, U)
  BY DEF Sums, FiniteSubsetsOf
<1>4. U # {}
  BY <1>3 DEF SumStep
<1>5. x \in U
  BY <1>4 DEF Chosen
<1>6. U \ {x} \in FiniteSubsetsOf(R)
  BY FS_Subset DEF FiniteSubsetsOf
<1>7. g[U \ {x}] = h[U \ {x}]
  BY <1>2, <1>5, <1>6
<1>8. f[x] = e[x]
  BY <1>5 DEF FiniteSubsetsOf
<1>9. QED
  BY <1>3, <1>4, <1>7, <1>8 DEF SumStep

(* Any element may be taken out of a sum first.                             *)
LEMMA SumsAny ==
    ASSUME NEW S, NEW f, \A x \in S : f[x] \in Int, NEW g, IntSums(g, f, S),
           IsFiniteSet(S), NEW t \in S
    PROVE  g[S] = f[t] + g[S \ {t}]
<1>0. g \in [SUBSET S -> Int] /\ Sums(g, f, S)
  BY DEF IntSums
<1> DEFINE Fine(U) == \A y \in U : g[U] = f[y] + g[U \ {y}]
           Bad == {U \in FiniteSubsetsOf(S) : ~ Fine(U)}
<1>1. SUFFICES ASSUME Bad # {} PROVE FALSE
  BY DEF FiniteSubsetsOf
<1>2. PICK U \in Bad : \A V \in Bad : V \subseteq U => V = U
  <2>1. Bad \in SUBSET FiniteSubsetsOf(S)
    OBVIOUS
  <2> HIDE DEF Bad
  <2>2. QED
    BY <1>1, <2>1, LeastFiniteSet
<1>3. PICK y \in U : g[U] # f[y] + g[U \ {y}]
  OBVIOUS
<1> DEFINE x == Chosen(U)
<1>4. x \in U /\ g[U] = f[x] + g[U \ {x}]
  BY <1>0, <1>3 DEF Sums, SumStep, FiniteSubsetsOf, Chosen
<1>5. x # y
  BY <1>3, <1>4
<1>6. U \ {x} \in FiniteSubsetsOf(S) /\ U \ {y} \in FiniteSubsetsOf(S)
  BY FS_Subset DEF FiniteSubsetsOf
<1>7. Fine(U \ {x}) /\ Fine(U \ {y})
  <2>1. U \ {x} # U /\ U \ {y} # U
    BY <1>3, <1>4
  <2>2. U \ {x} \notin Bad /\ U \ {y} \notin Bad
    BY <1>2, <2>1
  <2>3. QED
    BY <1>6, <2>2
<1>8. /\ g[U \ {x}] = f[y] + g[(U \ {x}) \ {y}]
      /\ g[U \ {y}] = f[x] + g[(U \ {y}) \ {x}]
  BY <1>3, <1>4, <1>5, <1>7
<1>9. (U \ {x}) \ {y} = (U \ {y}) \ {x} /\ (U \ {x}) \ {y} \in SUBSET S
  BY DEF FiniteSubsetsOf
<1>10. f[x] \in Int /\ f[y] \in Int /\ g[(U \ {x}) \ {y}] \in Int
  BY <1>0, <1>3, <1>4, <1>9 DEF FiniteSubsetsOf
<1>11. g[U] = f[y] + g[U \ {y}]
  <2> DEFINE d == g[(U \ {x}) \ {y}]
  <2>1. g[U] = f[x] + (f[y] + d)
    BY <1>4, <1>8
  <2>2. g[U \ {y}] = f[x] + d
    BY <1>8, <1>9
  <2>3. f[x] \in Int /\ f[y] \in Int /\ d \in Int
    BY <1>10
  <2> HIDE DEF d, x
  <2>4. QED
    BY <2>1, <2>2, <2>3
<1>12. QED
  BY <1>3, <1>11

(* MapThenSumSet takes such sums.                                           *)
LEMMA SumOverSums ==
    ASSUME NEW S, IsFiniteSet(S), NEW f, \A x \in S : f[x] \in Int
    PROVE  \E g \in [SUBSET S -> Int] : Sums(g, f, S) /\ SumOver(f, S) = g[S]
<1>1. PICK h \in [SUBSET S -> Int] : Sums(h, f, S)
  BY SumsExist
<1>2. PICK g : Sums(g, f, S) /\ SumOver(f, S) = g[S]
  BY <1>1 DEF SumOver, MapThenSumSet, MapThenFoldSet, Sums, SumStep, Chosen
<1>3. \A s \in SUBSET S : g[s] = h[s]
  <2> SUFFICES ASSUME NEW s \in SUBSET S PROVE g[s] = h[s]
    OBVIOUS
  <2>1. IsFiniteSet(s)
    BY FS_Subset
  <2>2. QED
    BY <1>1, <1>2, <2>1, SumsAgree
<1>4. g = [s \in SUBSET S |-> SumStep(f, g, s)]
  BY <1>2 DEF Sums
<1>5. g \in [SUBSET S -> Int]
  BY <1>3, <1>4
<1>6. QED
  BY <1>2, <1>5

(* Sums of functions that agree are equal, and an element that is taken out *)
(* of the set takes its value out of the sum.                               *)
LEMMA SumSame ==
    ASSUME NEW S, IsFiniteSet(S), NEW f, \A x \in S : f[x] \in Int,
           NEW e, \A x \in S : e[x] = f[x]
    PROVE  SumOver(e, S) = SumOver(f, S) /\ SumOver(f, S) \in Int
<1>1. PICK g \in [SUBSET S -> Int] : Sums(g, f, S) /\ SumOver(f, S) = g[S]
  BY SumOverSums
<1>2. PICK h \in [SUBSET S -> Int] : Sums(h, e, S) /\ SumOver(e, S) = h[S]
  BY SumOverSums
<1>3. g[S] = h[S]
  BY <1>1, <1>2, SumsAgree
<1>4. QED
  BY <1>1, <1>2, <1>3

LEMMA SumWithout ==
    ASSUME NEW S, IsFiniteSet(S), NEW f, \A x \in S : f[x] \in Int, NEW t \in S
    PROVE  SumOver(f, S) = f[t] + SumOver(f, S \ {t})
<1> DEFINE T == S \ {t}
<1>1. IsFiniteSet(T) /\ T \subseteq S
  BY FS_Subset
<1>2. PICK g \in [SUBSET S -> Int] : Sums(g, f, S) /\ SumOver(f, S) = g[S]
  BY SumOverSums
<1>3. PICK h \in [SUBSET T -> Int] : Sums(h, f, T) /\ SumOver(f, T) = h[T]
  BY <1>1, SumOverSums
<1>4. g[T] = h[T]
  BY <1>1, <1>2, <1>3, SumsAgree
<1>5. g[S] = f[t] + g[T]
  <2>1. IntSums(g, f, S)
    BY <1>2 DEF IntSums
  <2>2. g[S] = f[t] + g[S \ {t}]
    BY <2>1, SumsAny
  <2>3. QED
    BY <2>2
<1>6. QED
  BY <1>2, <1>3, <1>4, <1>5

(* One value more or less.                                                  *)
LEMMA SumExcept ==
    ASSUME NEW S, IsFiniteSet(S), NEW f \in [S -> Int], NEW t \in S, NEW v \in Int
    PROVE  SumOver([f EXCEPT ![t] = v], S) = SumOver(f, S) + v - f[t]
<1> DEFINE e == [f EXCEPT ![t] = v]
           T == S \ {t}
<1>1. IsFiniteSet(T) /\ \A x \in T : e[x] = f[x] /\ f[x] \in Int
  BY FS_Subset
<1>2. SumOver(e, T) = SumOver(f, T) /\ SumOver(f, T) \in Int
  BY <1>1, SumSame
<1>3. SumOver(f, S) = f[t] + SumOver(f, T)
  BY SumWithout
<1>4. SumOver(e, S) = e[t] + SumOver(e, T)
  <2>1. \A x \in S : e[x] \in Int
    OBVIOUS
  <2> HIDE DEF e
  <2>2. QED
    BY <2>1, SumWithout
<1>5. e[t] = v /\ f[t] \in Int
  OBVIOUS
<1>6. QED
  BY <1>2, <1>3, <1>4, <1>5

(* Nothing is the sum of nothing.                                           *)
LEMMA SumZero ==
    ASSUME NEW S, IsFiniteSet(S), NEW f, \A x \in S : f[x] = 0
    PROVE  SumOver(f, S) = 0
<1>1. PICK g \in [SUBSET S -> Int] : Sums(g, f, S) /\ SumOver(f, S) = g[S]
  <2>1. \A x \in S : f[x] \in Int
    OBVIOUS
  <2>2. QED
    BY <2>1, SumOverSums
<1> DEFINE Bad == {U \in FiniteSubsetsOf(S) : g[U] # 0}
<1>2. SUFFICES ASSUME Bad # {} PROVE FALSE
  BY <1>1 DEF FiniteSubsetsOf
<1>3. PICK U \in Bad : \A V \in Bad : V \subseteq U => V = U
  <2>1. Bad \in SUBSET FiniteSubsetsOf(S)
    OBVIOUS
  <2> HIDE DEF Bad
  <2>2. QED
    BY <1>2, <2>1, LeastFiniteSet
<1> DEFINE x == Chosen(U)
<1>4. g[U] = SumStep(f, g, U)
  BY <1>1 DEF Sums, FiniteSubsetsOf
<1>5. U # {}
  BY <1>3, <1>4 DEF SumStep
<1>6. x \in U /\ f[x] = 0
  BY <1>5 DEF Chosen, FiniteSubsetsOf
<1>7. U \ {x} \in FiniteSubsetsOf(S)
  BY FS_Subset DEF FiniteSubsetsOf
<1>8. g[U \ {x}] = 0
  BY <1>3, <1>6, <1>7
<1>9. QED
  BY <1>3, <1>4, <1>5, <1>6, <1>8 DEF SumStep

-----------------------------------------------------------------------------
(* The value of an entry *)

(* What an entry has beyond its tags: nothing, but for what other parts of  *)
(* the manager add.                                                         *)
Excess(e) == e.value - SumOver(e.tags, Tag)

LEMMA EntrySum ==
    ASSUME NEW e \in Entry
    PROVE  SumOver(e.tags, Tag) \in Int /\ e.value \in Int /\ e.tags \in [Tag -> Int]
BY SumSame, StreamManagerAssumption DEF Entry

LEMMA ExcessSame ==
    ASSUME NEW e \in Entry, NEW f \in Entry, f.tags = e.tags, f.value = e.value
    PROVE  Excess(f) = Excess(e)
BY DEF Excess

LEMMA ExcessNew == \A temp \in BOOLEAN : Excess(NewEntry(temp)) = 0
<1>1. SumOver([t \in Tag |-> 0], Tag) = 0
  BY SumZero, StreamManagerAssumption
<1>2. QED
  BY <1>1 DEF Excess, NewEntry

LEMMA ExcessTagged ==
    ASSUME NEW e \in Entry, NEW tag \in Tag, NEW val \in Int
    PROVE  Excess(Tagged(e, tag, val)) = Excess(e)
<1> DEFINE tags == [e.tags EXCEPT ![tag] = val]
<1>1. SumOver(tags, Tag) = SumOver(e.tags, Tag) + val - e.tags[tag]
  BY EntrySum, SumExcept, StreamManagerAssumption
<1>2. /\ Tagged(e, tag, val).tags = tags
      /\ Tagged(e, tag, val).value = e.value + val - e.tags[tag]
  BY DEF Tagged, Entry
<1> HIDE DEF tags
<1>3. QED
  BY <1>1, <1>2, EntrySum DEF Excess

LEMMA ExcessUntagged ==
    ASSUME NEW e \in Entry, NEW tag \in Tag
    PROVE  Excess(Untagged(e, tag)) = Excess(e)
<1> DEFINE tags == [e.tags EXCEPT ![tag] = 0]
<1>1. SumOver(tags, Tag) = SumOver(e.tags, Tag) + 0 - e.tags[tag]
  BY EntrySum, SumExcept, StreamManagerAssumption
<1>2. Untagged(e, tag).tags = tags /\ Untagged(e, tag).value = e.value - e.tags[tag]
  BY DEF Untagged, Entry
<1> HIDE DEF tags
<1>3. QED
  BY <1>1, <1>2, EntrySum DEF Excess

LEMMA ExcessConnecting ==
    ASSUME peers \in [Tracked -> Entry], NEW p \in Peer, NEW c \in Stream
    PROVE  Excess(Connecting(p, c)) = IF p \in Tracked THEN Excess(peers[p]) ELSE 0
<1> DEFINE e == IF p \in Tracked THEN peers[p] ELSE NewEntry(FALSE)
<1>1. e \in Entry /\ Connecting(p, c) \in Entry
  BY NewEntryType, ConnectingType
<1>2. Connecting(p, c) = [e EXCEPT !.temp = FALSE, !.conn = c, !.old = @ /\ ~ e.temp]
  BY DEF Connecting
<1>3. Excess(e) = IF p \in Tracked THEN Excess(peers[p]) ELSE 0
  BY ExcessNew
<1> HIDE DEF e
<1>4. Connecting(p, c).tags = e.tags /\ Connecting(p, c).value = e.value
  BY <1>1, <1>2 DEF Entry
<1>5. QED
  BY <1>1, <1>3, <1>4, ExcessSame

(* The manager changes the value of an entry as it changes its tags, and a  *)
(* new entry has the value of its tags.                                     *)
LEMMA ExcessKept ==
    ASSUME CacheOK, [Next]_vars
    PROVE  \A q \in Tracked' :
              Excess(peers'[q]) = IF q \in Tracked THEN Excess(peers[q]) ELSE 0
<1> DEFINE Kept == \A q \in Tracked' :
                      Excess(peers'[q]) = IF q \in Tracked THEN Excess(peers[q]) ELSE 0
<1> SUFFICES Kept
  OBVIOUS
<1>0. Tracked \subseteq Peer /\ peers \in [Tracked -> Entry]
  BY DEF CacheOK
<1>1. CASE UNCHANGED peers
  BY <1>1 DEF Tracked
<1>2. ASSUME NEW p \in Peer, NEW e \in Entry, peers' = Put(p, e),
             Excess(e) = IF p \in Tracked THEN Excess(peers[p]) ELSE 0
      PROVE  Kept
  BY <1>0, <1>2, PutType
<1>3. ASSUME NEW p, peers' = Remove(p) PROVE Kept
  BY <1>0, <1>3, RemoveType
<1>4. ASSUME NEW p \in Tracked, NEW e \in Entry, peers' = [peers EXCEPT ![p] = e],
             Excess(e) = Excess(peers[p])
      PROVE  Kept
  BY <1>0, <1>4 DEF Tracked
<1>5. ASSUME NEW p \in Peer, Age(p) PROVE Kept
  <2> DEFINE e == [peers[p] EXCEPT !.old = TRUE]
  <2>1. p \in Tracked /\ peers' = [peers EXCEPT ![p] = e]
    BY <1>0, <1>5 DEF Age
  <2>2. e \in Entry /\ e.tags = peers[p].tags /\ e.value = peers[p].value
    BY <1>0, <2>1 DEF Entry
  <2> HIDE DEF e
  <2>3. Excess(e) = Excess(peers[p])
    BY <1>0, <2>1, <2>2, ExcessSame
  <2>4. QED
    BY <1>4, <2>1, <2>2, <2>3
<1>6. ASSUME NEW p \in Peer, NEW tag \in Tag, UntagPeer(p, tag) PROVE Kept
  <2>1. p \in Tracked /\ peers' = [peers EXCEPT ![p] = Untagged(peers[p], tag)]
    BY <1>0, <1>6 DEF UntagPeer
  <2>2. QED
    BY <1>0, <1>4, <2>1, UntaggedType, ExcessUntagged
<1>7. ASSUME NEW p \in Peer, NEW tag \in Tag, NEW val \in Val, TagPeer(p, tag, val) PROVE Kept
  <2> DEFINE e == TagInfoFor(p)
  <2>1. e \in Entry /\ Excess(e) = IF p \in Tracked THEN Excess(peers[p]) ELSE 0
    BY <1>0, NewEntryType, ExcessNew DEF TagInfoFor
  <2>2. val \in Int
    BY StreamManagerAssumption
  <2>3. peers' = Put(p, Tagged(e, tag, val))
    BY <1>7 DEF TagPeer
  <2> HIDE DEF e
  <2>4. QED
    BY <1>2, <2>1, <2>2, <2>3, TaggedType, ExcessTagged
<1>8. ASSUME NEW c \in Stream, Connected(c) PROVE Kept
  <2>1. RemotePeer[c] \in Peer /\ peers' = Put(RemotePeer[c], Connecting(RemotePeer[c], c))
    BY <1>8, StreamManagerAssumption DEF Connected
  <2>2. QED
    BY <1>0, <1>2, <2>1, ConnectingType, ExcessConnecting
<1>9. ASSUME NEW c \in Stream, Disconnected(c) PROVE Kept
  BY <1>3, <1>9 DEF Disconnected
<1>10. ASSUME NEW t \in Trimmer, TrimStep(t) PROVE Kept
  <2>1. ASSUME NEW c, Select(t, c) PROVE Kept
    BY <1>1, <1>3, <2>1 DEF Select
  <2>2. QED
    BY <1>1, <1>10, <2>1 DEF TrimStep, Check, Scan, Scanned, Selected, Close, Trimmed, entryVars
<1>11. QED
  BY <1>1, <1>5, <1>6, <1>7, <1>8, <1>9, <1>10
     DEF Next, Protect, Unprotect, BackgroundTick, TrimOpenConns, LockTrim, UnlockTrim,
         vars, entryVars

(* The value a trim sorts by is the sum of the tags, whatever calls of      *)
(* TagPeer, UpsertTag, UntagPeer and Connected made it.                     *)
THEOREM ValuesAreSums == Spec => []ValueIsSum
<1> DEFINE NoExcess == \A p \in Tracked : Excess(peers[p]) = 0
<1>1. Init => NoExcess
  BY DEF Init, Tracked
<1>2. CacheOK /\ NoExcess /\ [Next]_vars => NoExcess'
  BY ExcessKept
<1>3. CacheOK /\ NoExcess => ValueIsSum
  <2> SUFFICES ASSUME CacheOK, NoExcess, NEW p \in Tracked
               PROVE  peers[p].value = SumOver(peers[p].tags, Tag)
    BY DEF ValueIsSum, SumOver
  <2>1. peers[p] \in Entry
    BY DEF CacheOK
  <2>2. QED
    BY <2>1, EntrySum DEF Excess
<1>4. QED
  BY <1>1, <1>2, <1>3, CacheInvariant, PTL DEF Spec
=============================================================================
