--------------------------- MODULE StreamManager ---------------------------
(***************************************************************************)
(* The stream manager of pkg/stream: which peers have a cached stream,     *)
(* their tags, and the trims that close streams of the least valued peers. *)
(*                                                                         *)
(* Every peer is taken to be in a segment of its own: each section under a *)
(* segment's lock is one action, and a trim visits one peer per action.    *)
(*                                                                         *)
(* conns.  Connected does not add to a peer's map of streams, it replaces  *)
(* the map by one that holds the new stream alone, and Disconnected        *)
(* deletes from the map the peer has now.  So a map is known by the stream *)
(* it was made for (or None, the empty map of a temporary entry), and all  *)
(* it ever holds is that stream, until it is deleted: it holds c as long   *)
(* as c is in "mapped".  A trim's copy of an entry keeps the map the entry *)
(* had when it was copied.                                                 *)
(*                                                                         *)
(* A tag that is not there has the value 0, as a missing key of the map of *)
(* tags does.  The decaying tags are in Decayer.                           *)
(***************************************************************************)
EXTENDS Integers, FiniteSets, FiniteSetsExt

CONSTANTS
    Peer, Stream,
    RemotePeer,     \* the peer at the other end of a stream
    None,           \* no stream
    Tag, Val,       \* tags of peers and the values they are given
    Background,     \* the background goroutine of the manager
    Caller,         \* goroutines that call TrimOpenConns
    LowWater, HighWater,
    MaxTrims        \* bound: TrimOpenConns is not called after so many trims

ASSUME StreamManagerAssumption ==
    /\ IsFiniteSet(Peer) /\ IsFiniteSet(Tag)
    /\ RemotePeer \in [Stream -> Peer]
    /\ None \notin Stream \cup Caller
    /\ Val \subseteq Int
    /\ Background \notin Caller
    /\ LowWater \in Nat /\ HighWater \in Nat /\ MaxTrims \in Nat

Trimmer == Caller \cup {Background}

VARIABLES
    peers,      \* tracked peer -> its entry (peerInfo)
    mapped,     \* streams that are still in the map made for them
    used,       \* streams that were handed to Connected
    closed,     \* streams that trims closed
    connCount,  \* the manager's counter
    protected,  \* peer -> tags that protect it
    trimCount,
    trimMutex,  \* who holds trimMutex, or None
    pc,         \* trimmer -> next step
    trim        \* trimmer -> the locals of its trim

entryVars == <<peers, mapped, used, connCount>>
trimVars == <<trimCount, trimMutex, pc, trim>>
vars == <<entryVars, closed, protected, trimVars>>

Entry == [temp: BOOLEAN, old: BOOLEAN, conn: Stream \cup {None},
          tags: [Tag -> Int], value: Int]

NewEntry(temp) ==
    [temp |-> temp, old |-> FALSE, conn |-> None, tags |-> [t \in Tag |-> 0], value |-> 0]

Locals == [count: Nat, todo: SUBSET Peer, cands: SUBSET (Peer \X Entry),
           n: Nat, target: Int, selected: SUBSET Stream]

NoLocals == [count |-> 0, todo |-> {}, cands |-> {}, n |-> 0, target |-> 0, selected |-> {}]

Init ==
    /\ peers = [p \in {} |-> NewEntry(TRUE)]
    /\ mapped = {} /\ used = {} /\ closed = {}
    /\ connCount = 0
    /\ protected = [p \in Peer |-> {}]
    /\ trimCount = 0 /\ trimMutex = None
    /\ pc = [t \in Trimmer |-> "idle"]
    /\ trim = [t \in Trimmer |-> NoLocals]

Tracked == DOMAIN peers

Put(p, e) == [q \in Tracked \cup {p} |-> IF q = p THEN e ELSE peers[q]]

Remove(p) == [q \in Tracked \ {p} |-> peers[q]]

(* The streams in a map.                                                    *)
Conns(m) == {m} \cap mapped

-----------------------------------------------------------------------------
(* Tags and protection *)

(* tagInfoFor: the entry, or a temporary one made for the tag.              *)
TagInfoFor(p) == IF p \in Tracked THEN peers[p] ELSE NewEntry(TRUE)

(* mutated Tagged: the old value of the tag is not taken off the total      *)
TaggedTwice(e, tag, val) ==
    [e EXCEPT !.value = @ + val, !.tags = [@ EXCEPT ![tag] = val]]

Tagged(e, tag, val) ==
    [e EXCEPT !.value = @ + val - e.tags[tag], !.tags = [@ EXCEPT ![tag] = val]]

(* TagPeer, and UpsertTag with whatever its callback returns.               *)
TagPeer(p, tag, val) ==
    /\ peers' = Put(p, Tagged(TagInfoFor(p), tag, val))
    /\ UNCHANGED <<mapped, used, closed, connCount, protected, trimVars>>

Untagged(e, tag) == [e EXCEPT !.value = @ - e.tags[tag], !.tags = [@ EXCEPT ![tag] = 0]]

UntagPeer(p, tag) ==
    /\ p \in Tracked
    /\ peers' = [peers EXCEPT ![p] = Untagged(@, tag)]
    /\ UNCHANGED <<mapped, used, closed, connCount, protected, trimVars>>

(* Both wait for the trims that read the protected peers.                   *)
ProtectionFree == \A t \in Trimmer : pc[t] # "scan"

Protect(p, tag) ==
    /\ ProtectionFree
    /\ protected' = [protected EXCEPT ![p] = @ \cup {tag}]
    /\ UNCHANGED <<entryVars, closed, trimVars>>

Unprotect(p, tag) ==
    /\ ProtectionFree
    /\ protected' = [protected EXCEPT ![p] = @ \ {tag}]
    /\ UNCHANGED <<entryVars, closed, trimVars>>

(* The grace period of an entry ends.                                       *)
Age(p) ==
    /\ p \in Tracked
    /\ ~ peers[p].old
    /\ peers' = [peers EXCEPT ![p].old = TRUE]
    /\ UNCHANGED <<mapped, used, closed, connCount, protected, trimVars>>

-----------------------------------------------------------------------------
(* Streams *)

(* mutated Connecting: the entry stays temporary                            *)
ConnectingTemp(p, c) ==
    LET e == IF p \in Tracked THEN peers[p] ELSE NewEntry(FALSE)
    IN  [e EXCEPT !.conn = c]

(* The entry of p with c as its only stream: a new entry, or the entry it   *)
(* has, no longer temporary.                                                *)
Connecting(p, c) ==
    LET e == IF p \in Tracked THEN peers[p] ELSE NewEntry(FALSE)
    IN  [e EXCEPT !.temp = FALSE, !.conn = c, !.old = @ /\ ~ e.temp]

(* mutated Connected: only the stream of an untracked peer is counted        *)
ConnectedUncounted(c) ==
    LET p == RemotePeer[c] IN
    /\ c \notin used
    /\ used' = used \cup {c}
    /\ mapped' = mapped \cup {c}
    /\ peers' = Put(p, Connecting(p, c))
    /\ connCount' = IF p \in Tracked THEN connCount ELSE connCount + 1
    /\ UNCHANGED <<closed, protected, trimVars>>

Connected(c) ==
    LET p == RemotePeer[c] IN
    /\ c \notin used
    /\ used' = used \cup {c}
    /\ mapped' = mapped \cup {c}
    /\ peers' = Put(p, Connecting(p, c))
    /\ connCount' = connCount + 1
    /\ UNCHANGED <<closed, protected, trimVars>>

IsTracked(c) ==
    LET p == RemotePeer[c] IN p \in Tracked /\ c \in Conns(peers[p].conn)

(* A stream that is not tracked is only logged.                             *)
Disconnected(c) ==
    /\ IsTracked(c)
    /\ mapped' = mapped \ {c}
    /\ peers' = Remove(RemotePeer[c])
    /\ connCount' = connCount - 1
    /\ UNCHANGED <<used, closed, protected, trimVars>>

-----------------------------------------------------------------------------
(* Trimming *)

Goto(t, to) == pc' = [pc EXCEPT ![t] = to]

(* background: a tick above the high watermark trims, without trimMutex.    *)
BackgroundTick ==
    /\ pc[Background] = "idle"
    /\ connCount >= HighWater
    /\ Goto(Background, "check")
    /\ UNCHANGED <<entryVars, closed, protected, trimCount, trimMutex, trim>>

(* doTrim: remember which trim was the last one, then take trimMutex.       *)
TrimOpenConns(t) ==
    /\ pc[t] = "idle"
    /\ trimCount < MaxTrims
    /\ trim' = [trim EXCEPT ![t].count = trimCount]
    /\ Goto(t, "lock")
    /\ UNCHANGED <<entryVars, closed, protected, trimCount, trimMutex>>

(* mutated FirstSince: the comparison of the counts is the wrong way round   *)
AnotherSince(t) == trim[t].count # trimCount

FirstSince(t) == trim[t].count = trimCount

MutexFree == trimMutex = None

LockTrim(t) ==
    /\ pc[t] = "lock"
    /\ MutexFree
    /\ trimMutex' = t
    /\ Goto(t, IF FirstSince(t) THEN "check" ELSE "unlock")
    /\ UNCHANGED <<entryVars, closed, protected, trimCount, trim>>

(* getConnsToClose, the counter first.                                      *)
Check(t) ==
    /\ pc[t] = "check"
    /\ IF LowWater = 0 \/ HighWater = 0 \/ connCount <= LowWater
          THEN /\ Goto(t, "close")
               /\ UNCHANGED trim
          ELSE /\ Goto(t, "scan")
               /\ trim' = [trim EXCEPT ![t].todo = Peer]
    /\ UNCHANGED <<entryVars, closed, protected, trimCount, trimMutex>>

(* mutated Candidate: protected peers are not skipped                       *)
CandidateProtected(p) == p \in Tracked /\ peers[p].old

Candidate(p) == p \in Tracked /\ peers[p].old /\ protected[p] = {}

(* A copy of the entry of every peer that may be trimmed.                   *)
Visited(l, p) ==
    [l EXCEPT
        !.todo = @ \ {p},
        !.cands = IF Candidate(p) THEN @ \cup {<<p, peers[p]>>} ELSE @,
        !.n = IF Candidate(p) THEN @ + Cardinality(Conns(peers[p].conn)) ELSE @]

Scan(t, p) ==
    /\ pc[t] = "scan"
    /\ p \in trim[t].todo
    /\ trim' = [trim EXCEPT ![t] = Visited(@, p)]
    /\ UNCHANGED <<entryVars, closed, protected, trimCount, trimMutex, pc>>

Scanned(t) ==
    /\ pc[t] = "scan"
    /\ trim[t].todo = {}
    /\ trim' = [trim EXCEPT ![t].target = trim[t].n - LowWater]
    /\ Goto(t, IF trim[t].n < LowWater THEN "close" ELSE "select")
    /\ UNCHANGED <<entryVars, closed, protected, trimCount, trimMutex>>

(* SortByValue, on the copies.                                              *)
Before(c, d) ==
    IF c[2].temp # d[2].temp THEN c[2].temp ELSE c[2].value < d[2].value

(* mutated TargetReached: one stream too many is closed                     *)
TargetPassed(t) == trim[t].target < 0

TargetReached(t) == trim[t].target <= 0

Expired(e) == Conns(e.conn) = {} /\ e.temp

Taken(l, c) ==
    [l EXCEPT !.cands = @ \ {c},
              !.selected = @ \cup Conns(c[2].conn),
              !.target = @ - Cardinality(Conns(c[2].conn))]

(* The next candidate, judged by the copy of its entry: a temporary entry   *)
(* that never got a stream is deleted, the streams of others are selected.  *)
Select(t, c) ==
    /\ pc[t] = "select"
    /\ ~ TargetReached(t)
    /\ c \in trim[t].cands
    /\ \A d \in trim[t].cands : ~ Before(d, c)
    /\ IF Expired(c[2])
          THEN /\ peers' = Remove(c[1])
               /\ trim' = [trim EXCEPT ![t].cands = @ \ {c}]
          ELSE /\ trim' = [trim EXCEPT ![t] = Taken(@, c)]
               /\ UNCHANGED peers
    /\ UNCHANGED <<mapped, used, connCount, closed, protected, trimCount, trimMutex, pc>>

Selected(t) ==
    /\ pc[t] = "select"
    /\ TargetReached(t) \/ trim[t].cands = {}
    /\ Goto(t, "close")
    /\ UNCHANGED <<entryVars, closed, protected, trimCount, trimMutex, trim>>

(* trim closes the selected streams and leaves them tracked.                *)
Close(t, c) ==
    /\ pc[t] = "close"
    /\ c \in trim[t].selected
    /\ closed' = closed \cup {c}
    /\ trim' = [trim EXCEPT ![t].selected = @ \ {c}]
    /\ UNCHANGED <<entryVars, protected, trimCount, trimMutex, pc>>

Trimmed(t) ==
    /\ pc[t] = "close"
    /\ trim[t].selected = {}
    /\ trimCount' = IF t = Background THEN trimCount ELSE trimCount + 1
    /\ Goto(t, IF t = Background THEN "idle" ELSE "unlock")
    /\ trim' = [trim EXCEPT ![t] = [NoLocals EXCEPT !.count = trim[t].count]]
    /\ UNCHANGED <<entryVars, closed, protected, trimMutex>>

(* TrimOpenConns returns.                                                   *)
UnlockTrim(t) ==
    /\ pc[t] = "unlock"
    /\ trimMutex' = None
    /\ Goto(t, "idle")
    /\ trim' = [trim EXCEPT ![t] = NoLocals]
    /\ UNCHANGED <<entryVars, closed, protected, trimCount>>

TrimStep(t) ==
    \/ Check(t) \/ Scanned(t) \/ Selected(t) \/ Trimmed(t)
    \/ \E p \in Peer : Scan(t, p)
    \/ \E c \in trim[t].cands : Select(t, c)
    \/ \E c \in Stream : Close(t, c)

Next ==
    \/ \E p \in Peer : Age(p)
    \/ \E p \in Peer, tag \in Tag : \/ UntagPeer(p, tag)
                                    \/ Protect(p, tag) \/ Unprotect(p, tag)
                                    \/ \E val \in Val : TagPeer(p, tag, val)
    \/ \E c \in Stream : Connected(c) \/ Disconnected(c)
    \/ BackgroundTick
    \/ \E t \in Caller : TrimOpenConns(t) \/ LockTrim(t) \/ UnlockTrim(t)
    \/ \E t \in Trimmer : TrimStep(t)

Spec == Init /\ [][Next]_vars
-----------------------------------------------------------------------------
(* Properties *)

TypeOK ==
    /\ Tracked \subseteq Peer /\ peers \in [Tracked -> Entry]
    /\ mapped \subseteq used /\ used \subseteq Stream /\ closed \subseteq Stream
    /\ connCount \in Nat
    /\ protected \in [Peer -> SUBSET Tag]
    /\ trimCount \in Nat /\ trimMutex \in Caller \cup {None}
    /\ pc \in [Trimmer -> {"idle", "lock", "check", "scan", "select", "close", "unlock"}]
    /\ trim \in [Trimmer -> Locals]

ConnectedPeers == {p \in Tracked : ~ peers[p].temp}

(* The counter never falls behind the cache: whatever order streams come,   *)
(* replace each other, go, and are trimmed in, connCount is at least the    *)
(* number of peers that have a cached stream, so the watermarks, which look *)
(* at the counter, never overlook one (Connected, Disconnected, and the     *)
(* delete in getConnsToClose).                                              *)
CountCoversConnected == Cardinality(ConnectedPeers) <= connCount

(* An entry is temporary exactly while no stream was ever connected for it, *)
(* and the stream of an entry that is not is its peer's and still in the    *)
(* entry's map: HasStream never finds a peer connected with nothing to      *)
(* offer, nor another peer's stream.                                        *)
TrackedHasItsStream ==
    \A p \in Tracked :
        IF peers[p].temp THEN peers[p].conn = None
        ELSE peers[p].conn \in mapped /\ RemotePeer[peers[p].conn] = p

(* The value a trim sorts by is the sum of the tags, after any sequence of  *)
(* TagPeer, UpsertTag and UntagPeer and through the changes of the entry.   *)
ValueIsSum ==
    \A p \in Tracked :
        peers[p].value = MapThenSumSet(LAMBDA tag : peers[p].tags[tag], Tag)

(* As long as a trim is collecting candidates no peer among them is         *)
(* protected, however Protect and Unprotect calls fall between the visits   *)
(* to the segments: the read lock is held for the whole collection.         *)
ProtectedIsNoCandidate ==
    \A t \in Trimmer : pc[t] = "scan" =>
        \A c \in trim[t].cands : protected[c[1]] = {}

(* A trim never takes more streams than there were candidates above the low *)
(* watermark, although streams come and go between its counting them and    *)
(* its selecting them.                                                      *)
TrimLeavesLowWater ==
    \A t \in Trimmer : trim[t].selected # {} =>
        Cardinality(trim[t].selected) + LowWater <= trim[t].n

(* A call of TrimOpenConns does not return before a trim has ended that was *)
(* not over when it was called (doTrim, its count and its mutex).           *)
TrimmedSinceCalled ==
    \A t \in Caller : pc[t] = "unlock" => trim[t].count < trimCount

(* Two calls of TrimOpenConns never trim at the same time.                  *)
OneCallerTrims ==
    \A t, u \in Caller :
        t # u /\ pc[t] \notin {"idle", "lock"} => pc[u] \in {"idle", "lock"}
=============================================================================
