------------------------------ MODULE Decayer ------------------------------
(***************************************************************************)
(* The decaying tags of pkg/stream/decay.go, on top of the stream manager. *)
(*                                                                         *)
(* One goroutine, process, owns them: it takes ticks, bumps, removals and  *)
(* closings from channels, in any order, and visits the peers one segment  *)
(* after the other.  Bump, Remove and Close run on any goroutine: they     *)
(* look at the tag's closed flag, and then send if the channel has room.   *)
(*                                                                         *)
(* Time is counted in resolutions of the decayer.  A tag's nextTick only   *)
(* matters relative to lastTick: "left" is the difference.                 *)
(*                                                                         *)
(* decayFn and bumpFn are the callers' functions: here a decay takes one   *)
(* off and removes the value at zero, and a bump adds up to a maximum.     *)
(***************************************************************************)
EXTENDS StreamManager, Sequences

CONSTANTS
    DecayingTag,    \* the tags that can be registered
    Name,           \* their names
    Interval,       \* how often they decay, in resolutions
    MaxJump,        \* how far apart two ticks may be, in resolutions
    Delta,          \* what tags are bumped by
    MaxValue,       \* what bumpFn stops at
    CmdSize,        \* capacity of the channels
    MaxCalls        \* bound: calls at one time

ASSUME DecayerAssumption ==
    /\ Interval \in [DecayingTag -> Nat \ {0}]
    /\ MaxJump \in Nat \ {0}
    /\ Delta \subseteq Nat /\ MaxValue \in Nat
    /\ CmdSize \in Nat \ {0} /\ MaxCalls \in Nat

VARIABLES
    decaying,   \* tracked peer -> its decaying tags -> their values
    created,    \* tags that were registered
    knownTags,  \* tags that are tracked
    isClosed,   \* tags whose closed flag is set
    left,       \* tag -> nextTick - lastTick
    calls,      \* calls of Bump, Remove and Close that are about to send
    channel,    \* kind of command -> the commands in its channel
    dpc,        \* where process is
    visit,      \* tags that are decayed, or closed, in this round
    rest,       \* peers this round has yet to visit
    stopped     \* closeCh is closed

tagVars == <<created, knownTags, isClosed>>
roundVars == <<dpc, visit, rest>>
decayVars == <<decaying, tagVars, left, calls, channel, roundVars, stopped>>
decayerVars == <<vars, decayVars>>

Command ==
    [op: {"bump"}, tag: DecayingTag, peer: Peer, delta: Delta]
      \cup [op: {"remove"}, tag: DecayingTag, peer: Peer]
      \cup [op: {"close"}, tag: DecayingTag]

NoValues == [t \in {} |-> 0]

DecayerInit ==
    /\ Init
    /\ decaying = [p \in {} |-> NoValues]
    /\ created = {} /\ knownTags = {} /\ isClosed = {}
    /\ left = Interval
    /\ calls = {}
    /\ channel = [op \in {"bump", "remove", "close"} |-> <<>>]
    /\ dpc = "select" /\ visit = {} /\ rest = {}
    /\ stopped = FALSE

-----------------------------------------------------------------------------
(* Calls *)

Named(n) == {t \in knownTags : Name[t] = n}

RegisterDecayingTag(t) ==
    /\ t \notin created
    /\ Named(Name[t]) = {}
    /\ created' = created \cup {t}
    /\ knownTags' = knownTags \cup {t}
    /\ left' = [left EXCEPT ![t] = Interval[t]]
    /\ UNCHANGED <<vars, decaying, isClosed, calls, channel, roundVars, stopped>>

(* mutated Open: a closed tag is bumped and removed as any other            *)
OpenOrClosed(t) == t \in created

Open(t) == t \in created \ isClosed

(* The closed flag is looked at, and set by Close.                          *)
Begin(c) ==
    /\ Open(c.tag)
    /\ c \notin calls /\ Cardinality(calls) < MaxCalls
    /\ calls' = calls \cup {c}
    /\ isClosed' = IF c.op = "close" THEN isClosed \cup {c.tag} ELSE isClosed
    /\ UNCHANGED <<vars, decaying, created, knownTags, left, channel, roundVars, stopped>>

(* The command is sent, or refused with an error when the channel is full.  *)
Send(c) ==
    /\ c \in calls
    /\ calls' = calls \ {c}
    /\ channel' = IF Len(channel[c.op]) < CmdSize
                  THEN [channel EXCEPT ![c.op] = Append(@, c)] ELSE channel
    /\ UNCHANGED <<vars, decaying, tagVars, left, roundVars, stopped>>

(* Close of the decayer. *)
Stop ==
    /\ ~ stopped
    /\ stopped' = TRUE
    /\ UNCHANGED <<vars, decaying, tagVars, left, calls, channel, roundVars>>

-----------------------------------------------------------------------------
(* process *)

Total(values) == MapThenSumSet(LAMBDA t : values[t], DOMAIN values)

ValuesOf(p) == IF p \in Tracked THEN decaying[p] ELSE NoValues

(* mutated Revalue: what peer p had before is not taken off its value       *)
RevalueTwice(p, new) ==
    /\ decaying' = [q \in Tracked \cup {p} |-> IF q = p THEN new ELSE decaying[q]]
    /\ peers' = Put(p, [TagInfoFor(p) EXCEPT !.value = @ + Total(new)])

(* The decaying values of peer p become new, and its value follows.  A peer *)
(* that is not tracked gets a temporary entry, even if new has no value.    *)
Revalue(p, new) ==
    /\ decaying' = [q \in Tracked \cup {p} |-> IF q = p THEN new ELSE decaying[q]]
    /\ peers' = Put(p, [TagInfoFor(p) EXCEPT !.value = @ + Total(new) - Total(ValuesOf(p))])

Without(values, t) == [u \in DOMAIN values \ {t} |-> values[u]]

(* What is left of values when the tags of a set decay.                     *)
Decayed(values, tags) ==
    [t \in {u \in DOMAIN values : u \in tags => values[u] > 1} |->
        IF t \in tags THEN values[t] - 1 ELSE values[t]]

Bumped(values, t, delta) ==
    LET v == IF t \in DOMAIN values THEN values[t] ELSE 0
        sum == IF v + delta > MaxValue THEN MaxValue ELSE v + delta
    IN  [u \in DOMAIN values \cup {t} |-> IF u = t THEN sum ELSE values[u]]

Round(to, tags) ==
    /\ dpc' = to
    /\ visit' = tags
    /\ rest' = Peer

(* A tick, j resolutions after the last one: the tags that are due.         *)
Tick(j) ==
    /\ dpc = "select"
    /\ left' = [t \in DecayingTag |-> IF t \in knownTags THEN left[t] - j ELSE left[t]]
    /\ Round("decay", {t \in knownTags : left'[t] <= 0})
    /\ UNCHANGED <<vars, decaying, tagVars, calls, channel, stopped>>

(* mutated VisitPeer: the tags of a tick decay on the peers without a stream *)
VisitTemporary(p, new) == IF p \in Tracked /\ peers[p].temp
                          THEN Revalue(p, new) ELSE UNCHANGED <<peers, decaying>>

VisitPeer(p, new) == IF p \in Tracked THEN Revalue(p, new) ELSE UNCHANGED <<peers, decaying>>

(* One segment of a tick's round.                                           *)
DecayPeer(p) ==
    /\ dpc = "decay"
    /\ p \in rest
    /\ VisitPeer(p, Decayed(ValuesOf(p), visit))
    /\ rest' = rest \ {p}
    /\ UNCHANGED <<mapped, used, connCount, closed, protected, trimVars,
                   tagVars, left, calls, channel, dpc, visit, stopped>>

(* mutated Advance: the next tick is one resolution away                    *)
AdvanceByResolution(t) == left[t] + 1

Advance(t) == left[t] + Interval[t]

DecayEnd ==
    /\ dpc = "decay" /\ rest = {}
    /\ left' = [t \in DecayingTag |-> IF t \in visit THEN Advance(t) ELSE left[t]]
    /\ dpc' = "select" /\ visit' = {}
    /\ UNCHANGED <<vars, decaying, tagVars, calls, channel, rest, stopped>>

Receive(op) ==
    /\ dpc = "select"
    /\ channel[op] # <<>>
    /\ channel' = [channel EXCEPT ![op] = Tail(@)]

TakeBump ==
    LET c == Head(channel["bump"]) IN
    /\ Receive("bump")
    /\ Revalue(c.peer, Bumped(ValuesOf(c.peer), c.tag, c.delta))
    /\ UNCHANGED <<mapped, used, connCount, closed, protected, trimVars,
                   tagVars, left, calls, roundVars, stopped>>

TakeRemove ==
    LET c == Head(channel["remove"]) IN
    /\ Receive("remove")
    /\ Revalue(c.peer, Without(ValuesOf(c.peer), c.tag))
    /\ UNCHANGED <<mapped, used, connCount, closed, protected, trimVars,
                   tagVars, left, calls, roundVars, stopped>>

(* Whatever tag has the name is not tracked any more.                       *)
TakeClose ==
    LET t == Head(channel["close"]).tag IN
    /\ Receive("close")
    /\ knownTags' = knownTags \ Named(Name[t])
    /\ Round("close", {t})
    /\ UNCHANGED <<vars, decaying, created, isClosed, left, calls, stopped>>

(* One segment of a closing.                                                *)
ClosePeer(p) ==
    /\ dpc = "close"
    /\ p \in rest
    /\ LET t == CHOOSE u \in visit : TRUE IN VisitPeer(p, Without(ValuesOf(p), t))
    /\ rest' = rest \ {p}
    /\ UNCHANGED <<mapped, used, connCount, closed, protected, trimVars,
                   tagVars, left, calls, channel, dpc, visit, stopped>>

CloseEnd ==
    /\ dpc = "close" /\ rest = {}
    /\ dpc' = "select" /\ visit' = {}
    /\ UNCHANGED <<vars, decaying, tagVars, left, calls, channel, rest, stopped>>

End ==
    /\ dpc = "select" /\ stopped
    /\ dpc' = "ended"
    /\ UNCHANGED <<vars, decaying, tagVars, left, calls, channel, visit, rest, stopped>>

-----------------------------------------------------------------------------
(* A step of the manager: a new entry has no decaying values, and those of  *)
(* an entry that is deleted are gone with it.                               *)
ManagerStep ==
    /\ Next
    /\ decaying' = [p \in DOMAIN peers' |-> ValuesOf(p)]
    /\ UNCHANGED <<tagVars, left, calls, channel, roundVars, stopped>>

ProcessStep ==
    \/ DecayEnd \/ TakeBump \/ TakeRemove \/ TakeClose \/ CloseEnd \/ End
    \/ \E j \in 1 .. MaxJump : Tick(j)
    \/ \E p \in Peer : DecayPeer(p) \/ ClosePeer(p)

DecayerNext ==
    \/ ManagerStep
    \/ ProcessStep
    \/ Stop
    \/ \E t \in DecayingTag : RegisterDecayingTag(t)
    \/ \E c \in Command : Begin(c) \/ Send(c)

DecayerSpec == DecayerInit /\ [][DecayerNext]_decayerVars

(* The goroutines run, and the select of process takes each channel that    *)
(* stays ready, or comes back ready, some day.                              *)
Fairness ==
    /\ \A c \in Command : WF_decayerVars(Send(c))
    /\ SF_decayerVars(\E j \in 1 .. MaxJump : Tick(j))
    /\ SF_decayerVars(TakeBump) /\ SF_decayerVars(TakeRemove)
    /\ SF_decayerVars(TakeClose) /\ SF_decayerVars(End)
    /\ WF_decayerVars(DecayEnd) /\ WF_decayerVars(CloseEnd)
    /\ \A p \in Peer : WF_decayerVars(DecayPeer(p)) /\ WF_decayerVars(ClosePeer(p))

DecayerFairSpec == DecayerSpec /\ Fairness

-----------------------------------------------------------------------------
(* Properties *)

Holds(p, t) == p \in Tracked /\ t \in DOMAIN decaying[p]

(* The value a trim sorts by is the sum of the peer's tags and of what is   *)
(* left of its decaying tags, although the tags are bumped, decay, and are  *)
(* removed and closed by another goroutine, a segment at a time, between    *)
(* any two steps of TagPeer, Connected, Disconnected and the trims (the     *)
(* updates of p.value in process).                                          *)
ValueIsTotal ==
    \A p \in Tracked :
        peers[p].value = MapThenSumSet(LAMBDA tag : peers[p].tags[tag], Tag)
                           + Total(decaying[p])

(* Between the rounds of process no tracked tag is overdue, nor is its next *)
(* tick more than an interval away, whenever it was registered and however  *)
(* late the ticks come, up to an interval: a tag does not fall behind, and  *)
(* does not skip a decay (nextTick in process and in RegisterDecayingTag).  *)
NoneOverdue ==
    dpc = "select" => \A t \in knownTags : left[t] \in 1 .. Interval[t]

PendingBumps(t) ==
    {c \in calls : c.op = "bump" /\ c.tag = t}
      \cup {c \in {channel["bump"][i] : i \in DOMAIN channel["bump"]} : c.tag = t}

Gone(t) ==
    /\ t \in isClosed \ knownTags
    /\ PendingBumps(t) = {}
    /\ \A p \in Peer : ~ Holds(p, t)

(* Once a tag is closed and gone from every peer, with no bump of it begun  *)
(* and not applied, it is gone for good: no bump of it is begun, no peer    *)
(* gets it back, and it is not tracked again, even if its name is           *)
(* registered anew (the closed flag in Bump, and process, which knows       *)
(* values by tag and not by name).                                          *)
ClosedStaysGone == [][\A t \in DecayingTag : Gone(t) => Gone(t)']_decayerVars

(* A tag that stays tracked and is bumped no more decays away from every    *)
(* peer, connected or not, as long as the decayer runs: a value cannot keep *)
(* a peer's stream for ever (the ticks of process).                         *)
IdleTagDecays ==
    \A t \in DecayingTag :
        <>[](t \in knownTags /\ PendingBumps(t) = {} /\ ~ stopped)
          => <>[](\A p \in Peer : ~ Holds(p, t))
=============================================================================
