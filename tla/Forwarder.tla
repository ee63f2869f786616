----------------------------- MODULE Forwarder -----------------------------
(***************************************************************************)
(* The VPN service of a node, pkg/vpn: readPackets reads the frames that   *)
(* the kernel sends through the virtual interface and hands them to        *)
(* connection workers; a worker looks up who has the frame's address       *)
(* (handleFrame) and writes the frame on the stream the stream manager has *)
(* for that peer, or on a new one, while the manager trims and the ledger  *)
(* changes.                                                                *)
(*                                                                         *)
(* A Write on a closed stream fails; on another it may fail too, for the   *)
(* peer may have reset it, and it has no deadline.  Nor has a read of the  *)
(* interface, which is closed only when readPackets has returned: while    *)
(* the kernel sends nothing, a read does not return.                       *)
(***************************************************************************)
EXTENDS StreamManager, Sequences

CONSTANTS
    Worker,
    Address,
    Self,           \* this node, which is no Peer here
    Own,            \* its address
    Router,         \* where frames to addresses nobody has go, or None
    Tables,         \* peer tables: none of the entries, or some
    Holdings,       \* what the ledger may start with
    Claims,         \* what others may write there: an address and who has it
    Sent,           \* frames that the kernel may send
    Garbled,        \* a machine whose peer cannot be decoded
    Buffer,         \* the capacity of the channel of frames
    MaxFrames,      \* bound: frames the kernel sends
    MaxChanges      \* bound: changes to the ledger by others

Held == Peer \cup {Self, None, Garbled}

ASSUME ForwarderAssumption ==
    /\ IsFiniteSet(Worker)
    /\ Self \notin Peer /\ None \notin Peer \cup {Self}
    /\ Garbled \notin Peer \cup {Self, None}
    /\ Own \in Address /\ None \notin Address /\ Router \in Address \cup {None}
    /\ Tables \subseteq [Address -> Peer \cup {Self, None}]
    /\ Holdings \subseteq [Address -> Held]
    /\ Claims \subseteq Address \X Held
    /\ Sent \subseteq [dst: Address, local: BOOLEAN]
    /\ Buffer \in Nat /\ MaxFrames \in Nat /\ MaxChanges \in Nat

(* Concurrency: without a worker what the channel holds would stay there.   *)
ASSUME WorkerAssumption == Worker # {}

VARIABLES
    table,      \* the peer table, for ever
    machines,   \* address -> who has it in the node's ledger
    changes,    \* how often others changed it
    ctxDone,    \* whether the context has ended
    reader,     \* next step of readPackets
    held,       \* the frame it has read
    arrived,    \* how many frames it has read
    frames,     \* the channel
    opened,     \* streams NewStream returned
    wpc,        \* worker -> next step of handleFrame
    job,        \* worker -> its frame and the address that it goes to
    seen,       \* worker -> what the ledger said since it has the frame
    dest,       \* worker -> the peer its frame goes to
    stream      \* worker -> handleFrame's stream

ledgerVars == <<table, machines, changes>>
readerVars == <<ctxDone, reader, held, arrived, frames>>
workerVars == <<opened, wpc, job, seen, dest, stream>>
managerVars == <<entryVars, closed, protected, trimVars>>
forwarderVars == <<vars, ledgerVars, readerVars, workerVars>>

managerUnchanged == UNCHANGED managerVars
inputUnchanged == UNCHANGED <<ledgerVars, readerVars>>

(* local: the source is the node's own address.                             *)
NoJob == [dst |-> None, local |-> FALSE, to |-> None]

ForwarderInit ==
    /\ Init
    /\ table \in Tables
    /\ machines \in Holdings /\ changes = 0
    /\ ctxDone = FALSE /\ reader = "select" /\ held = NoJob /\ arrived = 0
    /\ frames = <<>>
    /\ opened = {}
    /\ wpc = [w \in Worker |-> "idle"]
    /\ job = [w \in Worker |-> NoJob]
    /\ seen = [w \in Worker |-> {}]
    /\ dest = [w \in Worker |-> None]
    /\ stream = [w \in Worker |-> None]

-----------------------------------------------------------------------------
(* The ledger *)

HeldBy(a, p) ==
    /\ machines' = [machines EXCEPT ![a] = p]
    /\ seen' = [w \in Worker |-> IF wpc[w] \in {"route", "lookup"}
                                 THEN seen[w] \cup {<<a, p>>} ELSE seen[w]]
    /\ UNCHANGED <<table, opened, wpc, job, dest, stream, readerVars>>
    /\ managerUnchanged

(* A tick of what announces the node's own address, whoever else has it.    *)
AnnounceMachine ==
    /\ machines[Own] # Self
    /\ HeldBy(Own, Self) /\ UNCHANGED changes

(* A block of another node is taken over.                                   *)
Learn(a, p) ==
    /\ changes < MaxChanges /\ changes' = changes + 1
    /\ machines[a] # p
    /\ HeldBy(a, p)

-----------------------------------------------------------------------------
(* readPackets *)

Read(from, to) ==
    /\ reader = from /\ reader' = to
    /\ UNCHANGED <<ledgerVars, workerVars>> /\ managerUnchanged

Cancel ==
    /\ ~ ctxDone /\ ctxDone' = TRUE
    /\ UNCHANGED <<ledgerVars, reader, held, arrived, frames, workerVars>>
    /\ managerUnchanged

(* The context is looked at between two frames only.                        *)
NextFrame ==
    /\ Read("select", IF ctxDone THEN "close" ELSE "read")
    /\ UNCHANGED <<ctxDone, held, arrived, frames>>

GetFrame(f) ==
    /\ arrived < MaxFrames /\ arrived' = arrived + 1
    /\ Read("read", "send")
    /\ held' = [dst |-> f.dst, local |-> f.local, to |-> f.dst]
    /\ UNCHANGED <<ctxDone, frames>>

GetFrameFails ==
    /\ Read("read", "select")
    /\ UNCHANGED <<ctxDone, held, arrived, frames>>

(* Workers that wait for a frame make room in the channel.                  *)
Room == Buffer + Cardinality({w \in Worker : wpc[w] = "idle"})

SendFrame ==
    /\ Len(frames) < Room
    /\ Read("send", "select")
    /\ frames' = Append(frames, held) /\ held' = NoJob
    /\ UNCHANGED <<ctxDone, arrived>>

CloseFrames ==
    /\ Read("close", "wait")
    /\ UNCHANGED <<ctxDone, held, arrived, frames>>

Return ==
    /\ \A w \in Worker : wpc[w] = "ended"
    /\ Read("wait", "over")
    /\ UNCHANGED <<ctxDone, held, arrived, frames>>

-----------------------------------------------------------------------------
(* handleFrame *)

Step(w, from, to) == wpc[w] = from /\ wpc' = [wpc EXCEPT ![w] = to]

(* The addresses do not matter any more.                                    *)
Forget(w) ==
    job' = [job EXCEPT ![w] = NoJob] /\ seen' = [seen EXCEPT ![w] = {}]

(* The frame is done with, for better or worse.                             *)
Done(w, from) ==
    /\ Step(w, from, "idle") /\ Forget(w)
    /\ dest' = [dest EXCEPT ![w] = None] /\ stream' = [stream EXCEPT ![w] = None]

Now == {<<a, machines[a]>> : a \in Address}

(* connectionWorker: the next frame.                                        *)
Take(w) ==
    /\ frames # <<>>
    /\ Step(w, "idle", "route")
    /\ frames' = Tail(frames)
    /\ job' = [job EXCEPT ![w] = Head(frames)]
    /\ seen' = [seen EXCEPT ![w] = Now]
    /\ UNCHANGED <<ledgerVars, ctxDone, reader, held, arrived, opened, dest, stream>>
    /\ managerUnchanged

(* mutated Closed: nobody closes the channel                                *)
ClosedNever == FALSE

Closed == reader = "wait"

(* The channel is closed and empty.                                         *)
EndWorker(w) ==
    /\ Closed /\ frames = <<>>
    /\ Step(w, "idle", "ended")
    /\ UNCHANGED <<opened, job, seen, dest, stream>>
    /\ inputUnchanged /\ managerUnchanged

(* No header can be decoded.                                                *)
Unparsed(w) ==
    /\ Done(w, "route")
    /\ UNCHANGED opened /\ inputUnchanged /\ managerUnchanged

(* mutated Fallback: an address that the ledger knows is routed as well     *)
FallbackAlways(w) == Router # None /\ job[w].local

Fallback(w) == Router # None /\ job[w].local /\ machines[job[w].dst] = None

Route(w) ==
    /\ Step(w, "route", "lookup")
    /\ job' = [job EXCEPT ![w].to = IF Fallback(w) THEN Router ELSE @]
    /\ UNCHANGED <<opened, seen, dest, stream>>
    /\ inputUnchanged /\ managerUnchanged

(* The peer table alone counts if there is one.                             *)
Holder(a) == IF \E b \in Address : table[b] # None THEN table[a] ELSE machines[a]

Lookup(w) ==
    /\ Step(w, "lookup", "look")
    /\ Holder(job[w].to) \notin {None, Garbled}
    /\ dest' = [dest EXCEPT ![w] = Holder(job[w].to)]
    /\ UNCHANGED <<opened, job, seen, stream>>
    /\ inputUnchanged /\ managerUnchanged

NotFound(w) ==
    /\ Done(w, "lookup")
    /\ Holder(job[w].to) \in {None, Garbled}
    /\ UNCHANGED opened /\ inputUnchanged /\ managerUnchanged

(* HasStream: the stream the peer's map holds.                              *)
CachedStreams(p) == IF p \in Tracked THEN Conns(peers[p].conn) ELSE {}

LookFound(w, c) ==
    /\ c \in CachedStreams(dest[w])
    /\ Step(w, "look", "reuse") /\ Forget(w)
    /\ stream' = [stream EXCEPT ![w] = c]
    /\ UNCHANGED <<opened, dest>> /\ inputUnchanged /\ managerUnchanged

LookNone(w) ==
    /\ CachedStreams(dest[w]) = {}
    /\ Step(w, "look", "open") /\ Forget(w)
    /\ UNCHANGED <<opened, dest, stream>>
    /\ inputUnchanged /\ managerUnchanged

(* The frame goes out on the cached stream, and nothing is closed.          *)
Reuse(w) ==
    /\ stream[w] \notin closed
    /\ Done(w, "reuse")
    /\ UNCHANGED opened /\ inputUnchanged /\ managerUnchanged

ReuseFails(w) ==
    /\ Step(w, "reuse", "drop")
    /\ UNCHANGED <<opened, job, seen, dest, stream>>
    /\ inputUnchanged /\ managerUnchanged

(* The manager is told, which may not know the stream by now.               *)
Drop(w) ==
    /\ Step(w, "drop", "open")
    /\ stream' = [stream EXCEPT ![w] = None]
    /\ \/ Disconnected(stream[w])
       \/ ~ IsTracked(stream[w]) /\ managerUnchanged
    /\ UNCHANGED <<opened, job, seen, dest>> /\ inputUnchanged

NewStream(w, c) ==
    /\ c \notin opened /\ RemotePeer[c] = dest[w]
    /\ Step(w, "open", "track")
    /\ opened' = opened \cup {c}
    /\ stream' = [stream EXCEPT ![w] = c]
    /\ UNCHANGED <<job, seen, dest>> /\ inputUnchanged /\ managerUnchanged

(* Also when the address turned out to be the node's own.                   *)
NewStreamFails(w) ==
    /\ Done(w, "open")
    /\ UNCHANGED opened /\ inputUnchanged /\ managerUnchanged

Track(w) ==
    /\ Step(w, "track", "write")
    /\ Connected(stream[w])
    /\ UNCHANGED <<opened, job, seen, dest, stream>> /\ inputUnchanged

(* The frame goes out on the new stream, or is lost with its error.         *)
WriteNew(w) ==
    /\ Step(w, "write", "close")
    /\ UNCHANGED <<opened, job, seen, dest, stream>>
    /\ inputUnchanged /\ managerUnchanged

(* mutated Closes: handleFrame leaves the stream it cached open             *)
ClosesUncached(c) == IF IsTracked(c) THEN {} ELSE {c}

Closes(c) == {c}

(* The deferred Close, whether the manager has the stream or not.           *)
CloseNew(w) ==
    /\ Done(w, "close")
    /\ closed' = closed \cup Closes(stream[w])
    /\ UNCHANGED <<opened, entryVars, protected, trimVars>> /\ inputUnchanged

-----------------------------------------------------------------------------

ReaderStep == NextFrame \/ SendFrame \/ CloseFrames \/ Return

ReadStep == GetFrameFails \/ \E f \in Sent : GetFrame(f)

HandleStep(w) ==
    \/ EndWorker(w) \/ Take(w) \/ Unparsed(w) \/ Route(w) \/ Lookup(w) \/ NotFound(w)
    \/ LookNone(w) \/ Drop(w) \/ NewStreamFails(w) \/ Track(w) \/ CloseNew(w)
    \/ \E c \in Stream : LookFound(w, c) \/ NewStream(w, c)

WriteStep(w) == Reuse(w) \/ ReuseFails(w) \/ WriteNew(w)

(* What the program calls of the manager beside: nothing but its own        *)
(* background trims, and the time that passes.                              *)
ManagerRuns ==
    \/ BackgroundTick \/ TrimStep(Background)
    \/ \E p \in Peer : Age(p)

ForwarderNext ==
    \/ AnnounceMachine \/ \E c \in Claims : Learn(c[1], c[2])
    \/ Cancel \/ ReaderStep \/ ReadStep
    \/ \E w \in Worker : HandleStep(w) \/ WriteStep(w)
    \/ ManagerRuns /\ UNCHANGED <<ledgerVars, readerVars, workerVars>>

ForwarderSpec == ForwarderInit /\ [][ForwarderNext]_forwarderVars

(* NewStream has a timeout.  A read of the interface and a write on a       *)
(* stream have none, and owe nothing.                                       *)
FairForwarderSpec ==
    /\ ForwarderSpec
    /\ WF_forwarderVars(ReaderStep)
    /\ \A w \in Worker : WF_forwarderVars(HandleStep(w))
-----------------------------------------------------------------------------
(* Properties *)

(* No stream is left open: one that is open belongs to a worker that has    *)
(* yet to close it, however the workers replace and drop each other's       *)
(* streams in the manager; and none when readPackets has returned, with no  *)
(* frame left behind.                                                       *)
OpenIsHeld ==
    /\ \A c \in opened \ closed :
        \E w \in Worker : stream[w] = c /\ wpc[w] \in {"track", "write", "close"}
    /\ reader = "over" => opened \subseteq closed /\ frames = <<>>

(* A frame goes to a peer that had its address at some moment since the     *)
(* worker took the frame, although the ledger is read twice; to the router  *)
(* only if it is the node's own, and its address was nobody's at such a     *)
(* moment.  The stream it goes on is that peer's.                           *)
RoutedToHolder ==
    \A w \in Worker :
        /\ wpc[w] = "look" =>
            /\ \/ <<job[w].to, dest[w]>> \in seen[w]
               \/ table[job[w].to] = dest[w]
            /\ \/ job[w].to = job[w].dst
               \/ job[w].local /\ job[w].to = Router /\ <<job[w].dst, None>> \in seen[w]
        /\ stream[w] # None => RemotePeer[stream[w]] = dest[w]

(* Once its context has ended and it is not in a read of the interface, the *)
(* service ends, with all that it has read sent or dropped, if the writes   *)
(* of its workers return: a full channel, workers that drop each other's    *)
(* streams and trims do not keep it.  An idle interface does: the context   *)
(* is looked at between two reads only.                                     *)
Stops ==
    (\A w \in Worker : []<>(wpc[w] \notin {"reuse", "write"})) =>
        (ctxDone /\ reader # "read" ~> reader = "over")
=============================================================================
