------------------------------ MODULE Rotation ------------------------------
(***************************************************************************)
(* The rooms of pkg/hub and the sealing of messages by handleEvents        *)
(* (pkg/node/connection.go), while the one-time password both depend on    *)
(* changes.                                                                *)
(*                                                                         *)
(* A window is an interval of the password.  Every node goes by its own    *)
(* clock: the name of its rooms and the key that seals are those of its    *)
(* window.  A goroutine of Start polls the name and tells the main loop,   *)
(* which leaves the rooms and joins the new ones.  The name is computed    *)
(* anew for each room, the message loop seals and unseals with whatever    *)
(* the key is then, and the reader of a room that was left may still hold  *)
(* a message.                                                              *)
(***************************************************************************)
EXTENDS Windows

CONSTANTS
    Publisher,      \* nodes whose Syncronizer sends
    Cap,            \* capacity of Messages (roomBufSize)
    MaxFailures     \* bound: joins that fail

ASSUME RotationAssumption ==
    /\ Publisher \subseteq Node
    /\ Cap \in Nat \ {0}
    /\ MaxFailures \in Nat

VARIABLES
    clock,      \* node -> its window
    polled,     \* node -> the key the poller has seen last
    told,       \* node -> the poller is sending on the channel
    join,       \* node -> where joinRoom is
    room,       \* node -> the room in m.blockchain
    public,     \* node -> the room in m.public
    failed,     \* node -> the last joinRoom returned an error
    failures,
    sealed,     \* node -> the message its loop is about to publish
    air,        \* messages published and not yet read by all
    reading,    \* node -> the message the reader of its room cannot deliver yet
    late,       \* node -> messages that readers of left rooms still hold
    messages    \* node -> the channel Messages

hubVars == <<polled, told, join, room, public, failed, failures>>
messageVars == <<sealed, air, reading, late, messages>>
vars == <<clock, hubVars, messageVars>>

None == -1

(* A room has the topic of a window; it is dead when its context was        *)
(* cancelled.                                                               *)
NoRoom == [topic |-> None, live |-> FALSE]

Left(r) == [r EXCEPT !.live = FALSE]

Init ==
    /\ clock = [n \in Node |-> 0]
    /\ polled = [n \in Node |-> None]
    /\ told = [n \in Node |-> FALSE]
    /\ join = [n \in Node |-> "idle"]
    /\ room = [n \in Node |-> NoRoom]
    /\ public = [n \in Node |-> NoRoom]
    /\ failed = [n \in Node |-> FALSE]
    /\ failures = 0
    /\ sealed = [n \in Node |-> None]
    /\ air = {}
    /\ reading = [n \in Node |-> None]
    /\ late = [n \in Node |-> {}]
    /\ messages = [n \in Node |-> <<>>]

(* The clocks of two nodes are never more than a window apart.              *)
Rotate(n) ==
    /\ clock[n] < LastWindow
    /\ \A m \in Node : clock[n] <= clock[m]
    /\ clock' = [clock EXCEPT ![n] = @ + 1]
    /\ UNCHANGED <<hubVars, messageVars>>

(* Names and keys are told apart by the window of the password they are     *)
(* made from.                                                               *)
TOTP(n) == clock[n]

Sealkey(n) == TOTP(n)

TopicKey(n) == TOTP(n)

Encrypted(n) == Sealkey(n)

(* GCM opens only what was sealed with the same key.                        *)
Decrypts(n, message) == message = Sealkey(n)

-----------------------------------------------------------------------------
(* MessageHub *)

(* mutated Poll: the poller does not wait for the main loop                 *)
PollAndGo(n) ==
    /\ polled[n] # TopicKey(n)
    /\ polled' = [polled EXCEPT ![n] = TopicKey(n)]
    /\ told' = [told EXCEPT ![n] = join[n] = "idle"]
    /\ UNCHANGED <<clock, join, room, public, failed, failures, messageVars>>

(* The poller of Start sees another key; it then blocks until the main loop *)
(* receives.                                                                *)
Poll(n) ==
    /\ ~ told[n]
    /\ polled[n] # TopicKey(n)
    /\ polled' = [polled EXCEPT ![n] = TopicKey(n)]
    /\ told' = [told EXCEPT ![n] = TRUE]
    /\ UNCHANGED <<clock, join, room, public, failed, failures, messageVars>>

(* An error ends joinRoom, and Start does not look at it.                   *)
Fails(n) ==
    /\ failures < MaxFailures
    /\ failures' = failures + 1
    /\ failed' = [failed EXCEPT ![n] = TRUE]
    /\ join' = [join EXCEPT ![n] = "idle"]

Goes(n, next) ==
    /\ join' = [join EXCEPT ![n] = next]
    /\ UNCHANGED <<failed, failures>>

(* The main loop receives, and joinRoom cancels the rooms it is in: their   *)
(* readers end unless they hold a message.  NewGossipSub may fail.          *)
Leave(n) ==
    /\ told[n] /\ join[n] = "idle"
    /\ told' = [told EXCEPT ![n] = FALSE]
    /\ room' = [room EXCEPT ![n] = Left(@)]
    /\ public' = [public EXCEPT ![n] = Left(@)]
    /\ late' = [late EXCEPT ![n] = @ \cup ({reading[n]} \ {None})]
    /\ reading' = [reading EXCEPT ![n] = None]
    /\ Goes(n, "chain") \/ Fails(n)
    /\ UNCHANGED <<clock, polled, sealed, air, messages>>

Connected(n) == [topic |-> TopicKey(n), live |-> TRUE]

ConnectChain(n) ==
    /\ join[n] = "chain"
    /\ \/ Goes(n, "public") /\ room' = [room EXCEPT ![n] = Connected(n)]
       \/ Fails(n) /\ UNCHANGED room
    /\ UNCHANGED <<clock, polled, told, public, messageVars>>

ConnectPublic(n) ==
    /\ join[n] = "public"
    /\ \/ /\ public' = [public EXCEPT ![n] = Connected(n)]
          /\ failed' = [failed EXCEPT ![n] = FALSE]
          /\ join' = [join EXCEPT ![n] = "idle"]
          /\ UNCHANGED failures
       \/ Fails(n) /\ UNCHANGED public
    /\ UNCHANGED <<clock, polled, told, room, messageVars>>

-----------------------------------------------------------------------------
(* Messages *)

(* The message loop takes what the Syncronizer sends and seals it.          *)
Seal(n) ==
    /\ n \in Publisher
    /\ sealed[n] = None
    /\ sealed' = [sealed EXCEPT ![n] = Encrypted(n)]
    /\ UNCHANGED <<clock, hubVars, air, reading, late, messages>>

(* It publishes when joinRoom does not hold the lock.  Without a room, or   *)
(* in one that was left, the message is lost with an error.                 *)
PublishMessage(n) ==
    /\ sealed[n] # None
    /\ join[n] = "idle"
    /\ air' = IF room[n].live
              THEN air \cup {[to |-> m, topic |-> room[n].topic, key |-> sealed[n]] : m \in Node \ {n}}
              ELSE air
    /\ sealed' = [sealed EXCEPT ![n] = None]
    /\ UNCHANGED <<clock, hubVars, reading, late, messages>>

(* The reader of the room.                                                  *)
Read(n, f) ==
    /\ f \in air /\ f.to = n
    /\ room[n].live /\ room[n].topic = f.topic
    /\ reading[n] = None
    /\ air' = air \ {f}
    /\ reading' = [reading EXCEPT ![n] = f.key]
    /\ UNCHANGED <<clock, hubVars, sealed, late, messages>>

(* mutated Deliver: a reader that finds the channel full ends                *)
DeliverOrEnd(n) ==
    /\ reading[n] # None
    /\ reading' = [reading EXCEPT ![n] = None]
    /\ IF Len(messages[n]) < Cap
       THEN messages' = [messages EXCEPT ![n] = Append(@, reading[n])] /\ UNCHANGED room
       ELSE room' = [room EXCEPT ![n] = Left(@)] /\ UNCHANGED messages
    /\ UNCHANGED <<clock, polled, told, join, public, failed, failures, sealed, air, late>>

Deliver(n) ==
    /\ reading[n] # None
    /\ Len(messages[n]) < Cap
    /\ messages' = [messages EXCEPT ![n] = Append(@, reading[n])]
    /\ reading' = [reading EXCEPT ![n] = None]
    /\ UNCHANGED <<clock, hubVars, sealed, air, late>>

DeliverLate(n, key) ==
    /\ Len(messages[n]) < Cap
    /\ messages' = [messages EXCEPT ![n] = Append(@, key)]
    /\ late' = [late EXCEPT ![n] = @ \ {key}]
    /\ UNCHANGED <<clock, hubVars, sealed, air, reading>>

(* The message loop is not publishing; Unseal succeeds with the same key,   *)
(* and otherwise leaves an empty message that no handler can use.           *)
Take(n) ==
    /\ messages[n] # <<>>
    /\ sealed[n] = None
    /\ messages' = [messages EXCEPT ![n] = Tail(@)]
    /\ UNCHANGED <<clock, hubVars, sealed, air, reading, late>>

Unsealed(n) == Decrypts(n, Head(messages[n]))

-----------------------------------------------------------------------------

HubStep(n) == Poll(n) \/ Leave(n) \/ ConnectChain(n) \/ ConnectPublic(n)

Next ==
    \/ \E n \in Node : Rotate(n) \/ HubStep(n)
    \/ \E n \in Node : Seal(n) \/ PublishMessage(n) \/ Deliver(n) \/ Take(n)
    \/ \E n \in Node, f \in air : Read(n, f)
    \/ \E n \in Node : \E key \in late[n] : DeliverLate(n, key)

Spec == Init /\ [][Next]_vars

(* Time passes and goroutines run on: the poller only sleeps a second, and  *)
(* the select of the message loop, when it can publish and take, does not   *)
(* always choose the one.                                                   *)
FairSpec ==
    /\ Spec
    /\ \A n \in Node :
        /\ WF_vars(Rotate(n)) /\ WF_vars(HubStep(n))
        /\ WF_vars(Seal(n)) /\ WF_vars(PublishMessage(n)) /\ SF_vars(Take(n))
        /\ WF_vars(\E f \in air : Read(n, f))
        /\ WF_vars(Deliver(n) \/ \E key \in late[n] : DeliverLate(n, key))

-----------------------------------------------------------------------------
(* Properties *)

(* A node that has nothing more to do for its key is in both rooms of its    *)
(* window, however rotations fell between the polls, the signals and the    *)
(* two joins; or the error of a join was dropped, and it stays out of one   *)
(* until the next rotation.                                                 *)
SettledIsCurrent ==
    \A n \in Node :
        polled[n] = clock[n] /\ ~ told[n] /\ join[n] = "idle" /\ ~ failed[n] =>
            room[n] = public[n] /\ room[n] = [topic |-> clock[n], live |-> TRUE]

(* When the password has changed for the last time, and no failed join is    *)
(* left behind, every node goes on unsealing what the publishers send.      *)
KeepsHearing ==
    <>[](\A n \in Node : ~ failed[n]) =>
        \A n \in Node : Publisher \ {n} # {} => []<><<Take(n) /\ Unsealed(n)>>_vars
=============================================================================
