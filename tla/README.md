# EdgeVPN in TLA+

EdgeVPN builds a virtual network between peers that find each other over
libp2p.  The peers share no server: what a peer must know of the others (who
has which address, which services and files exist, who is trusted, which role a
node has) is kept in a small replicated ledger that every node gossips, and
frames of the virtual network interface travel on libp2p streams that a stream
manager caches and trims.

This directory models those parts in TLA+, checks them with TLC on small
instances, and proves what matters most with TLAPS for every value of the
constants.  The code is in Go, under `src/`; paths below are relative to it.

1. [Inventory](#inventory): the system's parts, their state, their hard behaviours
2. [Modules](#modules): which module models what, and how
3. [Runs](#runs): what TLC checks, with which bounds and which fairness
4. [Proofs](#proofs): what is proved, and along which argument
5. [Disagreements](#disagreements): where the code does not do what is said of it
6. [Limits](#limits): what is not modelled, and why

## Inventory

How the parts meet: a node's services call its **ledger**, directly or through
the **announcing loops**; the ledger sends on a channel to the **event loop**,
which seals the message and has the **hub** publish it in a gossipsub room.
What arrives in the room goes through the **trust zone**'s gate to the handlers,
of which the ledger's `Update` is one.  The hub's rooms need peers, whom
**discovery** finds.  **VPN**, **DHCP**, **services**, **files** and **egress**
read the ledger and open streams; the **stream manager** is the VPN's cache of
streams, with the **decayer** beside it.  The **HTTP API** and its **client**
are a way to the ledger's operations from outside, and **service nodes** are
built on the client.

### Ledger (`pkg/blockchain`)

*State.*  A node keeps the **last block** of its chain and nothing else:
`Store` is a `MemoryStore` (a field) or a `DiskStore` (a file for the block, one
for the index).  A block is an index, a storage (bucket -> key -> value), the
hash of the previous block, a timestamp and its own hash.

*Operations.*  `Add`, `Delete` and `DeleteBucket` copy the storage of the last
block under the ledger's lock and hand the changed copy to `writeData`, which
makes a block, validates it, takes the lock to store it, and publishes the last
block.  `Update` handles a gossiped block: a higher index replaces the last
block.  `Syncronizer` publishes the last block periodically.

*Hard.*  `writeData` reads the store three times without the lock, so a block
may be built on one head, validated against another and stored over a third;
copies go stale and updates are lost; gossip loses, repeats and reorders;
restarts begin at genesis.

*Correct when* only blocks that were stored are seen, the blocks form one tree,
an index never exceeds the writes made, and nodes come to agree.

### Announcing loops (`pkg/blockchain/ledger.go`, `pkg/utils/ticker.go`)

`AnnounceUpdate` writes a value whenever a tick finds it missing, forever;
`Persist` and the two `AnnounceDelete...` loops cancel themselves at the first
tick that finds their aim reached, or at a timeout.  All network services, the
DHCP, DNS, files, egress and the API stand on them.

*Hard.*  The tick's read and the write's read are separate; loops fight each
other and stale copies.  *Correct when* what is announced forever ends up
visible for good.

### Node event loops (`pkg/node`)

Two goroutines run `handleEvents`, one for the ledger's room and one for the
public room.  Each is the only reader of its outgoing channel (`inputCh`,
`genericHubCh`) and of its room's buffered channel.  The `Syncronizer` and the
workers send on the outgoing channels; handlers take the ledger's lock.
`Node.Start` then starts the network services in the order of their
registration, and a service that does not return keeps the later ones from
starting.

*Hard.*  Bounded channels and a lock that meet in both directions.  *Correct
when* nobody waits for ever, and what is registered starts.

### Message hub and crypto (`pkg/hub`, `pkg/crypto`)

*State.*  The two rooms, the contexts of their readers, the channels of
messages, a lock.  The rooms are named by a one-time password, and what is
published is sealed with another one of the same window of time.  A goroutine
polls the name and tells the main loop, which cancels both rooms and joins the
new ones (`joinRoom`); `PublishMessage` takes the lock `joinRoom` holds.

*Hard.*  Messages, publishers, readers of left rooms and further rotations
overlap the change; an error of `joinRoom` is dropped after the old rooms were
cancelled.  *Correct when* a hub at rest is in the rooms of its window, and
messages are understood again after a rotation.

### Trust zone (`pkg/trustzone`)

*State.*  A bucket of the ledger with the trusted peers, another with public
keys; each node's copy of the first (`trustDB`), refreshed by a ticker; whether
the gate is on.  *Operations.*  The gate refuses messages of peers not in the
copy; a node that does not find itself in the zone sends signed challenges on
the public room, and who can verify one adds the sender with a `Persist` loop;
the autoclean deletes peers; the API switches the gate.  The sender of a message
is the neighbour it came from (`room.go`:97), which need not be its author.

*Hard.*  The gate decides by a copy of what the messages it refuses would
change; loops run on for two minutes; restarts empty copies and ledgers; what is
signed by one node comes from the hand of another.
*Correct when* only those who proved a key, or brought such a proof, are trusted,
closed gates keep out what others write, and two trustworthy neighbours do not
shut each other out.

### Stream manager (`pkg/stream/manager.go`)

*State.*  Segments (by peer) of entries `peerInfo`: tags, their sum, a map of
streams, `temp`, `firstSeen`; protected peers; `connCount`; `trimCount` and two
mutexes.  *Operations.*  `TagPeer`, `UpsertTag`, `UntagPeer`, `Protect`,
`Unprotect`, `Connected`, `Disconnected`, `HasStream`, `TrimOpenConns` and the
background trim.

*Hard.*  A trim copies entries segment by segment and acts on the copies; the
background goroutine does not take the trims' mutex; a counter is kept beside
the maps.  *Correct when* the counter covers the streams, a trim leaves the low
watermark, protected peers are passed over, and a caller that returns was
served by a trim.

### Decayer (`pkg/stream/decay.go`)

Tags whose values decay: a goroutine owns timers, bumps, removals and closings
that arrive on bounded channels.  *Hard.*  Full channels, late ticks, and commands
for tags that were closed.  *Correct when* values are the sums of their tags, no
tag is overdue, closed tags do not come back, and idle ones decay.

### VPN (`pkg/vpn/vpn.go`, `interface*.go`)

`readPackets` hands frames of the TUN device to connection workers; a worker
looks up the peer of an address in the peer table or the ledger (with the router
for addresses nobody has), takes the peer's cached stream or opens one, and
writes the frame (`handleFrame`).  `streamHandler` writes received frames to the
device if the sender owns an address.

*Hard.*  Workers and trims close, replace and drop each other's streams; the
ledger is read twice; shutdown waits for workers that wait for frames, and for a
read of the device that has no deadline.  *Correct
when* frames go to holders of their addresses and nothing is left open or
running.

### DHCP, leader, alive (`pkg/vpn/dhcp.go`, `pkg/utils/leader.go`, `pkg/utils/ip.go`, `pkg/services/alive.go`)

A node without address waits until it is the leader among the alive nodes that
have none, picks the next free address of its own ledger and announces it.
*Hard.*  Nodes, addresses and leader are read at different moments, from the
node's own copy of the ledger, where entries are missing until they arrive, or
until they are announced again after an older copy was written over them; an
address is announced long after it was chosen, its lease on disk may fail to be
written, and loops of `Persist` still write when their node has stopped leading.  *Correct when* addresses are unique and everyone
who asks is served.

### Services, files, egress and proxy (`pkg/services`)

A node that offers a service, a file or an exit announces it in the ledger; a node
that connects announces itself as a user, looks the name up and opens a stream;
the peer looks the caller up in its own ledger, and serves it or resets the
stream.  Two goroutines on either side copy bytes until one connection ends; a
file's handler and receiver copy once.  A proxy draws an exit among those whose
health checks are fresh.

*Hard.*  Ledgers that lag, on either side; ends in any order with one signal
channel; writes without a deadline; one handler per protocol; errors that leave a stream as it is.
*Correct when* a call reaches what it asked for, leaves nothing behind, and what
is offered is announced.

### Service nodes (`api/client/service`)

A service node advertises itself through the API of some node, counts the health
checks in the ledger, and when they are enough runs the role a coordinator has set
for it, in every round anew.  *Hard.*  All roles share a bucket that coordinators
set, overwrite and delete, and an API that does not answer looks like a network
without nodes.  *Correct when* a node runs a role that stays, again and
again.

### Discovery (`pkg/discovery`)

A goroutine joins the DHT through bootstrap peers, adds the rendezvous of the
current window to a short ring, and for each rendezvous in it advertises the node
and connects to those found; mDNS works beside it.  *Hard.*  Clocks differ by a
window, a round that timed out runs on beside its successor over the same ring,
bootstrap peers fail and connections are lost.  *Correct when* nodes meet again
and again.

### HTTP API and client (`api`, `api/client`)

Handlers that start `Persist` and deletion loops on the ledger, switch the gate, and
list what the ledger and the host hold; the client makes one request and checks the
state in the answer.  *Hard.*  The answer says that a loop was started, not that it
reached its aim, and a lost answer may belong to a loop that runs.

### DNS (`pkg/services/dns.go`)

Records are announced with the same loops.  A resolver answers each request in a
goroutine of its own: from one read of the ledger, or, if it forwards, from a cache of
what other servers answered, or from these servers, one after the other.  *Hard.*  The
cache never expires while records come and go, requests that read the ledger before
are still on their way, and servers fail or do not know.  *Correct when* records that
stay in the ledger are what the resolver answers in the end.

### Configuration and command line, service processes, TUN device, logging

They read options once, or talk to the operating system.

## Modules

| module | models | extends |
| --- | --- | --- |
| `BlockTree` | what the ledgers of a network promise together, in 60 lines | |
| `Ledger` | `ledger.go`, `block.go`, the stores, gossip, restarts | |
| `Announce` | the four announcing loops, and the API calls that start them | `Ledger` |
| `DNS` | the resolver of `dns.go`, over announced records | `Announce` |
| `EventLoop` | the goroutines, channels and lock of one node | |
| `Windows` | the nodes and the windows of the one-time password | |
| `Rotation` | the hub's rooms and the sealing of messages while passwords change | `Windows` |
| `TrustZone` | gate, challenges, autoclean, over gossiped ledgers | |
| `StreamManager` | `manager.go` | |
| `Decayer` | `decay.go` | `StreamManager` |
| `Forwarder` | `readPackets`, the choice of the peer, `handleFrame`, the workers | `StreamManager` |
| `DHCP` | `dhcp.go`, `alive.go`, `leader.go`, `ip.go`, the announcing of addresses | |
| `Services` | `services.go`, `files.go`, `egress.go`, the start of services | |
| `Roles` | service nodes, over the same ledger | `Services` |
| `Discovery` | the rounds, the ring of rendezvous, mDNS | `Windows` |
| `LedgerProofs` | theorems of `Ledger`, by itself and under the announcing loops and the resolvers | `DNS` |
| `EventLoopProofs`, `TrustZoneProofs`, `StreamManagerProofs`, `DHCPProofs` | theorems | the module they name |
| `StreamUsersProofs` | theorems of `Decayer` and `Forwarder` | both, and `StreamManagerProofs` |
| `ServicesProofs` | theorems of `Services` | `Roles` |
| `WindowProofs` | theorems of `Rotation` and `Discovery` | both |
| `MC...` | the small instances | the module they name (`MCServices`: `Roles`, `MCAnnounce`: `DNS`) |

**Ledger.**  `chain[n]` is the last block of node `n`.  A worker is a goroutine
that calls the ledger; `pc`, `draft` and `block` are where it is in its call and
the locals of `writeData`.  A section of the code under the lock is one action
(`Add`, `Delete`, `DeleteBucket`: the copy; `Store`: the write), and so is every
read outside it (`Make`, `Validate`, `Publish`).  `net` holds every message ever
published and none leaves it, so delivery late, twice, out of order or never is
in the model.  `stored` is a history variable.  A hash is the identity of a
block (who made it, in which call): SHA-256 over contents and a timestamp does
not collide.  `Restart` starts a node from genesis or from its disk.  A
`DiskStore` writes the block's file and then the index's: the block of a new index
is not found before the second write, and the block of an index that is there
already is found from the first on, so either way one of the two writes is the
moment of the store, and what a reader or a restart finds is the store of before
or of after.  (Left out: a reader that has read the index, is overtaken by other
stores, and then finds a block that is being written again at its index, a moment
ahead of that store.)  `BlockTree` is the abstract specification: a head moves to a fresh
child of a stored block, to a higher stored block, or back to genesis.  It says on
purpose neither that a new block extends the node's own head nor that heads meet:
the code provides neither.

**Announce.**  Each worker runs one loop out of `Tasks`.  `ClientPut`,
`ClientDelete` and `ClientDeleteBucket` are the API's handlers, which start a loop
and answer at once; the client may or may not get the answer.
`Tick` is the read under the lock, `due` remembers that it decided to write,
`Write` begins the call, which is `Ledger`'s.  `Cancel`, `Timeout` and
`RestartLoops` end loops or begin them anew.

**DNS.**  `query[q]` is where goroutine `q` is with its request, `cache[n]` the LRU cache
of a resolver.  `ParseQuery` is the loop over the records: which name an expression
matches, and which record has an entry of a type, are constants (`Matches`, `Typed`),
and since the order of a map is any, so is the record that answers.  `ForwardQuery` looks
in the cache.  A server fails or has no answer (`QueryFails`), has one that is kept
(`QueryDNS`), or has one beside an error that is not (`NameError`); an answer that does
not fit comes empty, counts as a success, and stays in the cache until other questions
push it out.  `RestartResolver` ends the requests and the cache with the node, also when
a request is not a query: the response is nil then, and filling it in panics (:134).

**EventLoop.**  A channel is the number of messages in it; a goroutine is the
place it waits at.  The lock is held across a blocking send only by the
Syncronizer, so the lock is taken exactly when `pc["sync"] = "locked"`, and
every other section under the lock is one action guarded by `LockFree`.

**Rotation.**  Names and keys are told apart by the window they were made from;
`clock[n]` is the window of node `n`, and no two are more than one apart.  `Poll` is
the goroutine that notices a new name, `Leave`, `ConnectChain` and `ConnectPublic`
are `joinRoom`, each with its error; the name is computed anew for every room, so
that the two can differ.  `Seal` and `PublishMessage` are apart because the key is
read before the lock is taken.  `reading` is the message a reader of a room holds
while the channel is full, `late` what readers of left rooms still hold.

**TrustZone.**  A ledger is one last block per node, and a call that writes to it
is one action: what its parts may do to each other is in `Ledger`.  Only the order of
indices matters, so they are kept relative to the lowest.  A network is given by the
modes of its nodes (the ways the gate may be configured; `plain` is a node that has
none) and by `routes`: what `m` publishes may reach `n` from the hand of `f`, who is
`m` itself or a neighbour of both, for the nodes of a room hand messages on before
they look at them.  `Gossip(n, f, m)` is gated by `f`, and
`Challenge(p, f, n)`, a tick of `p` and the handler of `n`, verifies what `p` signed
and adds `f`, as the code does with `SenderID`.  Delivery of a challenge is not delayed
beyond that, which loses nothing, for a tick sends the same again.  `Couriers` are the
guarded nodes that may bring a signer's challenge, `Trusted` those and the signers.
`foreign` is a history variable: a node that cannot sign wrote to the block or to one it
came from.  `services` are the nodes that announce something of their own.
`CleanKey` deletes whether or not the peer was found, as the code does.

**StreamManager.**  Every peer is in a segment of its own, which has more
interleavings than the code's shared segments.  A trim visits one peer per
action and keeps copies of entries in `trim[t].cands`.  `Connected` replaces the
map of streams of an entry, so a map is known by the stream it was made for and
`mapped` says which maps still hold theirs: a copy of an entry shares the map
with the original until `Connected` replaces it.  `Age` ends a grace period.

**Decayer.**  `process` is one goroutine; a tick and a closing visit the segments
one action at a time, between which the manager runs (`ManagerStep`).  `Begin` is
the look at the closed flag and `Send` the send, which a full channel refuses.
Time is relative: `left[t]` is the distance from the last tick to the tag's next
one, in resolutions.  A bump that was begun before `Close` may be taken after it:
the peer then holds a value of a tag that is no longer tracked and that no tick
takes off, unless the entry is deleted, in spite of the comment that closing
removes the tag from all peers (`decay.go`:290).  `ClosedStaysGone` says what does
hold.

**Forwarder.**  `reader` is where `readPackets` is, `wpc[w]` where worker `w` is in
`handleFrame`, from the channel of frames to the deferred `Close`.  Between any two
looks at the ledger, calls of the manager or operations on a stream, other workers,
the background trim, other nodes' blocks and the node's own announcing run.  With a
peer table the ledger is not asked for the peer, although the router's condition
still is (`vpn.go`:230-236).  A `Write` may not return: it has no deadline.  Nor has a
read of the device (`ReadStep`), and the device is closed only after `readPackets` has
returned (`vpn.go`:75), so nothing ends a read for which no frame comes.

**DHCP.**  A node reads and writes its own copy of the ledger, the replica `home[n]`,
with the three buckets the negotiation uses; nodes whose ledgers are in step share one.
A write puts its change on a copy taken before, as old as what any replica has
(`Copies`), and `Gossip` replaces a replica by one of a higher index, so either loses
entries, until their owners announce them again (`AnnounceAddress`, `Beat`).  A pass of
the loop reads piece by piece (`ReadNodes`, `ReadMachines`, then the leader), and
`PersistTick` decides what `PersistWrite` writes later.  `Scrub` is a tick of `Alive`
that cleans, `Expire` a health check that has become too old.  Nodes in `Silent` are
alive without a VPN.  `address` is what a node has taken, `lease` what is on its disk:
`Choose` takes the address whether or not the lease could be written, and `Restart`
comes back with the lease, and, if no other node shares its replica, with or without its
ledger.  A node keeps its peer id when it restarts, no two hashes are equal, and
addresses are numbers, so `NextIP` leaving the /24 is not in the model.  `met`,
`partial` and `forgot` are history variables: whose address a replica ever had, whether
a pass went on with an incomplete list of nodes or lacked an address its ledger had
before, and who restarted without its address.  A node that starts with a lease is in
every replica from the start: one whose address is not in the ledger yet can lose it to
a newcomer, who takes the next after those announced.

**Services.**  A deployment says what is registered with each node, in order, and
who calls what; `StartNext` is `Node.Start`.  A call is a record: where its two
goroutines are (`at`, `serve`), what it read from the ledger, which ends are closed,
by whom, which copying goroutines run, which of them are in a `Write` that nobody
reads (`stalled`), and which signals wait.  `HangUp` and `Reset` are the applications and
the network, at any time; a stalled goroutine does not see its source end, and returns
(`StallEnds`) when its own end is closed, the application there hangs up or the stream
is reset.  A request to a proxy ends at the
opening of its stream: the drawing of an index below the number of candidates less
one panics for fewer than two of them (`egress.go`:163; `net/http` recovers and closes
the connection), and with more the printed form of an id is taken for the id
(:168), which no peer has.  The ledger is as in `TrustZone`, one write an action.

**Roles.**  `Count`, `GetRole` are a round of the service node's loop, `Start` its
beginning, with the roles configured as persistent or default; `ran` has the roles run
in the present round, and each round begins it anew; `Set` and `Clean` are
the loops behind the API, `Beat` and `Scrub` the health checks.  An API that does not
answer (`CountFails`, `GetFails`) is a network without nodes.

**Discovery.**  A round goes through bootstrap, the ring, and for each rendezvous
advertising and finding.  `round` is the one the goroutine waits for and `behind` one
that timed out and still runs, over the same ring.  `NextWindow` moves the clock of all,
with `Skew` between them.

A definition with the comment "mutated X" is a variant of `X` with a
plausible bug.  No specification uses it; substituted for `X` it makes TLC
violate the property `PROJECT.json` names, which shows that the property
depends on that piece of code.

## Runs

Twelve configurations at most, so each asks as much as its state space allows.

| run | checks | bounds |
| --- | --- | --- |
| `ledger` | `TypeOK`, `NothingUnstoredIsSeen`, `Grounded`, `IndexCountsWrites`, `ImplementsTree` | two workers on one node, one on a node with a disk, a call each, a restart of either node |
| `announce` | `Resolved`, `AnnouncedAtHome`, `AnnouncedSettles`, `IndicesAgree` | an announcer beside another loop: four combinations on one node, three on two nodes, one of which may restart once; four writes a worker, one write for a loop with a timeout; or an announcer alone beside a resolver on the other node, with one request at a time, two questions, of which the ledger has one, two servers and a cache of one |
| `eventloop` | `TypeOK`, `OnlyTheWedgeBlocks`, `WedgeIsForEver`, `WorkIsDone` | a worker, outgoing channels of two messages, rooms of one |
| `rotation` | `SettledIsCurrent`, `KeepsHearing` | two nodes, one of which publishes; two windows; channels of one; two failed joins |
| `trust` | `OnlySigners`, `ClosedIsClean`, `NobodyShutOut` | two nodes that can sign and one that cannot: two of the three in six combinations of gates, with two restarts or passes of the autoclean, which one node runs; and all three without these, the third beside both, behind one, or between them |
| `trust_clean` | violation of `AutocleanSparesPeers` | the same |
| `stream` | `ValueIsSum`, `TrackedHasItsStream`, `CountCoversConnected`, `ProtectedIsNoCandidate`, `TrimLeavesLowWater`, `TrimmedSinceCalled` | two peers with a stream each, a tag, two callers and the background, a counted trim |
| `decayer` | `ValueIsTotal`, `NoneOverdue`, `ClosedStaysGone`, `IdleTagDecays` | a peer with a stream, two tags of one name, intervals of two resolutions, queues and calls of one |
| `forward` | `OpenIsHeld`, `RoutedToHolder`, `Stops` | two frames, two workers, three streams, two of them to one peer; with and without a peer table; a change of the ledger |
| `dhcp` | `UniqueWhileComplete`, `OneAddressPerNode`, `EveryoneServed` | two nodes that ask, one silent node; one loop of `Persist` each; over one replica, no leases or one, a restart and a loss of health checks; over two, of which one leads by a block at most, everybody alive, and no leases or one of the other node and a restart |
| `services` | `RightService`, `NothingLeft`, `Offered`, `RoleTaken` | one call in a network of two or three nodes, of five kinds, or a service node in two; one fault; writes stall at any time |
| `discovery` | `KeepsLast`, `Met` | two nodes, three windows, clocks a window apart; one time-out or loss of connections |

*What they show.*

- `ledger`: however `writeData`'s three reads fall among other writers and gossip,
  only stored blocks are seen, every block has a stored parent, and every step is one
  of the abstract tree.
- `announce`: what is announced forever is visible at home in the end, whatever
  deletes or overwrites it; everywhere too, if all announcers share a node and none
  restarts; and indices agree when writing ends.  A resolver answers with the records that
  stay in its ledger in the end, whatever its cache holds of other servers.
- `eventloop`: the Syncronizer's send under the lock can wedge a node
  (`ledger.go`:82); nothing else can, and nothing ends the wedge.
- `rotation`: a hub at rest is in the rooms of its window unless a join's error was
  dropped, and messages are understood again after a rotation.
- `trust`: the zone holds signers and those who brought a signer's challenge; closed
  signers stay clean, transitively, while nobody whom a zone may hold brings them blocks
  of a foreign author; and two neighbours that sign always have a way back to each
  other, within the conditions of `Undisturbed`.  With a third node that keeps old
  blocks, with three relaxed signers, or with two signers that both run the autoclean,
  TLC finds that they do not.
- `stream`, `decayer`: counters, sums and timers fit what they count through every
  interleaving of trims, callers, and ticks.
- `forward`: whatever workers and trims do to each other's streams, each stream is
  closed, each frame goes to a holder of its address, and the service ends once it is out
  of its last read.
- `dhcp`: addresses are unique until somebody decides on a list that lacks a node or an
  address its ledger had before, although replicas lag and lose entries; a node comes
  under one address unless it restarts without its lease; and over one replica everyone
  whom no silent node outranks is served.
- `services`: calls reach what they asked for over ledgers however old, and leave no
  goroutine and no connection unless a write stalls for ever; names are announced unless something that connects is
  registered first; a role that stays in the
  ledger is run again and again, although the API fails now and then.
- `discovery`: rings keep what neighbours in time share, although two rounds may use
  one at once, and nodes meet again and again.

*Why the bounds are enough.*  `ledger`: three concurrent calls give every
overlap of `writeData`'s three reads with two other writers, on the node and
beyond, and a restart that puts low indices beside travelling high ones.
`announce`: the bound `MaxCalls` on writes does not cut announcing short, or
`AnnouncedAtHome` would fail where it does; a loop with a timeout may be cut to
`MaxTries` writes, which the timeout does anyway.  Requests share the cache only, which one
request at a time fills, uses and overflows: two questions and a cache of one.  `eventloop`: a channel is
empty, partly filled and full; more slots only repeat the middle.  `rotation`: the
first join and one rotation, with clocks apart and together again; two failures
are one in each, or two in a row; a channel of one is full with one message.
`trust`: `Announce` goes on for ever, with indices kept relative to the lowest:
`MaxAhead` bounds by how much a node may lead, which gossip makes up for.  Faults are
left to the pairs, and the third node's place to the trios, which have none; the proofs
have any network with any number of faults.
`stream`: two candidates with a low watermark of one are the least that make a trim
choose; callers and peers are alike, which the symmetry uses (all its properties are
invariants).  `decayer`: queues of one are empty or full, two tags of a name
are the least for a name to be registered again, and an interval of two with
ticks up to two apart gives ticks in time, early and late.  Ordinary tags are left
to `stream` (`ValueIsSum`), and no trim selects anything at its watermarks.  A
tick that comes later than an interval is outside `NoneOverdue`: `nextTick` then
falls behind and the tag decays at every tick until it has caught up.  `forward`: two
workers for one peer, a second peer, and a third stream to replace one with; the
change of the ledger falls before, between and after the two looks of a frame.
`dhcp`: two contenders are the least that can choose one address; the loss of some or
all health checks makes their lists differ, and the restart comes at any point of the
loop.  Two replicas are the least that lag behind each other: a leader is on one while
its rival decides on the other.  A lead of one block is enough for gossip and for a
write on an old copy.  Without the losses and the `~ partial` in it,
`UniqueWhileComplete` would say less: with them TLC shows where the code's uniqueness
ends.  `services`: calls share
nothing but the ledger, so one is enough; a name on two nodes, two names on one node, a
file before a service and a caller that offers are each in a deployment.  `discovery`:
rings of two, as `NewDHT` makes them, overflow in the third window.  The proofs remove
the bounds for most of the safety properties.

*Deadlock.*  It is checked in `MCRotation`, `MCStreamManager`, `MCDHCP` and `MCDiscovery`.
`MCLedger`, `MCAnnounce`, `MCForwarder`, `MCDecayer`, `MCEventLoop`, `MCTrustZone` and
`MCServices` set `CHECK_DEADLOCK FALSE` because a behaviour stops at a
bound (calls used up, streams used up, the call over and everything announced), with
the node (its context cancelled), or at rest: in a network of `MCTrustZone` where only
the third node has a service, and the others refuse its blocks, nothing is left to do
once the zone is settled.  The wedge of `EventLoop` is looked for by
`OnlyTheWedgeBlocks`, which says more than the absence of deadlock: while nothing else
is wrong, rooms can still receive.

*Fairness.*  `Ledger`'s `writeData` runs on once begun (goroutines are
scheduled).  `Gossip(n, m)` is weakly fair: the Syncronizer of `m` resends its
last block for ever and gossipsub delivers it in the end; any other message may
be lost for good.  A
request to a resolver is weakly fair: each server has a timeout of 30 seconds.
`Loop(w)` is weakly fair: the backoff ticker
(`ticker.go`:52-78) has no maximum elapsed time and never stops.  In `EventLoop`
the choices of a `select` among ready cases, and waiting for a mutex or a
channel, are strongly fair: Go picks ready cases at random and serves waiters
in turn.  In `Decayer` each case of `process`'s `select` is strongly fair for the same
reason, and a round, once begun, goes on.  In `Rotation` the poller, which sleeps a
second, and the hub's loop go on, and taking a message is strongly fair as a case of a
`select`.  In `DHCP` the loops go on (each pass sleeps five seconds and looks again), a
tick of `Persist` (five seconds) and its timeout (fifteen) are strongly fair, and so
none of them need come first.  `EveryoneServed` speaks of ledgers in step, and supposes that in the end every node
stays alive, which the code gives from one cleaning to the next, that nobody acted on an
incomplete list, and that no lease was lost.  In `Forwarder` workers and `readPackets` go
on, except in a read of the device and a write to a stream, which have no deadline and
owe nothing: `Stops` supposes that the writes return, and begins when the service is out
of its read.  In `Services` a copying goroutine may stay in a `Write` for as long as
nobody reads, also for ever; `NothingLeft` speaks of behaviours in which again and
again none is.  Otherwise, in `Services` and `Roles`
goroutines go on and the ledger is gossiped; announcing is strongly fair only because
`MaxAhead` may hold it up, which no ticker does; a peer's stream, an application or the
network owe nothing, and errors of the API are bounded by `MaxFaults`: it answers in the
end.  In `Discovery`, of the tries to reach a bootstrap peer or another node some
succeed, which is what a retry is for.  `Cancel`, `Receive`, `Tick`, `Restart`,
`Timeout`, losses and faults have no fairness: they need not happen.

## Proofs

All eight proof modules are checked by TLAPS down to the last leaf, from the
assumptions on the constants (`LedgerAssumption`, `AnnounceAssumption`, `EventLoopAssumption`,
`WindowsAssumption`, `RotationAssumption`, `DiscoveryAssumption`, `TrustAssumption`,
`StreamManagerAssumption`, `DecayerAssumption`, `ForwarderAssumption`,
`WorkerAssumption`, `DHCPAssumption`, `LeasesAssumption`, `ServicesAssumption`,
`RolesAssumption`), which TLC evaluates in the runs.  Four of them are more than
types.  `LeasesAssumption`: the leases that nodes have on disk at the start differ, for
each was chosen in an earlier run of the same network; two nodes with one lease keep it.
`WorkerAssumption`: there is a worker, as with the default concurrency; with
`--concurrency 0` and a buffered channel the frames would stay where they are.
`StreamManagerAssumption` has the tags finite, as the keys of a Go map are.
`DiscoveryAssumption` has a history of two or more (`NewDHT` makes it two) and clocks
that are a window apart at most.  No step of a proof depends on the bounds that the
configurations set.

*Sums, and the greatest of a set.*  Induction by an operator is out of the provers'
reach, and with it the usual way to reason about a sum over a set or a maximum.
`LeastFiniteSet` goes around it: the subsets of a finite set are well-founded under
strict inclusion, so that a set of finite sets has a member with no smaller one in it,
and what would fail for some finite set fails for one that is the smallest.  From it
follow `HasGreatest` (`DHCPProofs`) and the facts on sums (`StreamManagerProofs`: a sum
exists, does not depend on the order, and changes by what one addend changes by).
`ServicesProofs` needs only the greatest of a set with a bound, which follows from the
order of the naturals.

**Ledger.**  `Grounded` is not inductive: that a worker's unfinished block was
made on a stored one, and that hashes are fresh, is needed when it is stored.
`IInv` adds that (`MadeOnStored`, `HashesTaken`: every stored block and every block
in the making has the hash of a call that was begun, and no two share one) and
`Counted`, that every stored index is below the number of stored blocks.
`Counted` rests on the tree: the parent of a stored block is stored with the
index below it, so a block with a new highest index raises the number of stored
blocks by one.  `IInv` gives `TypeCorrect`, `OnlyStoredIsSeen`, `AlwaysGrounded`,
`IndexBound`, and that each step is a step of `BlockTree` or a stutter
(`Implementation`).  None depends on how many nodes, workers or restarts there
are.

The same is proved with the announcing loops and the resolvers running on top
(`AnnouncingKeepsLedger`, `AnnouncingImplementsTree`).  To the ledger every step of
theirs is a call with its snapshot, one of its own steps, a restart, or nothing
(`LoopsOnLedger`).  The call needs `DueWrites`: a loop that a tick has set to write is
one of the four kinds, and stays so until the write, however long after the tick's own
look at the data that is.

**EventLoop.**  `TypeCorrect` shows that no channel exceeds its capacity;
`WedgeForEver` goes through all actions and shows that none leaves the wedge:
the sender needs room, the reader needs the lock, and the end of the context is
looked at in neither place.  `OnlyTheWedge` is `OnlyTheWedgeBlocks` for every size of
the channels and any number of workers, with `ENABLED` replaced by what each
goroutine waits for; `WaitingIsIdle` shows that when all wait there is no step of
`Work`.  Whoever waits for the lock waits for the Syncronizer, which waits for the
ledger's loop, which cannot be waiting for a message while `inputCh` is full: it waits
for the lock.

**Rotation.**  `SettledIsCurrent` speaks of a hub at rest.  For the joins before that,
`IInv` adds `NotAhead` (what the poller has seen is not later than the clock) and, for
as long as it has seen the present window and has told so, `HalfJoined` (between the two
joins the ledger's room is the current one) and `Joined` (after both, unless one failed,
both rooms are).  A rotation between the two joins makes the rooms differ, but then the
poller has yet to see it, and its signal is received only after the second join
(`AlwaysSettled`).

**TrustZone.**  `OnlySigners` is inductive with the types: what is written into the zone
comes from a challenge that was verified and from the hand of a courier, and all else
only copies or removes (`ZoneOfSigners`).  `ClosedIsClean` needs `GatesShut`: if all
signers are closed, their gates are on and open to `Trusted` only, because the copy they
go by was once the zone of a ledger; and then, in a `Sealed` network, a block that passes
them has a signer for its author, whoever brings it (`SealedFromSigners`,
`ClosedStaysClean`).  `NobodyShutOut` says what two nodes hear at this moment,
which no step preserves by itself.  What is preserved is that two signers who both find
themselves in their own zones are `Acquainted`: the one of them that never deletes has
the other in its zone.  A node comes into its own zone only by a block of the other, for what
a third node brings is excluded by `Undisturbed`, so at that moment both have the same zone; after that the other is lost only by deleting,
or by a restart that empties the zone and leaves the node challenging again.  Hence one
of the two hears the other or still asks (`TwoSignersMeet`).  So one node may
run the autoclean as often as it likes; two may not, which is what `Undisturbed`
says.  All three hold for any
numbers of nodes, any routes and modes, and any restarts and passes.

**StreamManager.**  Three inductive invariants, by what a step can disturb.
`CacheOK` (types of entries, `StreamTracked`) and the counter: `CountCovers` needs
that a connected entry has a stream in `mapped` that is its own peer's, and that
`connCount` is the number of streams in `mapped`.  `MutexInv`: a caller past
the lock holds `trimMutex`, and the count it remembered is the current one while
it trims; it gives `CallersExclude` and `TrimmedSince`.  `TakesInv`: what a trim
selected and its remaining target add up to at most the candidates above the
low watermark, which holds although candidates' maps shrink after they were
counted, because a map holds at most one stream; it gives `LowWaterLeft`.
`ProtectedSkipped` follows from the read lock, held for the whole collection.
`ValuesAreSums` is about every entry by itself: its value is kept as a number that each
operation adds to or takes from (`TagPeer`, `UntagPeer`), and the sum over
the tags changes by as much.  The proof speaks of the `Excess` of an entry, value less
sum, which none of the manager's steps changes: `Decayer`, where the value has the
decaying tags in it too, uses the same lemma.

**Decayer.**  `NoneOverdue` says nothing of what happens inside a round, so it is
not inductive: `ClockInv` adds that in a tick's round the tags visited are exactly
the tracked ones whose time has come, and that none is a whole interval late; the
hypothesis that ticks are at most an interval apart enters there.  `GoneForGood` is
a step property proved from `QueueInv` (queues hold commands, closed tags were
registered): a tag comes back only by a bump, a bump is begun only for an open tag,
and what the manager does to entries only loses values.  `ValuesAreTotals` adds
`SortedInv` (a queue holds commands of its own kind, so that a removal is not taken for a
bump) and `TotalInv`: the entries of the decayer's values are those of the manager, and
the `Excess` of each entry is the total of its decaying values.  A trim or a
disconnection that deletes the entry deletes both; a bump, a tick, a removal and a
closing change both by the same amount, one segment at a time.  `DecayerKeepsCache`:
the decayer's steps leave streams and the counter alone.

**Forwarder.**  `StreamsClosed` needs to know of each open stream which worker
uses it (`OpenUsed`), of each worker that the stream it remembers is one to the peer it
chose (`WorkersOK`, which gives `RoutedRight` together with what the two looks at the
ledger saw), and that workers end after the last frame and `readPackets` after
the last worker (`Ending`).  A stream that a worker takes out of the cache is to the
right peer because of the manager's `TrackedHasItsStream`, so the manager's invariant is
part of the forwarder's, and `ForwarderKeepsCache` states it for the two together: with
`handleFrame` between its steps, whoever wins a race for an entry, the cache never names
a stream of another peer and the counter never falls behind.

**DHCP.**  `AnnouncedOnce` needs that whatever replica, and so whatever old copy, has a
node with its address, unless the node forgot it (`AnnouncesAddress`), and that a node
with an address has left the loop (`AddressEndsLoop`); with `MetIsServed` and the types
this is `Inv1`.  `AddressesUnique` is not about addresses but about who may choose one,
and must not depend on what a replica has at the moment, for entries come and go.  What
stays is `met`, whose address a replica ever had.  While every pass that went on was
complete, a node that is marked as leader in any replica, or is having itself announced,
without an address has seen in its own replica everyone of greater hash with an address
(`TryingHasMet`, from `SeesUnserved`: who is not in need in a complete list was met); and
everyone of lesser hash who has one had it from an earlier run, and is in every replica's
`met` (`ServedInOrder`).  So all who have an address were met by the one that chooses, a
complete pass has read all their addresses, and nobody else has chosen since
(`ReadIsFresh`); `NextIPIsNew` does the rest.  Together they are `Inv2`, which holds as
long as the run is `Clean`.  None of it depends on how many replicas there are or which
nodes share one.  Nodes that start with a lease are announced from the start, as
described under [Modules](#modules).

**Services.**  `RightService` speaks of the end of a call.  `IInv` follows it from the
ledger: `Honest` (a ledger names for a service or a file only a node that registered it,
for an owner writes only itself, and everything else copies a whole ledger or leaves the
owners alone), `WellChosen` (a call is on its way to such a node) and `WellServed` (so is
a stream that was opened, the peer of a call does not change once it is, and what it is
connected to is what the peer's handler has).  None of it says that the handler has what
the call wants: that is `HandlesWhatIsWanted`, the only place where `Plain` is used.
What a node's handler serves and what the call wants are both among what that node
offers of one kind, which is one at most (`WantedIsServed`).  The proof is over
`RolesSpec`, in which the loops behind the API, health checks and service nodes write to
the same ledgers.

**Discovery.**  `KeepsLast` is silent about nodes that have not gone round yet.
`Histories` adds that the last entry of theirs is the window before (`Newest`), which
holds because no window ends before everyone who runs has added its rendezvous; and
`OffIsIdle` that only these have a history.  `AddedKeepsLast` is about `Ring.Add` alone:
what it drops to make room is never the last entry, as the length is two at least, and
the entry it appends is new whenever there is one (`NeighboursKept`).  A late round
and its successor add the same rendezvous in one window, and the second time nothing
changes, so the order does not matter.  That a late round ends before its window does is
in the guard of `NextWindow`: a round may take an hour, a window is longer.

*Only model-checked:* everything with liveness (`Resolved`, `AnnouncedAtHome`,
`AnnouncedSettles`, `IndicesAgree`, `WorkIsDone`, `KeepsHearing`, `IdleTagDecays`, `Stops`,
`EveryoneServed`, `NothingLeft`, `Offered`, `RoleTaken`, `Met`), which is out of the
prover's reach; and `OnlyTheWedgeBlocks` for its `ENABLED`, although `OnlyTheWedge`, which
says the same without it, is proved.

## Disagreements

One run ends in a violation: `trust_clean`.  The autoclean is to delete the peers of
the trust zone that are not in the hub (`peerguardian.go`:77), but the labelled
`break` (:89) leaves the loop over the room's peers only, and `Delete` (:92) follows in
either case, so that it deletes all.

Others are in the models and have no run of their own.

- `writeData` validates a block before it takes the lock (`ledger.go`:374), so it can
  store one over a block it does not extend, although `block.go`:35 calls the chain a
  series of validated blocks: this is why `BlockTree` promises a tree and not a chain.
- Two nodes whose last blocks have one index never exchange them, however long both
  announce, although nodes are to announce until they are reconciled
  (`docs/content/en/docs/Concepts/Architecture/_index.md`:23): this is why
  `AnnouncedSettles` supposes one node.
- Two nodes that both run the autoclean may each delete the other last and then refuse
  each other's blocks for good, each of them content to be in its own zone: this is why
  `Undisturbed` allows for one of two.
- The gate and the trust zone go by the neighbour that brought a message, not by its
  author (`room.go`:97, `connection.go`:275, `peerguardian.go`:58): a neighbour in the
  zone brings what others wrote through closed gates, and the one that brings a signer's
  challenge is added in its place.  `Trusted`, `Sealed` and `Neighbours` say where
  this does not matter.
- A lease that cannot be written is only warned about (`dhcp.go`:157), and the error of
  making its directory is dropped (:67): after a restart the node may come under a second
  address, which is why `OneAddressPerNode` exempts those in `forgot`.
- A node whose entry was overwritten, or has not reached another's ledger, is missing
  when the other looks for the next free address (`dhcp.go`:119, 149): `partial`.
- Nothing ends a read of an idle device after the context has ended (`vpn.go`:75, 346),
  nor a `Write` whose target nobody reads (`services.go`:193), behind which the copying
  goroutine does not see its source end.  `Stops` and `NothingLeft` say so.
- The Syncronizer sends under the ledger's lock to a channel whose reader takes that
  lock (`ledger.go`:82): a node can stop for ever, as `WedgeIsForEver` shows.
- A trim may delete an expired entry that was connected after it was copied
  (`manager.go`:351-352, 384), with its stream.
- `handleFrame` closes the stream it has just cached when it returns (`vpn.go`:288), so
  a cached stream is used only while the worker that opened it has yet to return.
- In `DHCP` a node that is alive without a VPN (API, services, files) is counted among
  those that need an address; one with the greatest hash keeps everyone else waiting
  for ever (`dhcp.go`:125), which is why `EveryoneServed` speaks only of nodes that no
  silent node outranks.
- A bump may outlive its tag (`decay.go`:290; see `Decayer` above).
- A request to a proxy never reaches an egress (`egress.go`:163, 168; see `Services`).
- Of two services registered with a node the last one's handler serves both
  (`node/options.go`:115), and services registered after one that connects, or after the
  VPN, never start (`node.go`:136).  `RightService` and `Offered` say where this does not
  matter.
- A receiver of a file that was cut short returns success (`files.go`:175-178), and
  a file that cannot be opened, on either side, leaves the stream open (:88-91,
  :170-173).  `NothingLeft` counts goroutines and connections, and for files begins
  when both sides have opened theirs.
- `peer.ID(...)` of a printed id is compared with ids elsewhere too: with a peer table,
  no block passes `connection.go`:284.
- A service node runs its role anew in each round; deleting the roles of one
  coordinator deletes those of all; and a `Persist` of an older role may overwrite a
  newer one.
- A resolver keeps an empty answer that did not fit (`dns.go`:153, 161), and gives it for
  as long as no other questions push it out; a request that is not a query panics (:134).
- A discovery round that timed out waits for ever on the channel that nobody reads any
  more (`dht.go`:150-152).

## Limits

*Abstracted in what is modelled.*  Contents of frames and of values are model values.
A node's private key, hash function and ciphers are perfect.  `TrustZone`, `Services`
and `Roles` treat a call that writes to the ledger as one action over one last block per
node: what happens inside a call, and late messages, are in `Ledger` and `Announce`.
`DHCP` has a last block per replica, on which a write puts a copy as old as what any
replica has now, but no older one.  Its uniqueness says nothing of a node that acts on a
list from which an address is missing: one whose ledger has not met another's, or has
lost the entry and not got it back.  A node that restarts without its lease takes a
second address, or, while it is still announced with the first, is not served again.
In `TrustZone` a message passes one hand at most between author and receiver, although
the proofs allow any routes.  `Forwarder` is the VPN with its stream manager (`lowProfile`); without
it a worker takes the same steps but those of the manager, and every frame opens a
stream.  In `Discovery` clocks are read and the ring is changed in one step, `Skew` is the
same for ever, and adverts expire at the end of the window in which their node stopped
advertising.

*Not modelled.*

- `streamHandler`, `egressHandler` and the copying behind them: each handles one stream by
  itself and changes nothing but the device or a socket; no stream reaches the egress.
- The TUN device and its setup per system, and service processes: calls of the
  operating system.
- The HTTP handlers that list state, the dashboard, and the command line: they change
  nothing that the models hold.
- Option parsing and the construction of the libp2p host: run once, before anything
  else; what decides between behaviours of a module is one of its constants.
- `FindClosePeers`, the options of the DHT, connection gating and libp2p itself, which
  is modelled from how the code uses it.
- `Close` of the stream manager: it ends the background goroutine and waits for it; the
  decayer's part of it is in `Decayer`.
- Logging, protocol ids, wording.
- Hazards without a property.  The comparison at `connection.go`:284 is the same in every
  state, which a unit test settles, and the address after the last of a /24 takes 250
  leases to reach.  The two writes of a `DiskStore` are one action of `Ledger`, as argued
  above.  The others are what the code does, and no property of these models says
  otherwise: two trims at once may go below the low watermark that each keeps for itself
  (`manager.go`:296); a `Protect` between the collecting and the closing comes too late
  (:358); a closing that a full queue drops leaves its tag tracked (`decay.go`:364), and
  a tick later than an interval leaves it overdue (:238); a request that finds one
  egress panics inside its handler (`egress.go`:163); and of two services on one node the
  later handler serves both (`node/options.go`:115).
