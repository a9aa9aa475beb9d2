# NetHive: a TLA+ model

NetHive is a decentralized VPN node: it reads IP packets from a TUN device, finds the libp2p
peer that owns the destination address, and exchanges packets with it over streams. These
modules model its parts from the Go source, TLC checks them on small instances, and TLAPS
proves their safety properties, among them that the concurrent map is linearizable, for any number
of peers, goroutines, packets, keys, bytes or elements.
Two abstract specifications, a datagram service and sequences, say what the nodes together and
the linked list promise, and the detailed modules are shown to implement them.

## Inventory

| Part | Source | State | Operations | Interacts through |
|---|---|---|---|---|
| Packet routing | `core/engine/{engine,conn,routine,payload}.go`, `pkgs/xpool` | route table (`m`, `id`, `addr`), packet channels, payload pool, one goroutine per connection, two per inbound stream | `RoutineTUNReader`, `RoutineTUNWriter`, `RoutineRouteTableWriter`, `addConnByDst`, `addConn`, `VPNHandler` | channels, `xsync.Map`, `sync.Pool`, libp2p streams |
| xsync.Map | `pkgs/xsync/map.go` | read map, dirty map, misses, entries | `Load`, `Store`/`Swap`, `LoadOrStore`, `LoadAndDelete`/`Delete`, `CompareAndSwap`, `CompareAndDelete`, `Range` | atomics and a mutex; used by all goroutines of the engine |
| RingBuffer | `pkgs/ringbuffer/ringbuffer.go` | circular buffer, sticky error, two conditions | reads, writes, their `Try` forms, closing, `Flush`, `Reset` | mutex, conditions, a `WaitGroup`; not used by the engine yet |
| Overlay | the same files, seen from two nodes | streams, their windows, the handlers at their ends | a packet's way from TUN to TUN, reset, restart | libp2p streams |
| Peer search | `core/engine/search.go`, `conn.go:80-92` | result channel (10) | `SearchNode`, `searchByCache`, `searchByDHT` | called by `addConn` |
| DHT bootstrap | `core/engine/dht.go` | two result channels per call | `connectBootstraps`, its retry loop, `EnableDHT` | called at start and by the search |
| Auto relay | `core/engine/relay.go`, `engine.go:99-123` | `relayChan` | finder, peer source | channel between them, callback from libp2p |
| mDNS | `core/engine/mdns.go` | service | retry loop, `HandlePeerFound` | fills the peer store |
| Start-up | `engine.go:63-206`, `cmd/main.go` | the fields of the Engine | `main`, `Run` | starts everything else |
| Configuration | `core/config` | file, private key | `Load`, defaults, `Save` | read by everything |
| TUN device, kernel routes | `core/device`, `core/route`, `pkgs/{command,system}` | cached name, MTU and state; the interface | `CreateTUN`, `Name`, `AddAddress`, `Up`, `route.Add` | system calls by the cached name |
| IP parsing | `core/protocol/ip.go` | pool of headers | `ParseIP`, `ReleaseIP` | called by the TUN reader |
| List | `pkgs/list` | a ring of elements per list | insertion, removal, moves, copies of lists | nothing uses it |
| Flow hash, logging, Windows | `core/stack/hash.go`, `pkgs/{log,win}`, `tun_windows.go` | none, or in the kernel | | |

What is hard here: the goroutine of a connection removes its entries from the route table by
key while the router looks up and stores entries one at a time; a handler keeps a channel that
may have been unregistered; payloads are pooled and change owners through channels; the map
mixes lock-free and locked accesses; the ring buffer's callers sleep on conditions that
somebody else has to broadcast; producers outlive the consumer of their channel; a callback runs
while the start-up still assigns fields; a file is overwritten in place; two ends of a stream
disagree on whether somebody reads it. `PROJECT.json` lists these hazards line by line, with the
properties that cover them, and says which are not covered yet.

What makes the parts correct:

* packet routing: a packet only goes to the peer that owns its address; the two indexes of the
  route table agree with the goroutines that run; one connection per peer; a payload has one
  owner; the router never waits for a peer; a broken connection is unregistered;
* xsync.Map: linearizable; `Range` misses no key that stays, invents no mapping; the comments on
  the states of an entry hold;
* RingBuffer: a queue of bytes; nobody sleeps over data, space or an error; partial writes are
  reported; the end is reported after the last byte;
* overlay: a packet arrives at most once, whole, where it is addressed to; none is stuck;
* search and bootstrap: no send on a closed channel; a failure is reported only if every node
  failed; searches and dials end, so that a peer can be dialled again;
* start-up: whoever runs finds the fields it reads, and they do not change under it; packets are
  routed only over an interface that is up and has its address; every start ends;
* configuration: what a node is started with is in the file; its identity stays;
* auto relay: libp2p gets as many candidates as the loop says; a source whose caller has gone ends;
* list: a ring in both directions; each method does what its comment says.

## Modules

| Module | Contents |
|---|---|
| `Engine` | the data plane of one node: state, one action per access to shared state, properties, the parts of the inductive invariant |
| `MCEngine` | instances of `Engine` for TLC |
| `XsyncMap` | `xsync.Map` at the granularity of its atomic accesses |
| `XsyncLin` | `XsyncMap` next to a monitor of linearizability |
| `MCXsync` | instances of both for TLC |
| `RingBuffer`, `MCRingBuffer` | the ring buffer, and its instances |
| `Bootstrap` | `connectBootstraps`, its callers' calls, the retry loop |
| `Discovery` | the search for a peer, `addConn`'s loop and mDNS, on top of `Bootstrap` |
| `Config`, `Relay`, `Device` | the configuration file, auto relay, the TUN device at start-up |
| `Node` | `main` and both `Run`s, on top of these three |
| `Overlay`, `MCOverlay` | several nodes and the streams between them |
| `Datagram` | what an overlay promises; `Overlay!Implements` is the refinement |
| `LinkedList`, `MCLinkedList` | the linked list, pointer by pointer |
| `SeqList` | lists as sequences; `LinkedList!Implements` is the refinement |
| `EngineProofs` | theorems about `Engine`: payloads, the route table, addresses |
| `OverlayProofs` | theorems about `Overlay`: the datagram service |
| `XsyncProofs` | theorems about `XsyncMap`: entries and the two maps |
| `XsyncLinProofs` | theorems about `XsyncLin`: linearizability, `Range` |
| `RingProofs` | theorems about `RingBuffer`: waiting and reporting; the queue |
| `ListProofs` | theorems about `LinkedList`: pointers, loops, sequences |
| `DiscoveryProofs` | theorems about `Bootstrap` and `Discovery` |
| `NodeProofs` | theorems about `Config`, `Relay` and `Node` |

An operator whose comment starts with "Mutant" is a plausible mistake in the definition after
it. Nothing uses it in the specification: it is there to try whether a property notices when
it takes the place of the definition.

### Engine

`addr` and `id` are the two maps of `routeTable` (`routeTable.m` does not change after start-up
and is the constant `Peer` with `PeerAddr`). An element of `Chan` is a `PacketChan`. It is made
in one place, `addConnByDst`, together with the goroutine that runs `addConn` and the deferred
Deletes, so `conn[c]` is the record of both. An element of `Handler` is an invocation of
`VPNHandler`. Every access to a map or a channel is a step of its own, so that all interleavings
of the router with the goroutines are there; that one map access is one step is what
`XsyncLin` justifies. `writing` and `held` hold the payload between the channel operation and
`WriteMsg`, or `ReadMsg` and the send on `devWriter`.

Abstractions. A packet is its destination (from TUN) or its origin (from a peer). A dial is one
step with two outcomes. A stream is open, at its end (reads fail, writes do not), reset (both
fail) or closed. A payload that the code drops without `Put` (a multicast packet, a packet
without a route, the packets left in a channel nobody refers to) goes to the garbage collector
and may be allocated again: it returns to `free`, as one that was `Put` does. Identities of
channels are reused the same way (`Collect`). The network breaks a stream at any time. Peers may
share an address, as the configuration allows; `Range` then visits them in any order. The
buffer in a payload's `Data` travels with the payload.

### XsyncMap and XsyncLin

A step has one access another thread can race with: a lock-free load of `m.read`, a store of
it, or an operation on an entry's `p`. A loop of `Load` and `CompareAndSwap` on `p` is one such
operation, because only its last round has an effect. Code under `mu` up to the next such
access belongs to the step. Entries have identities; one that no map and no thread refers to may
be allocated again.

`XsyncLin` keeps in `lin` every explanation of the history so far: a plain map, and the results
of calls that took effect but have not returned. A call adds the explanations in which it, and
any other open call, takes effect; a return keeps those that gave its result. The map is
linearizable if one always remains. The plain map is defined independently of `XsyncMap`;
`ComparesOld` says whether its `CompareAndSwap` and `CompareAndDelete` compare. `must` and `may`
keep, for an open `Range`, the keys that were present in every explanation since the call and
the mappings that were present in one.

### RingBuffer

A step is what a method does while it holds `mu`. `readCond` and `writeCond` are places a thread
can be; a broadcast moves it to "woken", from where it goes on when it gets `mu`. The positions
and the copies around the end are those of the code; `Content` is the queue they stand for.
`ret` shows what the last step returned. `WithCancel` is a thread that calls `CloseWithError`;
`WriteString` is `Write`. `block` is chosen at the start and does not change, because `SetBlocking`
is to be called before the buffer is used.

### Bootstrap and Discovery

A call of `connectBootstraps` belongs to its caller: the retry loop, or the search for a peer.
`dial` has one goroutine for each entry that parses (which do, `parses`, is chosen at the
start), `sc` and `fc` are the numbers of messages in the two channels, `fcnt` is in `call`. Dials
go on after the call has returned; they are forgotten when the same caller calls again, when
their channels are unreachable from the new call.

A search has a consumer (`addConn`), two producers (`cache`, `dht`), a channel (`ch`, the number of
results, since they all concern the same peer) and the goroutine that closes it. mDNS fills the
peer store (`known`), addresses expire. The DHT returns any number of results up to
`MaxResults`, each of which may be for another peer. `Cancel` is the end of the context that was
passed to `Run`. `main` passes one that never ends; other users of the package may not.

The liveness properties name what the code leaves open instead of assuming it away: `Stuck` (an
entry that does not parse is counted but never reports a failure, `dht.go:82`) and `Blocked` (a
result that does not fit when `addConn` has left its loop, `search.go:62`, which does not look at
the context). Both are reached in the instance, and everything else ends.

### Config, Relay, Device and Node

`Config` has the file (absent, empty after truncation, partial, or whole with its text), the
configuration in memory and the place in `Load`. A configuration is its private key, the peer ID
and the set of fields that have a value: `Field` for those with defaults, `Option` for the others.
The initial file may be absent, from an earlier start, or written by hand. `last` and `torn` are
history. The node dies between any two steps (`Killed`, up to `MaxCrashes` times), and an action of `Save`
is the truncation, a partial write or the whole one.

`Relay` counts candidates. The source's goroutine is at the receive from `relayChan` or at the
send to its channel `c`; its context is that of libp2p's call. `Device` has the fields of `struct
tun` and the interface in the kernel, which somebody may rename at any time: calls go by the
cached name. The error of `TUNGETIFF` is ignored by the code, which leaves an empty name.

`Node` is `main`, one step per call of the start-up, each of which may fail. `field` counts the
assignments to each field of the Engine, `running` has the goroutines that were started and the
callbacks libp2p knows, and `Reads` says which fields each of them reads. The routing goroutines
are those of `Engine`; here they only run. A node that serves stays at `<-e.errChan`, which is nil, until the
process ends; therefore deadlock is not checked.

### Overlay and Datagram

An element of `Chan` is a packet channel, its goroutine, the stream the goroutine opens and the
`VPNHandler` at its other end. Where `Engine` has every access to a map as a step, here routing a
packet is one step and so is writing a received one to TUN; `Engine` shows that the route
table is consistent in between. What is added: both directions of a stream with a window, the
three ways `VPNHandler` may go (it closes a stranger's stream, leaves that of a peer without a channel,
or serves), resets that lose what was in the stream, and restarts of a node. Packets have a
length and a version, and `ParseIP` decides which of them are accepted. `Tables` has the case that one node does not know
the other.

`Datagram` is the service IP expects: a packet that was sent is delivered never or once, at its
destination, with its length. `Implements` maps the histories `sent` and `got` to it. `AnswersOnly`
is a consequence of `engine.go:222` that a user will meet: a node gets nothing from a peer that
it has not sent a packet to itself. `Settles` is the liveness side: packets arrive or are
lost, except in the stream `VPNHandler` has left, where they stay until it is reset.

### LinkedList and SeqList

`heap` has the fields `next`, `prev`, `list` and `len`; the assignments of a method are applied one
after the other. A list is the name of its root. Methods get any element that was ever made:
removed ones and those of another list included. Elements of a list that was cleared with `Init`
are left out: they still name the list as theirs, so that a method would take them for its
own and break the ring, of which the comments say nothing. `SeqList` has the methods on sequences.
`Implements` maps a list to the elements met on the way from root to root; `AsDocumented` says that each method does what its own
counterpart does.

## Runs

| Run | Instance | Shows |
|---|---|---|
| `engine` | 3 peers, two of which share an address, 1 stranger, 2 channels, 1 handler, 2 payloads, capacity 1 | types and capacities, `PayloadExclusive`, `Addressed`, `RouteTableAgrees`, `OneConnPerPeer`, `OnlyOwnerDeletes` |
| `engine_live` | 2 peers, 2 channels, broadcast on, with fairness | `Dispatched`, `BrokenConnRemoved` |
| `xsync_point` | 2 threads, 2 keys, 2 values, 3 entries, all methods but `Range` | `Linearizable`, the comments on entries |
| `xsync_range` | the same with 4 entries, `Load`, `Swap`, `LoadAndDelete`, `Range` | `RangeConsistent` |
| `ring` | 2 threads, size 3, writes of up to 3 bytes, blocking or not, all methods | `Fifo`, `WriteContract`, `EofAtEnd`, `ReadersWait` |
| `discovery` | 2 bootstrap nodes that parse or not, 1 peer searched for repeatedly, channel of 1, 2 results | `BootstrapVerdict`, `ClosedAtEnd`, `CallReturns`, `DialEnds`, `SearchEnds` |
| `node` | 4 keys, 2 crashes, failures or renamings, all options on or off, 1 candidate | `Durable`, `IdentityKept`, `Ready`, `FieldsSettled`, `StartEnds`, `SourceExact`, `SourceEnds` |
| `overlay` | 2 nodes, 3 channels, 3 packets and 3 malformed ones, capacity and window 1 | `Implements` (`Datagram`), `AnswersOnly`, `Settles` |
| `list` | 2 lists, 2 values, 4 elements | `WellFormed`, `Implements` (`SeqList`), `AsDocumented` |

Bounds. With two channels an old connection is cleaned up while a new one is made, and a peer
that shares its address finds the channel of the other one; capacity 1 makes every queue meet
its limit. Two keys are needed for the dirty map to be made while another key is in the read
map, which is when entries are expunged; entries suffice for every thread to hold a stale one. A
ring of three bytes has all positions of `r` and `w`, full and empty, and writes larger than what
is free. Two results of the DHT and one from the cache are one more than `addConn` and a channel of 1 can take,
so that each producer can be the one that waits. A channel of the source has room for 0
or 1, and num + 1 candidates do not fit. Two crashes tear a save and interrupt the next start. Three channels in `Overlay` allow
one in each direction and a new one after a reset or restart, which compete for packets
through their handlers. Four elements make a copy of a two-element list onto itself, which is
where a loop over a list that grows could go wrong. Symmetry is used for model values in
safety runs only. Deadlock is not checked in `ring`, because all callers may wait for each other's
data, in `node`, because a node serves for ever, and in `overlay`, because the packets end.

Three runs show where the code and its comments disagree; `findings` in `PROJECT.json` quotes the
lines:

* `xsync_doc`: `CompareAndSwap` and `CompareAndDelete` never compare with `old`;
* `ring_doc_readbyte`: `ReadByte` does not wake up a writer that waits for space;
* `ring_doc_eof`: a blocked `Write` goes on after `CloseWriter`, after a reader has seen `io.EOF`.

The model also has what no run asks about: `Flush` may wait for a buffer that is already empty, as
it checks and waits in two critical sections; `CloseWithError` replaces the `io.EOF` of an earlier
`CloseWriter`; a `Write` that `Reset` woke up may get `mu` after `Reset` has cleared the error and go on
in the emptied buffer; and of two concurrent calls of `Reset`, the second clears the buffer without
waking up writers that wait again. In `Config`, a file that was torn by a crash makes later
starts fail (a partial one) or, if the library accepts an empty file, gives the node a new identity.

## Fairness

`FairSpec` of `Engine` assumes that a goroutine that can run eventually does: the TUN writer,
the router, a connection that has a packet to take, that has a failed write to handle or that
is at its Deletes, and a reader whose stream broke. Nothing is assumed of a dial, a read, or a
write to an open stream, which depend on the network. The send on `devWriter` is strongly fair,
as Go serves blocked senders in FIFO order. `Collect` is fair because the garbage collector
runs; in the model this stands for there being always another channel to make.

`Discovery` and `Overlay` assume the same of their goroutines, and that a dial and a query of the DHT
come to an end, because libp2p limits their time. Nothing is assumed of searches being started, of
results, packets, resets, restarts, mDNS or the context. `Node` assumes that `main`, the finder and the
source go on; each step of `main` ends, with success or not. libp2p's calls, the ticker and crashes
do as they like (crashes are bounded, so a start can end).

## Proofs

The proofs hold for all values of the constants that satisfy the assumptions of the modules. TLC
evaluates the assumptions in every run, and every inductive invariant below was checked with TLC
on the instances of the runs before it was proved.

| Module | Theorem | Property |
|---|---|---|
| `EngineProofs` | `TypeCorrect`, `PayloadOwnership` | `TypeOK`, `PayloadExclusive` |
| | `RouteTable`, `SingleConnection`, `OwnerDeletes` | `RouteTableAgrees`, `OneConnPerPeer`, `OnlyOwnerDeletes` |
| | `PacketsAddressed` | `Addressed` |
| `OverlayProofs` | `TypeCorrect`, `OnlyAnswers` | `TypeOK`, `AnswersOnly` |
| | `DatagramService` | `Implements`: `Overlay` refines `Datagram` |
| `XsyncProofs` | `TypeCorrect`, `EntriesKept` | `TypeOK`, `EntryStates` |
| | `UnexpungeSafe`, `StoresReach` | `UnexpungeHasDirty`, `StoreReaches` |
| `XsyncLinProofs` | `MapLinearizable`, `RangeIsConsistent` | `Linearizable`, `RangeConsistent` |
| `RingProofs` | `TypeCorrect`, `NoReaderLost` | `TypeOK`, `ReadersWait` |
| | `WritesReport`, `EndIsEmpty` | `WriteContract`, `EofAtEnd` |
| | `BufferIsQueue` | `Fifo` |
| `ListProofs` | `AlwaysWellFormed`, `ListDocumented` | `WellFormed`, `AsDocumented` |
| | `ListImplements` | `Implements`: `LinkedList` refines `SeqList` |
| `DiscoveryProofs` | `TypeCorrect`, `Verdict`, `SearchClosed` | `TypeOK`, `BootstrapVerdict`, `ClosedAtEnd` |
| `NodeProofs` | `TypeCorrect`, `NodeReady`, `FieldsSettle` | `TypeOK`, `Ready`, `FieldsSettled` |
| | `LoadDurable`, `IdentitySurvives`, `SourceGives` | `Durable`, `IdentityKept`, `SourceExact` |

### Engine

`IInv` is the conjunction of `TypeOK`, `ControlOK` (the locals of the router and the handlers fit
where they are), `DstOK` (what is being routed was read from TUN) and `PayloadExclusive`.
`PayloadExclusive` alone is not inductive: the router must be known to hold a payload when it
sends. Its proof views the places a payload can be in as one function, `content`, and shows four
lemmas on it, for moving, getting, putting and clearing; each action is an instance of one.

The route table rests on `RInv`: `IdLive`, `AddrLive` and `LiveInId`, whose conjunction is
`RouteTableAgrees`, with `ChanOK` (a channel is under its own address until its addr.Delete) and
`RouterOK` (what `addConnByDst` saw at its last access still holds). Only the router adds
entries, only the goroutine of an entry removes it, and a peer stays in `id` until the last step
of its goroutine, so no second goroutine can exist whose entries a late Delete could hit.
`OnlyOwnerDeletes` follows from `RInv` for each step. `Addressed` needs `Served` besides: the
channel a handler keeps, which may be unregistered by now, is still one of the handler's peer,
because identities are only reused when no handler has them.

### Overlay

`OInv` says what a channel, its stream and its handler may hold in each of their states
(`ChanInv`), that an entry of the table leads to its peer (`IdInv`), that messages go the way
of the channel or stream they are in (`WayInv`), and that a packet is in one place, once, and
only until it is delivered (`OneInv`). All places are again one function, `Held`, and every step that
moves a message is an instance of a lemma on it. The refinement maps a packet that reaches TUN
to a delivery of `Datagram`, which `WayInv` puts at its destination and `OneInv` makes the first;
every other step but the first reading of a packet is a stutter.

### XsyncMap

`XInv` splits the comments on entries into what holds at every step. `MapInv` has `EntryStates` for each key
that `dirtyLocked` has not still to copy; `OneKey` and `MyKey` say that an entry belongs to one key, in both maps and
for the threads that have it, which is what keeps a step on one entry from touching another key; `HeldInv`
says what the holder of `mu` has found. `StoreReaches` is inductive with these: an entry leaves the
read map at a promotion only, and then either it was expunged or it is in the dirty map.

### XsyncLin

`MapLinearizable` and `RangeIsConsistent` are about the map the code is: their assumption `~ComparesOld` says
that the plain map does not compare with `old` either, which `xsync_doc` shows to be necessary. The other
assumption, `LinAssumption`, is that finitely many goroutines call the map: `Explain` lets one
pending call after the other take effect, for as many rounds as there are threads.

*What the map stands for.* `Mapped` is the plain map that the two maps stand for: the value of a key's
entry, in the read map if it has the key and in the dirty map otherwise. Most methods take effect
when they operate on an entry that one of the maps has (`Linked`), or when they do not find one.
The hard case is a thread that has found an entry and gets to it only after the entry has left
both maps. Stores are not concerned: by `Reaches`, their entry is in the read map or they find it
expunged. For loads and deletions it is as if the key had not been there, with one exception:
`LoadAndDelete` takes the entry out of the dirty map under `mu` and the value out of the entry
later, and in between the value can be loaded, or deleted by another thread that has the entry.
Which deletion took the value is not settled until one of them gets there.

*The invariant.* `LinInv` therefore names not one explanation but a family of them. For a set `ch` of
threads, those that saw such a value, `Taken(ch, t)` is the result that call t has got already, if
it took effect. `Plausible(ch)` says that for each value that left the maps exactly one deletion
in `ch` has the entry. `Kept` says that for every plausible `ch`, `lin` has the explanation with
`Mapped` and `Taken(ch, _)` (`Explains`). `RemoverHolds`, that a value which left the maps is always held
by a `LoadAndDelete`, makes some `ch` plausible, so that `lin` is not empty. `MonitorOK` says that
`lin` is closed: it has what follows from each of its explanations when a pending call takes
effect. `ExplainCloses` shows that the rounds of `Explain` suffice for this, because each call takes
effect once. `DirtyAmends` is the part of `EntryStates` that is needed while `mu` is held, too.

*The steps.* A step is calm if no value leaves the maps by it and no thread finds one that has; then
each plausible `ch` was plausible before, and the old explanation is the new one, after the step's own
call took effect if it `Acts`, and as it is if it `Idles` (`CalmKept`). `StaleLin` is the step that
finds a value that has left: the explanation in which its call saw the value is the one that
remains. `UnlinkLin` is the step of `LoadAndDelete` by which a value leaves: the loads in `ch`
that have the entry take effect, then the one deletion in `ch`, then the others that have the
entry, all of them at this step (`MayLeave`, `LeavesMap`).

*Range.* `RangeInv` says of an open `Range` that what it has to visit are entries of keys it has not
visited, each of them still the one its key has in the read map or expunged for good, and that a key in `must` was visited
or is still to be. `Follows` is what it needs of the steps of others: an entry leaves the read
map only if it is expunged, an expunged entry comes back only for the key it has in the
read map, and an entry is not used again while an iteration has it. That a key in `must` has a value
now is where linearizability comes in: `must` is read off the explanations in `lin`, and one of them
is `Mapped` (`SomeExplanation`).

### RingBuffer

`RInv` has the types in the form that is inductive (a transient error is never stored; a round of a
write starts within its argument; who waits does so in blocking mode) and the three promises.
`ReadersWait` is the delicate one: each step must leave buffer and error alone, or broadcast, or
start from a buffer with no reader waiting; `NoneLost` is that disjunction.

`BufferIsQueue`: the content is a queue. Positions are taken around the end by `Around`
instead of `%`, for which one lemma (`Mod`) suffices since no sum reaches twice the size. `PutAt` says
where the bytes of a write go and that they meet none that are queued, `TakenFront` and `Drops` what a
read takes and what it leaves; both are about elements, from which `ConcatIs` makes sequences.
What a step reports (`Accepted`, `Delivered`) depends on where its thread stood; that a thread
has written part of its argument only while it waits in `Write` is part of `RInv`.

### LinkedList

`WellFormed` speaks of the elements met by walking, which no step of a proof can follow. `LInv`
says instead that there is, for each list that was used, a cycle `c`: `c[0]` is the root, `c[1]` to `c[n]`
are exactly the elements that name the list, and `next` and `prev` go along it. A list that was
not used yet has nil pointers and no elements. Four or six assignments to pointers become one change
of the cycle: `LinkCycle` and `UnlinkCycle` prove that `LinkAfter` and `Unlink` insert the element
behind the k-th node and take the k-th out, wherever neighbours coincide, and `InsertOK`, `RemoveOK` and
`MoveOK` that the other lists keep theirs (`Keeps`). The rounds of `PushBackList` and `PushFrontList` keep
`RoundOK`: after i rounds the list is the cycle `Grown`, and the element to copy next is still one of
those that were in the other list before the call, also when that list is the same and grows
(`NextSource`).

That walks, loops and rounds come out as the cycle says is an induction over their steps. The
prover cannot use the induction theorems of its library, but `Induction` is a fact about a set instead of a
predicate, proved from the least element of what is left out, and serves for all of them.

For the refinement, `MembersAre` reads the members of a list off its cycle, `SeqIns`, `SeqDel` and
`SeqGrown` relate changes of cycles to `InsertAt`, `RemoveAt` and `\o` of sequences, and one lemma
per group of methods (`InsertsRefine`, `MovesRefine`, `PushListsRefine`, `ClearRefines`) shows that a call is
the call of `SeqList` of the same name. `AsDocumented` and `Implements` both follow from these.

### Bootstrap and Discovery

`Counted` relates the numbers of messages in the two channels and the count of failures to the
dials that have ended: each stands for a dial of its own. A channel has room for all of them, so no
dial waits to send, and num failures are failures of all. `ClosedAtEnd` is inductive with the types.

### Config, Relay and Node

`CInv` says what the file is while `Load` is at each of its places, that the configuration it works
towards has an ID that is its key's, and (`KeptInv`) that the configuration of the last start is
in the file, or in memory while the file is being overwritten, unless that was interrupted. It
rests on `RoundTrip`: `Load` reads back what `Save` wrote, if every key can be marshalled, which
`ConfigAssumption` says. `RelayInv` counts: given and still to give make what was asked for.
`StartInv` gives the value of every field, what may run, and the state of the interface, by
the place of `main`; `Ready` and `FieldsSettled` follow.

### Only model-checked

* Liveness and whatever needs ENABLED, which are out of the prover's reach: `Dispatched`,
  `BrokenConnRemoved`, `CallReturns`, `DialEnds`, `SearchEnds`, `SourceEnds`, `StartEnds`, `Settles`.

Every invariant and every action property of the runs, and both refinements, are theorems.

## Not modelled

The flow hash, for want of state or a promise to check; logging; the Windows device and bindings,
another implementation of `Device` over declarations of system calls. `addConnByID`, `route.Del` and `Down`,
`State`, `Close`, `FlushAddress` and `MTU` of the device are never called. In `RingBuffer`, buffers of
size 0, for which `read` divides by zero. In `Overlay`, an MTU above `BuffSize`, with which packets
are cut as they are read. In `LinkedList`, elements of a list that was cleared. That `mdnsLoop` spins
after its context was cancelled is a stuttering step of `Discovery`.

## Plan

All components of the inventory that keep state are modelled, and the safety properties of all runs are
theorems. What could come next: the hazards in `PROJECT.json` that no property covers yet; an instance of `Engine` over
`XsyncLin`'s plain map, so that the step from atomic to concurrent map accesses is itself a
refinement; and a version of the map whose `CompareAndSwap` compares, for which `ComparesOld` is
already there.
