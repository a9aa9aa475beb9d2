------------------------------- MODULE Engine -------------------------------
(***************************************************************************)
(* The data plane of one NetHive node (core/engine): the goroutines that   *)
(* move packets between the TUN device and the libp2p streams, and the     *)
(* route table they share.                                                 *)
(*                                                                         *)
(*   TUN --TUNRead--> devReader --Router*--> queue[c] --Conn/HandlerWrite--> *)
(*       stream ... stream --ReadMsg--> devWriter --TUNWrite--> TUN        *)
(*                                                                         *)
(* One step is one access to shared state (a Load, Store or Delete of the  *)
(* route table, a channel operation) with the local work around it.        *)
(*                                                                         *)
(* A channel of type PacketChan is an element of Chan.  It is made by      *)
(* addConnByDst, which starts one goroutine for it (addConn and the two    *)
(* deferred Deletes), so conn[c] is both the channel's and that            *)
(* goroutine's record and c also names the stream addConn opens.           *)
(* An element of Handler is one invocation of VPNHandler with the inbound  *)
(* stream it was given.  An element of Payload is one pooled *Payload with *)
(* the buffer in its Data field; body[p] is what it holds: the destination *)
(* of a packet read from TUN, or the peer an inbound packet came from.     *)
(***************************************************************************)
EXTENDS Naturals, Sequences, FiniteSets

CONSTANTS
    Peer,             \* the keys of cfg.PeersRouteTable (routeTable.m)
    Stranger,         \* remote peers that are not in routeTable.m
    Addr,             \* destination addresses of packets
    PeerAddr,         \* [Peer -> Addr]: the address of a peer's prefix in routeTable.m
    Multicast,        \* the addresses that are (link-local) multicast
    EnableBroadcast,  \* cfg.EnableBroadcast
    Malformed,        \* a packet ParseIP rejects
    Chan,             \* identities of packet channels
    Handler,          \* identities of VPNHandler invocations
    Payload,          \* identities of pooled payloads
    ChanSize,         \* capacity of every packet channel
    Nil               \* no value

ASSUME ConstantsAssumption ==
    /\ PeerAddr \in [Peer -> Addr]
    /\ Peer \cap Stranger = {}
    /\ Chan \cap Handler = {}
    /\ Multicast \subseteq Addr
    /\ EnableBroadcast \in BOOLEAN
    /\ ChanSize \in Nat \ {0}
    /\ Malformed \notin Addr
    /\ Nil \notin Addr \cup Peer \cup Stranger \cup Chan \cup Handler \cup Payload

Link == Chan \cup Handler

VARIABLES
    addr,       \* routeTable.addr: address -> channel
    id,         \* routeTable.id: peer -> channel
    conn,       \* the goroutine addConnByDst starts for a channel
    queue,      \* contents of the packet channels
    handler,    \* VPNHandler invocations
    writing,    \* the payload taken from a channel that is being written to a stream
    stream,     \* the stream of each addConn and VPNHandler
    reading,    \* whether the reading goroutine of a stream is running
    held,       \* the payload that goroutine is trying to send on devWriter
    devReader,  \* packets read from TUN, to be routed
    devWriter,  \* packets received from peers, to be written to TUN
    router,     \* locals of RoutineRouteTableWriter
    free,       \* payloads in payloadPool, or not allocated
    body        \* contents of the payloads

tables == <<addr, id>>
conns  == <<conn, queue>>
links  == <<handler, writing, stream, reading, held>>
tun    == <<devReader, devWriter>>
pool   == <<free, body>>
vars   == <<tables, conns, links, tun, router, pool>>

ConnPC    == {"unused", "made", "dialing", "open", "addrDelete", "idDelete", "done"}
HandlerPC == {"idle", "entered", "known", "serving"}
StreamSt  == {"none", "open", "eof", "reset", "closed"}
RouterPC  == {"recv", "load", "byDst", "range", "storeAddr", "storeID", "send"}

ConnRec    == [pc : ConnPC, key : Peer \cup {Nil}, dst : Addr \cup {Nil}]
HandlerRec == [pc : HandlerPC, peer : Peer \cup Stranger \cup {Nil}, chan : Chan \cup {Nil}]
RouterRec  == [pc : RouterPC, payload : Payload \cup {Nil}, key : Peer \cup {Nil},
               conn : Chan \cup {Nil}]

NoConn    == [pc |-> "unused", key |-> Nil, dst |-> Nil]
NoHandler == [pc |-> "idle", peer |-> Nil, chan |-> Nil]
Receiving == [pc |-> "recv", payload |-> Nil, key |-> Nil, conn |-> Nil]

\* The state once Engine.Run has filled routeTable.m and started the routines.
Init ==
    /\ addr = [a \in Addr |-> Nil]
    /\ id = [k \in Peer |-> Nil]
    /\ conn = [c \in Chan |-> NoConn]
    /\ queue = [c \in Chan |-> <<>>]
    /\ handler = [h \in Handler |-> NoHandler]
    /\ writing = [l \in Link |-> Nil]
    /\ stream = [l \in Link |-> "none"]
    /\ reading = [l \in Link |-> FALSE]
    /\ held = [l \in Link |-> Nil]
    /\ devReader = <<>>
    /\ devWriter = <<>>
    /\ router = Receiving
    /\ free = Payload
    /\ body = [p \in Payload |-> Nil]

-----------------------------------------------------------------------------
(* The payload pool.  A payload that is dropped without Put is reclaimed by *)
(* the garbage collector, so a later Get may allocate it again: both leave  *)
(* it in free.  Whoever Gets a payload overwrites it before reading it, so  *)
(* a free payload's stale contents are not kept.                            *)

Get(p, contents) ==
    /\ p \in free
    /\ free' = free \ {p}
    /\ body' = [body EXCEPT ![p] = contents]

\* The payloads in a channel.
Elems(s) == {s[i] : i \in DOMAIN s}

Put(p) ==
    /\ free' = free \cup {p}
    /\ body' = [body EXCEPT ![p] = Nil]

\* The code lets go of p without a Put.
Drop(p) == Put(p)

-----------------------------------------------------------------------------
(* RoutineTUNReader and RoutineTUNWriter *)

\* Multicast packets are for the TUN reader to discard when broadcast is off,
\* and for the router to discard when it is on.
DiscardedByReader(pkt) == pkt \in Multicast /\ ~EnableBroadcast

TUNRead(pkt) ==
    /\ IF pkt = Malformed \/ DiscardedByReader(pkt) \/ Len(devReader) >= ChanSize
       THEN UNCHANGED <<devReader, pool>>
       ELSE \E p \in Payload : /\ Get(p, pkt)
                               /\ devReader' = Append(devReader, p)
    /\ UNCHANGED <<tables, conns, links, devWriter, router>>

TUNWrite ==
    /\ devWriter # <<>>
    /\ devWriter' = Tail(devWriter)
    /\ Put(Head(devWriter))
    /\ UNCHANGED <<tables, conns, links, devReader, router>>

-----------------------------------------------------------------------------
(* RoutineRouteTableWriter and addConnByDst, which it calls *)

Dst == body[router.payload]

RouterRecv ==
    /\ router.pc = "recv"
    /\ devReader # <<>>
    /\ devReader' = Tail(devReader)
    /\ LET p == Head(devReader) IN
       IF body[p] \in Multicast /\ EnableBroadcast
       THEN Drop(p) /\ UNCHANGED router
       ELSE /\ router' = [router EXCEPT !.pc = "load", !.payload = p]
            /\ UNCHANGED pool
    /\ UNCHANGED <<tables, conns, links, devWriter>>

\* addr.Load, at "load" by the routine itself and at "byDst" by addConnByDst.
RouterLoad ==
    /\ router.pc \in {"load", "byDst"}
    /\ router' = IF addr[Dst] # Nil
                 THEN [router EXCEPT !.pc = "send", !.conn = addr[Dst]]
                 ELSE [router EXCEPT !.pc = IF @ = "load" THEN "byDst" ELSE "range"]
    /\ UNCHANGED <<tables, conns, links, tun, pool>>

\* Mutant: the comparison of the prefix's address is lost.
MatchesAny(k) == TRUE

\* The callback of m.Range stops at the first peer whose address is Dst, in the
\* order Range happens to visit the map.
Matches(k) == PeerAddr[k] = Dst

NoRoute ==
    /\ router.pc = "range"
    /\ \A k \in Peer : ~Matches(k)
    /\ router' = Receiving
    /\ Drop(router.payload)
    /\ UNCHANGED <<tables, conns, links, tun>>

\* The peer already has a channel.
RouteByID(k) ==
    /\ router.pc = "range"
    /\ Matches(k)
    /\ id[k] # Nil
    /\ router' = [router EXCEPT !.pc = "send", !.conn = id[k]]
    /\ UNCHANGED <<tables, conns, links, tun, pool>>

\* Mutant: addConnByDst does not look the peer up in id first.
MakeChanUnchecked(k, c) ==
    /\ router.pc = "range"
    /\ Matches(k)
    /\ conn[c].pc = "unused"
    /\ conn' = [conn EXCEPT ![c] = [pc |-> "made", key |-> k, dst |-> Dst]]
    /\ router' = [router EXCEPT !.pc = "storeAddr", !.key = k, !.conn = c]
    /\ UNCHANGED <<tables, queue, links, tun, pool>>

MakeChan(k, c) ==
    /\ router.pc = "range"
    /\ Matches(k)
    /\ id[k] = Nil
    /\ conn[c].pc = "unused"
    /\ conn' = [conn EXCEPT ![c] = [pc |-> "made", key |-> k, dst |-> Dst]]
    /\ router' = [router EXCEPT !.pc = "storeAddr", !.key = k, !.conn = c]
    /\ UNCHANGED <<tables, queue, links, tun, pool>>

StoreAddr ==
    /\ router.pc = "storeAddr"
    /\ addr' = [addr EXCEPT ![Dst] = router.conn]
    /\ router' = [router EXCEPT !.pc = "storeID"]
    /\ UNCHANGED <<id, conns, links, tun, pool>>

\* id.Store, and the go statement that starts the connection's goroutine.
StoreID ==
    /\ router.pc = "storeID"
    /\ id' = [id EXCEPT ![router.key] = router.conn]
    /\ conn' = [conn EXCEPT ![router.conn].pc = "dialing"]
    /\ router' = [router EXCEPT !.pc = "send", !.key = Nil]
    /\ UNCHANGED <<addr, queue, links, tun, pool>>

\* Mutants of RouterSend: a channel takes one packet more than its capacity;
\* the payload is Put back after every send; the send waits for the channel.
RouterSendOverfull ==
    /\ router.pc = "send"
    /\ router' = Receiving
    /\ queue' = [queue EXCEPT ![router.conn] = Append(@, router.payload)]
    /\ Len(queue[router.conn]) <= ChanSize
    /\ UNCHANGED <<tables, conn, links, tun, pool>>

RouterSendAndPut ==
    /\ router.pc = "send"
    /\ router' = Receiving
    /\ IF Len(queue[router.conn]) < ChanSize
       THEN queue' = [queue EXCEPT ![router.conn] = Append(@, router.payload)]
       ELSE UNCHANGED queue
    /\ Put(router.payload)
    /\ UNCHANGED <<tables, conn, links, tun>>

RouterSendBlocks ==
    /\ router.pc = "send"
    /\ Len(queue[router.conn]) < ChanSize
    /\ queue' = [queue EXCEPT ![router.conn] = Append(@, router.payload)]
    /\ router' = Receiving
    /\ UNCHANGED <<tables, conn, links, tun, pool>>

RouterSend ==
    /\ router.pc = "send"
    /\ router' = Receiving
    /\ IF Len(queue[router.conn]) < ChanSize
       THEN /\ queue' = [queue EXCEPT ![router.conn] = Append(@, router.payload)]
            /\ UNCHANGED pool
       ELSE Put(router.payload) /\ UNCHANGED queue
    /\ UNCHANGED <<tables, conn, links, tun>>

Router ==
    \/ RouterRecv \/ RouterLoad \/ NoRoute \/ StoreAddr \/ StoreID \/ RouterSend
    \/ \E k \in Peer : RouteByID(k) \/ \E c \in Chan : MakeChan(k, c)

-----------------------------------------------------------------------------
(* The goroutine of a channel: addConn, then addr.Delete, then id.Delete    *)
(* (deferred calls run last in, first out).                                 *)

\* SearchNode, Connect and NewStream find no stream (or the id does not decode).
DialFail(c) ==
    /\ conn[c].pc = "dialing"
    /\ conn' = [conn EXCEPT ![c].pc = "addrDelete"]
    /\ UNCHANGED <<tables, queue, links, tun, router, pool>>

DialOK(c) ==
    /\ conn[c].pc = "dialing"
    /\ conn' = [conn EXCEPT ![c].pc = "open"]
    /\ stream' = [stream EXCEPT ![c] = "open"]
    /\ reading' = [reading EXCEPT ![c] = TRUE]
    /\ UNCHANGED <<tables, queue, handler, writing, held, tun, router, pool>>

\* The goroutine of link l has taken the head of channel c to write it.
Take(c, l) ==
    /\ queue[c] # <<>>
    /\ writing[l] = Nil
    /\ queue' = [queue EXCEPT ![c] = Tail(@)]
    /\ writing' = [writing EXCEPT ![l] = Head(queue[c])]

\* WriteMsg has returned, with or without an error: both Puts follow.
Written(l) ==
    /\ writing[l] # Nil
    /\ writing' = [writing EXCEPT ![l] = Nil]
    /\ Put(writing[l])

ConnTake(c) ==
    /\ conn[c].pc = "open"
    /\ Take(c, c)
    /\ UNCHANGED <<tables, conn, handler, stream, reading, held, tun, router, pool>>

ConnWrite(c) ==
    /\ conn[c].pc = "open"
    /\ Written(c)
    /\ stream[c] \in {"open", "eof"}
    /\ UNCHANGED <<tables, conns, handler, stream, reading, held, tun, router>>

\* Mutant: addConn's loop goes on after a failed write, as VPNHandler's does.
ConnWriteFailIgnored(c) ==
    /\ conn[c].pc = "open"
    /\ Written(c)
    /\ stream[c] \notin {"open", "eof"}
    /\ UNCHANGED <<tables, conns, handler, stream, reading, held, tun, router>>

\* A write on a broken stream fails.  addConn returns, and its deferred
\* stream.Close runs before it does.
ConnWriteFail(c) ==
    /\ conn[c].pc = "open"
    /\ Written(c)
    /\ stream[c] \notin {"open", "eof"}
    /\ conn' = [conn EXCEPT ![c].pc = "addrDelete"]
    /\ stream' = [stream EXCEPT ![c] = "closed"]
    /\ UNCHANGED <<tables, queue, handler, reading, held, tun, router>>

AddrDelete(c) ==
    /\ conn[c].pc = "addrDelete"
    /\ addr' = [addr EXCEPT ![conn[c].dst] = Nil]
    /\ conn' = [conn EXCEPT ![c].pc = "idDelete"]
    /\ UNCHANGED <<id, queue, links, tun, router, pool>>

\* Mutant: the goroutine ends without the deferred id.Delete.
IDDeleteForgotten(c) ==
    /\ conn[c].pc = "idDelete"
    /\ conn' = [conn EXCEPT ![c].pc = "done"]
    /\ UNCHANGED <<tables, queue, links, tun, router, pool>>

IDDelete(c) ==
    /\ conn[c].pc = "idDelete"
    /\ id' = [id EXCEPT ![conn[c].key] = Nil]
    /\ conn' = [conn EXCEPT ![c].pc = "done"]
    /\ UNCHANGED <<addr, queue, links, tun, router, pool>>

Deletes(c) == AddrDelete(c) \/ IDDelete(c)

Conn(c) ==
    \/ DialFail(c) \/ DialOK(c)
    \/ ConnTake(c) \/ ConnWrite(c) \/ ConnWriteFail(c)
    \/ Deletes(c)

-----------------------------------------------------------------------------
(* VPNHandler *)

\* libp2p calls the handler with a stream opened by remote peer r.
HandlerEnter(h, r) ==
    /\ handler[h].pc = "idle"
    /\ handler' = [handler EXCEPT ![h] = [pc |-> "entered", peer |-> r, chan |-> Nil]]
    /\ stream' = [stream EXCEPT ![h] = "open"]
    /\ UNCHANGED <<tables, conns, writing, reading, held, tun, router, pool>>

\* m.Load: the stream of a peer that is not in the route table is closed.
HandlerCheck(h) ==
    /\ handler[h].pc = "entered"
    /\ IF handler[h].peer \in Peer
       THEN handler' = [handler EXCEPT ![h].pc = "known"] /\ UNCHANGED stream
       ELSE /\ handler' = [handler EXCEPT ![h] = NoHandler]
            /\ stream' = [stream EXCEPT ![h] = "closed"]
    /\ UNCHANGED <<tables, conns, writing, reading, held, tun, router, pool>>

\* id.Load: without a channel for the peer the handler returns, and leaves the
\* stream as it is; otherwise it serves the stream with that channel for good.
HandlerLoad(h) ==
    /\ handler[h].pc = "known"
    /\ LET c == id[handler[h].peer] IN
       IF c = Nil
       THEN handler' = [handler EXCEPT ![h] = NoHandler] /\ UNCHANGED reading
       ELSE /\ handler' = [handler EXCEPT ![h].pc = "serving", ![h].chan = c]
            /\ reading' = [reading EXCEPT ![h] = TRUE]
    /\ UNCHANGED <<tables, conns, writing, stream, held, tun, router, pool>>

\* The handler's loop, which goes on after a failed write.
HandlerTake(h) ==
    /\ handler[h].pc = "serving"
    /\ Take(handler[h].chan, h)
    /\ UNCHANGED <<tables, conn, handler, stream, reading, held, tun, router, pool>>

HandlerWrite(h) ==
    /\ handler[h].pc = "serving"
    /\ Written(h)
    /\ UNCHANGED <<tables, conns, handler, stream, reading, held, tun, router>>

Handle(h) == HandlerCheck(h) \/ HandlerLoad(h) \/ HandlerTake(h) \/ HandlerWrite(h)

-----------------------------------------------------------------------------
(* The reading goroutine of a stream (the same code in addConn and          *)
(* VPNHandler), and what the network does to a stream.                      *)

RemotePeer(l) == IF l \in Chan THEN conn[l].key ELSE handler[l].peer

ReadMsg(l) ==
    /\ reading[l] /\ held[l] = Nil
    /\ stream[l] = "open"
    /\ \E p \in Payload : /\ Get(p, RemotePeer(l))
                          /\ held' = [held EXCEPT ![l] = p]
    /\ UNCHANGED <<tables, conns, handler, writing, stream, reading, tun, router>>

\* devWriter <- payload: blocks while devWriter is full.
DevWriterSend(l) ==
    /\ held[l] # Nil
    /\ Len(devWriter) < ChanSize
    /\ devWriter' = Append(devWriter, held[l])
    /\ held' = [held EXCEPT ![l] = Nil]
    /\ UNCHANGED <<tables, conns, handler, writing, stream, reading, devReader, router, pool>>

ReadError(l) ==
    /\ reading[l] /\ held[l] = Nil
    /\ stream[l] # "open"
    /\ reading' = [reading EXCEPT ![l] = FALSE]
    /\ UNCHANGED <<tables, conns, handler, writing, stream, held, tun, router, pool>>

\* The remote end closes the stream: reads fail from now on, writes do not.
\* Or it, or the transport, resets the stream, and both fail.
StreamBreak(l) ==
    /\ \/ stream[l] = "open" /\ stream' = [stream EXCEPT ![l] = "eof"]
       \/ stream[l] \in {"open", "eof"} /\ stream' = [stream EXCEPT ![l] = "reset"]
    /\ UNCHANGED <<tables, conns, handler, writing, reading, held, tun, router, pool>>

\* The garbage collector reclaims a channel that nothing refers to any more,
\* with the payloads left in it.
Unreferenced(c) ==
    /\ conn[c].pc = "done"
    /\ ~reading[c]
    /\ \A a \in Addr : addr[a] # c
    /\ \A k \in Peer : id[k] # c
    /\ \A h \in Handler : handler[h].chan # c
    /\ router.conn # c

Collect(c) ==
    /\ Unreferenced(c)
    /\ LET garbage == Elems(queue[c]) IN
       /\ free' = free \cup garbage
       /\ body' = [p \in Payload |-> IF p \in garbage THEN Nil ELSE body[p]]
    /\ conn' = [conn EXCEPT ![c] = NoConn]
    /\ queue' = [queue EXCEPT ![c] = <<>>]
    /\ stream' = [stream EXCEPT ![c] = "none"]
    /\ UNCHANGED <<tables, handler, writing, reading, held, tun, router>>

-----------------------------------------------------------------------------

Next ==
    \/ \E pkt \in Addr \cup {Malformed} : TUNRead(pkt)
    \/ TUNWrite
    \/ Router
    \/ \E c \in Chan : Conn(c) \/ Collect(c)
    \/ \E h \in Handler : Handle(h) \/ \E r \in Peer \cup Stranger : HandlerEnter(h, r)
    \/ \E l \in Link : ReadMsg(l) \/ DevWriterSend(l) \/ ReadError(l) \/ StreamBreak(l)

Spec == Init /\ [][Next]_vars

\* The Go scheduler runs every goroutine that can run.  Nothing is assumed of
\* the steps that wait for the network: a dial, a read, or a write on a stream
\* that is still open.  A write on a broken stream fails at once.  Sends blocked
\* on a channel are served in FIFO order, so no reader is overtaken for ever.
Fairness ==
    /\ WF_vars(TUNWrite)
    /\ WF_vars(Router)
    /\ \A c \in Chan : /\ WF_vars(ConnTake(c))
                       /\ WF_vars(ConnWriteFail(c))
                       /\ WF_vars(Deletes(c))
                       /\ WF_vars(Collect(c))
    /\ \A l \in Link : WF_vars(ReadError(l)) /\ SF_vars(DevWriterSend(l))

FairSpec == Spec /\ Fairness

-----------------------------------------------------------------------------
(* Properties *)

\* Every variable has its type, and no packet channel holds more than its
\* capacity (make(PacketChan, ChanSize)).
TypeOK ==
    /\ addr \in [Addr -> Chan \cup {Nil}]
    /\ id \in [Peer -> Chan \cup {Nil}]
    /\ conn \in [Chan -> ConnRec]
    /\ queue \in [Chan -> Seq(Payload)]
    /\ \A c \in Chan : Len(queue[c]) <= ChanSize
    /\ handler \in [Handler -> HandlerRec]
    /\ writing \in [Link -> Payload \cup {Nil}]
    /\ stream \in [Link -> StreamSt]
    /\ reading \in [Link -> BOOLEAN]
    /\ held \in [Link -> Payload \cup {Nil}]
    /\ devReader \in Seq(Payload) /\ Len(devReader) <= ChanSize
    /\ devWriter \in Seq(Payload) /\ Len(devWriter) <= ChanSize
    /\ router \in RouterRec
    /\ free \in SUBSET Payload
    /\ body \in [Payload -> Addr \cup Peer \cup Stranger \cup {Nil}]

\* The places a payload is referred to from, each with the payloads it refers to.
Place == ({"dev"} \X {"reader", "writer", "router"})
            \cup ({"queue"} \X Chan)
            \cup ({"writing", "held"} \X Link)

Opt(p) == IF p = Nil THEN <<>> ELSE <<p>>

content == [x \in Place |->
    CASE x = <<"dev", "reader">> -> devReader
      [] x = <<"dev", "writer">> -> devWriter
      [] x = <<"dev", "router">> -> Opt(router.payload)
      [] x[1] = "queue"          -> queue[x[2]]
      [] x[1] = "writing"        -> Opt(writing[x[2]])
      [] OTHER                   -> Opt(held[x[2]])]

Exclusive(places, avail) ==
    /\ \A x, y \in Place : \A i \in DOMAIN places[x], j \in DOMAIN places[y] :
          places[x][i] = places[y][j] => x = y /\ i = j
    /\ \A x \in Place : \A i \in DOMAIN places[x] : places[x][i] \notin avail

\* A pooled payload has one owner at a time: no two goroutines or channels hold
\* it, no channel holds it twice, and none holds one that was Put back (it would
\* be overwritten by whoever Gets it next).
PayloadExclusive == Exclusive(content, free)

\* A packet read from TUN only ever gets into a channel of, and onto a stream
\* to, the peer that owns its destination address; this includes the streams
\* VPNHandler writes to with a channel it looked up long ago.
Addressed ==
    /\ \A c \in Chan : \A i \in DOMAIN queue[c] :
          body[queue[c][i]] = PeerAddr[conn[c].key]
    /\ \A l \in Link : writing[l] # Nil =>
          RemotePeer(l) \in Peer /\ body[writing[l]] = PeerAddr[RemotePeer(l)]

\* The goroutine of the channel is between its go statement and its last Delete.
Live(c) == conn[c].pc \in {"dialing", "open", "addrDelete", "idDelete"}

\* id holds the channels of running goroutines, each under its own peer.
IdLive == \A k \in Peer : id[k] # Nil => Live(id[k]) /\ conn[id[k]].key = k

\* addr holds channels under their own address: of goroutines that have not got
\* to their addr.Delete, or the one addConnByDst is about to store in id.
AddrLive ==
    \A a \in Addr : addr[a] # Nil =>
        /\ conn[addr[a]].dst = a
        /\ \/ conn[addr[a]].pc \in {"dialing", "open", "addrDelete"}
           \/ router.pc = "storeID" /\ router.conn = addr[a]

\* A goroutine is found under its peer until its id.Delete.
LiveInId == \A c \in Chan : Live(c) => id[conn[c].key] = c

\* The two indexes of the route table agree with the goroutines: whatever the
\* router or VPNHandler finds in addr or id is the channel of a running goroutine
\* for that address or peer, and every running goroutine is found.
RouteTableAgrees == IdLive /\ AddrLive /\ LiveInId

\* No two goroutines dial, write to or clean up after the same peer.
OneConnPerPeer ==
    \A c, d \in Chan : Live(c) /\ Live(d) /\ conn[c].key = conn[d].key => c = d

\* An entry of the route table is never replaced by another channel, and it is
\* removed only by the deferred Deletes of its own goroutine, although these
\* delete by key and not by value.
OnlyOwnerDeletes ==
    [][ /\ \A k \in Peer : id[k] # Nil /\ id'[k] # id[k] =>
              id'[k] = Nil /\ conn[id[k]].pc = "idDelete"
        /\ \A a \in Addr : addr[a] # Nil /\ addr'[a] # addr[a] =>
              addr'[a] = Nil /\ conn[addr[a]].pc = "addrDelete" ]_vars

\* A packet read from TUN is dispatched, however slow or dead the peers are:
\* the router drops instead of waiting for a full channel.
Dispatched ==
    /\ \A p \in Payload : p \in Elems(devReader) ~> p \notin Elems(devReader)
    /\ router.pc # "recv" ~> router.pc = "recv"

\* Once a write to a peer hits a broken stream, the peer is unregistered, so
\* that the next packet for it dials again.
BrokenConnRemoved ==
    \A c \in Chan :
        conn[c].pc = "open" /\ stream[c] = "reset" /\ writing[c] # Nil
            ~> \A k \in Peer : id[k] # c

-----------------------------------------------------------------------------
(* What the invariants above rest on: the parts of an inductive invariant.  *)

ControlOK ==
    /\ router.pc = "recv" => router = Receiving
    /\ router.pc # "recv" => router.payload # Nil
    /\ router.pc \in {"storeAddr", "storeID"} => router.key # Nil
    /\ router.pc \in {"storeAddr", "storeID", "send"} => router.conn # Nil
    /\ \A h \in Handler : handler[h].pc \in {"known", "serving"} => handler[h].peer \in Peer
    /\ \A h \in Handler : handler[h].pc = "serving" => handler[h].chan # Nil

\* What waits to be routed, or is being routed, was read from TUN.
DstOK ==
    /\ \A i \in DOMAIN devReader : body[devReader[i]] \in Addr
    /\ router.payload # Nil => body[router.payload] \in Addr

\* A channel has the key and the address it was made with, and is found under
\* that address until its addr.Delete.
ChanOK ==
    \A c \in Chan :
        /\ conn[c].pc # "unused" => conn[c].key \in Peer /\ conn[c].dst = PeerAddr[conn[c].key]
        /\ conn[c].pc \in {"dialing", "open", "addrDelete"} => addr[conn[c].dst] = c
        /\ conn[c].pc = "made" => router.pc \in {"storeAddr", "storeID"} /\ router.conn = c

\* addConnByDst still finds what it found at its last access to the tables.
RouterOK ==
    /\ router.pc \in {"range", "storeAddr"} => addr[Dst] = Nil
    /\ router.pc = "storeID" => addr[Dst] = router.conn
    /\ router.pc \in {"storeAddr", "storeID"} =>
          /\ conn[router.conn].pc = "made"
          /\ conn[router.conn].key = router.key
          /\ conn[router.conn].dst = Dst
          /\ id[router.key] = Nil
    /\ router.pc = "send" => /\ conn[router.conn].pc \notin {"unused", "made"}
                             /\ conn[router.conn].dst = Dst

\* Nothing is left in a channel that is not in use, only the loops of addConn
\* and VPNHandler hold a packet to write, and a serving handler's channel is the
\* one of the peer whose stream it serves, for as long as it serves.
Served ==
    /\ \A c \in Chan : conn[c].pc = "unused" => queue[c] = <<>>
    /\ \A c \in Chan : writing[c] # Nil => conn[c].pc = "open"
    /\ \A h \in Handler : writing[h] # Nil => handler[h].pc = "serving"
    /\ \A h \in Handler : handler[h].pc = "serving" =>
          /\ conn[handler[h].chan].pc # "unused"
          /\ conn[handler[h].chan].key = handler[h].peer
=============================================================================
