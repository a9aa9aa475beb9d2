------------------------------ MODULE Overlay ------------------------------
(***************************************************************************)
(* Several nodes and the streams between them: what becomes of a packet on *)
(* its way from one TUN device to another (core/engine, core/protocol).    *)
(*                                                                         *)
(* Engine models the inside of one node.  Here, reading a packet and       *)
(* routing it is one step, and so is writing one that was received; the    *)
(* two ends of a stream, its windows, the choices VPNHandler makes and the *)
(* restart of a node are what this module adds.  An element c of Chan is a *)
(* packet channel, the goroutine that addConnByDst starts for it, the      *)
(* stream that goroutine opens, and the VPNHandler at its other end.       *)
(***************************************************************************)
EXTENDS Naturals, Sequences, FiniteSets

CONSTANTS
    Node,
    Tables,    \* the route tables the nodes may have: a set of [Node -> SUBSET Node]
    Packet,    \* identities of packets that arrive at a TUN device
    Src, Dst,  \* [Packet -> Node]
    Size,      \* [Packet -> Nat]: the number of bytes
    Version,   \* [Packet -> Nat]: what the first four bits say
    BuffSize,  \* the length of the buffer packets are read into
    Chan,
    ChanSize,  \* the capacity of a packet channel
    Window,    \* the messages a stream takes before somebody reads them
    Nil        \* no value

\* cfg.MTU is no larger than BuffSize, as with the default configuration.
ASSUME OverlayAssumption ==
    /\ Src \in [Packet -> Node] /\ Dst \in [Packet -> Node]
    /\ Tables \subseteq [Node -> SUBSET Node]
    /\ BuffSize \in Nat /\ ChanSize \in Nat \ {0} /\ Window \in Nat \ {0}
    /\ Size \in [Packet -> 0..BuffSize]
    /\ Nil \notin Chan \cup Node

VARIABLES
    m,       \* routeTable.m of the nodes
    id,      \* routeTable.id of the nodes: the channel for a peer
    chan,    \* the goroutine of a channel: where it is, its node and its peer
    queue,   \* the contents of the channel
    writing, \* the message its goroutine has taken to write
    stream,  \* the state of the stream
    to,      \* the messages on their way to the node that was dialled
    from,    \* the messages on their way back
    handler, \* VPNHandler at the node that was dialled: where, with which channel
    hwrites, \* the message it has taken to write
    sent,    \* history: the packets that were accepted
    got,     \* history: for each packet, where it was written to TUN and its length
    asked    \* history: the peers a node has made a channel for

ends    == <<stream, to, from, handler, hwrites>>
history == <<sent, got, asked>>
vars    == <<m, id, chan, queue, writing, ends, history>>

NoHandler == [pc |-> "none", chan |-> Nil]

Init ==
    /\ m \in Tables
    /\ id = [n \in Node |-> [p \in Node |-> Nil]]
    /\ chan = [c \in Chan |-> [pc |-> "unused", node |-> Nil, peer |-> Nil]]
    /\ queue = [c \in Chan |-> <<>>]
    /\ writing = [c \in Chan |-> <<>>]
    /\ stream = [c \in Chan |-> "none"]
    /\ to = [c \in Chan |-> <<>>]
    /\ from = [c \in Chan |-> <<>>]
    /\ handler = [c \in Chan |-> NoHandler]
    /\ hwrites = [c \in Chan |-> <<>>]
    /\ sent = {}
    /\ got = [p \in Packet |-> <<>>]
    /\ asked = [n \in Node |-> {}]

-----------------------------------------------------------------------------
(* From TUN to a channel *)

\* ParseIP: whether n bytes with this version have a header to take the addresses
\* from.
ParseIP(version, n) ==
    /\ n >= 20
    /\ version = 4 \/ (version = 6 /\ n >= 40)

\* device.Read: what fits into the buffer.
DeviceRead(p) == IF Size[p] <= BuffSize THEN Size[p] ELSE BuffSize

Message(p) == [pkt |-> p, len |-> DeviceRead(p)]

\* Mutant: the channel takes what does not fit.
EnqueueAnyway(p, c) == queue' = [queue EXCEPT ![c] = Append(@, Message(p))]

Enqueue(p, c) ==
    /\ Len(queue[c]) < ChanSize
    /\ queue' = [queue EXCEPT ![c] = Append(@, Message(p))]

\* RoutineTUNReader has read p, and it has a header.
Accept(p) ==
    /\ p \notin sent
    /\ ParseIP(Version[p], DeviceRead(p))
    /\ sent' = sent \cup {p}

\* The packet is dropped: devReader or the channel is full, or there is no route.
Drop(p) ==
    /\ Accept(p)
    /\ UNCHANGED <<m, id, chan, queue, writing, ends, got, asked>>

\* RoutineRouteTableWriter: the peer has a channel, perhaps of a goroutine that is
\* about to end, ...
Route(p) ==
    LET c == id[Src[p]][Dst[p]] IN
    /\ Accept(p)
    /\ c # Nil
    /\ Enqueue(p, c)
    /\ UNCHANGED <<m, id, chan, writing, ends, got, asked>>

\* A channel that has not been made yet; which one does not matter.
Fresh == CHOOSE c \in Chan : chan[c].pc = "unused"

\* ... or it has none, and is dialled.
RouteNew(p) ==
    LET n == Src[p]
        c == Fresh
    IN
    /\ Accept(p)
    /\ Dst[p] \in m[n] /\ id[n][Dst[p]] = Nil
    /\ \E d \in Chan : chan[d].pc = "unused"
    /\ chan' = [chan EXCEPT ![c] = [pc |-> "dialing", node |-> n, peer |-> Dst[p]]]
    /\ id' = [id EXCEPT ![n][Dst[p]] = c]
    /\ Enqueue(p, c)
    /\ asked' = [asked EXCEPT ![n] = @ \cup {Dst[p]}]
    /\ UNCHANGED <<m, writing, ends, got>>

-----------------------------------------------------------------------------
(* addConn *)

At(c, pc) == chan[c].pc = pc

ChanGoes(c, pc) == chan' = [chan EXCEPT ![c].pc = pc]

DialFail(c) ==
    /\ At(c, "dialing")
    /\ ChanGoes(c, "ending")
    /\ UNCHANGED <<m, id, queue, writing, ends, history>>

\* libp2p calls VPNHandler at the other node.
DialOK(c) ==
    /\ At(c, "dialing")
    /\ ChanGoes(c, "open")
    /\ stream' = [stream EXCEPT ![c] = "open"]
    /\ handler' = [handler EXCEPT ![c].pc = "entered"]
    /\ UNCHANGED <<m, id, queue, writing, to, from, hwrites, history>>

ConnTake(c) ==
    /\ At(c, "open")
    /\ writing[c] = <<>> /\ queue[c] # <<>>
    /\ writing' = [writing EXCEPT ![c] = <<Head(queue[c])>>]
    /\ queue' = [queue EXCEPT ![c] = Tail(@)]
    /\ UNCHANGED <<m, id, chan, ends, history>>

\* WriteMsg waits while the window is full.
ConnWrite(c) ==
    /\ At(c, "open")
    /\ writing[c] # <<>>
    /\ stream[c] = "open" /\ Len(to[c]) < Window
    /\ to' = [to EXCEPT ![c] = @ \o writing[c]]
    /\ writing' = [writing EXCEPT ![c] = <<>>]
    /\ UNCHANGED <<m, id, chan, queue, stream, from, handler, hwrites, history>>

ConnWriteFail(c) ==
    /\ At(c, "open")
    /\ writing[c] # <<>> /\ stream[c] = "reset"
    /\ ChanGoes(c, "ending")
    /\ writing' = [writing EXCEPT ![c] = <<>>]
    /\ UNCHANGED <<m, id, queue, ends, history>>

\* The deferred Deletes.
ConnEnd(c) ==
    /\ At(c, "ending")
    /\ ChanGoes(c, "ended")
    /\ id' = [id EXCEPT ![chan[c].node][chan[c].peer] = Nil]
    /\ UNCHANGED <<m, queue, writing, ends, history>>

-----------------------------------------------------------------------------
(* VPNHandler, at the node that was dialled *)

\* Mutant: the handler waits for the peer to get a channel.
HandlerStartWaits(c) ==
    LET n == chan[c].peer
        k == chan[c].node
    IN /\ handler[c].pc = "entered"
       /\ k \in m[n] => id[n][k] # Nil
       /\ handler' = [handler EXCEPT ![c] = [pc |-> IF k \in m[n] THEN "serving" ELSE "closed",
                                             chan |-> id[n][k]]]
       /\ UNCHANGED <<m, id, chan, queue, writing, stream, to, from, hwrites, history>>

\* The stream of a stranger is closed.  One of a peer without a channel is left
\* alone, open and with nobody to read it.
HandlerStart(c) ==
    LET n == chan[c].peer
        k == chan[c].node
    IN /\ handler[c].pc = "entered"
       /\ handler' = [handler EXCEPT ![c] =
            IF k \notin m[n] THEN [pc |-> "closed", chan |-> Nil]
            ELSE IF id[n][k] = Nil THEN [pc |-> "left", chan |-> Nil]
            ELSE [pc |-> "serving", chan |-> id[n][k]]]
       /\ UNCHANGED <<m, id, chan, queue, writing, stream, to, from, hwrites, history>>

\* Mutant: the handler writes what it finds and leaves it in the channel.
HandlerTakeCopies(c) ==
    LET d == handler[c].chan IN
    /\ handler[c].pc = "serving"
    /\ hwrites[c] = <<>> /\ queue[d] # <<>>
    /\ hwrites' = [hwrites EXCEPT ![c] = <<Head(queue[d])>>]
    /\ UNCHANGED <<m, id, chan, queue, writing, stream, to, from, handler, history>>

HandlerTake(c) ==
    LET d == handler[c].chan IN
    /\ handler[c].pc = "serving"
    /\ hwrites[c] = <<>> /\ queue[d] # <<>>
    /\ hwrites' = [hwrites EXCEPT ![c] = <<Head(queue[d])>>]
    /\ queue' = [queue EXCEPT ![d] = Tail(@)]
    /\ UNCHANGED <<m, id, chan, writing, stream, to, from, handler, history>>

\* A failed write loses the message, and the loop goes on.
HandlerWrite(c) ==
    /\ handler[c].pc = "serving"
    /\ hwrites[c] # <<>>
    /\ \/ /\ stream[c] = "open" /\ Len(from[c]) < Window
          /\ from' = [from EXCEPT ![c] = @ \o hwrites[c]]
       \/ stream[c] = "reset" /\ UNCHANGED from
    /\ hwrites' = [hwrites EXCEPT ![c] = <<>>]
    /\ UNCHANGED <<m, id, chan, queue, writing, stream, to, handler, history>>

-----------------------------------------------------------------------------
(* From a stream to TUN *)

\* The message was read, passed through devWriter and written to the device.
Write(n, msg) ==
    got' = [got EXCEPT ![msg.pkt] = Append(@, [at |-> n, len |-> msg.len])]

\* Mutant: a stream that VPNHandler has left is read.
ReadToLeft(c) ==
    /\ handler[c].pc \in {"serving", "closed", "left"}
    /\ stream[c] = "open" /\ to[c] # <<>>
    /\ to' = [to EXCEPT ![c] = Tail(@)]
    /\ IF handler[c].pc # "closed" THEN Write(chan[c].peer, Head(to[c])) ELSE UNCHANGED got
    /\ UNCHANGED <<m, id, chan, queue, writing, stream, from, handler, hwrites, sent, asked>>

\* The reading goroutine of VPNHandler.  (A stream it has closed is drained.)
ReadTo(c) ==
    /\ handler[c].pc \in {"serving", "closed"}
    /\ stream[c] = "open" /\ to[c] # <<>>
    /\ to' = [to EXCEPT ![c] = Tail(@)]
    /\ IF handler[c].pc = "serving" THEN Write(chan[c].peer, Head(to[c])) ELSE UNCHANGED got
    /\ UNCHANGED <<m, id, chan, queue, writing, stream, from, handler, hwrites, sent, asked>>

\* The reading goroutine of addConn.
ReadFrom(c) ==
    /\ stream[c] = "open" /\ from[c] # <<>>
    /\ from' = [from EXCEPT ![c] = Tail(@)]
    /\ Write(chan[c].node, Head(from[c]))
    /\ UNCHANGED <<m, id, chan, queue, writing, stream, to, handler, hwrites, sent, asked>>

-----------------------------------------------------------------------------
(* Failures *)

\* The streams in C are reset, and what was in them is lost.
Break(C) ==
    /\ stream' = [c \in Chan |-> IF c \in C THEN "reset" ELSE stream[c]]
    /\ to' = [c \in Chan |-> IF c \in C THEN <<>> ELSE to[c]]
    /\ from' = [c \in Chan |-> IF c \in C THEN <<>> ELSE from[c]]

Reset(c) ==
    /\ stream[c] = "open"
    /\ Break({c})
    /\ UNCHANGED <<m, id, chan, queue, writing, handler, hwrites, history>>

\* A node is started again: its channels and handlers are gone.
Restart(n) ==
    LET own    == {c \in Chan : chan[c].node = n}
        called == {c \in Chan : chan[c].peer = n}
        Of(C, f, v) == [c \in Chan |-> IF c \in C THEN v ELSE f[c]]
    IN /\ \E c \in own \cup called : stream[c] = "open" \/ chan[c].pc # "ended"
       /\ chan' = [c \in Chan |-> IF c \in own THEN [chan[c] EXCEPT !.pc = "ended"] ELSE chan[c]]
       /\ id' = [id EXCEPT ![n] = [p \in Node |-> Nil]]
       /\ queue' = Of(own, queue, <<>>)
       /\ writing' = Of(own, writing, <<>>)
       /\ handler' = Of(called, handler, NoHandler)
       /\ hwrites' = Of(called, hwrites, <<>>)
       /\ Break({c \in own \cup called : stream[c] = "open"})
       /\ UNCHANGED <<m, history>>

-----------------------------------------------------------------------------

Next ==
    \/ \E p \in Packet : Drop(p) \/ Route(p) \/ RouteNew(p)
    \/ \E c \in Chan :
        \/ DialFail(c) \/ DialOK(c) \/ ConnTake(c) \/ ConnWrite(c) \/ ConnWriteFail(c) \/ ConnEnd(c)
        \/ HandlerStart(c) \/ HandlerTake(c) \/ HandlerWrite(c)
        \/ ReadTo(c) \/ ReadFrom(c) \/ Reset(c)
    \/ \E n \in Node : Restart(n)

Spec == Init /\ [][Next]_vars

\* Every goroutine that can go on does; a dial ends, as libp2p limits its time.
\* Nothing is assumed of packets, resets and restarts.
Fairness ==
    \A c \in Chan :
        /\ WF_vars(DialFail(c) \/ DialOK(c))
        /\ WF_vars(ConnTake(c)) /\ WF_vars(ConnWrite(c) \/ ConnWriteFail(c)) /\ WF_vars(ConnEnd(c))
        /\ WF_vars(HandlerStart(c)) /\ WF_vars(HandlerTake(c)) /\ WF_vars(HandlerWrite(c))
        /\ WF_vars(ReadTo(c)) /\ WF_vars(ReadFrom(c))

FairSpec == Spec /\ Fairness

-----------------------------------------------------------------------------
(* Properties *)

Msg == [pkt : Packet, len : 0..BuffSize]

\* The types; packet channels and streams hold no more than they have room for.
TypeOK ==
    /\ m \in Tables
    /\ id \in [Node -> [Node -> Chan \cup {Nil}]]
    /\ chan \in [Chan -> [pc : {"unused", "dialing", "open", "ending", "ended"},
                          node : Node \cup {Nil}, peer : Node \cup {Nil}]]
    /\ handler \in [Chan -> [pc : {"none", "entered", "closed", "left", "serving"}, chan : Chan \cup {Nil}]]
    /\ stream \in [Chan -> {"none", "open", "reset"}]
    /\ queue \in [Chan -> Seq(Msg)] /\ writing \in [Chan -> Seq(Msg)] /\ hwrites \in [Chan -> Seq(Msg)]
    /\ to \in [Chan -> Seq(Msg)] /\ from \in [Chan -> Seq(Msg)]
    /\ \A c \in Chan : Len(queue[c]) <= ChanSize /\ Len(to[c]) <= Window /\ Len(from[c]) <= Window
    /\ sent \in SUBSET Packet
    /\ got \in [Packet -> Seq([at : Node, len : 0..BuffSize])]
    /\ asked \in [Node -> SUBSET Node]

Service == INSTANCE Datagram

\* The nodes together are a datagram service: whatever streams break, handlers
\* compete for a channel and nodes restart, a packet is written to TUN at most
\* once, at the node it is addressed to, and with its full length.
Implements == Service!Spec

\* VPNHandler leaves a stream whose peer has no channel: nothing reaches a node
\* from a peer that it has never sent a packet to itself.
AnswersOnly == \A p \in Packet : got[p] # <<>> => Src[p] \in asked[Dst[p]]

In(p, s) == \E i \in DOMAIN s : s[i].pkt = p

Served(c) == \E d \in Chan : handler[d].pc = "serving" /\ handler[d].chan = c

\* p is still on its way: in the channel or the hands of a goroutine that is there
\* to pass it on, or in an open stream.
OnTheWay(p) ==
    \E c \in Chan :
        \/ In(p, queue[c]) /\ (chan[c].pc \in {"dialing", "open"} \/ Served(c))
        \/ In(p, writing[c]) \/ In(p, hwrites[c])
        \/ In(p, to[c]) \/ In(p, from[c])

\* p is in, or waits for, a stream that VPNHandler has left.
InLimbo(p) ==
    \E c \in Chan :
        /\ handler[c].pc = "left" /\ stream[c] = "open"
        /\ In(p, queue[c]) \/ In(p, writing[c]) \/ In(p, to[c])

\* A packet arrives or is lost.  The only place where it may stay for ever is a
\* stream that VPNHandler has left without closing it.
Settles == \A p \in Packet : OnTheWay(p) ~> ~OnTheWay(p) \/ InLimbo(p)
=============================================================================
