----------------------------- MODULE Discovery -----------------------------
(***************************************************************************)
(* Finding a peer (core/engine/search.go, mdns.go and the loop of addConn  *)
(* in conn.go), on top of Bootstrap.  The context is cancelled by Run when *)
(* it fails, or by whoever passed a context to it.                         *)
(*                                                                         *)
(* addConn ranges over the channel SearchNode returns and dials what it    *)
(* gets.  Two goroutines send to the channel: one looks in the peer store, *)
(* which mDNS fills, the other asks the DHT; a third one closes it when    *)
(* both have ended.  All results are addresses of the peer searched for,   *)
(* so a channel is the number of them.  A peer is searched for again when  *)
(* the goroutines of its last search have ended.                           *)
(***************************************************************************)
EXTENDS Bootstrap

CONSTANTS
    channelBuffLength,  \* the capacity of the channel
    MaxResults          \* bound on the results of one query of the DHT

ASSUME DiscoveryAssumption == channelBuffLength \in Nat \ {0} /\ MaxResults \in Nat

VARIABLES
    addConn,  \* where the goroutine of a connection is
    cache,    \* where searchByCache is
    dht,      \* where searchByDHT is, and how many results it has seen
    ch,       \* the number of results in the channel
    closed,   \* whether the channel is closed
    known,    \* the peers the peer store has addresses of
    mdns      \* where mdnsLoop is

searchvars == <<addConn, cache, dht, ch, closed>>
vars == <<ctxDone, bootvars, searchvars, known, mdns>>

Init ==
    /\ BootInit
    /\ addConn = [p \in Peer |-> "idle"]
    /\ cache = [p \in Peer |-> "done"]
    /\ dht = [p \in Peer |-> [pc |-> "done", seen |-> 0]]
    /\ ch = [p \in Peer |-> 0]
    /\ closed = [p \in Peer |-> TRUE]
    /\ known = {}
    /\ mdns = "starting"

\* e.ctx is cancelled.
Cancel ==
    /\ ~ctxDone
    /\ ctxDone' = TRUE
    /\ UNCHANGED <<bootvars, searchvars, known, mdns>>

-----------------------------------------------------------------------------
(* mDNS and the peer store *)

\* mdns.Start, at the start of mdnsLoop and at every tick, until it succeeds.  The
\* case for the cancelled context does nothing.
MdnsStart ==
    /\ mdns = "starting"
    /\ mdns' \in {"running", "starting"}
    /\ UNCHANGED <<ctxDone, bootvars, searchvars, known>>

HandlePeerFound(p) ==
    /\ mdns = "running"
    /\ known' = known \cup {p}
    /\ UNCHANGED <<ctxDone, bootvars, searchvars, mdns>>

\* The addresses of a peer get older than AddressTTL.
Expire(p) ==
    /\ p \in known
    /\ known' = known \ {p}
    /\ UNCHANGED <<ctxDone, bootvars, searchvars, mdns>>

-----------------------------------------------------------------------------
(* SearchNode *)

Ended(p) == cache[p] = "done" /\ dht[p].pc = "done" /\ closed[p]

\* addConn decodes the id and calls SearchNode, which starts the goroutines.
SearchNode(p) ==
    /\ addConn[p] = "idle"
    /\ Ended(p)
    /\ addConn' = [addConn EXCEPT ![p] = "range"]
    /\ cache' = [cache EXCEPT ![p] = "look"]
    /\ dht' = [dht EXCEPT ![p] = [pc |-> "find", seen |-> 0]]
    /\ ch' = [ch EXCEPT ![p] = 0]
    /\ closed' = [closed EXCEPT ![p] = FALSE]
    /\ UNCHANGED <<ctxDone, bootvars, known, mdns>>

\* Mutants: the group counts one goroutine only; nobody closes the channel.
CloseEarly(p) ==
    /\ ~closed[p]
    /\ cache[p] = "done"
    /\ closed' = [closed EXCEPT ![p] = TRUE]
    /\ UNCHANGED <<ctxDone, bootvars, addConn, cache, dht, ch, known, mdns>>

CloseForgotten(p) ==
    /\ ~closed[p]
    /\ cache[p] = "done" /\ dht[p].pc = "done"
    /\ UNCHANGED vars

\* wg.Wait returns, and the deferred close runs.
Close(p) ==
    /\ ~closed[p]
    /\ cache[p] = "done" /\ dht[p].pc = "done"
    /\ closed' = [closed EXCEPT ![p] = TRUE]
    /\ UNCHANGED <<ctxDone, bootvars, addConn, cache, dht, ch, known, mdns>>

\* Mutant: the send does not wait for room.
SendAnyway(p) == ch' = [ch EXCEPT ![p] = @ + 1]

Send(p) ==
    /\ ch[p] < channelBuffLength
    /\ ch' = [ch EXCEPT ![p] = @ + 1]

CacheLook(p) ==
    /\ cache[p] = "look"
    /\ cache' = [cache EXCEPT ![p] = IF p \in known THEN "send" ELSE "done"]
    /\ UNCHANGED <<ctxDone, bootvars, addConn, dht, ch, closed, known, mdns>>

\* Mutant: the cache side does not look at the context.
CacheSendDeaf(p) ==
    /\ cache[p] = "send"
    /\ Send(p)
    /\ cache' = [cache EXCEPT ![p] = "done"]
    /\ UNCHANGED <<ctxDone, bootvars, addConn, dht, closed, known, mdns>>

CacheSend(p) ==
    /\ cache[p] = "send"
    /\ \/ Send(p)
       \/ ctxDone /\ UNCHANGED ch
    /\ cache' = [cache EXCEPT ![p] = "done"]
    /\ UNCHANGED <<ctxDone, bootvars, addConn, dht, closed, known, mdns>>

To(p, pc) == dht' = [dht EXCEPT ![p].pc = pc]

\* FindPeers fails, and searchByDHT joins the DHT again.
FindFail(p) ==
    /\ dht[p].pc = "find"
    /\ Call(p)
    /\ To(p, "join")
    /\ UNCHANGED <<ctxDone, parses, loop, addConn, cache, ch, closed, known, mdns>>

\* Whether that worked or not, the search is over.
Joined(p) ==
    /\ dht[p].pc = "join"
    /\ Return(p)
    /\ To(p, "done")
    /\ UNCHANGED <<ctxDone, parses, loop, addConn, cache, ch, closed, known, mdns>>

FindPeers(p) ==
    /\ dht[p].pc = "find"
    /\ To(p, "recv")
    /\ UNCHANGED <<ctxDone, bootvars, addConn, cache, ch, closed, known, mdns>>

\* The query has another result: of another peer or without addresses, or one to
\* be sent.
Result(p) ==
    /\ dht[p].pc = "recv"
    /\ dht[p].seen < MaxResults
    /\ \E pc \in {"recv", "send"} : dht' = [dht EXCEPT ![p] = [pc |-> pc, seen |-> @.seen + 1]]
    /\ UNCHANGED <<ctxDone, bootvars, addConn, cache, ch, closed, known, mdns>>

\* This send does not look at the context.
ResultSend(p) ==
    /\ dht[p].pc = "send"
    /\ Send(p)
    /\ To(p, "recv")
    /\ UNCHANGED <<ctxDone, bootvars, addConn, cache, closed, known, mdns>>

QueryEnd(p) ==
    /\ dht[p].pc = "recv"
    /\ To(p, "done")
    /\ UNCHANGED <<ctxDone, bootvars, addConn, cache, ch, closed, known, mdns>>

-----------------------------------------------------------------------------
(* The loop of addConn *)

\* range over the channel: the next result, or the end after the last one.
RangeRecv(p) ==
    /\ addConn[p] = "range"
    /\ \/ /\ ch[p] > 0
          /\ ch' = [ch EXCEPT ![p] = @ - 1]
          /\ addConn' = [addConn EXCEPT ![p] = "dial"]
       \/ /\ closed[p] /\ ch[p] = 0
          /\ addConn' = [addConn EXCEPT ![p] = "none"]
          /\ UNCHANGED ch
    /\ UNCHANGED <<ctxDone, bootvars, cache, dht, closed, known, mdns>>

\* Connect and NewStream: on success the loop breaks and the rest of the results
\* stays where it is.
Dial(p) ==
    /\ addConn[p] = "dial"
    /\ addConn' \in {[addConn EXCEPT ![p] = "range"], [addConn EXCEPT ![p] = "stream"]}
    /\ UNCHANGED <<ctxDone, bootvars, cache, dht, ch, closed, known, mdns>>

\* addConn ends, at once or when its stream breaks.
ConnEnd(p) ==
    /\ addConn[p] \in {"stream", "none"}
    /\ addConn' = [addConn EXCEPT ![p] = "idle"]
    /\ UNCHANGED <<ctxDone, bootvars, cache, dht, ch, closed, known, mdns>>

-----------------------------------------------------------------------------

Search(p) ==
    \/ SearchNode(p) \/ Close(p)
    \/ CacheLook(p) \/ CacheSend(p)
    \/ FindFail(p) \/ Joined(p) \/ FindPeers(p) \/ Result(p) \/ ResultSend(p) \/ QueryEnd(p)
    \/ RangeRecv(p) \/ Dial(p) \/ ConnEnd(p)

\* A step of Bootstrap.
Boot(step) == step /\ UNCHANGED <<ctxDone, searchvars, known, mdns>>

Next ==
    \/ Cancel
    \/ Boot(LoopCall) \/ Boot(LoopResult) \/ Boot(LoopWait)
    \/ \E c \in Caller : Boot(RecvFail(c)) \/ Boot(RecvOK(c))
    \/ \E c \in Caller, b \in Bootstrap : Boot(DialOK(c, b)) \/ Boot(DialFail(c, b))
    \/ MdnsStart
    \/ \E p \in Peer : Search(p) \/ HandlePeerFound(p) \/ Expire(p)

Spec == Init /\ [][Next]_vars

\* A goroutine that can go on does.  Dials and queries of the DHT come to an end,
\* as libp2p limits their time.  Nothing is assumed of searches being started, of results, of mDNS.
Fairness ==
    /\ WF_vars(Boot(LoopCall \/ LoopResult \/ LoopWait))
    /\ \A c \in Caller : /\ WF_vars(Boot(Select(c)))
                         /\ \A b \in Bootstrap : WF_vars(Boot(DialOK(c, b) \/ DialFail(c, b)))
    /\ \A p \in Peer : /\ WF_vars(Close(p))
                       /\ WF_vars(CacheLook(p) \/ CacheSend(p))
                       /\ WF_vars(FindFail(p) \/ FindPeers(p) \/ Joined(p) \/ QueryEnd(p) \/ ResultSend(p))
                       /\ WF_vars(RangeRecv(p) \/ Dial(p))

FairSpec == Spec /\ Fairness

-----------------------------------------------------------------------------
(* Properties *)

\* The types; no channel of a search holds more than channelBuffLength results.
TypeOK ==
    /\ BootTypeOK
    /\ addConn \in [Peer -> {"idle", "range", "dial", "stream", "none"}]
    /\ cache \in [Peer -> {"look", "send", "done"}]
    /\ dht \in [Peer -> [pc : {"find", "join", "recv", "send", "done"}, seen : 0..MaxResults]]
    /\ ch \in [Peer -> 0..channelBuffLength]
    /\ closed \in [Peer -> BOOLEAN]
    /\ known \in SUBSET Peer
    /\ mdns \in {"starting", "running"}

\* The channel of a search is closed when nobody sends to it any more (a send on
\* a closed channel panics), and a search for a peer is never given up while a
\* result for it is still in the channel or on its way.
ClosedAtEnd ==
    \A p \in Peer :
        /\ closed[p] => cache[p] = "done" /\ dht[p].pc = "done"
        /\ addConn[p] = "none" => closed[p] /\ ch[p] = 0

\* A search cannot go on: its DHT side waits in connectBootstraps for ever; or a
\* result does not fit and addConn has stopped to receive, which the cache side
\* only waits for until the context is cancelled.
Blocked(p) ==
    \/ dht[p].pc = "join" /\ Stuck(p)
    \/ /\ dht[p].pc = "send" \/ (cache[p] = "send" /\ ~ctxDone)
       /\ ch[p] = channelBuffLength
       /\ addConn[p] \notin {"range", "dial"}

\* addConn does not search for ever: it gets a stream or gives up, so that its
\* peer is unregistered and can be dialled again, unless the search is stuck in
\* connectBootstraps.
DialEnds ==
    \A p \in Peer : addConn[p] = "range" ~>
        addConn[p] \in {"stream", "none"} \/ (dht[p].pc = "join" /\ Stuck(p))

\* The goroutines of a search end, even if addConn has left them, unless one of
\* them is blocked.
SearchEnds == \A p \in Peer : ~closed[p] ~> closed[p] \/ Blocked(p)
=============================================================================
