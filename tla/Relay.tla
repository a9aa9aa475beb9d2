------------------------------- MODULE Relay -------------------------------
(***************************************************************************)
(* Auto relay (core/engine/relay.go and the peer source in engine.go):     *)
(* autoRelayFinder puts candidates into relayChan, and libp2p takes them   *)
(* out through the peer source, which it calls with the number it wants.   *)
(*                                                                         *)
(* Candidates are only counted.  libp2p's relay finder makes one call of   *)
(* the source at a time.                                                   *)
(***************************************************************************)
EXTENDS Naturals

CONSTANTS
    RelayCap,  \* the capacity of relayChan (ChanSize)
    MaxNum,    \* bound on the number of candidates libp2p asks for
    MaxFound   \* bound on the peers autoRelayFinder sees in one go

ASSUME RelayAssumption ==
    RelayCap \in Nat \ {0} /\ MaxNum \in Nat /\ MaxFound \in Nat

VARIABLES
    relayChan,  \* the number of candidates in e.relayChan
    finder,     \* autoRelayFinder, and how many peers it has still to look at
    source      \* the goroutine of the peer source, and its channel

relayvars == <<relayChan, finder, source>>

NoFinder == [pc |-> "off", left |-> 0]
NoSource == [pc |-> "off", asked |-> 0, num |-> 0, c |-> 0, given |-> 0, ctxDone |-> FALSE]

RelayInit ==
    /\ relayChan = 0
    /\ finder = NoFinder
    /\ source = NoSource

-----------------------------------------------------------------------------
(* autoRelayFinder *)

\* A pass over the peers the host is connected to, or over the closest ones.
Pass(k) == finder' = [pc |-> "pass", left |-> k]

FinderStart ==
    /\ finder.pc = "off"
    /\ \E k \in 0..MaxFound : Pass(k)
    /\ UNCHANGED <<relayChan, source>>

\* Mutant: the channel takes what does not fit.
FinderPeerOverfull ==
    /\ finder.pc = "pass" /\ finder.left > 0
    /\ finder' = [finder EXCEPT !.left = @ - 1]
    /\ relayChan' \in {relayChan, relayChan + 1}
    /\ UNCHANGED source

\* A peer without addresses is skipped; one that does not fit is dropped.
FinderPeer ==
    /\ finder.pc = "pass" /\ finder.left > 0
    /\ finder' = [finder EXCEPT !.left = @ - 1]
    /\ relayChan' \in {relayChan, IF relayChan < RelayCap THEN relayChan + 1 ELSE relayChan}
    /\ UNCHANGED source

FinderSleep ==
    /\ finder.pc = "pass" /\ finder.left = 0
    /\ finder' = [finder EXCEPT !.pc = "wait"]
    /\ UNCHANGED <<relayChan, source>>

\* The ticker; without closest peers the loop goes on.  The case of ctx.Done is
\* never ready: e.cancel is only called when Engine.Run returns, and the process
\* ends with it.
FinderTick ==
    /\ finder.pc = "wait"
    /\ \E k \in 1..MaxFound : Pass(k)
    /\ UNCHANGED <<relayChan, source>>

-----------------------------------------------------------------------------
(* The peer source *)

SourceCall ==
    /\ source.pc \in {"off", "closed"}
    /\ \E n \in 0..MaxNum : source' = [NoSource EXCEPT !.pc = "recv", !.asked = n, !.num = n]
    /\ UNCHANGED <<relayChan, finder>>

SourceRecv ==
    /\ source.pc = "recv"
    /\ relayChan > 0
    /\ relayChan' = relayChan - 1
    /\ source' = [source EXCEPT !.pc = "send"]
    /\ UNCHANGED finder

\* Mutant: num is not counted down.
SourceSendOn ==
    /\ source.pc = "send"
    /\ source.c < source.asked \/ source.asked = 0
    /\ source' = [source EXCEPT !.pc = "recv", !.given = @ + 1,
                                !.c = IF source.asked = 0 THEN 0 ELSE @ + 1]
    /\ UNCHANGED <<relayChan, finder>>

\* c <- v, and the next round unless num was 0.  A channel without a buffer hands
\* the candidate over to the reader.
SourceSend ==
    /\ source.pc = "send"
    /\ source.c < source.asked \/ source.asked = 0
    /\ source' = [source EXCEPT !.pc = IF source.num > 0 THEN "recv" ELSE "closed",
                                !.num = IF @ > 0 THEN @ - 1 ELSE @,
                                !.given = @ + 1,
                                !.c = IF source.asked = 0 THEN 0 ELSE @ + 1]
    /\ UNCHANGED <<relayChan, finder>>

\* Mutant: the inner select has no case for the context.
SourceStopOuter ==
    /\ source.pc = "recv"
    /\ source.ctxDone
    /\ source' = [source EXCEPT !.pc = "closed"]
    /\ UNCHANGED <<relayChan, finder>>

\* Both selects look at the context of the call.
SourceStop ==
    /\ source.pc \in {"recv", "send"}
    /\ source.ctxDone
    /\ source' = [source EXCEPT !.pc = "closed"]
    /\ UNCHANGED <<relayChan, finder>>

Source == SourceRecv \/ SourceSend \/ SourceStop

\* libp2p gives up, or takes a candidate.
SourceCancel ==
    /\ source.pc \in {"recv", "send"} /\ ~source.ctxDone
    /\ source' = [source EXCEPT !.ctxDone = TRUE]
    /\ UNCHANGED <<relayChan, finder>>

SourceRead ==
    /\ source.c > 0
    /\ source' = [source EXCEPT !.c = @ - 1]
    /\ UNCHANGED <<relayChan, finder>>

-----------------------------------------------------------------------------
(* Properties *)

RelayTypeOK ==
    /\ relayChan \in 0..RelayCap
    /\ finder \in [pc : {"off", "pass", "wait"}, left : 0..MaxFound]
    /\ source \in [pc : {"off", "recv", "send", "closed"}, asked : 0..MaxNum, num : 0..MaxNum,
                   c : 0..MaxNum, given : 0..(MaxNum + 1), ctxDone : BOOLEAN]

\* libp2p is given one candidate more than it asked for, never two, and its
\* channel is not closed before that unless it has given up: an answer is short
\* only because of the caller.
SourceExact ==
    /\ source.given <= source.asked + 1
    /\ source.pc = "closed" /\ ~source.ctxDone => source.given = source.asked + 1

\* A source whose caller has gone closes its channel, whether it waits for a
\* candidate or for room: libp2p would leak a goroutine with every call otherwise.
SourceEnds == source.pc \in {"recv", "send"} /\ source.ctxDone ~> source.pc \in {"off", "closed"}
=============================================================================
