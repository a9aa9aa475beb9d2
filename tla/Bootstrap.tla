----------------------------- MODULE Bootstrap -----------------------------
(***************************************************************************)
(* Joining the DHT (core/engine/dht.go): connectBootstraps, which dials    *)
(* all configured bootstrap nodes at once and returns with the first       *)
(* success or the last failure, and the loop that retries it.              *)
(*                                                                         *)
(* connectBootstraps is called by the loop and by every search whose query *)
(* fails, at the same time; each call has its own channels and goroutines. *)
(* What a call left behind when it returned (dials that are still going    *)
(* on, their channels) is forgotten when the same caller calls again.      *)
(***************************************************************************)
EXTENDS Naturals, FiniteSets

CONSTANTS
    Bootstrap,  \* the entries of cfg.Bootstraps
    Peer,       \* the peers that are searched for
    Loop        \* the goroutine of connectBootstrapsLoop

Caller == Peer \cup {Loop}

\* defaultConfig makes sure that there are bootstrap nodes.
ASSUME BootstrapAssumption ==
    /\ Bootstrap # {} /\ IsFiniteSet(Bootstrap)
    /\ Loop \notin Peer

VARIABLES
    ctxDone,  \* whether e.ctx is cancelled
    parses,   \* the entries that AddrInfoFromString accepts
    call,     \* the calls of connectBootstraps: where they are, and fcnt
    dial,     \* the goroutines of a call, one for each entry that parses
    sc, fc,   \* the number of messages in the channels of a call
    loop      \* where connectBootstrapsLoop is

bootvars == <<parses, call, dial, sc, fc, loop>>

NoCall  == [pc |-> "idle", fcnt |-> 0]
NoDials == [b \in Bootstrap |-> "none"]

BootInit ==
    /\ ctxDone = FALSE
    /\ parses \in SUBSET Bootstrap
    /\ call = [c \in Caller |-> NoCall]
    /\ dial = [c \in Caller |-> NoDials]
    /\ sc = [c \in Caller |-> 0]
    /\ fc = [c \in Caller |-> 0]
    /\ loop = "call"

-----------------------------------------------------------------------------
(* connectBootstraps *)

\* The capacity of sc and of fc: len(e.cfg.Bootstraps).
Room == Cardinality(Bootstrap)

\* Both channels are made and a goroutine is started for every entry that parses.
Call(c) ==
    /\ call[c].pc = "idle"
    /\ call' = [call EXCEPT ![c] = [pc |-> "select", fcnt |-> 0]]
    /\ dial' = [dial EXCEPT ![c] = [b \in Bootstrap |-> IF b \in parses THEN "dialing" ELSE "none"]]
    /\ sc' = [sc EXCEPT ![c] = 0]
    /\ fc' = [fc EXCEPT ![c] = 0]

\* host.Connect returns, and the goroutine sends its only message.
DialOK(c, b) ==
    /\ dial[c][b] = "dialing"
    /\ sc[c] < Room
    /\ sc' = [sc EXCEPT ![c] = @ + 1]
    /\ dial' = [dial EXCEPT ![c][b] = "ok"]
    /\ UNCHANGED <<parses, call, fc, loop>>

DialFail(c, b) ==
    /\ dial[c][b] = "dialing"
    /\ fc[c] < Room
    /\ fc' = [fc EXCEPT ![c] = @ + 1]
    /\ dial' = [dial EXCEPT ![c][b] = "failed"]
    /\ UNCHANGED <<parses, call, sc, loop>>

\* Mutants: one failure too many is waited for; the first failure is final.
RecvFailStrict(c) ==
    /\ call[c].pc = "select"
    /\ fc[c] > 0
    /\ fc' = [fc EXCEPT ![c] = @ - 1]
    /\ call' = [call EXCEPT ![c] = [pc |-> IF @.fcnt >= Cardinality(Bootstrap) THEN "failed" ELSE "select",
                                    fcnt |-> @.fcnt + 1]]
    /\ UNCHANGED <<parses, dial, sc, loop>>

RecvFailFirst(c) ==
    /\ call[c].pc = "select"
    /\ fc[c] > 0
    /\ fc' = [fc EXCEPT ![c] = @ - 1]
    /\ call' = [call EXCEPT ![c] = [pc |-> "failed", fcnt |-> @.fcnt + 1]]
    /\ UNCHANGED <<parses, dial, sc, loop>>

\* The case of fc: failures are counted against all entries, those that did not
\* parse included.
RecvFail(c) ==
    /\ call[c].pc = "select"
    /\ fc[c] > 0
    /\ fc' = [fc EXCEPT ![c] = @ - 1]
    /\ call' = [call EXCEPT ![c] = [pc |-> IF @.fcnt + 1 >= Cardinality(Bootstrap) THEN "failed" ELSE "select",
                                    fcnt |-> @.fcnt + 1]]
    /\ UNCHANGED <<parses, dial, sc, loop>>

RecvOK(c) ==
    /\ call[c].pc = "select"
    /\ sc[c] > 0
    /\ sc' = [sc EXCEPT ![c] = @ - 1]
    /\ call' = [call EXCEPT ![c].pc = "ok"]
    /\ UNCHANGED <<parses, dial, fc, loop>>

Select(c) == RecvFail(c) \/ RecvOK(c)

\* The caller takes the result.
Return(c) ==
    /\ call[c].pc \in {"ok", "failed"}
    /\ call' = [call EXCEPT ![c] = NoCall]
    /\ UNCHANGED <<dial, sc, fc>>

-----------------------------------------------------------------------------
(* connectBootstrapsLoop *)

LoopCall ==
    /\ loop = "call"
    /\ Call(Loop)
    /\ loop' = "calling"
    /\ UNCHANGED parses

\* After a success the node is advertised and the loop ends.
LoopResult ==
    /\ loop = "calling"
    /\ Return(Loop)
    /\ loop' = IF call[Loop].pc = "ok" THEN "advertised" ELSE "wait"
    /\ UNCHANGED parses

\* The select on e.ctx.Done and the ticker.
LoopWait ==
    /\ loop = "wait"
    /\ \/ ctxDone /\ loop' = "cancelled"
       \/ loop' = "call"
    /\ UNCHANGED <<parses, call, dial, sc, fc>>

-----------------------------------------------------------------------------
(* Properties *)

BootTypeOK ==
    /\ ctxDone \in BOOLEAN
    /\ parses \in SUBSET Bootstrap
    /\ call \in [Caller -> [pc : {"idle", "select", "ok", "failed"}, fcnt : 0..Room]]
    /\ dial \in [Caller -> [Bootstrap -> {"none", "dialing", "ok", "failed"}]]
    /\ sc \in [Caller -> 0..Room]
    /\ fc \in [Caller -> 0..Room]
    /\ loop \in {"call", "calling", "wait", "advertised", "cancelled"}

With(c, st) == {b \in Bootstrap : dial[c][b] = st}

\* connectBootstraps tells its caller the truth: it reports failure only after
\* every configured entry was dialled and failed, and success only if one was
\* reached; its goroutines never wait to send, also after it has returned.
BootstrapVerdict ==
    \A c \in Caller :
        /\ call[c].pc = "failed" => With(c, "failed") = Bootstrap
        /\ call[c].pc = "ok" => With(c, "ok") # {}
        /\ With(c, "dialing") # {} => sc[c] < Room /\ fc[c] < Room

\* What the verdict rests on: a message in a channel, or a failure that was
\* counted, stands for a dial of its own.
Counted ==
    \A c \in Caller :
        /\ sc[c] <= Cardinality(With(c, "ok"))
        /\ fc[c] + call[c].fcnt <= Cardinality(With(c, "failed"))
        /\ call[c].pc = "failed" => call[c].fcnt >= Room
        /\ call[c].pc = "ok" => With(c, "ok") # {}

\* No entry could be reached and some entry did not parse: connectBootstraps
\* waits for failures that nobody reports.
Stuck(c) ==
    /\ call[c].pc = "select"
    /\ parses # Bootstrap
    /\ With(c, "failed") = parses

\* connectBootstraps returns, whatever happens to the dials, unless it is stuck
\* over an entry that does not parse.
CallReturns == \A c \in Caller : call[c].pc = "select" ~> call[c].pc # "select" \/ Stuck(c)
=============================================================================
