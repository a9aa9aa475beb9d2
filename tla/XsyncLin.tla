------------------------------ MODULE XsyncLin ------------------------------
(***************************************************************************)
(* What callers of xsync.Map may rely on: every method takes effect at one *)
(* instant between its call and its return.  The module runs XsyncMap next *)
(* to a monitor that keeps every explanation of the calls and returns so   *)
(* far by a plain map whose methods are atomic.                            *)
(***************************************************************************)
EXTENDS XsyncMap

CONSTANT
    ComparesOld  \* whether the plain map compares, as the comments say

ASSUME LinAssumption == ComparesOld \in BOOLEAN /\ IsFiniteSet(Thread)

VARIABLES
    lin,   \* the explanations: the plain map, and the results it gave
           \* to calls that have not returned
    must,  \* keys that were present all the time since the thread called Range
    may    \* mappings that were present at some time since then

linVars == <<vars, lin, must, may>>

\* The plain map.  A method gives the new mapping of its key and its result.
MapOp(th, x) ==
    LET v   == th.val
        hit == x # None /\ (ComparesOld => x = th.old)
    IN
    CASE th.op = "Load"             -> [x |-> x, res |-> <<x>>]
      [] th.op = "Swap"             -> [x |-> v, res |-> <<x>>]
      [] th.op = "LoadOrStore"      -> IF x = None THEN [x |-> v, res |-> <<v, FALSE>>]
                                                   ELSE [x |-> x, res |-> <<x, TRUE>>]
      [] th.op = "LoadAndDelete"    -> [x |-> None, res |-> <<x>>]
      [] th.op = "CompareAndSwap"   -> [x |-> IF hit THEN v ELSE x, res |-> <<hit>>]
      [] th.op = "CompareAndDelete" -> [x |-> IF hit THEN None ELSE x, res |-> <<hit>>]

\* The explanations in which call t, which has not returned, takes effect next.
TakeEffect(th, t, C) ==
    {LET r == MapOp(th[t], c.m[th[t].key]) IN
        [m |-> [c.m EXCEPT ![th[t].key] = r.x], ret |-> [c.ret EXCEPT ![t] = r.res]] :
     c \in {d \in C : d.ret[t] = <<>>}}

Pending(th) == {t \in Thread : th[t].pc \notin {"idle", "ret"} /\ th[t].op # "Range"}

\* C, and what follows from it when any of the pending calls take effect.
Explain(th, C) ==
    LET round[n \in 0..Cardinality(Thread)] ==
            IF n = 0 THEN C
            ELSE round[n - 1] \cup UNION {TakeEffect(th, t, round[n - 1]) : t \in Pending(th)}
    IN round[Cardinality(Thread)]

\* A return keeps the explanations that gave its result.
Observe(t) ==
    lin' = CASE At(t, "idle") -> Explain(thread', lin)
             [] thread'[t].pc = "ret" /\ Op(t) # "Range" ->
                    {[c EXCEPT !.ret[t] = <<>>] :
                     c \in {d \in lin : d.ret[t] = thread'[t].res}}
             [] OTHER -> lin

\* A key is present for sure if it is in every explanation.
Present(C)  == {k \in Key : \A c \in C : c.m[k] # None}
Mappings(C) == {<<k, c.m[k]>> : k \in Key, c \in C}

ObserveRange ==
    /\ must' = [t \in Thread |-> IF thread'[t].op # "Range" THEN {}
                                 ELSE IF At(t, "idle") THEN Present(lin')
                                 ELSE must[t] \cap Present(lin')]
    /\ may'  = [t \in Thread |-> IF thread'[t].op # "Range" THEN {}
                                 ELSE may[t] \cup Mappings(lin')]

LinInit ==
    /\ Init
    /\ lin = {[m |-> [k \in Key |-> None], ret |-> [t \in Thread |-> <<>>]]}
    /\ must = [t \in Thread |-> {}]
    /\ may = [t \in Thread |-> {}]

LinNext ==
    \E t \in Thread :
        /\ Call(t) \/ Step(t) \/ Return(t)
        /\ Observe(t)
        /\ ObserveRange

LinSpec == LinInit /\ [][LinNext]_linVars

\* Load, Swap (Store), LoadOrStore, LoadAndDelete (Delete), CompareAndSwap and
\* CompareAndDelete are linearizable: the results that were returned are those
\* of a plain map whose methods took effect one after the other, each between
\* its call and its return.
Linearizable == lin # {}

\* Range (map.go:451): a call that is not stopped visits every key that is
\* present all the time, no key is visited more than once, and what it reports
\* for a key is a mapping the key had during the call.
RangeConsistent ==
    \A t \in Thread :
        Op(t) = "Range" =>
            /\ thread[t].res = <<TRUE>> => must[t] \subseteq {x[1] : x \in thread[t].seen}
            /\ thread[t].seen \subseteq may[t]
            /\ \A x, y \in thread[t].seen : x[1] = y[1] => x = y

=============================================================================
