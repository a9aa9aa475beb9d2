--------------------------- MODULE XsyncLinProofs ---------------------------
(***************************************************************************)
(* xsync.Map is linearizable, and Range visits what it should, for any     *)
(* number of goroutines, keys, values and entries.                         *)
(***************************************************************************)
EXTENDS XsyncLin, XsyncProofs, FiniteSetTheorems, WellFoundedInduction

\* What holds of 0 and goes from each number up to n to the next holds of all.
LEMMA Induction ==
    ASSUME NEW n \in Nat, NEW T, 0 \in T, \A i \in 0..n : i \in T /\ i < n => i + 1 \in T
    PROVE  0..n \subseteq T
<1> DEFINE B == {i \in 0..n : i \notin T}
<1> SUFFICES ASSUME B # {} PROVE FALSE
  OBVIOUS
<1>1. B \subseteq Nat
  OBVIOUS
<1>2. PICK i \in B : \A j \in B : ~(<<j, i>> \in OpToRel(<, Nat))
  <2> HIDE DEF B
  <2> QED BY <1>1, WFMin, NatLessThanWellFounded, Zenon
<1>3. i \in 0..n /\ i \notin T /\ i # 0
  BY <1>2
<1>4. i - 1 \in 0..n /\ i - 1 < n /\ i - 1 < i /\ (i - 1) + 1 = i
  BY <1>3
<1>5. i - 1 \in T
  <2> SUFFICES ASSUME i - 1 \notin T PROVE FALSE
    OBVIOUS
  <2>1. i - 1 \in B
    BY <1>4
  <2>2. <<i - 1, i>> \in Nat \X Nat /\ i - 1 < i
    BY <1>3, <1>4
  <2>3. <<i - 1, i>> \in OpToRel(<, Nat)
    BY <2>2 DEF OpToRel
  <2> QED BY <1>2, <2>1, <2>3
<1> QED BY <1>3, <1>4, <1>5

\* A function that is defined along the numbers up to n exists.
LEMMA Walks ==
    ASSUME NEW n \in Nat, NEW S, NEW f \in [S -> S], NEW a \in S
    PROVE  \E g \in [0..n -> S] : g[0] = a /\ \A i \in 1..n : g[i] = f[g[i - 1]]
<1> DEFINE T == {m \in 0..n : \E g \in [0..m -> S] : g[0] = a /\ \A i \in 1..m : g[i] = f[g[i - 1]]}
<1>1. 0 \in T
  <2> DEFINE g == [i \in 0..0 |-> a]
  <2>1. g \in [0..0 -> S] /\ g[0] = a /\ \A i \in 1..0 : g[i] = f[g[i - 1]]
    OBVIOUS
  <2>2. 0 \in 0..n
    OBVIOUS
  <2> HIDE DEF g
  <2> QED BY <2>1, <2>2
<1>2. ASSUME NEW m \in 0..n, m \in T, m < n PROVE m + 1 \in T
  <2>1. PICK g \in [0..m -> S] : g[0] = a /\ \A i \in 1..m : g[i] = f[g[i - 1]]
    BY <1>2
  <2> DEFINE h == [i \in 0..(m + 1) |-> IF i <= m THEN g[i] ELSE f[g[m]]]
  <2>2. h \in [0..(m + 1) -> S]
    BY <2>1
  <2>3. h[0] = a
    BY <2>1
  <2>4. ASSUME NEW i \in 1..(m + 1) PROVE h[i] = f[h[i - 1]]
    <3>1. i - 1 \in 0..m /\ h[i - 1] = g[i - 1]
      OBVIOUS
    <3>2. CASE i <= m
      BY <2>1, <3>1, <3>2
    <3>3. CASE i = m + 1
      BY <2>1, <3>1, <3>3
    <3> QED BY <3>2, <3>3
  <2>5. m + 1 \in 0..n
    BY <1>2
  <2> QED BY <2>2, <2>3, <2>4, <2>5
<1>3. 0..n \subseteq T
  <2> HIDE DEF T
  <2> QED BY <1>1, <1>2, Induction
<1> QED BY <1>3

-----------------------------------------------------------------------------
(* The plain map *)

Explanation == [m : [Key -> Val \cup {None}], ret : [Thread -> Results]]

ThreadsOK(th) == th \in [Thread -> Local] /\ \A t \in Thread : OpOK(th[t])

\* Explanation c after call t took effect in it.
Outcome(th, t, c) == MapOp(th[t], c.m[th[t].key])
Effect(th, t, c) ==
    [m   |-> [c.m EXCEPT ![th[t].key] = Outcome(th, t, c).x],
     ret |-> [c.ret EXCEPT ![t] = Outcome(th, t, c).res]]

\* Set C has everything that follows from it when a pending call takes effect.
Closed(th, C) ==
    \A t \in Pending(th), c \in C : c.ret[t] = <<>> => Effect(th, t, c) \in C

LEMMA PendingIs ==
    ASSUME NEW th, ThreadsOK(th), NEW t \in Pending(th)
    PROVE  /\ t \in Thread /\ th[t] \in Local /\ OpOK(th[t])
           /\ th[t].op \in Methods \ {"Range"} /\ th[t].key \in Key
  BY DEF ThreadsOK, Pending, OpOK

LEMMA MapOpType ==
    ASSUME NEW l \in Local, OpOK(l), l.op \in Methods \ {"Range"}, NEW x \in Val \cup {None}
    PROVE  /\ MapOp(l, x).x \in Val \cup {None}
           /\ MapOp(l, x).res \in Results /\ MapOp(l, x).res # <<>>
<1> DEFINE hit == x # None /\ (ComparesOld => x = l.old)
<1>1. \A y \in Result : <<y>> \in Results /\ <<y>> # <<>>
  BY DEF Results
<1>2. \A y, z \in Result : <<y, z>> \in Results /\ <<y, z>> # <<>>
  BY DEF Results
<1>3. x \in Result /\ TRUE \in Result /\ FALSE \in Result
  BY DEF Result
<1>4. CASE l.op = "Load"
  BY <1>1, <1>3, <1>4 DEF MapOp
<1>5. CASE l.op = "LoadAndDelete"
  BY <1>1, <1>3, <1>5 DEF MapOp
<1>6. CASE l.op = "CompareAndDelete"
  <2>1. hit \in Result
    BY DEF Result
  <2> HIDE DEF hit
  <2>2. <<hit>> \in Results /\ <<hit>> # <<>>
    BY <1>1, <2>1
  <2>3. MapOp(l, x) = [x |-> IF hit THEN None ELSE x, res |-> <<hit>>]
    BY <1>6 DEF MapOp, hit
  <2> QED BY <2>2, <2>3
<1>7. CASE l.op \in {"Swap", "LoadOrStore", "CompareAndSwap"}
  <2>1. l.val \in Val /\ l.val \in Result
    BY <1>7 DEF OpOK, Result
  <2>2. CASE l.op = "Swap"
    BY <1>1, <1>3, <2>1, <2>2 DEF MapOp
  <2>3. CASE l.op = "LoadOrStore"
    BY <1>2, <1>3, <2>1, <2>3 DEF MapOp
  <2>4. CASE l.op = "CompareAndSwap"
    <3>1. hit \in Result
      BY DEF Result
    <3> HIDE DEF hit
    <3>2. <<hit>> \in Results /\ <<hit>> # <<>>
      BY <1>1, <3>1
    <3>3. MapOp(l, x) = [x |-> IF hit THEN l.val ELSE x, res |-> <<hit>>]
      BY <2>4 DEF MapOp, hit
    <3> QED BY <2>1, <3>2, <3>3
  <2> QED BY <1>7, <2>2, <2>3, <2>4
<1> QED BY <1>4, <1>5, <1>6, <1>7 DEF Methods

LEMMA EffectType ==
    ASSUME NEW th, ThreadsOK(th), NEW t \in Pending(th), NEW c \in Explanation
    PROVE  /\ Effect(th, t, c) \in Explanation
           /\ Effect(th, t, c).ret[t] = Outcome(th, t, c).res
           /\ Effect(th, t, c).ret[t] # <<>>
           /\ \A u \in Thread \ {t} : Effect(th, t, c).ret[u] = c.ret[u]
           /\ Effect(th, t, c).m[th[t].key] = Outcome(th, t, c).x
           /\ \A k \in Key \ {th[t].key} : Effect(th, t, c).m[k] = c.m[k]
<1>1. /\ t \in Thread /\ th[t] \in Local /\ OpOK(th[t])
      /\ th[t].op \in Methods \ {"Range"} /\ th[t].key \in Key
  BY PendingIs
<1>2. c.m \in [Key -> Val \cup {None}] /\ c.ret \in [Thread -> Results]
  BY DEF Explanation
<1>3. c.m[th[t].key] \in Val \cup {None}
  BY <1>1, <1>2
<1> DEFINE r == Outcome(th, t, c)
<1>4. r.x \in Val \cup {None} /\ r.res \in Results /\ r.res # <<>>
  BY <1>1, <1>3, MapOpType DEF Outcome
<1>5. Effect(th, t, c) = [m   |-> [c.m EXCEPT ![th[t].key] = r.x],
                          ret |-> [c.ret EXCEPT ![t] = r.res]]
  BY DEF Effect
<1> HIDE DEF r
<1>6. /\ [c.m EXCEPT ![th[t].key] = r.x] \in [Key -> Val \cup {None}]
      /\ [c.m EXCEPT ![th[t].key] = r.x][th[t].key] = r.x
      /\ \A k \in Key \ {th[t].key} : [c.m EXCEPT ![th[t].key] = r.x][k] = c.m[k]
      /\ [c.ret EXCEPT ![t] = r.res] \in [Thread -> Results]
      /\ [c.ret EXCEPT ![t] = r.res][t] = r.res
      /\ \A u \in Thread \ {t} : [c.ret EXCEPT ![t] = r.res][u] = c.ret[u]
  BY <1>1, <1>2, <1>4
<1>7. /\ Effect(th, t, c) \in Explanation
      /\ Effect(th, t, c).ret[t] = r.res /\ r.res # <<>>
      /\ \A u \in Thread \ {t} : Effect(th, t, c).ret[u] = c.ret[u]
      /\ Effect(th, t, c).m[th[t].key] = r.x
      /\ \A k \in Key \ {th[t].key} : Effect(th, t, c).m[k] = c.m[k]
  BY <1>4, <1>5, <1>6 DEF Explanation
<1> QED BY <1>7 DEF r

\* The explanations a set may have that no call which is not pending took effect in.
Explained(th) ==
    {D \in SUBSET Explanation : \A c \in D, u \in Thread \ Pending(th) : c.ret[u] = <<>>}

\* D, and what follows from it when one of the pending calls takes effect.
Wider(th, D) == D \cup UNION {TakeEffect(th, t, D) : t \in Pending(th)}

LEMMA TakeEffectIs ==
    \A th, t, D : TakeEffect(th, t, D) = {Effect(th, t, c) : c \in {d \in D : d.ret[t] = <<>>}}
  BY DEF TakeEffect, Effect, Outcome

LEMMA WiderType ==
    ASSUME NEW th, ThreadsOK(th), NEW D \in Explained(th)
    PROVE  Wider(th, D) \in Explained(th)
<1>1. ASSUME NEW c \in Wider(th, D)
      PROVE  c \in Explanation /\ \A u \in Thread \ Pending(th) : c.ret[u] = <<>>
  <2>1. CASE c \in D
    BY <2>1 DEF Explained
  <2>2. CASE c \notin D
    <3>1. PICK t \in Pending(th), d \in D : c = Effect(th, t, d)
      BY <1>1, <2>2, TakeEffectIs DEF Wider
    <3>2. d \in Explanation /\ \A u \in Thread \ Pending(th) : d.ret[u] = <<>>
      BY DEF Explained
    <3>3. /\ Effect(th, t, d) \in Explanation
          /\ \A u \in Thread \ {t} : Effect(th, t, d).ret[u] = d.ret[u]
      BY <3>1, <3>2, EffectType
    <3> QED BY <3>1, <3>2, <3>3 DEF Pending
  <2> QED BY <2>1, <2>2
<1> HIDE DEF Wider
<1> QED BY <1>1 DEF Explained

\* The rounds of Explain.
Rounds(th, C, r) ==
    r = [n \in 0..Cardinality(Thread) |->
            IF n = 0 THEN C
            ELSE r[n - 1] \cup UNION {TakeEffect(th, t, r[n - 1]) : t \in Pending(th)}]

LEMMA RoundsExist ==
    ASSUME NEW th, ThreadsOK(th), NEW C \in Explained(th)
    PROVE  \E r \in [0..Cardinality(Thread) -> Explained(th)] :
               /\ Explain(th, C) = r[Cardinality(Thread)]
               /\ r[0] = C
               /\ \A i \in 1..Cardinality(Thread) : r[i] = Wider(th, r[i - 1])
<1> DEFINE N == Cardinality(Thread)
           S == Explained(th)
           f == [D \in S |-> Wider(th, D)]
<1>1. N \in Nat
  BY LinAssumption, FS_CardinalityType
<1>2. f \in [S -> S]
  BY WiderType
<1> HIDE DEF N
<1>3. PICK g \in [0..N -> S] : g[0] = C /\ \A i \in 1..N : g[i] = f[g[i - 1]]
  <2>1. C \in S
    BY DEF S
  <2> HIDE DEF f, S
  <2>2. \A V : \A F \in [V -> V], a \in V :
           \E g \in [0..N -> V] : g[0] = a /\ \A i \in 1..N : g[i] = F[g[i - 1]]
    BY <1>1, Walks
  <2>3. \A F \in [S -> S], a \in S :
           \E g \in [0..N -> S] : g[0] = a /\ \A i \in 1..N : g[i] = F[g[i - 1]]
    BY <2>2
  <2>4. \A a \in S : \E g \in [0..N -> S] : g[0] = a /\ \A i \in 1..N : g[i] = f[g[i - 1]]
    BY <1>2, <2>3
  <2> QED BY <2>1, <2>4
<1>4. \A i \in 1..N : g[i] = Wider(th, g[i - 1])
  <2>1. \A i \in 1..N : i - 1 \in 0..N
    BY <1>1
  <2> HIDE DEF S
  <2> QED BY <1>3, <2>1
<1> HIDE DEF S, f
<1>5. Rounds(th, C, g)
  <2>1. \A i \in 0..N : g[i] = IF i = 0 THEN C
                              ELSE g[i - 1] \cup UNION {TakeEffect(th, t, g[i - 1]) : t \in Pending(th)}
    BY <1>1, <1>3, <1>4 DEF Wider
  <2>2. g = [i \in 0..N |-> g[i]]
    BY <1>3
  <2> QED BY <2>1, <2>2, Zenon DEF Rounds, N
<1>6. Explain(th, C) = (CHOOSE r : Rounds(th, C, r))[N]
  BY DEF Explain, Rounds, N
<1>7. Rounds(th, C, CHOOSE r : Rounds(th, C, r))
  BY <1>5, Zenon
<1>8. \A r : Rounds(th, C, r) => r[0] = C /\ \A i \in 1..N : i - 1 \in 0..N /\ r[i] = Wider(th, r[i - 1])
  <2> TAKE r
  <2> HAVE Rounds(th, C, r)
  <2>1. r[0] = C
    BY <1>1 DEF Rounds, N
  <2>2. ASSUME NEW i \in 1..N PROVE i - 1 \in 0..N /\ r[i] = Wider(th, r[i - 1])
    <3>1. i \in 0..N /\ i # 0 /\ i - 1 \in 0..N
      BY <1>1
    <3> QED BY <3>1 DEF Rounds, Wider, N
  <2> QED BY <2>1, <2>2
<1> DEFINE r == CHOOSE s : Rounds(th, C, s)
<1>9. r[0] = C /\ \A i \in 1..N : i - 1 \in 0..N /\ r[i] = Wider(th, r[i - 1])
  BY <1>7, <1>8
<1>10. r \in [0..N -> S]
  <2>1. r = [i \in 0..N |-> r[i]]
    BY <1>7 DEF Rounds, N
  <2> HIDE DEF r
  <2> DEFINE T == {i \in 0..N : r[i] \in S}
  <2>2. 0 \in T
    BY <1>1, <1>9 DEF S
  <2>3. \A i \in 0..N : i \in T /\ i < N => i + 1 \in T
    <3> SUFFICES ASSUME NEW i \in 0..N, i < N, r[i] \in S PROVE i + 1 \in 0..N /\ r[i + 1] \in S
      OBVIOUS
    <3>1. i + 1 \in 1..N /\ (i + 1) - 1 = i
      BY <1>1
    <3>2. r[i + 1] = Wider(th, r[i])
      BY <1>9, <3>1
    <3> QED BY <3>1, <3>2, WiderType DEF S
  <2>4. 0..N \subseteq T
    <3> HIDE DEF T
    <3> QED BY <1>1, <2>2, <2>3, Induction
  <2> QED BY <2>1, <2>4
<1> HIDE DEF r
<1>11. Explain(th, C) = r[N]
  BY <1>6 DEF r
<1> QED BY <1>9, <1>10, <1>11 DEF N, S

\* The calls that have taken effect.
Busy(c) == {t \in Thread : c.ret[t] # <<>>}

\* Explain adds what there is to add: after as many rounds as there are threads,
\* another one changes nothing.
LEMMA ExplainCloses ==
    ASSUME NEW th, ThreadsOK(th), NEW C \in Explained(th)
    PROVE  C \subseteq Explain(th, C) /\ Explain(th, C) \in Explained(th) /\ Closed(th, Explain(th, C))
<1> DEFINE N == Cardinality(Thread)
<1>1. N \in Nat /\ IsFiniteSet(Thread)
  BY LinAssumption, FS_CardinalityType
<1>2. PICK r \in [0..N -> Explained(th)] :
         /\ Explain(th, C) = r[N]
         /\ r[0] = C
         /\ \A i \in 1..N : r[i] = Wider(th, r[i - 1])
  BY RoundsExist
<1> HIDE DEF N
<1>3. ASSUME NEW i \in 0..N, i < N
      PROVE  i + 1 \in 0..N /\ r[i + 1] = Wider(th, r[i])
  <2>1. i + 1 \in 1..N /\ i + 1 \in 0..N /\ (i + 1) - 1 = i
    BY <1>1, <1>3
  <2> QED BY <1>2, <2>1
<1>4. C \subseteq r[N]
  <2> DEFINE T == {i \in 0..N : C \subseteq r[i]}
  <2>1. 0 \in T
    BY <1>1, <1>2
  <2>2. \A i \in 0..N : i \in T /\ i < N => i + 1 \in T
    BY <1>3 DEF Wider
  <2>3. 0..N \subseteq T
    <3> HIDE DEF T
    <3> QED BY <1>1, <2>1, <2>2, Induction
  <2> QED BY <1>1, <2>3
<1>5. \A c : IsFiniteSet(Busy(c)) /\ Cardinality(Busy(c)) \in Nat
  <2> TAKE c
  <2>1. Busy(c) \in SUBSET Thread
    BY DEF Busy
  <2> QED BY <1>1, <2>1, FS_Subset, FS_CardinalityType
<1> DEFINE Done(i) == \A c \in r[i], t \in Pending(th) :
                         c.ret[t] = <<>> => Effect(th, t, c) \in r[i] \/ Cardinality(Busy(c)) >= i
<1>6. \A i \in 0..N : Done(i)
  <2> DEFINE T == {i \in 0..N : Done(i)}
  <2>1. 0 \in T
    <3>1. Done(0)
      BY <1>5
    <3> QED BY <1>1, <3>1
  <2>2. ASSUME NEW i \in 0..N, i \in T, i < N PROVE i + 1 \in T
    <3>1. i + 1 \in 0..N /\ r[i + 1] = Wider(th, r[i]) /\ r[i] \in Explained(th)
      BY <1>3, <2>2
    <3>2. ASSUME NEW c \in r[i + 1], NEW t \in Pending(th), c.ret[t] = <<>>
          PROVE  Effect(th, t, c) \in r[i + 1] \/ Cardinality(Busy(c)) >= i + 1
      <4>1. CASE c \in r[i]
        <5>1. Effect(th, t, c) \in TakeEffect(th, t, r[i])
          BY <3>2, <4>1, TakeEffectIs
        <5> QED BY <3>1, <5>1 DEF Wider
      <4>2. CASE c \notin r[i]
        <5>1. PICK u \in Pending(th), d \in r[i] : d.ret[u] = <<>> /\ c = Effect(th, u, d)
          BY <3>1, <4>2, TakeEffectIs DEF Wider
        <5>2. d \in Explanation /\ u \in Thread
          BY <3>1 DEF Explained, Pending
        <5>3. Cardinality(Busy(d)) >= i
          BY <2>2, <4>2, <5>1
        <5>4. Busy(c) = Busy(d) \cup {u} /\ u \notin Busy(d)
          <6>1. /\ Effect(th, u, d).ret[u] # <<>>
                /\ \A v \in Thread \ {u} : Effect(th, u, d).ret[v] = d.ret[v]
            BY <5>1, <5>2, EffectType
          <6> QED BY <5>1, <5>2, <6>1 DEF Busy
        <5>5. Cardinality(Busy(c)) = Cardinality(Busy(d)) + 1
          BY <1>5, <5>4, FS_AddElement
        <5> QED BY <1>5, <5>3, <5>5
      <4> QED BY <4>1, <4>2
    <3> QED BY <3>1, <3>2
  <2>3. 0..N \subseteq T
    <3> HIDE DEF T
    <3> QED BY <1>1, <2>1, <2>2, Induction
  <2> QED BY <2>3
<1>7. Closed(th, r[N])
  <2> SUFFICES ASSUME NEW c \in r[N], NEW t \in Pending(th), c.ret[t] = <<>>
               PROVE  Effect(th, t, c) \in r[N]
    BY DEF Closed
  <2>1. Effect(th, t, c) \in r[N] \/ Cardinality(Busy(c)) >= N
    <3>1. N \in 0..N
      BY <1>1
    <3> QED BY <1>6, <3>1
  <2>2. t \in Thread /\ Busy(c) \in SUBSET Thread /\ Busy(c) # Thread
    BY DEF Pending, Busy
  <2>3. Cardinality(Busy(c)) < N
    BY <1>1, <1>5, <2>2, FS_Subset DEF N
  <2> QED BY <1>1, <1>5, <2>1, <2>3
<1>8. r[N] \in Explained(th)
  BY <1>1, <1>2
<1> QED BY <1>2, <1>4, <1>7, <1>8

\* Pending calls that change nothing may all take effect.
LEMMA ManyEffects ==
    ASSUME NEW th, ThreadsOK(th), NEW C \in Explained(th), Closed(th, C), NEW c \in C,
           NEW S \in SUBSET Pending(th),
           \A u \in S : c.ret[u] = <<>> /\ Outcome(th, u, c).x = c.m[th[u].key]
    PROVE  \E d \in C : /\ d.m = c.m
                        /\ \A u \in Thread : d.ret[u] = IF u \in S THEN Outcome(th, u, c).res ELSE c.ret[u]
<1> DEFINE After(R, d) == /\ d.m = c.m
                          /\ \A u \in Thread : d.ret[u] = IF u \in R THEN Outcome(th, u, c).res
                                                          ELSE c.ret[u]
           n == Cardinality(S)
           T == {i \in 0..n : \A R \in SUBSET S : Cardinality(R) = i => \E d \in C : After(R, d)}
<1>1. IsFiniteSet(S) /\ n \in Nat
  <2>1. S \in SUBSET Thread
    BY DEF Pending
  <2> QED BY <2>1, LinAssumption, FS_Subset, FS_CardinalityType
<1>2. 0 \in T
  <2>1. ASSUME NEW R \in SUBSET S, Cardinality(R) = 0 PROVE After(R, c)
    <3>1. R = {}
      BY <1>1, <2>1, FS_Subset, FS_EmptySet
    <3> QED BY <3>1
  <2> QED BY <1>1, <2>1
<1>3. ASSUME NEW i \in 0..n, i \in T, i < n PROVE i + 1 \in T
  <2> SUFFICES ASSUME NEW R \in SUBSET S, Cardinality(R) = i + 1 PROVE \E d \in C : After(R, d)
    BY <1>1, <1>3
  <2>1. IsFiniteSet(R)
    BY <1>1, FS_Subset
  <2>2. PICK u \in R : TRUE
    <3>1. R # {}
      BY <2>1, FS_EmptySet
    <3> QED BY <3>1
  <2>3. R \ {u} \in SUBSET S /\ Cardinality(R \ {u}) = i
    <3>1. Cardinality(R \ {u}) = Cardinality(R) - 1
      BY <2>1, <2>2, FS_RemoveElement
    <3>2. i \in Nat /\ Cardinality(R) = i + 1
      BY <1>1
    <3> HIDE DEF n, T
    <3> QED BY <3>1, <3>2
  <2>4. PICK d \in C : After(R \ {u}, d)
    BY <1>3, <2>3
  <2> DEFINE e == Effect(th, u, d)
  <2>5. u \in Pending(th) /\ u \in S /\ u \in Thread
    BY <2>2 DEF Pending
  <2>6. d.ret[u] = <<>>
    BY <2>4, <2>5
  <2>7. e \in C
    BY <2>5, <2>6 DEF Closed
  <2>8. d \in Explanation /\ c \in Explanation
    BY DEF Explained
  <2>9. Outcome(th, u, d) = Outcome(th, u, c)
    BY <2>4 DEF Outcome
  <2>10. /\ e.ret[u] = Outcome(th, u, c).res
         /\ \A v \in Thread \ {u} : e.ret[v] = d.ret[v]
         /\ e.m[th[u].key] = Outcome(th, u, c).x
         /\ \A k \in Key \ {th[u].key} : e.m[k] = d.m[k]
         /\ e \in Explanation
    BY <2>5, <2>8, <2>9, EffectType
  <2> HIDE DEF e
  <2>11. e.m = c.m
    <3>1. \A k \in Key : e.m[k] = c.m[k]
      BY <2>4, <2>5, <2>10
    <3>2. e.m \in [Key -> Val \cup {None}] /\ c.m \in [Key -> Val \cup {None}]
      BY <2>8, <2>10 DEF Explanation
    <3> QED BY <3>1, <3>2
  <2>12. ASSUME NEW v \in Thread
         PROVE  e.ret[v] = IF v \in R THEN Outcome(th, v, c).res ELSE c.ret[v]
    <3>1. CASE v = u
      BY <2>2, <2>10, <3>1
    <3>2. CASE v # u
      BY <2>4, <2>10, <3>2
    <3> QED BY <3>1, <3>2
  <2> QED BY <2>7, <2>11, <2>12
<1>4. n \in T
  <2>1. 0..n \subseteq T
    <3> HIDE DEF T, n
    <3> QED BY <1>1, <1>2, <1>3, Induction
  <2> QED BY <1>1, <2>1
<1> QED BY <1>4

\* One more.
LEMMA OneEffect ==
    ASSUME NEW th, ThreadsOK(th), NEW C \in Explained(th), Closed(th, C), NEW d \in C,
           NEW t \in Pending(th), d.ret[t] = <<>>
    PROVE  \E e \in C : /\ e.m[th[t].key] = Outcome(th, t, d).x
                        /\ \A k \in Key \ {th[t].key} : e.m[k] = d.m[k]
                        /\ e.ret[t] = Outcome(th, t, d).res
                        /\ \A u \in Thread \ {t} : e.ret[u] = d.ret[u]
<1>1. Effect(th, t, d) \in C /\ d \in Explanation
  BY DEF Closed, Explained
<1>2. /\ Effect(th, t, d).m[th[t].key] = Outcome(th, t, d).x
      /\ \A k \in Key \ {th[t].key} : Effect(th, t, d).m[k] = d.m[k]
      /\ Effect(th, t, d).ret[t] = Outcome(th, t, d).res
      /\ \A u \in Thread \ {t} : Effect(th, t, d).ret[u] = d.ret[u]
  BY <1>1, EffectType
<1> QED BY <1>1, <1>2

-----------------------------------------------------------------------------
(* The monitor *)

MonitorOK == lin \in Explained(thread) /\ Closed(thread, lin)

\* A step of thread t, which does not change what call it is in.
SameCall(t) ==
    /\ thread' \in [Thread -> Local]
    /\ \A u \in Thread \ {t} : thread'[u] = thread[u]
    /\ thread[t].pc \notin {"idle", "ret"} /\ thread'[t].pc # "idle"
    /\ thread'[t].op = thread[t].op /\ thread'[t].key = thread[t].key
    /\ thread'[t].val = thread[t].val /\ thread'[t].old = thread[t].old

LEMMA XThreads == XInv => ThreadsOK(thread)
  BY DEF XInv, ThreadType, OpInv, ThreadsOK

\* The effect of a call does not depend on where it is.
LEMMA SameEffect ==
    ASSUME NEW t, SameCall(t), NEW u \in Thread, NEW c
    PROVE  /\ Outcome(thread', u, c) = Outcome(thread, u, c)
           /\ Effect(thread', u, c) = Effect(thread, u, c)
<1>1. /\ thread'[u].op = thread[u].op /\ thread'[u].key = thread[u].key
      /\ thread'[u].val = thread[u].val /\ thread'[u].old = thread[u].old
  BY DEF SameCall
<1>2. \A x : MapOp(thread'[u], x) = MapOp(thread[u], x)
  BY <1>1 DEF MapOp
<1> QED BY <1>1, <1>2 DEF Effect, Outcome

\* A step of a method that does not return, and any of Range.
LEMMA MonitorGoesOn ==
    ASSUME MonitorOK, NEW t \in Thread, lin' = lin,
           \/ SameCall(t) /\ (thread[t].op = "Range" \/ thread'[t].pc # "ret")
           \/ /\ \A u \in Thread \ {t} : thread'[u] = thread[u]
              /\ thread[t].pc \in {"idle", "ret"} /\ thread'[t].pc = "idle"
    PROVE  MonitorOK'
<1>1. Pending(thread') = Pending(thread)
  BY DEF Pending, SameCall
<1>2. ASSUME NEW u \in Pending(thread), NEW c PROVE Effect(thread', u, c) = Effect(thread, u, c)
  <2>1. CASE SameCall(t)
    BY <2>1, SameEffect DEF Pending
  <2>2. CASE thread'[u] = thread[u]
    BY <2>2 DEF Effect, Outcome
  <2> QED BY <2>1, <2>2 DEF Pending
<1>3. lin \in Explained(thread')
  BY <1>1 DEF MonitorOK, Explained
<1>4. Closed(thread', lin)
  BY <1>1, <1>2 DEF MonitorOK, Closed
<1> QED BY <1>3, <1>4 DEF MonitorOK

\* A return.
LEMMA MonitorReturns ==
    ASSUME XInv, MonitorOK, NEW t \in Thread, SameCall(t), thread[t].op # "Range", thread'[t].pc = "ret",
           lin' = {[c EXCEPT !.ret[t] = <<>>] : c \in {d \in lin : d.ret[t] = thread'[t].res}}
    PROVE  MonitorOK'
<1>1. Pending(thread') = Pending(thread) \ {t} /\ t \in Pending(thread)
  BY DEF Pending, SameCall
<1>2. \A c \in lin : c \in Explanation /\ \A u \in Thread \ Pending(thread) : c.ret[u] = <<>>
  BY DEF MonitorOK, Explained
<1> DEFINE Clear(c) == [c EXCEPT !.ret[t] = <<>>]
<1>3. ASSUME NEW c \in Explanation
      PROVE  /\ Clear(c) \in Explanation /\ Clear(c).m = c.m /\ Clear(c).ret[t] = <<>>
             /\ \A u \in Thread \ {t} : Clear(c).ret[u] = c.ret[u]
             /\ Clear(c) = [m |-> c.m, ret |-> [c.ret EXCEPT ![t] = <<>>]]
  <2>1. <<>> \in Results
    BY DEF Results
  <2> QED BY <2>1 DEF Explanation
<1>4. lin' = {Clear(c) : c \in {d \in lin : d.ret[t] = thread'[t].res}}
  OBVIOUS
<1> HIDE DEF Clear
<1>5. ASSUME NEW x \in lin'
      PROVE  x \in Explanation /\ \A u \in Thread \ Pending(thread') : x.ret[u] = <<>>
  <2>1. PICK c \in lin : x = Clear(c)
    BY <1>4
  <2> QED BY <1>1, <1>2, <1>3, <2>1
<1>6. ASSUME NEW u \in Pending(thread'), NEW x \in lin', x.ret[u] = <<>>
      PROVE  Effect(thread', u, x) \in lin'
  <2>1. PICK c \in lin : c.ret[t] = thread'[t].res /\ x = Clear(c)
    BY <1>4
  <2>2. u \in Pending(thread) /\ u # t /\ u \in Thread
    BY <1>1 DEF Pending
  <2>3. c \in Explanation /\ c.ret[u] = <<>> /\ x.m = c.m /\ x.ret = [c.ret EXCEPT ![t] = <<>>]
    BY <1>2, <1>3, <1>6, <2>1, <2>2
  <2>4. Effect(thread, u, c) \in lin
    BY <2>2, <2>3 DEF MonitorOK, Closed
  <2>5. ThreadsOK(thread)
    BY XThreads
  <2>6. /\ Effect(thread, u, c) \in Explanation
        /\ Effect(thread, u, c).ret[t] = thread'[t].res
    BY <2>1, <2>2, <2>3, <2>5, EffectType
  <2>7. Clear(Effect(thread, u, c)) \in lin'
    BY <1>4, <2>4, <2>6
  <2>8. Effect(thread', u, x) = Effect(thread, u, x)
    BY <2>2, SameEffect
  <2>9. Effect(thread, u, x) = Clear(Effect(thread, u, c))
    <3> DEFINE r == Outcome(thread, u, c)
    <3>1. Outcome(thread, u, x) = r
      BY <2>3 DEF Outcome
    <3>2. Effect(thread, u, x) = [m   |-> [c.m EXCEPT ![thread[u].key] = r.x],
                                  ret |-> [[c.ret EXCEPT ![t] = <<>>] EXCEPT ![u] = r.res]]
      BY <2>3, <3>1 DEF Effect
    <3>3. Effect(thread, u, c) = [m   |-> [c.m EXCEPT ![thread[u].key] = r.x],
                                  ret |-> [c.ret EXCEPT ![u] = r.res]]
      BY DEF Effect
    <3> HIDE DEF r
    <3>4. Clear(Effect(thread, u, c)) =
              [m   |-> [c.m EXCEPT ![thread[u].key] = r.x],
               ret |-> [[c.ret EXCEPT ![u] = r.res] EXCEPT ![t] = <<>>]]
      BY <1>3, <2>6, <3>3
    <3>5. [[c.ret EXCEPT ![u] = r.res] EXCEPT ![t] = <<>>]
            = [[c.ret EXCEPT ![t] = <<>>] EXCEPT ![u] = r.res]
      <4>1. c.ret \in [Thread -> Results]
        BY <2>3 DEF Explanation
      <4> QED BY <2>2, <4>1
    <3> QED BY <3>2, <3>4, <3>5
  <2> QED BY <2>7, <2>8, <2>9
<1> QED BY <1>5, <1>6 DEF MonitorOK, Closed, Explained

\* A call.
LEMMA MonitorCalls ==
    ASSUME MonitorOK, XInv', NEW t \in Thread, Call(t), lin' = Explain(thread', lin)
    PROVE  MonitorOK' /\ lin \subseteq lin'
<1>1. ThreadsOK(thread')
  BY DEF XInv, ThreadType, OpInv, ThreadsOK
<1>2. \A u \in Thread \ {t} : thread'[u] = thread[u]
  <2>1. thread[t].pc = "idle"
    BY DEF Call, At
  <2> QED BY DEF Call
<1>3. thread[t].pc = "idle"
  BY DEF Call, At
<1>4. lin \in Explained(thread')
  BY <1>2, <1>3 DEF MonitorOK, Explained, Pending
<1> QED BY <1>1, <1>4, ExplainCloses DEF MonitorOK

-----------------------------------------------------------------------------
(* What the maps and the threads stand for *)

\* One of the maps has entry e.
Linked(e) == \E k \in Key : e \in {read[k], Lookup(dirty, k)}

\* The entry of a key, and what the key is mapped to.
EntryOf(k) == IF read[k] # None THEN read[k] ELSE Lookup(dirty, k)
Mapped(k)  == IF EntryOf(k) = None THEN None ELSE Value(p[EntryOf(k)])

\* A thread is about to operate on an entry that has left the maps, and there is
\* still a value in it.
HasEntry(t, e) == At(t, "entry") /\ thread[t].e = e
Stale(t)       == At(t, "entry") /\ ~Linked(thread[t].e)
StaleValue(t)  == Stale(t) /\ p[thread[t].e] \in Val

\* Such a value was deleted from the map when its entry left it: some thread that
\* has the entry took it, and the loads among ch saw it before that.  To all others
\* the key was not in the map, as for any other entry that has left.
Sees(ch, t) == IF t \in ch /\ p[thread[t].e] \in Val THEN p[thread[t].e] ELSE None

\* The result a call has got already, if it took effect.
Taken(ch, t) ==
    IF At(t, "miss") THEN thread[t].res
    ELSE IF Stale(t) /\ Op(t) \notin {"Swap", "LoadOrStore"} THEN MapOp(thread[t], Sees(ch, t)).res
    ELSE <<>>

\* One of those that have the entry took the value.
Deleters == {"LoadAndDelete", "CompareAndDelete"}

Took(ch, w, e) ==
    /\ w \in ch /\ HasEntry(w, e) /\ Op(w) \in Deleters
    /\ \A u \in ch : HasEntry(u, e) /\ Op(u) \in Deleters => u = w

Plausible(ch) ==
    \A t \in Thread : StaleValue(t) => \E w \in Thread : Took(ch, w, thread[t].e)

\* Explanation c is the one with ch.
Explains(ch, c) ==
    /\ \A k \in Key : c.m[k] = Mapped(k)
    /\ \A t \in Thread : c.ret[t] = Taken(ch, t)

-----------------------------------------------------------------------------
(* The inductive invariant *)

\* A key that only the dirty map has is looked for there.
DirtyAmends == ~amended => \A k \in Key : read[k] = None => Lookup(dirty, k) = None

\* Somebody is going to take a value that left the maps.
RemoverHolds ==
    \A t \in Thread : StaleValue(t) =>
        \E w \in Thread : HasEntry(w, thread[t].e) /\ Op(w) = "LoadAndDelete"

\* Every plausible explanation is among those that the monitor keeps.
Kept == \A ch \in SUBSET Thread : Plausible(ch) => \E c \in lin : Explains(ch, c)

LinInv == XInv /\ DirtyAmends /\ RemoverHolds /\ MonitorOK /\ Kept

\* The entry of a key is the same in both maps.
LEMMA LinkedIs ==
    ASSUME XInv, NEW k \in Key, NEW e \in Entry, e \in {read[k], Lookup(dirty, k)}
    PROVE  EntryOf(k) = e
<1>1. e # None
  BY MapAssumption
<1>2. CASE read[k] = None
  BY <1>1, <1>2 DEF EntryOf
<1>3. CASE read[k] # None
  <2>1. EntryState(k) \/ Lookup(dirty, k) = None
    <3>1. CASE ToCopy(k)
      <4>1. PICK t \in Thread : At(t, "dirty") /\ k \in thread[t].todo
        BY <3>1 DEF ToCopy
      <4>2. Holds(t)
        BY DEF XInv, HeldInv
      <4>3. dirty[k] = None
        BY <4>1, <4>2 DEF Holds
      <4> QED BY <4>3 DEF Lookup
    <3>2. CASE EntryState(k)
      BY <3>2
    <3> QED BY <3>1, <3>2 DEF XInv, MapInv
  <2>2. Lookup(dirty, k) \in {None, read[k]}
    BY <1>3, <2>1 DEF EntryState, Lookup
  <2> QED BY <1>1, <1>3, <2>2 DEF EntryOf
<1> QED BY <1>2, <1>3

LEMMA HolderIs ==
    ASSUME XInv, NEW t \in Thread, At(t, "entry")
    PROVE  /\ thread[t].e \in Entry /\ K(t) \in Key /\ t \in Pending(thread)
           /\ Op(t) \in Methods \ {"Range"}
           /\ Linked(thread[t].e) => EntryOf(K(t)) = thread[t].e
<1>1. thread[t].e \in Entry /\ thread[t].e # None
  BY Entries
<1>2. OpOK(thread[t]) /\ thread[t].pc = "entry"
  BY DEF XInv, OpInv, At
<1>3. K(t) \in Key /\ t \in Pending(thread) /\ Op(t) \in Methods \ {"Range"}
  BY <1>2 DEF OpOK, K, Op, Pending
<1>4. ASSUME Linked(thread[t].e) PROVE EntryOf(K(t)) = thread[t].e
  <2>1. PICK k \in Key : thread[t].e \in {read[k], Lookup(dirty, k)}
    BY <1>4 DEF Linked
  <2>2. k = K(t)
    BY <1>1, <2>1 DEF XInv, MyKey, K
  <2> QED BY <1>1, <2>1, <2>2, LinkedIs
<1> QED BY <1>1, <1>3, <1>4

LEMMA MappedType == XInv => \A k \in Key : Mapped(k) \in Val \cup {None} /\ EntryOf(k) \in Entry \cup {None}
<1> SUFFICES ASSUME XInv, NEW k \in Key
             PROVE  Mapped(k) \in Val \cup {None} /\ EntryOf(k) \in Entry \cup {None}
  OBVIOUS
<1>1. EntryOf(k) \in Entry \cup {None}
  BY Entries DEF EntryOf
<1>2. p \in [Entry -> Val \cup {None, Expunged}]
  BY DEF XInv, SharedType
<1> QED BY <1>1, <1>2 DEF Mapped, Value

-----------------------------------------------------------------------------
(* Steps that take no value out of the map *)

\* Whether step t returns a result to the monitor, and what thread t has got.
Answers(t)   == thread'[t].pc = "ret" /\ thread[t].op # "Range"
Given(ch, t) == IF Answers(t) THEN thread'[t].res ELSE Taken(ch, t)'

\* What the monitor keeps after a step of thread t that is not a call.
LEMMA Arrives ==
    ASSUME MonitorOK, NEW t \in Thread, thread[t].pc \notin {"idle"}, Observe(t),
           NEW ch, NEW d \in lin,
           \A k \in Key : d.m[k] = Mapped(k)',
           \A u \in Thread \ {t} : d.ret[u] = Taken(ch, u)',
           d.ret[t] = Given(ch, t)
    PROVE  \E c \in lin' : Explains(ch, c)'
<1>1. CASE ~Answers(t)
  <2>1. lin' = lin
    BY <1>1 DEF Observe, Answers, At, Op
  <2>2. Explains(ch, d)'
    BY <1>1 DEF Explains, Given
  <2> QED BY <2>1, <2>2
<1>2. CASE Answers(t)
  <2> DEFINE c == [d EXCEPT !.ret[t] = <<>>]
  <2>1. c \in lin'
    <3>1. lin' = {[x EXCEPT !.ret[t] = <<>>] : x \in {y \in lin : y.ret[t] = thread'[t].res}}
      BY <1>2 DEF Observe, Answers, At, Op
    <3> QED BY <1>2, <3>1 DEF Given
  <2>2. d \in Explanation
    BY DEF MonitorOK, Explained
  <2>3. c.m = d.m /\ c.ret[t] = <<>> /\ \A u \in Thread \ {t} : c.ret[u] = d.ret[u]
    BY <2>2 DEF Explanation
  <2>4. Taken(ch, t)' = <<>>
    BY <1>2 DEF Taken, Answers, At, Stale
  <2> HIDE DEF c
  <2>5. Explains(ch, c)'
    BY <2>3, <2>4 DEF Explains
  <2> QED BY <2>1, <2>5
<1> QED BY <1>1, <1>2

\* What a step of t leaves alone: the locals of the others, and the values that
\* they are about to operate on.
Calm(t) ==
    /\ \A u \in Thread \ {t} : thread'[u] = thread[u]
    /\ \A u \in Thread \ {t}, e \in Entry : HasEntry(u, e) =>
        /\ Linked(e)' => Linked(e)
        /\ ~Linked(e)' => p'[e] = p[e]
        /\ Linked(e) /\ ~Linked(e)' => p[e] \notin Val
    /\ ~StaleValue(t) /\ ~StaleValue(t)'

\* The other threads with a stale value are those they were.
LEMMA CalmStale ==
    ASSUME XInv, NEW t \in Thread, Calm(t), NEW u \in Thread
    PROVE  /\ StaleValue(u) <=> StaleValue(u)'
           /\ StaleValue(u) => /\ u # t /\ thread'[u] = thread[u]
                               /\ \A w \in Thread : HasEntry(w, thread[u].e) <=> HasEntry(w, thread[u].e)'
                               /\ \A w \in Thread : HasEntry(w, thread[u].e) => thread'[w] = thread[w]
<1>1. CASE u = t
  BY <1>1 DEF Calm
<1>2. CASE u # t
  <2>1. thread'[u] = thread[u]
    BY <1>2 DEF Calm
  <2>2. CASE ~At(u, "entry")
    BY <2>1, <2>2 DEF StaleValue, Stale, At
  <2>3. CASE At(u, "entry")
    <3> SUFFICES ASSUME NEW e \in Entry, e = thread[u].e
                 PROVE  /\ StaleValue(u) <=> StaleValue(u)'
                        /\ StaleValue(u) =>
                              /\ \A w \in Thread : HasEntry(w, e) <=> HasEntry(w, e)'
                              /\ \A w \in Thread : HasEntry(w, e) => thread'[w] = thread[w]
      BY <1>2, <2>1, <2>3, HolderIs
    <3>1. HasEntry(u, e)
      BY <2>3 DEF HasEntry
    <3>2. /\ Linked(e)' => Linked(e)
          /\ ~Linked(e)' => p'[e] = p[e]
          /\ Linked(e) /\ ~Linked(e)' => p[e] \notin Val
      BY <1>2, <3>1 DEF Calm
    <3>3. StaleValue(u) <=> ~Linked(e) /\ p[e] \in Val
      BY <2>3 DEF StaleValue, Stale
    <3>4. StaleValue(u)' <=> ~Linked(e)' /\ p'[e] \in Val
      BY <2>1, <2>3 DEF StaleValue, Stale, At, Linked
    <3>5. StaleValue(u) <=> StaleValue(u)'
      BY <3>2, <3>3, <3>4
    <3>6. ASSUME StaleValue(u), NEW w \in Thread
          PROVE  /\ HasEntry(w, e) <=> HasEntry(w, e)'
                 /\ HasEntry(w, e) => thread'[w] = thread[w]
      <4>1. CASE w = t
        <5>1. ~HasEntry(w, e)
          BY <3>3, <3>6, <4>1 DEF HasEntry, StaleValue, Stale, Calm
        <5>2. ~HasEntry(w, e)'
          <6> SUFFICES ASSUME HasEntry(w, e)' PROVE FALSE
            OBVIOUS
          <6>1. StaleValue(t)'
            BY <3>4, <3>5, <3>6, <4>1 DEF HasEntry, StaleValue, Stale, Linked
          <6> QED BY <6>1 DEF Calm
        <5> QED BY <5>1, <5>2
      <4>2. CASE w # t
        BY <4>2 DEF Calm, HasEntry, At
      <4> QED BY <4>1, <4>2
    <3> QED BY <3>5, <3>6
  <2> QED BY <2>2, <2>3
<1> QED BY <1>1, <1>2

LEMMA CalmRemover ==
    ASSUME XInv, RemoverHolds, NEW t \in Thread, Calm(t)
    PROVE  RemoverHolds'
<1> SUFFICES ASSUME NEW u \in Thread, StaleValue(u)'
             PROVE  \E w \in Thread : HasEntry(w, thread[u].e)' /\ Op(w)' = "LoadAndDelete"
  BY DEF RemoverHolds
<1>1. StaleValue(u) /\ thread'[u] = thread[u]
  BY CalmStale
<1>2. PICK w \in Thread : HasEntry(w, thread[u].e) /\ Op(w) = "LoadAndDelete"
  BY <1>1 DEF RemoverHolds
<1>3. HasEntry(w, thread[u].e)' /\ thread'[w] = thread[w]
  BY <1>1, <1>2, CalmStale
<1> QED BY <1>2, <1>3 DEF Op

LEMMA CalmPlausible ==
    ASSUME XInv, NEW t \in Thread, Calm(t), NEW ch \in SUBSET Thread, Plausible(ch)'
    PROVE  Plausible(ch)
<1> SUFFICES ASSUME NEW u \in Thread, StaleValue(u)
             PROVE  \E w \in Thread : Took(ch, w, thread[u].e)
  BY DEF Plausible
<1>1. StaleValue(u)' /\ thread'[u] = thread[u]
  BY CalmStale
<1>2. /\ \A w \in Thread : HasEntry(w, thread[u].e) <=> HasEntry(w, thread[u].e)'
      /\ \A w \in Thread : HasEntry(w, thread[u].e) => thread'[w] = thread[w]
  BY CalmStale
<1>3. PICK w \in Thread : Took(ch, w, thread[u].e)'
  BY <1>1 DEF Plausible
<1> SUFFICES ASSUME NEW e, e = thread[u].e PROVE Took(ch, w, e)
  OBVIOUS
<1>4. Took(ch, w, e)'
  BY <1>1, <1>3 DEF Took, HasEntry
<1>5. \A x \in Thread : HasEntry(x, e) => HasEntry(x, e)' /\ thread'[x] = thread[x]
  BY <1>1, <1>2 DEF HasEntry, At
<1>6. \A x \in Thread : HasEntry(x, e)' => HasEntry(x, e) /\ thread'[x] = thread[x]
  BY <1>1, <1>2 DEF HasEntry, At
<1> QED BY <1>4, <1>5, <1>6 DEF Took, Op

\* An operation that stores nothing does nothing to a key that is not in the map.
LEMMA NoneStays ==
    ASSUME NEW l, l.op \in Methods \ {"Range", "Swap", "LoadOrStore"}
    PROVE  MapOp(l, None).x = None
<1>1. CASE l.op \in {"Load", "LoadAndDelete"}
  BY <1>1 DEF MapOp
<1>2. CASE l.op \in {"CompareAndSwap", "CompareAndDelete"}
  BY <1>2 DEF MapOp
<1> QED BY <1>1, <1>2 DEF Methods

\* The entries that leave the maps in a calm step have no value: to the calls that
\* are about to operate on them, the key was not in the map.
LEMMA CalmEffects ==
    ASSUME XInv, MonitorOK, Kept, NEW t \in Thread, Calm(t),
           NEW ch \in SUBSET Thread, Plausible(ch)'
    PROVE  \E d \in lin : /\ \A k \in Key : d.m[k] = Mapped(k)
                          /\ \A u \in Thread \ {t} : d.ret[u] = Taken(ch, u)'
                          /\ d.ret[t] = Taken(ch, t)
<1>1. PICK c \in lin : Explains(ch, c)
  BY CalmPlausible DEF Kept
<1> DEFINE S == {u \in Thread \ {t} : /\ At(u, "entry") /\ ~Stale(u) /\ Stale(u)'
                                      /\ Op(u) \notin {"Swap", "LoadOrStore"}}
<1>2. ASSUME NEW u \in S
      PROVE  /\ u \in Pending(thread) /\ c.ret[u] = <<>> /\ thread'[u] = thread[u]
             /\ c.m[thread[u].key] = None /\ Outcome(thread, u, c).x = None
             /\ Outcome(thread, u, c) = MapOp(thread[u], None)
             /\ Taken(ch, u)' = MapOp(thread[u], None).res
  <2>1. /\ u \in Thread /\ u # t /\ At(u, "entry") /\ ~Stale(u) /\ Stale(u)'
        /\ Op(u) \notin {"Swap", "LoadOrStore"}
    OBVIOUS
  <2> HIDE DEF S
  <2>2. /\ thread[u].e \in Entry /\ K(u) \in Key /\ u \in Pending(thread)
        /\ Op(u) \in Methods \ {"Range"} /\ EntryOf(K(u)) = thread[u].e
    BY <2>1, HolderIs DEF Stale
  <2> SUFFICES ASSUME NEW e \in Entry, e = thread[u].e
               PROVE  /\ c.ret[u] = <<>> /\ thread'[u] = thread[u]
                      /\ c.m[thread[u].key] = None /\ Outcome(thread, u, c).x = None
                      /\ Outcome(thread, u, c) = MapOp(thread[u], None)
                      /\ Taken(ch, u)' = MapOp(thread[u], None).res
    BY <2>2
  <2>3. thread'[u] = thread[u] /\ HasEntry(u, e)
    BY <2>1 DEF Calm, HasEntry
  <2>4. Linked(e) /\ ~Linked(e)'
    BY <2>1, <2>3 DEF Stale, HasEntry, Linked
  <2>5. p[e] \notin Val /\ p'[e] = p[e] /\ p[e] \in Val \cup {None, Expunged}
    BY <2>1, <2>3, <2>4 DEF Calm, XInv, SharedType
  <2>6. Mapped(K(u)) = None
    BY <2>2, <2>5 DEF Mapped, Value
  <2>7. c.m[thread[u].key] = None
    BY <1>1, <2>2, <2>6 DEF Explains, K
  <2>8. Outcome(thread, u, c) = MapOp(thread[u], None)
    BY <2>7 DEF Outcome
  <2>9. MapOp(thread[u], None).x = None
    BY <2>1, <2>2, NoneStays DEF Op
  <2>10. c.ret[u] = <<>>
    BY <1>1, <2>1 DEF Explains, Taken, At
  <2>11. Sees(ch, u)' = None
    BY <2>3, <2>5 DEF Sees
  <2>12. Taken(ch, u)' = MapOp(thread[u], None).res
    BY <2>1, <2>3, <2>11 DEF Taken, At, Op
  <2> QED BY <2>3, <2>7, <2>8, <2>9, <2>10, <2>12
<1>3. PICK d \in lin : /\ d.m = c.m
                       /\ \A u \in Thread : d.ret[u] = IF u \in S THEN Outcome(thread, u, c).res ELSE c.ret[u]
  <2>1. S \in SUBSET Pending(thread)
    <3> HIDE DEF S
    <3> QED BY <1>2
  <2>2. \A u \in S : c.ret[u] = <<>> /\ Outcome(thread, u, c).x = c.m[thread[u].key]
    BY <1>2
  <2> HIDE DEF S
  <2> QED BY <2>1, <2>2, XThreads, ManyEffects DEF MonitorOK
<1>4. ASSUME NEW u \in Thread \ {t}, u \notin S PROVE Taken(ch, u)' = Taken(ch, u)
  <2>1. thread'[u] = thread[u]
    BY DEF Calm
  <2>2. CASE ~At(u, "entry")
    BY <2>1, <2>2 DEF Taken, At, Stale
  <2>3. CASE At(u, "entry")
    <3> SUFFICES ASSUME NEW e \in Entry, e = thread[u].e PROVE Taken(ch, u)' = Taken(ch, u)
      BY <2>3, HolderIs
    <3>1. HasEntry(u, e) /\ ~At(u, "miss") /\ ~At(u, "miss")' /\ At(u, "entry")'
      BY <2>1, <2>3 DEF HasEntry, At
    <3>2. (Linked(e)' => Linked(e)) /\ (~Linked(e)' => p'[e] = p[e])
      BY <3>1 DEF Calm
    <3>3. (Stale(u) <=> ~Linked(e)) /\ (Stale(u)' <=> ~Linked(e)')
      BY <2>1, <3>1 DEF Stale, Linked, HasEntry
    <3>4. Op(u)' = Op(u)
      BY <2>1 DEF Op
    <3>5. CASE Op(u) \in {"Swap", "LoadOrStore"}
      BY <3>1, <3>4, <3>5 DEF Taken
    <3>6. CASE ~Stale(u) /\ ~Stale(u)'
      BY <3>1, <3>6 DEF Taken
    <3>7. CASE Stale(u) /\ Stale(u)'
      <4>1. Sees(ch, u)' = Sees(ch, u)
        BY <2>1, <3>2, <3>3, <3>7 DEF Sees
      <4>2. MapOp(thread[u], Sees(ch, u))' = MapOp(thread[u], Sees(ch, u))
        BY <2>1, <4>1 DEF MapOp
      <4> QED BY <3>1, <3>4, <3>7, <4>2 DEF Taken
    <3>8. CASE ~Stale(u) /\ Stale(u)'
      BY <1>4, <2>3, <3>5, <3>8
    <3> QED BY <3>2, <3>3, <3>6, <3>7, <3>8
  <2> QED BY <2>2, <2>3
<1>5. \A k \in Key : d.m[k] = Mapped(k)
  BY <1>1, <1>3 DEF Explains
<1>6. t \notin S
  OBVIOUS
<1> HIDE DEF S
<1>7. \A u \in Thread \ {t} : d.ret[u] = Taken(ch, u)'
  <2> SUFFICES ASSUME NEW u \in Thread \ {t} PROVE d.ret[u] = Taken(ch, u)'
    OBVIOUS
  <2>1. CASE u \in S
    BY <1>2, <1>3, <2>1
  <2>2. CASE u \notin S
    BY <1>1, <1>3, <1>4, <2>2 DEF Explains
  <2> QED BY <2>1, <2>2
<1>8. d.ret[t] = Taken(ch, t)
  BY <1>1, <1>3, <1>6 DEF Explains
<1> QED BY <1>5, <1>7, <1>8

\* A calm step in which t does nothing to the map, or gets what it has got already.
Idles(t) ==
    /\ \A k \in Key : Mapped(k)' = Mapped(k)
    /\ \A ch \in SUBSET Thread : Given(ch, t) = Taken(ch, t)

\* A calm step in which call t takes effect.
Acts(t) ==
    /\ t \in Pending(thread)
    /\ \A k \in Key : Mapped(k)' = IF k = K(t) THEN MapOp(thread[t], Mapped(k)).x ELSE Mapped(k)
    /\ \A ch \in SUBSET Thread :
          Taken(ch, t) = <<>> /\ Given(ch, t) = MapOp(thread[t], Mapped(K(t))).res

LEMMA CalmKept ==
    ASSUME XInv, MonitorOK, Kept, NEW t \in Thread, Calm(t), Observe(t),
           thread[t].pc # "idle", Idles(t) \/ Acts(t)
    PROVE  Kept'
<1> SUFFICES ASSUME NEW ch \in SUBSET Thread, Plausible(ch)'
             PROVE  \E c \in lin' : Explains(ch, c)'
  BY DEF Kept
<1>1. PICK d \in lin : /\ \A k \in Key : d.m[k] = Mapped(k)
                       /\ \A u \in Thread \ {t} : d.ret[u] = Taken(ch, u)'
                       /\ d.ret[t] = Taken(ch, t)
  BY CalmEffects
<1>2. CASE Idles(t)
  <2>1. (\A k \in Key : d.m[k] = Mapped(k)') /\ d.ret[t] = Given(ch, t)
    BY <1>1, <1>2 DEF Idles
  <2> QED BY <1>1, <2>1, Arrives
<1>3. CASE Acts(t)
  <2>1. t \in Pending(thread) /\ d.ret[t] = <<>>
    BY <1>1, <1>3 DEF Acts
  <2>2. K(t) \in Key /\ K(t) = thread[t].key
    BY <2>1, XThreads, PendingIs DEF K
  <2>3. Outcome(thread, t, d) = MapOp(thread[t], Mapped(K(t)))
    BY <1>1, <2>2 DEF Outcome
  <2>4. PICK e \in lin : /\ e.m[thread[t].key] = Outcome(thread, t, d).x
                         /\ \A k \in Key \ {thread[t].key} : e.m[k] = d.m[k]
                         /\ e.ret[t] = Outcome(thread, t, d).res
                         /\ \A u \in Thread \ {t} : e.ret[u] = d.ret[u]
    BY <2>1, XThreads, OneEffect DEF MonitorOK
  <2>5. \A k \in Key : e.m[k] = Mapped(k)'
    <3> TAKE k \in Key
    <3>1. Mapped(k)' = IF k = K(t) THEN MapOp(thread[t], Mapped(k)).x ELSE Mapped(k)
      BY <1>3 DEF Acts
    <3>2. CASE k = K(t)
      BY <2>2, <2>3, <2>4, <3>1, <3>2
    <3>3. CASE k # K(t)
      BY <1>1, <2>2, <2>4, <3>1, <3>3
    <3> QED BY <3>2, <3>3
  <2>6. e.ret[t] = Given(ch, t)
    BY <1>3, <2>3, <2>4 DEF Acts
  <2> QED BY <1>1, <2>4, <2>5, <2>6, Arrives
<1> QED BY <1>2, <1>3

-----------------------------------------------------------------------------
(* The locals after a step *)

Stays(t) ==
    /\ \A u \in Thread \ {t} : thread'[u] = thread[u]
    /\ thread'[t].op = thread[t].op /\ thread'[t].key = thread[t].key
    /\ thread'[t].val = thread[t].val /\ thread'[t].old = thread[t].old

LEMMA GotoIs ==
    ASSUME XInv, NEW t \in Thread, NEW s, Goto(t, s)
    PROVE  /\ Stays(t) /\ thread'[t].pc = s /\ thread'[t].e = thread[t].e
           /\ thread'[t].res = thread[t].res /\ thread'[t].todo = thread[t].todo
           /\ thread'[t].seen = thread[t].seen
  BY DEF Goto, Stays, XInv, ThreadType, Local

LEMMA FoundIs ==
    ASSUME XInv, NEW t \in Thread, NEW s, NEW e, Found(t, e, s)
    PROVE  /\ Stays(t) /\ thread'[t].pc = s /\ thread'[t].e = e
           /\ thread'[t].res = thread[t].res /\ thread'[t].todo = thread[t].todo
           /\ thread'[t].seen = thread[t].seen
  BY DEF Found, Stays, XInv, ThreadType, Local

LEMMA RetIs ==
    ASSUME XInv, NEW t \in Thread, NEW r, Ret(t, r)
    PROVE  /\ Stays(t) /\ thread'[t].pc = "ret" /\ thread'[t].res = r
           /\ thread'[t].e = None /\ thread'[t].todo = {} /\ thread'[t].seen = thread[t].seen
  BY DEF Ret, Stays, XInv, ThreadType, Local

LEMMA IterateIs ==
    ASSUME XInv, NEW t \in Thread, NEW m, Iterate(t, m)
    PROVE  /\ Stays(t) /\ thread'[t].pc = "iter" /\ thread'[t].e = thread[t].e
           /\ thread'[t].res = thread[t].res /\ thread'[t].seen = thread[t].seen
           /\ thread'[t].todo = {<<k, m[k]>> : k \in {j \in Key : m[j] # None}}
  BY DEF Iterate, Stays, XInv, ThreadType, Local

LEMMA MissIs ==
    ASSUME XInv, NEW t \in Thread, NEW r,
           thread' = [thread EXCEPT ![t].pc = "miss", ![t].res = r, ![t].e = None]
    PROVE  Stays(t) /\ thread'[t].pc = "miss" /\ thread'[t].res = r /\ thread'[t].e = None
  BY DEF Stays, XInv, ThreadType, Local

LEMMA TodoIs ==
    ASSUME XInv, NEW t \in Thread, NEW s, thread' = [thread EXCEPT ![t].todo = s]
    PROVE  /\ Stays(t) /\ thread'[t].pc = thread[t].pc /\ thread'[t].e = thread[t].e
           /\ thread'[t].res = thread[t].res
  BY DEF Stays, XInv, ThreadType, Local

LEMMA CopyIs ==
    ASSUME XInv, NEW t \in Thread, NEW s,
           thread' = [thread EXCEPT ![t].pc = "dirty", ![t].todo = s]
    PROVE  /\ Stays(t) /\ thread'[t].pc = "dirty" /\ thread'[t].e = thread[t].e
  BY DEF Stays, XInv, ThreadType, Local

\* Visit of x, which finds v.
LEMMA VisitIs ==
    ASSUME XInv, NEW t \in Thread, NEW x, NEW v,
           thread' = [thread EXCEPT ![t].todo = @ \ {x},
                                    ![t].seen = IF v = None THEN @ ELSE @ \cup {<<x[1], v>>}]
    PROVE  /\ Stays(t) /\ thread'[t].pc = thread[t].pc /\ thread'[t].e = thread[t].e
           /\ thread'[t].res = thread[t].res
           /\ thread'[t].todo = thread[t].todo \ {x}
           /\ thread'[t].seen = IF v = None THEN thread[t].seen ELSE thread[t].seen \cup {<<x[1], v>>}
<1> DEFINE seen == IF v = None THEN thread[t].seen ELSE thread[t].seen \cup {<<x[1], v>>}
           todo == thread[t].todo \ {x}
           l == [thread[t] EXCEPT !.todo = todo, !.seen = seen]
<1>1. thread' = [thread EXCEPT ![t] = l] /\ thread \in [Thread -> Local]
  BY DEF XInv, ThreadType
<1> HIDE DEF seen, todo
<1>2. /\ l.pc = thread[t].pc /\ l.e = thread[t].e /\ l.res = thread[t].res
      /\ l.op = thread[t].op /\ l.key = thread[t].key
      /\ l.val = thread[t].val /\ l.old = thread[t].old
      /\ l.todo = todo /\ l.seen = seen
  BY <1>1 DEF Local
<1> HIDE DEF l
<1>3. /\ Stays(t) /\ thread'[t].pc = thread[t].pc /\ thread'[t].e = thread[t].e
      /\ thread'[t].res = thread[t].res /\ thread'[t].todo = todo /\ thread'[t].seen = seen
  BY <1>1, <1>2 DEF Stays
<1> QED BY <1>3 DEF seen, todo

\* The step of every method stays in its call.
LEMMA StepStays ==
    ASSUME XInv, XInv', NEW t \in Thread, Step(t)
    PROVE  Stays(t) /\ SameCall(t)
<1> SUFFICES Stays(t) /\ thread[t].pc \notin {"idle", "ret"} /\ thread'[t].pc # "idle"
  BY DEF SameCall, Stays, XInv, ThreadType
<1>1. CASE ReadMap(t) \/ OnEntry(t)
  <2>1. thread[t].pc \in {"read", "entry"}
    BY <1>1 DEF ReadMap, OnEntry, At
  <2>2. \/ \E e : Found(t, e, "entry") \/ Found(t, e, "lock")
        \/ Goto(t, "lock") \/ \E r : Ret(t, r)
    BY <1>1 DEF ReadMap, OnEntry
  <2> QED BY <2>1, <2>2, GotoIs, FoundIs, RetIs
<1>2. CASE LookupLocked(t) \/ DeleteLocked(t)
  <2>1. thread[t].pc = "lock" /\ \E e : Proceed(t, e)
    BY <1>2 DEF LookupLocked, DeleteLocked, At
  <2>2. (\E e : Found(t, e, "entry")) \/ \E r : Ret(t, r)
    BY <2>1 DEF Proceed
  <2> QED BY <2>1, <2>2, FoundIs, RetIs
<1>3. CASE Lock(t)
  <2>1. thread[t].pc = "lock"
    BY <1>3 DEF Lock, At
  <2>2. \/ \E e : Found(t, e, "locked") \/ Found(t, e, "unexpunge")
        \/ \E r : Ret(t, r)
        \/ \E s : thread' = [thread EXCEPT ![t].pc = "dirty", ![t].todo = s]
        \/ Goto(t, "insert")
    BY <1>3 DEF Lock
  <2> QED BY <2>1, <2>2, FoundIs, RetIs, GotoIs, CopyIs
<1>4. CASE UnexpungeLocked(t) \/ Miss(t)
  <2>1. thread[t].pc \in {"unexpunge", "miss"} /\ (Goto(t, "locked") \/ Goto(t, "ret"))
    BY <1>4 DEF UnexpungeLocked, Miss, At
  <2> QED BY <2>1, GotoIs
<1>5. CASE OnEntryLocked(t)
  <2>1. /\ thread[t].pc = "locked"
        /\ \E r : \/ thread' = [thread EXCEPT ![t].pc = "miss", ![t].res = r, ![t].e = None]
                  \/ Ret(t, r)
    BY <1>5 DEF OnEntryLocked, At
  <2> QED BY <2>1, MissIs, RetIs
<1>6. CASE DirtyLocked(t)
  <2>1. thread[t].pc = "dirty" /\ \E k : thread' = [thread EXCEPT ![t].todo = @ \ {k}]
    BY <1>6 DEF DirtyLocked, At
  <2>2. \E s : thread' = [thread EXCEPT ![t].todo = s]
    BY <2>1
  <2> QED BY <2>1, <2>2, TodoIs
<1>7. CASE Insert(t)
  <2>1. thread[t].pc \in {"insert", "dirty"} /\ \E r : Ret(t, r)
    BY <1>7 DEF Insert, At
  <2> QED BY <2>1, RetIs
<1>8. CASE RangeRead(t) \/ RangePromote(t) \/ RangeEnd(t)
  <2>1. /\ thread[t].pc \in {"read", "lock", "iter"}
        /\ \/ Goto(t, "lock")
           \/ \E m : Iterate(t, m)
           \/ \E r : Ret(t, r)
    BY <1>8 DEF RangeRead, RangePromote, RangeEnd, At
  <2> QED BY <2>1, GotoIs, IterateIs, RetIs
<1>9. CASE RangeVisit(t)
  <2>1. /\ thread[t].pc = "iter"
        /\ \/ \E x, v : thread' = [thread EXCEPT ![t].todo = @ \ {x},
                                        ![t].seen = IF v = None THEN @ ELSE @ \cup {<<x[1], v>>}]
           \/ \E r : Ret(t, r)
    BY <1>9 DEF RangeVisit, At
  <2>2. CASE \E r : Ret(t, r)
    BY <2>1, <2>2, RetIs
  <2>3. CASE \E x, v : thread' = [thread EXCEPT ![t].todo = @ \ {x},
                                     ![t].seen = IF v = None THEN @ ELSE @ \cup {<<x[1], v>>}]
    <3>1. PICK x, v : thread' = [thread EXCEPT ![t].todo = @ \ {x},
                                     ![t].seen = IF v = None THEN @ ELSE @ \cup {<<x[1], v>>}]
      BY <2>3
    <3>2. Stays(t) /\ thread'[t].pc = thread[t].pc
      BY <3>1, VisitIs
    <3> QED BY <2>1, <3>2
  <2> QED BY <2>1, <2>2, <2>3
<1> QED BY <1>1, <1>2, <1>3, <1>4, <1>5, <1>6, <1>7, <1>8, <1>9 DEF Step

-----------------------------------------------------------------------------
(* Steps that leave the entries in the maps *)

LEMMA CalmStep ==
    ASSUME LinInv, NEW t \in Thread, thread[t].pc # "idle", Observe(t), Calm(t), Idles(t) \/ Acts(t)
    PROVE  Kept' /\ RemoverHolds'
  BY CalmKept, CalmRemover DEF LinInv

\* Who has not got a result yet.
LEMMA NotYet ==
    ASSUME NEW t
    PROVE  /\ ~At(t, "miss") /\ (Stale(t) => Op(t) \in {"Swap", "LoadOrStore"})
                  => \A ch : Taken(ch, t) = <<>>
           /\ ~At(t, "miss")' /\ (Stale(t)' => Op(t)' \in {"Swap", "LoadOrStore"})
                  => \A ch : Taken(ch, t)' = <<>>
  BY DEF Taken

LEMMA NotEntry ==
    ASSUME NEW t
    PROVE  /\ ~At(t, "entry") => ~Stale(t) /\ ~StaleValue(t)
           /\ ~At(t, "entry")' => ~Stale(t)' /\ ~StaleValue(t)'
           /\ Linked(thread[t].e) => ~Stale(t) /\ ~StaleValue(t)
           /\ Linked(thread[t].e)' => ~Stale(t)' /\ ~StaleValue(t)'
  BY DEF Stale, StaleValue

LEMMA SameLinks ==
    ASSUME XInv, NEW t \in Thread, Stays(t), ~StaleValue(t), ~StaleValue(t)',
           \A e \in Entry : Linked(e)' <=> Linked(e),
           \A e \in Entry : ~Linked(e) => p'[e] = p[e]
    PROVE  Calm(t)
  BY DEF Calm, Stays

LEMMA SameMaps ==
    ASSUME XInv, NEW t \in Thread, Stays(t), ~StaleValue(t), ~StaleValue(t)',
           read' = read, \A k \in Key : Lookup(dirty, k)' = Lookup(dirty, k), p' = p
    PROVE  /\ Calm(t) /\ \A k \in Key : Mapped(k)' = Mapped(k)
           /\ \A e \in Entry : Linked(e)' <=> Linked(e)
<1>1. \A e \in Entry : Linked(e)' <=> Linked(e)
  BY DEF Linked
<1>2. \A k \in Key : EntryOf(k)' = EntryOf(k)
  BY DEF EntryOf
<1>3. \A k \in Key : Mapped(k)' = Mapped(k)
  BY <1>2 DEF Mapped
<1> QED BY <1>1, <1>3, SameLinks

\* The result for a key that is not in the map.
LEMMA NotFoundActs ==
    ASSUME XInv, NEW t \in Thread, t \in Pending(thread), Ret(t, NotFound(t)),
           Op(t) \in {"Load", "LoadAndDelete", "CompareAndSwap", "CompareAndDelete"},
           Mapped(K(t)) = None, \A k \in Key : Mapped(k)' = Mapped(k),
           \A ch : Taken(ch, t) = <<>>
    PROVE  Acts(t)
<1>1. MapOp(thread[t], None).x = None /\ MapOp(thread[t], None).res = NotFound(t)
  <2>1. CASE Op(t) \in {"Load", "LoadAndDelete"}
    BY <2>1 DEF MapOp, NotFound, Op
  <2>2. CASE Op(t) \in {"CompareAndSwap", "CompareAndDelete"}
    BY <2>2 DEF MapOp, NotFound, Op
  <2> QED BY <2>1, <2>2
<1>2. Answers(t) /\ thread'[t].res = NotFound(t)
  BY RetIs DEF Answers, Op
<1>3. \A ch : Given(ch, t) = NotFound(t)
  BY <1>2 DEF Given
<1> QED BY <1>1, <1>3 DEF Acts

\* Nothing but where t is has changed.
LEMMA Unmoved ==
    ASSUME LinInv, NEW t \in Thread, thread[t].pc # "idle", Observe(t), Stays(t),
           read' = read, \A k \in Key : Lookup(dirty, k)' = Lookup(dirty, k), p' = p,
           ~Stale(t) \/ Op(t) \in {"Swap", "LoadOrStore"}, ~StaleValue(t), ~At(t, "miss"),
           ~Stale(t)', ~At(t, "miss")', ~Answers(t)
    PROVE  Kept' /\ RemoverHolds'
<1>1. ~StaleValue(t)'
  BY DEF StaleValue
<1>2. Calm(t) /\ \A k \in Key : Mapped(k)' = Mapped(k)
  BY <1>1, SameMaps DEF LinInv
<1>3. \A ch : Given(ch, t) = <<>> /\ Taken(ch, t) = <<>>
  BY NotYet DEF Given
<1> QED BY <1>2, <1>3, CalmStep DEF Idles

\* The same, but t returns that its key is not in the map.
LEMMA UnmovedNotFound ==
    ASSUME LinInv, NEW t \in Thread, thread[t].pc \in {"read", "lock"}, Observe(t),
           read' = read, \A k \in Key : Lookup(dirty, k)' = Lookup(dirty, k), p' = p,
           Ret(t, NotFound(t)), Mapped(K(t)) = None,
           Op(t) \in {"Load", "LoadAndDelete", "CompareAndSwap", "CompareAndDelete"}
    PROVE  Kept' /\ RemoverHolds'
<1>1. ~At(t, "entry") /\ ~At(t, "miss") /\ ~At(t, "entry")' /\ Stays(t)
  BY RetIs DEF At, LinInv
<1>2. ~StaleValue(t) /\ ~Stale(t) /\ ~StaleValue(t)'
  BY <1>1, NotEntry
<1>3. Calm(t) /\ \A k \in Key : Mapped(k)' = Mapped(k)
  BY <1>1, <1>2, SameMaps DEF LinInv
<1>4. t \in Pending(thread)
  BY DEF Pending, Op
<1>5. \A ch : Taken(ch, t) = <<>>
  BY <1>1, <1>2, NotYet
<1>6. Acts(t)
  BY <1>3, <1>4, <1>5, NotFoundActs DEF LinInv
<1> QED BY <1>3, <1>6, CalmStep

\* The lookup in the read map.
LEMMA ReadMapLin ==
    ASSUME LinInv, NEW t \in Thread, ReadMap(t), Observe(t)
    PROVE  Kept' /\ RemoverHolds'
<1>1. /\ thread[t].pc = "read" /\ Op(t) # "Range" /\ UNCHANGED <<shared, mu, p>>
      /\ \/ read[K(t)] # None /\ Found(t, read[K(t)], "entry")
         \/ Goto(t, "lock")
         \/ /\ read[K(t)] = None /\ Op(t) \notin {"Swap", "LoadOrStore"} /\ ~amended
            /\ Ret(t, NotFound(t))
  BY DEF ReadMap, At
<1>2. /\ read' = read /\ dirty' = dirty /\ p' = p
      /\ \A k \in Key : Lookup(dirty, k)' = Lookup(dirty, k)
  BY <1>1 DEF shared, Lookup
<1>3. ~At(t, "entry") /\ ~At(t, "miss") /\ ~Stale(t) /\ ~StaleValue(t)
  BY <1>1, NotEntry DEF At
<1>4. K(t) \in Key /\ Op(t) \in Methods \ {"Range"}
  BY <1>1 DEF LinInv, XInv, OpInv, OpOK, K, Op
<1>5. CASE read[K(t)] # None /\ Found(t, read[K(t)], "entry")
  <2>1. Stays(t) /\ thread'[t].pc = "entry" /\ thread'[t].e = read[K(t)]
    BY <1>5, FoundIs DEF LinInv
  <2>2. Linked(thread[t].e)'
    BY <1>2, <1>4, <2>1 DEF Linked
  <2>3. ~Stale(t)' /\ ~At(t, "miss")' /\ ~Answers(t)
    BY <2>1, <2>2, NotEntry DEF At, Answers
  <2> QED BY <1>1, <1>2, <1>3, <2>1, <2>3, Unmoved
<1>6. CASE Goto(t, "lock")
  <2>1. Stays(t) /\ thread'[t].pc = "lock"
    BY <1>6, GotoIs DEF LinInv
  <2>2. ~Stale(t)' /\ ~At(t, "miss")' /\ ~Answers(t)
    BY <2>1, NotEntry DEF At, Answers
  <2> QED BY <1>1, <1>2, <1>3, <2>1, <2>2, Unmoved
<1>7. CASE /\ read[K(t)] = None /\ Op(t) \notin {"Swap", "LoadOrStore"} /\ ~amended
           /\ Ret(t, NotFound(t))
  <2>1. Mapped(K(t)) = None
    BY <1>4, <1>7 DEF LinInv, DirtyAmends, Mapped, EntryOf
  <2>2. Op(t) \in {"Load", "LoadAndDelete", "CompareAndSwap", "CompareAndDelete"}
    BY <1>4, <1>7 DEF Methods
  <2> QED BY <1>1, <1>2, <1>7, <2>1, <2>2, UnmovedNotFound
<1> QED BY <1>1, <1>5, <1>6, <1>7

\* A call, and what goes on when one has returned.
LEMMA CallLin ==
    ASSUME LinInv, XInv', NEW t \in Thread, Call(t), Observe(t)
    PROVE  MonitorOK' /\ Kept' /\ RemoverHolds'
<1>1. /\ thread[t].pc = "idle" /\ UNCHANGED <<shared, mu, p>>
      /\ \A u \in Thread \ {t} : thread'[u] = thread[u]
  <2>1. thread[t].pc = "idle" /\ UNCHANGED <<shared, mu, p>>
    BY DEF Call, At
  <2> QED BY <2>1 DEF Call
<1>2. thread'[t].pc = "read"
  <2>1. PICK l : thread' = [thread EXCEPT ![t] = l] /\ l.pc = "read"
    <3>1. \A op, a : [Idle EXCEPT !.pc = "read", !.op = op,
                              !.key = a.k, !.val = a.v, !.old = a.o].pc = "read"
      BY DEF Idle
    <3>2. PICK op, a : thread' = [thread EXCEPT ![t] = [Idle EXCEPT !.pc = "read", !.op = op,
                              !.key = a.k, !.val = a.v, !.old = a.o]]
      BY DEF Call
    <3> QED BY <3>1, <3>2
  <2> QED BY <2>1 DEF LinInv, XInv, ThreadType
<1>3. lin' = Explain(thread', lin)
  BY <1>1, <1>2 DEF Observe, At
<1>4. MonitorOK' /\ lin \subseteq lin'
  BY <1>3, MonitorCalls DEF LinInv
<1>5. /\ ~At(t, "entry") /\ ~At(t, "miss") /\ ~At(t, "entry")' /\ ~At(t, "miss")'
      /\ ~Stale(t) /\ ~Stale(t)' /\ ~StaleValue(t) /\ ~StaleValue(t)'
  BY <1>1, <1>2, NotEntry DEF At
<1>6. /\ read' = read /\ p' = p /\ \A k \in Key : Lookup(dirty, k)' = Lookup(dirty, k)
  BY <1>1 DEF shared, Lookup
<1>7. /\ \A e \in Entry : Linked(e)' <=> Linked(e)
      /\ \A k \in Key : Mapped(k)' = Mapped(k)
  BY <1>6 DEF Linked, Mapped, EntryOf
<1>8. Calm(t)
  BY <1>1, <1>5, <1>6, <1>7 DEF Calm
<1>9. RemoverHolds'
  BY <1>8, CalmRemover DEF LinInv
<1>10. ASSUME NEW ch \in SUBSET Thread, Plausible(ch)'
       PROVE  \E c \in lin' : Explains(ch, c)'
  <2>1. PICK d \in lin : /\ \A k \in Key : d.m[k] = Mapped(k)
                         /\ \A u \in Thread \ {t} : d.ret[u] = Taken(ch, u)'
                         /\ d.ret[t] = Taken(ch, t)
    BY <1>8, <1>10, CalmEffects DEF LinInv
  <2>2. Taken(ch, t) = <<>> /\ Taken(ch, t)' = <<>>
    BY <1>5, NotYet
  <2>3. Explains(ch, d)'
    BY <1>7, <2>1, <2>2 DEF Explains
  <2> QED BY <1>4, <2>1, <2>3
<1> QED BY <1>4, <1>9, <1>10 DEF Kept

LEMMA ReturnLin ==
    ASSUME LinInv, NEW t \in Thread, Return(t), Observe(t)
    PROVE  MonitorOK' /\ Kept' /\ RemoverHolds'
<1>1. /\ thread[t].pc = "ret" /\ UNCHANGED <<shared, mu, p>>
      /\ thread'[t].pc = "idle"
      /\ \A u \in Thread \ {t} : thread'[u] = thread[u]
  BY IdleLocal DEF Return, At, LinInv, XInv, ThreadType
<1>2. lin' = lin
  BY <1>1 DEF Observe, At
<1>3. MonitorOK'
  BY <1>1, <1>2, MonitorGoesOn DEF LinInv
<1>4. /\ ~At(t, "entry") /\ ~At(t, "miss") /\ ~At(t, "entry")' /\ ~At(t, "miss")'
      /\ ~Stale(t) /\ ~Stale(t)' /\ ~StaleValue(t) /\ ~StaleValue(t)' /\ ~Answers(t)
  BY <1>1, NotEntry DEF At, Answers
<1>5. /\ read' = read /\ p' = p /\ \A k \in Key : Lookup(dirty, k)' = Lookup(dirty, k)
  BY <1>1 DEF shared, Lookup
<1>6. /\ \A e \in Entry : Linked(e)' <=> Linked(e)
      /\ \A k \in Key : Mapped(k)' = Mapped(k)
  BY <1>5 DEF Linked, Mapped, EntryOf
<1>7. Calm(t)
  BY <1>1, <1>4, <1>5, <1>6 DEF Calm
<1>8. \A ch : Given(ch, t) = <<>> /\ Taken(ch, t) = <<>>
  BY <1>4, NotYet DEF Given
<1>9. Idles(t)
  BY <1>6, <1>8 DEF Idles
<1> QED BY <1>1, <1>3, <1>7, <1>9, CalmStep

\* The steps of Range that leave the maps alone.
LEMMA RangeLin ==
    ASSUME LinInv, NEW t \in Thread, RangeRead(t) \/ RangeVisit(t) \/ RangeEnd(t), Observe(t)
    PROVE  Kept' /\ RemoverHolds'
<1>1. thread[t].pc \in {"read", "iter"} /\ UNCHANGED <<shared, mu, p>>
  BY DEF RangeRead, RangeVisit, RangeEnd, At
<1>2. Op(t) = "Range"
  <2>1. OpOK(thread[t]) /\ thread[t] \in Local
    BY DEF LinInv, XInv, OpInv, ThreadType
  <2>2. ASSUME At(t, "iter") PROVE Op(t) = "Range"
    BY <2>1, <2>2 DEF OpOK, At, Op
  <2> QED BY <2>2 DEF RangeRead, RangeVisit, RangeEnd
<1>3. /\ Stays(t)
      /\ thread'[t].pc \in {"lock", "iter", "ret"}
  <2>1. CASE RangeRead(t) \/ RangeEnd(t)
    <3>1. Goto(t, "lock") \/ Iterate(t, read) \/ Ret(t, <<TRUE>>)
      BY <2>1 DEF RangeRead, RangeEnd
    <3> QED BY <3>1, GotoIs, IterateIs, RetIs DEF LinInv
  <2>2. CASE RangeVisit(t)
    <3>1. thread[t].pc = "iter"
      BY <2>2 DEF RangeVisit, At
    <3>2. CASE Ret(t, <<FALSE>>)
      BY <3>2, RetIs DEF LinInv
    <3>3. CASE \E x, v : thread' = [thread EXCEPT ![t].todo = @ \ {x},
                                     ![t].seen = IF v = None THEN @ ELSE @ \cup {<<x[1], v>>}]
      <4>1. PICK x, v : thread' = [thread EXCEPT ![t].todo = @ \ {x},
                                     ![t].seen = IF v = None THEN @ ELSE @ \cup {<<x[1], v>>}]
        BY <3>3
      <4>2. Stays(t) /\ thread'[t].pc = thread[t].pc
        BY <4>1, VisitIs DEF LinInv
      <4> QED BY <3>1, <4>2
    <3> QED BY <2>2, <3>2, <3>3 DEF RangeVisit
  <2> QED BY <2>1, <2>2
<1>4. /\ ~At(t, "miss") /\ ~At(t, "miss")' /\ ~Stale(t) /\ ~StaleValue(t) /\ ~Stale(t)'
      /\ ~Answers(t)
  BY <1>1, <1>2, <1>3, NotEntry DEF At, Answers, Op
<1>5. /\ read' = read /\ p' = p /\ \A k \in Key : Lookup(dirty, k)' = Lookup(dirty, k)
  BY <1>1 DEF shared, Lookup
<1> QED BY <1>1, <1>3, <1>4, <1>5, Unmoved

\* Lock, and the lookups of a method that stores.
LEMMA LockLin ==
    ASSUME LinInv, NEW t \in Thread, Lock(t), Observe(t)
    PROVE  Kept' /\ RemoverHolds'
<1>1. /\ thread[t].pc = "lock" /\ Op(t) \in {"Swap", "LoadOrStore", "CompareAndSwap"}
      /\ UNCHANGED <<read, amended, misses, p>>
      /\ \/ /\ \E e : \E s \in {"locked", "unexpunge"} : Found(t, e, s)
            /\ dirty' = dirty
         \/ /\ read[K(t)] = None /\ Lookup(dirty, K(t)) = None /\ Op(t) = "CompareAndSwap"
            /\ Ret(t, NotFound(t)) /\ dirty' = dirty
         \/ /\ \E s : thread' = [thread EXCEPT ![t].pc = "dirty", ![t].todo = s]
            /\ dirty = NoMap /\ dirty' = [j \in Key |-> None]
         \/ Goto(t, "insert") /\ dirty' = dirty
  <2>1. /\ thread[t].pc = "lock" /\ Op(t) \in {"Swap", "LoadOrStore", "CompareAndSwap"}
        /\ UNCHANGED <<read, amended, misses, p>>
    BY DEF Lock, At
  <2>2. \/ Found(t, read[K(t)], IF Op(t) = "CompareAndSwap" THEN "locked" ELSE "unexpunge")
           /\ dirty' = dirty
        \/ Found(t, dirty[K(t)], "locked") /\ dirty' = dirty
        \/ /\ read[K(t)] = None /\ Lookup(dirty, K(t)) = None /\ Op(t) = "CompareAndSwap"
           /\ Ret(t, NotFound(t)) /\ dirty' = dirty
        \/ /\ thread' = [thread EXCEPT ![t].pc = "dirty",
                                       ![t].todo = {j \in Key : read[j] # None}]
           /\ dirty = NoMap /\ dirty' = [j \in Key |-> None]
        \/ Goto(t, "insert") /\ dirty' = dirty
    BY DEF Lock
  <2>3. (IF Op(t) = "CompareAndSwap" THEN "locked" ELSE "unexpunge") \in {"locked", "unexpunge"}
    OBVIOUS
  <2>4. CASE /\ Found(t, read[K(t)], IF Op(t) = "CompareAndSwap" THEN "locked" ELSE "unexpunge")
             /\ dirty' = dirty
    BY <2>1, <2>3, <2>4
  <2>5. CASE Found(t, dirty[K(t)], "locked") /\ dirty' = dirty
    BY <2>1, <2>5
  <2>6. CASE /\ thread' = [thread EXCEPT ![t].pc = "dirty",
                                       ![t].todo = {j \in Key : read[j] # None}]
             /\ dirty = NoMap /\ dirty' = [j \in Key |-> None]
    BY <2>1, <2>6
  <2> QED BY <2>1, <2>2, <2>4, <2>5, <2>6
<1>2. \A k \in Key : Lookup(dirty, k)' = Lookup(dirty, k)
  BY <1>1 DEF Lookup
<1>3. ~At(t, "entry") /\ ~At(t, "miss") /\ ~Stale(t) /\ ~StaleValue(t) /\ thread[t].pc # "idle"
  BY <1>1, NotEntry DEF At
<1>4. CASE /\ read[K(t)] = None /\ Lookup(dirty, K(t)) = None /\ Op(t) = "CompareAndSwap"
           /\ Ret(t, NotFound(t)) /\ dirty' = dirty
  <2>1. Mapped(K(t)) = None
    BY <1>4 DEF Mapped, EntryOf
  <2> QED BY <1>1, <1>2, <1>4, <2>1, UnmovedNotFound
<1>5. CASE \/ \E e : \E s \in {"locked", "unexpunge"} : Found(t, e, s)
           \/ \E s : thread' = [thread EXCEPT ![t].pc = "dirty", ![t].todo = s]
           \/ Goto(t, "insert")
  <2>1. Stays(t) /\ thread'[t].pc \in {"locked", "unexpunge", "dirty", "insert"}
    <3>1. CASE \E s : thread' = [thread EXCEPT ![t].pc = "dirty", ![t].todo = s]
      BY <3>1, CopyIs DEF LinInv
    <3>2. CASE \E e : \E s \in {"locked", "unexpunge"} : Found(t, e, s)
      BY <3>2, FoundIs DEF LinInv
    <3>3. CASE Goto(t, "insert")
      BY <3>3, GotoIs DEF LinInv
    <3> QED BY <1>5, <3>1, <3>2, <3>3
  <2>2. ~Stale(t)' /\ ~At(t, "miss")' /\ ~Answers(t)
    BY <2>1, NotEntry DEF At, Answers
  <2> QED BY <1>1, <1>2, <1>3, <2>1, <2>2, Unmoved
<1> QED BY <1>1, <1>4, <1>5

\* No two keys have the same entry.
LEMMA OwnEntry ==
    ASSUME XInv, NEW j \in Key, NEW k \in Key, EntryOf(k) # None, EntryOf(j) = EntryOf(k)
    PROVE  j = k
  BY DEF XInv, OneKey, EntryOf

\* Every key keeps its entry, and only the one of k is written to.
LEMMA OneChange ==
    ASSUME XInv, NEW k \in Key, NEW e \in Entry, EntryOf(k) = e,
           \A j \in Key : EntryOf(j)' = EntryOf(j),
           \A x \in Entry \ {e} : p'[x] = p[x]
    PROVE  /\ \A j \in Key \ {k} : Mapped(j)' = Mapped(j)
           /\ Mapped(k) = Value(p[e]) /\ Mapped(k)' = Value(p'[e])
           /\ Linked(e)
<1>1. e # None
  BY MapAssumption
<1>2. ASSUME NEW j \in Key \ {k} PROVE Mapped(j)' = Mapped(j)
  <2>1. EntryOf(j) # e
    BY <1>1, OwnEntry
  <2>2. EntryOf(j) # None => p'[EntryOf(j)] = p[EntryOf(j)]
    BY <2>1, MappedType
  <2> QED BY <2>2 DEF Mapped
<1>3. Mapped(k) = Value(p[e]) /\ Mapped(k)' = Value(p'[e])
  BY <1>1 DEF Mapped
<1>4. Linked(e)
  BY DEF Linked, EntryOf
<1> QED BY <1>2, <1>3, <1>4

\* A step with mu held that is no answer.
LEMMA HeldStep ==
    ASSUME LinInv, NEW t \in Thread, thread[t].pc \in Critical \ {"miss"}, Observe(t), Stays(t),
           thread'[t].pc \in Critical \ {"miss"},
           \A e \in Entry : Linked(e)' <=> Linked(e),
           \A e \in Entry : ~Linked(e) => p'[e] = p[e],
           \A k \in Key : Mapped(k)' = Mapped(k)
    PROVE  Kept' /\ RemoverHolds'
<1>1. /\ ~At(t, "entry") /\ ~At(t, "miss") /\ ~At(t, "entry")' /\ ~At(t, "miss")'
      /\ ~Stale(t) /\ ~Stale(t)' /\ ~StaleValue(t) /\ ~StaleValue(t)' /\ ~Answers(t)
  BY NotEntry DEF At, Answers, Critical
<1>2. Calm(t)
  BY <1>1, SameLinks DEF LinInv
<1>3. \A ch : Given(ch, t) = <<>> /\ Taken(ch, t) = <<>>
  BY <1>1, NotYet DEF Given
<1>4. Idles(t)
  BY <1>3 DEF Idles
<1>5. thread[t].pc # "idle"
  BY DEF Critical
<1> QED BY <1>2, <1>4, <1>5, CalmStep

\* An entry of the read map is put into the dirty map.
LEMMA LinkedSet ==
    ASSUME XInv, NEW k \in Key, NEW e \in Entry, e = read[k], read' = read,
           dirty # NoMap, dirty[k] = None, dirty' = [dirty EXCEPT ![k] = e]
    PROVE  /\ \A j \in Key : Lookup(dirty, j)' = IF j = k THEN e ELSE Lookup(dirty, j)
           /\ \A x \in Entry : Linked(x)' <=> Linked(x)
<1>1. \A j \in Key : /\ Lookup(dirty, j) = dirty[j] /\ Lookup(dirty, j)' = dirty'[j]
                     /\ dirty'[j] = IF j = k THEN e ELSE dirty[j]
  BY DirtySet
<1>2. \A j \in Key : Lookup(dirty, j)' = IF j = k THEN e ELSE Lookup(dirty, j)
  BY <1>1
<1>3. ASSUME NEW x \in Entry, Linked(x)' PROVE Linked(x)
  <2>1. PICK j \in Key : x \in {read'[j], Lookup(dirty, j)'}
    BY <1>3 DEF Linked
  <2>2. x \in {read[j], Lookup(dirty, j)} \/ x = read[k]
    BY <1>2, <2>1
  <2> QED BY <2>2 DEF Linked
<1>4. ASSUME NEW x \in Entry, Linked(x) PROVE Linked(x)'
  <2>1. PICK j \in Key : x \in {read[j], Lookup(dirty, j)}
    BY <1>4 DEF Linked
  <2>2. x # None /\ Lookup(dirty, k) = None
    BY <1>1, MapAssumption
  <2>3. x \in {read'[j], Lookup(dirty, j)'}
    BY <1>2, <2>1, <2>2
  <2> QED BY <2>3 DEF Linked
<1> QED BY <1>2, <1>3, <1>4

\* An expunged entry gets back into the dirty map.
LEMMA UnexpungeLin ==
    ASSUME LinInv, NEW t \in Thread, UnexpungeLocked(t), Observe(t)
    PROVE  Kept' /\ RemoverHolds'
<1> SUFFICES ASSUME NEW e, e = thread[t].e, NEW k, k = K(t) PROVE Kept' /\ RemoverHolds'
  OBVIOUS
<1>1. /\ thread[t].pc = "unexpunge" /\ Goto(t, "locked") /\ read' = read
      /\ \/ p[e] = Expunged /\ p' = [p EXCEPT ![e] = None] /\ dirty' = [dirty EXCEPT ![k] = e]
         \/ p[e] # Expunged /\ UNCHANGED <<p, dirty>>
  BY DEF UnexpungeLocked, At
<1>2. /\ thread[t] \in Local /\ OpOK(thread[t]) /\ mu = t
      /\ k = thread[t].key /\ k \in Key /\ e = read[k] /\ XInv
  BY <1>1, Goes DEF LinInv, OpOK, WithEntry, K, Critical, XInv, OpInv, HeldInv, Holds, At
<1>3. e \in Entry /\ e # None
  BY <1>1, <1>2 DEF OpOK, WithEntry, Local
<1>4. p \in [Entry -> Val \cup {None, Expunged}]
  BY <1>2 DEF XInv, SharedType
<1>5. Stays(t) /\ thread[t].pc \in Critical \ {"miss"} /\ thread'[t].pc \in Critical \ {"miss"}
  BY <1>1, <1>2, GotoIs DEF Critical
<1>6. EntryOf(k) = e
  BY <1>2, <1>3 DEF EntryOf
<1>7. CASE p[e] # Expunged /\ UNCHANGED <<p, dirty>>
  <2>1. \A j \in Key : Lookup(dirty, j)' = Lookup(dirty, j)
    BY <1>7 DEF Lookup
  <2>2. \A x \in Entry : Linked(x)' <=> Linked(x)
    BY <1>1, <2>1 DEF Linked
  <2>3. \A j \in Key : Mapped(j)' = Mapped(j)
    BY <1>1, <1>7, <2>1 DEF Mapped, EntryOf
  <2> QED BY <1>5, <1>7, <2>2, <2>3, HeldStep
<1>8. CASE p[e] = Expunged /\ p' = [p EXCEPT ![e] = None] /\ dirty' = [dirty EXCEPT ![k] = e]
  <2>1. dirty # NoMap /\ dirty[k] = None
    <3>1. EntryState(k)
      BY <1>1, <1>2, Settled
    <3> QED BY <1>2, <1>3, <1>8, <3>1 DEF EntryState
  <2>2. \A j \in Key : Lookup(dirty, j)' = IF j = k THEN e ELSE Lookup(dirty, j)
    BY <1>1, <1>2, <1>3, <1>8, <2>1, LinkedSet
  <2>3. \A x \in Entry : Linked(x)' <=> Linked(x)
    BY <1>1, <1>2, <1>3, <1>8, <2>1, LinkedSet
  <2>4. \A j \in Key : EntryOf(j)' = EntryOf(j)
    BY <1>1, <1>2, <1>3, <2>2 DEF EntryOf
  <2>5. p'[e] = None /\ \A x \in Entry \ {e} : p'[x] = p[x]
    BY <1>3, <1>4, <1>8
  <2>6. /\ \A j \in Key \ {k} : Mapped(j)' = Mapped(j)
        /\ Mapped(k) = Value(p[e]) /\ Mapped(k)' = Value(p'[e]) /\ Linked(e)
    BY <1>2, <1>3, <1>6, <2>4, <2>5, OneChange
  <2>7. \A j \in Key : Mapped(j)' = Mapped(j)
    BY <1>8, <2>5, <2>6 DEF Value
  <2> QED BY <1>5, <2>3, <2>5, <2>6, <2>7, HeldStep
<1> QED BY <1>1, <1>7, <1>8

\* One iteration of dirtyLocked.
LEMMA DirtyLockedLin ==
    ASSUME LinInv, NEW t \in Thread, DirtyLocked(t), Observe(t)
    PROVE  Kept' /\ RemoverHolds'
<1>1. PICK k \in thread[t].todo :
        /\ \/ /\ p[read[k]] \in {None, Expunged}
              /\ p' = [p EXCEPT ![read[k]] = Expunged] /\ dirty' = dirty
           \/ dirty' = [dirty EXCEPT ![k] = read[k]] /\ p' = p
        /\ thread' = [thread EXCEPT ![t].todo = @ \ {k}]
  BY DEF DirtyLocked
<1>2. thread[t].pc = "dirty" /\ read' = read /\ XInv
  BY DEF DirtyLocked, At, LinInv
<1>3. k \in Key /\ read[k] # None /\ dirty # NoMap /\ dirty[k] = None
  <2>1. Holds(t)
    BY <1>2 DEF XInv, HeldInv
  <2> QED BY <1>2, <2>1 DEF Holds, At
<1> SUFFICES ASSUME NEW e, e = read[k] PROVE Kept' /\ RemoverHolds'
  OBVIOUS
<1>4. e \in Entry /\ e # None /\ p \in [Entry -> Val \cup {None, Expunged}]
  BY <1>2, <1>3, Entries DEF XInv, SharedType
<1>5. Stays(t) /\ thread[t].pc \in Critical \ {"miss"} /\ thread'[t].pc \in Critical \ {"miss"}
  <2>1. \E s : thread' = [thread EXCEPT ![t].todo = s]
    BY <1>1
  <2> QED BY <1>2, <2>1, TodoIs DEF Critical
<1>6. EntryOf(k) = e
  BY <1>3 DEF EntryOf
<1>7. CASE p[e] \in {None, Expunged} /\ p' = [p EXCEPT ![e] = Expunged] /\ dirty' = dirty
  <2>1. \A j \in Key : Lookup(dirty, j)' = Lookup(dirty, j)
    BY <1>7 DEF Lookup
  <2>2. \A x \in Entry : Linked(x)' <=> Linked(x)
    BY <1>2, <2>1 DEF Linked
  <2>3. \A j \in Key : EntryOf(j)' = EntryOf(j)
    BY <1>2, <2>1 DEF EntryOf
  <2>4. p'[e] = Expunged /\ \A x \in Entry \ {e} : p'[x] = p[x]
    BY <1>4, <1>7
  <2>5. /\ \A j \in Key \ {k} : Mapped(j)' = Mapped(j)
        /\ Mapped(k) = Value(p[e]) /\ Mapped(k)' = Value(p'[e]) /\ Linked(e)
    BY <1>2, <1>3, <1>4, <1>6, <2>3, <2>4, OneChange
  <2>6. \A j \in Key : Mapped(j)' = Mapped(j)
    BY <1>7, <2>4, <2>5 DEF Value
  <2> QED BY <1>5, <2>2, <2>4, <2>5, <2>6, HeldStep
<1>8. CASE dirty' = [dirty EXCEPT ![k] = e] /\ p' = p
  <2>1. \A j \in Key : Lookup(dirty, j)' = IF j = k THEN e ELSE Lookup(dirty, j)
    BY <1>2, <1>3, <1>4, <1>8, LinkedSet
  <2>2. \A x \in Entry : Linked(x)' <=> Linked(x)
    BY <1>2, <1>3, <1>4, <1>8, LinkedSet
  <2>3. \A j \in Key : EntryOf(j)' = EntryOf(j)
    BY <1>2, <1>3, <2>1 DEF EntryOf
  <2>4. \A j \in Key : Mapped(j)' = Mapped(j)
    BY <1>8, <2>3 DEF Mapped
  <2> QED BY <1>5, <1>8, <2>2, <2>4, HeldStep
<1> QED BY <1>1, <1>7, <1>8

-----------------------------------------------------------------------------
(* Operations on an entry of the maps *)

\* The methods of entry do to a value what the plain map does to a mapping.
LEMMA OpAgrees ==
    ASSUME XInv, ~ComparesOld, NEW t \in Thread, Op(t) \in Methods \ {"Range"},
           NEW x \in Val \cup {None, Expunged},
           x = Expunged => Op(t) \notin {"Swap", "LoadOrStore"}
    PROVE  /\ MapOp(thread[t], Value(x)).x = Value(EntryOp(t, x).p)
           /\ MapOp(thread[t], Value(x)).res = EntryOp(t, x).res
<1>1. Value(None) = None /\ Value(Expunged) = None /\ \A v \in Val : Value(v) = v /\ v # None
  BY MapAssumption DEF Value
<1>2. Op(t) \in {"Swap", "LoadOrStore", "CompareAndSwap"} => thread[t].val \in Val
  BY DEF XInv, OpInv, OpOK, Op
<1>3. CASE Op(t) = "Load"
  BY <1>1, <1>3 DEF MapOp, EntryOp, load, Op
<1>4. CASE Op(t) = "LoadAndDelete"
  <2>1. /\ MapOp(thread[t], Value(x)) = [x |-> None, res |-> <<Value(x)>>]
        /\ EntryOp(t, x) = [p |-> IF Value(x) = None THEN x ELSE None, res |-> <<Value(x)>>]
    BY <1>4 DEF MapOp, EntryOp, delete, Op
  <2> QED BY <1>1, <2>1
<1>5. CASE Op(t) = "Swap"
  <2>1. /\ MapOp(thread[t], Value(x)) = [x |-> thread[t].val, res |-> <<Value(x)>>]
        /\ EntryOp(t, x) = [p |-> thread[t].val, res |-> <<Value(x)>>]
    BY <1>5 DEF MapOp, EntryOp, trySwap, Op
  <2> QED BY <1>1, <1>2, <1>5, <2>1
<1>6. CASE Op(t) = "LoadOrStore"
  <2>1. /\ MapOp(thread[t], Value(x)) =
             IF Value(x) = None THEN [x |-> thread[t].val, res |-> <<thread[t].val, FALSE>>]
                                ELSE [x |-> Value(x), res |-> <<Value(x), TRUE>>]
        /\ EntryOp(t, x) = IF x = None THEN [p |-> thread[t].val, res |-> <<thread[t].val, FALSE>>]
                           ELSE [p |-> x, res |-> <<x, TRUE>>]
    BY <1>6 DEF MapOp, EntryOp, tryLoadOrStore, Op
  <2>2. CASE x = None
    <3>1. PICK r : /\ MapOp(thread[t], Value(x)) = [x |-> thread[t].val, res |-> r]
                   /\ EntryOp(t, x) = [p |-> thread[t].val, res |-> r]
      BY <1>1, <2>1, <2>2
    <3>2. thread[t].val \in Val /\ Value(thread[t].val) = thread[t].val
      BY <1>1, <1>2, <1>6
    <3> QED BY <3>1, <3>2
  <2>3. CASE x \in Val
    <3>1. Value(x) = x /\ x # None
      BY <1>1, <2>3
    <3>2. PICK r : /\ MapOp(thread[t], Value(x)) = [x |-> x, res |-> r]
                   /\ EntryOp(t, x) = [p |-> x, res |-> r]
      BY <2>1, <3>1
    <3> QED BY <3>1, <3>2
  <2> QED BY <1>6, <2>2, <2>3
<1>7. CASE Op(t) = "CompareAndSwap"
  <2>1. /\ MapOp(thread[t], Value(x)) =
             [x |-> IF Value(x) # None THEN thread[t].val ELSE Value(x), res |-> <<Value(x) # None>>]
        /\ EntryOp(t, x) =
             [p |-> IF Value(x) = None THEN x ELSE thread[t].val, res |-> <<Value(x) # None>>]
    BY <1>7 DEF MapOp, EntryOp, tryCompareAndSwap, Op
  <2> QED BY <1>1, <1>2, <1>7, <2>1
<1>8. CASE Op(t) = "CompareAndDelete"
  <2>1. /\ MapOp(thread[t], Value(x)) =
             [x |-> IF Value(x) # None THEN None ELSE Value(x), res |-> <<Value(x) # None>>]
        /\ EntryOp(t, x) =
             [p |-> IF Value(x) = None THEN x ELSE None, res |-> <<Value(x) # None>>]
    BY <1>8 DEF MapOp, EntryOp, compareAndDelete, Op
  <2> QED BY <1>1, <2>1
<1> QED BY <1>3, <1>4, <1>5, <1>6, <1>7, <1>8 DEF Methods

\* Such an operation is the effect of its call.
LEMMA OnLinked ==
    ASSUME LinInv, ~ComparesOld, NEW t \in Thread, thread[t].pc \in {"entry", "locked"},
           Op(t) \in Methods \ {"Range"}, K(t) \in Key,
           Observe(t), Stays(t), read' = read, dirty' = dirty,
           NEW e \in Entry, EntryOf(K(t)) = e, thread[t].e = e,
           p[e] = Expunged => Op(t) \notin {"Swap", "LoadOrStore"},
           p' = [p EXCEPT ![e] = EntryOp(t, p[e]).p],
           thread'[t].pc \in {"ret", "miss"}, thread'[t].res = EntryOp(t, p[e]).res
    PROVE  Kept' /\ RemoverHolds'
<1>1. \A k \in Key : Lookup(dirty, k)' = Lookup(dirty, k)
  BY DEF Lookup
<1>2. /\ \A x \in Entry : Linked(x)' <=> Linked(x)
      /\ \A k \in Key : EntryOf(k)' = EntryOf(k)
  BY <1>1 DEF Linked, EntryOf
<1>3. p \in [Entry -> Val \cup {None, Expunged}] /\ XInv
  BY DEF LinInv, XInv, SharedType
<1>4. p'[e] = EntryOp(t, p[e]).p /\ \A x \in Entry \ {e} : p'[x] = p[x]
  BY <1>3
<1>5. /\ \A k \in Key \ {K(t)} : Mapped(k)' = Mapped(k)
      /\ Mapped(K(t)) = Value(p[e]) /\ Linked(e)
      /\ \A k : k = K(t) => Mapped(k)' = Value(p'[e])
  <2>1. /\ \A k \in Key \ {K(t)} : Mapped(k)' = Mapped(k)
        /\ Mapped(K(t)) = Value(p[e]) /\ Linked(e)
    BY <1>2, <1>3, <1>4, OneChange
  <2>2. ASSUME NEW k \in Key, EntryOf(k) = e PROVE Mapped(k)' = Value(p'[e])
    BY <1>2, <1>3, <1>4, <2>2, OneChange
  <2> QED BY <2>1, <2>2
<1>6. /\ MapOp(thread[t], Value(p[e])).x = Value(EntryOp(t, p[e]).p)
      /\ MapOp(thread[t], Value(p[e])).res = EntryOp(t, p[e]).res
  BY <1>3, OpAgrees
<1>7. ~At(t, "miss") /\ ~At(t, "entry")' /\ ~Stale(t) /\ ~StaleValue(t) /\ ~StaleValue(t)'
  BY <1>5, NotEntry DEF At
<1>8. Calm(t)
  BY <1>2, <1>3, <1>4, <1>5, <1>7, SameLinks
<1>9. \A ch : Taken(ch, t) = <<>> /\ Given(ch, t) = thread'[t].res
  <2>1. \A ch : Taken(ch, t) = <<>>
    BY <1>7, NotYet
  <2>2. CASE thread'[t].pc = "ret"
    BY <2>1, <2>2 DEF Given, Answers, Op
  <2>3. CASE thread'[t].pc = "miss"
    BY <2>1, <2>3 DEF Given, Answers, Taken, At
  <2> QED BY <2>2, <2>3
<1>10. Acts(t)
  <2>1. t \in Pending(thread)
    BY DEF Pending, Op
  <2>2. \A k \in Key : Mapped(k)' = IF k = K(t) THEN MapOp(thread[t], Mapped(k)).x ELSE Mapped(k)
    BY <1>4, <1>5, <1>6
  <2>3. \A ch : Taken(ch, t) = <<>> /\ Given(ch, t) = MapOp(thread[t], Mapped(K(t))).res
    BY <1>5, <1>6, <1>9
  <2> QED BY <2>1, <2>2, <2>3 DEF Acts
<1> QED BY <1>8, <1>10, CalmStep

\* The operation with mu held.
LEMMA OnEntryLockedLin ==
    ASSUME LinInv, ~ComparesOld, NEW t \in Thread, OnEntryLocked(t), Observe(t)
    PROVE  Kept' /\ RemoverHolds'
<1> SUFFICES ASSUME NEW e, e = thread[t].e PROVE Kept' /\ RemoverHolds'
  OBVIOUS
<1>1. /\ thread[t].pc = "locked" /\ UNCHANGED shared
      /\ p' = [p EXCEPT ![e] = EntryOp(t, p[e]).p]
      /\ \/ thread' = [thread EXCEPT ![t].pc = "miss", ![t].res = EntryOp(t, p[e]).res, ![t].e = None]
         \/ Ret(t, EntryOp(t, p[e]).res)
  BY DEF OnEntryLocked, At
<1>2. XInv /\ read' = read /\ dirty' = dirty
  BY <1>1 DEF LinInv, shared
<1>3. /\ thread[t] \in Local /\ OpOK(thread[t]) /\ K(t) \in Key /\ e \in Entry
      /\ Op(t) \in Methods \ {"Range"}
  BY <1>1, <1>2, Goes DEF OpOK, WithEntry, K, Op, Critical, Local
<1>4. /\ e = IF read[K(t)] # None THEN read[K(t)] ELSE Lookup(dirty, K(t))
      /\ Op(t) # "CompareAndSwap" => p[e] # Expunged
  BY <1>1, <1>2 DEF XInv, HeldInv, Holds, At
<1>5. EntryOf(K(t)) = e
  BY <1>4, SMTT(30) DEF EntryOf
<1>6. Stays(t) /\ thread'[t].pc \in {"ret", "miss"} /\ thread'[t].res = EntryOp(t, p[e]).res
  BY <1>1, <1>2, MissIs, RetIs
<1> QED BY <1>1, <1>2, <1>3, <1>4, <1>5, <1>6, OnLinked

-----------------------------------------------------------------------------
(* Operations on an entry that has left the maps *)

\* Thread t finds the value that is still there, and may delete it.
LEMMA StaleLin ==
    ASSUME LinInv, NEW t \in Thread, At(t, "entry"), NEW e \in Entry, thread[t].e = e,
           ~Linked(e), p[e] \in Val, Op(t) \in {"Load"} \cup Deleters,
           Observe(t), Stays(t), read' = read, dirty' = dirty,
           thread'[t].pc = "ret", thread'[t].res = MapOp(thread[t], p[e]).res,
           \A x \in Entry \ {e} : p'[x] = p[x],
           p'[e] = IF Op(t) = "Load" THEN p[e] ELSE None
    PROVE  Kept' /\ RemoverHolds'
<1>1. XInv /\ MonitorOK /\ RemoverHolds /\ Kept
  BY DEF LinInv
<1>2. \A k \in Key : Lookup(dirty, k)' = Lookup(dirty, k)
  BY DEF Lookup
<1>3. \A x : /\ Linked(x)' <=> Linked(x)
             /\ \A u \in Thread \ {t} : HasEntry(u, x)' <=> HasEntry(u, x)
             /\ ~HasEntry(t, x)'
  BY <1>2 DEF Linked, HasEntry, At, Stays
<1>4. \A u \in Thread \ {t} : thread'[u] = thread[u]
  BY DEF Stays
<1>5. ASSUME NEW u \in Thread \ {t}
      PROVE  StaleValue(u)' <=> StaleValue(u) /\ (thread[u].e # e \/ Op(t) = "Load")
  <2>1. CASE At(u, "entry")
    <3> SUFFICES ASSUME NEW x \in Entry, x = thread[u].e
                 PROVE  StaleValue(u)' <=> StaleValue(u) /\ (x # e \/ Op(t) = "Load")
      BY <1>1, <2>1, HolderIs
    <3>1. StaleValue(u) <=> ~Linked(x) /\ p[x] \in Val
      BY <2>1 DEF StaleValue, Stale
    <3>2. StaleValue(u)' <=> ~Linked(x)' /\ p'[x] \in Val
      BY <1>4, <2>1 DEF StaleValue, Stale, At, Linked
    <3>3. CASE x = e
      BY <1>3, <3>1, <3>2, <3>3, MapAssumption
    <3>4. CASE x # e
      BY <1>3, <3>1, <3>2, <3>4
    <3> QED BY <3>3, <3>4
  <2>2. CASE ~At(u, "entry")
    BY <1>4, <2>2 DEF StaleValue, Stale, At
  <2> QED BY <2>1, <2>2
<1>6. ~StaleValue(t)' /\ StaleValue(t) /\ HasEntry(t, e)
  BY DEF StaleValue, Stale, HasEntry, At
<1>7. RemoverHolds'
  <2> SUFFICES ASSUME NEW u \in Thread, StaleValue(u)'
               PROVE  \E w \in Thread : HasEntry(w, thread[u].e)' /\ Op(w)' = "LoadAndDelete"
    BY DEF RemoverHolds
  <2>1. u # t
    BY <1>6
  <2>2. StaleValue(u) /\ (thread[u].e # e \/ Op(t) = "Load") /\ thread'[u] = thread[u]
    BY <1>4, <1>5, <2>1
  <2>3. PICK w \in Thread : HasEntry(w, thread[u].e) /\ Op(w) = "LoadAndDelete"
    BY <1>1, <2>2 DEF RemoverHolds
  <2>4. w # t
    BY <2>2, <2>3 DEF HasEntry
  <2>5. thread'[w] = thread[w]
    BY <1>4, <2>4
  <2> QED BY <2>2, <2>3, <2>5 DEF HasEntry, At, Op
<1>8. ASSUME NEW ch \in SUBSET Thread, Plausible(ch)'
      PROVE  \E c \in lin' : Explains(ch, c)'
  <2> DEFINE ch2 == {t} \cup IF Op(t) = "Load" THEN ch ELSE ch \ {u \in Thread : HasEntry(u, e)}
  <2>1. /\ ch2 \in SUBSET Thread /\ t \in ch2
        /\ \A u \in Thread \ {t} : ~HasEntry(u, e) \/ Op(t) = "Load" => (u \in ch2 <=> u \in ch)
        /\ \A u \in Thread \ {t} : HasEntry(u, e) /\ Op(t) # "Load" => u \notin ch2
    OBVIOUS
  <2> HIDE DEF ch2
  <2>2. ASSUME NEW u \in Thread \ {t}, StaleValue(u), thread[u].e # e \/ Op(t) = "Load"
        PROVE  \E w \in Thread : Took(ch2, w, thread[u].e)
    <3> SUFFICES ASSUME NEW x, x = thread[u].e PROVE \E w \in Thread : Took(ch2, w, x)
      OBVIOUS
    <3>1. StaleValue(u)' /\ thread'[u] = thread[u]
      BY <1>4, <1>5, <2>2
    <3>2. PICK w \in Thread : Took(ch, w, thread[u].e)'
      BY <1>8, <3>1 DEF Plausible
    <3>3. /\ w \in ch /\ HasEntry(w, x)' /\ Op(w)' \in Deleters
          /\ \A y \in ch : HasEntry(y, x)' /\ Op(y)' \in Deleters => y = w
      BY <3>1, <3>2 DEF Took, HasEntry
    <3>4. w # t
      BY <1>3, <3>3
    <3>5. HasEntry(w, x) /\ Op(w) \in Deleters /\ w \in ch2
      <4>1. HasEntry(w, x) /\ Op(w) \in Deleters
        BY <1>3, <1>4, <3>3, <3>4 DEF Op
      <4>2. ~HasEntry(w, e) \/ Op(t) = "Load"
        BY <2>2, <4>1 DEF HasEntry
      <4> QED BY <2>1, <3>3, <3>4, <4>1, <4>2
    <3>6. ASSUME NEW y \in ch2, HasEntry(y, x), Op(y) \in Deleters PROVE y = w
      <4>1. y # t
        BY <2>2, <3>6 DEF HasEntry, Deleters
      <4>2. y \in Thread /\ (~HasEntry(y, e) \/ Op(t) = "Load")
        BY <2>1, <2>2, <3>6 DEF HasEntry
      <4>3. y \in ch
        BY <2>1, <3>6, <4>1, <4>2
      <4>4. HasEntry(y, x)' /\ Op(y)' \in Deleters
        BY <1>3, <1>4, <3>6, <4>1, <4>2 DEF Op
      <4> QED BY <3>3, <4>3, <4>4
    <3> QED BY <3>5, <3>6 DEF Took
  <2>3. \E w \in Thread : Took(ch2, w, e)
    <3>1. CASE Op(t) = "Load"
      <4>1. PICK w \in Thread : HasEntry(w, e) /\ Op(w) = "LoadAndDelete"
        BY <1>1, <1>6 DEF RemoverHolds
      <4>2. w # t /\ StaleValue(w) /\ thread[w].e = e
        BY <3>1, <4>1 DEF HasEntry, StaleValue, Stale
      <4> QED BY <2>2, <3>1, <4>2
    <3>2. CASE Op(t) # "Load"
      <4>1. \A u \in ch2 : HasEntry(u, e) => u = t
        BY <2>1, <3>2
      <4> QED BY <1>6, <2>1, <3>2, <4>1 DEF Took
    <3> QED BY <3>1, <3>2
  <2>4. Plausible(ch2)
    <3> SUFFICES ASSUME NEW u \in Thread, StaleValue(u)
                 PROVE  \E w \in Thread : Took(ch2, w, thread[u].e)
      BY DEF Plausible
    <3>1. CASE u = t \/ (thread[u].e = e /\ Op(t) # "Load")
      BY <2>3, <3>1
    <3>2. CASE u # t /\ (thread[u].e # e \/ Op(t) = "Load")
      BY <2>2, <3>2
    <3> QED BY <3>1, <3>2
  <2>5. PICK c \in lin : Explains(ch2, c)
    BY <1>1, <2>1, <2>4 DEF Kept
  <2>6. \A k \in Key : c.m[k] = Mapped(k)'
    <3> SUFFICES ASSUME NEW k \in Key PROVE Mapped(k)' = Mapped(k)
      BY <2>5 DEF Explains
    <3>1. EntryOf(k)' = EntryOf(k)
      BY <1>2 DEF EntryOf
    <3>2. EntryOf(k) # e
      BY DEF Linked, EntryOf
    <3>3. EntryOf(k) # None => p'[EntryOf(k)] = p[EntryOf(k)]
      BY <1>1, <3>2, MappedType
    <3> QED BY <3>1, <3>3 DEF Mapped
  <2>7. ASSUME NEW u \in Thread \ {t} PROVE c.ret[u] = Taken(ch, u)'
    <3>1. c.ret[u] = Taken(ch2, u) /\ thread'[u] = thread[u]
      BY <1>4, <2>5 DEF Explains
    <3>2. CASE ~At(u, "entry")
      BY <3>1, <3>2 DEF Taken, Stale, At
    <3>3. CASE At(u, "entry")
      <4> SUFFICES ASSUME NEW x \in Entry, x = thread[u].e PROVE Taken(ch, u)' = Taken(ch2, u)
        BY <1>1, <3>1, <3>3, HolderIs
      <4>1. Stale(u)' <=> Stale(u)
        BY <1>3, <3>1 DEF Stale, At, Linked
      <4>2. Sees(ch, u)' = Sees(ch2, u)
        <5>1. CASE x # e \/ Op(t) = "Load"
          <6>1. p'[x] = p[x]
            BY <5>1
          <6>2. ~HasEntry(u, e) \/ Op(t) = "Load"
            BY <5>1 DEF HasEntry
          <6>3. u \in ch2 <=> u \in ch
            BY <2>1, <6>2
          <6> QED BY <3>1, <6>1, <6>3 DEF Sees
        <5>2. CASE x = e /\ Op(t) # "Load"
          <6>1. u \notin ch2
            BY <2>1, <3>3, <5>2 DEF HasEntry
          <6>2. p'[thread'[u].e] \notin Val
            BY <3>1, <5>2, MapAssumption
          <6> QED BY <6>1, <6>2 DEF Sees
        <5> QED BY <5>1, <5>2
      <4>3. MapOp(thread[u], Sees(ch, u))' = MapOp(thread[u], Sees(ch2, u))
        BY <3>1, <4>2 DEF MapOp
      <4>4. ~At(u, "miss") /\ ~At(u, "miss")' /\ Op(u)' = Op(u)
        BY <3>1, <3>3 DEF At, Op
      <4> QED BY <4>1, <4>3, <4>4 DEF Taken
    <3> QED BY <3>2, <3>3
  <2>8. c.ret[t] = Given(ch, t)
    <3>1. Answers(t)
      BY DEF Answers, Op, Deleters
    <3>2. Stale(t) /\ ~At(t, "miss") /\ Op(t) \notin {"Swap", "LoadOrStore"}
      BY <1>6 DEF StaleValue, At, Deleters
    <3>3. Sees(ch2, t) = p[e]
      BY <2>1 DEF Sees
    <3> QED BY <2>5, <3>1, <3>2, <3>3 DEF Explains, Taken, Given
  <2>9. thread[t].pc \notin {"idle"}
    BY DEF At
  <2> QED BY <1>1, <2>6, <2>7, <2>8, <2>9, Arrives
<1> QED BY <1>7, <1>8 DEF Kept

\* To thread t, the key is not in the map.
LEMMA StaleNoneLin ==
    ASSUME LinInv, NEW t \in Thread, At(t, "entry"), NEW e \in Entry, thread[t].e = e,
           ~Linked(e), p[e] \notin Val, Op(t) \in Methods \ {"Range", "Swap", "LoadOrStore"},
           Observe(t), Stays(t), read' = read, dirty' = dirty, p' = p,
           thread'[t].pc = "ret", thread'[t].res = MapOp(thread[t], None).res
    PROVE  Kept' /\ RemoverHolds'
<1>1. \A k \in Key : Lookup(dirty, k)' = Lookup(dirty, k)
  BY DEF Lookup
<1>2. ~StaleValue(t) /\ Stale(t) /\ ~At(t, "miss") /\ ~StaleValue(t)' /\ thread[t].pc # "idle"
  BY DEF StaleValue, Stale, At
<1>3. XInv
  BY DEF LinInv
<1>4. Calm(t) /\ \A k \in Key : Mapped(k)' = Mapped(k)
  BY <1>1, <1>2, <1>3, SameMaps
<1>5. \A ch : Given(ch, t) = Taken(ch, t)
  <2> TAKE ch
  <2>1. Sees(ch, t) = None
    BY DEF Sees
  <2>2. Taken(ch, t) = MapOp(thread[t], None).res
    BY <1>2, <2>1 DEF Taken
  <2>3. Answers(t)
    BY DEF Answers, Op
  <2> QED BY <2>2, <2>3 DEF Given
<1> QED BY <1>2, <1>4, <1>5, CalmStep DEF Idles

\* The operation on the entry, lock-free.
LEMMA OnEntryLin ==
    ASSUME LinInv, ~ComparesOld, NEW t \in Thread, OnEntry(t), Observe(t)
    PROVE  Kept' /\ RemoverHolds'
<1> SUFFICES ASSUME NEW e, e = thread[t].e PROVE Kept' /\ RemoverHolds'
  OBVIOUS
<1>1. /\ At(t, "entry") /\ UNCHANGED <<shared, mu>>
      /\ \/ /\ p[e] = Expunged /\ Op(t) \in {"Swap", "LoadOrStore"}
            /\ Found(t, None, "lock") /\ p' = p
         \/ /\ p[e] = Expunged => Op(t) \notin {"Swap", "LoadOrStore"}
            /\ p' = [p EXCEPT ![e] = EntryOp(t, p[e]).p]
            /\ Ret(t, EntryOp(t, p[e]).res)
  BY DEF OnEntry
<1>2. XInv /\ read' = read /\ dirty' = dirty /\ thread[t].pc = "entry"
  BY <1>1 DEF LinInv, shared, At
<1>3. /\ e \in Entry /\ K(t) \in Key /\ Op(t) \in Methods \ {"Range"}
      /\ Linked(e) => EntryOf(K(t)) = e
  BY <1>1, <1>2, HolderIs
<1>4. p[e] \in Val \cup {None, Expunged} /\ p \in [Entry -> Val \cup {None, Expunged}]
  BY <1>2, <1>3 DEF XInv, SharedType
<1>5. CASE /\ p[e] = Expunged /\ Op(t) \in {"Swap", "LoadOrStore"}
           /\ Found(t, None, "lock") /\ p' = p
  <2>1. Stays(t) /\ thread'[t].pc = "lock"
    BY <1>2, <1>5, FoundIs
  <2>2. ~Stale(t)' /\ ~At(t, "miss")' /\ ~Answers(t) /\ ~At(t, "miss") /\ thread[t].pc # "idle"
    BY <1>2, <2>1, NotEntry DEF At, Answers
  <2>3. ~StaleValue(t)
    BY <1>5, MapAssumption DEF StaleValue
  <2>4. \A k \in Key : Lookup(dirty, k)' = Lookup(dirty, k)
    BY <1>2 DEF Lookup
  <2> QED BY <1>2, <1>5, <2>1, <2>2, <2>3, <2>4, Unmoved
<1>6. CASE /\ p[e] = Expunged => Op(t) \notin {"Swap", "LoadOrStore"}
           /\ p' = [p EXCEPT ![e] = EntryOp(t, p[e]).p]
           /\ Ret(t, EntryOp(t, p[e]).res)
  <2>1. Stays(t) /\ thread'[t].pc = "ret" /\ thread'[t].res = EntryOp(t, p[e]).res
    BY <1>2, <1>6, RetIs
  <2>2. CASE Linked(e)
    BY <1>2, <1>3, <1>6, <2>1, <2>2, OnLinked
  <2>3. CASE ~Linked(e)
    <3>1. Op(t) \in Stores => p[e] = Expunged
      <4>1. read[K(t)] # e
        BY <1>3, <2>3 DEF Linked
      <4> QED BY <1>1, <1>2, <4>1 DEF XInv, Reaches
    <3>2. Op(t) \in Methods \ {"Range", "Swap", "LoadOrStore"}
      BY <1>3, <1>6, <3>1 DEF Stores
    <3>3. MapOp(thread[t], Value(p[e])).res = EntryOp(t, p[e]).res
      BY <1>2, <1>3, <1>4, <1>6, OpAgrees
    <3>4. p'[e] = EntryOp(t, p[e]).p /\ \A x \in Entry \ {e} : p'[x] = p[x]
      BY <1>3, <1>4, <1>6
    <3>5. CASE p[e] \in Val
      <4>1. Value(p[e]) = p[e] /\ p[e] # None
        BY <3>5, MapAssumption DEF Value
      <4>2. Op(t) \in {"Load"} \cup Deleters
        BY <3>1, <3>2, <3>5, MapAssumption DEF Stores, Deleters, Methods
      <4>3. EntryOp(t, p[e]).p = IF Op(t) = "Load" THEN p[e] ELSE None
        BY <4>1, <4>2 DEF EntryOp, load, delete, compareAndDelete, Deleters
      <4> QED BY <1>1, <1>2, <1>3, <2>1, <2>3, <3>3, <3>4, <3>5, <4>1, <4>2, <4>3, StaleLin
    <3>6. CASE p[e] \notin Val
      <4>1. Value(p[e]) = None
        BY <1>4, <3>6 DEF Value
      <4>2. EntryOp(t, p[e]).p = p[e]
        BY <3>2, <4>1 DEF EntryOp, load, delete, compareAndDelete, tryCompareAndSwap, Methods
      <4>3. p' = p
        BY <1>4, <1>6, <4>2
      <4> QED BY <1>1, <1>2, <1>3, <2>1, <2>3, <3>2, <3>3, <3>6, <4>1, <4>3, StaleNoneLin
    <3> QED BY <3>5, <3>6
  <2> QED BY <2>2, <2>3
<1> QED BY <1>1, <1>5, <1>6

-----------------------------------------------------------------------------
(* Steps that change which entries the maps have *)

\* A new entry.
LEMMA InsertLin ==
    ASSUME LinInv, NEW t \in Thread, Insert(t), Observe(t)
    PROVE  Kept' /\ RemoverHolds'
<1> SUFFICES ASSUME NEW k, k = K(t) PROVE Kept' /\ RemoverHolds'
  OBVIOUS
<1>1. PICK e \in Entry : /\ Unreachable(e) /\ p' = [p EXCEPT ![e] = thread[t].val]
                         /\ dirty' = [dirty EXCEPT ![k] = e]
  BY DEF Insert
<1>2. /\ thread[t].pc \in {"insert", "dirty"} /\ read' = read
      /\ Ret(t, IF Op(t) = "LoadOrStore" THEN <<thread[t].val, FALSE>> ELSE <<None>>)
  BY DEF Insert, At
<1>3. /\ XInv /\ thread[t] \in Local /\ OpOK(thread[t]) /\ Holds(t)
      /\ k \in Key /\ thread[t].val \in Val /\ Op(t) \in {"Swap", "LoadOrStore"}
      /\ t \in Pending(thread)
  BY <1>2, Goes DEF LinInv, OpOK, WithEntry, K, Op, Critical, XInv, HeldInv, Pending
<1>4. dirty # NoMap /\ read[k] = None /\ dirty[k] = None
  BY <1>2, <1>3 DEF Holds
<1>5. p \in [Entry -> Val \cup {None, Expunged}] /\ None \notin Entry
  BY <1>3, MapAssumption DEF XInv, SharedType
<1>6. \A j \in Key : /\ Lookup(dirty, j) = dirty[j] /\ Lookup(dirty, j)' = dirty'[j]
                     /\ dirty'[j] = IF j = k THEN e ELSE dirty[j]
  BY <1>1, <1>3, <1>4, DirtySet
<1>7. /\ \A j \in Key : read[j] # e /\ Lookup(dirty, j) # e
      /\ \A u \in Thread : thread[u].e # e
  BY <1>1 DEF Unreachable
<1>8. p'[e] = thread[t].val /\ \A x \in Entry \ {e} : p'[x] = p[x]
  BY <1>1, <1>5
<1>9. \A j \in Key : Lookup(dirty, j)' = IF j = k THEN e ELSE Lookup(dirty, j)
  BY <1>6
<1>10. ASSUME NEW x \in Entry, x # e PROVE Linked(x)' <=> Linked(x)
  <2>1. ASSUME Linked(x)' PROVE Linked(x)
    <3>1. PICK j \in Key : x \in {read'[j], Lookup(dirty, j)'}
      BY <2>1 DEF Linked
    <3>2. x \in {read[j], Lookup(dirty, j)}
      BY <1>2, <1>9, <1>10, <3>1
    <3> QED BY <3>2 DEF Linked
  <2>2. ASSUME Linked(x) PROVE Linked(x)'
    <3>1. PICK j \in Key : x \in {read[j], Lookup(dirty, j)}
      BY <2>2 DEF Linked
    <3>2. Lookup(dirty, k) = None /\ x # None
      BY <1>3, <1>4, <1>5, <1>6
    <3>3. x \in {read'[j], Lookup(dirty, j)'}
      BY <1>2, <1>9, <3>1, <3>2
    <3> QED BY <3>3 DEF Linked
  <2> QED BY <2>1, <2>2
<1>11. Stays(t) /\ thread'[t].pc = "ret"
       /\ thread'[t].res = IF Op(t) = "LoadOrStore" THEN <<thread[t].val, FALSE>> ELSE <<None>>
  BY <1>2, <1>3, RetIs
<1>12. /\ ~At(t, "entry") /\ ~At(t, "miss") /\ ~Stale(t) /\ ~StaleValue(t) /\ ~StaleValue(t)'
       /\ thread[t].pc # "idle"
  BY <1>2, <1>11, NotEntry DEF At
<1>13. Calm(t)
  <2>1. ASSUME NEW u \in Thread \ {t}, NEW x \in Entry, HasEntry(u, x)
        PROVE  (Linked(x)' <=> Linked(x)) /\ p'[x] = p[x]
    <3>1. x # e
      BY <1>7, <2>1 DEF HasEntry
    <3> QED BY <1>8, <1>10, <3>1
  <2>2. \A u \in Thread \ {t} : thread'[u] = thread[u]
    BY <1>11 DEF Stays
  <2> QED BY <1>12, <2>1, <2>2 DEF Calm
<1>14. \A j \in Key : Mapped(j)' = IF j = k THEN MapOp(thread[t], Mapped(j)).x ELSE Mapped(j)
  <2> SUFFICES ASSUME NEW j \in Key
               PROVE  Mapped(j)' = IF j = k THEN MapOp(thread[t], Mapped(j)).x ELSE Mapped(j)
    OBVIOUS
  <2>1. CASE j = k
    <3>1. EntryOf(j) = None /\ EntryOf(j)' = e
      BY <1>2, <1>3, <1>4, <1>6, <2>1 DEF EntryOf
    <3>2. Mapped(j) = None
      BY <3>1 DEF Mapped
    <3>3. Mapped(j)' = Value(thread[t].val) /\ Value(thread[t].val) = thread[t].val
      BY <1>3, <1>5, <1>8, <3>1, MapAssumption DEF Mapped, Value
    <3>4. MapOp(thread[t], None).x = thread[t].val
      BY <1>3 DEF MapOp, Op
    <3> QED BY <2>1, <3>2, <3>3, <3>4
  <2>2. CASE j # k
    <3>1. EntryOf(j)' = EntryOf(j) /\ EntryOf(j) # e
      BY <1>2, <1>7, <1>9, <2>2 DEF EntryOf
    <3>2. EntryOf(j) # None => p'[EntryOf(j)] = p[EntryOf(j)]
      BY <1>3, <1>8, <3>1, MappedType
    <3> QED BY <2>2, <3>1, <3>2 DEF Mapped
  <2> QED BY <2>1, <2>2
<1>15. MapOp(thread[t], Mapped(k)).res = thread'[t].res
  <2>1. Mapped(k) = None
    BY <1>3, <1>4, <1>6 DEF Mapped, EntryOf
  <2>2. CASE Op(t) = "Swap"
    BY <1>11, <2>1, <2>2 DEF MapOp, Op
  <2>3. CASE Op(t) = "LoadOrStore"
    BY <1>11, <2>1, <2>3 DEF MapOp, Op
  <2> QED BY <1>3, <2>2, <2>3
<1>16. \A ch : Taken(ch, t) = <<>> /\ Given(ch, t) = thread'[t].res
  BY <1>3, <1>11, <1>12, NotYet DEF Given, Answers, Op
<1>17. Acts(t)
  BY <1>3, <1>14, <1>15, <1>16 DEF Acts
<1> QED BY <1>12, <1>13, <1>17, CalmStep

\* m.missLocked and the promotion in Range, with dirty map d: an entry leaves the
\* maps if it is expunged, or is not in d any more.
LEMMA MapsAfter ==
    ASSUME XInv, NEW t \in Thread, mu \in {None, t}, thread[t].pc # "dirty", p' = p, dirty # NoMap,
           NEW d \in Map, \A j \in Key : d[j] = dirty[j] \/ (d[j] = None /\ read[j] = None),
           MissLocked(d) \/ Promoted(d)
    PROVE  /\ \A j \in Key : Mapped(j)' = IF d[j] = dirty[j] THEN Mapped(j) ELSE None
           /\ \A j \in Key : d[j] # dirty[j] => EntryOf(j) = dirty[j]
           /\ \A x \in Entry : Linked(x)' => \E j \in Key : x = read[j] \/ x = d[j]
           /\ \A x \in Entry : Linked(x)' => Linked(x)
           /\ \A x \in Entry : Linked(x) /\ ~Linked(x)' =>
                 p[x] = Expunged \/ \E j \in Key : d[j] # dirty[j] /\ x = dirty[j]
           /\ \A j \in Key : d[j] # None => Linked(d[j])'
<1>1. \A k \in Key : EntryState(k)
  BY Settled
<1>2. /\ \A k \in Key : /\ read[k] \in Entry \cup {None}
                        /\ dirty[k] \in Entry \cup {None}
                        /\ Lookup(dirty, k) = dirty[k]
      /\ None \notin Entry /\ d # NoMap
  BY Entries
<1>3. \/ read' = d /\ dirty' = NoMap
      \/ read' = read /\ dirty' = d
  BY DEF MissLocked, Promoted
<1>4. \/ \A j \in Key : read'[j] = d[j] /\ Lookup(dirty, j)' = None
      \/ \A j \in Key : read'[j] = read[j] /\ Lookup(dirty, j)' = d[j]
  BY <1>2, <1>3 DEF Lookup
<1>5. ASSUME NEW j \in Key PROVE Mapped(j)' = IF d[j] = dirty[j] THEN Mapped(j) ELSE None
  <2>1. CASE d[j] # dirty[j]
    <3>1. EntryOf(j)' = None
      BY <1>4, <2>1 DEF EntryOf
    <3> QED BY <2>1, <3>1 DEF Mapped
  <2>2. CASE d[j] = dirty[j]
    <3>1. EntryState(j) /\ Lookup(dirty, j) = dirty[j]
      BY <1>1, <1>2
    <3>2. CASE read[j] # None /\ p[read[j]] = Expunged
      <4>1. dirty[j] = None
        BY <3>1, <3>2 DEF EntryState
      <4>2. EntryOf(j)' \in {None, read[j]} /\ EntryOf(j) = read[j]
        BY <1>4, <2>2, <3>2, <4>1 DEF EntryOf
      <4>3. Mapped(j) = None /\ Mapped(j)' = None
        BY <3>2, <4>2 DEF Mapped, Value
      <4> QED BY <2>2, <4>3
    <3>3. CASE ~(read[j] # None /\ p[read[j]] = Expunged)
      <4>1. read[j] # None => dirty[j] = read[j]
        BY <3>1, <3>3 DEF EntryState
      <4>2. EntryOf(j) = dirty[j]
        BY <3>1, <4>1 DEF EntryOf
      <4>3. EntryOf(j)' = dirty[j]
        BY <1>4, <2>2, <4>1 DEF EntryOf
      <4> QED BY <2>2, <4>2, <4>3 DEF Mapped
    <3> QED BY <3>2, <3>3
  <2> QED BY <2>1, <2>2
<1>6. \A j \in Key : d[j] # dirty[j] => EntryOf(j) = dirty[j]
  BY <1>2 DEF EntryOf
<1>7. ASSUME NEW x \in Entry, Linked(x)' PROVE \E j \in Key : x = read[j] \/ x = d[j]
  <2>1. PICK j \in Key : x \in {read'[j], Lookup(dirty, j)'}
    BY <1>7 DEF Linked
  <2> QED BY <1>2, <1>4, <2>1
<1>8. ASSUME NEW x \in Entry, Linked(x)' PROVE Linked(x)
  <2>1. PICK j \in Key : x = read[j] \/ x = d[j]
    BY <1>7, <1>8
  <2>2. x \in {read[j], Lookup(dirty, j)}
    BY <1>2, <2>1
  <2> QED BY <2>2 DEF Linked
<1>9. ASSUME NEW j \in Key, d[j] # None PROVE Linked(d[j])'
  <2>1. d[j] \in {read'[j], Lookup(dirty, j)'}
    BY <1>4
  <2> QED BY <2>1 DEF Linked
<1>10. ASSUME NEW x \in Entry, Linked(x), ~Linked(x)'
       PROVE  p[x] = Expunged \/ \E j \in Key : d[j] # dirty[j] /\ x = dirty[j]
  <2>1. PICK j \in Key : x \in {read[j], Lookup(dirty, j)}
    BY <1>10 DEF Linked
  <2>2. EntryState(j) /\ Lookup(dirty, j) = dirty[j] /\ x # None
    BY <1>1, <1>2
  <2>3. p[x] = Expunged \/ x = dirty[j]
    BY <2>1, <2>2 DEF EntryState
  <2>4. x # d[j]
    BY <1>9, <1>10, <2>2
  <2> QED BY <2>3, <2>4
<1> QED BY <1>5, <1>6, <1>7, <1>8, <1>9, <1>10

\* Such a step, if no value is lost by it.
LEMMA CalmMaps ==
    ASSUME XInv, NEW t \in Thread, mu \in {None, t}, thread[t].pc # "dirty", p' = p, dirty # NoMap,
           NEW d \in Map, \A j \in Key : d[j] = dirty[j] \/ (d[j] = None /\ read[j] = None),
           MissLocked(d) \/ Promoted(d),
           \A j \in Key : d[j] # dirty[j] => p[dirty[j]] \notin Val,
           Stays(t), ~StaleValue(t), ~StaleValue(t)'
    PROVE  Calm(t) /\ \A j \in Key : Mapped(j)' = Mapped(j)
<1>1. /\ \A j \in Key : Mapped(j)' = IF d[j] = dirty[j] THEN Mapped(j) ELSE None
      /\ \A j \in Key : d[j] # dirty[j] => EntryOf(j) = dirty[j]
      /\ \A x \in Entry : Linked(x)' => Linked(x)
      /\ \A x \in Entry : Linked(x) /\ ~Linked(x)' =>
            p[x] = Expunged \/ \E j \in Key : d[j] # dirty[j] /\ x = dirty[j]
  BY MapsAfter
<1>2. \A x \in Entry : Linked(x) /\ ~Linked(x)' => p[x] \notin Val
  BY <1>1, MapAssumption
<1>3. Calm(t)
  BY <1>1, <1>2 DEF Calm, Stays
<1>4. ASSUME NEW j \in Key, d[j] # dirty[j] PROVE Mapped(j) = None
  <2>1. EntryOf(j) = dirty[j]
    BY <1>1, <1>4
  <2>2. p[dirty[j]] \notin Val
    BY <1>4
  <2>3. EntryOf(j) # None => p[EntryOf(j)] \in Val \cup {None, Expunged}
    BY MappedType DEF XInv, SharedType
  <2> QED BY <2>1, <2>2, <2>3 DEF Mapped, Value
<1> QED BY <1>1, <1>3, <1>4

\* The miss that LoadOrStore and CompareAndSwap record.
LEMMA MissLin ==
    ASSUME LinInv, NEW t \in Thread, Miss(t), Observe(t)
    PROVE  Kept' /\ RemoverHolds'
<1>1. thread[t].pc = "miss" /\ MissLocked(dirty) /\ Goto(t, "ret") /\ p' = p /\ XInv
  BY DEF Miss, At, LinInv
<1>2. mu = t /\ dirty # NoMap /\ dirty \in Map /\ thread[t].op # "Range"
  BY <1>1 DEF XInv, OpInv, OpOK, Critical, HeldInv, Holds, At, SharedType
<1>3. Stays(t) /\ thread'[t].pc = "ret" /\ thread'[t].res = thread[t].res
  BY <1>1, GotoIs
<1>4. ~StaleValue(t) /\ ~StaleValue(t)' /\ thread[t].pc # "idle" /\ At(t, "miss")
  BY <1>1, <1>3, NotEntry DEF At
<1>5. Calm(t) /\ \A k \in Key : Mapped(k)' = Mapped(k)
  <2>1. mu \in {None, t} /\ thread[t].pc # "dirty"
    BY <1>1, <1>2
  <2> QED BY <1>1, <1>2, <1>3, <1>4, <2>1, CalmMaps
<1>6. \A ch : Given(ch, t) = Taken(ch, t)
  BY <1>2, <1>3, <1>4 DEF Given, Answers, Taken
<1> QED BY <1>4, <1>5, <1>6, CalmStep DEF Idles

\* Range makes the dirty map the read map.
LEMMA RangePromoteLin ==
    ASSUME LinInv, NEW t \in Thread, RangePromote(t), Observe(t)
    PROVE  Kept' /\ RemoverHolds'
<1>1. /\ thread[t].pc = "lock" /\ mu = None /\ p' = p /\ Iterate(t, read')
      /\ amended => Promoted(dirty)
      /\ ~amended => UNCHANGED shared
      /\ thread[t].op = "Range" /\ XInv
  BY DEF RangePromote, Promoted, At, Op, LinInv
<1>2. Stays(t) /\ thread'[t].pc = "iter"
  BY <1>1, IterateIs
<1>3. /\ ~Stale(t) /\ ~StaleValue(t) /\ ~Stale(t)' /\ ~StaleValue(t)' /\ ~Answers(t)
      /\ ~At(t, "miss") /\ ~At(t, "miss")' /\ thread[t].pc # "idle"
  BY <1>1, <1>2, NotEntry DEF At, Answers
<1>4. CASE ~amended
  <2>1. read' = read /\ \A k \in Key : Lookup(dirty, k)' = Lookup(dirty, k)
    BY <1>1, <1>4 DEF shared, Lookup
  <2> QED BY <1>1, <1>2, <1>3, <2>1, Unmoved
<1>5. CASE amended
  <2>1. Promoted(dirty) /\ dirty # NoMap /\ dirty \in Map /\ mu \in {None, t} /\ thread[t].pc # "dirty"
    BY <1>1, <1>5, Settled DEF XInv, SharedType
  <2>2. Calm(t) /\ \A k \in Key : Mapped(k)' = Mapped(k)
    BY <1>1, <1>2, <1>3, <2>1, CalmMaps
  <2>3. \A ch : Given(ch, t) = <<>> /\ Taken(ch, t) = <<>>
    BY <1>3, NotYet DEF Given
  <2> QED BY <1>3, <2>2, <2>3, CalmStep DEF Idles
<1> QED BY <1>4, <1>5

\* An entry was looked up with mu held, and the maps have it, or it has no value.
LEMMA FoundLin ==
    ASSUME LinInv, NEW t \in Thread, thread[t].pc = "lock", Observe(t), Calm(t),
           Op(t) \in {"Load", "CompareAndDelete", "LoadAndDelete"}, K(t) \in Key,
           \A k \in Key : Mapped(k)' = Mapped(k),
           NEW e \in Entry, Found(t, e, "entry"),
           Linked(e)' \/ (~Linked(e)' /\ p'[e] \notin Val /\ Mapped(K(t)) = None)
    PROVE  Kept' /\ RemoverHolds'
<1>1. Stays(t) /\ thread'[t].pc = "entry" /\ thread'[t].e = e
  BY FoundIs DEF LinInv
<1>2. /\ ~At(t, "entry") /\ ~At(t, "miss") /\ ~Stale(t) /\ ~At(t, "miss")' /\ ~Answers(t)
      /\ thread[t].pc # "idle" /\ At(t, "entry")'
  BY <1>1, NotEntry DEF At, Answers
<1>3. \A ch : Taken(ch, t) = <<>> /\ Given(ch, t) = Taken(ch, t)'
  BY <1>2, NotYet DEF Given
<1>4. CASE Linked(e)'
  <2>1. ~Stale(t)'
    BY <1>1, <1>4 DEF Stale, Linked
  <2>2. \A ch : Taken(ch, t)' = <<>>
    BY <1>2, <2>1, NotYet
  <2> QED BY <1>2, <1>3, <2>2, CalmStep DEF Idles
<1>5. CASE ~Linked(e)' /\ p'[e] \notin Val /\ Mapped(K(t)) = None
  <2>1. Stale(t)' /\ Op(t)' = Op(t)
    BY <1>1, <1>2, <1>5 DEF Stale, Linked, Op, Stays
  <2>2. \A ch : Taken(ch, t)' = MapOp(thread[t], None).res
    <3> TAKE ch
    <3>1. Sees(ch, t)' = None
      BY <1>1, <1>5 DEF Sees
    <3>2. MapOp(thread[t], Sees(ch, t))' = MapOp(thread[t], None)
      BY <1>1, <3>1 DEF MapOp, Stays
    <3> QED BY <1>2, <2>1, <3>2 DEF Taken
  <2>3. MapOp(thread[t], None).x = None
    BY NoneStays DEF Op, Methods
  <2>4. t \in Pending(thread)
    BY DEF Pending, Op
  <2>5. Acts(t)
    BY <1>3, <1>5, <2>2, <2>3, <2>4 DEF Acts
  <2> QED BY <1>2, <2>5, CalmStep
<1> QED BY <1>4, <1>5

\* Key k leaves the map of explanation c: those in R take effect before that and
\* change nothing, call w deletes the key, and those in S find it missing ...
MayLeave(th, c, k, w, R, S) ==
    /\ w \in Pending(th) /\ R \in SUBSET (Pending(th) \ {w})
    /\ S \in SUBSET (Pending(th) \ (R \cup {w}))
    /\ \A u \in R \cup S \cup {w} : c.ret[u] = <<>>
    /\ \A u \in R : Outcome(th, u, c).x = c.m[th[u].key]
    /\ th[w].key = k /\ MapOp(th[w], c.m[k]).x = None
    /\ \A u \in S : th[u].key = k /\ MapOp(th[u], None).x = None

\* ... after which the explanation is f.
Leaves(th, c, k, w, R, S, f) ==
    /\ \A j \in Key : f.m[j] = IF j = k THEN None ELSE c.m[j]
    /\ \A u \in R : f.ret[u] = Outcome(th, u, c).res
    /\ f.ret[w] = MapOp(th[w], c.m[k]).res
    /\ \A u \in S : f.ret[u] = MapOp(th[u], None).res
    /\ \A u \in Thread \ (R \cup S \cup {w}) : f.ret[u] = c.ret[u]

LEMMA LeavesMap ==
    ASSUME NEW th, ThreadsOK(th), NEW C \in Explained(th), Closed(th, C), NEW c \in C, NEW k \in Key,
           NEW w, NEW R, NEW S, MayLeave(th, c, k, w, R, S)
    PROVE  \E f \in C : Leaves(th, c, k, w, R, S, f)
<1> USE DEF MayLeave
<1>1. w \in Thread /\ R \subseteq Thread /\ S \subseteq Thread
  BY DEF Pending
<1>2. PICK a \in C : /\ a.m = c.m
                     /\ \A u \in Thread : a.ret[u] = IF u \in R THEN Outcome(th, u, c).res ELSE c.ret[u]
  <2>1. R \in SUBSET Pending(th)
    OBVIOUS
  <2>2. \A u \in R : c.ret[u] = <<>> /\ Outcome(th, u, c).x = c.m[th[u].key]
    OBVIOUS
  <2> QED BY <2>1, <2>2, ManyEffects
<1>3. a.ret[w] = <<>> /\ Outcome(th, w, a) = MapOp(th[w], c.m[k])
  <2>1. w \notin R /\ c.ret[w] = <<>>
    OBVIOUS
  <2> QED BY <1>1, <1>2, <2>1 DEF Outcome
<1>4. PICK b \in C : /\ b.m[k] = None
                     /\ \A j \in Key \ {k} : b.m[j] = c.m[j]
                     /\ b.ret[w] = MapOp(th[w], c.m[k]).res
                     /\ \A u \in Thread \ {w} : b.ret[u] = a.ret[u]
  <2>1. PICK b \in C : /\ b.m[th[w].key] = Outcome(th, w, a).x
                       /\ \A j \in Key \ {th[w].key} : b.m[j] = a.m[j]
                       /\ b.ret[w] = Outcome(th, w, a).res
                       /\ \A u \in Thread \ {w} : b.ret[u] = a.ret[u]
    BY <1>3, OneEffect
  <2> QED BY <1>2, <1>3, <2>1
<1>5. \A u \in S : /\ b.ret[u] = <<>> /\ Outcome(th, u, b) = MapOp(th[u], None)
                   /\ Outcome(th, u, b).x = b.m[th[u].key]
  <2> TAKE u \in S
  <2>1. u \in Thread \ {w} /\ u \notin R /\ c.ret[u] = <<>> /\ th[u].key = k
    BY <1>1
  <2>2. b.ret[u] = <<>>
    BY <1>2, <1>4, <2>1
  <2> QED BY <1>4, <2>1, <2>2 DEF Outcome
<1>6. PICK f \in C : /\ f.m = b.m
                     /\ \A u \in Thread : f.ret[u] = IF u \in S THEN Outcome(th, u, b).res ELSE b.ret[u]
  <2>1. S \in SUBSET Pending(th)
    OBVIOUS
  <2>2. \A u \in S : b.ret[u] = <<>> /\ Outcome(th, u, b).x = b.m[th[u].key]
    BY <1>5
  <2> QED BY <2>1, <2>2, ManyEffects
<1>7. \A j \in Key : f.m[j] = IF j = k THEN None ELSE c.m[j]
  BY <1>4, <1>6
<1>8. \A u \in R : f.ret[u] = Outcome(th, u, c).res
  BY <1>1, <1>2, <1>4, <1>6
<1>9. f.ret[w] = MapOp(th[w], c.m[k]).res
  BY <1>1, <1>4, <1>6
<1>10. \A u \in S : f.ret[u] = MapOp(th[u], None).res
  BY <1>1, <1>5, <1>6
<1>11. \A u \in Thread \ (R \cup S \cup {w}) : f.ret[u] = c.ret[u]
  BY <1>2, <1>4, <1>6
<1> QED BY <1>7, <1>8, <1>9, <1>10, <1>11 DEF Leaves

\* LoadAndDelete takes an entry with a value out of the dirty map.  That is when the
\* key leaves the map: the loads that are going to see the value take effect before,
\* then the call that is going to take it, then the others that have the entry.
LEMMA UnlinkLin ==
    ASSUME LinInv, ~ComparesOld, NEW t \in Thread, thread[t].pc = "lock", Op(t) = "LoadAndDelete",
           NEW k \in Key, K(t) = k, mu = None, p' = p, dirty # NoMap, read[k] = None,
           NEW e \in Entry, e = dirty[k], p[e] \in Val,
           NEW d \in Map, \A j \in Key : d[j] = IF j = k THEN None ELSE dirty[j],
           MissLocked(d), Found(t, e, "entry"), Observe(t)
    PROVE  Kept' /\ RemoverHolds'
<1>1. XInv /\ MonitorOK /\ RemoverHolds /\ Kept
  BY DEF LinInv
<1>2. /\ Stays(t) /\ thread'[t].pc = "entry" /\ thread'[t].e = e
      /\ \A u \in Thread \ {t} : thread'[u] = thread[u]
  BY <1>1, FoundIs DEF Stays
<1>3. /\ \A j \in Key : Mapped(j)' = IF d[j] = dirty[j] THEN Mapped(j) ELSE None
      /\ \A x \in Entry : Linked(x)' => \E j \in Key : x = read[j] \/ x = d[j]
      /\ \A x \in Entry : Linked(x)' => Linked(x)
      /\ \A x \in Entry : Linked(x) /\ ~Linked(x)' =>
            p[x] = Expunged \/ \E j \in Key : d[j] # dirty[j] /\ x = dirty[j]
  <2>1. \A j \in Key : d[j] = dirty[j] \/ (d[j] = None /\ read[j] = None)
    OBVIOUS
  <2>2. mu \in {None, t} /\ thread[t].pc # "dirty"
    OBVIOUS
  <2> QED BY <1>1, <2>1, <2>2, MapsAfter
<1>4. /\ \A j \in Key : Lookup(dirty, j) = dirty[j]
      /\ e # None /\ p[e] # None /\ p[e] # Expunged
  BY <1>1, Entries, MapAssumption
<1>5. Linked(e) /\ EntryOf(k) = e /\ Mapped(k) = p[e]
  BY <1>4 DEF Linked, EntryOf, Mapped, Value
<1>6. \A j \in Key : Mapped(j)' = IF j = k THEN None ELSE Mapped(j)
  BY <1>3, <1>4
<1>7. ~Linked(e)'
  <2> SUFFICES ASSUME NEW j \in Key, e = read[j] \/ e = d[j] PROVE FALSE
    BY <1>3
  <2>1. e \in {Lookup(dirty, j), read[j]}
    BY <1>4
  <2>2. k = j
    BY <1>1, <1>4, <2>1 DEF XInv, OneKey
  <2> QED BY <1>4, <2>2
<1>8. \A x \in Entry : Linked(x) /\ ~Linked(x)' => p[x] = Expunged \/ x = e
  BY <1>3
<1>9. /\ ~At(t, "entry") /\ ~At(t, "miss") /\ At(t, "entry")' /\ ~At(t, "miss")' /\ ~Answers(t)
      /\ ~Stale(t) /\ Stale(t)' /\ ~StaleValue(t) /\ StaleValue(t)'
  <2>1. /\ ~At(t, "entry") /\ ~At(t, "miss") /\ At(t, "entry")' /\ ~At(t, "miss")' /\ ~Answers(t)
    BY <1>2 DEF At, Answers
  <2>2. Stale(t)'
    BY <1>2, <1>7, <2>1 DEF Stale, Linked
  <2>3. StaleValue(t)'
    BY <1>2, <2>2 DEF StaleValue
  <2> QED BY <2>1, <2>2, <2>3, NotEntry
<1>10. \A x : /\ \A u \in Thread \ {t} : HasEntry(u, x)' <=> HasEntry(u, x)
              /\ HasEntry(t, x)' <=> x = e
              /\ ~HasEntry(t, x)
  BY <1>2, <1>9 DEF HasEntry, At
<1>11. ASSUME NEW u \in Thread \ {t}
       PROVE  /\ StaleValue(u) => StaleValue(u)' /\ thread[u].e # e
              /\ StaleValue(u)' => StaleValue(u) \/ thread[u].e = e
  <2>1. CASE At(u, "entry")
    <3> SUFFICES ASSUME NEW x \in Entry, x = thread[u].e
                 PROVE  /\ StaleValue(u) => StaleValue(u)' /\ x # e
                        /\ StaleValue(u)' => StaleValue(u) \/ x = e
      BY <1>1, <2>1, HolderIs
    <3>1. StaleValue(u) <=> ~Linked(x) /\ p[x] \in Val
      BY <2>1 DEF StaleValue, Stale
    <3>2. StaleValue(u)' <=> ~Linked(x)' /\ p[x] \in Val
      BY <1>2, <2>1 DEF StaleValue, Stale, At, Linked
    <3> QED BY <1>3, <1>5, <1>8, <3>1, <3>2, MapAssumption
  <2>2. CASE ~At(u, "entry")
    BY <1>2, <2>2 DEF StaleValue, Stale, At
  <2> QED BY <2>1, <2>2
<1>12. RemoverHolds'
  <2> SUFFICES ASSUME NEW u \in Thread, StaleValue(u)', NEW x, x = thread'[u].e
               PROVE  \E w \in Thread : HasEntry(w, x)' /\ Op(w)' = "LoadAndDelete"
    BY DEF RemoverHolds, HasEntry
  <2>1. CASE x = e
    BY <1>2, <1>10, <2>1 DEF Op, Stays
  <2>2. CASE x # e
    <3>1. u # t /\ StaleValue(u) /\ x = thread[u].e
      BY <1>2, <1>11, <2>2
    <3>2. PICK w \in Thread : HasEntry(w, x) /\ Op(w) = "LoadAndDelete"
      BY <1>1, <3>1 DEF RemoverHolds
    <3>3. w # t
      BY <1>10, <3>2
    <3> QED BY <1>2, <1>10, <3>2, <3>3 DEF Op
  <2> QED BY <2>1, <2>2
<1>13. ASSUME NEW ch \in SUBSET Thread, Plausible(ch)'
       PROVE  \E c \in lin' : Explains(ch, c)'
  <2>1. PICK w \in Thread :
           /\ w \in ch /\ HasEntry(w, e)' /\ Op(w) \in Deleters
           /\ \A u \in ch : HasEntry(u, e)' /\ Op(u) \in Deleters => u = w
    <3>1. PICK w \in Thread : Took(ch, w, thread[t].e)'
      BY <1>9, <1>13 DEF Plausible
    <3>2. \A u \in Thread : Op(u)' = Op(u)
      BY <1>2 DEF Op, Stays
    <3>3. /\ w \in ch /\ HasEntry(w, e)' /\ Op(w)' \in Deleters
          /\ \A u \in ch : HasEntry(u, e)' /\ Op(u)' \in Deleters => u = w
      BY <1>2, <3>1 DEF Took, HasEntry
    <3> QED BY <3>2, <3>3
  <2>2. Plausible(ch)
    <3> SUFFICES ASSUME NEW u \in Thread, StaleValue(u), NEW x, x = thread[u].e
                 PROVE  \E v \in Thread : Took(ch, v, x)
      BY DEF Plausible
    <3>1. u # t /\ StaleValue(u)' /\ x # e /\ thread'[u].e = x
      BY <1>2, <1>9, <1>11
    <3>2. PICK v \in Thread : Took(ch, v, thread[u].e)'
      BY <1>13, <3>1 DEF Plausible
    <3>3. /\ v \in ch /\ HasEntry(v, x)' /\ Op(v)' \in Deleters
          /\ \A y \in ch : HasEntry(y, x)' /\ Op(y)' \in Deleters => y = v
      BY <3>1, <3>2 DEF Took, HasEntry
    <3>4. v # t
      BY <1>10, <3>1, <3>3
    <3>5. HasEntry(v, x) /\ Op(v) \in Deleters
      BY <1>2, <1>10, <3>3, <3>4 DEF Op
    <3>6. ASSUME NEW y \in ch, HasEntry(y, x), Op(y) \in Deleters PROVE y = v
      <4>1. y # t
        BY <1>10, <3>6
      <4> QED BY <1>2, <1>10, <3>3, <3>6, <4>1 DEF Op
    <3> QED BY <3>3, <3>5, <3>6 DEF Took
  <2>3. PICK c \in lin : Explains(ch, c)
    BY <1>1, <2>2 DEF Kept
  <2>4. c.m[k] = p[e] /\ \A j \in Key : c.m[j] = Mapped(j)
    BY <1>5, <2>3 DEF Explains
  <2> DEFINE N == {u \in Thread \ {t} : /\ At(u, "entry") /\ ~Stale(u) /\ Stale(u)'
                                        /\ Op(u) \notin {"Swap", "LoadOrStore"}}
             E == {t} \cup {u \in N : thread[u].e = e}
             R == {u \in N : thread[u].e # e} \cup {u \in E : Op(u) = "Load" /\ u \in ch}
             S == E \ (R \cup {w})
  <2>5. ASSUME NEW u \in N, thread[u].e # e
        PROVE  /\ u \in Pending(thread) /\ c.ret[u] = <<>>
               /\ Outcome(thread, u, c).x = c.m[thread[u].key]
               /\ Taken(ch, u)' = Outcome(thread, u, c).res
    <3>1. /\ u \in Thread /\ u # t /\ At(u, "entry") /\ ~Stale(u) /\ Stale(u)'
          /\ Op(u) \notin {"Swap", "LoadOrStore"}
      OBVIOUS
    <3> HIDE DEF N
    <3> SUFFICES ASSUME NEW x \in Entry, x = thread[u].e, x # e
                 PROVE  /\ u \in Pending(thread) /\ c.ret[u] = <<>>
                        /\ Outcome(thread, u, c).x = c.m[thread[u].key]
                        /\ Taken(ch, u)' = Outcome(thread, u, c).res
      BY <1>1, <2>5, <3>1, HolderIs
    <3>2. Linked(x) /\ ~Linked(x)' /\ thread'[u] = thread[u]
      BY <1>2, <3>1 DEF Stale, Linked
    <3>3. p[x] = Expunged
      BY <1>8, <3>2
    <3>4. /\ K(u) \in Key /\ u \in Pending(thread)
          /\ Op(u) \in Methods \ {"Range"} /\ EntryOf(K(u)) = x
      BY <1>1, <3>1, <3>2, HolderIs
    <3>5. c.m[thread[u].key] = None
      BY <2>4, <3>3, <3>4 DEF Mapped, Value, K
    <3>6. Outcome(thread, u, c) = MapOp(thread[u], None) /\ MapOp(thread[u], None).x = None
      BY <3>1, <3>4, <3>5, NoneStays DEF Outcome, Op
    <3>7. c.ret[u] = <<>>
      BY <2>3, <3>1 DEF Explains, Taken, At
    <3>8. Sees(ch, u)' = None
      BY <3>2, <3>3, MapAssumption DEF Sees
    <3>9. Taken(ch, u)' = MapOp(thread[u], None).res
      BY <3>1, <3>2, <3>8 DEF Taken, At, Op
    <3> QED BY <3>4, <3>5, <3>6, <3>7, <3>9
  <2>6. ASSUME NEW u \in E
        PROVE  /\ u \in Pending(thread) /\ c.ret[u] = <<>> /\ thread[u].key = k
               /\ Op(u) \in {"Load"} \cup Deleters /\ HasEntry(u, e)'
               /\ Taken(ch, u)' = IF u \in ch THEN MapOp(thread[u], p[e]).res
                                              ELSE MapOp(thread[u], None).res
    <3>1. /\ u \in Pending(thread) /\ c.ret[u] = <<>> /\ thread[u].key = k
          /\ Op(u) \in {"Load"} \cup Deleters /\ HasEntry(u, e)' /\ Stale(u)' /\ ~At(u, "miss")'
      <4>1. CASE u = t
        <5>1. Taken(ch, t) = <<>>
          BY <1>9, NotYet
        <5> QED BY <1>9, <1>10, <2>3, <4>1, <5>1 DEF Pending, Op, K, Deleters, Explains
      <4>2. CASE u # t
        <5>1. /\ u \in Thread /\ At(u, "entry") /\ Stale(u)'
              /\ Op(u) \notin {"Swap", "LoadOrStore"} /\ thread[u].e = e
          BY <4>2
        <5> HIDE DEF E, N
        <5>2. thread'[u] = thread[u]
          BY <1>2, <4>2, <5>1
        <5>3. K(u) \in Key /\ u \in Pending(thread) /\ Op(u) \in Methods \ {"Range"}
          BY <1>1, <5>1, HolderIs
        <5>4. K(u) = k
          BY <1>1, <1>4, <5>1 DEF XInv, MyKey, K
        <5>5. Op(u) \notin Stores
          BY <1>1, <1>4, <5>1, <5>4 DEF XInv, Reaches
        <5>6. Op(u) \in {"Load"} \cup Deleters
          BY <5>3, <5>5 DEF Stores, Deleters, Methods
        <5>7. HasEntry(u, e)' /\ ~At(u, "miss")'
          BY <5>1, <5>2 DEF HasEntry, At
        <5>8. c.ret[u] = <<>>
          BY <1>5, <2>3, <5>1 DEF Explains, Taken, At, Stale
        <5> QED BY <5>1, <5>3, <5>4, <5>6, <5>7, <5>8 DEF K
      <4> QED BY <4>1, <4>2
    <3> HIDE DEF E, N
    <3>2. u \in Thread
      BY <3>1 DEF Pending
    <3>3. /\ Op(u)' = Op(u) /\ thread'[u].op = thread[u].op
          /\ thread'[u].val = thread[u].val /\ thread'[u].old = thread[u].old
      BY <1>2, <3>2 DEF Op, Stays
    <3>4. Sees(ch, u)' = IF u \in ch THEN p[e] ELSE None
      BY <3>1 DEF Sees, HasEntry
    <3>5. MapOp(thread[u], Sees(ch, u))' = MapOp(thread[u], IF u \in ch THEN p[e] ELSE None)
      BY <3>3, <3>4 DEF MapOp
    <3>6. Taken(ch, u)' = MapOp(thread[u], Sees(ch, u))'.res
      BY <3>1, <3>3 DEF Taken, Deleters
    <3> QED BY <3>1, <3>5, <3>6
  <2>7. w \in E /\ w \notin R
    <3>1. CASE w = t
      BY <1>2, <2>1, <3>1 DEF Deleters
    <3>2. CASE w # t
      <4>1. HasEntry(w, e) /\ thread'[w] = thread[w]
        BY <1>2, <1>10, <2>1, <3>2
      <4>2. At(w, "entry") /\ thread[w].e = e /\ ~Stale(w)
        BY <1>5, <4>1 DEF HasEntry, Stale
      <4>3. Stale(w)'
        BY <1>7, <4>1, <4>2 DEF Stale, At, Linked
      <4>4. Op(w) \notin {"Swap", "LoadOrStore"} /\ Op(w) # "Load"
        BY <2>1 DEF Deleters
      <4> QED BY <3>2, <4>2, <4>3, <4>4
    <3> QED BY <3>1, <3>2
  <2>8. ASSUME NEW u \in R
        PROVE  /\ u \in Pending(thread) /\ c.ret[u] = <<>>
               /\ Outcome(thread, u, c).x = c.m[thread[u].key]
               /\ Taken(ch, u)' = Outcome(thread, u, c).res
    <3>1. CASE u \in N /\ thread[u].e # e
      BY <2>5, <3>1
    <3>2. CASE u \in E /\ Op(u) = "Load" /\ u \in ch
      <4>1. /\ u \in Pending(thread) /\ c.ret[u] = <<>> /\ thread[u].key = k
            /\ Taken(ch, u)' = MapOp(thread[u], p[e]).res
        BY <2>6, <3>2
      <4>2. Outcome(thread, u, c) = MapOp(thread[u], p[e])
        BY <2>4, <4>1 DEF Outcome
      <4>3. MapOp(thread[u], p[e]).x = p[e]
        BY <3>2 DEF MapOp, Op
      <4> QED BY <2>4, <4>1, <4>2, <4>3
    <3> HIDE DEF N, E
    <3> QED BY <3>1, <3>2
  <2>9. ASSUME NEW u \in S
        PROVE  /\ u \in Pending(thread) /\ c.ret[u] = <<>> /\ thread[u].key = k
               /\ MapOp(thread[u], None).x = None /\ u \notin R /\ u # w
               /\ Taken(ch, u)' = MapOp(thread[u], None).res
    <3>1. u \in E /\ u \notin R /\ u # w
      OBVIOUS
    <3>2. /\ u \in Pending(thread) /\ c.ret[u] = <<>> /\ thread[u].key = k
          /\ Op(u) \in {"Load"} \cup Deleters /\ HasEntry(u, e)'
          /\ Taken(ch, u)' = IF u \in ch THEN MapOp(thread[u], p[e]).res
                                         ELSE MapOp(thread[u], None).res
      BY <2>6, <3>1
    <3>3. u \notin ch
      <4>1. Op(u) = "Load" => u \notin ch
        BY <3>1
      <4> HIDE DEF N, E, R, S
      <4> QED BY <2>1, <3>1, <3>2, <4>1
    <3>4. MapOp(thread[u], None).x = None
      BY <3>2, NoneStays DEF Op, Deleters, Methods
    <3> HIDE DEF N, E, R, S
    <3> QED BY <3>1, <3>2, <3>3, <3>4
  <2>10. ASSUME NEW u \in Thread \ {t}, u \notin N PROVE Taken(ch, u)' = Taken(ch, u)
    <3>1. thread'[u] = thread[u]
      BY <1>2
    <3>2. CASE ~At(u, "entry")
      BY <3>1, <3>2 DEF Taken, Stale, At
    <3>3. CASE Op(u) \in {"Swap", "LoadOrStore"}
      BY <3>1, <3>3 DEF Taken, At, Op
    <3>4. CASE At(u, "entry") /\ Op(u) \notin {"Swap", "LoadOrStore"}
      <4>1. Stale(u) => Stale(u)'
        <5>1. thread[u].e \in Entry
          BY <1>1, <3>4, HolderIs
        <5> QED BY <1>3, <3>1, <3>4, <5>1 DEF Stale, At, Linked
      <4>2. Stale(u)' => Stale(u)
        BY <2>10, <3>4
      <4>3. Sees(ch, u)' = Sees(ch, u)
        BY <3>1 DEF Sees
      <4>4. MapOp(thread[u], Sees(ch, u))' = MapOp(thread[u], Sees(ch, u))
        BY <3>1, <4>3 DEF MapOp
      <4> QED BY <3>1, <3>4, <4>1, <4>2, <4>4 DEF Taken, At, Op
    <3> QED BY <3>2, <3>3, <3>4
  <2>11. \A u \in Thread \ {t} : u \in N => u \in R \cup S \cup {w}
    OBVIOUS
  <2>12. t \in S \cup {w}
    BY <1>9
  <2> HIDE DEF N, E, R, S
  <2>13. MapOp(thread[w], p[e]).x = None
    BY <1>4, <2>1 DEF MapOp, Op, Deleters
  <2>14. Taken(ch, w)' = MapOp(thread[w], p[e]).res /\ thread[w].key = k /\ w \in Pending(thread)
         /\ c.ret[w] = <<>>
    BY <2>1, <2>6, <2>7
  <2>15. PICK f \in lin :
           /\ \A j \in Key : f.m[j] = IF j = k THEN None ELSE c.m[j]
           /\ \A u \in R : f.ret[u] = Outcome(thread, u, c).res
           /\ f.ret[w] = MapOp(thread[w], c.m[k]).res
           /\ \A u \in S : f.ret[u] = MapOp(thread[u], None).res
           /\ \A u \in Thread \ (R \cup S \cup {w}) : f.ret[u] = c.ret[u]
    <3>1. /\ ThreadsOK(thread) /\ lin \in Explained(thread) /\ Closed(thread, lin)
      BY <1>1, XThreads DEF MonitorOK
    <3>2. R \in SUBSET (Pending(thread) \ {w}) /\ S \in SUBSET (Pending(thread) \ (R \cup {w}))
      BY <2>7, <2>8, <2>9
    <3>3. \A u \in R \cup S \cup {w} : c.ret[u] = <<>>
      BY <2>8, <2>9, <2>14
    <3>4. \A u \in R : Outcome(thread, u, c).x = c.m[thread[u].key]
      BY <2>8
    <3>5. \A u \in S : thread[u].key = k /\ MapOp(thread[u], None).x = None
      BY <2>9
    <3>6. MapOp(thread[w], c.m[k]).x = None
      BY <2>4, <2>13
    <3>7. k \in Key /\ thread[w].key = k /\ w \in Pending(thread) /\ c \in lin
      BY <2>14
    <3>8. MayLeave(thread, c, k, w, R, S)
      BY <3>2, <3>3, <3>4, <3>5, <3>6, <3>7 DEF MayLeave
    <3>9. PICK f \in lin : Leaves(thread, c, k, w, R, S, f)
      BY <3>1, <3>7, <3>8, LeavesMap
    <3> QED BY <3>9 DEF Leaves
  <2>16. \A j \in Key : f.m[j] = Mapped(j)'
    BY <1>6, <2>4, <2>15
  <2>17. ASSUME NEW u \in Thread PROVE u # t \/ u \in R \cup S \cup {w} => f.ret[u] = Taken(ch, u)'
    <3>1. CASE u \in R
      BY <2>8, <2>15, <3>1
    <3>2. CASE u = w
      BY <2>4, <2>14, <2>15, <3>2
    <3>3. CASE u \in S
      BY <2>9, <2>15, <3>3
    <3>4. CASE u \notin R \cup S \cup {w} /\ u # t
      <4>1. Taken(ch, u)' = Taken(ch, u)
        BY <2>10, <2>11, <3>4
      <4>2. c.ret[u] = Taken(ch, u)
        BY <2>3 DEF Explains
      <4> QED BY <2>15, <3>4, <4>1, <4>2
    <3> QED BY <3>1, <3>2, <3>3, <3>4
  <2>18. f.ret[t] = Given(ch, t)
    BY <1>9, <2>12, <2>17 DEF Given
  <2>19. thread[t].pc \notin {"idle"}
    OBVIOUS
  <2> QED BY <1>1, <2>16, <2>17, <2>18, <2>19, Arrives
<1> QED BY <1>12, <1>13 DEF Kept

\* The lookups with mu held of a method that stores nothing.
LEMMA LookupLin ==
    ASSUME LinInv, ~ComparesOld, NEW t \in Thread, LookupLocked(t) \/ DeleteLocked(t), Observe(t)
    PROVE  Kept' /\ RemoverHolds'
<1> SUFFICES ASSUME NEW k, k = K(t), NEW e, e = EntryLocked(k) PROVE Kept' /\ RemoverHolds'
  OBVIOUS
<1>1. /\ thread[t].pc = "lock" /\ Op(t) \in {"Load", "CompareAndDelete", "LoadAndDelete"}
      /\ mu = None /\ p' = p /\ Proceed(t, e) /\ XInv
      /\ \/ /\ IsMiss(k) /\ \/ MissLocked(dirty)
                            \/ Op(t) = "LoadAndDelete" /\ MissLocked([dirty EXCEPT ![k] = None])
         \/ ~IsMiss(k) /\ UNCHANGED shared
  BY DEF LookupLocked, DeleteLocked, At, LinInv
<1>2. k \in Key /\ t \in Pending(thread)
  BY <1>1 DEF XInv, OpInv, OpOK, K, Op, Pending
<1>3. amended = (dirty # NoMap)
  BY <1>1, Settled
<1>4. e = (IF IsMiss(k) THEN dirty[k] ELSE read[k]) /\ e \in Entry \cup {None}
  BY <1>1, <1>2, <1>3, Entries DEF EntryLocked, IsMiss, Lookup
<1>5. CASE e # None
  <2>1. e \in Entry /\ Found(t, e, "entry")
    BY <1>1, <1>4, <1>5 DEF Proceed
  <2>2. Stays(t) /\ thread'[t].pc = "entry" /\ thread'[t].e = e
    BY <1>1, <2>1, FoundIs
  <2>3. ~At(t, "entry") /\ ~StaleValue(t) /\ (Linked(e)' \/ p[e] \notin Val => ~StaleValue(t)')
    BY <1>1, <2>2 DEF At, Stale, StaleValue, Linked
  <2>4. CASE ~IsMiss(k)
    <3>1. /\ read' = read /\ dirty' = dirty
          /\ \A j \in Key : Lookup(dirty, j)' = Lookup(dirty, j)
      BY <1>1, <2>4 DEF shared, Lookup
    <3>2. Linked(e)'
      BY <1>2, <1>4, <2>4, <3>1 DEF Linked
    <3>3. Calm(t) /\ \A j \in Key : Mapped(j)' = Mapped(j)
      BY <1>1, <2>2, <2>3, <3>1, <3>2, SameMaps
    <3> QED BY <1>1, <1>2, <2>1, <3>2, <3>3, FoundLin
  <2>5. CASE IsMiss(k)
    <3>1. /\ dirty # NoMap /\ dirty \in Map /\ read[k] = None /\ e = dirty[k]
          /\ mu \in {None, t} /\ thread[t].pc # "dirty"
      BY <1>1, <1>3, <1>4, <2>5 DEF IsMiss, XInv, SharedType
    <3>2. CASE MissLocked(dirty)
      <4>1. Linked(e)'
        BY <1>1, <1>2, <1>5, <3>1, <3>2, MapsAfter
      <4>2. Calm(t) /\ \A j \in Key : Mapped(j)' = Mapped(j)
        BY <1>1, <2>2, <2>3, <3>1, <3>2, <4>1, CalmMaps
      <4> QED BY <1>1, <1>2, <2>1, <4>1, <4>2, FoundLin
    <3>3. CASE Op(t) = "LoadAndDelete" /\ MissLocked([dirty EXCEPT ![k] = None])
      <4>1. PICK d \in Map : MissLocked(d) /\ \A j \in Key : d[j] = IF j = k THEN None ELSE dirty[j]
        <5> DEFINE d == [dirty EXCEPT ![k] = None]
        <5>1. d \in Map /\ \A j \in Key : d[j] = IF j = k THEN None ELSE dirty[j]
          BY <1>2, <3>1 DEF Map
        <5> QED BY <3>3, <5>1
      <4>2. \A j \in Key : d[j] = dirty[j] \/ (d[j] = None /\ read[j] = None)
        BY <3>1, <4>1
      <4>3. CASE p[e] \notin Val
        <5>1. \A j \in Key : d[j] # dirty[j] => p[dirty[j]] \notin Val
          BY <3>1, <4>1, <4>3
        <5>2. Calm(t) /\ \A j \in Key : Mapped(j)' = Mapped(j)
          BY <1>1, <2>2, <2>3, <3>1, <4>1, <4>2, <4>3, <5>1, CalmMaps
        <5>3. Mapped(k) = None /\ p'[e] \notin Val
          <6>1. EntryOf(k) = e
            BY <1>1, <1>2, <3>1, Entries DEF EntryOf
          <6>2. p[e] \in Val \cup {None, Expunged}
            BY <1>1, <2>1 DEF XInv, SharedType
          <6> QED BY <1>1, <4>3, <6>1, <6>2 DEF Mapped, Value
        <5> QED BY <1>1, <1>2, <2>1, <5>2, <5>3, FoundLin
      <4>4. CASE p[e] \in Val
        BY <1>1, <1>2, <2>1, <3>1, <3>3, <4>1, <4>4, UnlinkLin
      <4> QED BY <4>3, <4>4
    <3> QED BY <1>1, <2>5, <3>2, <3>3
  <2> QED BY <2>4, <2>5
<1>6. CASE e = None
  <2>1. Ret(t, NotFound(t))
    BY <1>1, <1>6 DEF Proceed
  <2>2. Mapped(k) = None
    <3>1. read[k] = None /\ Lookup(dirty, k) = None
      <4>1. CASE IsMiss(k)
        BY <1>1, <1>2, <1>3, <1>4, <1>6, <4>1, Entries DEF IsMiss
      <4>2. CASE ~IsMiss(k)
        BY <1>2, <1>4, <1>6, <4>2 DEF IsMiss, LinInv, DirtyAmends
      <4> QED BY <4>1, <4>2
    <3> QED BY <3>1 DEF Mapped, EntryOf
  <2>3. Op(t) \in {"Load", "LoadAndDelete", "CompareAndSwap", "CompareAndDelete"}
    BY <1>1
  <2>4. CASE ~IsMiss(k)
    <3>1. read' = read /\ \A j \in Key : Lookup(dirty, j)' = Lookup(dirty, j)
      BY <1>1, <2>4 DEF shared, Lookup
    <3> QED BY <1>1, <2>1, <2>2, <2>3, <3>1, UnmovedNotFound
  <2>5. CASE IsMiss(k)
    <3>1. /\ dirty # NoMap /\ dirty \in Map /\ read[k] = None /\ dirty[k] = None
          /\ mu \in {None, t} /\ thread[t].pc # "dirty"
      BY <1>1, <1>3, <1>4, <1>6, <2>5 DEF IsMiss, XInv, SharedType
    <3>2. MissLocked(dirty)
      <4>1. [dirty EXCEPT ![k] = None] = dirty
        BY <1>2, <3>1 DEF Map
      <4> QED BY <1>1, <2>5, <4>1
    <3>3. Stays(t) /\ thread'[t].pc = "ret"
      BY <1>1, <2>1, RetIs
    <3>4. /\ ~At(t, "miss") /\ ~Stale(t) /\ ~StaleValue(t) /\ ~StaleValue(t)'
          /\ thread[t].pc # "idle"
      BY <1>1, <3>3, NotEntry DEF At
    <3>5. Calm(t) /\ \A j \in Key : Mapped(j)' = Mapped(j)
      BY <1>1, <3>1, <3>2, <3>3, <3>4, CalmMaps
    <3>6. \A ch : Taken(ch, t) = <<>>
      BY <3>4, NotYet
    <3>7. Acts(t)
      BY <1>1, <1>2, <2>1, <2>2, <2>3, <3>5, <3>6, NotFoundActs
    <3> QED BY <3>4, <3>5, <3>7, CalmStep
  <2> QED BY <2>4, <2>5
<1> QED BY <1>5, <1>6


-----------------------------------------------------------------------------
(* The steps together *)

\* Every step of a call leaves the monitor's explanations closed.
LEMMA MonitorStep ==
    ASSUME LinInv, XInv', NEW t \in Thread, Step(t), Observe(t)
    PROVE  MonitorOK'
<1>1. SameCall(t) /\ XInv /\ MonitorOK /\ thread[t].pc # "idle"
  BY StepStays DEF LinInv, SameCall
<1>2. CASE thread'[t].pc = "ret" /\ thread[t].op # "Range"
  <2>1. lin' = {[c EXCEPT !.ret[t] = <<>>] : c \in {d \in lin : d.ret[t] = thread'[t].res}}
    BY <1>1, <1>2 DEF Observe, At, Op
  <2> QED BY <1>1, <1>2, <2>1, MonitorReturns
<1>3. CASE thread'[t].pc # "ret" \/ thread[t].op = "Range"
  <2>1. lin' = lin
    BY <1>1, <1>3 DEF Observe, At, Op
  <2> QED BY <1>1, <1>3, <2>1, MonitorGoesOn
<1> QED BY <1>2, <1>3

\* The dirty map has a key that the read map does not have only while amended is set.
LEMMA DirtyAmendsStep ==
    ASSUME XInv, DirtyAmends, NEW t \in Thread, Call(t) \/ Step(t) \/ Return(t)
    PROVE  DirtyAmends'
<1>1. ASSUME UNCHANGED shared PROVE DirtyAmends'
  BY <1>1 DEF shared, DirtyAmends, Lookup
<1>2. ASSUME dirty' = NoMap PROVE DirtyAmends'
  BY <1>2 DEF DirtyAmends, Lookup
<1>3. ASSUME NEW d, MissLocked(d), amended \/ d = dirty PROVE DirtyAmends'
  <2>1. \/ dirty' = NoMap
        \/ UNCHANGED <<read, amended>> /\ dirty' = d
    <3>1. CASE misses + 1 < Len(d)
      BY <1>3, <3>1 DEF MissLocked
    <3>2. CASE ~(misses + 1 < Len(d))
      BY <1>3, <3>2, Zenon DEF MissLocked
    <3> QED BY <3>1, <3>2
  <2> QED BY <1>2, <1>3, <2>1 DEF DirtyAmends, Lookup
<1>4. CASE \/ Call(t) \/ Return(t) \/ ReadMap(t) \/ OnEntry(t) \/ OnEntryLocked(t)
           \/ RangeRead(t) \/ RangeVisit(t) \/ RangeEnd(t)
  BY <1>1, <1>4, Zenon DEF Call, Return, ReadMap, OnEntry, OnEntryLocked, RangeRead, RangeVisit, RangeEnd
<1>5. CASE LookupLocked(t) \/ DeleteLocked(t) \/ Miss(t)
  <2>1. \/ UNCHANGED shared
        \/ MissLocked(dirty)
        \/ amended /\ MissLocked([dirty EXCEPT ![K(t)] = None])
    BY <1>5 DEF LookupLocked, DeleteLocked, Miss, IsMiss
  <2> QED BY <1>1, <1>3, <2>1
<1>6. CASE RangePromote(t)
  BY <1>1, <1>2, <1>6 DEF RangePromote
<1>7. CASE Lock(t)
  <2>1. /\ UNCHANGED <<read, amended>>
        /\ dirty' = dirty \/ dirty' = [j \in Key |-> None]
    BY <1>7 DEF Lock
  <2> QED BY <2>1 DEF DirtyAmends, Lookup
<1>8. ASSUME NEW k, NEW x, dirty' = dirty \/ dirty' = [dirty EXCEPT ![k] = x],
             read[k] # None, UNCHANGED <<read, amended>>, dirty \in Map
      PROVE  DirtyAmends'
  <2> SUFFICES ASSUME ~amended, NEW j \in Key, read[j] = None PROVE Lookup(dirty, j)' = None
    BY <1>8 DEF DirtyAmends
  <2>1. j # k /\ Lookup(dirty, j) = None
    BY <1>8 DEF DirtyAmends
  <2>2. dirty[j] = None /\ dirty # NoMap
    BY <1>8, <2>1, MapAssumption DEF Lookup, Map
  <2>3. dirty'[j] = None
    BY <1>8, <2>1, <2>2 DEF Map
  <2> QED BY <2>3 DEF Lookup
<1>9. CASE UnexpungeLocked(t)
  <2>1. CASE p[thread[t].e] # Expunged
    <3>1. UNCHANGED shared
      BY <1>9, <2>1 DEF UnexpungeLocked, shared
    <3> QED BY <1>1, <3>1
  <2>2. CASE p[thread[t].e] = Expunged
    <3>1. Holds(t) /\ At(t, "unexpunge") /\ thread[t] \in Local /\ OpOK(thread[t])
      BY <1>9 DEF UnexpungeLocked, XInv, HeldInv, OpInv, ThreadType
    <3>2. thread[t].e = read[K(t)] /\ read[K(t)] # None /\ K(t) \in Key
      BY <3>1 DEF Holds, OpOK, WithEntry, Critical, At, K
    <3>3. EntryState(K(t)) \/ ToCopy(K(t))
      BY <3>2 DEF XInv, MapInv
    <3>4. ~ToCopy(K(t))
      <4>1. mu = t
        BY <3>1 DEF XInv, OpInv, At, Critical
      <4> QED BY <3>1, <4>1, Alone DEF ToCopy, At, Critical
    <3>5. dirty \in Map
      BY <2>2, <3>2, <3>3, <3>4 DEF EntryState, XInv, SharedType
    <3>6. dirty' = [dirty EXCEPT ![K(t)] = thread[t].e] /\ UNCHANGED <<read, amended>>
      BY <1>9, <2>2 DEF UnexpungeLocked
    <3> QED BY <1>8, <3>2, <3>5, <3>6
  <2> QED BY <2>1, <2>2
<1>10. CASE DirtyLocked(t)
  <2>1. PICK k \in thread[t].todo : dirty' = dirty \/ dirty' = [dirty EXCEPT ![k] = read[k]]
    BY <1>10 DEF DirtyLocked
  <2>2. Holds(t) /\ At(t, "dirty")
    BY <1>10 DEF DirtyLocked, XInv, HeldInv
  <2>3. read[k] # None /\ dirty \in Map
    BY <2>1, <2>2 DEF Holds, At, XInv, SharedType
  <2>4. UNCHANGED <<read, amended>>
    BY <1>10 DEF DirtyLocked
  <2> QED BY <1>8, <2>1, <2>3, <2>4
<1>11. CASE Insert(t)
  BY <1>11 DEF Insert, DirtyAmends
<1> QED BY <1>4, <1>5, <1>6, <1>7, <1>9, <1>10, <1>11 DEF Step

LEMMA LinStep ==
    ASSUME LinInv, ~ComparesOld, [LinNext]_linVars
    PROVE  LinInv'
<1>1. CASE UNCHANGED linVars
  <2>1. UNCHANGED <<read, amended, dirty, misses, mu, p, thread, lin>>
    BY <1>1 DEF linVars, vars, shared
  <2>2. XInv'
    BY <1>1, XStep DEF LinInv, linVars
  <2>3. DirtyAmends' /\ MonitorOK'
    <3>1. DirtyAmends'
      BY <2>1 DEF LinInv, DirtyAmends, Lookup
    <3>2. Explained(thread)' = Explained(thread) /\ Closed(thread, lin)' = Closed(thread, lin)
      BY <2>1
    <3> QED BY <2>1, <3>1, <3>2 DEF LinInv, MonitorOK
  <2>4. /\ \A t \in Thread : StaleValue(t)' = StaleValue(t)
        /\ \A t, e : HasEntry(t, e)' = HasEntry(t, e)
    BY <2>1 DEF StaleValue, Stale, HasEntry, At, Linked, Lookup
  <2>5. RemoverHolds'
    BY <2>1, <2>4 DEF RemoverHolds, LinInv, Op
  <2>6. Kept'
    <3>1. \A k \in Key : Mapped(k)' = Mapped(k)
      BY <2>1 DEF Mapped, EntryOf, Lookup
    <3>2. \A ch, t : Taken(ch, t)' = Taken(ch, t)
      BY <2>1 DEF Taken, At, Op, Stale, Linked, Lookup, Sees
    <3>3. \A ch, c : Explains(ch, c)' = Explains(ch, c)
      BY <3>1, <3>2 DEF Explains
    <3>4. \A ch, w, e : Took(ch, w, e)' = Took(ch, w, e)
      BY <2>1, <2>4 DEF Took, Op
    <3>5. \A ch : Plausible(ch)' = Plausible(ch)
      BY <2>1, <2>4, <3>4 DEF Plausible
    <3> QED BY <2>1, <3>3, <3>5 DEF LinInv, Kept
  <2> QED BY <2>2, <2>3, <2>5, <2>6 DEF LinInv
<1>2. CASE LinNext
  <2>1. PICK t \in Thread : (Call(t) \/ Step(t) \/ Return(t)) /\ Observe(t)
    BY <1>2 DEF LinNext
  <2>2. XInv'
    BY <2>1, XStep DEF LinInv, Next
  <2>3. DirtyAmends'
    BY <2>1, DirtyAmendsStep DEF LinInv
  <2>4. CASE Call(t)
    BY <2>1, <2>2, <2>3, <2>4, CallLin DEF LinInv
  <2>5. CASE Return(t)
    BY <2>1, <2>2, <2>3, <2>5, ReturnLin DEF LinInv
  <2>6. CASE Step(t)
    <3>1. MonitorOK'
      BY <2>1, <2>2, <2>6, MonitorStep
    <3>2. Kept' /\ RemoverHolds'
      BY <2>1, <2>6, ReadMapLin, OnEntryLin, LookupLin, LockLin, UnexpungeLin, OnEntryLockedLin,
         MissLin, DirtyLockedLin, InsertLin, RangeLin, RangePromoteLin DEF Step
    <3> QED BY <2>2, <2>3, <3>1, <3>2 DEF LinInv
  <2> QED BY <2>1, <2>4, <2>5, <2>6
<1> QED BY <1>1, <1>2

LEMMA LinStart == LinInit => LinInv
<1> SUFFICES ASSUME LinInit PROVE LinInv
  OBVIOUS
<1> DEFINE c == [m |-> [k \in Key |-> None], ret |-> [t \in Thread |-> <<>>]]
<1>1. XInv
  BY XInit DEF LinInit
<1>2. DirtyAmends
  BY DEF LinInit, Init, DirtyAmends, Lookup
<1>3. \A t \in Thread : thread[t].pc = "idle"
  BY DEF LinInit, Init, Idle
<1>4. \A t \in Thread : ~At(t, "entry") /\ ~At(t, "miss") /\ ~Stale(t) /\ ~StaleValue(t)
  BY <1>3, NotEntry DEF At
<1>5. RemoverHolds
  BY <1>4 DEF RemoverHolds
<1>6. lin = {c}
  BY DEF LinInit
<1>7. c \in Explanation
  BY DEF Explanation, Results
<1>8. MonitorOK
  <2>1. Pending(thread) = {}
    BY <1>3 DEF Pending
  <2>2. \A t \in Thread : c.ret[t] = <<>>
    OBVIOUS
  <2> HIDE DEF c
  <2> QED BY <1>6, <1>7, <2>1, <2>2 DEF MonitorOK, Explained, Closed
<1>9. Kept
  <2>1. \A k \in Key : Mapped(k) = None
    BY DEF LinInit, Init, Mapped, EntryOf, Lookup
  <2>2. \A ch, t : t \in Thread => Taken(ch, t) = <<>>
    BY <1>4 DEF Taken
  <2>3. \A ch : Explains(ch, c)
    BY <2>1, <2>2 DEF Explains
  <2> HIDE DEF c
  <2> QED BY <1>6, <2>3 DEF Kept
<1> QED BY <1>1, <1>2, <1>5, <1>8, <1>9 DEF LinInv

\* Some choice of who took the values that left the maps is plausible.
LEMMA SomePlausible ==
    ASSUME XInv, RemoverHolds
    PROVE  \E ch \in SUBSET Thread : Plausible(ch)
<1> DEFINE who(e) == CHOOSE w \in Thread : HasEntry(w, e) /\ Op(w) = "LoadAndDelete"
           ch == {t \in Thread : StaleValue(t) /\ t = who(thread[t].e)}
<1>1. ASSUME NEW t \in Thread, StaleValue(t)
      PROVE  \E w \in Thread : Took(ch, w, thread[t].e)
  <2> SUFFICES ASSUME NEW e, e = thread[t].e PROVE \E w \in Thread : Took(ch, w, e)
    OBVIOUS
  <2>1. \E w \in Thread : HasEntry(w, e) /\ Op(w) = "LoadAndDelete"
    BY <1>1 DEF RemoverHolds
  <2>2. who(e) \in Thread /\ HasEntry(who(e), e) /\ Op(who(e)) = "LoadAndDelete"
    BY <2>1
  <2> HIDE DEF who
  <2>3. thread[who(e)].e = e
    BY <2>2 DEF HasEntry
  <2>4. StaleValue(who(e))
    BY <1>1, <2>2, <2>3 DEF StaleValue, Stale, HasEntry
  <2>5. who(e) \in ch
    BY <2>2, <2>3, <2>4
  <2>6. \A u \in ch : HasEntry(u, e) => u = who(e)
    BY DEF HasEntry
  <2> HIDE DEF ch
  <2>7. Took(ch, who(e), e)
    BY <2>2, <2>5, <2>6 DEF Took, Deleters
  <2> QED BY <2>2, <2>7
<1>2. ch \in SUBSET Thread
  OBVIOUS
<1> HIDE DEF ch
<1> QED BY <1>1, <1>2 DEF Plausible

\* An explanation that is the maps' own is always among those of the monitor.
LEMMA SomeExplanation ==
    ASSUME LinInv
    PROVE  \E c \in lin : \A k \in Key : c.m[k] = Mapped(k)
  BY SomePlausible DEF LinInv, Kept, Explains

\* The strengthening, for the map that compares nothing, which is the code.
THEOREM LinInductive == ASSUME ~ComparesOld PROVE LinSpec => []LinInv
<1>1. LinInit => LinInv
  BY LinStart
<1>2. LinInv /\ [LinNext]_linVars => LinInv'
  BY LinStep
<1> QED BY <1>1, <1>2, PTL DEF LinSpec

\* Every method takes effect at one instant between its call and its return: what
\* the calls of Load, Swap, LoadOrStore, LoadAndDelete, CompareAndSwap and
\* CompareAndDelete return (map.go) are the results of a plain map.
THEOREM MapLinearizable == ASSUME ~ComparesOld PROVE LinSpec => []Linearizable
<1>1. LinInv => Linearizable
  BY SomeExplanation DEF Linearizable
<1> QED BY <1>1, LinInductive, PTL

-----------------------------------------------------------------------------
(* What Range relies on *)

\* The read map loses an entry only if it is expunged, an expunged entry is used
\* again only for the key it has in the read map, and the maps get no other entries
\* than those they have and the unreachable ones.
Follows ==
    /\ \A k \in Key : read[k] # None =>
          \/ read'[k] = read[k]
          \/ p[read[k]] = Expunged /\ p'[read[k]] = Expunged
    /\ \A e \in Entry : p[e] = Expunged =>
          \/ p'[e] = Expunged
          \/ Unreachable(e)
          \/ \E k \in Key : read[k] = e /\ read'[k] = e
    /\ \A e \in Entry : \A k \in Key : e \in {read'[k], Lookup(dirty, k)'} =>
          \/ e \in {read[k], Lookup(dirty, k)}
          \/ Unreachable(e)

\* A promotion, or the miss before it.
LEMMA PromotionFollows ==
    ASSUME XInv, NEW t \in Thread, mu \in {None, t}, thread[t].pc # "dirty", p' = p, dirty # NoMap,
           NEW d \in Map, \A j \in Key : d[j] = dirty[j] \/ (d[j] = None /\ read[j] = None),
           MissLocked(d) \/ Promoted(d)
    PROVE  Follows
<1>1. \A k \in Key : EntryState(k)
  BY Settled
<1>2. /\ \A k \in Key : read[k] \in Entry \cup {None} /\ Lookup(dirty, k) = dirty[k]
      /\ None \notin Entry /\ d # NoMap
  BY Entries
<1>3. \/ read' = read /\ dirty' = d
      \/ read' = d /\ dirty' = NoMap
  <2>1. CASE Promoted(d)
    BY <2>1 DEF Promoted
  <2>2. CASE MissLocked(d)
    <3>1. CASE misses + 1 < Len(d)
      BY <2>2, <3>1 DEF MissLocked
    <3>2. CASE ~(misses + 1 < Len(d))
      BY <2>2, <3>2 DEF MissLocked
    <3> QED BY <3>1, <3>2
  <2> QED BY <2>1, <2>2
<1>4. ASSUME NEW k \in Key, read[k] # None
      PROVE  read'[k] = read[k] \/ (p[read[k]] = Expunged /\ p'[read[k]] = Expunged)
  <2>1. d[k] = dirty[k]
    BY <1>4
  <2>2. p[read[k]] = Expunged \/ dirty[k] = read[k]
    BY <1>1, <1>4 DEF EntryState
  <2> QED BY <1>3, <2>1, <2>2
<1>5. ASSUME NEW e \in Entry, NEW k \in Key, e \in {read'[k], Lookup(dirty, k)'}
      PROVE  e \in {read[k], Lookup(dirty, k)}
  <2>1. e # None
    BY <1>2
  <2>2. e \in {read[k], d[k]}
    BY <1>2, <1>3, <1>5, <2>1 DEF Lookup
  <2> QED BY <1>2, <2>1, <2>2
<1> QED BY <1>4, <1>5 DEF Follows

\* The other steps leave the read map alone.
LEMMA ReadFollows ==
    ASSUME XInv, read' = read,
           \A e \in Entry : p[e] = Expunged =>
               p'[e] = Expunged \/ Unreachable(e) \/ \E k \in Key : read[k] = e,
           \A k \in Key : \/ Lookup(dirty, k)' \in {None, read[k], Lookup(dirty, k)}
                          \/ Unreachable(Lookup(dirty, k)')
    PROVE  Follows
<1>1. None \notin Entry
  BY MapAssumption
<1> QED BY <1>1 DEF Follows

LEMMA StepFollows ==
    ASSUME XInv, NEW t \in Thread, Call(t) \/ Step(t) \/ Return(t)
    PROVE  Follows
<1> SUFFICES ASSUME NEW k, k = K(t), NEW e, e = thread[t].e PROVE Follows
  OBVIOUS
<1>1. OpOK(thread[t]) /\ Holds(t) /\ thread[t] \in Local
  BY DEF XInv, OpInv, HeldInv, ThreadType
<1>2. ASSUME UNCHANGED <<shared, p>> PROVE Follows
  <2>1. read' = read /\ p' = p /\ \A j \in Key : Lookup(dirty, j)' = Lookup(dirty, j)
    BY <1>2, SMTT(30) DEF shared, Lookup
  <2> QED BY <2>1, ReadFollows
<1>3. CASE \/ Call(t) \/ Return(t) \/ ReadMap(t)
           \/ RangeRead(t) \/ RangeVisit(t) \/ RangeEnd(t)
  BY <1>2, <1>3 DEF Call, Return, ReadMap, RangeRead, RangeVisit, RangeEnd
<1>4. CASE OnEntry(t) \/ OnEntryLocked(t)
  <2>1. /\ thread[t].pc \in {"entry", "locked"} /\ UNCHANGED shared
        /\ p' = p \/ p' = [p EXCEPT ![e] = EntryOp(t, p[e]).p]
    BY <1>4 DEF OnEntry, OnEntryLocked, At
  <2>2. read' = read /\ \A j \in Key : Lookup(dirty, j)' = Lookup(dirty, j)
    BY <2>1 DEF shared, Lookup
  <2>3. Op(t) \in Methods /\ Op(t) # "Range" /\ e \in Entry /\ p[e] \in Val \cup {None, Expunged}
    BY <1>1, <2>1 DEF OpOK, WithEntry, Critical, Op, Local, XInv, SharedType
  <2>4. p[e] = Expunged /\ Op(t) \in {"Swap", "LoadOrStore"} => p' = p
    BY <1>1, <1>4 DEF OnEntry, OnEntryLocked, Holds
  <2>5. \A x \in Entry : p[x] = Expunged => p'[x] = Expunged
    <3>1. CASE p' = p
      BY <3>1
    <3>2. CASE p' # p
      <4>1. EntryOp(t, p[e]).p = Expunged <=> p[e] = Expunged
        BY <2>3, <2>4, <3>2, EntryOps
      <4> QED BY <2>1, <3>2, <4>1 DEF XInv, SharedType
    <3> QED BY <3>1, <3>2
  <2> QED BY <2>2, <2>5, ReadFollows
<1>5. CASE LookupLocked(t) \/ DeleteLocked(t) \/ Miss(t) \/ RangePromote(t)
  <2>1. /\ thread[t].pc \in {"lock", "miss"} /\ p' = p /\ mu \in {None, t}
        /\ \/ UNCHANGED shared
           \/ Miss(t) /\ MissLocked(dirty)
           \/ amended /\ (MissLocked(dirty) \/ Promoted(dirty))
           \/ IsMiss(k) /\ MissLocked([dirty EXCEPT ![k] = None])
    <3>1. CASE LookupLocked(t)
      BY <3>1 DEF LookupLocked, IsMiss, At
    <3>2. CASE DeleteLocked(t)
      BY <3>2 DEF DeleteLocked, At
    <3>3. CASE Miss(t)
      BY <3>3 DEF Miss, At, XInv, OpInv, Critical
    <3>4. CASE RangePromote(t)
      BY <3>4 DEF RangePromote, Promoted, At
    <3> QED BY <1>5, <3>1, <3>2, <3>3, <3>4
  <2>2. thread[t].pc # "dirty" /\ (amended => dirty # NoMap)
    BY <2>1, Settled
  <2>3. CASE UNCHANGED shared
    BY <1>2, <2>1, <2>3
  <2>4. CASE \/ Miss(t) /\ MissLocked(dirty)
             \/ amended /\ (MissLocked(dirty) \/ Promoted(dirty))
    <3>1. dirty # NoMap
      BY <1>1, <2>2, <2>4 DEF Miss, Holds
    <3>2. dirty \in Map
      BY <3>1 DEF XInv, SharedType
    <3> QED BY <2>1, <2>2, <2>4, <3>1, <3>2, PromotionFollows
  <2>5. CASE IsMiss(k) /\ MissLocked([dirty EXCEPT ![k] = None])
    <3>1. dirty # NoMap /\ read[k] = None
      BY <2>2, <2>5 DEF IsMiss
    <3>2. dirty \in Map
      BY <3>1 DEF XInv, SharedType
    <3>3. /\ [dirty EXCEPT ![k] = None] \in Map
          /\ \A j \in Key : \/ [dirty EXCEPT ![k] = None][j] = dirty[j]
                            \/ [dirty EXCEPT ![k] = None][j] = None /\ read[j] = None
      BY <3>1, <3>2 DEF Map
    <3> QED BY <2>1, <2>2, <2>5, <3>1, <3>3, PromotionFollows
  <2> QED BY <2>1, <2>3, <2>4, <2>5
<1>6. CASE Lock(t)
  <2>1. /\ read' = read /\ p' = p
        /\ dirty' = dirty \/ dirty' = [j \in Key |-> None]
    BY <1>6 DEF Lock
  <2>2. \A j \in Key : Lookup(dirty, j)' \in {None, Lookup(dirty, j)}
    BY <2>1 DEF Lookup
  <2> QED BY <2>1, <2>2, ReadFollows
<1>7. CASE UnexpungeLocked(t)
  <2>1. thread[t].pc = "unexpunge"
    BY <1>7 DEF UnexpungeLocked, At
  <2>2. e = read[k] /\ k \in Key /\ e \in Entry
    BY <1>1, <2>1 DEF Holds, OpOK, WithEntry, K, At, Critical, Local
  <2>3. CASE p[e] # Expunged
    BY <1>2, <1>7, <2>3 DEF UnexpungeLocked, shared
  <2>4. CASE p[e] = Expunged
    <3>1. /\ read' = read /\ p' = [p EXCEPT ![e] = None] /\ dirty' = [dirty EXCEPT ![k] = e]
      BY <1>7, <2>4 DEF UnexpungeLocked
    <3>2. \A x \in Entry : p[x] = Expunged => p'[x] = Expunged \/ \E j \in Key : read[j] = x
      BY <2>2, <3>1 DEF XInv, SharedType
    <3>3. dirty # NoMap
      <4>1. mu = t
        BY <2>1 DEF XInv, OpInv, Critical
      <4>2. EntryState(k) /\ read[k] # None
        BY <2>1, <2>2, <4>1, Settled, MapAssumption
      <4> QED BY <2>2, <2>4, <4>2 DEF EntryState
    <3>4. \A j \in Key : Lookup(dirty, j)' \in {read[j], Lookup(dirty, j)}
      <4>1. \A j \in Key : /\ Lookup(dirty, j) = dirty[j] /\ Lookup(dirty, j)' = dirty'[j]
                           /\ dirty'[j] = IF j = k THEN e ELSE dirty[j]
        BY <2>2, <3>1, <3>3, DirtySet
      <4> QED BY <2>2, <4>1
    <3> QED BY <3>1, <3>2, <3>4, ReadFollows
  <2> QED BY <2>3, <2>4
<1>8. CASE DirtyLocked(t)
  <2>1. PICK j \in thread[t].todo :
          \/ /\ p' = [p EXCEPT ![read[j]] = Expunged] /\ dirty' = dirty
          \/ dirty' = [dirty EXCEPT ![j] = read[j]] /\ p' = p
    BY <1>8 DEF DirtyLocked
  <2>2. thread[t].pc = "dirty" /\ read' = read
    BY <1>8 DEF DirtyLocked, At
  <2>3. j \in Key /\ read[j] # None /\ dirty # NoMap /\ read[j] \in Entry
    BY <1>1, <2>2, Entries DEF Holds, At
  <2>4. \A x \in Entry : p[x] = Expunged => p'[x] = Expunged
    BY <2>1, <2>3 DEF XInv, SharedType
  <2>5. \A i \in Key : Lookup(dirty, i)' \in {read[i], Lookup(dirty, i)}
    BY <2>1, <2>3, DirtySet DEF Lookup
  <2> QED BY <2>2, <2>4, <2>5, ReadFollows
<1>9. CASE Insert(t)
  <2>1. PICK x \in Entry : /\ Unreachable(x) /\ p' = [p EXCEPT ![x] = thread[t].val]
                           /\ dirty' = [dirty EXCEPT ![k] = x]
    BY <1>9 DEF Insert
  <2>2. thread[t].pc \in {"insert", "dirty"} /\ read' = read
    BY <1>9 DEF Insert, At
  <2>3. dirty # NoMap /\ k \in Key
    BY <1>1, <2>2 DEF Holds, OpOK, K, Critical
  <2>4. \A y \in Entry : p[y] = Expunged => p'[y] = Expunged \/ Unreachable(y)
    BY <2>1 DEF XInv, SharedType
  <2>5. \A i \in Key : \/ Lookup(dirty, i)' = Lookup(dirty, i)
                       \/ Unreachable(Lookup(dirty, i)')
    <3> TAKE i \in Key
    <3>1. Lookup(dirty, i)' = IF i = k THEN x ELSE Lookup(dirty, i)
      <4>1. /\ Lookup(dirty, i) = dirty[i] /\ Lookup(dirty, i)' = dirty'[i]
            /\ dirty'[i] = IF i = k THEN x ELSE dirty[i]
        BY <2>1, <2>3, DirtySet
      <4> QED BY <4>1
    <3> HIDE DEF Unreachable
    <3> QED BY <2>1, <3>1
  <2> QED BY <2>2, <2>4, <2>5, ReadFollows
<1> QED BY <1>3, <1>4, <1>5, <1>6, <1>7, <1>8, <1>9 DEF Step

-----------------------------------------------------------------------------
(* Range *)

KeysOf(S) == {x[1] : x \in S}

LEMMA KeysOfAdded ==
    ASSUME NEW S, NEW a, NEW b
    PROVE  KeysOf(S \cup {<<a, b>>}) = KeysOf(S) \cup {a}
<1>1. <<a, b>>[1] = a
  OBVIOUS
<1>2. ASSUME NEW z \in S \cup {<<a, b>>} PROVE z[1] \in KeysOf(S) \cup {a}
  BY <1>1 DEF KeysOf
<1>3. \A z \in S : z[1] \in KeysOf(S \cup {<<a, b>>})
  BY DEF KeysOf
<1>4. a \in KeysOf(S \cup {<<a, b>>})
  BY <1>1 DEF KeysOf
<1> QED BY <1>2, <1>3, <1>4 DEF KeysOf

\* A Range that iterates has yet to visit at most one entry of each key it has not
\* visited, the key's own or one that is expunged for good, and among them those
\* of the keys that are present all the time.
Iterates(t) ==
    /\ \A x, y \in thread[t].todo : x[1] = y[1] => x = y
    /\ \A x \in thread[t].todo :
        /\ x[1] \notin KeysOf(thread[t].seen)
        /\ read[x[1]] = x[2] \/ p[x[2]] = Expunged
        /\ \A k \in Key : x[2] \in {read[k], Lookup(dirty, k)} => k = x[1]
    /\ \A k \in must[t] : k \in KeysOf(thread[t].seen) \/ <<k, read[k]>> \in thread[t].todo

Watched(t) == must[t] \subseteq Present(lin) /\ Mappings(lin) \subseteq may[t]

Reports(t) ==
    /\ thread[t].pc \in {"read", "lock", "iter", "ret"}
    /\ thread[t].pc \in {"read", "lock"} => thread[t].seen = {}
    /\ thread[t].pc # "ret" => thread[t].res = <<>>
    /\ thread[t].res = <<TRUE>> => must[t] \subseteq KeysOf(thread[t].seen)
    /\ thread[t].seen \subseteq may[t]
    /\ \A x, y \in thread[t].seen : x[1] = y[1] => x = y

RangeInv ==
    \A t \in Thread : thread[t].op = "Range" =>
        Watched(t) /\ Reports(t) /\ (At(t, "iter") => Iterates(t))

\* Keys that are present for sure are in the map.
LEMMA PresentIs ==
    ASSUME LinInv
    PROVE  /\ \A k \in Present(lin) : k \in Key /\ Mapped(k) # None /\ EntryOf(k) # None
           /\ \A k \in Key : <<k, Mapped(k)>> \in Mappings(lin)
<1>1. PICK c \in lin : \A k \in Key : c.m[k] = Mapped(k)
  BY SomeExplanation
<1> QED BY <1>1 DEF Present, Mappings, Mapped

\* What the monitor of Range does.
LEMMA Watches ==
    ASSUME ObserveRange, NEW t \in Thread, thread'[t].op = "Range"
    PROVE  /\ Watched(t)'
           /\ ~At(t, "idle") => must'[t] \subseteq must[t] /\ may[t] \subseteq may'[t]
  BY DEF ObserveRange, Watched, Present, Mappings

\* A Range that goes on, and has not visited anything.
LEMMA RangeGoesOn ==
    ASSUME LinInv, Follows, NEW t \in Thread, thread[t].op = "Range",
           Watched(t), must'[t] \subseteq must[t], Iterates(t), At(t, "iter"),
           thread'[t].seen = thread[t].seen, thread'[t].todo = thread[t].todo
    PROVE  Iterates(t)'
<1> SUFFICES ASSUME NEW todo, todo = thread[t].todo, NEW seen, seen = thread[t].seen
             PROVE  Iterates(t)'
  OBVIOUS
<1>1. todo \subseteq Key \X Entry /\ thread'[t].seen = seen /\ thread'[t].todo = todo
  BY DEF LinInv, XInv, OpInv, OpOK, At
<1>2. \A x \in todo : ~Unreachable(x[2])
  BY DEF Unreachable, Op
<1>3. \A k \in Key : read[k] \in Entry \cup {None}
  BY Entries DEF LinInv
<1>4. None \notin Entry
  BY MapAssumption
<1>5. ASSUME NEW x \in todo
      PROVE  /\ read'[x[1]] = x[2] \/ p'[x[2]] = Expunged
             /\ \A k \in Key : x[2] \in {read'[k], Lookup(dirty, k)'} => k = x[1]
  <2>1. x[1] \in Key /\ x[2] \in Entry /\ x[2] # None /\ ~Unreachable(x[2])
    BY <1>1, <1>2, <1>4
  <2>2. /\ read[x[1]] = x[2] \/ p[x[2]] = Expunged
        /\ \A k \in Key : x[2] \in {read[k], Lookup(dirty, k)} => k = x[1]
    BY DEF Iterates
  <2>3. \A k \in Key : x[2] \in {read'[k], Lookup(dirty, k)'} => k = x[1]
    BY <2>1, <2>2 DEF Follows
  <2>4. CASE read[x[1]] = x[2]
    BY <2>1, <2>3, <2>4 DEF Follows
  <2>5. CASE p[x[2]] = Expunged
    <3>1. p'[x[2]] = Expunged \/ \E k \in Key : read[k] = x[2] /\ read'[k] = x[2]
      BY <2>1, <2>5 DEF Follows
    <3>2. ASSUME NEW k \in Key, read[k] = x[2], read'[k] = x[2] PROVE read'[x[1]] = x[2]
      <4>1. x[2] \in {read[k], Lookup(dirty, k)}
        BY <3>2
      <4>2. k = x[1]
        BY <2>2, <4>1
      <4> QED BY <3>2, <4>2
    <3>3. read'[x[1]] = x[2] \/ p'[x[2]] = Expunged
      BY <3>1, <3>2
    <3> QED BY <2>3, <3>3
  <2> QED BY <2>2, <2>3, <2>4, <2>5
<1>6. ASSUME NEW k \in must'[t] PROVE k \in KeysOf(seen) \/ <<k, read'[k]>> \in todo
  <2>1. k \in must[t]
    OBVIOUS
  <2>2. CASE k \in KeysOf(seen)
    BY <2>2
  <2>3. CASE <<k, read[k]>> \in todo
    <3>1. k \in Key /\ read[k] \in Entry
      BY <1>1, <2>3
    <3>2. Mapped(k) # None
      BY <2>1, PresentIs DEF Watched
    <3>3. EntryOf(k) = read[k]
      BY <1>4, <3>1 DEF EntryOf
    <3>4. p[read[k]] # Expunged
      BY <3>2, <3>3 DEF Mapped, Value
    <3>5. read'[k] = read[k]
      BY <1>4, <3>1, <3>4 DEF Follows
    <3> QED BY <2>3, <3>5
  <2> QED BY <2>1, <2>2, <2>3 DEF Iterates
<1> QED BY <1>1, <1>5, <1>6 DEF Iterates

\* A Range that begins to iterate, over the read map.
Begins(t) ==
    /\ LinInv /\ ~amended /\ Watched(t) /\ thread[t].seen = {}
    /\ thread[t].todo = {<<k, read[k]>> : k \in {j \in Key : read[j] # None}}

LEMMA RangeBegins == \A t \in Thread : Begins(t) => Iterates(t)
<1> SUFFICES ASSUME NEW t \in Thread, Begins(t) PROVE Iterates(t)
  OBVIOUS
<1> USE DEF Begins
<1>1. KeysOf(thread[t].seen) = {}
  BY DEF KeysOf
<1>2. ASSUME NEW x \in thread[t].todo
      PROVE  /\ x[1] \in Key /\ x = <<x[1], read[x[1]]>> /\ read[x[1]] # None
             /\ \A k \in Key : x[2] \in {read[k], Lookup(dirty, k)} => k = x[1]
  <2>1. PICK j \in Key : x = <<j, read[j]>> /\ read[j] # None
    OBVIOUS
  <2>2. \A k \in Key : read[j] \in {read[k], Lookup(dirty, k)} => k = j
    BY <2>1 DEF LinInv, XInv, OneKey
  <2> QED BY <2>1, <2>2
<1>3. ASSUME NEW k \in must[t] PROVE <<k, read[k]>> \in thread[t].todo
  <2>1. k \in Key /\ EntryOf(k) # None
    BY PresentIs DEF Watched
  <2>2. read[k] # None
    BY <2>1 DEF EntryOf, LinInv, DirtyAmends
  <2> QED BY <2>1, <2>2
<1>4. \A x, y \in thread[t].todo : x[1] = y[1] => x = y
  BY <1>2
<1>5. \A x \in thread[t].todo : read[x[1]] = x[2]
  BY <1>2
<1> QED BY <1>1, <1>2, <1>3, <1>4, <1>5 DEF Iterates

LEMMA RangeBegan == (\A t \in Thread : Begins(t) => Iterates(t))'
  BY RangeBegins, PTL

\* A visit of entry x.
LEMMA VisitReports ==
    ASSUME LinInv, NEW t \in Thread, thread[t].pc = "iter",
           Watched(t), Reports(t), Iterates(t), Watched(t)',
           must'[t] \subseteq must[t], may[t] \subseteq may'[t],
           UNCHANGED <<read, dirty, p>>, NEW x \in thread[t].todo,
           thread'[t].pc = thread[t].pc, thread'[t].res = thread[t].res,
           thread'[t].todo = thread[t].todo \ {x},
           thread'[t].seen = IF Value(p[x[2]]) = None THEN thread[t].seen
                             ELSE thread[t].seen \cup {<<x[1], Value(p[x[2]])>>}
    PROVE  Reports(t)' /\ Iterates(t)'
<1> SUFFICES ASSUME NEW v, v = Value(p[x[2]]), NEW seen, seen = thread[t].seen,
                    NEW todo, todo = thread[t].todo
             PROVE  Reports(t)' /\ Iterates(t)'
  OBVIOUS
<1>1. OpOK(thread[t]) /\ XInv
  BY DEF LinInv, XInv, OpInv
<1>2. UNCHANGED <<read, dirty, p>>
  OBVIOUS
<1>3. /\ thread'[t].pc = "iter" /\ thread'[t].res = thread[t].res
      /\ thread'[t].todo = todo \ {x}
      /\ thread'[t].seen = IF v = None THEN seen ELSE seen \cup {<<x[1], v>>}
  OBVIOUS
<1>4. x \in todo /\ Iterates(t) /\ thread[t].res = <<>> /\ todo \subseteq Key \X Entry
  BY <1>1 DEF At, Reports, OpOK
<1>5. x[1] \in Key /\ x[2] \in Entry /\ x[2] # None /\ x = <<x[1], x[2]>>
  BY <1>4, MapAssumption
<1>6. ASSUME v # None PROVE <<x[1], v>> \in may'[t]
  <2>1. read[x[1]] = x[2]
    BY <1>4, <1>6 DEF Iterates, Value
  <2>2. Mapped(x[1]) = v
    BY <1>5, <2>1 DEF Mapped, EntryOf
  <2> QED BY <1>5, <2>2, PresentIs DEF Watched
<1>7. x[1] \notin KeysOf(seen) /\ \A y \in todo : y[1] = x[1] => y = x
  BY <1>4 DEF Iterates
<1>8. \A y \in seen : y[1] # x[1]
  BY <1>7 DEF KeysOf
<1>9. \A k : k \in KeysOf(thread'[t].seen) <=> k \in KeysOf(seen) \/ (v # None /\ k = x[1])
  <2>1. CASE v = None
    BY <1>3, <2>1 DEF KeysOf
  <2>2. CASE v # None
    <3>1. thread'[t].seen = seen \cup {<<x[1], v>>}
      BY <1>3, <2>2
    <3>2. KeysOf(thread'[t].seen) = KeysOf(seen \cup {<<x[1], v>>})
      BY <3>1
    <3>3. KeysOf(seen \cup {<<x[1], v>>}) = KeysOf(seen) \cup {x[1]}
      BY KeysOfAdded, ZenonT(40)
    <3> QED BY <2>2, <3>2, <3>3
  <2> QED BY <2>1, <2>2
<1>10. Reports(t)'
  <2>1. thread'[t].seen \subseteq may'[t]
    BY <1>3, <1>6 DEF Reports
  <2>2. \A y, z \in thread'[t].seen : y[1] = z[1] => y = z
    BY <1>3, <1>8 DEF Reports
  <2>3. <<>> # <<TRUE>>
    OBVIOUS
  <2> QED BY <1>3, <1>4, <2>1, <2>2, <2>3 DEF Reports
<1>11. ASSUME NEW y \in todo \ {x} PROVE y[1] \notin KeysOf(thread'[t].seen)
  BY <1>4, <1>7, <1>9 DEF Iterates
<1>12. ASSUME NEW k \in must'[t]
       PROVE  k \in KeysOf(thread'[t].seen) \/ <<k, read[k]>> \in todo \ {x}
  <2>1. k \in KeysOf(seen) \/ <<k, read[k]>> \in todo
    BY <1>4 DEF Iterates
  <2>2. CASE <<k, read[k]>> = x
    <3>1. k = x[1] /\ read[k] = x[2]
      BY <2>2
    <3>2. Mapped(k) # None
      BY PresentIs DEF Watched
    <3>3. Mapped(k) = v
      BY <1>5, <3>1 DEF Mapped, EntryOf
    <3> QED BY <1>9, <3>1, <3>2, <3>3
  <2> QED BY <1>9, <2>1, <2>2
<1>13. Iterates(t)'
  <2>1. \A y \in todo \ {x} :
          /\ read'[y[1]] = y[2] \/ p'[y[2]] = Expunged
          /\ \A k \in Key : y[2] \in {read'[k], Lookup(dirty, k)'} => k = y[1]
    BY <1>2, <1>4 DEF Iterates, Lookup
  <2>2. \A y, z \in todo \ {x} : y[1] = z[1] => y = z
    BY <1>4 DEF Iterates
  <2> QED BY <1>2, <1>3, <1>11, <1>12, <2>1, <2>2 DEF Iterates
<1> QED BY <1>10, <1>13

\* The steps of the thread's own call.
LEMMA OwnRange ==
    ASSUME LinInv, LinInv', RangeInv, NEW t \in Thread, thread[t].op = "Range", Watched(t)',
           must'[t] \subseteq must[t], may[t] \subseteq may'[t], Step(t)
    PROVE  Reports(t)' /\ (At(t, "iter")' => Iterates(t)')
<1>1. /\ OpOK(thread[t]) /\ XInv /\ thread[t] \in Local
      /\ Watched(t) /\ Reports(t) /\ (At(t, "iter") => Iterates(t))
  BY DEF LinInv, XInv, OpInv, ThreadType, RangeInv
<1>2. RangeRead(t) \/ RangePromote(t) \/ RangeVisit(t) \/ RangeEnd(t)
  <2>1. ~ReadMap(t) /\ ~LookupLocked(t) /\ ~DeleteLocked(t) /\ ~Lock(t)
    BY DEF ReadMap, LookupLocked, DeleteLocked, Lock, Op
  <2>2. thread[t].pc \notin {"entry"} \cup Critical
    BY <1>1 DEF OpOK
  <2>3. ~OnEntry(t) /\ ~UnexpungeLocked(t) /\ ~OnEntryLocked(t) /\ ~Miss(t) /\ ~DirtyLocked(t) /\ ~Insert(t)
    BY <2>2 DEF OnEntry, UnexpungeLocked, OnEntryLocked, Miss, DirtyLocked, Insert, At, Critical
  <2> QED BY <2>1, <2>3 DEF Step
<1>3. ASSUME Iterate(t, read'), ~amended', thread[t].pc \in {"read", "lock"}
      PROVE  Reports(t)' /\ (At(t, "iter")' => Iterates(t)')
  <2>1. /\ thread'[t].pc = "iter" /\ thread'[t].res = thread[t].res /\ thread'[t].seen = thread[t].seen
        /\ thread'[t].todo = {<<k, read'[k]>> : k \in {j \in Key : read'[j] # None}}
    BY <1>1, <1>3, IterateIs
  <2>2. thread[t].seen = {} /\ thread[t].res = <<>>
    BY <1>1, <1>3 DEF Reports
  <2>3. Reports(t)'
    BY <2>1, <2>2 DEF Reports
  <2>4. Iterates(t)'
    <3>1. Begins(t)'
      BY <1>3, <2>1, <2>2 DEF Begins
    <3> QED BY <3>1, RangeBegan
  <2> QED BY <2>3, <2>4
<1>4. CASE RangeRead(t)
  <2>1. /\ thread[t].pc = "read" /\ read' = read /\ amended' = amended
        /\ Goto(t, "lock") \/ (~amended /\ Iterate(t, read))
    BY <1>4 DEF RangeRead, At, shared
  <2>2. CASE Goto(t, "lock")
    <3>1. thread'[t].pc = "lock" /\ thread'[t].res = thread[t].res /\ thread'[t].seen = thread[t].seen
      BY <1>1, <2>2, GotoIs
    <3>2. thread[t].seen = {} /\ thread[t].res = <<>>
      BY <1>1, <2>1 DEF Reports
    <3> QED BY <3>1, <3>2 DEF Reports, At
  <2>3. CASE ~amended /\ Iterate(t, read)
    BY <1>3, <2>1, <2>3
  <2> QED BY <2>1, <2>2, <2>3
<1>5. CASE RangePromote(t)
  <2>1. thread[t].pc = "lock" /\ Iterate(t, read') /\ ~amended'
    BY <1>5 DEF RangePromote, At, shared
  <2> QED BY <1>3, <2>1
<1>6. CASE RangeEnd(t)
  <2>1. thread[t].pc = "iter" /\ thread[t].todo = {} /\ Ret(t, <<TRUE>>)
    BY <1>6 DEF RangeEnd, At
  <2>2. thread'[t].pc = "ret" /\ thread'[t].seen = thread[t].seen
    BY <1>1, <2>1, RetIs
  <2>3. must[t] \subseteq KeysOf(thread[t].seen)
    BY <1>1, <2>1 DEF Iterates, At
  <2> QED BY <1>1, <2>2, <2>3 DEF Reports, At
<1>7. CASE RangeVisit(t)
  <2>1. thread[t].pc = "iter" /\ UNCHANGED <<read, dirty, p>>
    BY <1>7 DEF RangeVisit, At, shared
  <2>2. PICK x \in thread[t].todo :
          \/ thread' = [thread EXCEPT ![t].todo = @ \ {x},
                                      ![t].seen = IF Value(p[x[2]]) = None THEN @
                                                  ELSE @ \cup {<<x[1], Value(p[x[2]])>>}]
          \/ Ret(t, <<FALSE>>)
    BY <1>7 DEF RangeVisit
  <2>3. CASE Ret(t, <<FALSE>>)
    <3>1. thread'[t].pc = "ret" /\ thread'[t].seen = thread[t].seen /\ thread'[t].res = <<FALSE>>
      BY <1>1, <2>3, RetIs
    <3>2. <<FALSE>> # <<TRUE>>
      OBVIOUS
    <3> QED BY <1>1, <3>1, <3>2 DEF Reports, At
  <2>4. CASE thread' = [thread EXCEPT ![t].todo = @ \ {x},
                                      ![t].seen = IF Value(p[x[2]]) = None THEN @
                                                  ELSE @ \cup {<<x[1], Value(p[x[2]])>>}]
    <3>1. /\ thread'[t].pc = thread[t].pc /\ thread'[t].res = thread[t].res
          /\ thread'[t].todo = thread[t].todo \ {x}
          /\ thread'[t].seen = IF Value(p[x[2]]) = None THEN thread[t].seen
                               ELSE thread[t].seen \cup {<<x[1], Value(p[x[2]])>>}
      <4> DEFINE v == Value(p[x[2]])
      <4>1. thread' = [thread EXCEPT ![t].todo = @ \ {x},
                                     ![t].seen = IF v = None THEN @ ELSE @ \cup {<<x[1], v>>}]
        BY <2>4
      <4> HIDE DEF v
      <4>2. /\ thread'[t].pc = thread[t].pc /\ thread'[t].res = thread[t].res
            /\ thread'[t].todo = thread[t].todo \ {x}
            /\ thread'[t].seen = IF v = None THEN thread[t].seen ELSE thread[t].seen \cup {<<x[1], v>>}
        BY <1>1, <4>1, VisitIs, ZenonT(40)
      <4> QED BY <4>2 DEF v
    <3> QED BY <1>1, <2>1, <3>1, VisitReports DEF At
  <2> QED BY <2>2, <2>3, <2>4
<1> QED BY <1>2, <1>4, <1>5, <1>6, <1>7

LEMMA RangeInvStep ==
    ASSUME LinInv, LinInv', RangeInv, NEW t \in Thread, Call(t) \/ Step(t) \/ Return(t), ObserveRange
    PROVE  RangeInv'
<1> SUFFICES ASSUME NEW u \in Thread, thread'[u].op = "Range"
             PROVE  Watched(u)' /\ Reports(u)' /\ (At(u, "iter")' => Iterates(u)')
  BY DEF RangeInv
<1>1. Watched(u)' /\ (~At(u, "idle") => must'[u] \subseteq must[u] /\ may[u] \subseteq may'[u])
  BY Watches
<1>2. XInv /\ XInv' /\ Follows
  BY StepFollows DEF LinInv
<1>3. CASE u # t
  <2>1. thread'[u] = thread[u]
    <3>1. CASE Call(t)
      <4>1. PICK l : thread' = [thread EXCEPT ![t] = l]
        BY <3>1 DEF Call
      <4> QED BY <1>2, <1>3, <4>1 DEF XInv, ThreadType
    <3>2. CASE Return(t)
      BY <1>2, <1>3, <3>2 DEF Return, XInv, ThreadType
    <3>3. CASE Step(t)
      BY <1>2, <1>3, <3>3, StepStays DEF Stays
    <3> QED BY <3>1, <3>2, <3>3
  <2>2. Watched(u) /\ Reports(u) /\ (At(u, "iter") => Iterates(u)) /\ thread[u].op = "Range"
    BY <2>1 DEF RangeInv
  <2>3. must'[u] \subseteq must[u] /\ may[u] \subseteq may'[u]
    BY <1>1, <2>2 DEF Reports, At
  <2>4. Reports(u)'
    BY <2>1, <2>2, <2>3 DEF Reports
  <2>5. ASSUME At(u, "iter")' PROVE Iterates(u)'
    BY <1>2, <2>1, <2>2, <2>3, <2>5, RangeGoesOn DEF At
  <2> QED BY <1>1, <2>4, <2>5
<1>4. CASE u = t /\ Call(t)
  <2>1. thread'[t].pc = "read" /\ thread'[t].seen = {} /\ thread'[t].res = <<>>
    <3>1. PICK l : /\ thread' = [thread EXCEPT ![t] = l]
                   /\ l.pc = "read" /\ l.seen = {} /\ l.res = <<>>
      <4>1. PICK op, a : thread' = [thread EXCEPT ![t] = [Idle EXCEPT !.pc = "read", !.op = op,
                                      !.key = a.k, !.val = a.v, !.old = a.o]]
        BY <1>4 DEF Call
      <4> DEFINE l == [Idle EXCEPT !.pc = "read", !.op = op, !.key = a.k, !.val = a.v, !.old = a.o]
      <4>2. l.pc = "read" /\ l.seen = {} /\ l.res = <<>>
        BY DEF Idle
      <4> HIDE DEF l
      <4> QED BY <4>1, <4>2 DEF l
    <3> QED BY <1>2, <3>1 DEF XInv, ThreadType
  <2>2. <<>> # <<TRUE>>
    OBVIOUS
  <2> QED BY <1>1, <1>4, <2>1, <2>2 DEF Reports, At
<1>5. CASE u = t /\ Return(t)
  <2>1. thread'[t] = Idle
    BY <1>2, <1>5 DEF Return, XInv, ThreadType
  <2> QED BY <1>5, <2>1, MapAssumption DEF Idle, Methods
<1>6. CASE u = t /\ Step(t)
  <2>1. thread[t].op = "Range" /\ ~At(t, "idle")
    BY <1>2, <1>6, StepStays DEF Stays, SameCall, At
  <2> QED BY <1>1, <1>6, <2>1, OwnRange
<1> QED BY <1>3, <1>4, <1>5, <1>6

LEMMA RangeStart == LinInit => RangeInv
<1> SUFFICES ASSUME LinInit, NEW t \in Thread PROVE thread[t].op # "Range"
  BY DEF RangeInv
<1>1. thread[t] = Idle
  BY DEF LinInit, Init
<1>2. Idle.op = None
  BY DEF Idle
<1> QED BY <1>1, <1>2, MapAssumption DEF Methods

LEMMA RangeNext ==
    ASSUME LinInv, LinInv', RangeInv, [LinNext]_linVars
    PROVE  RangeInv'
<1>1. CASE LinNext
  BY <1>1, RangeInvStep DEF LinNext
<1>2. CASE UNCHANGED linVars
  <2>1. UNCHANGED <<read, dirty, p, thread, lin, must, may>>
    BY <1>2 DEF linVars, vars, shared
  <2>2. ASSUME NEW t \in Thread
        PROVE  /\ Watched(t)' = Watched(t) /\ Reports(t)' = Reports(t)
               /\ Iterates(t)' = Iterates(t) /\ At(t, "iter")' = At(t, "iter")
    BY <2>1 DEF Watched, Reports, Iterates, At, Lookup
  <2> QED BY <2>1, <2>2 DEF RangeInv
<1> QED BY <1>1, <1>2

\* The strengthening that says what a Range that iterates (map.go:451) has still to
\* visit.
THEOREM RangeInductive == ASSUME ~ComparesOld PROVE LinSpec => [](LinInv /\ RangeInv)
<1>1. LinInit => RangeInv
  BY RangeStart
<1>2. LinInv /\ LinInv' /\ RangeInv /\ [LinNext]_linVars => RangeInv'
  BY RangeNext
<1> QED BY <1>1, <1>2, LinInductive, PTL DEF LinSpec

\* Range (map.go:451) visits every key that is present all the time, unless the
\* callback stops it, no key more than once, and reports only mappings the key had
\* during the call.
THEOREM RangeIsConsistent == ASSUME ~ComparesOld PROVE LinSpec => []RangeConsistent
<1>1. RangeInv => RangeConsistent
  <2> SUFFICES ASSUME RangeInv, NEW t \in Thread, Op(t) = "Range"
               PROVE  /\ thread[t].res = <<TRUE>> => must[t] \subseteq {x[1] : x \in thread[t].seen}
                      /\ thread[t].seen \subseteq may[t]
                      /\ \A x, y \in thread[t].seen : x[1] = y[1] => x = y
    BY DEF RangeConsistent
  <2> QED BY DEF RangeInv, Reports, KeysOf, Op
<1> QED BY <1>1, RangeInductive, PTL
=============================================================================
