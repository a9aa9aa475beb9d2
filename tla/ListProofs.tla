----------------------------- MODULE ListProofs -----------------------------
(***************************************************************************)
(* LinkedList is proved: its pointers are well formed in every reachable   *)
(* state (AlwaysWellFormed), every method does to its list what its own    *)
(* comment says (ListDocumented), and the lists together implement the     *)
(* sequences of SeqList (ListImplements).                                  *)
(*                                                                         *)
(* The invariant LInv says of each list that it was not used yet, or that  *)
(* there is a cycle c: c[0] is its root, c[1] to c[n] are its elements,    *)
(* and next and prev go along c.  What a method does is told as a change   *)
(* of c (Ins, Del), of which LinkCycle and UnlinkCycle prove that it is    *)
(* the change of the pointers.  The walks of Members and of the loops of   *)
(* callers, and the rounds of PushBackList and PushFrontList, are read off *)
(* c by induction over the steps, which Induction provides.                *)
(***************************************************************************)
EXTENDS LinkedList, SequenceTheorems, WellFoundedInduction, TLAPS

\* What holds of 0 and goes from each number up to n to the next holds of all.
LEMMA Induction ==
    ASSUME NEW n \in Nat, NEW T, 0 \in T, \A i \in 0..n : i \in T /\ i < n => i + 1 \in T
    PROVE  0..n \subseteq T
<1> DEFINE B == {i \in 0..n : i \notin T}
<1> SUFFICES ASSUME B # {} PROVE FALSE
  OBVIOUS
<1>1. B \subseteq Nat
  OBVIOUS
<1>2. PICK i \in B : \A j \in B : ~(<<j, i>> \in OpToRel(<, Nat))
  <2> HIDE DEF B
  <2> QED BY <1>1, WFMin, NatLessThanWellFounded, Zenon
<1>3. i \in 0..n /\ i \notin T /\ i # 0
  BY <1>2
<1>4. i - 1 \in 0..n /\ i - 1 < n /\ i - 1 < i /\ (i - 1) + 1 = i
  BY <1>3
<1>5. i - 1 \in T
  <2> SUFFICES ASSUME i - 1 \notin T PROVE FALSE
    OBVIOUS
  <2>1. i - 1 \in B
    BY <1>4
  <2>2. <<i - 1, i>> \in Nat \X Nat /\ i - 1 < i
    BY <1>3, <1>4
  <2>3. <<i - 1, i>> \in OpToRel(<, Nat)
    BY <2>2 DEF OpToRel
  <2> QED BY <1>2, <2>1, <2>3
<1> QED BY <1>3, <1>4, <1>5

\* A function that is defined along the numbers up to n exists.
LEMMA Walks ==
    ASSUME NEW n \in Nat, NEW S, NEW f \in [S -> S], NEW a \in S
    PROVE  \E g \in [0..n -> S] : g[0] = a /\ \A i \in 1..n : g[i] = f[g[i - 1]]
<1> DEFINE T == {m \in 0..n : \E g \in [0..m -> S] : g[0] = a /\ \A i \in 1..m : g[i] = f[g[i - 1]]}
<1>1. 0 \in T
  <2> DEFINE g == [i \in 0..0 |-> a]
  <2>1. g \in [0..0 -> S] /\ g[0] = a /\ \A i \in 1..0 : g[i] = f[g[i - 1]]
    OBVIOUS
  <2>2. 0 \in 0..n
    OBVIOUS
  <2> HIDE DEF g
  <2> QED BY <2>1, <2>2
<1>2. ASSUME NEW m \in 0..n, m \in T, m < n PROVE m + 1 \in T
  <2>1. PICK g \in [0..m -> S] : g[0] = a /\ \A i \in 1..m : g[i] = f[g[i - 1]]
    BY <1>2
  <2> DEFINE h == [i \in 0..(m + 1) |-> IF i <= m THEN g[i] ELSE f[g[m]]]
  <2>2. h \in [0..(m + 1) -> S]
    BY <2>1
  <2>3. h[0] = a
    BY <2>1
  <2>4. ASSUME NEW i \in 1..(m + 1) PROVE h[i] = f[h[i - 1]]
    <3>1. i - 1 \in 0..m /\ h[i - 1] = g[i - 1]
      OBVIOUS
    <3>2. CASE i <= m
      BY <2>1, <3>1, <3>2
    <3>3. CASE i = m + 1
      BY <2>1, <3>1, <3>3
    <3> QED BY <3>2, <3>3
  <2>5. m + 1 \in 0..n
    BY <1>2
  <2> QED BY <2>2, <2>3, <2>4, <2>5
<1>3. 0..n \subseteq T
  <2> HIDE DEF T
  <2> QED BY <1>1, <1>2, Induction
<1> QED BY <1>3

-----------------------------------------------------------------------------
(* Walking around a list *)

HeapType(h) ==
    /\ h = [next |-> h.next, prev |-> h.prev, list |-> h.list, len |-> h.len]
    /\ h.next \in [Node -> Node \cup {Nil}]
    /\ h.prev \in [Node -> Node \cup {Nil}]
    /\ h.list \in [Elem -> Lists \cup {Nil}]
    /\ h.len \in [Lists -> Nat]

\* c goes around list l in heap h: from the root over its n elements.
Cycle(h, l, c, n) ==
    /\ n \in Nat
    /\ c \in [0..n -> Node] /\ c[0] = l
    /\ \A i \in 1..n : c[i] \in Elem
    /\ \A i, j \in 0..n : c[i] = c[j] => i = j
    /\ \A i \in 1..n : h.next[c[i - 1]] = c[i] /\ h.prev[c[i]] = c[i - 1]
    /\ h.next[c[n]] = l /\ h.prev[l] = c[n]

\* The elements of a cycle, and its nodes.
Over(c, n)   == {c[i] : i \in 1..n}
Around(c, n) == {c[i] : i \in 0..n}

\* Walk, in any heap.
WalkIn(h, l, d) ==
    LET node[i \in 0..MaxElems] == IF i = 0 THEN l ELSE h[d][node[i - 1]]
    IN [i \in 1..h.len[l] |-> node[i]]

\* The members of a list, read off its cycle.
MembersOf(c, n) == [i \in 1..n |-> c[i]]

LEMMA WalkIs ==
    ASSUME NEW h, HeapType(h), NEW l \in Lists, NEW c, NEW n, Cycle(h, l, c, n), h.len[l] = n, n <= MaxElems
    PROVE  WalkIn(h, l, "next") = MembersOf(c, n)
<1> DEFINE P(f) == f = [i \in 0..MaxElems |-> IF i = 0 THEN l ELSE h["next"][f[i - 1]]]
           node == CHOOSE f : P(f)
<1>1. WalkIn(h, l, "next") = [i \in 1..n |-> node[i]]
  BY DEF WalkIn
<1>2. P(node)
  <2> DEFINE S == {c[i] : i \in 0..n}
             f == [x \in S |-> h.next[x]]
  <2>1. f \in [S -> S] /\ l \in S /\ MaxElems \in Nat
    <3>1. ASSUME NEW x \in S PROVE h.next[x] \in S
      <4>1. PICK i \in 0..n : x = c[i]
        OBVIOUS
      <4>2. CASE i = n
        BY <4>1, <4>2 DEF Cycle
      <4>3. CASE i < n
        <5>1. i + 1 \in 1..n /\ (i + 1) - 1 = i /\ i + 1 \in 0..n
          BY <4>3 DEF Cycle
        <5>2. h.next[c[i]] = c[i + 1]
          BY <5>1 DEF Cycle
        <5> QED BY <4>1, <5>1, <5>2
      <4> QED BY <4>1, <4>2, <4>3 DEF Cycle
    <3>2. l \in S /\ MaxElems \in Nat
      BY ListAssumption DEF Cycle
    <3> QED BY <3>1, <3>2
  <2>2. PICK g \in [0..MaxElems -> S] : g[0] = l /\ \A i \in 1..MaxElems : g[i] = f[g[i - 1]]
    <3> HIDE DEF f, S
    <3>1. f \in [S -> S]
      BY <2>1
    <3>2. l \in S
      BY <2>1
    <3>3. MaxElems \in Nat
      BY <2>1
    <3>4. \A V : \A F \in [V -> V], x \in V :
             \E g \in [0..MaxElems -> V] : g[0] = x /\ \A i \in 1..MaxElems : g[i] = F[g[i - 1]]
      BY <3>3, Walks
    <3>5. \A F \in [S -> S], x \in S :
             \E g \in [0..MaxElems -> S] : g[0] = x /\ \A i \in 1..MaxElems : g[i] = F[g[i - 1]]
      BY <3>4
    <3>6. \A x \in S :
             \E g \in [0..MaxElems -> S] : g[0] = x /\ \A i \in 1..MaxElems : g[i] = f[g[i - 1]]
      BY <3>1, <3>5
    <3> QED BY <3>2, <3>6
  <2>3. P(g)
    <3>1. ASSUME NEW i \in 0..MaxElems
          PROVE  g[i] = IF i = 0 THEN l ELSE h["next"][g[i - 1]]
      <4>1. CASE i = 0
        BY <2>2, <4>1
      <4>2. CASE i # 0
        <5>1. i \in 1..MaxElems /\ i - 1 \in 0..MaxElems
          BY <2>1, <4>2
        <5>2. g[i] = f[g[i - 1]] /\ g[i - 1] \in S
          BY <2>2, <5>1
        <5> QED BY <4>2, <5>2
      <4> QED BY <4>1, <4>2
    <3> QED BY <3>1, <2>2
  <2> HIDE DEF P
  <2> QED BY <2>3, Zenon
<1> HIDE DEF node
<1>3. /\ node[0] = l
      /\ \A i \in 1..MaxElems : node[i] = h.next[node[i - 1]]
  <2>1. \A i \in 0..MaxElems : node[i] = IF i = 0 THEN l ELSE h["next"][node[i - 1]]
    BY <1>2
  <2> QED BY <2>1, ListAssumption
<1>4. 0..n \subseteq {i \in 0..n : node[i] = c[i]}
  <2> DEFINE T == {i \in 0..n : node[i] = c[i]}
  <2>1. 0 \in T /\ n \in Nat
    BY <1>3 DEF Cycle
  <2>2. ASSUME NEW i \in 0..n, i \in T, i < n PROVE i + 1 \in T
    <3>1. i + 1 \in 1..n /\ (i + 1) - 1 = i /\ i + 1 \in 1..MaxElems
      BY <2>1, <2>2, ListAssumption
    <3>2. node[i + 1] = h.next[node[i]]
      BY <1>3, <3>1
    <3>3. h.next[c[i]] = c[i + 1]
      BY <3>1 DEF Cycle
    <3> QED BY <2>2, <3>1, <3>2, <3>3
  <2> HIDE DEF T
  <2>3. 0..n \subseteq T
    BY <2>1, <2>2, Induction
  <2> QED BY <2>3 DEF T
<1> QED BY <1>1, <1>4 DEF Cycle, MembersOf

-----------------------------------------------------------------------------
(* Linking and unlinking an element *)

\* The cycle c with e behind its k-th node, and without its k-th node.
Ins(c, n, k, e) == [i \in 0..(n + 1) |-> IF i <= k THEN c[i] ELSE IF i = k + 1 THEN e ELSE c[i - 1]]
Del(c, n, k)    == [i \in 0..(n - 1) |-> IF i < k THEN c[i] ELSE c[i + 1]]

\* Heaps g and h differ at the nodes of X only, and there only in next and prev.
Differ(h, g, X) ==
    /\ HeapType(g)
    /\ g.list = h.list /\ g.len = h.len
    /\ \A x \in Node \ X : g.next[x] = h.next[x] /\ g.prev[x] = h.prev[x]

LEMMA LinkAt ==
    ASSUME NEW h, HeapType(h), NEW e \in Node, NEW at \in Node, e # at,
           h.next[at] \in Node, h.next[at] # e
    PROVE  /\ Differ(h, LinkAfter(h, e, at), {e, at, h.next[at]})
           /\ \A x \in Node :
                /\ LinkAfter(h, e, at).next[x] =
                       IF x = at THEN e ELSE IF x = e THEN h.next[at] ELSE h.next[x]
                /\ LinkAfter(h, e, at).prev[x] =
                       IF x = h.next[at] THEN e ELSE IF x = e THEN at ELSE h.prev[x]
<1> DEFINE b  == h.next[at]
           h1 == SetPrev(h, e, at)
           h2 == SetNext(h1, e, h1.next[at])
           h3 == SetNext(h2, h2.prev[e], e)
           g  == SetPrev(h3, h3.next[e], e)
<1>1. LinkAfter(h, e, at) = g
  BY DEF LinkAfter
<1>2. /\ h1.next = h.next /\ h1.prev = [h.prev EXCEPT ![e] = at]
      /\ h1.list = h.list /\ h1.len = h.len
      /\ h1 = [next |-> h1.next, prev |-> h1.prev, list |-> h1.list, len |-> h1.len]
  BY DEF SetPrev, HeapType
<1> HIDE DEF h1
<1>3. /\ h2.next = [h.next EXCEPT ![e] = b] /\ h2.prev = h1.prev
      /\ h2.list = h.list /\ h2.len = h.len
      /\ h2 = [next |-> h2.next, prev |-> h2.prev, list |-> h2.list, len |-> h2.len]
  BY <1>2 DEF SetNext, HeapType
<1> HIDE DEF h2
<1>4. h2.prev[e] = at
  BY <1>2, <1>3 DEF HeapType
<1>5. /\ h3.next = [h2.next EXCEPT ![at] = e] /\ h3.prev = h1.prev
      /\ h3.list = h.list /\ h3.len = h.len
      /\ h3 = [next |-> h3.next, prev |-> h3.prev, list |-> h3.list, len |-> h3.len]
  BY <1>3, <1>4 DEF SetNext
<1> HIDE DEF h3
<1>6. h3.next[e] = b
  BY <1>3, <1>5 DEF HeapType
<1>7. /\ g.next = h3.next /\ g.prev = [h1.prev EXCEPT ![b] = e]
      /\ g.list = h.list /\ g.len = h.len
      /\ g = [next |-> g.next, prev |-> g.prev, list |-> g.list, len |-> g.len]
  BY <1>5, <1>6 DEF SetPrev
<1> HIDE DEF g
<1>8. ASSUME NEW x \in Node
      PROVE  /\ g.next[x] = IF x = at THEN e ELSE IF x = e THEN b ELSE h.next[x]
             /\ g.prev[x] = IF x = b THEN e ELSE IF x = e THEN at ELSE h.prev[x]
  BY <1>2, <1>3, <1>5, <1>7 DEF HeapType
<1>9. HeapType(g)
  BY <1>2, <1>3, <1>5, <1>7 DEF HeapType
<1> QED BY <1>1, <1>7, <1>8, <1>9 DEF Differ

LEMMA UnlinkAt ==
    ASSUME NEW h, HeapType(h), NEW e \in Node, h.prev[e] \in Node, h.next[e] \in Node, h.prev[e] # e
    PROVE  /\ Differ(h, Unlink(h, e), {h.prev[e], h.next[e]})
           /\ \A x \in Node :
                /\ Unlink(h, e).next[x] = IF x = h.prev[e] THEN h.next[e] ELSE h.next[x]
                /\ Unlink(h, e).prev[x] = IF x = h.next[e] THEN h.prev[e] ELSE h.prev[x]
<1> DEFINE h1 == SetNext(h, h.prev[e], h.next[e])
           g  == SetPrev(h1, h1.next[e], h1.prev[e])
<1>1. Unlink(h, e) = g
  BY DEF Unlink
<1>2. /\ h1.next = [h.next EXCEPT ![h.prev[e]] = h.next[e]] /\ h1.prev = h.prev
      /\ h1.list = h.list /\ h1.len = h.len
      /\ h1 = [next |-> h1.next, prev |-> h1.prev, list |-> h1.list, len |-> h1.len]
  BY DEF SetNext, HeapType
<1> HIDE DEF h1
<1>3. h1.next[e] = h.next[e] /\ h1.prev[e] = h.prev[e]
  BY <1>2 DEF HeapType
<1>4. /\ g.next = h1.next /\ g.prev = [h.prev EXCEPT ![h.next[e]] = h.prev[e]]
      /\ g.list = h.list /\ g.len = h.len
      /\ g = [next |-> g.next, prev |-> g.prev, list |-> g.list, len |-> g.len]
  BY <1>2, <1>3 DEF SetPrev
<1> HIDE DEF g
<1>5. ASSUME NEW x \in Node
      PROVE  /\ g.next[x] = IF x = h.prev[e] THEN h.next[e] ELSE h.next[x]
             /\ g.prev[x] = IF x = h.next[e] THEN h.prev[e] ELSE h.prev[x]
  BY <1>2, <1>4 DEF HeapType
<1>6. HeapType(g)
  BY <1>2, <1>4 DEF HeapType
<1> QED BY <1>1, <1>4, <1>5, <1>6 DEF Differ

LEMMA LinkCycle ==
    ASSUME NEW h, HeapType(h), NEW l \in Lists, NEW c, NEW n, Cycle(h, l, c, n),
           NEW k \in 0..n, NEW e \in Elem, \A i \in 0..n : c[i] # e
    PROVE  /\ Cycle(LinkAfter(h, e, c[k]), l, Ins(c, n, k, e), n + 1)
           /\ Differ(h, LinkAfter(h, e, c[k]), {e} \cup Around(c, n))
<1> DEFINE g == LinkAfter(h, e, c[k])
           b == IF k = n THEN l ELSE c[k + 1]
           d == Ins(c, n, k, e)
<1>1. /\ n \in Nat /\ k \in Nat /\ k <= n /\ c[0] = l
      /\ \A i \in 0..n : c[i] \in Node
      /\ e \in Node /\ c[k] # e
  BY DEF Cycle, Node
<1>2. h.next[c[k]] = b /\ b \in {c[i] : i \in 0..n}
  <2>1. CASE k = n
    BY <1>1, <2>1 DEF Cycle
  <2>2. CASE k < n
    <3>1. k + 1 \in 1..n /\ (k + 1) - 1 = k /\ k + 1 \in 0..n
      BY <1>1, <2>2
    <3> QED BY <2>2, <3>1 DEF Cycle
  <2> QED BY <1>1, <2>1, <2>2
<1>3. b \in Node /\ b # e
  BY <1>1, <1>2
<1>4. /\ Differ(h, g, {e, c[k], b})
      /\ \A x \in Node : /\ g.next[x] = IF x = c[k] THEN e ELSE IF x = e THEN b ELSE h.next[x]
                         /\ g.prev[x] = IF x = b THEN e ELSE IF x = e THEN c[k] ELSE h.prev[x]
  <2>1. h.next[c[k]] \in Node /\ h.next[c[k]] # e /\ c[k] \in Node /\ e # c[k] /\ h.next[c[k]] = b
    BY <1>1, <1>2, <1>3
  <2>2. /\ Differ(h, g, {e, c[k], h.next[c[k]]})
        /\ \A x \in Node : /\ g.next[x] = IF x = c[k] THEN e ELSE IF x = e THEN h.next[c[k]] ELSE h.next[x]
                           /\ g.prev[x] = IF x = h.next[c[k]] THEN e ELSE IF x = e THEN c[k] ELSE h.prev[x]
    <3>1. ASSUME NEW at \in Node, e # at, h.next[at] \in Node, h.next[at] # e
          PROVE  /\ Differ(h, LinkAfter(h, e, at), {e, at, h.next[at]})
                 /\ \A x \in Node :
                      /\ LinkAfter(h, e, at).next[x] =
                             IF x = at THEN e ELSE IF x = e THEN h.next[at] ELSE h.next[x]
                      /\ LinkAfter(h, e, at).prev[x] =
                             IF x = h.next[at] THEN e ELSE IF x = e THEN at ELSE h.prev[x]
      BY <1>1, <3>1, LinkAt
    <3> HIDE DEF b
    <3> QED BY <2>1, <3>1
  <2> HIDE DEF b, g
  <2> QED BY <2>1, <2>2
<1>5. Differ(h, g, {e} \cup Around(c, n))
  BY <1>1, <1>2, <1>4 DEF Differ, Around
<1> HIDE DEF g
<1>6. /\ \A i \in 0..k : d[i] = c[i]
      /\ d[k + 1] = e
      /\ \A i \in (k + 2)..(n + 1) : d[i] = c[i - 1] /\ i - 1 \in (k + 1)..n
      /\ d \in [0..(n + 1) -> Node]
  BY <1>1 DEF Ins, Cycle, Node
<1> HIDE DEF d
<1>7. \A i \in 0..(n + 1) : i \in 0..k \/ i = k + 1 \/ i \in (k + 2)..(n + 1)
  BY <1>1
<1>8. n + 1 \in Nat /\ d[0] = l /\ \A i \in 1..(n + 1) : d[i] \in Elem
  BY <1>1, <1>6, <1>7 DEF Cycle
<1>9. ASSUME NEW i \in 0..(n + 1), NEW j \in 0..(n + 1), d[i] = d[j] PROVE i = j
  <2>1. \A x, y \in 0..n : c[x] = c[y] => x = y
    BY DEF Cycle
  <2> QED BY <1>1, <1>6, <1>7, <1>9, <2>1
<1>10. ASSUME NEW i \in 1..(n + 1) PROVE g.next[d[i - 1]] = d[i] /\ g.prev[d[i]] = d[i - 1]
  <2>0. /\ \A x, y \in 0..n : c[x] = c[y] => x = y
        /\ \A x \in 1..n : h.next[c[x - 1]] = c[x] /\ h.prev[c[x]] = c[x - 1]
    BY DEF Cycle
  <2>1. CASE i <= k
    <3>1. i \in 1..n /\ i - 1 \in 0..k /\ i \in 0..k /\ i - 1 # k /\ i - 1 \in 0..n /\ i \in 0..n
      BY <1>1, <2>1
    <3>2. c[i - 1] # c[k] /\ c[i] # b /\ c[i - 1] # e /\ c[i] # e /\ c[i] \in Node /\ c[i - 1] \in Node
      BY <1>1, <2>0, <2>1, <3>1
    <3> QED BY <1>4, <1>6, <2>0, <3>1, <3>2
  <2>2. CASE i = k + 1
    <3>1. d[i - 1] = c[k] /\ d[i] = e
      BY <1>1, <1>6, <2>2
    <3> QED BY <1>1, <1>3, <1>4, <3>1
  <2>3. CASE i = k + 2
    <3>1. k < n /\ d[i - 1] = e /\ d[i] = c[k + 1] /\ b = c[k + 1]
      <4>1. i \in (k + 2)..(n + 1) /\ i - 1 = k + 1 /\ k < n
        BY <1>1, <2>3
      <4> QED BY <1>6, <4>1
    <3> QED BY <1>1, <1>3, <1>4, <3>1
  <2>4. CASE i > k + 2
    <3>1. /\ i \in (k + 2)..(n + 1) /\ i - 1 \in (k + 2)..(n + 1)
          /\ i - 1 \in 1..n /\ i - 2 \in 0..n /\ (i - 1) - 1 = i - 2 /\ i - 1 \in 0..n
          /\ k < n /\ k + 1 \in 0..n
      BY <1>1, <2>4
    <3>2. d[i] = c[i - 1] /\ d[i - 1] = c[i - 2]
      BY <1>6, <3>1
    <3>3. c[i - 2] # c[k] /\ c[i - 1] # b /\ c[i - 2] # e /\ c[i - 1] # e /\ c[i - 1] \in Node /\ c[i - 2] \in Node
      BY <1>1, <2>0, <2>4, <3>1
    <3> QED BY <1>4, <2>0, <3>1, <3>2, <3>3
  <2> QED BY <1>1, <2>1, <2>2, <2>3, <2>4
<1>11. g.next[d[n + 1]] = l /\ g.prev[l] = d[n + 1]
  <2>0. h.next[c[n]] = l /\ h.prev[l] = c[n] /\ l \in Node /\ l # e
    BY <1>1 DEF Cycle, Node
  <2>1. CASE k = n
    BY <1>1, <1>4, <1>6, <2>0, <2>1
  <2>2. CASE k < n
    <3>1. d[n + 1] = c[n]
      <4>1. n + 1 \in (k + 2)..(n + 1) /\ (n + 1) - 1 = n
        BY <1>1, <2>2
      <4> QED BY <1>6, <4>1
    <3>2. l # b /\ c[n] # c[k] /\ c[n] # e /\ c[n] \in Node
      BY <1>1, <2>2 DEF Cycle
    <3> QED BY <1>4, <2>0, <3>1, <3>2
  <2> QED BY <1>1, <2>1, <2>2
<1>12. Cycle(g, l, d, n + 1)
  BY <1>6, <1>8, <1>9, <1>10, <1>11 DEF Cycle
<1> QED BY <1>5, <1>12 DEF g, d

LEMMA UnlinkCycle ==
    ASSUME NEW h, HeapType(h), NEW l \in Lists, NEW c, NEW n, Cycle(h, l, c, n), NEW k \in 1..n
    PROVE  /\ Cycle(Unlink(h, c[k]), l, Del(c, n, k), n - 1)
           /\ Differ(h, Unlink(h, c[k]), Around(c, n))
<1> DEFINE g == Unlink(h, c[k])
           a == c[k - 1]
           b == IF k = n THEN l ELSE c[k + 1]
           d == Del(c, n, k)
<1>0. /\ \A x, y \in 0..n : c[x] = c[y] => x = y
      /\ \A x \in 1..n : h.next[c[x - 1]] = c[x] /\ h.prev[c[x]] = c[x - 1]
  BY DEF Cycle
<1>1. /\ n \in Nat /\ k \in Nat /\ k <= n /\ k >= 1 /\ c[0] = l
      /\ k \in 0..n /\ k - 1 \in 0..n
      /\ \A i \in 0..n : c[i] \in Node
  BY DEF Cycle
<1>2. h.next[c[k]] = b /\ b \in {c[i] : i \in 0..n}
  <2>1. CASE k = n
    BY <1>1, <2>1 DEF Cycle
  <2>2. CASE k < n
    <3>1. k + 1 \in 1..n /\ (k + 1) - 1 = k /\ k + 1 \in 0..n
      BY <1>1, <2>2
    <3> QED BY <2>2, <3>1 DEF Cycle
  <2> QED BY <1>1, <2>1, <2>2
<1>3. h.prev[c[k]] = a /\ a # c[k] /\ a \in {c[i] : i \in 0..n}
  BY <1>0, <1>1
<1>4. /\ Differ(h, g, {a, b})
      /\ \A x \in Node : /\ g.next[x] = IF x = a THEN b ELSE h.next[x]
                         /\ g.prev[x] = IF x = b THEN a ELSE h.prev[x]
  <2>1. /\ c[k] \in Node /\ h.prev[c[k]] \in Node /\ h.next[c[k]] \in Node
        /\ h.prev[c[k]] # c[k] /\ h.prev[c[k]] = a /\ h.next[c[k]] = b
    BY <1>1, <1>2, <1>3
  <2> QED BY <2>1, UnlinkAt
<1>5. Differ(h, g, Around(c, n))
  BY <1>2, <1>3, <1>4 DEF Differ, Around
<1> HIDE DEF g
<1>6. /\ \A i \in 0..(k - 1) : d[i] = c[i]
      /\ \A i \in k..(n - 1) : d[i] = c[i + 1] /\ i + 1 \in 1..n
      /\ d \in [0..(n - 1) -> Node]
  BY <1>1 DEF Del, Cycle
<1> HIDE DEF d
<1>7. \A i \in 0..(n - 1) : i \in 0..(k - 1) \/ i \in k..(n - 1)
  BY <1>1
<1>8. n - 1 \in Nat /\ d[0] = l /\ \A i \in 1..(n - 1) : d[i] \in Elem
  <2>1. \A i \in 1..n : c[i] \in Elem
    BY DEF Cycle
  <2> QED BY <1>1, <1>6, <1>7, <2>1
<1>9. ASSUME NEW i \in 0..(n - 1), NEW j \in 0..(n - 1), d[i] = d[j] PROVE i = j
  <2>1. \A x \in 0..(n - 1) : /\ x < k => d[x] = c[x] /\ x \in 0..n
                              /\ x >= k => d[x] = c[x + 1] /\ x + 1 \in 0..n
    BY <1>1, <1>6
  <2>2. CASE i < k /\ j < k
    BY <1>0, <1>9, <2>1, <2>2
  <2>3. CASE i < k /\ j >= k
    BY <1>0, <1>9, <2>1, <2>3
  <2>4. CASE i >= k /\ j < k
    BY <1>0, <1>9, <2>1, <2>4
  <2>5. CASE i >= k /\ j >= k
    <3>1. i + 1 = j + 1
      BY <1>0, <1>9, <2>1, <2>5
    <3> QED BY <3>1
  <2> QED BY <1>1, <2>2, <2>3, <2>4, <2>5
<1>10. ASSUME NEW i \in 1..(n - 1) PROVE g.next[d[i - 1]] = d[i] /\ g.prev[d[i]] = d[i - 1]
  <2>1. CASE i < k
    <3>1. i \in 1..n /\ i - 1 \in 0..(k - 1) /\ i \in 0..(k - 1) /\ i - 1 # k - 1 /\ i - 1 \in 0..n /\ i \in 0..n
      BY <1>1, <2>1
    <3>2. c[i - 1] # a /\ c[i] # b /\ c[i] \in Node /\ c[i - 1] \in Node
      BY <1>0, <1>1, <2>1, <3>1
    <3> QED BY <1>0, <1>4, <1>6, <3>1, <3>2
  <2>2. CASE i = k
    <3>1. i - 1 \in 0..(k - 1) /\ i \in k..(n - 1) /\ k < n
      BY <1>1, <2>2
    <3>2. d[i - 1] = a /\ d[i] = b
      BY <1>6, <2>2, <3>1
    <3> QED BY <1>1, <1>2, <1>3, <1>4, <3>2
  <2>3. CASE i > k
    <3>1. /\ i \in k..(n - 1) /\ i - 1 \in k..(n - 1) /\ (i - 1) + 1 = i /\ (i + 1) - 1 = i
          /\ i \in 1..n /\ i + 1 \in 1..n /\ i \in 0..n /\ i + 1 \in 0..n /\ k < n /\ k + 1 \in 0..n
      BY <1>1, <2>3
    <3>2. d[i] = c[i + 1] /\ d[i - 1] = c[i]
      BY <1>6, <3>1
    <3>3. c[i] # a /\ c[i + 1] # b /\ c[i] \in Node /\ c[i + 1] \in Node
      BY <1>0, <1>1, <2>3, <3>1
    <3>4. h.next[c[i]] = c[i + 1] /\ h.prev[c[i + 1]] = c[i]
      BY <1>0, <3>1
    <3> QED BY <1>4, <3>2, <3>3, <3>4
  <2> QED BY <1>1, <2>1, <2>2, <2>3
<1>11. g.next[d[n - 1]] = l /\ g.prev[l] = d[n - 1]
  <2>0. h.next[c[n]] = l /\ h.prev[l] = c[n] /\ l \in Node
    BY <1>1 DEF Cycle, Node
  <2>1. CASE k = n
    <3>1. d[n - 1] = a /\ b = l
      BY <1>1, <1>6, <2>1
    <3> QED BY <1>1, <1>3, <1>4, <2>0, <3>1
  <2>2. CASE k < n
    <3>1. d[n - 1] = c[n]
      <4>1. n - 1 \in k..(n - 1) /\ (n - 1) + 1 = n
        BY <1>1, <2>2
      <4> QED BY <1>6, <4>1
    <3>2. l # b /\ c[n] # a /\ c[n] \in Node
      <4>1. k + 1 \in 0..n /\ k + 1 # 0 /\ n \in 0..n /\ n # k - 1 /\ 0 \in 0..n
        BY <1>1, <2>2
      <4> QED BY <1>0, <1>1, <2>2, <4>1
    <3> QED BY <1>4, <2>0, <3>1, <3>2
  <2> QED BY <1>1, <2>1, <2>2
<1>12. Cycle(g, l, d, n - 1)
  BY <1>6, <1>8, <1>9, <1>10, <1>11 DEF Cycle
<1> QED BY <1>5, <1>12 DEF g, d

LEMMA InsRange ==
    ASSUME NEW c, NEW n \in Nat, NEW k \in 0..n, NEW e
    PROVE  Over(Ins(c, n, k, e), n + 1) = Over(c, n) \cup {e}
<1> DEFINE d == Ins(c, n, k, e)
<1>1. /\ \A i \in 1..(n + 1) : /\ i <= k => d[i] = c[i] /\ i \in 1..n
                               /\ i = k + 1 => d[i] = e
                               /\ i > k + 1 => d[i] = c[i - 1] /\ i - 1 \in 1..n
      /\ k + 1 \in 1..(n + 1)
  BY DEF Ins
<1>2. ASSUME NEW i \in 1..n PROVE \E j \in 1..(n + 1) : d[j] = c[i]
  <2>1. CASE i <= k
    BY <1>1, <2>1
  <2>2. CASE i > k
    <3>1. i + 1 \in 1..(n + 1) /\ i + 1 > k + 1 /\ (i + 1) - 1 = i
      BY <2>2
    <3> QED BY <1>1, <3>1
  <2> QED BY <2>1, <2>2
<1> HIDE DEF d
<1>3. ASSUME NEW i \in 1..(n + 1) PROVE d[i] \in {c[j] : j \in 1..n} \cup {e}
  <2>1. i <= k \/ i = k + 1 \/ i > k + 1
    OBVIOUS
  <2> QED BY <1>1, <2>1
<1>4. {d[i] : i \in 1..(n + 1)} = {c[i] : i \in 1..n} \cup {e}
  BY <1>1, <1>2, <1>3
<1> QED BY <1>4 DEF d, Over

LEMMA DelRange ==
    ASSUME NEW c, NEW n \in Nat, NEW k \in 1..n, \A i, j \in 0..n : c[i] = c[j] => i = j
    PROVE  Over(Del(c, n, k), n - 1) = Over(c, n) \ {c[k]}
<1> DEFINE d == Del(c, n, k)
<1>1. \A i \in 1..(n - 1) : /\ i < k => d[i] = c[i] /\ i \in 1..n
                            /\ i >= k => d[i] = c[i + 1] /\ i + 1 \in 1..n
  BY DEF Del
<1>2. ASSUME NEW i \in 1..n, c[i] # c[k] PROVE \E j \in 1..(n - 1) : d[j] = c[i]
  <2>1. CASE i < k
    BY <1>1, <2>1
  <2>2. CASE i > k
    <3>1. i - 1 \in 1..(n - 1) /\ i - 1 >= k /\ (i - 1) + 1 = i
      BY <2>2
    <3> QED BY <1>1, <3>1
  <2> QED BY <1>2, <2>1, <2>2
<1> HIDE DEF d
<1>3. ASSUME NEW i \in 1..(n - 1) PROVE d[i] \in {c[j] : j \in 1..n} /\ d[i] # c[k]
  <2>1. CASE i < k
    BY <1>1, <2>1
  <2>2. CASE i >= k
    <3>1. i + 1 # k /\ i + 1 \in 0..n /\ k \in 0..n
      BY <2>2
    <3> QED BY <1>1, <2>2, <3>1
  <2> QED BY <2>1, <2>2
<1>4. {d[i] : i \in 1..(n - 1)} = {c[i] : i \in 1..n} \ {c[k]}
  BY <1>2, <1>3
<1> QED BY <1>4 DEF d, Over

-----------------------------------------------------------------------------
(* A list among the others *)

\* The elements of list l that a caller may still pass.
Elems(h, C, l) == {e \in Elem \ C : h.list[e] = l}

\* Not used yet, so that lazyInit applies.
Idle(h, C, l) == h.next[l] = Nil /\ h.prev[l] = Nil /\ h.len[l] = 0 /\ Elems(h, C, l) = {}

Linked(h, C, l, c) ==
    /\ Cycle(h, l, c, h.len[l])
    /\ Over(c, h.len[l]) = Elems(h, C, l)

\* All lists are linked, with the elements in C cleared and m elements made.
HeapOK(h, C, m) ==
    /\ HeapType(h)
    /\ \A l \in Lists : /\ Idle(h, C, l) \/ \E c \in [0..h.len[l] -> Node] : Linked(h, C, l, c)
                        /\ h.len[l] <= m
    /\ \A e \in Elem : h.list[e] = Nil => h.next[e] = Nil /\ h.prev[e] = Nil
    /\ C \in SUBSET Elem
    /\ \A e \in Elem : e > m => h.list[e] = Nil /\ e \notin C

\* g leaves list o as it is in h.
Keeps(h, C, g, D, o) ==
    /\ g.len[o] = h.len[o]
    /\ Elems(g, D, o) = Elems(h, C, o)
    /\ \A x \in {o} \cup Elems(h, C, o) : g.next[x] = h.next[x] /\ g.prev[x] = h.prev[x]

LEMMA Frame ==
    ASSUME NEW h, NEW C, NEW g, NEW D, NEW o \in Lists, Keeps(h, C, g, D, o)
    PROVE  /\ Idle(h, C, o) => Idle(g, D, o)
           /\ \A c : Linked(h, C, o, c) => Linked(g, D, o, c)
<1>1. Idle(h, C, o) => Idle(g, D, o)
  BY DEF Idle, Keeps
<1>2. ASSUME NEW c, Linked(h, C, o, c) PROVE Linked(g, D, o, c)
  <2> DEFINE n == h.len[o]
  <2>1. Cycle(h, o, c, n) /\ Over(c, n) = Elems(h, C, o) /\ g.len[o] = n /\ n \in Nat
    BY <1>2 DEF Linked, Keeps, Cycle
  <2> HIDE DEF n
  <2>2. ASSUME NEW i \in 0..n PROVE g.next[c[i]] = h.next[c[i]] /\ g.prev[c[i]] = h.prev[c[i]]
    <3>1. c[i] \in {o} \cup Elems(h, C, o)
      <4>1. i = 0 \/ i \in 1..n
        BY <2>1
      <4> QED BY <2>1, <4>1 DEF Cycle, Over
    <3> QED BY <3>1 DEF Keeps
  <2>3. \A i \in 1..n : g.next[c[i - 1]] = c[i] /\ g.prev[c[i]] = c[i - 1]
    <3>1. \A i \in 1..n : i - 1 \in 0..n /\ i \in 0..n
      BY <2>1
    <3> QED BY <2>1, <2>2, <3>1 DEF Cycle
  <2>4. g.next[c[n]] = o /\ g.prev[o] = c[n]
    <3>1. n \in 0..n /\ 0 \in 0..n /\ c[0] = o
      BY <2>1 DEF Cycle
    <3> QED BY <2>1, <2>2, <3>1 DEF Cycle
  <2>5. Cycle(g, o, c, n)
    BY <2>1, <2>3, <2>4 DEF Cycle
  <2> QED BY <2>1, <2>5 DEF Linked, Keeps
<1> QED BY <1>1, <1>2

\* Nodes of different lists are different, and so are roots and elements.
LEMMA Apart ==
    ASSUME NEW h, NEW C, NEW l \in Lists, NEW c, Linked(h, C, l, c), NEW o \in Lists, o # l
    PROVE  \A x \in {o} \cup Elems(h, C, o), i \in 0..h.len[l] : x # c[i]
<1> SUFFICES ASSUME NEW x \in {o} \cup Elems(h, C, o), NEW i \in 0..h.len[l] PROVE x # c[i]
  OBVIOUS
<1>1. i = 0 \/ i \in 1..h.len[l]
  BY DEF Linked, Cycle
<1>2. c[i] \in {l} \cup Elems(h, C, l)
  BY <1>1 DEF Linked, Cycle, Over
<1> QED BY <1>2, ListAssumption DEF Elems, Elem

\* What is left to show of a step that works on list l.
LEMMA Others ==
    ASSUME NEW h, NEW C, NEW m \in Nat, HeapOK(h, C, m), NEW g, NEW D, NEW m2 \in Nat, m <= m2,
           NEW l \in Lists, NEW d, Linked(g, D, l, d), g.len[l] <= m2, HeapType(g),
           \A o \in Lists \ {l} : Keeps(h, C, g, D, o),
           \A e \in Elem : g.list[e] = Nil => g.next[e] = Nil /\ g.prev[e] = Nil,
           D \in SUBSET Elem, \A e \in Elem : e > m2 => g.list[e] = Nil /\ e \notin D
    PROVE  HeapOK(g, D, m2)
<1>1. ASSUME NEW o \in Lists
      PROVE  /\ Idle(g, D, o) \/ \E c \in [0..g.len[o] -> Node] : Linked(g, D, o, c)
             /\ g.len[o] <= m2
  <2>1. CASE o = l
    BY <2>1 DEF Linked, Cycle
  <2>2. CASE o # l
    <3>1. Keeps(h, C, g, D, o) /\ g.len[o] = h.len[o]
      BY <2>2 DEF Keeps
    <3>2. /\ Idle(h, C, o) \/ \E c \in [0..h.len[o] -> Node] : Linked(h, C, o, c)
          /\ h.len[o] <= m /\ h.len[o] \in Nat
      BY DEF HeapOK, HeapType
    <3>3. /\ Idle(h, C, o) => Idle(g, D, o)
          /\ \A c : Linked(h, C, o, c) => Linked(g, D, o, c)
      BY <3>1, Frame
    <3> QED BY <3>1, <3>2, <3>3
  <2> QED BY <2>1, <2>2
<1> QED BY <1>1 DEF HeapOK

LEMMA InsertOK ==
    ASSUME NEW h, NEW C, NEW m \in Nat, m < MaxElems, HeapOK(h, C, m),
           NEW l \in Lists, NEW c, Linked(h, C, l, c), NEW k \in 0..h.len[l]
    PROVE  /\ HeapOK(insert(h, l, m + 1, c[k]), C, m + 1)
           /\ Linked(insert(h, l, m + 1, c[k]), C, l, Ins(c, h.len[l], k, m + 1))
           /\ insert(h, l, m + 1, c[k]).len[l] = h.len[l] + 1
           /\ \A o \in Lists \ {l} : Keeps(h, C, insert(h, l, m + 1, c[k]), C, o)
<1> DEFINE e == m + 1
           n == h.len[l]
           u == LinkAfter(h, e, c[k])
           g == insert(h, l, m + 1, c[k])
           d == Ins(c, n, k, e)
<1>1. /\ HeapType(h) /\ Cycle(h, l, c, n) /\ n \in Nat /\ n <= m /\ Over(c, n) = Elems(h, C, l)
      /\ e \in Elem /\ e \in Nat /\ e = m + 1 /\ k \in 0..n
      /\ h.list[e] = Nil /\ e \notin C
      /\ Nil \notin Node /\ Lists \cap Elem = {}
  BY ListAssumption DEF HeapOK, Linked, Cycle, Elem
<1>2. g = [u EXCEPT !.list[e] = l, !.len[l] = @ + 1]
  BY DEF insert
<1> HIDE DEF e, n, g
<1>3. \A i \in 0..n : c[i] # e
  <2>1. \A i \in 0..n : i = 0 \/ i \in 1..n
    BY <1>1
  <2> QED BY <1>1, <2>1 DEF Elems, Cycle, Node, Over
<1>4. /\ Cycle(u, l, d, n + 1)
      /\ Differ(h, u, {e} \cup Around(c, n))
  <2>1. k \in 0..n /\ HeapType(h) /\ Cycle(h, l, c, n) /\ e \in Elem
    BY <1>1
  <2> QED BY <1>3, <2>1, LinkCycle
<1> HIDE DEF u
<1>5. /\ g.next = u.next /\ g.prev = u.prev
      /\ g.list = [h.list EXCEPT ![e] = l] /\ g.len = [h.len EXCEPT ![l] = n + 1]
      /\ HeapType(g)
  <2>1. HeapType(u) /\ u.list = h.list /\ u.len = h.len
    BY <1>4 DEF Differ
  <2>2. u = [next |-> u.next, prev |-> u.prev, list |-> u.list, len |-> u.len]
    BY <2>1 DEF HeapType
  <2>3. g = [next |-> u.next, prev |-> u.prev,
             list |-> [u.list EXCEPT ![e] = l], len |-> [u.len EXCEPT ![l] = u.len[l] + 1]]
    BY <1>2, <2>2
  <2>4. u.len[l] = n
    BY <2>1 DEF n
  <2> QED BY <1>1, <2>1, <2>3, <2>4 DEF HeapType
<1>6. g.len[l] = n + 1 /\ \A o \in Lists \ {l} : g.len[o] = h.len[o]
  BY <1>1, <1>5 DEF HeapType
<1>7. Cycle(g, l, d, n + 1)
  BY <1>4, <1>5 DEF Cycle
<1>8. /\ Elems(g, C, l) = Elems(h, C, l) \cup {e}
      /\ \A o \in Lists \ {l} : Elems(g, C, o) = Elems(h, C, o)
  BY <1>1, <1>5 DEF Elems, HeapType, Node
<1>9. Linked(g, C, l, d)
  <2>1. Over(d, n + 1) = Over(c, n) \cup {e}
    <3>1. n \in Nat /\ k \in 0..n
      BY <1>1
    <3> QED BY <3>1, InsRange
  <2> HIDE DEF d
  <2> QED BY <1>1, <1>6, <1>7, <1>8, <2>1 DEF Linked
<1>10. ASSUME NEW o \in Lists \ {l} PROVE Keeps(h, C, g, C, o)
  <2>1. ASSUME NEW x \in {o} \cup Elems(h, C, o) PROVE g.next[x] = h.next[x] /\ g.prev[x] = h.prev[x]
    <3>1. x \in Node /\ x # e
      BY <1>1 DEF Elems, Node
    <3>2. \A i \in 0..n : x # c[i]
      BY Apart DEF n
    <3> QED BY <1>4, <1>5, <3>1, <3>2 DEF Differ, Around
  <2> QED BY <1>6, <1>8, <2>1 DEF Keeps
<1>11. HeapOK(g, C, m + 1)
  <2>1. ASSUME NEW x \in Elem, g.list[x] = Nil PROVE g.next[x] = Nil /\ g.prev[x] = Nil
    <3>1. x # e /\ h.list[x] = Nil /\ x \in Node
      BY <1>1, <1>5, <2>1 DEF HeapType, Node
    <3>2. \A i \in 0..n : x # c[i]
      <4>1. \A i \in 0..n : i = 0 \/ i \in 1..n
        BY <1>1
      <4> QED BY <1>1, <2>1, <3>1, <4>1 DEF Elems, Cycle, Node, Over
    <3>3. h.next[x] = Nil /\ h.prev[x] = Nil
      BY <3>1 DEF HeapOK
    <3> QED BY <1>4, <1>5, <3>1, <3>2, <3>3 DEF Differ, Around
  <2>2. ASSUME NEW x \in Elem, x > m + 1 PROVE g.list[x] = Nil /\ x \notin C
    <3>1. x > m /\ x # e
      BY <1>1, <2>2 DEF Elem
    <3> QED BY <1>1, <1>5, <3>1 DEF HeapOK, HeapType
  <2>3. g.len[l] <= m + 1 /\ m + 1 \in Nat /\ m <= m + 1
    BY <1>1, <1>6
  <2>4. C \in SUBSET Elem
    BY DEF HeapOK
  <2> HIDE DEF d
  <2> QED BY <1>5, <1>9, <1>10, <2>1, <2>2, <2>3, <2>4, Others
<1> QED BY <1>6, <1>9, <1>10, <1>11 DEF e, n, g

\* An element that a caller may pass to its list is on the cycle of the list.
LEMMA Position ==
    ASSUME NEW h, NEW C, NEW m \in Nat, HeapOK(h, C, m), NEW l \in Lists, NEW e \in Elems(h, C, l)
    PROVE  \E c \in [0..h.len[l] -> Node], k \in 1..h.len[l] : Linked(h, C, l, c) /\ e = c[k]
<1>1. PICK c \in [0..h.len[l] -> Node] : Linked(h, C, l, c)
  BY DEF HeapOK, Idle
<1> QED BY <1>1 DEF Linked, Over

LEMMA DelAvoids ==
    ASSUME NEW h, NEW l \in Lists, NEW c, NEW n, Cycle(h, l, c, n), NEW k \in 1..n
    PROVE  \A i \in 0..(n - 1) : Del(c, n, k)[i] # c[k] /\ Del(c, n, k)[i] \in Around(c, n)
<1> DEFINE d == Del(c, n, k)
<1>1. n \in Nat /\ k \in 0..n /\ \A x, y \in 0..n : c[x] = c[y] => x = y
  BY DEF Cycle
<1>2. \A i \in 0..(n - 1) : /\ i < k => d[i] = c[i] /\ i \in 0..n
                            /\ i >= k => d[i] = c[i + 1] /\ i + 1 \in 0..n /\ i + 1 # k
  BY <1>1 DEF Del
<1> HIDE DEF d
<1>3. ASSUME NEW i \in 0..(n - 1) PROVE d[i] # c[k] /\ d[i] \in Around(c, n)
  <2>1. CASE i < k
    BY <1>1, <1>2, <2>1 DEF Around
  <2>2. CASE i >= k
    BY <1>1, <1>2, <2>2 DEF Around
  <2> QED BY <1>1, <2>1, <2>2
<1> QED BY <1>3 DEF d

LEMMA RemoveOK ==
    ASSUME NEW h, NEW C, NEW m \in Nat, HeapOK(h, C, m),
           NEW l \in Lists, NEW c, Linked(h, C, l, c), NEW k \in 1..h.len[l]
    PROVE  /\ HeapOK(remove(h, l, c[k]), C, m)
           /\ Linked(remove(h, l, c[k]), C, l, Del(c, h.len[l], k))
           /\ remove(h, l, c[k]).len[l] = h.len[l] - 1
           /\ \A o \in Lists \ {l} : Keeps(h, C, remove(h, l, c[k]), C, o)
<1> DEFINE e == c[k]
           n == h.len[l]
           u == Unlink(h, c[k])
           g == remove(h, l, c[k])
           d == Del(c, n, k)
<1>1. /\ HeapType(h) /\ Cycle(h, l, c, n) /\ n \in Nat /\ n <= m /\ Over(c, n) = Elems(h, C, l)
      /\ k \in 1..n /\ e \in Elem /\ e \in Elems(h, C, l) /\ h.list[e] = l /\ e = c[k]
      /\ Nil \notin Node /\ Lists \cap Elem = {} /\ e \in Node /\ l \in Node
  BY ListAssumption DEF HeapOK, Linked, Cycle, Over, Elems, Node
<1>2. g = [SetPrev(SetNext(u, e, Nil), e, Nil) EXCEPT !.list[e] = Nil, !.len[l] = @ - 1]
  BY DEF remove
<1>3. /\ Cycle(u, l, d, n - 1)
      /\ Differ(h, u, Around(c, n))
  BY <1>1, UnlinkCycle
<1> HIDE DEF e, n, u, g
<1>4. /\ g.next = [u.next EXCEPT ![e] = Nil] /\ g.prev = [u.prev EXCEPT ![e] = Nil]
      /\ g.list = [h.list EXCEPT ![e] = Nil] /\ g.len = [h.len EXCEPT ![l] = n - 1]
      /\ HeapType(g)
  <2>1. HeapType(u) /\ u.list = h.list /\ u.len = h.len
    BY <1>3 DEF Differ
  <2>2. u = [next |-> u.next, prev |-> u.prev, list |-> u.list, len |-> u.len]
    BY <2>1 DEF HeapType
  <2> DEFINE v == SetNext(u, e, Nil)
             w == SetPrev(v, e, Nil)
  <2>3. /\ v.next = [u.next EXCEPT ![e] = Nil] /\ v.prev = u.prev /\ v.list = u.list /\ v.len = u.len
        /\ v = [next |-> v.next, prev |-> v.prev, list |-> v.list, len |-> v.len]
    BY <2>2 DEF SetNext
  <2>4. /\ g = [w EXCEPT !.list[e] = Nil, !.len[l] = @ - 1]
        /\ w.next = v.next /\ w.prev = [v.prev EXCEPT ![e] = Nil] /\ w.list = v.list /\ w.len = v.len
        /\ w = [next |-> w.next, prev |-> w.prev, list |-> w.list, len |-> w.len]
    <3> HIDE DEF v
    <3> QED BY <1>2, <2>3 DEF SetPrev, v
  <2> HIDE DEF v, w
  <2>6. g = [next |-> w.next, prev |-> w.prev,
             list |-> [w.list EXCEPT ![e] = Nil], len |-> [w.len EXCEPT ![l] = w.len[l] - 1]]
    BY <2>4
  <2>5. u.len[l] = n /\ n - 1 \in Nat
    BY <1>1, <2>1 DEF n
  <2>7. /\ g.next = [u.next EXCEPT ![e] = Nil] /\ g.prev = [u.prev EXCEPT ![e] = Nil]
        /\ g.list = [h.list EXCEPT ![e] = Nil] /\ g.len = [h.len EXCEPT ![l] = n - 1]
        /\ g = [next |-> g.next, prev |-> g.prev, list |-> g.list, len |-> g.len]
    <3>1. /\ g.next = w.next /\ g.prev = w.prev
          /\ g.list = [w.list EXCEPT ![e] = Nil] /\ g.len = [w.len EXCEPT ![l] = w.len[l] - 1]
      BY <2>6
    <3>2. w.next = [u.next EXCEPT ![e] = Nil] /\ w.prev = [u.prev EXCEPT ![e] = Nil] /\ w.list = h.list /\ w.len = h.len
      BY <2>1, <2>3, <2>4
    <3> QED BY <2>1, <2>5, <2>6, <3>1, <3>2
  <2> QED BY <1>1, <2>1, <2>5, <2>7 DEF HeapType
<1>5. g.len[l] = n - 1 /\ \A o \in Lists \ {l} : g.len[o] = h.len[o]
  BY <1>1, <1>4 DEF HeapType
<1>6. \A i \in 0..(n - 1) : d[i] # e /\ d[i] \in Node
  <2>1. \A i \in 0..(n - 1) : d[i] # c[k] /\ d[i] \in Around(c, n)
    <3>1. Cycle(h, l, c, n) /\ k \in 1..n
      BY <1>1
    <3> QED BY <3>1, DelAvoids
  <2>2. \A x \in Around(c, n) : x \in Node
    <3>1. \A i \in 0..n : c[i] \in Node
      BY <1>1 DEF Cycle
    <3> QED BY <3>1 DEF Around
  <2> HIDE DEF d
  <2> QED BY <1>1, <2>1, <2>2
<1>7. Cycle(g, l, d, n - 1)
  <2> HIDE DEF d
  <2>1. \A i \in 1..(n - 1) : g.next[d[i - 1]] = d[i] /\ g.prev[d[i]] = d[i - 1]
    <3>1. \A i \in 1..(n - 1) : i - 1 \in 0..(n - 1) /\ i \in 0..(n - 1)
      BY <1>1
    <3>2. \A i \in 1..(n - 1) : u.next[d[i - 1]] = d[i] /\ u.prev[d[i]] = d[i - 1]
      BY <1>3 DEF Cycle
    <3> QED BY <1>3, <1>4, <1>6, <3>1, <3>2 DEF Differ, HeapType
  <2>2. g.next[d[n - 1]] = l /\ g.prev[l] = d[n - 1]
    <3>1. n - 1 \in 0..(n - 1) /\ 0 \in 0..(n - 1) /\ d[0] = l
      BY <1>1, <1>3 DEF Cycle
    <3>2. u.next[d[n - 1]] = l /\ u.prev[l] = d[n - 1]
      BY <1>3 DEF Cycle
    <3> QED BY <1>1, <1>3, <1>4, <1>6, <3>1, <3>2 DEF Differ, HeapType
  <2> QED BY <1>3, <2>1, <2>2 DEF Cycle
<1>8. /\ Elems(g, C, l) = Elems(h, C, l) \ {e}
      /\ \A o \in Lists \ {l} : Elems(g, C, o) = Elems(h, C, o)
  BY <1>1, <1>4 DEF Elems, HeapType, Node
<1>9. Linked(g, C, l, d)
  <2>1. Over(d, n - 1) = Over(c, n) \ {e}
    <3>1. n \in Nat /\ k \in 1..n /\ \A i, j \in 0..n : c[i] = c[j] => i = j
      BY <1>1 DEF Cycle
    <3> QED BY <1>1, <3>1, DelRange
  <2> HIDE DEF d
  <2> QED BY <1>1, <1>5, <1>7, <1>8, <2>1 DEF Linked
<1>10. ASSUME NEW o \in Lists \ {l} PROVE Keeps(h, C, g, C, o)
  <2>1. ASSUME NEW x \in {o} \cup Elems(h, C, o) PROVE g.next[x] = h.next[x] /\ g.prev[x] = h.prev[x]
    <3>1. x \in Node
      BY <1>1 DEF Elems, Node
    <3>2. \A i \in 0..n : x # c[i]
      BY Apart DEF n
    <3>3. x # e /\ x \notin Around(c, n)
      BY <1>1, <3>2 DEF Around
    <3> QED BY <1>3, <1>4, <3>1, <3>3 DEF Differ, HeapType
  <2> QED BY <1>5, <1>8, <2>1 DEF Keeps
<1>11. HeapOK(g, C, m)
  <2>1. ASSUME NEW x \in Elem, g.list[x] = Nil PROVE g.next[x] = Nil /\ g.prev[x] = Nil
    <3>1. CASE x = e
      BY <1>1, <1>3, <1>4, <3>1 DEF Differ, HeapType
    <3>2. CASE x # e
      <4>1. h.list[x] = Nil /\ x \in Node
        BY <1>1, <1>4, <2>1, <3>2 DEF HeapType, Node
      <4>2. x \notin Around(c, n)
        <5>1. \A i \in 0..n : i = 0 \/ i \in 1..n
          BY <1>1
        <5> QED BY <1>1, <4>1, <5>1 DEF Elems, Cycle, Node, Over, Around
      <4>3. h.next[x] = Nil /\ h.prev[x] = Nil
        BY <4>1 DEF HeapOK
      <4> QED BY <1>3, <1>4, <3>2, <4>1, <4>2, <4>3 DEF Differ, HeapType
    <3> QED BY <3>1, <3>2
  <2>2. ASSUME NEW x \in Elem, x > m PROVE g.list[x] = Nil /\ x \notin C
    BY <1>1, <1>4, <2>2 DEF HeapOK, HeapType
  <2>3. g.len[l] <= m /\ m <= m
    BY <1>1, <1>5
  <2>4. C \in SUBSET Elem
    BY DEF HeapOK
  <2> HIDE DEF d
  <2> QED BY <1>4, <1>9, <1>10, <2>1, <2>2, <2>3, <2>4, Others
<1> QED BY <1>5, <1>9, <1>10, <1>11 DEF e, n, g

LEMMA MoveOK ==
    ASSUME NEW h, NEW C, NEW m \in Nat, HeapOK(h, C, m),
           NEW l \in Lists, NEW c, Linked(h, C, l, c),
           NEW k \in 1..h.len[l], NEW j \in 0..h.len[l], j # k
    PROVE  /\ HeapOK(move(h, c[k], c[j]), C, m)
           /\ Linked(move(h, c[k], c[j]), C, l,
                     Ins(Del(c, h.len[l], k), h.len[l] - 1, IF j < k THEN j ELSE j - 1, c[k]))
           /\ move(h, c[k], c[j]).len = h.len
           /\ \A o \in Lists \ {l} : Keeps(h, C, move(h, c[k], c[j]), C, o)
<1> DEFINE e == c[k]
           n == h.len[l]
           p == n - 1
           i0 == IF j < k THEN j ELSE j - 1
           u == Unlink(h, e)
           g == move(h, c[k], c[j])
           d == Del(c, n, k)
           f == Ins(d, p, i0, e)
<1>1. /\ HeapType(h) /\ Cycle(h, l, c, n) /\ n \in Nat /\ n <= m /\ Over(c, n) = Elems(h, C, l)
      /\ k \in 1..n /\ j \in 0..n /\ e \in Elem /\ e \in Elems(h, C, l) /\ e = c[k]
      /\ Nil \notin Node /\ Lists \cap Elem = {} /\ e \in Node /\ l \in Node
      /\ p \in Nat /\ p = n - 1 /\ i0 \in 0..p /\ p + 1 = n /\ i0 = (IF j < k THEN j ELSE j - 1)
  <2>1. HeapType(h) /\ Cycle(h, l, c, n) /\ Over(c, n) = Elems(h, C, l) /\ n <= m /\ n \in Nat
    BY DEF HeapOK, Linked, Cycle
  <2>2. Nil \notin Node /\ Lists \cap Elem = {} /\ l \in Node
    BY ListAssumption DEF Node
  <2>3. k \in 1..n /\ j \in 0..n /\ e \in Over(c, n)
    BY DEF Over
  <2>4. e \in Elem /\ e \in Node
    BY <2>1, <2>3 DEF Elems, Node
  <2>5. p \in Nat /\ i0 \in 0..p /\ p + 1 = n
    <3> HIDE DEF n
    <3> QED BY <2>1, <2>3
  <2> QED BY <2>1, <2>2, <2>3, <2>4, <2>5
<1>2. e # c[j] /\ d[i0] = c[j]
  <2>1. \A x, y \in 0..n : c[x] = c[y] => x = y
    BY <1>1 DEF Cycle
  <2>2. k \in 0..n /\ j \in 0..n /\ i0 \in 0..(n - 1) /\ (i0 < k => i0 = j) /\ (~(i0 < k) => i0 + 1 = j)
    <3> HIDE DEF n
    <3> QED BY <1>1
  <2>3. d[i0] = IF i0 < k THEN c[i0] ELSE c[i0 + 1]
    <3> HIDE DEF n, i0
    <3> QED BY <2>2 DEF Del
  <2>4. d[i0] = c[j]
    <3> HIDE DEF n, i0, d
    <3> QED BY <2>2, <2>3
  <2> QED BY <2>1, <2>2, <2>4
<1>3. g = LinkAfter(u, e, d[i0])
  BY <1>2 DEF move
<1>4. Cycle(u, l, d, n - 1) /\ Differ(h, u, Around(c, n))
  BY <1>1, UnlinkCycle
<1>5. \A i \in 0..(n - 1) : d[i] # e /\ d[i] \in Around(c, n)
  BY <1>1, DelAvoids
<1>6. Over(d, n - 1) = Over(c, n) \ {e}
  <2>1. n \in Nat /\ k \in 1..n /\ \A x, y \in 0..n : c[x] = c[y] => x = y
    BY <1>1 DEF Cycle
  <2> QED BY <1>1, <2>1, DelRange
<1> HIDE DEF e, n, p, i0, u, g, d
<1>7. Cycle(g, l, f, p + 1) /\ Differ(u, g, {e} \cup Around(d, p))
  <2>1. HeapType(u) /\ Cycle(u, l, d, p) /\ i0 \in 0..p /\ \A i \in 0..p : d[i] # e
    BY <1>1, <1>4, <1>5 DEF Differ
  <2> HIDE DEF f
  <2> QED BY <1>1, <1>3, <2>1, LinkCycle DEF f
<1>8. Differ(h, g, Around(c, n))
  <2>1. {e} \cup Around(d, p) \subseteq Around(c, n)
    <3>1. e \in Around(c, n)
      BY <1>1 DEF Around
    <3>2. \A i \in 0..p : d[i] \in Around(c, n)
      BY <1>1, <1>5
    <3> QED BY <3>1, <3>2 DEF Around
  <2> QED BY <1>4, <1>7, <2>1 DEF Differ
<1>9. Over(f, p + 1) = Over(c, n)
  <2>1. Over(f, p + 1) = Over(d, p) \cup {e}
    <3>1. p \in Nat /\ i0 \in 0..p
      BY <1>1
    <3> QED BY <3>1, InsRange
  <2>2. e \in Over(c, n) /\ Over(d, p) = Over(c, n) \ {e}
    BY <1>1, <1>6 DEF Over
  <2> QED BY <2>1, <2>2
<1> HIDE DEF f
<1>10. g.list = h.list /\ g.len = h.len /\ HeapType(g) /\ \A o \in Lists : Elems(g, C, o) = Elems(h, C, o)
  BY <1>8 DEF Differ, Elems
<1>11. Linked(g, C, l, f)
  BY <1>1, <1>7, <1>9, <1>10 DEF Linked, n
<1>12. ASSUME NEW o \in Lists \ {l} PROVE Keeps(h, C, g, C, o)
  <2>1. ASSUME NEW x \in {o} \cup Elems(h, C, o) PROVE g.next[x] = h.next[x] /\ g.prev[x] = h.prev[x]
    <3>1. x \in Node
      BY <1>1 DEF Elems, Node
    <3>2. \A i \in 0..n : x # c[i]
      BY Apart DEF n
    <3>3. x \notin Around(c, n)
      BY <3>2 DEF Around
    <3> QED BY <1>8, <3>1, <3>3 DEF Differ
  <2> QED BY <1>10, <2>1 DEF Keeps
<1>13. HeapOK(g, C, m)
  <2>1. ASSUME NEW x \in Elem, g.list[x] = Nil PROVE g.next[x] = Nil /\ g.prev[x] = Nil
    <3>1. h.list[x] = Nil /\ x \in Node
      BY <1>10, <2>1 DEF Node
    <3>2. x \notin Around(c, n)
      <4>1. \A i \in 0..n : i = 0 \/ i \in 1..n
        BY <1>1
      <4> QED BY <1>1, <3>1, <4>1 DEF Elems, Cycle, Node, Over, Around
    <3>3. h.next[x] = Nil /\ h.prev[x] = Nil
      BY <3>1 DEF HeapOK
    <3> QED BY <1>8, <3>1, <3>2, <3>3 DEF Differ
  <2>2. C \in SUBSET Elem /\ \A x \in Elem : x > m => g.list[x] = Nil /\ x \notin C
    BY <1>10 DEF HeapOK
  <2>3. g.len[l] <= m /\ m <= m
    BY <1>1, <1>10 DEF n
  <2> QED BY <1>10, <1>11, <1>12, <2>1, <2>2, <2>3, Others
<1> QED BY <1>10, <1>11, <1>12, <1>13 DEF e, n, p, i0, g, d, f

LEMMA ClearOK ==
    ASSUME NEW h, NEW C, NEW m \in Nat, HeapOK(h, C, m), NEW l \in Lists
    PROVE  /\ HeapOK(initList(h, l), C \cup {e \in Elem : h.list[e] = l}, m)
           /\ Linked(initList(h, l), C \cup {e \in Elem : h.list[e] = l}, l, [i \in 0..0 |-> l])
           /\ initList(h, l).len[l] = 0
           /\ \A o \in Lists \ {l} :
                 Keeps(h, C, initList(h, l), C \cup {e \in Elem : h.list[e] = l}, o)
<1> DEFINE D == C \cup {e \in Elem : h.list[e] = l}
           g == initList(h, l)
           c == [i \in 0..0 |-> l]
           v == SetNext(h, l, l)
           w == SetPrev(v, l, l)
<1>1. HeapType(h) /\ l \in Node /\ Nil \notin Node /\ Lists \cap Elem = {}
  BY ListAssumption DEF HeapOK, Node
<1>2. /\ v.next = [h.next EXCEPT ![l] = l] /\ v.prev = h.prev /\ v.list = h.list /\ v.len = h.len
      /\ v = [next |-> v.next, prev |-> v.prev, list |-> v.list, len |-> v.len]
  BY <1>1 DEF SetNext, HeapType
<1>3. /\ g = [w EXCEPT !.len[l] = 0]
      /\ w.next = v.next /\ w.prev = [v.prev EXCEPT ![l] = l] /\ w.list = v.list /\ w.len = v.len
      /\ w = [next |-> w.next, prev |-> w.prev, list |-> w.list, len |-> w.len]
  <2>1. g = [w EXCEPT !.len[l] = 0]
    BY DEF initList
  <2> HIDE DEF v
  <2> QED BY <1>2, <2>1 DEF SetPrev
<1> HIDE DEF v, w, g
<1>4. /\ g.next = [h.next EXCEPT ![l] = l] /\ g.prev = [h.prev EXCEPT ![l] = l]
      /\ g.list = h.list /\ g.len = [h.len EXCEPT ![l] = 0]
      /\ g = [next |-> g.next, prev |-> g.prev, list |-> g.list, len |-> g.len]
  BY <1>2, <1>3
<1>5. HeapType(g)
  BY <1>1, <1>4 DEF HeapType
<1>6. /\ g.next[l] = l /\ g.prev[l] = l /\ g.len[l] = 0
      /\ \A x \in Node \ {l} : g.next[x] = h.next[x] /\ g.prev[x] = h.prev[x]
      /\ \A o \in Lists \ {l} : g.len[o] = h.len[o]
  BY <1>1, <1>4 DEF HeapType
<1>7. /\ Elems(g, D, l) = {}
      /\ \A o \in Lists \ {l} : Elems(g, D, o) = Elems(h, C, o)
  BY <1>4 DEF Elems
<1>8. Linked(g, D, l, c)
  <2>1. Cycle(g, l, c, 0)
    BY <1>1, <1>6 DEF Cycle
  <2>2. Over(c, 0) = {}
    BY DEF Over
  <2> QED BY <1>6, <1>7, <2>1, <2>2 DEF Linked
<1>9. ASSUME NEW o \in Lists \ {l} PROVE Keeps(h, C, g, D, o)
  <2>1. \A x \in {o} \cup Elems(h, C, o) : x \in Node /\ x # l
    BY <1>1 DEF Elems, Node
  <2> QED BY <1>6, <1>7, <2>1 DEF Keeps
<1>10. HeapOK(g, D, m)
  <2>1. \A e \in Elem : e \in Node /\ e # l
    BY <1>1 DEF Node
  <2>2. \A e \in Elem : g.list[e] = Nil => g.next[e] = Nil /\ g.prev[e] = Nil
    BY <1>4, <1>6, <2>1 DEF HeapOK
  <2>3. D \in SUBSET Elem /\ \A e \in Elem : e > m => g.list[e] = Nil /\ e \notin D
    BY <1>1, <1>4 DEF HeapOK, Node
  <2>4. g.len[l] <= m /\ m <= m
    BY <1>6
  <2> HIDE DEF D, c
  <2> QED BY <1>5, <1>8, <1>9, <2>2, <2>3, <2>4, Others
<1> QED BY <1>6, <1>8, <1>9, <1>10 DEF g

LEMMA LazyInitOK ==
    ASSUME NEW h, NEW C, NEW m \in Nat, HeapOK(h, C, m), NEW l \in Lists
    PROVE  /\ HeapOK(lazyInit(h, l), C, m)
           /\ \E c : Linked(lazyInit(h, l), C, l, c) /\ (Idle(h, C, l) \/ Linked(h, C, l, c))
           /\ lazyInit(h, l).len = h.len
           /\ \A o \in Lists : Elems(lazyInit(h, l), C, o) = Elems(h, C, o)
           /\ \A o \in Lists \ {l} : Keeps(h, C, lazyInit(h, l), C, o)
<1>1. CASE h.next[l] # Nil
  <2>1. lazyInit(h, l) = h
    BY <1>1 DEF lazyInit
  <2>2. \E c : Linked(h, C, l, c)
    BY <1>1 DEF HeapOK, Idle
  <2> QED BY <2>1, <2>2 DEF Keeps
<1>2. CASE h.next[l] = Nil
  <2> DEFINE D == C \cup {e \in Elem : h.list[e] = l}
             g == initList(h, l)
  <2>1. lazyInit(h, l) = g
    BY <1>2 DEF lazyInit
  <2>2. Idle(h, C, l)
    <3>1. \A c : Linked(h, C, l, c) => h.next[l] \in Node
      <4> SUFFICES ASSUME NEW c, Linked(h, C, l, c) PROVE h.next[l] \in Node
        OBVIOUS
      <4>1. CASE h.len[l] = 0
        BY <4>1 DEF Linked, Cycle, Node
      <4>2. CASE h.len[l] # 0
        <5>1. 1 \in 1..h.len[l] /\ 1 - 1 = 0
          BY <4>2 DEF Linked, Cycle
        <5> QED BY <5>1 DEF Linked, Cycle, Node
      <4> QED BY <4>1, <4>2
    <3>2. Idle(h, C, l) \/ \E c : Linked(h, C, l, c)
      BY DEF HeapOK
    <3> QED BY <1>2, <3>1, <3>2, ListAssumption
  <2>3. D = C
    BY <2>2 DEF Idle, Elems
  <2>4. /\ HeapOK(g, D, m) /\ \E c : Linked(g, D, l, c)
        /\ g.len[l] = 0
        /\ \A o \in Lists \ {l} : Keeps(h, C, g, D, o)
    <3> HIDE DEF D, g
    <3> QED BY ClearOK DEF D, g
  <2> HIDE DEF D
  <2>5. g.len = h.len
    <3>1. g.len = [h.len EXCEPT ![l] = 0] /\ h.len \in [Lists -> Nat] /\ h.len[l] = 0
      BY <2>2 DEF initList, SetNext, SetPrev, HeapOK, HeapType, Idle
    <3> QED BY <3>1
  <2>6. \A o \in Lists : Elems(g, C, o) = Elems(h, C, o)
    BY DEF initList, SetNext, SetPrev, Elems, HeapOK, HeapType
  <2> HIDE DEF g
  <2> QED BY <2>1, <2>2, <2>3, <2>4, <2>5, <2>6
<1> QED BY <1>1, <1>2

\* Front, Back, Next and Prev on the cycle c.
Adjacent(h, l, c) ==
    /\ Front(h, l) = IF h.len[l] = 0 THEN Nil ELSE c[1]
    /\ Back(h, l)  = IF h.len[l] = 0 THEN Nil ELSE c[h.len[l]]
    /\ \A i \in 1..h.len[l] :
          /\ NextOf(h, c[i]) = IF i = h.len[l] THEN Nil ELSE c[i + 1]
          /\ PrevOf(h, c[i]) = IF i = 1 THEN Nil ELSE c[i - 1]

LEMMA Neighbours ==
    ASSUME NEW h, NEW C, HeapType(h), NEW l \in Lists, NEW c, Linked(h, C, l, c)
    PROVE  Adjacent(h, l, c)
<1> DEFINE n == h.len[l]
<1>1. /\ Cycle(h, l, c, n) /\ n \in Nat /\ Over(c, n) = Elems(h, C, l)
      /\ Nil \notin Node /\ Lists \cap Elem = {} /\ l # Nil
  BY ListAssumption DEF Linked, Cycle, Node
<1> HIDE DEF n
<1>2. Front(h, l) = IF n = 0 THEN Nil ELSE c[1]
  <2>1. n # 0 => 1 \in 1..n /\ 1 - 1 = 0
    BY <1>1
  <2> QED BY <1>1, <2>1 DEF Front, Cycle, n
<1>3. Back(h, l) = IF n = 0 THEN Nil ELSE c[n]
  BY <1>1 DEF Back, Cycle, n
<1>4. ASSUME NEW i \in 1..n
      PROVE  /\ NextOf(h, c[i]) = IF i = n THEN Nil ELSE c[i + 1]
             /\ PrevOf(h, c[i]) = IF i = 1 THEN Nil ELSE c[i - 1]
  <2>1. h.list[c[i]] = l /\ c[i] \in Elem
    BY <1>1 DEF Over, Elems
  <2>2. NextOf(h, c[i]) = IF i = n THEN Nil ELSE c[i + 1]
    <3>1. CASE i = n
      BY <1>1, <2>1, <3>1 DEF NextOf, Cycle
    <3>2. CASE i # n
      <4>1. i + 1 \in 1..n /\ (i + 1) - 1 = i
        BY <1>1, <3>2
      <4>2. h.next[c[i]] = c[i + 1] /\ c[i + 1] \in Elem
        BY <1>1, <4>1 DEF Cycle
      <4> QED BY <1>1, <2>1, <3>2, <4>2 DEF NextOf
    <3> QED BY <3>1, <3>2
  <2>3. PrevOf(h, c[i]) = IF i = 1 THEN Nil ELSE c[i - 1]
    <3>0. h.prev[c[i]] = c[i - 1]
      BY <1>1 DEF Cycle
    <3>1. CASE i = 1
      BY <1>1, <2>1, <3>0, <3>1 DEF PrevOf, Cycle
    <3>2. CASE i # 1
      <4>1. i - 1 \in 1..n
        BY <1>1, <3>2
      <4>2. c[i - 1] \in Elem
        BY <1>1, <4>1 DEF Cycle
      <4> QED BY <1>1, <2>1, <3>0, <3>2, <4>2 DEF PrevOf
    <3> QED BY <3>1, <3>2
  <2> QED BY <2>2, <2>3
<1> QED BY <1>2, <1>3, <1>4 DEF n, Adjacent

-----------------------------------------------------------------------------
(* The rounds of PushBackList (d = "next") and PushFrontList (d = "prev") *)

PushAt(d, h, l)  == IF d = "next" THEN h.prev[l] ELSE l
First(d, h, o)   == IF d = "next" THEN Front(h, o) ELSE Back(h, o)
Step(d, h, e)    == IF d = "next" THEN NextOf(h, e) ELSE PrevOf(h, e)

Round(d, l, m, s, i) ==
    LET h == insert(s.h, l, m + i, PushAt(d, s.h, l))
    IN [h |-> h, e |-> Step(d, h, s.e), val |-> [s.val EXCEPT ![m + i] = s.val[s.e]]]

\* The cycle c over n elements after i rounds, when m elements were made before.
Grown(d, c, n, m, i) ==
    [x \in 0..(n + i) |->
        IF d = "next" THEN IF x <= n THEN c[x] ELSE m + (x - n)
        ELSE IF x = 0 THEN c[0] ELSE IF x <= i THEN m + i + 1 - x ELSE c[x - i]]

\* The element that is copied in round i, and the values after it.
Source(d, c, n, i) == IF d = "next" THEN c[i] ELSE c[n + 1 - i]

Copied(d, val, c, n, m, i) ==
    [e \in Elem |-> IF e > m /\ e <= m + i THEN val[Source(d, c, n, e - m)] ELSE val[e]]

LEMMA GrownStep ==
    ASSUME NEW d \in {"next", "prev"}, NEW c, NEW n \in Nat, NEW m \in Nat, NEW i \in Nat
    PROVE  Grown(d, c, n, m, i + 1) =
               Ins(Grown(d, c, n, m, i), n + i, IF d = "next" THEN n + i ELSE 0, m + i + 1)
<1> DEFINE k == IF d = "next" THEN n + i ELSE 0
           a == Grown(d, c, n, m, i)
           b == Grown(d, c, n, m, i + 1)
<1>1. b = [x \in 0..(n + i + 1) |-> b[x]] /\ Ins(a, n + i, k, m + i + 1) = [x \in 0..(n + i + 1) |-> Ins(a, n + i, k, m + i + 1)[x]]
  BY DEF Grown, Ins
<1>2. ASSUME NEW x \in 0..(n + i + 1) PROVE b[x] = Ins(a, n + i, k, m + i + 1)[x]
  <2>1. Ins(a, n + i, k, m + i + 1)[x] = IF x <= k THEN a[x] ELSE IF x = k + 1 THEN m + i + 1 ELSE a[x - 1]
    BY DEF Ins
  <2>2. CASE d = "next"
    <3>1. x <= n + i \/ x = n + i + 1
      OBVIOUS
    <3> QED BY <2>1, <2>2, <3>1 DEF Grown
  <2>3. CASE d = "prev"
    <3>1. CASE x = 0
      BY <2>1, <2>3, <3>1 DEF Grown
    <3>2. CASE x = 1
      BY <2>1, <2>3, <3>2 DEF Grown
    <3>3. CASE x > 1
      <4>1. /\ x - 1 \in 0..(n + i) /\ x - 1 # 0 /\ x # 0 /\ (x <= i + 1 <=> x - 1 <= i)
            /\ m + (i + 1) + 1 - x = m + i + 1 - (x - 1) /\ x - (i + 1) = (x - 1) - i
        BY <3>3
      <4>2. a[x - 1] = IF x - 1 <= i THEN m + i + 1 - (x - 1) ELSE c[(x - 1) - i]
        BY <2>3, <4>1 DEF Grown
      <4>3. b[x] = IF x <= i + 1 THEN m + (i + 1) + 1 - x ELSE c[x - (i + 1)]
        BY <2>3, <4>1 DEF Grown
      <4> QED BY <2>1, <2>3, <3>3, <4>1, <4>2, <4>3
    <3> QED BY <3>1, <3>2, <3>3
  <2> QED BY <2>2, <2>3
<1> HIDE DEF a, b, k
<1> QED BY <1>1, <1>2 DEF a, b, k

\* The state s after i rounds, when the loop started on heap h0 with values val.
RoundOK(d, h0, C, m, l, c, co, n, val, s, i) ==
    /\ HeapOK(s.h, C, m + i)
    /\ Linked(s.h, C, l, Grown(d, c, h0.len[l], m, i))
    /\ s.h.len[l] = h0.len[l] + i
    /\ \A p \in Lists \ {l} : Keeps(h0, C, s.h, C, p)
    /\ s.val = Copied(d, val, co, n, m, i)
    /\ i < n => s.e = Source(d, co, n, i + 1)

LEMMA KeepsTransitive ==
    ASSUME NEW h, NEW C, NEW g, NEW D, NEW f, NEW E, NEW o, Keeps(h, C, g, D, o), Keeps(g, D, f, E, o)
    PROVE  Keeps(h, C, f, E, o)
BY DEF Keeps

\* The element of o that was copied still has the same neighbour in the heap g
\* that a round leaves behind.
LEMMA NextSource ==
    ASSUME NEW d \in {"next", "prev"}, NEW h0, NEW C, NEW m \in Nat, HeapType(h0),
           NEW l \in Lists, NEW c, Linked(h0, C, l, c),
           NEW o \in Lists, NEW co, Linked(h0, C, o, co), o = l => co = c,
           NEW i \in Nat, i + 1 < h0.len[o],
           NEW g, HeapType(g), Linked(g, C, l, Grown(d, c, h0.len[l], m, i + 1)),
           g.len[l] = h0.len[l] + i + 1, \A p \in Lists \ {l} : Keeps(h0, C, g, C, p)
    PROVE  Step(d, g, Source(d, co, h0.len[o], i + 1)) = Source(d, co, h0.len[o], i + 2)
<1> DEFINE n == h0.len[o]
           G == Grown(d, c, h0.len[l], m, i + 1)
<1>1. n \in Nat /\ i + 1 < n /\ n = h0.len[o]
  BY DEF HeapType
<1> HIDE DEF n
<1>2. CASE o # l
  <2>1. Linked(g, C, o, co) /\ g.len[o] = n
    <3>1. Keeps(h0, C, g, C, o)
      BY <1>2
    <3>2. \A b : Linked(h0, C, o, b) => Linked(g, C, o, b)
      BY <3>1, Frame
    <3> QED BY <1>1, <3>1, <3>2 DEF Keeps
  <2>2. \A x \in 1..n : /\ NextOf(g, co[x]) = IF x = n THEN Nil ELSE co[x + 1]
                        /\ PrevOf(g, co[x]) = IF x = 1 THEN Nil ELSE co[x - 1]
    <3>1. \A x \in 1..g.len[o] : /\ NextOf(g, co[x]) = IF x = g.len[o] THEN Nil ELSE co[x + 1]
                                 /\ PrevOf(g, co[x]) = IF x = 1 THEN Nil ELSE co[x - 1]
      <4>1. Adjacent(g, o, co)
        BY <2>1, Neighbours
      <4> QED BY <4>1 DEF Adjacent
    <3> QED BY <2>1, <3>1
  <2>3. CASE d = "next"
    <3>1. NextOf(g, co[i + 1]) = co[(i + 1) + 1] /\ (i + 1) + 1 = i + 2
      BY <1>1, <2>2
    <3> QED BY <1>1, <2>3, <3>1 DEF Step, Source
  <2>4. CASE d = "prev"
    <3>1. PrevOf(g, co[n - i]) = co[(n - i) - 1]
      BY <1>1, <2>2
    <3>2. n + 1 - (i + 1) = n - i /\ n + 1 - (i + 2) = (n - i) - 1
      BY <1>1
    <3> QED BY <1>1, <2>4, <3>1, <3>2 DEF Step, Source
  <2> QED BY <2>3, <2>4
<1>3. CASE o = l
  <2>1. h0.len[l] = n /\ co = c
    BY <1>1, <1>3
  <2> DEFINE N == n + i + 1
  <2>2. N \in Nat /\ Linked(g, C, l, G) /\ g.len[l] = N
    BY <1>1, <2>1
  <2>3. \A x \in 1..N : /\ NextOf(g, G[x]) = IF x = N THEN Nil ELSE G[x + 1]
                        /\ PrevOf(g, G[x]) = IF x = 1 THEN Nil ELSE G[x - 1]
    <3> HIDE DEF G, N
    <3>1. \A x \in 1..g.len[l] : /\ NextOf(g, G[x]) = IF x = g.len[l] THEN Nil ELSE G[x + 1]
                                 /\ PrevOf(g, G[x]) = IF x = 1 THEN Nil ELSE G[x - 1]
      <4>1. Adjacent(g, l, G)
        BY <2>2, Neighbours
      <4> QED BY <4>1 DEF Adjacent
    <3> QED BY <2>2, <3>1
  <2>4. CASE d = "next"
    <3>1. i + 1 \in 1..N /\ i + 1 # N /\ (i + 1) + 1 = i + 2 /\ i + 1 <= n /\ i + 2 <= n
      BY <1>1
    <3>2. G[i + 1] = c[i + 1] /\ G[i + 2] = c[i + 2]
      BY <1>1, <2>1, <2>4, <3>1 DEF Grown
    <3>3. NextOf(g, G[i + 1]) = G[i + 2]
      <4> HIDE DEF G, N
      <4> QED BY <2>3, <3>1
    <3> QED BY <1>1, <2>1, <2>4, <3>2, <3>3 DEF Step, Source
  <2>5. CASE d = "prev"
    <3>1. n + 1 \in 1..N /\ n + 1 # 1 /\ (n + 1) - 1 = n
      BY <1>1
    <3>2. G[n + 1] = c[n - i] /\ G[n] = c[n - i - 1]
      <4>1. /\ n + 1 \in 0..(n + (i + 1)) /\ n \in 0..(n + (i + 1)) /\ n + 1 # 0 /\ n # 0
            /\ ~(n + 1 <= i + 1) /\ ~(n <= i + 1) /\ (n + 1) - (i + 1) = n - i /\ n - (i + 1) = n - i - 1
        BY <1>1
      <4> QED BY <2>1, <2>5, <4>1 DEF Grown
    <3>3. PrevOf(g, G[n + 1]) = G[n]
      <4> HIDE DEF G, N
      <4> QED BY <2>3, <3>1
    <3>4. n + 1 - (i + 1) = n - i /\ n + 1 - (i + 2) = n - i - 1
      BY <1>1
    <3> QED BY <1>1, <2>1, <2>5, <3>2, <3>3, <3>4 DEF Step, Source
  <2> QED BY <2>4, <2>5
<1> QED BY <1>2, <1>3

LEMMA PushRounds ==
    ASSUME NEW d \in {"next", "prev"}, NEW h0, NEW C, NEW m \in Nat, HeapOK(h0, C, m),
           NEW l \in Lists, NEW c, Linked(h0, C, l, c),
           NEW o \in Lists, NEW n, n = h0.len[o], NEW co, n # 0 => Linked(h0, C, o, co), o = l => co = c,
           m + n <= MaxElems, NEW val, val = [e \in Elem |-> val[e]],
           NEW r, r[0] = [h |-> h0, e |-> First(d, h0, o), val |-> val],
           \A i \in 1..n : r[i] = Round(d, l, m, r[i - 1], i)
    PROVE  \A i \in 0..n : RoundOK(d, h0, C, m, l, c, co, n, val, r[i], i)
<1> DEFINE N == h0.len[l]
           OK(i) == RoundOK(d, h0, C, m, l, c, co, n, val, r[i], i)
           T == {i \in 0..n : OK(i)}
<1>1. /\ HeapType(h0) /\ n \in Nat /\ N \in Nat /\ MaxElems \in Nat
      /\ \A e \in Elem : e > m => h0.list[e] = Nil
      /\ Nil \notin Node
  BY ListAssumption DEF HeapOK, HeapType
<1>2. \A j \in 1..n : co[j] \in Elem /\ co[j] <= m
  <2> SUFFICES ASSUME NEW j \in 1..n PROVE co[j] \in Elem /\ co[j] <= m
    OBVIOUS
  <2>1. Linked(h0, C, o, co)
    BY <1>1
  <2>2. co[j] \in Elem /\ h0.list[co[j]] = o
    BY <2>1 DEF Linked, Over, Elems
  <2> QED BY <1>1, <2>2 DEF Elem, Node
<1>3. OK(0)
  <2>1. Grown(d, c, N, m, 0) = c
    <3>1. c = [x \in 0..N |-> c[x]] /\ c[0] = c[0]
      BY DEF Linked, Cycle
    <3>2. N + 0 = N /\ \A x \in 0..N : (x <= 0 <=> x = 0) /\ x - 0 = x /\ x <= N
      BY <1>1
    <3>3. Grown(d, c, N, m, 0) = [x \in 0..N |-> c[x]]
      BY <1>1, <3>2 DEF Grown
    <3> QED BY <3>1, <3>3
  <2>2. Copied(d, val, co, n, m, 0) = val
    <3>1. \A e \in Elem : ~(e > m /\ e <= m + 0)
      BY DEF Elem
    <3>2. Copied(d, val, co, n, m, 0) = [e \in Elem |-> val[e]]
      BY <3>1 DEF Copied
    <3> QED BY <3>2
  <2>3. 0 < n => First(d, h0, o) = Source(d, co, n, 1)
    <3>1. ASSUME 0 < n
          PROVE  Front(h0, o) = co[1] /\ Back(h0, o) = co[n]
      <4>1. Linked(h0, C, o, co) /\ h0.len[o] # 0
        BY <1>1, <3>1
      <4>2. Adjacent(h0, o, co)
        BY <1>1, <4>1, Neighbours
      <4> QED BY <1>1, <4>1, <4>2 DEF Adjacent
    <3> QED BY <1>1, <3>1 DEF First, Source
  <2>4. r[0].h = h0 /\ r[0].val = val /\ r[0].e = First(d, h0, o) /\ m + 0 = m /\ N + 0 = N /\ 0 + 1 = 1
    BY <1>1
  <2>5. \A p \in Lists \ {l} : Keeps(h0, C, h0, C, p)
    BY DEF Keeps
  <2> QED BY <2>1, <2>2, <2>3, <2>4, <2>5 DEF RoundOK
<1>4. ASSUME NEW i \in 0..n, OK(i), i < n PROVE OK(i + 1)
  <2> DEFINE s == r[i]
             G == Grown(d, c, N, m, i)
             k == IF d = "next" THEN N + i ELSE 0
             g == insert(s.h, l, m + i + 1, G[k])
             j == i + 1
  <2>0. Linked(h0, C, o, co) /\ i \in Nat /\ j \in 1..n /\ j - 1 = i /\ j = i + 1 /\ m + i + 1 = m + j /\ N + i + 1 = N + j
    BY <1>1, <1>4
  <2>1. /\ HeapOK(s.h, C, m + i) /\ Linked(s.h, C, l, G) /\ s.h.len[l] = N + i
        /\ \A p \in Lists \ {l} : Keeps(h0, C, s.h, C, p)
        /\ s.val = Copied(d, val, co, n, m, i)
        /\ s.e = Source(d, co, n, j)
    BY <1>4, <2>0 DEF RoundOK
  <2>2. G[k] = PushAt(d, s.h, l)
    <3>1. s.h.prev[l] = G[N + i] /\ G[0] = l
      <4> HIDE DEF s, G, N
      <4>1. Cycle(s.h, l, G, N + i)
        BY <2>1 DEF Linked
      <4> QED BY <4>1 DEF Cycle
    <3> HIDE DEF s, G, N
    <3> QED BY <3>1 DEF PushAt
  <2>3. /\ HeapOK(g, C, m + i + 1)
        /\ Linked(g, C, l, Ins(G, N + i, k, m + i + 1))
        /\ g.len[l] = N + i + 1
        /\ \A p \in Lists \ {l} : Keeps(s.h, C, g, C, p)
    <3>1. m + i \in Nat /\ m + i < MaxElems /\ k \in 0..s.h.len[l] /\ s.h.len[l] = N + i
      BY <1>1, <1>4, <2>0, <2>1
    <3> HIDE DEF s, G, k
    <3> QED BY <2>1, <3>1, InsertOK
  <2>4. Linked(g, C, l, Grown(d, c, N, m, j))
    <3>1. Grown(d, c, N, m, i + 1) = Ins(G, N + i, k, m + i + 1)
      BY <1>1, <2>0, GrownStep
    <3> QED BY <2>3, <3>1
  <2>5. \A p \in Lists \ {l} : Keeps(h0, C, g, C, p)
    <3> HIDE DEF s, g
    <3> QED BY <2>1, <2>3, KeepsTransitive
  <2>6. r[j] = [h |-> g, e |-> Step(d, g, s.e), val |-> [s.val EXCEPT ![m + j] = s.val[s.e]]]
    <3>1. r[j] = Round(d, l, m, s, j)
      BY <2>0
    <3> HIDE DEF s, G, k, j
    <3> QED BY <2>0, <2>2, <3>1 DEF Round
  <2>7. j < n => Step(d, g, s.e) = Source(d, co, n, j + 1)
    <3> SUFFICES ASSUME j < n PROVE Step(d, g, Source(d, co, n, j)) = Source(d, co, n, j + 1)
      BY <2>1
    <3>1. HeapType(g) /\ g.len[l] = N + i + 1 /\ i + 1 < h0.len[o] /\ j + 1 = i + 2
      <4> HIDE DEF g
      <4> QED BY <2>0, <2>3 DEF HeapOK
    <3> HIDE DEF g
    <3>2. Step(d, g, Source(d, co, h0.len[o], i + 1)) = Source(d, co, h0.len[o], i + 2)
      BY <1>1, <2>0, <2>4, <2>5, <3>1, NextSource
    <3> QED BY <3>1, <3>2
  <2>8. [s.val EXCEPT ![m + j] = s.val[s.e]] = Copied(d, val, co, n, m, j)
    <3>1. Source(d, co, n, j) \in Elem /\ Source(d, co, n, j) <= m
      <4>1. n + 1 - j \in 1..n
        BY <1>1, <2>0
      <4> QED BY <1>2, <2>0, <4>1 DEF Source
    <3>2. s.val[s.e] = val[Source(d, co, n, j)]
      <4>1. ~(Source(d, co, n, j) > m)
        BY <3>1 DEF Elem
      <4> QED BY <2>1, <3>1, <4>1 DEF Copied
    <3>3. m + j \in Elem /\ (m + j) - m = j
      <4>1. j \in Nat /\ 1 <= j /\ j <= n /\ n \in Nat /\ MaxElems \in Nat
        BY <1>1, <2>0
      <4> HIDE DEF j
      <4> QED BY <4>1 DEF Elem
    <3>4. \A e \in Elem : e # m + j => (e <= m + i <=> e <= m + j)
      BY <2>0 DEF Elem
    <3>5. m + j > m /\ m + j <= m + j
      BY <1>1, <2>0
    <3> HIDE DEF s, j
    <3>6. s.val = [e \in Elem |-> IF e > m /\ e <= m + i THEN val[Source(d, co, n, e - m)] ELSE val[e]]
      BY <2>1 DEF Copied
    <3> QED BY <3>2, <3>3, <3>4, <3>5, <3>6 DEF Copied
  <2>9. r[j].h = g /\ r[j].e = Step(d, g, s.e) /\ r[j].val = [s.val EXCEPT ![m + j] = s.val[s.e]]
    BY <2>6
  <2> HIDE DEF s, G, k, g
  <2> QED BY <2>0, <2>3, <2>4, <2>5, <2>7, <2>8, <2>9 DEF RoundOK
<1>5. 0..n \subseteq T
  <2>1. 0 \in T
    BY <1>1, <1>3
  <2>2. ASSUME NEW i \in 0..n, i \in T, i < n PROVE i + 1 \in T
    <3>1. i + 1 \in 0..n
      BY <1>1, <2>2
    <3> HIDE DEF OK
    <3> QED BY <1>4, <2>2, <3>1
  <2> HIDE DEF T
  <2> QED BY <1>1, <2>1, <2>2, Induction
<1> QED BY <1>5

\* r lists the states of the loop after 0, 1, ..., n rounds, which starts with a.
Rounds(r, n, d, l, m, a) ==
    r = [i \in 0..n |-> IF i = 0 THEN a ELSE Round(d, l, m, r[i - 1], i)]

LEMMA RoundsExist ==
    ASSUME NEW n \in Nat, NEW d, NEW l, NEW m, NEW a
    PROVE  \E r : Rounds(r, n, d, l, m, a)
<1> DEFINE P(r, k) == r = [i \in 0..k |-> IF i = 0 THEN a ELSE Round(d, l, m, r[i - 1], i)]
           T == {k \in 0..n : \E r : P(r, k)}
<1>1. 0 \in T
  <2> DEFINE r == [i \in 0..0 |-> a]
  <2>1. P(r, 0)
    OBVIOUS
  <2> HIDE DEF P
  <2> QED BY <2>1
<1>2. ASSUME NEW k \in 0..n, k \in T, k < n PROVE k + 1 \in T
  <2>1. PICK r : P(r, k)
    BY <1>2
  <2> DEFINE q == [i \in 0..(k + 1) |-> IF i <= k THEN r[i] ELSE Round(d, l, m, r[k], k + 1)]
  <2>2. ASSUME NEW i \in 0..(k + 1) PROVE q[i] = IF i = 0 THEN a ELSE Round(d, l, m, q[i - 1], i)
    <3>1. CASE i = 0
      BY <2>1, <3>1
    <3>2. CASE i # 0 /\ i <= k
      <4>1. i \in 0..k /\ i - 1 \in 0..(k + 1) /\ i - 1 <= k
        BY <3>2
      <4>2. q[i] = r[i] /\ q[i - 1] = r[i - 1]
        BY <3>2, <4>1
      <4>3. r[i] = Round(d, l, m, r[i - 1], i)
        BY <2>1, <3>2, <4>1
      <4> QED BY <3>2, <4>2, <4>3
    <3>3. CASE i = k + 1
      <4>1. i - 1 = k /\ k \in 0..(k + 1) /\ i # 0 /\ ~(i <= k)
        BY <3>3
      <4>2. q[i - 1] = r[k] /\ q[i] = Round(d, l, m, r[k], k + 1)
        BY <3>3, <4>1
      <4> QED BY <3>3, <4>1, <4>2
    <3> QED BY <3>1, <3>2, <3>3
  <2>3. P(q, k + 1)
    <3>1. q = [i \in 0..(k + 1) |-> q[i]]
      OBVIOUS
    <3> HIDE DEF q
    <3> QED BY <2>2, <3>1
  <2>4. k + 1 \in 0..n
    BY <1>2
  <2> HIDE DEF P, q
  <2> QED BY <2>3, <2>4
<1>3. 0..n \subseteq T
  <2> HIDE DEF T
  <2> QED BY <1>1, <1>2, Induction
<1> QED BY <1>3 DEF Rounds

-----------------------------------------------------------------------------
(* The invariant *)

LInv ==
    /\ HeapOK(heap, cleared, made)
    /\ value \in [Elem -> Value \cup {Nil}]
    /\ made \in 0..MaxElems

\* c is the cycle of list l, unless l was not used yet.
Cyclic(l, c) == Idle(heap, cleared, l) \/ Linked(heap, cleared, l, c)

\* The cycle c of list l becomes f, with n elements, and no other list changes.
Becomes(l, c, f, n) ==
    /\ Cyclic(l, c)
    /\ HeapOK(heap', cleared', made')
    /\ Linked(heap', cleared', l, f)
    /\ heap'.len[l] = n
    /\ \A o \in Lists \ {l} : Keeps(heap, cleared, heap', cleared', o)

\* What the calls of PushBackList and PushFrontList do, all rounds together.
Pushed(d, l, o, c, co) ==
    LET n == heap.len[o]
        N == heap.len[l]
    IN /\ Becomes(l, c, Grown(d, c, N, made, n), N + n)
       /\ n # 0 => Linked(heap, cleared, o, co)
       /\ o = l => co = c
       /\ made + n <= MaxElems
       /\ made' = made + n
       /\ value' = Copied(d, value, co, n, made, n)

LEMMA PushListEffect ==
    ASSUME LInv, NEW l \in Lists, NEW o \in Lists, NEW d,
           \/ d = "next" /\ PushBackList(l, o)
           \/ d = "prev" /\ PushFrontList(l, o)
    PROVE  \E c, co : Pushed(d, l, o, c, co)
<1> DEFINE h0 == lazyInit(heap, l)
           n  == h0.len[o]
           a  == [h |-> h0, e |-> First(d, h0, o), val |-> value]
<1>1. PICK c : /\ HeapOK(h0, cleared, made) /\ Linked(h0, cleared, l, c)
               /\ Idle(heap, cleared, l) \/ Linked(heap, cleared, l, c)
  <2>1. HeapOK(heap, cleared, made) /\ made \in Nat
    BY DEF LInv
  <2> QED BY <2>1, LazyInitOK
<1>2. /\ h0.len = heap.len
      /\ \A p \in Lists : Elems(h0, cleared, p) = Elems(heap, cleared, p)
      /\ \A p \in Lists \ {l} : Keeps(heap, cleared, h0, cleared, p)
  <2>1. HeapOK(heap, cleared, made) /\ made \in Nat
    BY DEF LInv
  <2> QED BY <2>1, LazyInitOK
<1> HIDE DEF h0
<1>3. n \in Nat /\ n = heap.len[o]
  BY <1>1, <1>2 DEF HeapOK, HeapType
<1>4. PICK co : (n # 0 => Linked(h0, cleared, o, co) /\ Linked(heap, cleared, o, co)) /\ (o = l => co = c)
  <2>1. CASE o = l
    <3>1. n # 0 => ~Idle(heap, cleared, l)
      <4> HIDE DEF n
      <4> QED BY <1>3, <2>1 DEF Idle
    <3> QED BY <1>1, <2>1, <3>1
  <2>2. CASE o # l
    <3>1. Idle(heap, cleared, o) \/ \E b : Linked(heap, cleared, o, b)
      BY DEF LInv, HeapOK
    <3>2. Keeps(heap, cleared, h0, cleared, o)
      BY <1>2, <2>2
    <3>3. \A b : Linked(heap, cleared, o, b) => Linked(h0, cleared, o, b)
      BY <3>2, Frame
    <3>4. n # 0 => ~Idle(heap, cleared, o)
      <4> HIDE DEF n
      <4> QED BY <1>3 DEF Idle
    <3> QED BY <2>2, <3>1, <3>3, <3>4
  <2> QED BY <2>1, <2>2
<1>5. /\ made + n <= MaxElems
      /\ made' = made + n
      /\ UNCHANGED cleared
      /\ d \in {"next", "prev"}
  BY Zenon DEF PushBackList, PushFrontList, PushList, h0
<1>6. PICK r : Rounds(r, n, d, l, made, a) /\ heap' = r[n].h /\ value' = r[n].val
  <2>1. PICK f : Rounds(f, n, d, l, made, a)
    <3> HIDE DEF a, n
    <3> QED BY <1>3, RoundsExist
  <2>2. CASE d = "next" /\ PushBackList(l, o)
    <3> DEFINE Q(r) == r = [i \in 0..n |->
                               IF i = 0 THEN [h |-> h0, e |-> Front(h0, o), val |-> value]
                               ELSE LET s == r[i - 1]
                                        h == insert(s.h, l, made + i, s.h.prev[l])
                                    IN [h |-> h, e |-> NextOf(h, s.e), val |-> [s.val EXCEPT ![made + i] = s.val[s.e]]]]
    <3>1. heap' = (CHOOSE r : Q(r))[n].h /\ value' = (CHOOSE r : Q(r))[n].val
      BY <2>2, Zenon DEF PushBackList, PushList, h0
    <3>2. ASSUME NEW r PROVE Q(r) <=> Rounds(r, n, d, l, made, a)
      BY <2>2 DEF Rounds, Round, First, Step, PushAt
    <3> HIDE DEF Q, a
    <3>3. Q(CHOOSE r : Q(r))
      <4>1. Q(f)
        BY <2>1, <3>2
      <4> QED BY <4>1, Zenon
    <3> QED BY <3>1, <3>2, <3>3, Zenon
  <2>3. CASE d = "prev" /\ PushFrontList(l, o)
    <3> DEFINE Q(r) == r = [i \in 0..n |->
                               IF i = 0 THEN [h |-> h0, e |-> Back(h0, o), val |-> value]
                               ELSE LET s == r[i - 1]
                                        h == insert(s.h, l, made + i, l)
                                    IN [h |-> h, e |-> PrevOf(h, s.e), val |-> [s.val EXCEPT ![made + i] = s.val[s.e]]]]
    <3>1. heap' = (CHOOSE r : Q(r))[n].h /\ value' = (CHOOSE r : Q(r))[n].val
      BY <2>3, Zenon DEF PushFrontList, PushList, h0
    <3>2. ASSUME NEW r PROVE Q(r) <=> Rounds(r, n, d, l, made, a)
      BY <2>3 DEF Rounds, Round, First, Step, PushAt
    <3> HIDE DEF Q, a
    <3>3. Q(CHOOSE r : Q(r))
      <4>1. Q(f)
        BY <2>1, <3>2
      <4> QED BY <4>1, Zenon
    <3> QED BY <3>1, <3>2, <3>3, Zenon
  <2> QED BY <2>2, <2>3
<1>7. \A i \in 0..n : RoundOK(d, h0, cleared, made, l, c, co, n, value, r[i], i)
  <2>1. r[0] = [h |-> h0, e |-> First(d, h0, o), val |-> value]
    BY <1>3, <1>6 DEF Rounds
  <2>2. ASSUME NEW i \in 1..n PROVE r[i] = Round(d, l, made, r[i - 1], i)
    <3> HIDE DEF a, n
    <3> QED BY <1>3, <1>6 DEF Rounds
  <2>3. made \in Nat /\ value = [e \in Elem |-> value[e]]
    BY DEF LInv
  <2>4. d \in {"next", "prev"} /\ n = h0.len[o] /\ made + n <= MaxElems
    BY <1>5
  <2>5. n # 0 => Linked(h0, cleared, o, co)
    BY <1>4
  <2> HIDE DEF n
  <2> QED BY <1>1, <1>4, <2>1, <2>2, <2>3, <2>4, <2>5, PushRounds
<1>8. RoundOK(d, h0, cleared, made, l, c, co, n, value, r[n], n)
  BY <1>3, <1>7
<1>9. \A p \in Lists \ {l} : Keeps(heap, cleared, heap', cleared, p)
  <2>1. \A p \in Lists \ {l} : Keeps(h0, cleared, heap', cleared, p)
    BY <1>6, <1>8 DEF RoundOK
  <2> QED BY <1>2, <2>1, KeepsTransitive
<1> HIDE DEF n
<1>10. Pushed(d, l, o, c, co)
  BY <1>1, <1>2, <1>3, <1>4, <1>5, <1>6, <1>8, <1>9 DEF RoundOK, Pushed, Becomes, Cyclic
<1> QED BY <1>10

-----------------------------------------------------------------------------
(* What each method does to the cycle of its list *)

Inserted(l, v, c, k) ==
    /\ k \in 0..heap.len[l]
    /\ Becomes(l, c, Ins(c, heap.len[l], k, made + 1), heap.len[l] + 1)
    /\ made < MaxElems
    /\ made' = made + 1
    /\ value' = [value EXCEPT ![made + 1] = v]

Rearranged(l, c, f, n) ==
    /\ Becomes(l, c, f, n)
    /\ UNCHANGED <<value, made>>

LEMMA InsertEffect ==
    ASSUME LInv, NEW l \in Lists, NEW v \in Value, NEW h, NEW c, NEW k \in 0..h.len[l],
           HeapOK(h, cleared, made), Linked(h, cleared, l, c), h.len = heap.len,
           Cyclic(l, c),
           \A o \in Lists \ {l} : Keeps(heap, cleared, h, cleared, o),
           insertValue(h, l, v, c[k])
    PROVE  Inserted(l, v, c, k)
<1>1. made \in Nat /\ made < MaxElems /\ made' = made + 1 /\ heap' = insert(h, l, made + 1, c[k]) /\ cleared' = cleared
  BY DEF LInv, insertValue
<1>2. /\ HeapOK(heap', cleared, made + 1)
      /\ Linked(heap', cleared, l, Ins(c, h.len[l], k, made + 1))
      /\ heap'.len[l] = h.len[l] + 1
      /\ \A o \in Lists \ {l} : Keeps(h, cleared, heap', cleared, o)
  BY <1>1, InsertOK
<1>3. \A o \in Lists \ {l} : Keeps(heap, cleared, heap', cleared, o)
  BY <1>2, KeepsTransitive
<1> QED BY <1>1, <1>2, <1>3 DEF Inserted, Becomes, insertValue

LEMMA PushEffect ==
    ASSUME LInv, NEW l \in Lists, NEW v \in Value
    PROVE  /\ PushFront(l, v) => \E c : Inserted(l, v, c, 0)
           /\ PushBack(l, v) => \E c : Inserted(l, v, c, heap.len[l])
<1> DEFINE h == lazyInit(heap, l)
<1>1. HeapOK(heap, cleared, made) /\ made \in Nat
  BY DEF LInv
<1>2. PICK c : /\ HeapOK(h, cleared, made) /\ Linked(h, cleared, l, c)
               /\ Idle(heap, cleared, l) \/ Linked(heap, cleared, l, c)
  BY <1>1, LazyInitOK
<1>3. h.len = heap.len /\ \A o \in Lists \ {l} : Keeps(heap, cleared, h, cleared, o)
  BY <1>1, LazyInitOK
<1> HIDE DEF h
<1>4. Cyclic(l, c)
  BY <1>2, <1>3 DEF Cyclic, Idle, Linked, Cycle
<1>5. h.len[l] \in Nat /\ c[0] = l /\ c[h.len[l]] = h.prev[l]
  BY <1>2 DEF Linked, Cycle
<1>6. ASSUME PushFront(l, v) PROVE Inserted(l, v, c, 0)
  <2>1. insertValue(h, l, v, c[0]) /\ 0 \in 0..h.len[l]
    BY <1>5, <1>6 DEF PushFront, h
  <2> QED BY <1>2, <1>3, <1>4, <2>1, InsertEffect
<1>7. ASSUME PushBack(l, v) PROVE Inserted(l, v, c, heap.len[l])
  <2>1. insertValue(h, l, v, c[h.len[l]]) /\ h.len[l] \in 0..h.len[l]
    BY <1>5, <1>7 DEF PushBack, h
  <2>2. Inserted(l, v, c, h.len[l])
    BY <1>2, <1>3, <1>4, <2>1, InsertEffect
  <2> QED BY <1>3, <2>2
<1> QED BY <1>6, <1>7

\* An element that may be passed is in list l, and then on its cycle, or it is not.
LEMMA Passed ==
    ASSUME LInv, NEW l \in Lists, NEW e \in Handle
    PROVE  /\ e \in Elem
           /\ heap.list[e] = l =>
                 \E c : /\ Linked(heap, cleared, l, c)
                        /\ \E k \in 1..heap.len[l] : e = c[k]
<1>1. e \in Elem /\ e \notin cleared
  BY ListAssumption DEF LInv, Handle, Elem
<1>2. ASSUME heap.list[e] = l
      PROVE  \E c : Linked(heap, cleared, l, c) /\ \E k \in 1..heap.len[l] : e = c[k]
  <2>1. e \in Elems(heap, cleared, l) /\ HeapOK(heap, cleared, made) /\ made \in Nat
    BY <1>1, <1>2 DEF Elems, LInv
  <2> QED BY <2>1, Position
<1> QED BY <1>1, <1>2

LEMMA InsertMarkEffect ==
    ASSUME LInv, NEW l \in Lists, NEW v \in Value, NEW c, Linked(heap, cleared, l, c),
           NEW k \in 1..heap.len[l]
    PROVE  /\ InsertBefore(l, v, c[k]) => Inserted(l, v, c, k - 1)
           /\ InsertAfter(l, v, c[k]) => Inserted(l, v, c, k)
<1>1. /\ heap.list[c[k]] = l /\ heap.prev[c[k]] = c[k - 1]
      /\ k - 1 \in 0..heap.len[l] /\ k \in 0..heap.len[l]
  BY DEF Linked, Cycle, Over, Elems
<1>2. HeapOK(heap, cleared, made) /\ \A o \in Lists \ {l} : Keeps(heap, cleared, heap, cleared, o)
  BY DEF LInv, Keeps
<1>3. ASSUME InsertBefore(l, v, c[k]) PROVE Inserted(l, v, c, k - 1)
  <2>1. insertValue(heap, l, v, c[k - 1])
    BY <1>1, <1>3 DEF InsertBefore
  <2> QED BY <1>1, <1>2, <2>1, InsertEffect DEF Cyclic
<1>4. ASSUME InsertAfter(l, v, c[k]) PROVE Inserted(l, v, c, k)
  <2>1. insertValue(heap, l, v, c[k])
    BY <1>1, <1>4 DEF InsertAfter
  <2> QED BY <1>1, <1>2, <2>1, InsertEffect DEF Cyclic
<1> QED BY <1>3, <1>4

LEMMA RemoveEffect ==
    ASSUME LInv, NEW l \in Lists, NEW c, Linked(heap, cleared, l, c), NEW k \in 1..heap.len[l],
           Remove(l, c[k])
    PROVE  Rearranged(l, c, Del(c, heap.len[l], k), heap.len[l] - 1)
<1>1. heap.list[c[k]] = l
  BY DEF Linked, Cycle, Over, Elems
<1>2. heap' = remove(heap, l, c[k]) /\ UNCHANGED <<value, made, cleared>>
  BY <1>1 DEF Remove, Heap
<1>3. HeapOK(heap, cleared, made) /\ made \in Nat
  BY DEF LInv
<1>4. /\ HeapOK(heap', cleared, made)
      /\ Linked(heap', cleared, l, Del(c, heap.len[l], k))
      /\ heap'.len[l] = heap.len[l] - 1
      /\ \A o \in Lists \ {l} : Keeps(heap, cleared, heap', cleared, o)
  BY <1>2, <1>3, RemoveOK
<1> QED BY <1>2, <1>4 DEF Rearranged, Becomes, Cyclic

\* The cycle after element k was moved behind node j.
MovedTo(c, n, k, j) ==
    IF j = k THEN c ELSE Ins(Del(c, n, k), n - 1, IF j < k THEN j ELSE j - 1, c[k])

LEMMA MoveEffect ==
    ASSUME LInv, NEW l \in Lists, NEW c, Linked(heap, cleared, l, c),
           NEW k \in 1..heap.len[l], NEW j \in 0..heap.len[l], Heap(move(heap, c[k], c[j]))
    PROVE  Rearranged(l, c, MovedTo(c, heap.len[l], k, j), heap.len[l])
<1>1. heap' = move(heap, c[k], c[j]) /\ UNCHANGED <<value, made, cleared>>
  BY DEF Heap
<1>2. HeapOK(heap, cleared, made) /\ made \in Nat
  BY DEF LInv
<1>3. CASE j = k
  <2>1. heap' = heap
    BY <1>1, <1>3 DEF move
  <2> QED BY <1>1, <1>2, <1>3, <2>1 DEF Rearranged, Becomes, Cyclic, Keeps, MovedTo
<1>4. CASE j # k
  <2>1. /\ HeapOK(heap', cleared, made)
        /\ Linked(heap', cleared, l,
                  Ins(Del(c, heap.len[l], k), heap.len[l] - 1, IF j < k THEN j ELSE j - 1, c[k]))
        /\ heap'.len = heap.len
        /\ \A o \in Lists \ {l} : Keeps(heap, cleared, heap', cleared, o)
    BY <1>1, <1>2, <1>4, MoveOK
  <2> QED BY <1>1, <1>4, <2>1 DEF Rearranged, Becomes, Cyclic, MovedTo
<1> QED BY <1>3, <1>4

LEMMA ClearEffect ==
    ASSUME LInv, NEW l \in Lists, Clear(l)
    PROVE  \E c : Rearranged(l, c, [i \in 0..0 |-> l], 0)
<1>1. /\ heap' = initList(heap, l) /\ UNCHANGED <<value, made>>
      /\ cleared' = cleared \cup {e \in Elem : heap.list[e] = l}
  BY DEF Clear
<1>2. HeapOK(heap, cleared, made) /\ made \in Nat
  BY DEF LInv
<1>3. /\ HeapOK(heap', cleared', made)
      /\ Linked(heap', cleared', l, [i \in 0..0 |-> l])
      /\ heap'.len[l] = 0
      /\ \A o \in Lists \ {l} : Keeps(heap, cleared, heap', cleared', o)
  BY <1>1, <1>2, ClearOK
<1>4. \E c : Cyclic(l, c)
  BY <1>2 DEF HeapOK, Cyclic
<1> QED BY <1>1, <1>3, <1>4 DEF Rearranged, Becomes

\* The methods that move an element to an end of its list, or to another element.
LEMMA MoveMethods ==
    ASSUME LInv, NEW l \in Lists, NEW c, Linked(heap, cleared, l, c), NEW k \in 1..heap.len[l]
    PROVE  LET n == heap.len[l] IN
           /\ MoveToFront(l, c[k]) =>
                 IF k = 1 THEN NoChange ELSE Rearranged(l, c, MovedTo(c, n, k, 0), n)
           /\ MoveToBack(l, c[k]) =>
                 IF k = n THEN NoChange ELSE Rearranged(l, c, MovedTo(c, n, k, n), n)
           /\ \A q \in 1..n :
                 /\ MoveBefore(l, c[k], c[q]) =>
                       IF k = q THEN NoChange ELSE Rearranged(l, c, MovedTo(c, n, k, q - 1), n)
                 /\ MoveAfter(l, c[k], c[q]) =>
                       IF k = q THEN NoChange ELSE Rearranged(l, c, MovedTo(c, n, k, q), n)
<1> DEFINE n == heap.len[l]
<1>1. /\ n \in Nat /\ 0 \in 0..n /\ n \in 0..n /\ k \in 0..n /\ c[0] = l
      /\ \A q \in 1..n : /\ heap.list[c[q]] = l /\ heap.prev[c[q]] = c[q - 1]
                         /\ q - 1 \in 0..n /\ q \in 0..n
      /\ heap.next[l] = c[1] /\ 1 \in 0..n /\ heap.prev[l] = c[n]
      /\ \A i, j \in 0..n : c[i] = c[j] => i = j
  <2>1. 1 \in 1..n /\ 1 - 1 = 0 /\ n \in Nat
    BY DEF Linked, Cycle
  <2> QED BY <2>1 DEF Linked, Cycle, Over, Elems
<1>2. \A j \in 0..n : Heap(move(heap, c[k], c[j])) => Rearranged(l, c, MovedTo(c, n, k, j), n)
  BY MoveEffect
<1> HIDE DEF n
<1>3. ASSUME MoveToFront(l, c[k])
      PROVE  IF k = 1 THEN NoChange ELSE Rearranged(l, c, MovedTo(c, n, k, 0), n)
  <2>1. IF k = 1 THEN NoChange ELSE Heap(move(heap, c[k], c[0]))
    BY <1>1, <1>3 DEF MoveToFront, n
  <2> QED BY <1>1, <1>2, <2>1
<1>4. ASSUME MoveToBack(l, c[k])
      PROVE  IF k = n THEN NoChange ELSE Rearranged(l, c, MovedTo(c, n, k, n), n)
  <2>1. IF k = n THEN NoChange ELSE Heap(move(heap, c[k], c[n]))
    BY <1>1, <1>4 DEF MoveToBack, n
  <2> QED BY <1>1, <1>2, <2>1
<1>5. ASSUME NEW q \in 1..n, MoveBefore(l, c[k], c[q])
      PROVE  IF k = q THEN NoChange ELSE Rearranged(l, c, MovedTo(c, n, k, q - 1), n)
  <2>1. IF k = q THEN NoChange ELSE Heap(move(heap, c[k], c[q - 1]))
    BY <1>1, <1>5 DEF MoveBefore, n
  <2> QED BY <1>1, <1>2, <2>1
<1>6. ASSUME NEW q \in 1..n, MoveAfter(l, c[k], c[q])
      PROVE  IF k = q THEN NoChange ELSE Rearranged(l, c, MovedTo(c, n, k, q), n)
  <2>1. IF k = q THEN NoChange ELSE Heap(move(heap, c[k], c[q]))
    BY <1>1, <1>6 DEF MoveAfter, n
  <2> QED BY <1>1, <1>2, <2>1
<1> QED BY <1>3, <1>4, <1>5, <1>6 DEF n

-----------------------------------------------------------------------------
(* The invariant holds *)

LEMMA InitOK == Init => LInv
<1> SUFFICES ASSUME Init PROVE LInv
  OBVIOUS
<1>1. HeapType(heap)
  BY DEF Init, HeapType
<1>2. \A l \in Lists : Idle(heap, cleared, l) /\ heap.len[l] <= made
  <2> SUFFICES ASSUME NEW l \in Lists PROVE Idle(heap, cleared, l) /\ heap.len[l] <= made
    OBVIOUS
  <2>1. heap.next[l] = Nil /\ heap.prev[l] = Nil /\ heap.len[l] = 0 /\ made = 0
    BY DEF Init, Node
  <2>2. \A e \in Elem : heap.list[e] # l
    BY ListAssumption DEF Init, Node
  <2> QED BY <2>1, <2>2 DEF Idle, Elems
<1>3. \A e \in Elem : heap.list[e] = Nil /\ heap.next[e] = Nil /\ heap.prev[e] = Nil /\ e \notin cleared
  BY DEF Init, Node
<1>4. cleared \in SUBSET Elem /\ value \in [Elem -> Value \cup {Nil}] /\ made \in 0..MaxElems
  BY ListAssumption DEF Init
<1> QED BY <1>1, <1>2, <1>3, <1>4 DEF LInv, HeapOK

LEMMA MethodOK ==
    ASSUME LInv, NEW l \in Lists, NEW c
    PROVE  /\ \A v \in Value : \A k : Inserted(l, v, c, k) => LInv'
           /\ \A f, n : Rearranged(l, c, f, n) => LInv'
           /\ NoChange => LInv'
<1>1. ASSUME NEW v \in Value, NEW k, Inserted(l, v, c, k) PROVE LInv'
  <2>1. made' \in 0..MaxElems
    BY <1>1, ListAssumption DEF LInv, Inserted
  <2>2. value' \in [Elem -> Value \cup {Nil}]
    BY <1>1 DEF LInv, Inserted
  <2> QED BY <1>1, <2>1, <2>2 DEF Inserted, Becomes, LInv
<1>2. ASSUME NEW f, NEW n, Rearranged(l, c, f, n) PROVE LInv'
  BY <1>2 DEF Rearranged, Becomes, LInv
<1>3. ASSUME NoChange PROVE LInv'
  BY <1>3 DEF NoChange, LInv
<1> QED BY <1>1, <1>2, <1>3

LEMMA PushedOK ==
    ASSUME LInv, NEW l \in Lists, NEW o \in Lists, NEW d \in {"next", "prev"}, NEW c, NEW co,
           Pushed(d, l, o, c, co)
    PROVE  LInv'
<1> DEFINE n == heap.len[o]
<1>1. /\ made \in Nat /\ n \in Nat /\ made + n <= MaxElems /\ made' = made + n /\ MaxElems \in Nat
      /\ HeapOK(heap', cleared', made') /\ value' = Copied(d, value, co, n, made, n)
      /\ n # 0 => Linked(heap, cleared, o, co)
  <2>1. made \in Nat /\ MaxElems \in Nat /\ n \in Nat
    BY ListAssumption DEF LInv, HeapOK, HeapType
  <2> QED BY <2>1 DEF Pushed, Becomes
<1> HIDE DEF n
<1>2. ASSUME NEW e \in Elem, e > made, e <= made + n PROVE Source(d, co, n, e - made) \in Elem
  <2>1. n # 0 /\ e - made \in 1..n /\ n + 1 - (e - made) \in 1..n
    BY <1>1, <1>2 DEF Elem
  <2>2. \A i \in 1..n : co[i] \in Elem
    BY <1>1, <2>1 DEF Linked, Cycle, n
  <2> QED BY <2>1, <2>2 DEF Source
<1>3. value' \in [Elem -> Value \cup {Nil}]
  BY <1>1, <1>2 DEF Copied, LInv
<1>4. made' \in 0..MaxElems
  BY <1>1
<1> QED BY <1>1, <1>3, <1>4 DEF LInv

LEMMA StepOK == LInv /\ [Next]_vars => LInv'
<1> SUFFICES ASSUME LInv, [Next]_vars PROVE LInv'
  OBVIOUS
<1>1. CASE UNCHANGED vars
  BY <1>1 DEF vars, LInv
<1>2. ASSUME NEW l \in Lists, Clear(l) PROVE LInv'
  BY <1>2, ClearEffect, MethodOK
<1>3. ASSUME NEW l \in Lists, NEW v \in Value, PushFront(l, v) \/ PushBack(l, v) PROVE LInv'
  BY <1>3, PushEffect, MethodOK
<1>4. ASSUME NEW l \in Lists, NEW v \in Value, NEW m \in Handle,
             InsertBefore(l, v, m) \/ InsertAfter(l, v, m)
      PROVE  LInv'
  <2>1. CASE heap.list[m] = l
    <3>1. PICK c : Linked(heap, cleared, l, c) /\ \E k \in 1..heap.len[l] : m = c[k]
      BY <2>1, Passed
    <3>2. PICK k \in 1..heap.len[l] : m = c[k]
      BY <3>1
    <3>3. Inserted(l, v, c, k - 1) \/ Inserted(l, v, c, k)
      BY <1>4, <3>1, <3>2, InsertMarkEffect
    <3> QED BY <3>3, MethodOK
  <2>2. CASE heap.list[m] # l
    <3>1. NoChange
      BY <1>4, <2>2 DEF InsertBefore, InsertAfter
    <3> QED BY <3>1, MethodOK
  <2> QED BY <2>1, <2>2
<1>5. ASSUME NEW l \in Lists, NEW e \in Handle, Remove(l, e) \/ MoveToFront(l, e) \/ MoveToBack(l, e)
      PROVE  LInv'
  <2>1. CASE heap.list[e] = l
    <3>1. PICK c : Linked(heap, cleared, l, c) /\ \E k \in 1..heap.len[l] : e = c[k]
      BY <2>1, Passed
    <3>2. PICK k \in 1..heap.len[l] : e = c[k]
      BY <3>1
    <3>3. CASE Remove(l, e)
      BY <3>1, <3>2, <3>3, RemoveEffect, MethodOK
    <3>4. CASE MoveToFront(l, e) \/ MoveToBack(l, e)
      <4>1. NoChange \/ \E f : Rearranged(l, c, f, heap.len[l])
        BY <3>1, <3>2, <3>4, MoveMethods
      <4> QED BY <4>1, MethodOK
    <3> QED BY <1>5, <3>3, <3>4
  <2>2. CASE heap.list[e] # l
    <3>1. NoChange
      BY <1>5, <2>2 DEF Remove, MoveToFront, MoveToBack
    <3> QED BY <3>1, MethodOK
  <2> QED BY <2>1, <2>2
<1>6. ASSUME NEW l \in Lists, NEW e \in Handle, NEW m \in Handle, MoveBefore(l, e, m) \/ MoveAfter(l, e, m)
      PROVE  LInv'
  <2>1. CASE heap.list[e] = l /\ heap.list[m] = l
    <3>1. PICK c : Linked(heap, cleared, l, c) /\ \E k \in 1..heap.len[l] : e = c[k]
      BY <2>1, Passed
    <3>2. PICK k \in 1..heap.len[l] : e = c[k]
      BY <3>1
    <3>3. PICK q \in 1..heap.len[l] : m = c[q]
      <4>1. m \in Elems(heap, cleared, l)
        BY <2>1, Passed DEF Elems, Handle
      <4> QED BY <3>1, <4>1 DEF Linked, Over
    <3>4. NoChange \/ \E f : Rearranged(l, c, f, heap.len[l])
      BY <1>6, <3>1, <3>2, <3>3, MoveMethods
    <3> QED BY <3>4, MethodOK
  <2>2. CASE heap.list[e] # l \/ heap.list[m] # l
    <3>1. NoChange
      BY <1>6, <2>2 DEF MoveBefore, MoveAfter
    <3> QED BY <3>1, MethodOK
  <2> QED BY <2>1, <2>2
<1>7. ASSUME NEW l \in Lists, NEW o \in Lists, PushBackList(l, o) \/ PushFrontList(l, o) PROVE LInv'
  <2>1. PICK d \in {"next", "prev"} : \/ d = "next" /\ PushBackList(l, o)
                                      \/ d = "prev" /\ PushFrontList(l, o)
    BY <1>7
  <2> QED BY <2>1, PushListEffect, PushedOK
<1> QED BY <1>1, <1>2, <1>3, <1>4, <1>5, <1>6, <1>7 DEF Next

-----------------------------------------------------------------------------
(* The invariant implies that all pointers are well formed *)

LEMMA WalkOf ==
    ASSUME NEW h, NEW C, NEW m \in 0..MaxElems, HeapOK(h, C, m), NEW l \in Lists, NEW c,
           Idle(h, C, l) \/ Linked(h, C, l, c)
    PROVE  WalkIn(h, l, "next") = MembersOf(c, h.len[l])
<1>1. CASE Idle(h, C, l)
  <2> DEFINE node == CHOOSE f : f = [i \in 0..MaxElems |-> IF i = 0 THEN l ELSE h["next"][f[i - 1]]]
  <2>1. WalkIn(h, l, "next") = [i \in 1..h.len[l] |-> node[i]]
    BY DEF WalkIn
  <2> HIDE DEF node
  <2>2. h.len[l] = 0 /\ \A i \in 1..0 : FALSE
    BY <1>1 DEF Idle
  <2> QED BY <2>1, <2>2 DEF MembersOf
<1>2. CASE Linked(h, C, l, c)
  <2>1. HeapType(h) /\ Cycle(h, l, c, h.len[l]) /\ h.len[l] <= MaxElems
    BY <1>2, ListAssumption DEF HeapOK, HeapType, Linked
  <2> QED BY <2>1, WalkIs
<1> QED BY <1>1, <1>2

LEMMA MembersAre ==
    ASSUME LInv, NEW l \in Lists, NEW c, Cyclic(l, c)
    PROVE  Members(l) = MembersOf(c, heap.len[l])
<1>1. WalkIn(heap, l, "next") = MembersOf(c, heap.len[l])
  BY WalkOf DEF LInv, Cyclic
<1> QED BY <1>1 DEF Members, Walk, WalkIn

LEMMA TypeHolds == LInv => TypeOK
<1> SUFFICES ASSUME LInv PROVE TypeOK
  OBVIOUS
<1>1. \A l \in Lists : heap.len[l] \in 0..MaxElems
  <2> SUFFICES ASSUME NEW l \in Lists PROVE heap.len[l] \in 0..MaxElems
    OBVIOUS
  <2>1. heap.len[l] \in Nat /\ heap.len[l] <= made
    BY DEF LInv, HeapOK, HeapType
  <2>2. made \in Nat /\ made <= MaxElems /\ MaxElems \in Nat
    BY ListAssumption DEF LInv
  <2> QED BY <2>1, <2>2
<1>2. heap.len \in [Lists -> 0..MaxElems]
  BY <1>1 DEF LInv, HeapOK, HeapType
<1> QED BY <1>2 DEF LInv, HeapOK, HeapType, TypeOK

LEMMA RingHolds == LInv => Ring
<1> SUFFICES ASSUME LInv PROVE Ring
  OBVIOUS
<1>1. HeapOK(heap, cleared, made) /\ Nil \notin Node
  BY ListAssumption DEF LInv
<1>2. ASSUME NEW l \in Lists
      PROVE  LET s == Members(l)
                 n == heap.len[l]
             IN IF heap.next[l] = Nil THEN n = 0 /\ heap.prev[l] = Nil
                ELSE /\ {s[i] : i \in 1..n} = {e \in Elem \ cleared : heap.list[e] = l}
                     /\ \A i, j \in 1..n : s[i] = s[j] => i = j
                     /\ heap.next[IF n = 0 THEN l ELSE s[n]] = l
                     /\ \A i \in 1..n : heap.prev[s[i]] = IF i = 1 THEN l ELSE s[i - 1]
                     /\ heap.prev[l] = IF n = 0 THEN l ELSE s[n]
  <2>1. CASE Idle(heap, cleared, l)
    BY <2>1 DEF Idle
  <2>2. ASSUME NEW c, Linked(heap, cleared, l, c)
        PROVE  LET s == Members(l)
                   n == heap.len[l]
               IN /\ heap.next[l] # Nil
                  /\ {s[i] : i \in 1..n} = {e \in Elem \ cleared : heap.list[e] = l}
                  /\ \A i, j \in 1..n : s[i] = s[j] => i = j
                  /\ heap.next[IF n = 0 THEN l ELSE s[n]] = l
                  /\ \A i \in 1..n : heap.prev[s[i]] = IF i = 1 THEN l ELSE s[i - 1]
                  /\ heap.prev[l] = IF n = 0 THEN l ELSE s[n]
    <3> DEFINE s == Members(l)
               n == heap.len[l]
    <3>1. s = MembersOf(c, n)
      BY <2>2, MembersAre DEF Cyclic
    <3>2. Cycle(heap, l, c, n) /\ Over(c, n) = Elems(heap, cleared, l)
      BY <2>2 DEF Linked
    <3> HIDE DEF s, n
    <3>3. \A i \in 1..n : s[i] = c[i]
      BY <3>1 DEF MembersOf
    <3>4. n \in Nat /\ c[0] = l /\ (n # 0 => 1 \in 1..n /\ n \in 1..n)
      BY <3>2 DEF Cycle
    <3>5. heap.next[l] # Nil
      <4>1. CASE n = 0
        BY <1>1, <3>2, <3>4, <4>1 DEF Cycle, Node
      <4>2. CASE n # 0
        <5>1. heap.next[c[1 - 1]] = c[1] /\ c[1] \in Elem
          BY <3>2, <3>4, <4>2 DEF Cycle
        <5> QED BY <1>1, <3>4, <5>1 DEF Node
      <4> QED BY <4>1, <4>2
    <3>6. {s[i] : i \in 1..n} = {e \in Elem \ cleared : heap.list[e] = l}
      BY <3>2, <3>3 DEF Over, Elems
    <3>7. \A i, j \in 1..n : s[i] = s[j] => i = j
      <4>1. \A i \in 1..n : i \in 0..n
        BY <3>4
      <4> QED BY <3>2, <3>3, <4>1 DEF Cycle
    <3>8. heap.next[IF n = 0 THEN l ELSE s[n]] = l /\ heap.prev[l] = IF n = 0 THEN l ELSE s[n]
      BY <3>2, <3>3, <3>4 DEF Cycle
    <3>9. ASSUME NEW i \in 1..n PROVE heap.prev[s[i]] = IF i = 1 THEN l ELSE s[i - 1]
      <4>1. i # 1 => i - 1 \in 1..n
        BY <3>4
      <4> QED BY <3>2, <3>3, <3>4, <4>1 DEF Cycle
    <3> QED BY <3>5, <3>6, <3>7, <3>8, <3>9 DEF s, n
  <2>3. Idle(heap, cleared, l) \/ \E c : Linked(heap, cleared, l, c)
    BY <1>1 DEF HeapOK
  <2> QED BY <2>1, <2>2, <2>3
<1>3. \A e \in Elem : heap.list[e] = Nil => heap.next[e] = Nil /\ heap.prev[e] = Nil
  BY <1>1 DEF HeapOK
<1> QED BY <1>2, <1>3 DEF Ring

\* Where the loops over list l are after i steps from its ends.
Loop(d, l, n, f) ==
    f = [i \in 0..n |-> IF i = 0 THEN First(d, heap, l) ELSE Step(d, heap, f[i - 1])]

LEMMA LoopVisits ==
    ASSUME LInv, NEW l \in Lists, NEW c, Cyclic(l, c), NEW d \in {"next", "prev"}
    PROVE  /\ \E f : Loop(d, l, heap.len[l], f)
           /\ \A f : Loop(d, l, heap.len[l], f) =>
                 /\ \A i \in 1..heap.len[l] : f[i - 1] = Source(d, c, heap.len[l], i)
                 /\ f[heap.len[l]] = Nil
<1> DEFINE n == heap.len[l]
           g == [i \in 0..n |-> IF i = n THEN Nil ELSE Source(d, c, n, i + 1)]
<1>1. n \in Nat
  BY DEF LInv, HeapOK, HeapType
<1>2. Adjacent(heap, l, c)
  <2>1. CASE Idle(heap, cleared, l)
    BY <2>1 DEF Adjacent, Idle, Front, Back
  <2>2. CASE Linked(heap, cleared, l, c)
    BY <2>2, Neighbours DEF LInv, HeapOK
  <2> QED BY <2>1, <2>2 DEF Cyclic
<1>3. /\ First(d, heap, l) = IF n = 0 THEN Nil ELSE Source(d, c, n, 1)
      /\ \A i \in 1..n : Step(d, heap, Source(d, c, n, i)) = IF i = n THEN Nil ELSE Source(d, c, n, i + 1)
  <2>1. CASE d = "next"
    BY <1>1, <1>2, <2>1 DEF Adjacent, First, Step, Source
  <2>2. CASE d = "prev"
    <3>1. First(d, heap, l) = IF n = 0 THEN Nil ELSE Source(d, c, n, 1)
      BY <1>1, <1>2, <2>2 DEF Adjacent, First, Source
    <3>2. ASSUME NEW i \in 1..n
          PROVE  Step(d, heap, Source(d, c, n, i)) = IF i = n THEN Nil ELSE Source(d, c, n, i + 1)
      <4>1. n + 1 - i \in 1..n /\ (n + 1 - i = 1 <=> i = n) /\ (n + 1 - i) - 1 = n + 1 - (i + 1)
        BY <1>1
      <4>2. PrevOf(heap, c[n + 1 - i]) = IF n + 1 - i = 1 THEN Nil ELSE c[(n + 1 - i) - 1]
        BY <1>2, <4>1 DEF Adjacent
      <4> QED BY <2>2, <4>1, <4>2 DEF Step, Source
    <3> QED BY <3>1, <3>2
  <2> QED BY <2>1, <2>2
<1> HIDE DEF n
<1>4. Loop(d, l, n, g)
  <2>1. ASSUME NEW i \in 0..n PROVE g[i] = IF i = 0 THEN First(d, heap, l) ELSE Step(d, heap, g[i - 1])
    <3>1. CASE i = 0
      BY <1>1, <1>3, <3>1
    <3>2. CASE i # 0
      <4>1. i \in 1..n /\ i - 1 \in 0..n /\ i - 1 # n /\ (i - 1) + 1 = i
        BY <1>1, <3>2
      <4>2. g[i - 1] = Source(d, c, n, i)
        BY <4>1
      <4> QED BY <1>3, <3>2, <4>1, <4>2
    <3> QED BY <3>1, <3>2
  <2>2. g = [i \in 0..n |-> g[i]]
    OBVIOUS
  <2> HIDE DEF g
  <2> QED BY <2>1, <2>2 DEF Loop
<1>5. ASSUME NEW f, Loop(d, l, n, f)
      PROVE  (\A i \in 1..n : f[i - 1] = Source(d, c, n, i)) /\ f[n] = Nil
  <2> DEFINE T == {i \in 0..n : f[i] = g[i]}
  <2>1. \A i \in 0..n : /\ f[i] = IF i = 0 THEN First(d, heap, l) ELSE Step(d, heap, f[i - 1])
                        /\ g[i] = IF i = 0 THEN First(d, heap, l) ELSE Step(d, heap, g[i - 1])
    <3> HIDE DEF g
    <3>1. \A F : Loop(d, l, n, F) => \A i \in 0..n : F[i] = IF i = 0 THEN First(d, heap, l) ELSE Step(d, heap, F[i - 1])
      BY DEF Loop
    <3> QED BY <1>4, <1>5, <3>1
  <2>2. 0..n \subseteq T
    <3> HIDE DEF g
    <3>1. 0 \in T
      BY <1>1, <2>1
    <3>2. ASSUME NEW i \in 0..n, i \in T, i < n PROVE i + 1 \in T
      <4>1. i + 1 \in 0..n /\ i + 1 # 0 /\ (i + 1) - 1 = i
        BY <1>1, <3>2
      <4> QED BY <2>1, <3>2, <4>1
    <3> HIDE DEF T
    <3> QED BY <1>1, <3>1, <3>2, Induction
  <2>3. ASSUME NEW i \in 1..n PROVE f[i - 1] = Source(d, c, n, i)
    <3>1. i - 1 \in 0..n /\ i - 1 # n /\ (i - 1) + 1 = i
      BY <1>1
    <3> QED BY <2>2, <3>1
  <2>4. f[n] = Nil
    BY <1>1, <2>2
  <2> QED BY <2>3, <2>4
<1>6. \E f : Loop(d, l, n, f)
  <2> HIDE DEF g
  <2> QED BY <1>4
<1> QED BY <1>5, <1>6 DEF n

LEMMA IteratesHolds == LInv => Iterates
<1> SUFFICES ASSUME LInv, NEW l \in Lists
             PROVE  LET s == Members(l)
                        n == heap.len[l]
                        fwd[i \in 0..n] == IF i = 0 THEN Front(heap, l) ELSE NextOf(heap, fwd[i - 1])
                        bwd[i \in 0..n] == IF i = 0 THEN Back(heap, l) ELSE PrevOf(heap, bwd[i - 1])
                    IN /\ \A i \in 1..n : fwd[i - 1] = s[i] /\ bwd[i - 1] = s[n + 1 - i]
                       /\ fwd[n] = Nil /\ bwd[n] = Nil
  BY DEF Iterates
<1> DEFINE n == heap.len[l]
           P(f) == f = [i \in 0..n |-> IF i = 0 THEN Front(heap, l) ELSE NextOf(heap, f[i - 1])]
           Q(f) == f = [i \in 0..n |-> IF i = 0 THEN Back(heap, l) ELSE PrevOf(heap, f[i - 1])]
           fwd == CHOOSE f : P(f)
           bwd == CHOOSE f : Q(f)
<1>1. PICK c : Cyclic(l, c)
  BY DEF LInv, HeapOK, Cyclic
<1>2. n \in Nat
  BY DEF LInv, HeapOK, HeapType
<1>3. Members(l) = MembersOf(c, n)
  BY <1>1, MembersAre
<1>4. ASSUME NEW f PROVE P(f) <=> Loop("next", l, n, f)
  BY DEF Loop, First, Step
<1>5. ASSUME NEW f PROVE Q(f) <=> Loop("prev", l, n, f)
  BY DEF Loop, First, Step
<1>6. Loop("next", l, n, fwd)
  <2>1. \E f : Loop("next", l, n, f)
    BY <1>1, LoopVisits
  <2> HIDE DEF P
  <2> QED BY <1>4, <2>1, Zenon
<1>7. Loop("prev", l, n, bwd)
  <2>1. \E f : Loop("prev", l, n, f)
    BY <1>1, LoopVisits
  <2> HIDE DEF Q
  <2> QED BY <1>5, <2>1, Zenon
<1> HIDE DEF fwd, bwd
<1>8. (\A i \in 1..n : fwd[i - 1] = Source("next", c, n, i)) /\ fwd[n] = Nil
  BY <1>1, <1>6, LoopVisits
<1>9. (\A i \in 1..n : bwd[i - 1] = Source("prev", c, n, i)) /\ bwd[n] = Nil
  BY <1>1, <1>7, LoopVisits
<1>10. \A i \in 1..n : fwd[i - 1] = Members(l)[i] /\ bwd[i - 1] = Members(l)[n + 1 - i]
  <2>1. \A i \in 1..n : n + 1 - i \in 1..n
    BY <1>2
  <2> HIDE DEF n
  <2> QED BY <1>3, <1>8, <1>9, <2>1 DEF MembersOf, Source
<1> QED BY <1>8, <1>9, <1>10 DEF fwd, bwd

\* In every reachable state every list is the ring that the package comment describes
\* (list.go:18), in both directions and of exactly the elements that name it, an
\* element that was removed keeps no pointers, and the loops of callers over Front and
\* Next, or Back and Prev, visit each element once and end.
THEOREM AlwaysWellFormed == Spec => []WellFormed
<1>1. LInv => WellFormed
  BY TypeHolds, RingHolds, IteratesHolds DEF WellFormed
<1> QED BY <1>1, InitOK, StepOK, PTL DEF Spec

-----------------------------------------------------------------------------
(* Sequences *)

LEMMA InsertAtIs ==
    ASSUME NEW T, NEW s \in Seq(T), NEW i \in 1..(Len(s) + 1), NEW e \in T
    PROVE  /\ Abstract!S!InsertAt(s, i, e) \in Seq(T)
           /\ Len(Abstract!S!InsertAt(s, i, e)) = Len(s) + 1
           /\ \A x \in 1..(Len(s) + 1) :
                 Abstract!S!InsertAt(s, i, e)[x] = IF x < i THEN s[x] ELSE IF x = i THEN e ELSE s[x - 1]
<1> DEFINE a == SubSeq(s, 1, i - 1)
           b == <<e>>
           c == SubSeq(s, i, Len(s))
           t == Abstract!S!InsertAt(s, i, e)
<1>1. Len(s) \in Nat /\ \A x \in 1..Len(s) : s[x] \in T
  BY LenProperties, ElementOfSeq
<1>2. a \in Seq(T) /\ Len(a) = i - 1 /\ \A x \in 1..(i - 1) : a[x] = s[x]
  <2>1. \A x \in 1..(i - 1) : x \in 1..Len(s)
    BY <1>1
  <2>2. 1 \in Int /\ i - 1 \in Int /\ \A x \in 1..(i - 1) : s[x] \in T
    BY <1>1, <2>1
  <2> QED BY <1>1, <2>2, SubSeqProperties
<1>3. c \in Seq(T) /\ Len(c) = Len(s) - i + 1 /\ \A x \in 1..(Len(s) - i + 1) : c[x] = s[i + x - 1]
  <2>1. \A x \in i..Len(s) : x \in 1..Len(s)
    BY <1>1
  <2>2. i \in Int /\ Len(s) \in Int /\ \A x \in i..Len(s) : s[x] \in T
    BY <1>1, <2>1
  <2> QED BY <1>1, <2>2, SubSeqProperties
<1>4. b \in Seq(T) /\ Len(b) = 1 /\ b[1] = e
  OBVIOUS
<1>5. t = (a \o b) \o c
  BY DEF Abstract!S!InsertAt
<1> HIDE DEF a, b, c, t
<1>6. /\ a \o b \in Seq(T) /\ Len(a \o b) = i
      /\ \A x \in 1..i : (a \o b)[x] = IF x <= i - 1 THEN a[x] ELSE b[x - (i - 1)]
  <2>1. /\ a \o b \in Seq(T) /\ Len(a \o b) = Len(a) + Len(b)
        /\ \A x \in 1..(Len(a) + Len(b)) : (a \o b)[x] = IF x <= Len(a) THEN a[x] ELSE b[x - Len(a)]
    BY <1>2, <1>4, ConcatProperties
  <2> QED BY <1>2, <1>4, <2>1
<1>7. /\ t \in Seq(T) /\ Len(t) = Len(s) + 1
      /\ \A x \in 1..(Len(s) + 1) : t[x] = IF x <= i THEN (a \o b)[x] ELSE c[x - i]
  <2>1. /\ (a \o b) \o c \in Seq(T) /\ Len((a \o b) \o c) = Len(a \o b) + Len(c)
        /\ \A x \in 1..(Len(a \o b) + Len(c)) :
              ((a \o b) \o c)[x] = IF x <= Len(a \o b) THEN (a \o b)[x] ELSE c[x - Len(a \o b)]
    <3> DEFINE ab == a \o b
    <3>1. ab \in Seq(T)
      BY <1>6
    <3> HIDE DEF ab
    <3>2. /\ ab \o c \in Seq(T) /\ Len(ab \o c) = Len(ab) + Len(c)
          /\ \A x \in 1..(Len(ab) + Len(c)) : (ab \o c)[x] = IF x <= Len(ab) THEN ab[x] ELSE c[x - Len(ab)]
      BY <1>3, <3>1, ConcatProperties
    <3> QED BY <3>2 DEF ab
  <2>2. Len(a \o b) + Len(c) = Len(s) + 1
    BY <1>1, <1>3, <1>6
  <2> QED BY <1>5, <1>6, <2>1, <2>2
<1>8. ASSUME NEW x \in 1..(Len(s) + 1)
      PROVE  t[x] = IF x < i THEN s[x] ELSE IF x = i THEN e ELSE s[x - 1]
  <2>1. CASE x < i
    BY <1>1, <1>2, <1>6, <1>7, <2>1
  <2>2. CASE x = i
    <3>1. i - (i - 1) = 1 /\ ~(i <= i - 1) /\ i \in 1..i
      BY <1>1
    <3>2. (a \o b)[i] = e
      BY <1>4, <1>6, <3>1
    <3>3. t[i] = (a \o b)[i]
      <4>1. i \in 1..(Len(s) + 1) /\ i <= i
        BY <1>1
      <4> QED BY <1>7, <4>1
    <3>4. ~(x < i)
      BY <1>1, <2>2
    <3> QED BY <2>2, <3>2, <3>3, <3>4
  <2>3. CASE x > i
    <3>1. x - i \in 1..(Len(s) - i + 1) /\ i + (x - i) - 1 = x - 1
      BY <1>1, <2>3
    <3> QED BY <1>3, <1>7, <2>3, <3>1
  <2> QED BY <1>1, <2>1, <2>2, <2>3
<1> QED BY <1>7, <1>8 DEF t

LEMMA RemoveAtIs ==
    ASSUME NEW T, NEW s \in Seq(T), NEW i \in 1..Len(s)
    PROVE  /\ Abstract!S!RemoveAt(s, i) \in Seq(T)
           /\ Len(Abstract!S!RemoveAt(s, i)) = Len(s) - 1
           /\ \A x \in 1..(Len(s) - 1) :
                 Abstract!S!RemoveAt(s, i)[x] = IF x < i THEN s[x] ELSE s[x + 1]
<1> DEFINE a == SubSeq(s, 1, i - 1)
           c == SubSeq(s, i + 1, Len(s))
           t == Abstract!S!RemoveAt(s, i)
<1>1. Len(s) \in Nat /\ \A x \in 1..Len(s) : s[x] \in T
  BY LenProperties, ElementOfSeq
<1>2. a \in Seq(T) /\ Len(a) = i - 1 /\ \A x \in 1..(i - 1) : a[x] = s[x]
  <2>1. \A x \in 1..(i - 1) : x \in 1..Len(s)
    BY <1>1
  <2>2. 1 \in Int /\ i - 1 \in Int /\ \A x \in 1..(i - 1) : s[x] \in T
    BY <1>1, <2>1
  <2> QED BY <1>1, <2>2, SubSeqProperties
<1>3. c \in Seq(T) /\ Len(c) = Len(s) - i /\ \A x \in 1..(Len(s) - i) : c[x] = s[i + x]
  <2>1. \A x \in (i + 1)..Len(s) : x \in 1..Len(s)
    BY <1>1
  <2>2. i + 1 \in Int /\ Len(s) \in Int /\ \A x \in (i + 1)..Len(s) : s[x] \in T
    BY <1>1, <2>1
  <2>3. /\ c \in Seq(T) /\ Len(c) = IF i + 1 <= Len(s) THEN Len(s) - (i + 1) + 1 ELSE 0
        /\ \A x \in 1..(Len(s) - (i + 1) + 1) : c[x] = s[(i + 1) + x - 1]
    BY <2>2, SubSeqProperties
  <2>4. Len(s) - (i + 1) + 1 = Len(s) - i /\ \A x \in 1..(Len(s) - i) : (i + 1) + x - 1 = i + x
    BY <1>1
  <2> HIDE DEF c
  <2>5. Len(c) = Len(s) - i
    <3>1. Len(s) \in Nat /\ i \in 1..Len(s)
      BY <1>1
    <3>2. Len(c) = IF i + 1 <= Len(s) THEN Len(s) - (i + 1) + 1 ELSE 0
      BY <2>3, SMTT(30)
    <3> QED BY <3>1, <3>2
  <2>6. \A x \in 1..(Len(s) - i) : c[x] = s[i + x]
    BY <2>3, <2>4
  <2> QED BY <2>3, <2>5, <2>6
<1>4. t = a \o c
  BY DEF Abstract!S!RemoveAt
<1> HIDE DEF a, c, t
<1>5. /\ t \in Seq(T) /\ Len(t) = Len(s) - 1
      /\ \A x \in 1..(Len(s) - 1) : t[x] = IF x <= i - 1 THEN a[x] ELSE c[x - (i - 1)]
  <2>1. /\ a \o c \in Seq(T) /\ Len(a \o c) = Len(a) + Len(c)
        /\ \A x \in 1..(Len(a) + Len(c)) : (a \o c)[x] = IF x <= Len(a) THEN a[x] ELSE c[x - Len(a)]
    BY <1>2, <1>3, ConcatProperties
  <2>2. Len(a) + Len(c) = Len(s) - 1
    BY <1>1, <1>2, <1>3
  <2> QED BY <1>2, <1>4, <2>1, <2>2
<1>6. ASSUME NEW x \in 1..(Len(s) - 1) PROVE t[x] = IF x < i THEN s[x] ELSE s[x + 1]
  <2>1. CASE x < i
    BY <1>1, <1>2, <1>5, <2>1
  <2>2. CASE x >= i
    <3>1. x - (i - 1) \in 1..(Len(s) - i) /\ i + (x - (i - 1)) = x + 1 /\ ~(x <= i - 1)
      BY <1>1, <2>2
    <3> QED BY <1>3, <1>5, <2>2, <3>1
  <2> QED BY <1>1, <2>1, <2>2
<1> QED BY <1>5, <1>6 DEF t

\* A cycle as a sequence of elements.
LEMMA SeqOfCycle ==
    ASSUME NEW c, NEW n \in Nat, \A i \in 1..n : c[i] \in Elem
    PROVE  /\ MembersOf(c, n) \in Seq(Elem)
           /\ Len(MembersOf(c, n)) = n
           /\ \A i \in 1..n : MembersOf(c, n)[i] = c[i]
BY DEF MembersOf

LEMMA SeqIns ==
    ASSUME NEW c, NEW n \in Nat, \A i \in 1..n : c[i] \in Elem, NEW k \in 0..n, NEW e \in Elem
    PROVE  MembersOf(Ins(c, n, k, e), n + 1) = Abstract!S!InsertAt(MembersOf(c, n), k + 1, e)
<1> DEFINE s == MembersOf(c, n)
           d == Ins(c, n, k, e)
           t == Abstract!S!InsertAt(s, k + 1, e)
           u == MembersOf(d, n + 1)
<1>1. s \in Seq(Elem) /\ Len(s) = n /\ \A i \in 1..n : s[i] = c[i]
  BY SeqOfCycle
<1>2. \A i \in 1..(n + 1) : /\ d[i] = IF i <= k THEN c[i] ELSE IF i = k + 1 THEN e ELSE c[i - 1]
                            /\ i <= k => i \in 1..n
                            /\ i > k + 1 => i - 1 \in 1..n
  BY DEF Ins
<1>3. \A i \in 1..(n + 1) : d[i] \in Elem
  <2> HIDE DEF d
  <2> SUFFICES ASSUME NEW i \in 1..(n + 1) PROVE d[i] \in Elem
    OBVIOUS
  <2>1. i <= k \/ i = k + 1 \/ i > k + 1
    OBVIOUS
  <2> QED BY <1>2, <2>1
<1> HIDE DEF s, d
<1>4. u \in Seq(Elem) /\ Len(u) = n + 1 /\ \A i \in 1..(n + 1) : u[i] = d[i]
  <2>1. n + 1 \in Nat
    OBVIOUS
  <2> QED BY <1>3, <2>1, SeqOfCycle
<1>5. /\ t \in Seq(Elem) /\ Len(t) = n + 1
      /\ \A x \in 1..(n + 1) : t[x] = IF x < k + 1 THEN s[x] ELSE IF x = k + 1 THEN e ELSE s[x - 1]
  <2>1. k + 1 \in 1..(Len(s) + 1)
    BY <1>1
  <2>2. /\ t \in Seq(Elem) /\ Len(t) = Len(s) + 1
        /\ \A x \in 1..(Len(s) + 1) : t[x] = IF x < k + 1 THEN s[x] ELSE IF x = k + 1 THEN e ELSE s[x - 1]
    <3> DEFINE i0 == k + 1
    <3> HIDE DEF i0
    <3>1. /\ Abstract!S!InsertAt(s, i0, e) \in Seq(Elem)
          /\ Len(Abstract!S!InsertAt(s, i0, e)) = Len(s) + 1
          /\ \A x \in 1..(Len(s) + 1) : Abstract!S!InsertAt(s, i0, e)[x] =
                                            IF x < i0 THEN s[x] ELSE IF x = i0 THEN e ELSE s[x - 1]
      <4>1. i0 \in 1..(Len(s) + 1)
        BY <2>1 DEF i0
      <4> QED BY <1>1, <4>1, InsertAtIs, SMTT(30)
    <3> QED BY <3>1 DEF i0
  <2> HIDE DEF t
  <2> QED BY <1>1, <2>2
<1> HIDE DEF t, u
<1>6. ASSUME NEW i \in 1..(n + 1) PROVE u[i] = t[i]
  <2>1. CASE i <= k
    <3>1. i \in 1..n /\ u[i] = c[i]
      BY <1>2, <1>4, <2>1
    <3>2. t[i] = s[i]
      BY <1>5, <2>1
    <3> QED BY <1>1, <3>1, <3>2
  <2>2. CASE i = k + 1
    BY <1>2, <1>4, <1>5, <2>2
  <2>3. CASE i > k + 1
    <3>1. i - 1 \in 1..n /\ u[i] = c[i - 1]
      <4>1. ~(i <= k) /\ i # k + 1
        BY <2>3
      <4>2. d[i] = c[i - 1]
        BY <1>2, <4>1
      <4> QED BY <1>2, <1>4, <2>3, <4>2
    <3>2. t[i] = s[i - 1]
      BY <1>5, <2>3
    <3> QED BY <1>1, <3>1, <3>2
  <2> QED BY <2>1, <2>2, <2>3
<1>7. u = t
  BY <1>4, <1>5, <1>6, SeqEqual
<1> QED BY <1>7 DEF s, d, t, u

LEMMA SeqDel ==
    ASSUME NEW c, NEW n \in Nat, \A i \in 1..n : c[i] \in Elem, NEW k \in 1..n
    PROVE  /\ MembersOf(Del(c, n, k), n - 1) = Abstract!S!RemoveAt(MembersOf(c, n), k)
           /\ \A i \in 1..(n - 1) : Del(c, n, k)[i] \in Elem
<1> DEFINE s == MembersOf(c, n)
           d == Del(c, n, k)
           t == Abstract!S!RemoveAt(s, k)
           u == MembersOf(d, n - 1)
<1>1. s \in Seq(Elem) /\ Len(s) = n /\ \A i \in 1..n : s[i] = c[i]
  BY SeqOfCycle
<1>2. \A i \in 1..(n - 1) : /\ d[i] = IF i < k THEN c[i] ELSE c[i + 1]
                            /\ i \in 1..n /\ i + 1 \in 1..n
  BY DEF Del
<1> HIDE DEF s, d
<1>3. \A i \in 1..(n - 1) : d[i] \in Elem
  BY <1>2
<1>4. u \in Seq(Elem) /\ Len(u) = n - 1 /\ \A i \in 1..(n - 1) : u[i] = d[i]
  <2>1. n - 1 \in Nat
    OBVIOUS
  <2> QED BY <1>3, <2>1, SeqOfCycle
<1>5. /\ t \in Seq(Elem) /\ Len(t) = n - 1
      /\ \A x \in 1..(n - 1) : t[x] = IF x < k THEN s[x] ELSE s[x + 1]
  BY <1>1, RemoveAtIs
<1> HIDE DEF t, u
<1>6. \A i \in 1..(n - 1) : u[i] = t[i]
  <2> SUFFICES ASSUME NEW i \in 1..(n - 1) PROVE u[i] = t[i]
    OBVIOUS
  <2>1. u[i] = d[i] /\ t[i] = IF i < k THEN s[i] ELSE s[i + 1]
    BY <1>4, <1>5
  <2> QED BY <1>1, <1>2, <2>1
<1>7. u = t
  BY <1>4, <1>5, <1>6, SeqEqual
<1> QED BY <1>3, <1>7 DEF s, d, t, u

\* Where an element goes when the k-th is taken out and put behind the j-th.
Target(k, j) == IF j < k THEN j + 1 ELSE j

LEMMA SeqMoved ==
    ASSUME NEW c, NEW n \in Nat, \A i \in 1..n : c[i] \in Elem, NEW k \in 1..n, NEW j \in 0..n
    PROVE  /\ MembersOf(MovedTo(c, n, k, j), n) =
                  Abstract!S!InsertAt(Abstract!S!RemoveAt(MembersOf(c, n), k), Target(k, j), c[k])
           /\ j = k \/ j = k - 1 =>
                  MembersOf(c, n) =
                      Abstract!S!InsertAt(Abstract!S!RemoveAt(MembersOf(c, n), k), Target(k, j), c[k])
<1> DEFINE s == MembersOf(c, n)
           r == Abstract!S!RemoveAt(s, k)
           i0 == IF j < k THEN j ELSE j - 1
           d == Del(c, n, k)
           p == n - 1
<1>1. s \in Seq(Elem) /\ Len(s) = n /\ \A i \in 1..n : s[i] = c[i]
  BY SeqOfCycle
<1>2. MembersOf(d, p) = r /\ \A i \in 1..p : d[i] \in Elem
  BY SeqDel
<1>3. /\ r \in Seq(Elem) /\ Len(r) = p
      /\ \A x \in 1..p : r[x] = IF x < k THEN s[x] ELSE s[x + 1]
  <2> HIDE DEF s
  <2> QED BY <1>1, RemoveAtIs
<1>4. c[k] \in Elem /\ p \in Nat /\ p + 1 = n /\ p = n - 1
  OBVIOUS
<1> HIDE DEF s, r, d, p
<1>5. ASSUME j # k
      PROVE  MembersOf(MovedTo(c, n, k, j), n) = Abstract!S!InsertAt(r, Target(k, j), c[k])
  <2>1. i0 \in 0..p /\ i0 + 1 = Target(k, j)
    BY <1>4, <1>5 DEF Target
  <2>2. MovedTo(c, n, k, j) = Ins(d, p, i0, c[k])
    BY <1>5 DEF MovedTo, d, p
  <2> HIDE DEF i0
  <2>3. MembersOf(Ins(d, p, i0, c[k]), p + 1) = Abstract!S!InsertAt(MembersOf(d, p), i0 + 1, c[k])
    BY <1>2, <1>4, <2>1, SeqIns
  <2> QED BY <1>2, <1>4, <2>1, <2>2, <2>3
<1>6. s = Abstract!S!InsertAt(r, k, c[k])
  <2> DEFINE t == Abstract!S!InsertAt(r, k, c[k])
  <2>1. /\ t \in Seq(Elem) /\ Len(t) = n
        /\ \A x \in 1..n : t[x] = IF x < k THEN r[x] ELSE IF x = k THEN c[k] ELSE r[x - 1]
    <3>1. k \in 1..(Len(r) + 1)
      BY <1>3, <1>4
    <3>2. /\ t \in Seq(Elem) /\ Len(t) = Len(r) + 1
          /\ \A x \in 1..(Len(r) + 1) : t[x] = IF x < k THEN r[x] ELSE IF x = k THEN c[k] ELSE r[x - 1]
      BY <1>3, <1>4, <3>1, InsertAtIs
    <3> HIDE DEF t
    <3> QED BY <1>3, <1>4, <3>2
  <2> HIDE DEF t
  <2>2. ASSUME NEW x \in 1..n PROVE s[x] = t[x]
    <3>1. CASE x < k
      <4>1. x \in 1..p
        BY <1>4, <3>1
      <4> QED BY <1>3, <2>1, <3>1, <4>1
    <3>2. CASE x = k
      BY <1>1, <2>1, <3>2
    <3>3. CASE x > k
      <4>1. x - 1 \in 1..p /\ ~(x - 1 < k) /\ (x - 1) + 1 = x
        BY <1>4, <3>3
      <4> QED BY <1>3, <2>1, <3>3, <4>1
    <3> QED BY <3>1, <3>2, <3>3
  <2>3. s = t
    BY <1>1, <2>1, <2>2, SeqEqual
  <2> QED BY <2>3 DEF t
<1>7. CASE j = k
  <2>1. MovedTo(c, n, k, j) = c /\ Target(k, j) = k
    BY <1>7 DEF MovedTo, Target
  <2> QED BY <1>6, <2>1 DEF s, r
<1>8. CASE j # k
  <2>1. j = k - 1 => Target(k, j) = k
    BY DEF Target
  <2> QED BY <1>5, <1>6, <1>8, <2>1 DEF s, r
<1> QED BY <1>7, <1>8

-----------------------------------------------------------------------------
(* Every method does to the sequences what its comment says *)

\* The sequences that the lists stand for.
Contents == [l \in Lists |-> Members(l)]

LEMMA CycleElems ==
    ASSUME LInv, NEW l \in Lists, NEW c, Cyclic(l, c)
    PROVE  /\ heap.len[l] \in Nat
           /\ \A i \in 1..heap.len[l] : c[i] \in Elem
           /\ Contents[l] = MembersOf(c, heap.len[l])
<1>1. heap.len[l] \in Nat
  BY DEF LInv, HeapOK, HeapType
<1>2. \A i \in 1..heap.len[l] : c[i] \in Elem
  BY DEF Cyclic, Idle, Linked, Cycle
<1>3. Contents[l] = MembersOf(c, heap.len[l])
  BY MembersAre DEF Contents
<1> QED BY <1>1, <1>2, <1>3

LEMMA ContentsChange ==
    ASSUME LInv, LInv', NEW l \in Lists, NEW c, NEW f, NEW n, Becomes(l, c, f, n)
    PROVE  Contents' = [Contents EXCEPT ![l] = MembersOf(f, n)]
<1>1. \A o \in Lists : Members(o)' = WalkIn(heap', o, "next") /\ Members(o) = WalkIn(heap, o, "next")
  BY DEF Members, Walk, WalkIn
<1>2. made' \in 0..MaxElems /\ HeapOK(heap', cleared', made')
  BY DEF LInv
<1>3. Members(l)' = MembersOf(f, n)
  <2>1. WalkIn(heap', l, "next") = MembersOf(f, heap'.len[l])
    BY <1>2, WalkOf DEF Becomes
  <2> QED BY <1>1, <2>1 DEF Becomes
<1>4. ASSUME NEW o \in Lists, o # l PROVE Members(o)' = Members(o)
  <2>1. PICK b : Cyclic(o, b)
    BY DEF LInv, HeapOK, Cyclic
  <2>2. Keeps(heap, cleared, heap', cleared', o)
    BY <1>4 DEF Becomes
  <2>3. Idle(heap', cleared', o) \/ Linked(heap', cleared', o, b)
    BY <2>1, <2>2, Frame DEF Cyclic
  <2>4. WalkIn(heap', o, "next") = MembersOf(b, heap'.len[o])
    BY <1>2, <2>3, WalkOf
  <2>5. Members(o) = MembersOf(b, heap.len[o])
    BY <2>1, MembersAre
  <2> QED BY <1>1, <2>2, <2>4, <2>5 DEF Keeps
<1> QED BY <1>3, <1>4 DEF Contents

LEMMA InList ==
    ASSUME LInv, NEW l \in Lists, NEW e \in Handle
    PROVE  Abstract!In(e, l) <=> heap.list[e] = l
<1>1. PICK c : Cyclic(l, c)
  BY DEF LInv, HeapOK, Cyclic
<1> DEFINE n == heap.len[l]
<1>2. /\ Contents[l] \in Seq(Elem) /\ Len(Contents[l]) = n /\ n \in Nat
      /\ \A i \in 1..n : Contents[l][i] = c[i]
  BY <1>1, CycleElems, SeqOfCycle
<1>3. Abstract!In(e, l) <=> \E i \in 1..n : e = c[i]
  <2>1. DOMAIN Contents[l] = 1..n
    BY <1>2, LenProperties
  <2> HIDE DEF n
  <2>2. Abstract!In(e, l) <=> e \in {Contents[l][i] : i \in DOMAIN Contents[l]}
    BY DEF Abstract!In, Abstract!S!ToSet, Contents
  <2> QED BY <1>2, <2>1, <2>2
<1>4. Over(c, n) = Elems(heap, cleared, l)
  BY <1>1 DEF Cyclic, Idle, Linked, Over
<1>5. e \in Elem \ cleared
  BY Passed DEF Handle
<1> QED BY <1>3, <1>4, <1>5 DEF Over, Elems

LEMMA IndexInList ==
    ASSUME LInv, NEW l \in Lists, NEW c, Linked(heap, cleared, l, c), NEW k \in 1..heap.len[l]
    PROVE  Abstract!At(c[k], Contents[l]) = k
<1> DEFINE n == heap.len[l]
           s == Contents[l]
<1>1. Cyclic(l, c)
  BY DEF Cyclic
<1>2. /\ s \in Seq(Elem) /\ Len(s) = n /\ n \in Nat
      /\ \A i \in 1..n : s[i] = c[i]
  BY <1>1, CycleElems, SeqOfCycle
<1>3. DOMAIN s = 1..n
  BY <1>2, LenProperties
<1>4. \A i, j \in 1..n : c[i] = c[j] => i = j
  <2>1. \A i \in 1..n : i \in 0..n
    BY <1>2
  <2> QED BY <2>1 DEF Linked, Cycle
<1> HIDE DEF n, s
<1>5. k \in 1..n
  BY DEF n
<1>6. \A i \in DOMAIN s : s[i] = c[k] <=> i = k
  BY <1>2, <1>3, <1>4, <1>5
<1>7. (CHOOSE i \in DOMAIN s : s[i] = c[k]) = k
  BY <1>3, <1>5, <1>6
<1> QED BY <1>7 DEF Abstract!At, s

LEMMA NoChangeRefines ==
    ASSUME NoChange
    PROVE  Abstract!Same /\ Contents' = Contents /\ UNCHANGED <<value, made>>
<1>1. \A l \in Lists : Members(l)' = Members(l)
  BY DEF NoChange, Members, Walk
<1> QED BY <1>1 DEF NoChange, Abstract!Same, Contents

LEMMA InsertedRefines ==
    ASSUME LInv, LInv', NEW l \in Lists, NEW v \in Value, NEW c, NEW k, Inserted(l, v, c, k)
    PROVE  Abstract!New(l, v, k + 1)
<1> DEFINE n == heap.len[l]
<1>1. /\ Becomes(l, c, Ins(c, n, k, made + 1), n + 1) /\ Cyclic(l, c) /\ k \in 0..n
      /\ made < MaxElems /\ made' = made + 1 /\ value' = [value EXCEPT ![made + 1] = v]
  BY DEF Inserted, Becomes
<1>2. n \in Nat /\ (\A i \in 1..n : c[i] \in Elem) /\ Contents[l] = MembersOf(c, n) /\ made + 1 \in Elem
  BY <1>1, CycleElems, ListAssumption DEF LInv, Elem
<1>3. Contents' = [Contents EXCEPT ![l] = MembersOf(Ins(c, n, k, made + 1), n + 1)]
  BY <1>1, ContentsChange
<1>4. MembersOf(Ins(c, n, k, made + 1), n + 1) = Abstract!S!InsertAt(Contents[l], k + 1, made')
  BY <1>1, <1>2, SeqIns
<1> HIDE DEF n
<1>5. Contents' = [Contents EXCEPT ![l] = Abstract!S!InsertAt(@, k + 1, made')]
  BY <1>3, <1>4
<1> QED BY <1>1, <1>5 DEF Abstract!New, Contents

LEMMA WithoutIs ==
    ASSUME LInv, NEW l \in Lists, NEW c, Linked(heap, cleared, l, c), NEW k \in 1..heap.len[l],
           c[k] \in Handle
    PROVE  /\ Abstract!In(c[k], l)
           /\ Abstract!Without(l, c[k]) = Abstract!S!RemoveAt(Contents[l], k)
<1>1. heap.list[c[k]] = l
  BY DEF Linked, Over, Elems
<1>2. Abstract!In(c[k], l)
  BY <1>1, InList
<1>3. Abstract!At(c[k], Contents[l]) = k
  BY IndexInList
<1> QED BY <1>2, <1>3 DEF Abstract!Without, Contents

LEMMA RemoveRefines ==
    ASSUME LInv, LInv', NEW l \in Lists, NEW e \in Handle, Remove(l, e)
    PROVE  Abstract!Remove(l, e)
<1>1. CASE heap.list[e] = l
  <2>1. PICK c : Linked(heap, cleared, l, c) /\ \E k \in 1..heap.len[l] : e = c[k]
    BY <1>1, Passed
  <2>2. PICK k \in 1..heap.len[l] : e = c[k]
    BY <2>1
  <2> DEFINE n == heap.len[l]
  <2>3. Rearranged(l, c, Del(c, n, k), n - 1)
    BY <2>1, <2>2, RemoveEffect
  <2>4. Contents' = [Contents EXCEPT ![l] = MembersOf(Del(c, n, k), n - 1)]
    BY <2>3, ContentsChange DEF Rearranged
  <2>5. MembersOf(Del(c, n, k), n - 1) = Abstract!S!RemoveAt(Contents[l], k)
    <3>1. n \in Nat /\ (\A i \in 1..n : c[i] \in Elem) /\ Contents[l] = MembersOf(c, n) /\ k \in 1..n
      BY <2>1, CycleElems DEF Cyclic
    <3> HIDE DEF n
    <3> QED BY <3>1, SeqDel
  <2>6. Abstract!Without(l, e) = Abstract!S!RemoveAt(Contents[l], k)
    BY <2>1, <2>2, WithoutIs
  <2> QED BY <2>3, <2>4, <2>5, <2>6 DEF Abstract!Remove, Abstract!Becomes, Rearranged, Contents
<1>2. CASE heap.list[e] # l
  <2>1. NoChange
    BY <1>2 DEF Remove
  <2>2. Contents' = Contents /\ UNCHANGED <<value, made>>
    BY <2>1, NoChangeRefines
  <2>3. Abstract!Without(l, e) = Contents[l]
    BY <1>2, InList DEF Abstract!Without, Contents
  <2>4. Contents' = [Contents EXCEPT ![l] = Abstract!Without(l, e)]
    BY <2>2, <2>3 DEF Contents
  <2> QED BY <2>2, <2>4 DEF Abstract!Remove, Abstract!Becomes, Contents
<1> QED BY <1>1, <1>2

LEMMA MovedRefines ==
    ASSUME LInv, LInv', NEW l \in Lists, NEW c, Linked(heap, cleared, l, c), NEW k \in 1..heap.len[l],
           c[k] \in Handle, NEW j \in 0..heap.len[l],
           \/ Rearranged(l, c, MovedTo(c, heap.len[l], k, j), heap.len[l])
           \/ NoChange /\ (j = k \/ j = k - 1)
    PROVE  /\ Contents' = [Contents EXCEPT ![l] =
                               Abstract!S!InsertAt(Abstract!Without(l, c[k]), Target(k, j), c[k])]
           /\ UNCHANGED <<value, made>>
<1> DEFINE n == heap.len[l]
           s == Contents[l]
<1>1. n \in Nat /\ (\A i \in 1..n : c[i] \in Elem) /\ s = MembersOf(c, n) /\ k \in 1..n /\ j \in 0..n
  BY CycleElems DEF Cyclic
<1>2. Abstract!Without(l, c[k]) = Abstract!S!RemoveAt(s, k)
  BY WithoutIs
<1>3. CASE Rearranged(l, c, MovedTo(c, n, k, j), n)
  <2>1. Contents' = [Contents EXCEPT ![l] = MembersOf(MovedTo(c, n, k, j), n)]
    BY <1>3, ContentsChange DEF Rearranged
  <2> HIDE DEF n, s
  <2>2. MembersOf(MovedTo(c, n, k, j), n) = Abstract!S!InsertAt(Abstract!S!RemoveAt(s, k), Target(k, j), c[k])
    BY <1>1, SeqMoved
  <2> QED BY <1>2, <1>3, <2>1, <2>2 DEF Rearranged
<1>4. CASE NoChange /\ (j = k \/ j = k - 1)
  <2>1. Contents' = Contents /\ UNCHANGED <<value, made>>
    BY <1>4, NoChangeRefines
  <2> HIDE DEF n
  <2>2. MembersOf(c, n) = Abstract!S!InsertAt(Abstract!S!RemoveAt(MembersOf(c, n), k), Target(k, j), c[k])
    <3> HIDE DEF s
    <3> QED BY <1>1, <1>4, SeqMoved
  <2>3. s = Abstract!S!InsertAt(Abstract!Without(l, c[k]), Target(k, j), c[k])
    BY <1>1, <1>2, <2>2
  <2> QED BY <2>1, <2>3 DEF Contents
<1> QED BY <1>3, <1>4

\* Inserting at the ends.
LEMMA InsertAtEnds ==
    ASSUME NEW T, NEW s \in Seq(T), NEW e \in T
    PROVE  /\ Abstract!S!InsertAt(s, 1, e) = <<e>> \o s
           /\ Abstract!S!InsertAt(s, Len(s) + 1, e) = s \o <<e>>
<1> DEFINE a == Abstract!S!InsertAt(s, 1, e)
           b == Abstract!S!InsertAt(s, Len(s) + 1, e)
           one == <<e>>
<1>1. Len(s) \in Nat /\ one \in Seq(T) /\ Len(one) = 1 /\ one[1] = e
  BY LenProperties
<1> HIDE DEF one
<1>0. ASSUME NEW i \in 1..(Len(s) + 1)
      PROVE  /\ Abstract!S!InsertAt(s, i, e) \in Seq(T)
             /\ Len(Abstract!S!InsertAt(s, i, e)) = Len(s) + 1
             /\ \A x \in 1..(Len(s) + 1) :
                   Abstract!S!InsertAt(s, i, e)[x] = IF x < i THEN s[x] ELSE IF x = i THEN e ELSE s[x - 1]
  BY InsertAtIs
<1>2. /\ a \in Seq(T) /\ Len(a) = Len(s) + 1
      /\ \A x \in 1..(Len(s) + 1) : a[x] = IF x < 1 THEN s[x] ELSE IF x = 1 THEN e ELSE s[x - 1]
  <2>1. 1 \in 1..(Len(s) + 1)
    BY <1>1
  <2> QED BY <1>0, <2>1
<1>3. /\ b \in Seq(T) /\ Len(b) = Len(s) + 1
      /\ \A x \in 1..(Len(s) + 1) : b[x] = IF x < Len(s) + 1 THEN s[x] ELSE IF x = Len(s) + 1 THEN e ELSE s[x - 1]
  <2>1. Len(s) + 1 \in 1..(Len(s) + 1)
    BY <1>1
  <2> QED BY <1>0, <2>1
<1> HIDE DEF a, b
<1>4. /\ one \o s \in Seq(T) /\ Len(one \o s) = Len(s) + 1
      /\ \A x \in 1..(Len(s) + 1) : (one \o s)[x] = IF x <= 1 THEN one[x] ELSE s[x - 1]
  <2>1. /\ one \o s \in Seq(T) /\ Len(one \o s) = Len(one) + Len(s)
        /\ \A x \in 1..(Len(one) + Len(s)) : (one \o s)[x] = IF x <= Len(one) THEN one[x] ELSE s[x - Len(one)]
    BY <1>1, ConcatProperties
  <2>2. Len(one) + Len(s) = Len(s) + 1
    BY <1>1
  <2> QED BY <1>1, <2>1, <2>2
<1>5. /\ s \o one \in Seq(T) /\ Len(s \o one) = Len(s) + 1
      /\ \A x \in 1..(Len(s) + 1) : (s \o one)[x] = IF x <= Len(s) THEN s[x] ELSE one[x - Len(s)]
  <2>1. /\ s \o one \in Seq(T) /\ Len(s \o one) = Len(s) + Len(one)
        /\ \A x \in 1..(Len(s) + Len(one)) : (s \o one)[x] = IF x <= Len(s) THEN s[x] ELSE one[x - Len(s)]
    BY <1>1, ConcatProperties
  <2> QED BY <1>1, <2>1
<1>6. a = one \o s
  <2>1. \A x \in 1..Len(a) : a[x] = (one \o s)[x]
    <3>1. \A x \in 1..(Len(s) + 1) : x = 1 \/ (x > 1 /\ ~(x <= 1))
      BY <1>1
    <3> QED BY <1>1, <1>2, <1>4, <3>1
  <2> QED BY <1>2, <1>4, <2>1, SeqEqual
<1>7. b = s \o one
  <2>1. \A x \in 1..Len(b) : b[x] = (s \o one)[x]
    <3>1. \A x \in 1..(Len(s) + 1) : x <= Len(s) \/ (x = Len(s) + 1 /\ x - Len(s) = 1 /\ ~(x <= Len(s)))
      BY <1>1
    <3> QED BY <1>1, <1>3, <1>5, <3>1
  <2> QED BY <1>3, <1>5, <2>1, SeqEqual
<1> QED BY <1>6, <1>7 DEF a, b, one

LEMMA RestOf ==
    ASSUME LInv, NEW l \in Lists, NEW c, Linked(heap, cleared, l, c), NEW k \in 1..heap.len[l],
           c[k] \in Handle
    PROVE  /\ Abstract!Without(l, c[k]) \in Seq(Elem)
           /\ Len(Abstract!Without(l, c[k])) = heap.len[l] - 1
           /\ c[k] \in Elem
           /\ \A q \in 1..heap.len[l] \ {k} :
                 Abstract!At(c[q], Abstract!Without(l, c[k])) = IF q < k THEN q ELSE q - 1
<1> DEFINE n == heap.len[l]
           s == Contents[l]
           r == Abstract!Without(l, c[k])
<1>1. /\ s \in Seq(Elem) /\ Len(s) = n /\ n \in Nat /\ k \in 1..n /\ c[k] \in Elem
      /\ \A i \in 1..n : s[i] = c[i]
  BY CycleElems, SeqOfCycle DEF Cyclic
<1>2. r = Abstract!S!RemoveAt(s, k)
  BY WithoutIs
<1>3. \A i, j \in 1..n : c[i] = c[j] => i = j
  <2>1. \A i \in 1..n : i \in 0..n
    BY <1>1
  <2> QED BY <2>1 DEF Linked, Cycle
<1> HIDE DEF n, s, r
<1>4. /\ r \in Seq(Elem) /\ Len(r) = n - 1
      /\ \A x \in 1..(n - 1) : r[x] = IF x < k THEN s[x] ELSE s[x + 1]
  BY <1>1, <1>2, RemoveAtIs
<1>5. DOMAIN r = 1..(n - 1)
  BY <1>4, LenProperties
<1>6. ASSUME NEW q \in 1..n, q # k PROVE Abstract!At(c[q], r) = IF q < k THEN q ELSE q - 1
  <2> DEFINE p == IF q < k THEN q ELSE q - 1
  <2>1. p \in 1..(n - 1)
    BY <1>1, <1>6
  <2>2. ASSUME NEW x \in 1..(n - 1) PROVE r[x] = c[q] <=> x = p
    <3>1. CASE x < k
      <4>1. x \in 1..n /\ r[x] = c[x]
        BY <1>1, <1>4, <3>1
      <4> QED BY <1>1, <1>3, <1>6, <3>1, <4>1
    <3>2. CASE x >= k
      <4>1. x + 1 \in 1..n /\ r[x] = c[x + 1]
        BY <1>1, <1>4, <3>2
      <4>2. c[x + 1] = c[q] <=> x + 1 = q
        BY <1>3, <4>1
      <4> QED BY <1>1, <1>6, <3>2, <4>1, <4>2
    <3> QED BY <1>1, <3>1, <3>2
  <2> HIDE DEF p
  <2>3. (CHOOSE x \in DOMAIN r : r[x] = c[q]) = p
    BY <1>5, <2>1, <2>2
  <2> QED BY <2>3 DEF Abstract!At, p
<1> QED BY <1>1, <1>4, <1>6 DEF n, r

LEMMA MoveToEndsRefine ==
    ASSUME LInv, LInv', NEW l \in Lists, NEW e \in Handle
    PROVE  /\ MoveToFront(l, e) => Abstract!MoveToFront(l, e)
           /\ MoveToBack(l, e) => Abstract!MoveToBack(l, e)
<1>1. CASE heap.list[e] = l
  <2>1. PICK c : Linked(heap, cleared, l, c) /\ \E k \in 1..heap.len[l] : e = c[k]
    BY <1>1, Passed
  <2>2. PICK k \in 1..heap.len[l] : e = c[k]
    BY <2>1
  <2> DEFINE n == heap.len[l]
             r == Abstract!Without(l, e)
  <2>3. r \in Seq(Elem) /\ Len(r) = n - 1 /\ e \in Elem /\ Abstract!In(e, l)
    BY <2>1, <2>2, RestOf, WithoutIs
  <2>4. n \in Nat /\ k \in 1..n /\ 0 \in 0..n /\ n \in 0..n /\ Len(r) + 1 = n
    BY <2>1, <2>3 DEF Linked, Cycle
  <2>5. \A j \in 0..n :
           Rearranged(l, c, MovedTo(c, n, k, j), n) \/ (NoChange /\ (j = k \/ j = k - 1)) =>
              /\ Contents' = [Contents EXCEPT ![l] = Abstract!S!InsertAt(r, Target(k, j), e)]
              /\ UNCHANGED <<value, made>>
    BY <2>1, <2>2, MovedRefines
  <2>6. /\ Abstract!S!InsertAt(r, 1, e) = <<e>> \o r
        /\ Abstract!S!InsertAt(r, Len(r) + 1, e) = r \o <<e>>
    <3> HIDE DEF r
    <3> QED BY <2>3, InsertAtEnds
  <2>7. ASSUME MoveToFront(l, e) PROVE Abstract!MoveToFront(l, e)
    <3>1. IF k = 1 THEN NoChange ELSE Rearranged(l, c, MovedTo(c, n, k, 0), n)
      BY <2>1, <2>2, <2>7, MoveMethods
    <3>2. Target(k, 0) = 1
      BY <2>4 DEF Target
    <3>3. /\ Contents' = [Contents EXCEPT ![l] = <<e>> \o r]
          /\ UNCHANGED <<value, made>>
      <4> HIDE DEF n, r
      <4>1. Rearranged(l, c, MovedTo(c, n, k, 0), n) \/ (NoChange /\ (0 = k \/ 0 = k - 1))
        BY <3>1
      <4> QED BY <2>4, <2>5, <2>6, <3>2, <4>1
    <3> QED BY <2>3, <3>3 DEF Abstract!MoveToFront, Abstract!Becomes, Contents
  <2>8. ASSUME MoveToBack(l, e) PROVE Abstract!MoveToBack(l, e)
    <3>1. IF k = n THEN NoChange ELSE Rearranged(l, c, MovedTo(c, n, k, n), n)
      BY <2>1, <2>2, <2>8, MoveMethods
    <3>2. Target(k, n) = Len(r) + 1
      BY <2>4 DEF Target
    <3>3. /\ Contents' = [Contents EXCEPT ![l] = r \o <<e>>]
          /\ UNCHANGED <<value, made>>
      <4> HIDE DEF n, r
      <4>1. Rearranged(l, c, MovedTo(c, n, k, n), n) \/ (NoChange /\ (n = k \/ n = k - 1))
        BY <3>1
      <4> QED BY <2>4, <2>5, <2>6, <3>2, <4>1
    <3> QED BY <2>3, <3>3 DEF Abstract!MoveToBack, Abstract!Becomes, Contents
  <2> QED BY <2>7, <2>8
<1>2. CASE heap.list[e] # l
  <2>1. ~Abstract!In(e, l)
    BY <1>2, InList
  <2>2. MoveToFront(l, e) \/ MoveToBack(l, e) => Abstract!Same
    BY <1>2, NoChangeRefines DEF MoveToFront, MoveToBack
  <2> QED BY <2>1, <2>2 DEF Abstract!MoveToFront, Abstract!MoveToBack
<1> QED BY <1>1, <1>2

LEMMA MoveToMarkRefines ==
    ASSUME LInv, LInv', NEW l \in Lists, NEW e \in Handle, NEW m \in Handle
    PROVE  /\ MoveBefore(l, e, m) => Abstract!MoveBefore(l, e, m)
           /\ MoveAfter(l, e, m) => Abstract!MoveAfter(l, e, m)
<1>1. CASE heap.list[e] = l /\ heap.list[m] = l /\ e # m
  <2>1. PICK c : Linked(heap, cleared, l, c) /\ \E k \in 1..heap.len[l] : e = c[k]
    BY <1>1, Passed
  <2>2. PICK k \in 1..heap.len[l] : e = c[k]
    BY <2>1
  <2>3. PICK q \in 1..heap.len[l] : m = c[q]
    <3>1. m \in Elems(heap, cleared, l)
      BY <1>1, Passed DEF Elems, Handle
    <3> QED BY <2>1, <3>1 DEF Linked, Over
  <2> DEFINE n == heap.len[l]
             r == Abstract!Without(l, e)
  <2>4. n \in Nat /\ k \in 1..n /\ q \in 1..n /\ q # k /\ q - 1 \in 0..n /\ q \in 0..n
    BY <1>1, <2>1, <2>2, <2>3 DEF Linked, Cycle
  <2>5. \A j \in 0..n :
           Rearranged(l, c, MovedTo(c, n, k, j), n) \/ (NoChange /\ (j = k \/ j = k - 1)) =>
              /\ Contents' = [Contents EXCEPT ![l] = Abstract!S!InsertAt(r, Target(k, j), e)]
              /\ UNCHANGED <<value, made>>
    BY <2>1, <2>2, MovedRefines
  <2>6. Abstract!At(m, r) = IF q < k THEN q ELSE q - 1
    <3>1. q \in 1..heap.len[l] \ {k}
      BY <2>4
    <3> QED BY <2>1, <2>2, <2>3, <3>1, RestOf
  <2>7. Abstract!In(e, l) /\ Abstract!In(m, l)
    BY <1>1, InList
  <2>8. /\ Target(k, q - 1) = Abstract!At(m, r) + 0
        /\ Target(k, q) = Abstract!At(m, r) + 1
    <3> HIDE DEF r
    <3> QED BY <2>4, <2>6 DEF Target
  <2>9. ASSUME MoveBefore(l, e, m) PROVE Abstract!MoveBefore(l, e, m)
    <3>1. Rearranged(l, c, MovedTo(c, n, k, q - 1), n)
      BY <2>1, <2>2, <2>3, <2>4, <2>9, MoveMethods
    <3>2. /\ Contents' = [Contents EXCEPT ![l] = Abstract!S!InsertAt(r, Abstract!At(m, r) + 0, e)]
          /\ UNCHANGED <<value, made>>
      <4> HIDE DEF n, r
      <4> QED BY <2>4, <2>5, <2>8, <3>1
    <3> QED BY <1>1, <2>7, <3>2 DEF Abstract!MoveBefore, Abstract!Move, Abstract!Becomes, Contents
  <2>10. ASSUME MoveAfter(l, e, m) PROVE Abstract!MoveAfter(l, e, m)
    <3>1. Rearranged(l, c, MovedTo(c, n, k, q), n)
      BY <2>1, <2>2, <2>3, <2>4, <2>10, MoveMethods
    <3>2. /\ Contents' = [Contents EXCEPT ![l] = Abstract!S!InsertAt(r, Abstract!At(m, r) + 1, e)]
          /\ UNCHANGED <<value, made>>
      <4> HIDE DEF n, r
      <4> QED BY <2>4, <2>5, <2>8, <3>1
    <3> QED BY <1>1, <2>7, <3>2 DEF Abstract!MoveAfter, Abstract!Move, Abstract!Becomes, Contents
  <2> QED BY <2>9, <2>10
<1>2. CASE ~(heap.list[e] = l /\ heap.list[m] = l /\ e # m)
  <2>1. ~(Abstract!In(e, l) /\ Abstract!In(m, l) /\ e # m)
    BY <1>2, InList
  <2>2. MoveBefore(l, e, m) \/ MoveAfter(l, e, m) => Abstract!Same
    BY <1>2, NoChangeRefines DEF MoveBefore, MoveAfter
  <2> QED BY <2>1, <2>2 DEF Abstract!MoveBefore, Abstract!MoveAfter, Abstract!Move
<1> QED BY <1>1, <1>2

LEMMA InsertsRefine ==
    ASSUME LInv, LInv', NEW l \in Lists, NEW v \in Value
    PROVE  /\ PushFront(l, v) => Abstract!PushFront(l, v)
           /\ PushBack(l, v) => Abstract!PushBack(l, v)
           /\ \A m \in Handle :
                 /\ InsertBefore(l, v, m) => Abstract!InsertBefore(l, v, m)
                 /\ InsertAfter(l, v, m) => Abstract!InsertAfter(l, v, m)
<1>1. ASSUME PushFront(l, v) PROVE Abstract!PushFront(l, v)
  <2>1. PICK c : Inserted(l, v, c, 0)
    BY <1>1, PushEffect
  <2>2. Abstract!New(l, v, 0 + 1)
    BY <2>1, InsertedRefines
  <2>3. 0 + 1 = 1
    OBVIOUS
  <2> QED BY <2>2, <2>3 DEF Abstract!PushFront
<1>2. ASSUME PushBack(l, v) PROVE Abstract!PushBack(l, v)
  <2>1. PICK c : Inserted(l, v, c, heap.len[l])
    BY <1>2, PushEffect
  <2>2. Abstract!New(l, v, heap.len[l] + 1)
    BY <2>1, InsertedRefines
  <2>3. Len(Contents[l]) = heap.len[l]
    BY <2>1, CycleElems, SeqOfCycle DEF Inserted, Becomes
  <2> QED BY <2>2, <2>3 DEF Abstract!PushBack, Contents
<1>3. ASSUME NEW m \in Handle
      PROVE  /\ InsertBefore(l, v, m) => Abstract!InsertBefore(l, v, m)
             /\ InsertAfter(l, v, m) => Abstract!InsertAfter(l, v, m)
  <2>1. CASE heap.list[m] = l
    <3>1. PICK c : Linked(heap, cleared, l, c) /\ \E k \in 1..heap.len[l] : m = c[k]
      BY <2>1, Passed
    <3>2. PICK k \in 1..heap.len[l] : m = c[k]
      BY <3>1
    <3>3. Abstract!In(m, l) /\ Abstract!At(m, Contents[l]) = k
      BY <2>1, <3>1, <3>2, InList, IndexInList
    <3>4. (k - 1) + 1 = k
      OBVIOUS
    <3>5. ASSUME InsertBefore(l, v, m) PROVE Abstract!InsertBefore(l, v, m)
      <4>1. Abstract!New(l, v, (k - 1) + 1)
        BY <3>1, <3>2, <3>5, InsertMarkEffect, InsertedRefines
      <4> QED BY <3>3, <3>4, <4>1 DEF Abstract!InsertBefore, Contents
    <3>6. ASSUME InsertAfter(l, v, m) PROVE Abstract!InsertAfter(l, v, m)
      <4>1. Abstract!New(l, v, k + 1)
        BY <3>1, <3>2, <3>6, InsertMarkEffect, InsertedRefines
      <4> QED BY <3>3, <4>1 DEF Abstract!InsertAfter, Contents
    <3> QED BY <3>5, <3>6
  <2>2. CASE heap.list[m] # l
    <3>1. ~Abstract!In(m, l)
      BY <2>2, InList
    <3>2. InsertBefore(l, v, m) \/ InsertAfter(l, v, m) => Abstract!Same
      BY <2>2, NoChangeRefines DEF InsertBefore, InsertAfter
    <3> QED BY <3>1, <3>2 DEF Abstract!InsertBefore, Abstract!InsertAfter
  <2> QED BY <2>1, <2>2
<1> QED BY <1>1, <1>2, <1>3

LEMMA ClearRefines ==
    ASSUME LInv, LInv', NEW l \in Lists, Clear(l)
    PROVE  Abstract!Clear(l)
<1>1. PICK c : Rearranged(l, c, [i \in 0..0 |-> l], 0)
  BY ClearEffect
<1>2. Contents' = [Contents EXCEPT ![l] = MembersOf([i \in 0..0 |-> l], 0)]
  BY <1>1, ContentsChange DEF Rearranged
<1>3. MembersOf([i \in 0..0 |-> l], 0) = <<>>
  BY DEF MembersOf
<1>4. Contents' = [Contents EXCEPT ![l] = <<>>]
  BY <1>2, <1>3
<1> QED BY <1>1, <1>4 DEF Rearranged, Abstract!Clear, Abstract!Becomes, Contents

\* The new elements, in the order in which the list has them.
Copies(d, m, n) == [i \in 1..n |-> IF d = "next" THEN m + i ELSE m + n + 1 - i]

LEMMA CopiesAt ==
    ASSUME NEW d \in {"next", "prev"}, NEW m \in Nat, NEW n \in Nat, m + n <= MaxElems
    PROVE  /\ Copies(d, m, n) \in Seq(Elem)
           /\ Len(Copies(d, m, n)) = n
           /\ \A i \in 1..n : Copies(d, m, n)[i] = IF d = "next" THEN m + i ELSE m + n + 1 - i
           /\ Abstract!S!ToSet(Copies(d, m, n)) = (m + 1)..(m + n)
           /\ \A e \in (m + 1)..(m + n) :
                 Abstract!At(e, Copies(d, m, n)) = IF d = "next" THEN e - m ELSE m + n + 1 - e
<1> DEFINE s == Copies(d, m, n)
           f(i) == IF d = "next" THEN m + i ELSE m + n + 1 - i
           g(e) == IF d = "next" THEN e - m ELSE m + n + 1 - e
<1>0. MaxElems \in Nat
  BY ListAssumption
<1>1. \A i \in 1..n : f(i) \in Elem /\ f(i) \in (m + 1)..(m + n) /\ g(f(i)) = i
  BY <1>0 DEF Elem
<1>2. \A e \in (m + 1)..(m + n) : g(e) \in 1..n /\ f(g(e)) = e
  OBVIOUS
<1>3. s = [i \in 1..n |-> f(i)]
  BY DEF Copies
<1> HIDE DEF f, g, s
<1>4. s \in Seq(Elem) /\ Len(s) = n /\ DOMAIN s = 1..n /\ \A i \in 1..n : s[i] = f(i)
  BY <1>1, <1>3
<1>5. Abstract!S!ToSet(s) = {s[i] : i \in DOMAIN s}
  BY DEF Abstract!S!ToSet
<1>6. Abstract!S!ToSet(s) = (m + 1)..(m + n)
  BY <1>1, <1>2, <1>4, <1>5
<1>7. ASSUME NEW e \in (m + 1)..(m + n) PROVE Abstract!At(e, s) = g(e)
  <2>1. \A i \in DOMAIN s : s[i] = e <=> i = g(e)
    BY <1>1, <1>2, <1>4
  <2>2. g(e) \in DOMAIN s
    BY <1>2, <1>4
  <2> QED BY <2>1, <2>2 DEF Abstract!At
<1> QED BY <1>4, <1>6, <1>7 DEF f, g, s

Joined(d, s, t) == IF d = "next" THEN s \o t ELSE t \o s

LEMMA SeqGrown ==
    ASSUME NEW d \in {"next", "prev"}, NEW c, NEW N \in Nat, NEW m \in Nat, NEW n \in Nat,
           m + n <= MaxElems, \A i \in 1..N : c[i] \in Elem
    PROVE  MembersOf(Grown(d, c, N, m, n), N + n) = Joined(d, MembersOf(c, N), Copies(d, m, n))
<1> DEFINE s == MembersOf(c, N)
           t == Copies(d, m, n)
           w == MembersOf(Grown(d, c, N, m, n), N + n)
<1>1. s \in Seq(Elem) /\ Len(s) = N /\ \A i \in 1..N : s[i] = c[i]
  BY SeqOfCycle
<1>2. /\ t \in Seq(Elem) /\ Len(t) = n
      /\ \A i \in 1..n : t[i] = IF d = "next" THEN m + i ELSE m + n + 1 - i
  BY CopiesAt
<1>3. w = [i \in 1..(N + n) |-> Grown(d, c, N, m, n)[i]]
  BY DEF MembersOf
<1>4. \A i \in 1..(N + n) :
         Grown(d, c, N, m, n)[i] =
            IF d = "next" THEN IF i <= N THEN c[i] ELSE m + (i - N)
            ELSE IF i <= n THEN m + n + 1 - i ELSE c[i - n]
  <2>1. \A i \in 1..(N + n) : i \in 0..(N + n) /\ i # 0
    OBVIOUS
  <2> QED BY <2>1 DEF Grown
<1> HIDE DEF s, t, w
<1>5. CASE d = "next"
  <2>1. /\ s \o t \in Seq(Elem) /\ Len(s \o t) = N + n
        /\ \A i \in 1..(N + n) : (s \o t)[i] = IF i <= N THEN s[i] ELSE t[i - N]
    <3>1. /\ s \o t \in Seq(Elem) /\ Len(s \o t) = Len(s) + Len(t)
          /\ \A i \in 1..(Len(s) + Len(t)) : (s \o t)[i] = IF i <= Len(s) THEN s[i] ELSE t[i - Len(s)]
      BY <1>1, <1>2, ConcatProperties
    <3> QED BY <1>1, <1>2, <3>1
  <2>2. \A i \in 1..(N + n) : (s \o t)[i] = Grown(d, c, N, m, n)[i]
    <3> SUFFICES ASSUME NEW i \in 1..(N + n) PROVE (s \o t)[i] = Grown(d, c, N, m, n)[i]
      OBVIOUS
    <3>1. i <= N => i \in 1..N
      OBVIOUS
    <3>2. ~(i <= N) => i - N \in 1..n
      OBVIOUS
    <3> QED BY <1>1, <1>2, <1>4, <1>5, <2>1, <3>1, <3>2
  <2>3. s \o t = [i \in 1..(N + n) |-> (s \o t)[i]]
    <3> DEFINE r == s \o t
    <3>1. r \in Seq(Elem) /\ Len(r) = N + n
      BY <2>1
    <3> HIDE DEF r
    <3>2. r = [i \in 1..(N + n) |-> r[i]]
      BY <3>1
    <3> QED BY <3>2 DEF r
  <2>4. w = s \o t
    BY <1>3, <2>2, <2>3
  <2> QED BY <1>5, <2>4 DEF s, t, w, Joined
<1>6. CASE d # "next"
  <2>1. /\ t \o s \in Seq(Elem) /\ Len(t \o s) = N + n
        /\ \A i \in 1..(N + n) : (t \o s)[i] = IF i <= n THEN t[i] ELSE s[i - n]
    <3>1. n + N = N + n
      OBVIOUS
    <3>2. /\ t \o s \in Seq(Elem) /\ Len(t \o s) = Len(t) + Len(s)
          /\ \A i \in 1..(Len(t) + Len(s)) : (t \o s)[i] = IF i <= Len(t) THEN t[i] ELSE s[i - Len(t)]
      BY <1>1, <1>2, ConcatProperties
    <3> QED BY <1>1, <1>2, <3>1, <3>2
  <2>2. \A i \in 1..(N + n) : (t \o s)[i] = Grown(d, c, N, m, n)[i]
    <3> SUFFICES ASSUME NEW i \in 1..(N + n) PROVE (t \o s)[i] = Grown(d, c, N, m, n)[i]
      OBVIOUS
    <3>1. i <= n => i \in 1..n
      OBVIOUS
    <3>2. ~(i <= n) => i - n \in 1..N
      OBVIOUS
    <3> QED BY <1>1, <1>2, <1>4, <1>6, <2>1, <3>1, <3>2
  <2>3. t \o s = [i \in 1..(N + n) |-> (t \o s)[i]]
    <3> DEFINE r == t \o s
    <3>1. r \in Seq(Elem) /\ Len(r) = N + n
      BY <2>1
    <3> HIDE DEF r
    <3>2. r = [i \in 1..(N + n) |-> r[i]]
      BY <3>1
    <3> QED BY <3>2 DEF r
  <2>4. w = t \o s
    BY <1>3, <2>2, <2>3
  <2> QED BY <1>6, <2>4 DEF s, t, w, Joined
<1> QED BY <1>5, <1>6

LEMMA PushListsRefine ==
    ASSUME LInv, LInv', NEW l \in Lists, NEW o \in Lists
    PROVE  /\ PushBackList(l, o) => Abstract!PushBackList(l, o)
           /\ PushFrontList(l, o) => Abstract!PushFrontList(l, o)
<1> DEFINE n == heap.len[o]
           N == heap.len[l]
<1>1. ASSUME NEW d \in {"next", "prev"}, NEW c, NEW co, Pushed(d, l, o, c, co)
      PROVE  /\ made + n <= MaxElems
             /\ Len(Contents[o]) = n
             /\ Contents' = [Contents EXCEPT ![l] = IF d = "next" THEN @ \o Copies(d, made, n)
                                                    ELSE Copies(d, made, n) \o @]
             /\ Abstract!Copies(o, Copies(d, made, n))
  <2>1. /\ Becomes(l, c, Grown(d, c, N, made, n), N + n)
        /\ n # 0 => Linked(heap, cleared, o, co)
        /\ made + n <= MaxElems /\ made' = made + n
        /\ value' = Copied(d, value, co, n, made, n)
    BY <1>1 DEF Pushed
  <2>2. N \in Nat /\ (\A i \in 1..N : c[i] \in Elem) /\ Contents[l] = MembersOf(c, N)
    BY <2>1, CycleElems DEF Becomes
  <2>3. PICK b : Cyclic(o, b)
    BY DEF LInv, HeapOK, Cyclic
  <2>4. n \in Nat /\ Len(Contents[o]) = n
    BY <2>3, CycleElems, SeqOfCycle
  <2>5. made \in Nat /\ MaxElems \in Nat
    BY ListAssumption DEF LInv
  <2>6. \A i \in 1..n : Contents[o][i] = co[i]
    <3> SUFFICES ASSUME NEW i \in 1..n PROVE Contents[o][i] = co[i]
      OBVIOUS
    <3>1. Cyclic(o, co)
      BY <2>1, <2>4 DEF Cyclic
    <3> QED BY <3>1, CycleElems, SeqOfCycle
  <2>7. Contents' = [Contents EXCEPT ![l] = MembersOf(Grown(d, c, N, made, n), N + n)]
    BY <2>1, ContentsChange
  <2> DEFINE s == Copies(d, made, n)
  <2>8. MembersOf(Grown(d, c, N, made, n), N + n) = IF d = "next" THEN Contents[l] \o s ELSE s \o Contents[l]
    <3> HIDE DEF n, N
    <3>1. made + n <= MaxElems
      BY <2>1
    <3>2. \A i \in 1..N : c[i] \in Elem
      BY <2>2
    <3>3. N \in Nat /\ n \in Nat /\ made \in Nat
      BY <2>2, <2>4, <2>5
    <3>4. MembersOf(Grown(d, c, N, made, n), N + n) = Joined(d, MembersOf(c, N), Copies(d, made, n))
      BY <3>1, <3>2, <3>3, SeqGrown
    <3> QED BY <2>2, <3>4 DEF Joined
  <2>9. /\ Len(s) = n /\ Abstract!S!ToSet(s) = (made + 1)..(made + n)
        /\ \A e \in (made + 1)..(made + n) :
              Abstract!At(e, s) = IF d = "next" THEN e - made ELSE made + n + 1 - e
    <3> HIDE DEF n
    <3>1. made + n <= MaxElems
      BY <2>1
    <3> QED BY <2>4, <2>5, <3>1, CopiesAt
  <2> HIDE DEF n, N, s
  <2>10. ASSUME NEW e \in Elem
         PROVE  (IF e > made /\ e <= made + n THEN value[Source(d, co, n, e - made)] ELSE value[e]) =
                (IF e \in Abstract!S!ToSet(s) THEN value[Contents[o][Abstract!At(e, s)]] ELSE value[e])
    <3>1. e \in Nat
      BY <2>5 DEF Elem
    <3>2. e \in Abstract!S!ToSet(s) <=> e > made /\ e <= made + n
      BY <2>4, <2>5, <2>9, <3>1
    <3>3. ASSUME e > made, e <= made + n
          PROVE  Source(d, co, n, e - made) = Contents[o][Abstract!At(e, s)]
      <4>1. e \in (made + 1)..(made + n) /\ e - made \in 1..n /\ made + n + 1 - e \in 1..n
            /\ n + 1 - (e - made) = made + n + 1 - e
        BY <2>4, <2>5, <3>1, <3>3
      <4>2. Abstract!At(e, s) = IF d = "next" THEN e - made ELSE made + n + 1 - e
        BY <2>9, <4>1
      <4> QED BY <2>6, <4>1, <4>2 DEF Source
    <3> QED BY <3>2, <3>3
  <2>11. value' = [e \in Elem |-> IF e \in Abstract!S!ToSet(s) THEN value[Contents[o][Abstract!At(e, s)]] ELSE value[e]]
    BY <2>1, <2>10 DEF Copied
  <2>12. Abstract!Copies(o, s)
    BY <2>1, <2>9, <2>11 DEF Abstract!Copies, Abstract!Elem, Elem, Contents
  <2>13. Contents' = [Contents EXCEPT ![l] = IF d = "next" THEN @ \o s ELSE s \o @]
    BY <2>7, <2>8 DEF Contents
  <2> QED BY <2>1, <2>4, <2>12, <2>13 DEF s
<1> HIDE DEF n, N
<1>2. ASSUME PushBackList(l, o) PROVE Abstract!PushBackList(l, o)
  <2>1. PICK c, co : Pushed("next", l, o, c, co)
    BY <1>2, PushListEffect
  <2>2. /\ made + n <= MaxElems /\ Len(Contents[o]) = n
        /\ Contents' = [Contents EXCEPT ![l] = @ \o Copies("next", made, n)]
        /\ Abstract!Copies(o, Copies("next", made, n))
    BY <1>1, <2>1
  <2>3. Copies("next", made, n) = [i \in 1..n |-> made + i] /\ Len(Copies("next", made, n)) = n
    <3>1. n \in Nat
      BY DEF LInv, HeapOK, HeapType, n
    <3> QED BY <3>1 DEF Copies
  <2> QED BY <2>2, <2>3 DEF Abstract!PushBackList, Contents
<1>3. ASSUME PushFrontList(l, o) PROVE Abstract!PushFrontList(l, o)
  <2>1. PICK c, co : Pushed("prev", l, o, c, co)
    BY <1>3, PushListEffect
  <2>2. /\ made + n <= MaxElems /\ Len(Contents[o]) = n
        /\ Contents' = [Contents EXCEPT ![l] = Copies("prev", made, n) \o @]
        /\ Abstract!Copies(o, Copies("prev", made, n))
    BY <1>1, <2>1
  <2>3. Copies("prev", made, n) = [i \in 1..n |-> made + n + 1 - i]
    BY DEF Copies
  <2> QED BY <2>2, <2>3 DEF Abstract!PushFrontList, Contents
<1> QED BY <1>2, <1>3

LEMMA MovesRefine ==
    ASSUME LInv, LInv', NEW l \in Lists, NEW e \in Handle
    PROVE  /\ Remove(l, e) => Abstract!Remove(l, e)
           /\ MoveToFront(l, e) => Abstract!MoveToFront(l, e)
           /\ MoveToBack(l, e) => Abstract!MoveToBack(l, e)
           /\ \A m \in Handle : /\ MoveBefore(l, e, m) => Abstract!MoveBefore(l, e, m)
                                /\ MoveAfter(l, e, m) => Abstract!MoveAfter(l, e, m)
<1>1. Remove(l, e) => Abstract!Remove(l, e)
  BY RemoveRefines
<1>2. /\ MoveToFront(l, e) => Abstract!MoveToFront(l, e)
      /\ MoveToBack(l, e) => Abstract!MoveToBack(l, e)
  BY MoveToEndsRefine
<1>3. ASSUME NEW m \in Handle
      PROVE  /\ MoveBefore(l, e, m) => Abstract!MoveBefore(l, e, m)
             /\ MoveAfter(l, e, m) => Abstract!MoveAfter(l, e, m)
  BY MoveToMarkRefines
<1> QED BY <1>1, <1>2, <1>3

\* Each method does what its own comment says of its list, and nothing to the other
\* lists or when an element it is given is not in the list ("If mark is not an
\* element of l, the list is not modified", list.go:156).
THEOREM ListDocumented == Spec => AsDocumented
<1> DEFINE Does(l) ==
        /\ Clear(l) => Abstract!Clear(l)
        /\ \A v \in Value : /\ PushFront(l, v) => Abstract!PushFront(l, v)
                            /\ PushBack(l, v) => Abstract!PushBack(l, v)
        /\ \A v \in Value, m \in Handle :
            /\ InsertBefore(l, v, m) => Abstract!InsertBefore(l, v, m)
            /\ InsertAfter(l, v, m) => Abstract!InsertAfter(l, v, m)
        /\ \A e \in Handle :
            /\ Remove(l, e) => Abstract!Remove(l, e)
            /\ MoveToFront(l, e) => Abstract!MoveToFront(l, e)
            /\ MoveToBack(l, e) => Abstract!MoveToBack(l, e)
        /\ \A e, m \in Handle : /\ MoveBefore(l, e, m) => Abstract!MoveBefore(l, e, m)
                                /\ MoveAfter(l, e, m) => Abstract!MoveAfter(l, e, m)
        /\ \A o \in Lists : /\ PushBackList(l, o) => Abstract!PushBackList(l, o)
                            /\ PushFrontList(l, o) => Abstract!PushFrontList(l, o)
<1>1. ASSUME LInv, LInv', NEW l \in Lists PROVE Does(l)
  <2>1. Clear(l) => Abstract!Clear(l)
    BY <1>1, ClearRefines
  <2>2. ASSUME NEW v \in Value
        PROVE  /\ PushFront(l, v) => Abstract!PushFront(l, v)
               /\ PushBack(l, v) => Abstract!PushBack(l, v)
               /\ \A m \in Handle :
                     /\ InsertBefore(l, v, m) => Abstract!InsertBefore(l, v, m)
                     /\ InsertAfter(l, v, m) => Abstract!InsertAfter(l, v, m)
    BY <1>1, InsertsRefine
  <2>3. ASSUME NEW e \in Handle
        PROVE  /\ Remove(l, e) => Abstract!Remove(l, e)
               /\ MoveToFront(l, e) => Abstract!MoveToFront(l, e)
               /\ MoveToBack(l, e) => Abstract!MoveToBack(l, e)
               /\ \A m \in Handle : /\ MoveBefore(l, e, m) => Abstract!MoveBefore(l, e, m)
                                    /\ MoveAfter(l, e, m) => Abstract!MoveAfter(l, e, m)
    BY <1>1, MovesRefine
  <2>4. ASSUME NEW o \in Lists
        PROVE  /\ PushBackList(l, o) => Abstract!PushBackList(l, o)
               /\ PushFrontList(l, o) => Abstract!PushFrontList(l, o)
    BY <1>1, PushListsRefine
  <2> QED BY <2>1, <2>2, <2>3, <2>4
<1>2. LInv /\ LInv' => [\A l \in Lists : Does(l)]_vars
  <2> HIDE DEF Does
  <2> QED BY <1>1
<1>3. LInv /\ [Next]_vars => LInv'
  BY StepOK
<1> QED BY <1>2, <1>3, InitOK, PTL DEF Spec, AsDocumented

\* The pointers implement sequences: the lists start empty, and whatever is called,
\* the sequences of their elements change as under some method of the package.
THEOREM ListImplements == Spec => Implements
<1>1. Init => Abstract!Init
  <2> SUFFICES ASSUME Init PROVE Abstract!Init
    OBVIOUS
  <2>1. LInv
    BY InitOK
  <2>2. ASSUME NEW l \in Lists PROVE Members(l) = <<>>
    <3>1. PICK c : Cyclic(l, c)
      BY <2>1 DEF LInv, HeapOK, Cyclic
    <3>2. Members(l) = MembersOf(c, heap.len[l]) /\ heap.len[l] = 0
      BY <2>1, <3>1, MembersAre DEF Init
    <3> QED BY <3>2 DEF MembersOf
  <2> QED BY <2>2 DEF Init, Abstract!Init, Abstract!Elem, Elem
<1>2. ASSUME LInv, [Next]_vars PROVE [Abstract!Next]_(Abstract!vars)
  <2>0. LInv'
    BY <1>2, StepOK
  <2>1. CASE UNCHANGED vars
    <3>1. NoChange
      BY <2>1 DEF vars, NoChange
    <3> QED BY <3>1, NoChangeRefines DEF Abstract!vars, Contents
  <2>2. CASE Next
    <3>1. Handle \subseteq 1..made
      BY DEF Handle
    <3>2. ASSUME NEW l \in Lists, Clear(l) PROVE Abstract!Next
      BY <1>2, <2>0, <3>2, ClearRefines DEF Abstract!Next
    <3>3. ASSUME NEW l \in Lists, NEW v \in Value, PushFront(l, v) \/ PushBack(l, v) PROVE Abstract!Next
      BY <1>2, <2>0, <3>3, InsertsRefine DEF Abstract!Next
    <3>4. ASSUME NEW l \in Lists, NEW v \in Value, NEW m \in Handle,
                 InsertBefore(l, v, m) \/ InsertAfter(l, v, m)
          PROVE  Abstract!Next
      <4>1. m \in 1..made
        BY <3>1
      <4>2. Abstract!InsertBefore(l, v, m) \/ Abstract!InsertAfter(l, v, m)
        BY <1>2, <2>0, <3>4, InsertsRefine
      <4> QED BY <4>1, <4>2 DEF Abstract!Next
    <3>5. ASSUME NEW l \in Lists, NEW e \in Handle, Remove(l, e) \/ MoveToFront(l, e) \/ MoveToBack(l, e)
          PROVE  Abstract!Next
      <4>1. e \in 1..made
        BY <3>1
      <4>2. Abstract!Remove(l, e) \/ Abstract!MoveToFront(l, e) \/ Abstract!MoveToBack(l, e)
        BY <1>2, <2>0, <3>5, MovesRefine
      <4> QED BY <4>1, <4>2 DEF Abstract!Next
    <3>6. ASSUME NEW l \in Lists, NEW e \in Handle, NEW m \in Handle, MoveBefore(l, e, m) \/ MoveAfter(l, e, m)
          PROVE  Abstract!Next
      <4>1. e \in 1..made /\ m \in 1..made
        BY <3>1
      <4>2. Abstract!MoveBefore(l, e, m) \/ Abstract!MoveAfter(l, e, m)
        BY <1>2, <2>0, <3>6, MovesRefine
      <4> QED BY <4>1, <4>2 DEF Abstract!Next
    <3>7. ASSUME NEW l \in Lists, NEW o \in Lists, PushBackList(l, o) \/ PushFrontList(l, o)
          PROVE  Abstract!Next
      <4>1. Abstract!PushBackList(l, o) \/ Abstract!PushFrontList(l, o)
        BY <1>2, <2>0, <3>7, PushListsRefine
      <4> QED BY <4>1 DEF Abstract!Next
    <3> QED BY <2>2, <3>2, <3>3, <3>4, <3>5, <3>6, <3>7 DEF Next
  <2> QED BY <1>2, <2>1, <2>2
<1>3. LInv /\ [Next]_vars => LInv'
  BY StepOK
<1> QED BY <1>1, <1>2, <1>3, InitOK, PTL DEF Spec, Implements, Abstract!Spec
=============================================================================
