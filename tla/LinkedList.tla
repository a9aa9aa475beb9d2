----------------------------- MODULE LinkedList -----------------------------
(***************************************************************************)
(* The doubly linked list (pkgs/list/list.go), pointer by pointer.         *)
(*                                                                         *)
(* A list l is the ring of its elements and its root, so that l also names *)
(* &l.root; elements are numbered as they are made.  Assignments to fields *)
(* are made one after the other, since the elements they go through may be *)
(* the same.  A list is not meant for concurrent use, so a call is a step. *)
(*                                                                         *)
(* The caller keeps all elements it was ever given and may pass them to    *)
(* any list, elements that were removed included.  Only those of a list it *)
(* has cleared are left out: Init does not touch them, so that they still  *)
(* name the list as theirs, and a method would take them for its elements. *)
(***************************************************************************)
EXTENDS Naturals, Sequences

CONSTANTS
    Lists,     \* identities of lists
    Value,
    MaxElems,  \* bound on the number of elements that are ever made
    Nil        \* nil

Elem == 1..MaxElems
Node == Elem \cup Lists

ASSUME ListAssumption ==
    /\ MaxElems \in Nat
    /\ Lists \cap Elem = {}
    /\ Nil \notin Node \cup Value

VARIABLES
    heap,     \* the fields of all elements, roots and lists
    value,    \* the field Value of the elements
    made,     \* number of elements made so far
    cleared   \* the elements of lists that were cleared

vars == <<heap, value, made, cleared>>

\* Zero values: a list is ready for use without a call of Init.
Init ==
    /\ heap = [next |-> [x \in Node |-> Nil], prev |-> [x \in Node |-> Nil],
               list |-> [e \in Elem |-> Nil], len |-> [l \in Lists |-> 0]]
    /\ value = [e \in Elem |-> Nil]
    /\ made = 0
    /\ cleared = {}

-----------------------------------------------------------------------------
(* What the methods are made of: the heap they leave behind *)

SetNext(h, x, y) == [h EXCEPT !.next[x] = y]
SetPrev(h, x, y) == [h EXCEPT !.prev[x] = y]

initList(h, l) == [SetPrev(SetNext(h, l, l), l, l) EXCEPT !.len[l] = 0]

lazyInit(h, l) == IF h.next[l] = Nil THEN initList(h, l) ELSE h

\* e is put behind at: e.prev = at, e.next = at.next, e.prev.next = e, e.next.prev = e.
LinkAfter(h, e, at) ==
    LET h1 == SetPrev(h, e, at)
        h2 == SetNext(h1, e, h1.next[at])
        h3 == SetNext(h2, h2.prev[e], e)
    IN SetPrev(h3, h3.next[e], e)

\* e.prev.next = e.next, e.next.prev = e.prev.
Unlink(h, e) ==
    LET h1 == SetNext(h, h.prev[e], h.next[e])
    IN SetPrev(h1, h1.next[e], h1.prev[e])

insert(h, l, e, at) == [LinkAfter(h, e, at) EXCEPT !.list[e] = l, !.len[l] = @ + 1]

remove(h, l, e) ==
    [SetPrev(SetNext(Unlink(h, e), e, Nil), e, Nil) EXCEPT !.list[e] = Nil, !.len[l] = @ - 1]

\* Mutant: an element is also moved behind itself.
moveAlways(h, e, at) == LinkAfter(Unlink(h, e), e, at)

move(h, e, at) == IF e = at THEN h ELSE LinkAfter(Unlink(h, e), e, at)

NextOf(h, e) == IF h.list[e] # Nil /\ h.next[e] # h.list[e] THEN h.next[e] ELSE Nil
PrevOf(h, e) == IF h.list[e] # Nil /\ h.prev[e] # h.list[e] THEN h.prev[e] ELSE Nil

Front(h, l) == IF h.len[l] = 0 THEN Nil ELSE h.next[l]
Back(h, l)  == IF h.len[l] = 0 THEN Nil ELSE h.prev[l]

-----------------------------------------------------------------------------
(* The methods *)

\* The handles the caller may pass.
Handle == 1..made \ cleared

\* insertValue makes an element; at is evaluated on the heap h.
insertValue(h, l, v, at) ==
    /\ made < MaxElems
    /\ made' = made + 1
    /\ heap' = insert(h, l, made', at)
    /\ value' = [value EXCEPT ![made'] = v]
    /\ UNCHANGED cleared

NoChange == UNCHANGED <<heap, value, made, cleared>>
Heap(h)  == heap' = h /\ UNCHANGED <<value, made, cleared>>

Clear(l) ==
    /\ heap' = initList(heap, l)
    /\ cleared' = cleared \cup {e \in Elem : heap.list[e] = l}
    /\ UNCHANGED <<value, made>>

PushFront(l, v) == insertValue(lazyInit(heap, l), l, v, l)

PushBack(l, v) ==
    LET h == lazyInit(heap, l) IN insertValue(h, l, v, h.prev[l])

\* Mutant: the element is inserted behind mark.
InsertBeforeAfter(l, v, m) ==
    IF heap.list[m] # l THEN NoChange ELSE insertValue(heap, l, v, m)

InsertBefore(l, v, m) ==
    IF heap.list[m] # l THEN NoChange ELSE insertValue(heap, l, v, heap.prev[m])

InsertAfter(l, v, m) ==
    IF heap.list[m] # l THEN NoChange ELSE insertValue(heap, l, v, m)

Remove(l, e) ==
    IF heap.list[e] = l THEN Heap(remove(heap, l, e)) ELSE NoChange

MoveToFront(l, e) ==
    IF heap.list[e] # l \/ heap.next[l] = e THEN NoChange ELSE Heap(move(heap, e, l))

MoveToBack(l, e) ==
    IF heap.list[e] # l \/ heap.prev[l] = e THEN NoChange ELSE Heap(move(heap, e, heap.prev[l]))

MoveBefore(l, e, m) ==
    IF heap.list[e] # l \/ e = m \/ heap.list[m] # l THEN NoChange ELSE Heap(move(heap, e, heap.prev[m]))

MoveAfter(l, e, m) ==
    IF heap.list[e] # l \/ e = m \/ heap.list[m] # l THEN NoChange ELSE Heap(move(heap, e, m))

\* The loop of PushBackList and PushFrontList makes other.Len() rounds, as many as
\* there were elements before it.  A round makes an element with the value of e,
\* and steps from e to its neighbour in the list as it now is.
PushList(l, o, At(_), first(_), step(_, _)) ==
    LET h0 == lazyInit(heap, l)
        n  == h0.len[o]
        round[i \in 0..n] ==
            IF i = 0 THEN [h |-> h0, e |-> first(h0), val |-> value]
            ELSE LET s == round[i - 1]
                     h == insert(s.h, l, made + i, At(s.h))
                 IN [h |-> h, e |-> step(h, s.e), val |-> [s.val EXCEPT ![made + i] = s.val[s.e]]]
    IN /\ made + n <= MaxElems
       /\ made' = made + n
       /\ heap' = round[n].h
       /\ value' = round[n].val
       /\ UNCHANGED cleared

PushBackList(l, o) ==
    PushList(l, o, LAMBDA h : h.prev[l], LAMBDA h : Front(h, o), NextOf)

\* Mutant: the copies are made from the front on.
PushFrontListFromFront(l, o) ==
    PushList(l, o, LAMBDA h : l, LAMBDA h : Front(h, o), NextOf)

PushFrontList(l, o) ==
    PushList(l, o, LAMBDA h : l, LAMBDA h : Back(h, o), PrevOf)

Next ==
    \E l \in Lists :
        \/ Clear(l)
        \/ \E v \in Value : PushFront(l, v) \/ PushBack(l, v)
        \/ \E v \in Value, m \in Handle : InsertBefore(l, v, m) \/ InsertAfter(l, v, m)
        \/ \E e \in Handle : Remove(l, e) \/ MoveToFront(l, e) \/ MoveToBack(l, e)
        \/ \E e, m \in Handle : MoveBefore(l, e, m) \/ MoveAfter(l, e, m)
        \/ \E o \in Lists : PushBackList(l, o) \/ PushFrontList(l, o)

Spec == Init /\ [][Next]_vars

-----------------------------------------------------------------------------
(* Properties *)

\* The types of the fields; a length counts no more elements than were made.
TypeOK ==
    /\ heap.next \in [Node -> Node \cup {Nil}]
    /\ heap.prev \in [Node -> Node \cup {Nil}]
    /\ heap.list \in [Elem -> Lists \cup {Nil}]
    /\ heap.len \in [Lists -> 0..MaxElems]
    /\ value \in [Elem -> Value \cup {Nil}]
    /\ made \in 0..MaxElems
    /\ cleared \in SUBSET Elem

\* The i-th node after (d = "next") or before the root of l.
Walk(l, d) ==
    LET node[i \in 0..MaxElems] == IF i = 0 THEN l ELSE heap[d][node[i - 1]]
    IN [i \in 1..heap.len[l] |-> node[i]]

Members(l) == Walk(l, "next")

\* "a list l is implemented as a ring, such that &l.root is both the next element
\* of the last list element and the previous element of the first" (list.go:18):
\* in both directions len elements lie between root and root, they are exactly
\* the ones that name l as theirs, and an element of no list has no neighbours.
Ring ==
    /\ \A l \in Lists :
        LET s == Members(l)
            n == heap.len[l]
        IN IF heap.next[l] = Nil THEN n = 0 /\ heap.prev[l] = Nil
           ELSE /\ {s[i] : i \in 1..n} = {e \in Elem \ cleared : heap.list[e] = l}
                /\ \A i, j \in 1..n : s[i] = s[j] => i = j
                /\ heap.next[IF n = 0 THEN l ELSE s[n]] = l
                /\ \A i \in 1..n : heap.prev[s[i]] = IF i = 1 THEN l ELSE s[i - 1]
                /\ heap.prev[l] = IF n = 0 THEN l ELSE s[n]
    /\ \A e \in Elem : heap.list[e] = Nil => heap.next[e] = Nil /\ heap.prev[e] = Nil

\* The loop of the package comment, "for e := l.Front(); e != nil; e = e.Next()"
\* (list.go:9), visits every element once in the order of the list and ends, and
\* so does the one with Back and Prev in the reverse order.
Iterates ==
    \A l \in Lists :
        LET s == Members(l)
            n == heap.len[l]
            fwd[i \in 0..n] == IF i = 0 THEN Front(heap, l) ELSE NextOf(heap, fwd[i - 1])
            bwd[i \in 0..n] == IF i = 0 THEN Back(heap, l) ELSE PrevOf(heap, bwd[i - 1])
        IN /\ \A i \in 1..n : fwd[i - 1] = s[i] /\ bwd[i - 1] = s[n + 1 - i]
           /\ fwd[n] = Nil /\ bwd[n] = Nil

\* All pointers are as the package comment describes them.
WellFormed == TypeOK /\ Ring /\ Iterates

\* The list a root and its pointers stand for.
Abstract == INSTANCE SeqList WITH seq <- [l \in Lists |-> Members(l)]

\* The pointers implement sequences: whatever is called, the lists change the way
\* sequences do under some method, one list at a time.
Implements == Abstract!Spec

\* Each method does what its own comment says, to its list and to no other, and
\* nothing when an element it is given is not in that list ("If mark is not an
\* element of l, the list is not modified", list.go:156).
AsDocumented ==
    [][\A l \in Lists :
        /\ Clear(l) => Abstract!Clear(l)
        /\ \A v \in Value : /\ PushFront(l, v) => Abstract!PushFront(l, v)
                            /\ PushBack(l, v) => Abstract!PushBack(l, v)
        /\ \A v \in Value, m \in Handle :
            /\ InsertBefore(l, v, m) => Abstract!InsertBefore(l, v, m)
            /\ InsertAfter(l, v, m) => Abstract!InsertAfter(l, v, m)
        /\ \A e \in Handle :
            /\ Remove(l, e) => Abstract!Remove(l, e)
            /\ MoveToFront(l, e) => Abstract!MoveToFront(l, e)
            /\ MoveToBack(l, e) => Abstract!MoveToBack(l, e)
        /\ \A e, m \in Handle : /\ MoveBefore(l, e, m) => Abstract!MoveBefore(l, e, m)
                                /\ MoveAfter(l, e, m) => Abstract!MoveAfter(l, e, m)
        /\ \A o \in Lists : /\ PushBackList(l, o) => Abstract!PushBackList(l, o)
                            /\ PushFrontList(l, o) => Abstract!PushFrontList(l, o)]_vars
=============================================================================
