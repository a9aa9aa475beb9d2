------------------------------ MODULE SeqList ------------------------------
(***************************************************************************)
(* What the comments of package list (pkgs/list) promise: a list is a      *)
(* sequence of elements, and a method changes the sequence of its list, or *)
(* nothing when an element that is passed to it is not in that list.       *)
(* LinkedList shows that the pointers of the code do this.                 *)
(***************************************************************************)
EXTENDS Naturals, Sequences

S == INSTANCE SequencesExt

CONSTANTS
    Lists,     \* identities of lists
    Value,
    MaxElems,  \* bound on the number of elements that are ever made
    Nil        \* no value

VARIABLES
    seq,    \* the lists
    value,  \* the values of the elements, which are numbered as they are made
    made    \* number of elements made so far

vars == <<seq, value, made>>

Elem == 1..MaxElems

Init ==
    /\ seq = [l \in Lists |-> <<>>]
    /\ value = [e \in Elem |-> Nil]
    /\ made = 0

In(e, l) == e \in S!ToSet(seq[l])
At(e, s) == CHOOSE i \in DOMAIN s : s[i] = e
Without(l, e) == IF In(e, l) THEN S!RemoveAt(seq[l], At(e, seq[l])) ELSE seq[l]

Same == UNCHANGED <<seq, value, made>>

Becomes(l, s) == seq' = [seq EXCEPT ![l] = s] /\ UNCHANGED <<value, made>>

\* A new element with value v becomes the i-th of l.
New(l, v, i) ==
    /\ made < MaxElems
    /\ made' = made + 1
    /\ seq' = [seq EXCEPT ![l] = S!InsertAt(@, i, made')]
    /\ value' = [value EXCEPT ![made'] = v]

Clear(l) == Becomes(l, <<>>)

PushFront(l, v) == New(l, v, 1)
PushBack(l, v)  == New(l, v, Len(seq[l]) + 1)

InsertBefore(l, v, m) ==
    IF In(m, l) THEN New(l, v, At(m, seq[l])) ELSE Same

InsertAfter(l, v, m) ==
    IF In(m, l) THEN New(l, v, At(m, seq[l]) + 1) ELSE Same

Remove(l, e) == Becomes(l, Without(l, e))

MoveToFront(l, e) ==
    IF In(e, l) THEN Becomes(l, <<e>> \o Without(l, e)) ELSE Same

MoveToBack(l, e) ==
    IF In(e, l) THEN Becomes(l, Without(l, e) \o <<e>>) ELSE Same

\* e is put where m is, or behind it, once it is taken out.
Move(l, e, m, d) ==
    IF In(e, l) /\ In(m, l) /\ e # m
    THEN LET rest == Without(l, e) IN Becomes(l, S!InsertAt(rest, At(m, rest) + d, e))
    ELSE Same

MoveBefore(l, e, m) == Move(l, e, m, 0)
MoveAfter(l, e, m)  == Move(l, e, m, 1)

\* New elements with the values of o's, in their order; the sequence new is put
\* before or behind l, which may be o.
Copies(o, new) ==
    /\ made' = made + Len(new)
    /\ value' = [e \in Elem |-> IF e \in S!ToSet(new) THEN value[seq[o][At(e, new)]] ELSE value[e]]

PushBackList(l, o) ==
    LET new == [i \in 1..Len(seq[o]) |-> made + i] IN
    /\ made + Len(new) <= MaxElems
    /\ seq' = [seq EXCEPT ![l] = @ \o new]
    /\ Copies(o, new)

PushFrontList(l, o) ==
    LET n   == Len(seq[o])
        new == [i \in 1..n |-> made + n + 1 - i] IN
    /\ made + n <= MaxElems
    /\ seq' = [seq EXCEPT ![l] = new \o @]
    /\ Copies(o, new)

Next ==
    \E l \in Lists :
        \/ Clear(l)
        \/ \E v \in Value : PushFront(l, v) \/ PushBack(l, v)
        \/ \E v \in Value, m \in 1..made : InsertBefore(l, v, m) \/ InsertAfter(l, v, m)
        \/ \E e \in 1..made : Remove(l, e) \/ MoveToFront(l, e) \/ MoveToBack(l, e)
        \/ \E e, m \in 1..made : MoveBefore(l, e, m) \/ MoveAfter(l, e, m)
        \/ \E o \in Lists : PushBackList(l, o) \/ PushFrontList(l, o)

Spec == Init /\ [][Next]_vars
=============================================================================
