----------------------------- MODULE RingProofs -----------------------------
(***************************************************************************)
(* What the comments in pkgs/ringbuffer/ringbuffer.go promise to readers   *)
(* and writers, and that the buffer is a queue: what is read is what was   *)
(* written, in order.  For any number of goroutines, any buffer size and   *)
(* any bytes.                                                              *)
(***************************************************************************)
EXTENDS RingBuffer, SequenceTheorems, TLAPS

-----------------------------------------------------------------------------
(* The inductive invariant *)

Label == {"idle", "readCond", "writeCond", "woken", "flush", "flushLock", "flushFail",
          "flushEnd", "resetWait", "resetLock"}

Local == [pc : Label, op : Methods \cup {"none"}, len : Nat, arg : Seq(Byte), n : Nat]

\* A round of a write starts with n bytes of its argument written, none of them
\* unless it is a Write that has waited, and the argument of WriteByte is a byte; a
\* thread only waits in blocking mode.
LocalOK(l) ==
    /\ l.n <= Len(l.arg)
    /\ l.n # 0 => l.op = "Write" /\ l.pc \in {"readCond", "woken"}
    /\ l.op = "WriteByte" => Len(l.arg) = 1
    /\ l.pc \in {"readCond", "writeCond", "flushLock"} => block

ThreadInv == thread \in [Thread -> Local] /\ \A t \in Thread : LocalOK(thread[t])

BufType ==
    /\ buf \in [Pos -> Byte \cup {Zero}]
    /\ r \in Pos /\ w \in Pos
    /\ isFull \in BOOLEAN /\ (isFull => w = r)

\* setErr does not store a transient error.
ErrType ==
    /\ err \in {"nil", "EOF", CtxErr, "reset called"}
    /\ err \in Transient => err = "nil"

RInv ==
    /\ BufType /\ ErrType /\ block \in BOOLEAN
    /\ ThreadInv
    /\ ReadersWait /\ WriteContract /\ EofAtEnd

-----------------------------------------------------------------------------
(* The buffer *)

LEMMA Positions ==
    ASSUME BufType
    PROVE  /\ Size \in Nat \ {0} /\ r \in 0..(Size - 1) /\ w \in 0..(Size - 1)
           /\ buf \in [0..(Size - 1) -> Byte \cup {Zero}]
           /\ Length \in 0..Size /\ (Length = 0 <=> IsEmpty)
<1>1. Size \in Nat \ {0}
  BY RingAssumption
<1>2. r \in 0..(Size - 1) /\ w \in 0..(Size - 1) /\ buf \in [0..(Size - 1) -> Byte \cup {Zero}]
  BY DEF BufType, Pos
<1>3. Length \in 0..Size /\ (Length = 0 <=> IsEmpty)
  BY <1>1, <1>2 DEF Length, IsEmpty
<1> QED BY <1>1, <1>2, <1>3

\* Writing no more than what is available keeps the write position in the buffer.
LEMMA PutKeeps ==
    ASSUME BufType, ~isFull, NEW s \in Seq(Byte), Len(s) \in 1..Avail, Put(s)
    PROVE  /\ buf' \in [Pos -> Byte \cup {Zero}]
           /\ r' = r /\ w' \in Pos /\ isFull' \in BOOLEAN /\ (isFull' => w' = r')
<1>1. /\ Size \in Nat \ {0} /\ r \in 0..(Size - 1) /\ w \in 0..(Size - 1)
      /\ buf \in [Pos -> Byte \cup {Zero}] /\ Len(s) \in Nat
  BY Positions DEF Pos
<1>2. ASSUME NEW b \in [Pos -> Byte \cup {Zero}], NEW a \in Nat, NEW q \in Seq(Byte)
      PROVE  Copy(b, a, q) \in [Pos -> Byte \cup {Zero}]
  <2>1. ASSUME NEW i \in Pos, i \in a..(a + Len(q) - 1) PROVE q[i - a + 1] \in Byte
    <3>1. i - a + 1 \in 1..Len(q)
      BY <1>1, <2>1 DEF Pos
    <3> QED BY <3>1, ElementOfSeq
  <2> QED BY <2>1 DEF Copy
<1>3. CASE w >= r /\ Size - w < Len(s)
  <2> DEFINE c1 == Size - w
  <2>1. c1 \in Nat /\ c1 < Len(s) /\ Len(s) <= Size - w + r
    BY <1>1, <1>3 DEF Avail
  <2>2. SubSeq(s, 1, c1) \in Seq(Byte) /\ SubSeq(s, c1 + 1, Len(s)) \in Seq(Byte)
    BY <2>1
  <2>3. /\ buf' = Copy(Copy(buf, w, SubSeq(s, 1, c1)), 0, SubSeq(s, c1 + 1, Len(s)))
        /\ w' = Wrap(Len(s) - c1) /\ isFull' = (w' = r) /\ r' = r
    BY <1>3 DEF Put
  <2>4. buf' \in [Pos -> Byte \cup {Zero}]
    <3> HIDE DEF c1
    <3>1. w \in Nat /\ 0 \in Nat
      BY <1>1
    <3>2. Copy(buf, w, SubSeq(s, 1, c1)) \in [Pos -> Byte \cup {Zero}]
      BY <1>1, <1>2, <2>2, <3>1
    <3> QED BY <1>2, <2>2, <2>3, <3>1, <3>2
  <2>5. w' \in Pos
    BY <1>1, <2>1, <2>3 DEF Wrap, Pos
  <2> QED BY <2>3, <2>4, <2>5
<1>4. CASE ~(w >= r /\ Size - w < Len(s))
  <2>1. /\ buf' = Copy(buf, w, s) /\ w' = Wrap(w + Len(s)) /\ isFull' = (w' = r) /\ r' = r
    BY <1>4 DEF Put
  <2>2. w + Len(s) \in 0..Size
    BY <1>1, <1>4 DEF Avail
  <2>3. w' \in Pos
    BY <1>1, <2>1, <2>2 DEF Wrap, Pos
  <2>4. w \in Nat
    BY <1>1
  <2> QED BY <1>1, <1>2, <2>1, <2>3, <2>4
<1> QED BY <1>3, <1>4

LEMMA SliceLen ==
    ASSUME BufType, NEW a \in Nat, NEW b \in a..Size
    PROVE  Slice(a, b) \in Seq(Byte \cup {Zero}) /\ Len(Slice(a, b)) = b - a
<1>1. Size \in Nat /\ b - a \in Nat /\ buf \in [0..(Size - 1) -> Byte \cup {Zero}]
  BY Positions
<1>2. ASSUME NEW i \in 1..(b - a) PROVE buf[a + i - 1] \in Byte \cup {Zero}
  <2>1. a + i - 1 \in 0..(Size - 1)
    BY <1>1
  <2> QED BY <1>1, <2>1
<1>3. Slice(a, b) \in [1..(b - a) -> Byte \cup {Zero}]
  BY <1>2 DEF Slice
<1> QED BY <1>1, <1>3

\* A reader takes at least one byte of a buffer that is not empty.
LEMMA TakenLen ==
    ASSUME BufType, ~IsEmpty, NEW len \in Nat \ {0}
    PROVE  /\ Len(Taken(len)) = Least(len, Length)
           /\ Len(Taken(len)) \in 1..Size
<1>1. Size \in Nat \ {0} /\ r \in 0..(Size - 1) /\ w \in 0..(Size - 1)
  BY Positions
<1> DEFINE n == Least(len, IF w > r THEN w - r ELSE Size - r + w)
<1>2. Length = IF w > r THEN w - r ELSE Size - r + w
  BY <1>1 DEF IsEmpty, Length
<1>3. n = Least(len, Length) /\ n \in 1..Size
  <2>1. Length \in 1..Size
    BY Positions, <1>1
  <2>2. n = Least(len, Length)
    BY <1>2
  <2> HIDE DEF n
  <2>3. Least(len, Length) \in 1..Size
    BY <1>1, <2>1 DEF Least
  <2> QED BY <2>2, <2>3
<1>4. Taken(len) = IF r + n <= Size THEN Slice(r, r + n)
                   ELSE Slice(r, Size) \o Slice(0, n - (Size - r))
  BY DEF Taken
<1> HIDE DEF n
<1>5. CASE r + n <= Size
  <2>1. r \in Nat /\ r + n \in r..Size /\ (r + n) - r = n
    BY <1>1, <1>3, <1>5
  <2>2. Len(Slice(r, r + n)) = n
    BY <2>1, SliceLen
  <2> QED BY <1>3, <1>4, <1>5, <2>2
<1>6. CASE ~(r + n <= Size)
  <2> DEFINE m == n - (Size - r)
  <2>1. r \in Nat /\ Size \in r..Size /\ 0 \in Nat /\ m \in 0..Size /\ m - 0 = m
    BY <1>1, <1>3, <1>6
  <2>2. /\ Slice(r, Size) \in Seq(Byte \cup {Zero}) /\ Len(Slice(r, Size)) = Size - r
    BY <2>1, SliceLen
  <2>3. Slice(0, m) \in Seq(Byte \cup {Zero}) /\ Len(Slice(0, m)) = m
    <3> HIDE DEF m
    <3> QED BY <2>1, SliceLen
  <2>4. Len(Slice(r, Size) \o Slice(0, m)) = Size - r + m
    <3> HIDE DEF m
    <3> QED BY <2>2, <2>3, ConcatProperties
  <2>5. Len(Taken(len)) = n
    BY <1>1, <1>3, <1>4, <1>6, <2>4
  <2> QED BY <1>3, <2>5
<1> QED BY <1>5, <1>6

-----------------------------------------------------------------------------
(* The threads *)

\* The threads after some of them were told to go on.
Told(th) ==
    /\ th \in [Thread -> Local]
    /\ \A u \in Thread : LocalOK(th[u]) /\ (th[u].pc = "writeCond" => thread[u].pc = "writeCond")
    /\ \A u \in Thread : th[u].n = thread[u].n

LEMMA Broadcast ==
    ASSUME RInv, NEW conds
    PROVE  /\ Told(thread) /\ Told(Woken(conds))
           /\ "writeCond" \in conds => \A u \in Thread : Woken(conds)[u].pc # "writeCond"
<1>1. Told(thread)
  BY DEF RInv, ThreadInv, Told
<1>2. ASSUME NEW u \in Thread
      PROVE  /\ Woken(conds)[u] \in Local /\ LocalOK(Woken(conds)[u])
             /\ Woken(conds)[u].pc = "writeCond" =>
                    thread[u].pc = "writeCond" /\ "writeCond" \notin conds
             /\ Woken(conds)[u].n = thread[u].n
  <2>1. thread[u] \in Local /\ LocalOK(thread[u])
    BY DEF RInv, ThreadInv
  <2>2. CASE block /\ thread[u].pc \in conds
    <3>1. Woken(conds)[u] = [thread[u] EXCEPT !.pc = "woken"]
      BY <2>2 DEF Woken
    <3> QED BY <2>1, <3>1 DEF Local, Label, LocalOK
  <2>3. CASE ~(block /\ thread[u].pc \in conds)
    <3>1. Woken(conds)[u] = thread[u]
      BY <2>3 DEF Woken
    <3> QED BY <2>1, <2>3, <3>1 DEF LocalOK
  <2> QED BY <2>2, <2>3
<1>3. Woken(conds) \in [Thread -> Local]
  BY <1>2 DEF Woken
<1> QED BY <1>1, <1>2, <1>3 DEF Told

\* No reader is left waiting for a buffer that has something to read, or an error
\* to report.
NoneLost(th) ==
    \/ UNCHANGED <<ring, err>>
    \/ ~IsEmpty
    \/ err # "nil"
    \/ IsEmpty' /\ err' = "nil"
    \/ \A u \in Thread : th[u].pc # "writeCond"

LEMMA Moves ==
    ASSUME RInv, NEW t \in Thread, NEW th, Told(th), NoneLost(th), UNCHANGED block,
           NEW l \in Local, LocalOK(l), thread' = [th EXCEPT ![t] = l],
           l.pc = "writeCond" => IsEmpty' /\ err' = "nil",
           BufType', ErrType', WriteContract', EofAtEnd'
    PROVE  RInv'
<1>1. /\ thread' \in [Thread -> Local] /\ thread'[t] = l
      /\ \A u \in Thread \ {t} : thread'[u] = th[u]
  BY DEF Told
<1>2. \A u \in Thread : LocalOK(thread'[u])
  BY <1>1 DEF Told
<1>3. ThreadInv'
  BY <1>1, <1>2 DEF ThreadInv, LocalOK
<1>4. ReadersWait'
  <2> SUFFICES ASSUME NEW u \in Thread, thread'[u].pc = "writeCond" PROVE IsEmpty' /\ err' = "nil"
    BY DEF ReadersWait, At
  <2>1. CASE u = t
    BY <1>1, <2>1
  <2>2. CASE u # t
    <3>1. th[u].pc = "writeCond" /\ thread[u].pc = "writeCond"
      BY <1>1, <2>2 DEF Told
    <3>2. IsEmpty /\ err = "nil"
      BY <3>1 DEF RInv, ReadersWait, At
    <3>3. CASE UNCHANGED <<ring, err>>
      BY <3>2, <3>3 DEF ring, IsEmpty
    <3> QED BY <3>1, <3>2, <3>3 DEF NoneLost
  <2> QED BY <2>1, <2>2
<1>5. block' \in BOOLEAN
  BY DEF RInv
<1> QED BY <1>3, <1>4, <1>5 DEF RInv

LEMMA Leaves ==
    ASSUME RInv, NEW t \in Thread, NEW th, Told(th), NoneLost(th), UNCHANGED block,
           NEW op, NEW arg, NEW n, NEW got, NEW e, Leave(t, th, op, arg, n, got, e),
           BufType', ErrType', WriteContract', EofAtEnd'
    PROVE  RInv'
<1>1. Idle \in Local /\ LocalOK(Idle) /\ Idle.pc = "idle"
  BY DEF Idle, Local, Label, LocalOK
<1>2. thread' = [th EXCEPT ![t] = Idle]
  BY DEF Leave
<1> QED BY <1>1, <1>2, Moves

LEMMA Pauses ==
    ASSUME RInv, NEW t \in Thread, NEW th, Told(th), NoneLost(th), UNCHANGED block,
           NEW pc \in Label, NEW op \in Methods, NEW len \in Nat, NEW arg \in Seq(Byte), NEW n \in Nat,
           Pause(t, th, pc, op, len, arg, n),
           n <= Len(arg), n # 0 => op = "Write" /\ pc = "readCond",
           op = "WriteByte" => Len(arg) = 1,
           pc \in {"readCond", "writeCond", "flushLock"} => block,
           pc = "writeCond" => IsEmpty' /\ err' = "nil",
           BufType', ErrType'
    PROVE  RInv'
<1> DEFINE l == [pc |-> pc, op |-> op, len |-> len, arg |-> arg, n |-> n]
<1>1. l \in Local /\ LocalOK(l) /\ l.pc = pc
  BY DEF Local, LocalOK
<1>2. thread' = [th EXCEPT ![t] = l] /\ ret' = NoRet
  BY DEF Pause
<1>3. WriteContract' /\ EofAtEnd'
  <2>1. ret'.op = "none"
    BY <1>2 DEF NoRet
  <2> QED BY <2>1 DEF WriteContract, EofAtEnd, WriteOps, ReadOps
<1> HIDE DEF l
<1> QED BY <1>1, <1>2, <1>3, Moves

\* A step that leaves the buffer and r.err alone.
LEMMA Same ==
    ASSUME RInv, UNCHANGED <<ring, err>>
    PROVE  /\ BufType' /\ ErrType' /\ IsEmpty' = IsEmpty /\ err' = err
           /\ \A th : NoneLost(th)
<1>1. UNCHANGED <<buf, r, w, isFull, err>>
  BY DEF ring
<1>2. BufType' /\ ErrType'
  BY <1>1 DEF RInv, BufType, ErrType
<1>3. IsEmpty' = IsEmpty
  BY <1>1 DEF IsEmpty
<1> QED BY <1>1, <1>2, <1>3 DEF NoneLost

\* What a step that returns to the caller has to report.
LEMMA Returned ==
    ASSUME NEW t, NEW th, NEW op, NEW arg, NEW n, NEW got, NEW e, Leave(t, th, op, arg, n, got, e),
           op \in ReadOps /\ e = "EOF" => IsEmpty',
           op \in WriteOps /\ n < Len(arg) => e # "nil" /\ (block' /\ op \in {"Write", "WriteByte"} => e \notin Transient)
    PROVE  WriteContract' /\ EofAtEnd'
<1>1. /\ ret'.op = op /\ ret'.arg = arg /\ ret'.n = n /\ ret'.err = e
  BY DEF Leave
<1>2. ret'.op \in WriteOps /\ ret'.n < Len(ret'.arg) => ret'.err # "nil"
  BY <1>1
<1>3. block' /\ ret'.op \in {"Write", "WriteByte"} /\ ret'.n < Len(ret'.arg) => ret'.err \notin Transient
  <2>1. {"Write", "WriteByte"} \subseteq WriteOps
    BY DEF WriteOps
  <2> QED BY <1>1, <2>1
<1>4. EofAtEnd'
  BY <1>1 DEF EofAtEnd
<1> QED BY <1>2, <1>3, <1>4 DEF WriteContract

-----------------------------------------------------------------------------
(* Reading *)

LEMMA AdvanceKeeps ==
    ASSUME BufType, NEW n \in Nat, Advance(n)
    PROVE  BufType' /\ w' = w /\ ~isFull'
<1>1. Size \in Nat \ {0} /\ r \in 0..(Size - 1) /\ w \in 0..(Size - 1)
  BY Positions
<1>2. (r + n) % Size \in 0..(Size - 1)
  BY <1>1
<1>3. r' = (r + n) % Size /\ isFull' = (w > r /\ isFull) /\ buf' = buf /\ w' = w
  BY DEF Advance
<1>4. ~isFull'
  <2>1. isFull => w = r
    BY DEF BufType
  <2>2. w = r => ~(w > r)
    BY <1>1
  <2> QED BY <1>3, <2>1, <2>2
<1> QED BY <1>2, <1>3, <1>4 DEF BufType, Pos

LEMMA ReadLoopStep ==
    ASSUME RInv, NEW t \in Thread, NEW op \in ReadOps, NEW len \in Nat, ReadLoop(t, op, len),
           UNCHANGED block
    PROVE  RInv'
<1>1. err' = err /\ op \in Methods /\ op # "WriteByte" /\ op \notin WriteOps
  BY DEF ReadLoop, ReadOps, WriteOps, Methods
<1>2. BufType /\ ErrType /\ Told(thread)
  BY Broadcast DEF RInv
<1>3. CASE /\ Leave(t, thread, op, <<>>, 0, <<>>, ReadErr(IsEmpty))
           /\ UNCHANGED ring
  <2>1. BufType' /\ ErrType' /\ IsEmpty' = IsEmpty /\ NoneLost(thread)
    BY <1>1, <1>3, Same
  <2>2. ReadErr(IsEmpty) = "EOF" => IsEmpty
    BY DEF ReadErr
  <2>3. WriteContract' /\ EofAtEnd'
    BY <1>1, <1>3, <2>1, <2>2, Returned
  <2> QED BY <1>2, <1>3, <2>1, <2>3, Leaves
<1>4. CASE /\ block /\ ReadErr(IsEmpty) = "nil" /\ IsEmpty
           /\ Pause(t, thread, "writeCond", op, len, <<>>, 0)
           /\ UNCHANGED ring
  <2>1. BufType' /\ ErrType' /\ IsEmpty' = IsEmpty /\ NoneLost(thread)
    BY <1>1, <1>4, Same
  <2>2. err = "nil" /\ IsEmpty' /\ err' = "nil"
    BY <1>1, <1>4, <2>1 DEF ReadErr
  <2>3. "writeCond" \in Label /\ <<>> \in Seq(Byte) /\ 0 \in Nat /\ 0 <= Len(<<>>)
    BY DEF Label
  <2> QED BY <1>1, <1>2, <1>4, <2>1, <2>2, <2>3, Pauses
<1>5. CASE /\ Leave(t, thread, op, <<>>, 0, <<>>, "ErrIsEmpty")
           /\ UNCHANGED ring
  <2>1. BufType' /\ ErrType' /\ NoneLost(thread)
    BY <1>1, <1>5, Same
  <2>2. WriteContract' /\ EofAtEnd'
    BY <1>1, <1>5, Returned
  <2> QED BY <1>2, <1>5, <2>1, <2>2, Leaves
<1>6. CASE /\ len > 0 /\ ~IsEmpty /\ Advance(Len(Taken(len)))
           /\ Leave(t, Woken({"readCond"}), op, <<>>, Len(Taken(len)), Taken(len),
                   IF w > r THEN "nil" ELSE ReadErr(r' = w /\ ~isFull'))
  <2>1. Len(Taken(len)) \in Nat
    BY <1>2, <1>6, TakenLen, Positions
  <2>2. BufType' /\ w' = w /\ ~isFull'
    BY <1>2, <1>6, <2>1, AdvanceKeeps
  <2>3. ErrType'
    BY <1>1, <1>2 DEF ErrType
  <2>4. (IF w > r THEN "nil" ELSE ReadErr(r' = w /\ ~isFull')) = "EOF" => IsEmpty'
    BY <2>2 DEF ReadErr, IsEmpty
  <2>5. WriteContract' /\ EofAtEnd'
    BY <1>1, <1>6, <2>4, Returned
  <2>6. Told(Woken({"readCond"})) /\ NoneLost(Woken({"readCond"}))
    BY <1>6, Broadcast DEF NoneLost
  <2> QED BY <1>6, <2>2, <2>3, <2>5, <2>6, Leaves
<1> QED BY <1>3, <1>4, <1>5, <1>6 DEF ReadLoop

LEMMA ReadByteStep ==
    ASSUME RInv, NEW t \in Thread, ReadByte(t), UNCHANGED block
    PROVE  RInv'
<1> DEFINE op == "ReadByte"
<1>1. err' = err /\ op \in Methods /\ op \in ReadOps /\ op # "WriteByte" /\ op \notin WriteOps
  BY DEF ReadByte, ReadOps, WriteOps, Methods
<1>2. BufType /\ ErrType /\ Told(thread)
  BY Broadcast DEF RInv
<1>3. CASE /\ Leave(t, thread, op, <<>>, 0, <<>>, ReadErr(IsEmpty))
           /\ UNCHANGED ring
  <2>1. BufType' /\ ErrType' /\ IsEmpty' = IsEmpty /\ NoneLost(thread)
    BY <1>1, <1>3, Same
  <2>2. ReadErr(IsEmpty) = "EOF" => IsEmpty
    BY DEF ReadErr
  <2>3. WriteContract' /\ EofAtEnd'
    BY <1>1, <1>3, <2>1, <2>2, Returned
  <2> QED BY <1>2, <1>3, <2>1, <2>3, Leaves
<1>4. CASE /\ block /\ ReadErr(IsEmpty) = "nil" /\ IsEmpty
           /\ Pause(t, thread, "writeCond", op, 1, <<>>, 0)
           /\ UNCHANGED ring
  <2>1. BufType' /\ ErrType' /\ IsEmpty' = IsEmpty /\ NoneLost(thread)
    BY <1>1, <1>4, Same
  <2>2. err = "nil" /\ IsEmpty' /\ err' = "nil"
    BY <1>1, <1>4, <2>1 DEF ReadErr
  <2>3. /\ "writeCond" \in Label /\ <<>> \in Seq(Byte) /\ 0 \in Nat /\ 1 \in Nat
        /\ 0 <= Len(<<>>)
    BY DEF Label
  <2> QED BY <1>1, <1>2, <1>4, <2>1, <2>2, <2>3, Pauses
<1>5. CASE /\ Leave(t, thread, op, <<>>, 0, <<>>, "ErrIsEmpty")
           /\ UNCHANGED ring
  <2>1. BufType' /\ ErrType' /\ NoneLost(thread)
    BY <1>1, <1>5, Same
  <2>2. WriteContract' /\ EofAtEnd'
    BY <1>1, <1>5, Returned
  <2> QED BY <1>2, <1>5, <2>1, <2>2, Leaves
<1>6. CASE /\ ~IsEmpty /\ r' = Wrap(r + 1) /\ isFull' = FALSE /\ UNCHANGED <<buf, w>>
           /\ Leave(t, thread, op, <<>>, 1, <<buf[r]>>, ReadErr(r' = w))
  <2>1. Size \in Nat \ {0} /\ r \in 0..(Size - 1)
    BY <1>2, Positions
  <2>2. r' \in Pos
    BY <1>6, <2>1 DEF Wrap, Pos
  <2>3. BufType'
    BY <1>2, <1>6, <2>2 DEF BufType
  <2>4. ErrType'
    BY <1>1, <1>2 DEF ErrType
  <2>5. ReadErr(r' = w) = "EOF" => IsEmpty'
    BY <1>6 DEF ReadErr, IsEmpty
  <2>6. WriteContract' /\ EofAtEnd'
    BY <1>1, <1>6, <2>5, Returned
  <2>7. NoneLost(thread)
    BY <1>6 DEF NoneLost
  <2> QED BY <1>2, <1>6, <2>3, <2>4, <2>6, <2>7, Leaves
<1> QED BY <1>3, <1>4, <1>5, <1>6 DEF ReadByte

-----------------------------------------------------------------------------
(* Writing *)

\* An error in r.err hides the transient ones, and is not one itself.
LEMMA SetErrHides ==
    ASSUME RInv, NEW e
    PROVE  \/ SetErrResult(e) = err /\ err \notin Transient /\ err # "nil"
           \/ SetErrResult(e) = e /\ err \in {"nil", "EOF"}
<1>1. "nil" \in Transient
  BY DEF Transient
<1>2. err \in Transient => err = "nil"
  BY DEF RInv, ErrType
<1> QED BY <1>1, <1>2 DEF SetErrResult

LEMMA AvailNat == ASSUME BufType PROVE Avail \in Nat /\ (~isFull => Avail >= 1)
<1>1. Size \in Nat \ {0} /\ r \in 0..(Size - 1) /\ w \in 0..(Size - 1)
  BY Positions
<1> QED BY <1>1 DEF Avail

LEMMA WriteLoopStep ==
    ASSUME RInv, NEW t \in Thread, NEW op \in {"Write", "TryWrite"}, NEW s \in Seq(Byte),
           NEW n \in 0..Len(s), WriteLoop(t, op, s, n), UNCHANGED block
    PROVE  RInv'
<1> SUFFICES ASSUME NEW k, k = (IF isFull THEN 0 ELSE Least(Len(s) - n, Avail)),
                    NEW e, e = (IF isFull THEN "ErrIsFull"
                                ELSE IF Len(s) - n > Avail THEN "ErrTooMuchDataToWrite" ELSE "nil"),
                    NEW waits, waits = (/\ op = "Write" /\ block
                                        /\ SetErrResult(e) \in {"ErrIsFull", "ErrTooMuchDataToWrite"})
             PROVE  RInv'
  OBVIOUS
<1>1. /\ IF k > 0 THEN Put(SubSeq(s, n + 1, n + k)) ELSE UNCHANGED ring
      /\ err' = err
      /\ \/ waits /\ Pause(t, Woken({"writeCond"}), "readCond", op, 0, s, n + k)
         \/ ~waits /\ Leave(t, IF n + k > 0 THEN Woken({"writeCond"}) ELSE thread,
                            op, s, n + k, <<>>, SetErrResult(e))
  BY DEF WriteLoop
<1>2. BufType /\ ErrType
  BY DEF RInv
<1>3. /\ Told(Woken({"writeCond"})) /\ Told(thread)
      /\ \A u \in Thread : Woken({"writeCond"})[u].pc # "writeCond"
  BY Broadcast
<1>4. /\ k \in Nat /\ n \in Nat /\ n + k \in Nat /\ n + k <= Len(s) /\ Len(s) \in Nat
      /\ Avail \in Nat
      /\ ~isFull => k <= Avail
      /\ k > 0 => ~isFull
  <2>1. Avail \in Nat /\ Len(s) \in Nat
    BY <1>2, AvailNat
  <2>2. CASE isFull
    BY <2>1, <2>2
  <2>3. CASE ~isFull
    BY <2>1, <2>3 DEF Least
  <2> QED BY <2>1, <2>2, <2>3
<1>5. BufType'
  <2>1. CASE k > 0
    <3> DEFINE q == SubSeq(s, n + 1, n + k)
    <3>1. q \in Seq(Byte) /\ Len(q) = k
      BY <1>4, <2>1, SubSeqProperties
    <3>2. Put(q) /\ ~isFull /\ Len(q) \in 1..Avail
      BY <1>1, <1>4, <2>1, <3>1
    <3> HIDE DEF q
    <3>3. /\ buf' \in [Pos -> Byte \cup {Zero}]
          /\ r' = r /\ w' \in Pos /\ isFull' \in BOOLEAN /\ (isFull' => w' = r')
      BY <1>2, <3>1, <3>2, PutKeeps
    <3> QED BY <1>2, <3>3 DEF BufType
  <2>2. CASE ~(k > 0)
    BY <1>1, <2>2, Same
  <2> QED BY <2>1, <2>2
<1>6. ErrType'
  BY <1>1, <1>2 DEF ErrType
<1>7. op \in Methods /\ op \in WriteOps /\ op \notin ReadOps /\ op # "WriteByte"
  BY DEF Methods, WriteOps, ReadOps
<1>8. CASE waits /\ Pause(t, Woken({"writeCond"}), "readCond", op, 0, s, n + k)
  <2>1. block /\ "readCond" \in Label /\ 0 \in Nat /\ NoneLost(Woken({"writeCond"}))
    BY <1>3, <1>8 DEF Label, NoneLost
  <2> QED BY <1>3, <1>4, <1>5, <1>6, <1>7, <1>8, <2>1, Pauses
<1>9. CASE ~waits /\ Leave(t, IF n + k > 0 THEN Woken({"writeCond"}) ELSE thread,
                            op, s, n + k, <<>>, SetErrResult(e))
  <2> DEFINE th == IF n + k > 0 THEN Woken({"writeCond"}) ELSE thread
  <2>1. Told(th) /\ NoneLost(th)
    <3>1. CASE n + k > 0
      BY <1>3, <3>1 DEF NoneLost
    <3>2. CASE ~(n + k > 0)
      <4>1. UNCHANGED <<ring, err>>
        BY <1>1, <1>4, <3>2
      <4> QED BY <1>3, <3>2, <4>1 DEF NoneLost
    <3> QED BY <3>1, <3>2
  <2>2. n + k < Len(s) => e \in {"ErrIsFull", "ErrTooMuchDataToWrite"}
    <3>1. CASE isFull
      BY <3>1
    <3>2. CASE ~isFull
      BY <1>4, <3>2 DEF Least
    <3> QED BY <3>1, <3>2
  <2>3. n + k < Len(s) => /\ SetErrResult(e) # "nil"
                          /\ block /\ op = "Write" => SetErrResult(e) \notin Transient
    <3> SUFFICES ASSUME n + k < Len(s)
                 PROVE  /\ SetErrResult(e) # "nil"
                        /\ block /\ op = "Write" => SetErrResult(e) \notin Transient
      OBVIOUS
    <3>1. CASE SetErrResult(e) = err /\ err \notin Transient /\ err # "nil"
      BY <3>1
    <3>2. CASE SetErrResult(e) = e
      <4>1. e \in {"ErrIsFull", "ErrTooMuchDataToWrite"}
        BY <2>2
      <4>2. e # "nil"
        BY <4>1
      <4> QED BY <1>9, <3>2, <4>1, <4>2
    <3> QED BY <3>1, <3>2, SetErrHides
  <2>4. WriteContract' /\ EofAtEnd'
    <3> HIDE DEF th
    <3>1. Leave(t, th, op, s, n + k, <<>>, SetErrResult(e))
      BY <1>9 DEF th
    <3>2. op \in WriteOps /\ n + k < Len(s) =>
             /\ SetErrResult(e) # "nil"
             /\ block' /\ op \in {"Write", "WriteByte"} => SetErrResult(e) \notin Transient
      BY <1>7, <2>3
    <3>3. op \in ReadOps /\ SetErrResult(e) = "EOF" => IsEmpty'
      BY <1>7
    <3> QED BY <3>1, <3>2, <3>3, Returned
  <2>5. Leave(t, th, op, s, n + k, <<>>, SetErrResult(e))
    BY <1>9
  <2> HIDE DEF th
  <2> QED BY <1>5, <1>6, <2>1, <2>4, <2>5, Leaves
<1> QED BY <1>1, <1>8, <1>9

LEMMA WriteBeginStep ==
    ASSUME RInv, NEW t \in Thread, NEW op \in {"Write", "TryWrite"}, NEW s \in Seq(Byte),
           WriteBegin(t, op, s), UNCHANGED block
    PROVE  RInv'
<1>1. op \in Methods /\ op \in WriteOps /\ op \notin ReadOps
  BY DEF Methods, WriteOps, ReadOps
<1>2. Told(thread)
  BY Broadcast
<1>3. CASE s = <<>> /\ Leave(t, thread, op, s, 0, <<>>, SetErrResult("nil")) /\ UNCHANGED <<ring, err>>
  <2>1. BufType' /\ ErrType' /\ NoneLost(thread)
    BY <1>3, Same
  <2>2. ~(0 < Len(s))
    BY <1>3
  <2>3. WriteContract' /\ EofAtEnd'
    BY <1>1, <1>3, <2>2, Returned
  <2> QED BY <1>2, <1>3, <2>1, <2>3, Leaves
<1>4. CASE err # "nil" /\ Leave(t, thread, op, s, 0, <<>>, ClosedErr) /\ UNCHANGED <<ring, err>>
  <2>1. BufType' /\ ErrType' /\ NoneLost(thread)
    BY <1>4, Same
  <2>2. ClosedErr # "nil" /\ ClosedErr \notin Transient
    BY <1>4 DEF ClosedErr, Transient, RInv, ErrType
  <2>3. WriteContract' /\ EofAtEnd'
    BY <1>1, <1>4, <2>2, Returned
  <2> QED BY <1>2, <1>4, <2>1, <2>3, Leaves
<1>5. CASE WriteLoop(t, op, s, 0)
  <2>1. 0 \in 0..Len(s)
    OBVIOUS
  <2> QED BY <1>5, <2>1, WriteLoopStep
<1> QED BY <1>3, <1>4, <1>5 DEF WriteBegin

LEMMA WriteStep ==
    ASSUME RInv, NEW t \in Thread, Write(t) \/ TryWrite(t), UNCHANGED block
    PROVE  RInv'
<1>1. Writes \subseteq Seq(Byte)
  BY RingAssumption
<1>2. CASE \E s \in Writes : WriteBegin(t, "Write", s) \/ WriteBegin(t, "TryWrite", s)
  BY <1>1, <1>2, WriteBeginStep
<1>3. CASE Resumed(t, "Write") /\ WriteLoop(t, "Write", thread[t].arg, thread[t].n)
  <2>1. thread[t] \in Local /\ LocalOK(thread[t])
    BY DEF RInv, ThreadInv
  <2>2. thread[t].arg \in Seq(Byte) /\ thread[t].n \in Nat /\ thread[t].n <= Len(thread[t].arg)
    BY <2>1 DEF Local, LocalOK
  <2>3. thread[t].n \in 0..Len(thread[t].arg)
    BY <2>2
  <2> QED BY <1>3, <2>2, <2>3, WriteLoopStep
<1> QED BY <1>2, <1>3 DEF Write, TryWrite

LEMMA WriteByteLoopStep ==
    ASSUME RInv, NEW t \in Thread, NEW op \in {"WriteByte", "TryWriteByte"}, NEW c \in Byte,
           WriteByteLoop(t, op, c), UNCHANGED block
    PROVE  RInv'
<1> SUFFICES ASSUME NEW full, full = (w = r /\ isFull),
                    NEW e, e = SetErrResult(IF full THEN "ErrIsFull" ELSE "nil")
             PROVE  RInv'
  OBVIOUS
<1>1. /\ IF full THEN UNCHANGED ring ELSE Put(<<c>>)
      /\ err' = err
      /\ \/ /\ e = "ErrIsFull" /\ block /\ op = "WriteByte"
            /\ Pause(t, thread, "readCond", op, 0, <<c>>, 0)
         \/ /\ ~(e = "ErrIsFull" /\ block /\ op = "WriteByte")
            /\ Leave(t, IF e = "nil" THEN Woken({"writeCond"}) ELSE thread,
                     op, <<c>>, IF full THEN 0 ELSE 1, <<>>, e)
  BY DEF WriteByteLoop
<1>2. BufType /\ ErrType
  BY DEF RInv
<1>3. /\ Told(Woken({"writeCond"})) /\ Told(thread)
      /\ \A u \in Thread : Woken({"writeCond"})[u].pc # "writeCond"
  BY Broadcast
<1>4. ~full => ~isFull
  BY <1>2 DEF BufType
<1>5. /\ <<c>> \in Seq(Byte) /\ Len(<<c>>) = 1
      /\ op \in Methods /\ op \in WriteOps /\ op \notin ReadOps
  BY DEF Methods, WriteOps, ReadOps
<1>6. BufType'
  <2>1. CASE full
    BY <1>1, <2>1, Same
  <2>2. CASE ~full
    <3> DEFINE q == <<c>>
    <3>1. q \in Seq(Byte) /\ Len(q) \in 1..Avail /\ Put(q) /\ ~isFull
      BY <1>1, <1>2, <1>4, <1>5, <2>2, AvailNat
    <3> HIDE DEF q
    <3>2. /\ buf' \in [Pos -> Byte \cup {Zero}]
          /\ r' = r /\ w' \in Pos /\ isFull' \in BOOLEAN /\ (isFull' => w' = r')
      BY <1>2, <3>1, PutKeeps
    <3> QED BY <1>2, <3>2 DEF BufType
  <2> QED BY <2>1, <2>2
<1>7. ErrType'
  BY <1>1, <1>2 DEF ErrType
<1>8. /\ ~full /\ e # "nil" => err # "nil"
      /\ e = "ErrIsFull" => full
      /\ full => e # "nil" /\ (e # "ErrIsFull" => e \notin Transient)
  <2>1. "ErrIsFull" \in Transient /\ "nil" \in Transient
    BY DEF Transient
  <2>2. CASE full
    BY <2>1, <2>2, SetErrHides
  <2>3. CASE ~full
    BY <2>1, <2>3, SetErrHides
  <2> QED BY <2>2, <2>3
<1>9. CASE /\ e = "ErrIsFull" /\ block /\ op = "WriteByte"
           /\ Pause(t, thread, "readCond", op, 0, <<c>>, 0)
  <2>1. NoneLost(thread)
    BY <1>1, <1>8, <1>9, Same
  <2>2. "readCond" \in Label /\ 0 \in Nat /\ 0 <= Len(<<c>>)
    BY <1>5 DEF Label
  <2> QED BY <1>3, <1>5, <1>6, <1>7, <1>9, <2>1, <2>2, Pauses
<1>10. CASE /\ ~(e = "ErrIsFull" /\ block /\ op = "WriteByte")
            /\ Leave(t, IF e = "nil" THEN Woken({"writeCond"}) ELSE thread,
                     op, <<c>>, IF full THEN 0 ELSE 1, <<>>, e)
  <2> DEFINE th == IF e = "nil" THEN Woken({"writeCond"}) ELSE thread
             n  == IF full THEN 0 ELSE 1
  <2>1. Told(th) /\ NoneLost(th)
    <3>1. CASE e = "nil"
      BY <1>3, <3>1 DEF NoneLost
    <3>2. CASE e # "nil" /\ full
      BY <1>1, <1>3, <3>2, Same
    <3>3. CASE e # "nil" /\ ~full
      BY <1>3, <1>8, <3>3 DEF NoneLost
    <3> QED BY <3>1, <3>2, <3>3
  <2>2. n < Len(<<c>>) => full
    BY <1>5
  <2>3. Leave(t, th, op, <<c>>, n, <<>>, e)
    BY <1>10
  <2> HIDE DEF th, n
  <2>4. op \in WriteOps /\ n < Len(<<c>>) =>
           e # "nil" /\ (block' /\ op \in {"Write", "WriteByte"} => e \notin Transient)
    BY <1>8, <1>10, <2>2
  <2>5. op \in ReadOps /\ e = "EOF" => IsEmpty'
    BY <1>5
  <2>6. WriteContract' /\ EofAtEnd'
    BY <2>3, <2>4, <2>5, Returned
  <2> QED BY <1>6, <1>7, <2>1, <2>3, <2>6, Leaves
<1> QED BY <1>1, <1>9, <1>10

LEMMA WriteByteStep ==
    ASSUME RInv, NEW t \in Thread, WriteByte(t) \/ TryWriteByte(t), UNCHANGED block
    PROVE  RInv'
<1>1. CASE \E c \in Byte, op \in {"WriteByte", "TryWriteByte"} :
              /\ err # "nil"
              /\ Leave(t, thread, op, <<c>>, 0, <<>>, ClosedErr)
              /\ UNCHANGED <<ring, err>>
  <2>1. PICK c \in Byte, op \in {"WriteByte", "TryWriteByte"} :
              /\ err # "nil"
              /\ Leave(t, thread, op, <<c>>, 0, <<>>, ClosedErr)
              /\ UNCHANGED <<ring, err>>
    BY <1>1
  <2>2. BufType' /\ ErrType' /\ NoneLost(thread) /\ Told(thread)
    BY <2>1, Same, Broadcast
  <2>3. ClosedErr # "nil" /\ ClosedErr \notin Transient /\ op \notin ReadOps
    BY <2>1 DEF ClosedErr, Transient, RInv, ErrType, ReadOps
  <2>4. WriteContract' /\ EofAtEnd'
    BY <2>1, <2>3, Returned
  <2> QED BY <2>1, <2>2, <2>4, Leaves
<1>2. CASE \E c \in Byte, op \in {"WriteByte", "TryWriteByte"} : WriteByteLoop(t, op, c)
  BY <1>2, WriteByteLoopStep
<1>3. CASE Resumed(t, "WriteByte") /\ WriteByteLoop(t, "WriteByte", thread[t].arg[1])
  <2>1. thread[t] \in Local /\ LocalOK(thread[t]) /\ thread[t].op = "WriteByte"
    BY <1>3 DEF RInv, ThreadInv, Resumed
  <2>2. thread[t].arg \in Seq(Byte) /\ Len(thread[t].arg) = 1
    BY <2>1 DEF Local, LocalOK
  <2>3. thread[t].arg[1] \in Byte
    BY <2>2, ElementOfSeq
  <2> QED BY <1>3, <2>3, WriteByteLoopStep
<1> QED BY <1>1, <1>2, <1>3 DEF WriteByte, TryWriteByte, WriteByteBegin

\* A call that does not get mu.
LEMMA TryLockStep ==
    ASSUME RInv, NEW t \in Thread, NEW op, TryLockFails(t, op), UNCHANGED block
    PROVE  RInv'
<1>1. Leave(t, thread, op, <<>>, 0, <<>>, "ErrAcquireLock") /\ UNCHANGED <<ring, err>>
  BY DEF TryLockFails
<1>2. BufType' /\ ErrType' /\ NoneLost(thread) /\ Told(thread)
  BY <1>1, Same, Broadcast
<1>3. ~(0 < Len(<<>>))
  OBVIOUS
<1>4. WriteContract' /\ EofAtEnd'
  BY <1>1, <1>3, Returned
<1> QED BY <1>1, <1>2, <1>4, Leaves

-----------------------------------------------------------------------------
(* Closing *)

LEMMA SetErrKeeps ==
    ASSUME RInv, NEW e \in {"EOF", CtxErr, "reset called"}, SetErr(e)
    PROVE  /\ BufType' /\ ErrType'
           /\ Told(CloseThreads) /\ NoneLost(CloseThreads)
           /\ \A th : Told(th) /\ (\A u \in Thread : th[u].pc # "writeCond") => NoneLost(th)
<1>1. UNCHANGED <<buf, r, w, isFull>>
  BY DEF SetErr, ring
<1>2. BufType'
  BY <1>1 DEF RInv, BufType
<1>3. ErrType'
  <2>1. err' = (IF err \notin {"nil", "EOF"} \/ e \in Transient THEN err ELSE e)
    BY DEF SetErr, SetErrStored
  <2> QED BY <2>1 DEF RInv, ErrType
<1>4. Told(CloseThreads) /\ NoneLost(CloseThreads)
  <2>1. CASE err \in {"nil", "EOF"}
    <3>1. CloseThreads = Woken({"readCond", "writeCond"})
      BY <2>1 DEF CloseThreads
    <3> QED BY <3>1, Broadcast DEF NoneLost
  <2>2. CASE err \notin {"nil", "EOF"}
    <3>1. CloseThreads = thread
      BY <2>2 DEF CloseThreads
    <3> QED BY <2>2, <3>1, Broadcast DEF NoneLost
  <2> QED BY <2>1, <2>2
<1> QED BY <1>2, <1>3, <1>4 DEF NoneLost

LEMMA CloseStep ==
    ASSUME RInv, NEW t \in Thread, CloseWriter(t) \/ CloseWithError(t) \/ Close(t), UNCHANGED block
    PROVE  RInv'
<1>1. ASSUME NEW e \in {"EOF", CtxErr, "reset called"}, SetErr(e),
             NEW op \in {"CloseWriter", "CloseWithError"},
             Leave(t, CloseThreads, op, <<>>, 0, <<>>, "nil")
      PROVE  RInv'
  <2>1. op \notin ReadOps /\ op \notin WriteOps
    BY DEF ReadOps, WriteOps
  <2>2. WriteContract' /\ EofAtEnd'
    BY <1>1, <2>1, Returned
  <2>3. BufType' /\ ErrType' /\ Told(CloseThreads) /\ NoneLost(CloseThreads)
    BY <1>1, SetErrKeeps
  <2> QED BY <1>1, <2>2, <2>3, Leaves
<1>2. CASE CloseWriter(t)
  BY <1>1, <1>2 DEF CloseWriter
<1>3. CASE CloseWithError(t)
  BY <1>1, <1>3 DEF CloseWithError
<1>4. CASE Close(t)
  <2>1. SetErr("EOF") /\ Pause(t, CloseThreads, "flush", "Flush", 0, <<>>, 0)
    BY <1>4 DEF Close
  <2>2. BufType' /\ ErrType' /\ Told(CloseThreads) /\ NoneLost(CloseThreads)
    BY <2>1, SetErrKeeps
  <2>3. /\ "flush" \in Label /\ "Flush" \in Methods /\ <<>> \in Seq(Byte) /\ 0 \in Nat
        /\ 0 <= Len(<<>>)
    BY DEF Label, Methods
  <2> QED BY <2>1, <2>2, <2>3, Pauses
<1> QED BY <1>2, <1>3, <1>4

LEMMA FlushStep ==
    ASSUME RInv, NEW t \in Thread, Flush(t), UNCHANGED block
    PROVE  RInv'
<1>1. UNCHANGED <<ring, err>>
  BY DEF Flush, FlushCheck
<1>2. BufType' /\ ErrType' /\ NoneLost(thread) /\ Told(thread)
  BY <1>1, Same, Broadcast
<1>3. ASSUME NEW e, Leave(t, thread, "Flush", <<>>, 0, <<>>, e) PROVE RInv'
  <2>1. "Flush" \notin ReadOps /\ "Flush" \notin WriteOps
    BY DEF ReadOps, WriteOps
  <2>2. WriteContract' /\ EofAtEnd'
    BY <1>3, <2>1, Returned
  <2> QED BY <1>2, <1>3, <2>2, Leaves
<1>4. ASSUME NEW pc \in Label, pc # "writeCond", pc \in {"readCond", "flushLock"} => block,
             Pause(t, thread, pc, "Flush", 0, <<>>, 0)
      PROVE  RInv'
  <2>1. "Flush" \in Methods /\ <<>> \in Seq(Byte) /\ 0 \in Nat /\ 0 <= Len(<<>>)
    BY DEF Methods
  <2> QED BY <1>2, <1>4, <2>1, Pauses
<1>5. {"flush", "flushLock", "flushFail", "flushEnd", "readCond"} \subseteq Label
  BY DEF Label
<1>6. ASSUME FlushCheck(t) PROVE RInv'
  BY <1>4, <1>5, <1>6 DEF FlushCheck
<1>7. CASE At(t, "flushLock") /\ Pause(t, thread, "readCond", "Flush", 0, <<>>, 0)
  <2>1. block
    BY <1>7 DEF At, RInv, ThreadInv, LocalOK
  <2> QED BY <1>4, <1>5, <1>7, <2>1
<1>8. CASE Pause(t, thread, "flush", "Flush", 0, <<>>, 0)
  BY <1>4, <1>5, <1>8
<1> QED BY <1>3, <1>6, <1>7, <1>8 DEF Flush

LEMMA ResetStep ==
    ASSUME RInv, NEW t \in Thread, Reset(t), UNCHANGED block
    PROVE  RInv'
<1>1. /\ {"resetWait", "resetLock"} \subseteq Label /\ "Reset" \in Methods /\ <<>> \in Seq(Byte)
      /\ 0 \in Nat /\ 0 <= Len(<<>>)
  BY DEF Label, Methods
<1>2. CASE SetErr("reset called")
           /\ Pause(t, Woken({"readCond", "writeCond"}), "resetWait", "Reset", 0, <<>>, 0)
  <2> DEFINE th == Woken({"readCond", "writeCond"})
  <2>1. Told(th) /\ \A u \in Thread : th[u].pc # "writeCond"
    BY Broadcast
  <2>2. Pause(t, th, "resetWait", "Reset", 0, <<>>, 0)
    BY <1>2
  <2> HIDE DEF th
  <2>3. BufType' /\ ErrType' /\ NoneLost(th)
    BY <1>2, <2>1, SetErrKeeps
  <2> QED BY <1>1, <2>1, <2>2, <2>3, Pauses
<1>3. CASE Pause(t, thread, "resetLock", "Reset", 0, <<>>, 0) /\ UNCHANGED <<ring, err>>
  <2>1. BufType' /\ ErrType' /\ NoneLost(thread) /\ Told(thread)
    BY <1>3, Same, Broadcast
  <2> QED BY <1>1, <1>3, <2>1, Pauses
<1>4. CASE /\ r' = 0 /\ w' = 0 /\ isFull' = FALSE /\ err' = "nil" /\ UNCHANGED buf
           /\ Leave(t, thread, "Reset", <<>>, 0, <<>>, "nil")
  <2>1. 0 \in Pos
    BY RingAssumption DEF Pos
  <2>2. BufType'
    BY <1>4, <2>1 DEF RInv, BufType
  <2>3. ErrType'
    BY <1>4 DEF ErrType
  <2>4. IsEmpty' /\ NoneLost(thread) /\ Told(thread)
    BY <1>4, Broadcast DEF IsEmpty, NoneLost
  <2>5. "Reset" \notin ReadOps /\ "Reset" \notin WriteOps
    BY DEF ReadOps, WriteOps
  <2>6. WriteContract' /\ EofAtEnd'
    BY <1>4, <2>5, Returned
  <2> QED BY <1>4, <2>2, <2>3, <2>4, <2>6, Leaves
<1> QED BY <1>2, <1>3, <1>4 DEF Reset

-----------------------------------------------------------------------------
(* The theorems *)

LEMMA RingInit == Init => RInv
<1> SUFFICES ASSUME Init PROVE RInv
  OBVIOUS
<1>1. /\ block \in Modes /\ buf = [i \in Pos |-> Zero] /\ r = 0 /\ w = 0 /\ isFull = FALSE
      /\ err = "nil" /\ thread = [t \in Thread |-> Idle] /\ ret = NoRet
  BY DEF Init
<1>2. 0 \in Pos /\ Modes \subseteq BOOLEAN
  BY RingAssumption DEF Pos
<1>3. BufType /\ ErrType /\ block \in BOOLEAN
  BY <1>1, <1>2 DEF BufType, ErrType
<1>4. Idle \in Local /\ LocalOK(Idle) /\ Idle.pc = "idle"
  BY DEF Idle, Local, Label, LocalOK
<1>5. ThreadInv /\ ReadersWait
  BY <1>1, <1>4 DEF ThreadInv, ReadersWait, At
<1>6. ret.op = "none"
  BY <1>1 DEF NoRet
<1>7. WriteContract /\ EofAtEnd
  BY <1>6 DEF WriteContract, EofAtEnd, WriteOps, ReadOps
<1> QED BY <1>3, <1>5, <1>7 DEF RInv

LEMMA RingStep == RInv /\ [Next]_vars => RInv'
<1> SUFFICES ASSUME RInv, [Next]_vars PROVE RInv'
  OBVIOUS
<1>1. ASSUME UNCHANGED block, NEW t \in Thread,
             \/ Read(t) \/ TryRead(t) \/ TryLockFails(t, "TryRead") \/ ReadByte(t)
             \/ Write(t) \/ TryWrite(t) \/ TryLockFails(t, "TryWrite")
             \/ WriteByte(t) \/ TryWriteByte(t) \/ TryLockFails(t, "TryWriteByte")
             \/ CloseWriter(t) \/ CloseWithError(t) \/ Flush(t) \/ Close(t) \/ Reset(t)
      PROVE  RInv'
  <2>1. CASE Read(t) \/ TryRead(t)
    <3>1. ReadLens \subseteq Nat
      BY RingAssumption
    <3>2. thread[t].len \in Nat
      BY DEF RInv, ThreadInv, Local
    <3>3. {"Read", "TryRead"} \subseteq ReadOps
      BY DEF ReadOps
    <3> QED BY <1>1, <2>1, <3>1, <3>2, <3>3, ReadLoopStep DEF Read, TryRead
  <2>2. CASE ReadByte(t) \/ WriteByte(t) \/ TryWriteByte(t) \/ Write(t) \/ TryWrite(t)
    BY <1>1, <2>2, ReadByteStep, WriteByteStep, WriteStep
  <2>3. CASE \E op : TryLockFails(t, op)
    BY <1>1, <2>3, TryLockStep
  <2>4. CASE CloseWriter(t) \/ CloseWithError(t) \/ Close(t)
    BY <1>1, <2>4, CloseStep
  <2>5. CASE Flush(t) \/ Reset(t)
    BY <1>1, <2>5, FlushStep, ResetStep
  <2> QED BY <1>1, <2>1, <2>2, <2>3, <2>4, <2>5
<1>2. CASE Next
  BY <1>1, <1>2 DEF Next
<1>3. CASE UNCHANGED vars
  <2>1. UNCHANGED <<ring, err>> /\ UNCHANGED <<buf, r, w, isFull, block, err, thread, ret>>
    BY <1>3 DEF vars, ring
  <2>2. BufType' /\ ErrType' /\ IsEmpty' = IsEmpty
    BY <2>1, Same
  <2>3. ThreadInv'
    BY <2>1 DEF RInv, ThreadInv, LocalOK
  <2>4. ReadersWait' /\ WriteContract' /\ EofAtEnd'
    BY <2>1, <2>2 DEF RInv, ReadersWait, WriteContract, EofAtEnd, At
  <2> QED BY <2>1, <2>2, <2>3, <2>4 DEF RInv
<1> QED BY <1>2, <1>3 DEF vars

\* The inductive invariant: the positions, the threads and what they wait for.
THEOREM RingInductive == Spec => []RInv
<1> QED BY RingInit, RingStep, PTL DEF Spec

\* The types; the positions stay inside the buffer, and it is full only when they
\* are equal.
THEOREM TypeCorrect == Spec => []TypeOK
<1>1. RInv => TypeOK
  <2> SUFFICES ASSUME RInv PROVE TypeOK
    OBVIOUS
  <2>1. ASSUME NEW t \in Thread
        PROVE  /\ thread[t].pc \in {"idle", "readCond", "writeCond", "woken",
                                    "flush", "flushLock", "flushFail", "flushEnd",
                                    "resetWait", "resetLock"}
               /\ thread[t].op \in Methods \cup {"none"}
               /\ thread[t].n \in 0..Len(thread[t].arg)
    BY DEF RInv, ThreadInv, Local, LocalOK, Label
  <2> QED BY <2>1 DEF RInv, BufType, ErrType, TypeOK
<1> QED BY <1>1, RingInductive, PTL

\* A reader only waits while there is nothing to read and no error to report
\* (ringbuffer.go:38): no write and no close leaves one waiting.
THEOREM NoReaderLost == Spec => []ReadersWait
<1>1. RInv => ReadersWait
  BY DEF RInv
<1> QED BY <1>1, RingInductive, PTL

\* A write that reports less than it was given reports why, and a blocking one
\* only that the buffer was closed or reset (ringbuffer.go:248).
THEOREM WritesReport == Spec => []WriteContract
<1>1. RInv => WriteContract
  BY DEF RInv
<1> QED BY <1>1, RingInductive, PTL

\* A read that reports the end has left nothing behind (ringbuffer.go:540).
THEOREM EndIsEmpty == Spec => []EofAtEnd
<1>1. RInv => EofAtEnd
  BY DEF RInv
<1> QED BY <1>1, RingInductive, PTL

-----------------------------------------------------------------------------
(* Positions and sequences *)

Value == Byte \cup {Zero}

\* Position x of the buffer, counted on around its end.
Around(x) == IF x < Size THEN x ELSE x - Size

LEMMA Mod == ASSUME NEW m \in Nat \ {0}, NEW x \in 0..(2 * m - 1)
             PROVE  x % m = IF x < m THEN x ELSE x - m
<1>1. CASE x < m
  BY <1>1
<1>2. CASE ~(x < m)
  BY <1>2
<1> QED BY <1>1, <1>2

\* The n bytes from position i on.
From(b, i, n) == [k \in 1..n |-> b[(i + k - 1) % Size]]

LEMMA FromAt ==
    ASSUME NEW b \in [Pos -> Value], NEW i \in Pos, NEW n \in 0..Size
    PROVE  /\ From(b, i, n) \in Seq(Value) /\ Len(From(b, i, n)) = n
           /\ \A k \in 1..n : From(b, i, n)[k] = b[Around(i + k - 1)] /\ Around(i + k - 1) \in Pos
<1>1. Size \in Nat \ {0} /\ i \in 0..(Size - 1) /\ n \in Nat
  BY RingAssumption DEF Pos
<1>2. ASSUME NEW k \in 1..n
      PROVE  (i + k - 1) % Size = Around(i + k - 1) /\ Around(i + k - 1) \in Pos
  <2> DEFINE x == i + k - 1
  <2>1. x \in 0..(2 * Size - 1) /\ Size \in Nat \ {0}
    BY <1>1
  <2> HIDE DEF x
  <2>2. x % Size = IF x < Size THEN x ELSE x - Size
    BY <2>1, Mod
  <2>3. x % Size = Around(x) /\ Around(x) \in 0..(Size - 1)
    BY <1>1, <2>1, <2>2 DEF Around
  <2> QED BY <2>3 DEF x, Pos
<1>3. From(b, i, n) \in [1..n -> Value]
  BY <1>2 DEF From
<1>4. From(b, i, n) \in Seq(Value) /\ Len(From(b, i, n)) = n
  BY <1>1, <1>3
<1> QED BY <1>2, <1>4 DEF From

LEMMA ContentAt ==
    ASSUME BufType
    PROVE  /\ Content \in Seq(Value) /\ Len(Content) = Length /\ Length \in 0..Size
           /\ \A i \in 1..Length : Content[i] = buf[Around(r + i - 1)] /\ Around(r + i - 1) \in Pos
<1>1. buf \in [Pos -> Value] /\ r \in Pos /\ Length \in 0..Size
  BY Positions DEF Pos, Value
<1>2. Content = From(buf, r, Length)
  BY DEF Content, From
<1> QED BY <1>1, <1>2, FromAt

\* The same of the state after a step.
LEMMA ContentNext ==
    ASSUME BufType', Length' \in 0..Size
    PROVE  /\ Content' \in Seq(Value) /\ Len(Content') = Length'
           /\ \A i \in 1..Length' : Content'[i] = buf'[Around(r' + i - 1)]
<1>1. buf' \in [Pos -> Value] /\ r' \in Pos
  BY DEF BufType, Value
<1>2. Content' = From(buf', r', Length')
  BY DEF Content, From
<1> QED BY <1>1, <1>2, FromAt

\* Sequences are equal if they are as long and their elements are.
LEMMA SeqEq ==
    ASSUME NEW S, NEW a \in Seq(S), NEW b \in Seq(S), Len(a) = Len(b),
           \A i \in 1..Len(a) : a[i] = b[i]
    PROVE  a = b
  BY SeqEqual

\* Concatenation, element by element.
LEMMA ConcatIs ==
    ASSUME NEW S, NEW a \in Seq(S), NEW b \in Seq(S), NEW c \in Seq(S), Len(c) = Len(a) + Len(b),
           \A i \in 1..Len(a) : c[i] = a[i],
           \A i \in 1..Len(b) : c[Len(a) + i] = b[i]
    PROVE  c = a \o b
<1>1. /\ a \o b \in Seq(S) /\ Len(a \o b) = Len(a) + Len(b)
      /\ \A i \in 1..(Len(a) + Len(b)) : (a \o b)[i] = IF i <= Len(a) THEN a[i] ELSE b[i - Len(a)]
  BY ConcatProperties
<1>2. Len(a) \in Nat /\ Len(b) \in Nat
  OBVIOUS
<1>3. ASSUME NEW i \in 1..Len(c) PROVE c[i] = (a \o b)[i]
  <2>1. CASE i <= Len(a)
    BY <1>1, <1>2, <2>1
  <2>2. CASE i > Len(a)
    <3>1. i - Len(a) \in 1..Len(b) /\ Len(a) + (i - Len(a)) = i
      BY <1>2, <2>2
    <3>2. c[i] = b[i - Len(a)]
      BY <3>1
    <3> QED BY <1>1, <1>2, <2>2, <3>2
  <2> QED BY <1>2, <2>1, <2>2
<1> QED BY <1>1, <1>3, SeqEq

\* Reading n bytes.
LEMMA Drops ==
    ASSUME BufType, BufType', NEW n \in 1..Length, r' = Around(r + n), ~isFull', w' = w, buf' = buf
    PROVE  /\ Length' = Length - n
           /\ \A i \in 1..Length' : Content'[i] = Content[n + i]
           /\ Content' \in Seq(Value) /\ Len(Content') = Length'
<1>1. /\ Size \in Nat \ {0} /\ r \in 0..(Size - 1) /\ w \in 0..(Size - 1) /\ Length \in 0..Size
  BY Positions
<1>2. Length' = IF w = r' THEN 0 ELSE IF w > r' THEN w - r' ELSE Size - r' + w
  BY DEF Length
<1>3. Length = IF w = r THEN IF isFull THEN Size ELSE 0
               ELSE IF w > r THEN w - r ELSE Size - r + w
  BY DEF Length
<1>4. Length' = Length - n
  <2>1. CASE w = r
    <3>1. Length = Size
      BY <1>1, <1>3, <2>1
    <3> QED BY <1>1, <1>2, <2>1, <3>1 DEF Around
  <2>2. CASE w # r
    BY <1>1, <1>2, <1>3, <2>2 DEF Around
  <2> QED BY <2>1, <2>2
<1>5. ASSUME NEW i \in 1..Length' PROVE Content'[i] = Content[n + i]
  <2>1. n + i \in 1..Length
    BY <1>1, <1>4
  <2>2. Content[n + i] = buf[Around(r + (n + i) - 1)]
    BY <2>1, ContentAt
  <2>3. Content'[i] = buf'[Around(r' + i - 1)]
    <3>1. Length' \in 0..Size
      BY <1>1, <1>4
    <3> QED BY <3>1, ContentNext
  <2>4. Around(r' + i - 1) = Around(r + (n + i) - 1)
    BY <1>1, <1>4 DEF Around
  <2> QED BY <2>2, <2>3, <2>4
<1>6. Length' \in 0..Size
  BY <1>1, <1>4
<1> QED BY <1>4, <1>5, <1>6, ContentNext

LEMMA SliceAt ==
    ASSUME BufType, NEW a \in Nat, NEW b \in a..Size
    PROVE  /\ Slice(a, b) \in Seq(Value) /\ Len(Slice(a, b)) = b - a
           /\ \A i \in 1..(b - a) : Slice(a, b)[i] = buf[a + i - 1]
<1>1. Slice(a, b) \in Seq(Value) /\ Len(Slice(a, b)) = b - a
  BY SliceLen DEF Value
<1>2. \A i \in 1..(b - a) : Slice(a, b)[i] = buf[a + i - 1]
  BY DEF Slice
<1> QED BY <1>1, <1>2

\* Bytes shows the queue, and Free the rest of the buffer.
LEMMA Shown ==
    ASSUME BufType
    PROVE  Bytes = Content /\ Free = Size - Len(Content)
<1>1. /\ Size \in Nat \ {0} /\ r \in 0..(Size - 1) /\ w \in 0..(Size - 1) /\ Length \in 0..Size
  BY Positions
<1>2. /\ Content \in Seq(Value) /\ Len(Content) = Length
      /\ \A i \in 1..Length : Content[i] = buf[Around(r + i - 1)]
  BY ContentAt
<1>3. Length = IF w = r THEN IF isFull THEN Size ELSE 0
               ELSE IF w > r THEN w - r ELSE Size - r + w
  BY DEF Length
<1>4. Free = Size - Length
  BY <1>1, <1>3 DEF Free
<1>5. Bytes = Content
  <2>1. CASE IsEmpty
    <3>1. Length = 0 /\ Bytes = <<>>
      BY <2>1, Positions DEF Bytes
    <3> QED BY <1>2, <3>1, SeqEq
  <2>2. CASE ~IsEmpty /\ w > r
    <3>1. Bytes = Slice(r, w) /\ Length = w - r /\ r \in Nat /\ w \in r..Size
      BY <1>1, <1>3, <2>2 DEF Bytes
    <3>2. /\ Bytes \in Seq(Value) /\ Len(Bytes) = Length
          /\ \A i \in 1..Length : Bytes[i] = buf[r + i - 1]
      BY <3>1, SliceAt
    <3>3. \A i \in 1..Length : Around(r + i - 1) = r + i - 1
      BY <1>1, <3>1 DEF Around
    <3>4. \A i \in 1..Len(Bytes) : Bytes[i] = Content[i]
      BY <1>2, <3>2, <3>3
    <3> QED BY <1>2, <3>2, <3>4, SeqEq
  <2>3. CASE ~IsEmpty /\ ~(w > r)
    <3>1. Bytes = Slice(r, Size) \o Slice(0, w)
      BY <2>3 DEF Bytes
    <3>2. Length = Size - r + w
      BY <1>1, <1>3, <2>3 DEF IsEmpty
    <3>3. r \in Nat /\ 0 \in Nat /\ Size \in r..Size /\ w \in 0..Size /\ w - 0 = w
      BY <1>1
    <3>4. /\ Slice(r, Size) \in Seq(Value) /\ Len(Slice(r, Size)) = Size - r
          /\ \A i \in 1..(Size - r) : Slice(r, Size)[i] = buf[r + i - 1]
      BY <3>3, SliceAt
    <3>5. /\ Slice(0, w) \in Seq(Value) /\ Len(Slice(0, w)) = w
          /\ \A i \in 1..w : Slice(0, w)[i] = buf[0 + i - 1]
      BY <3>3, SliceAt
    <3>6. ASSUME NEW i \in 1..(Size - r) PROVE Content[i] = Slice(r, Size)[i]
      <4>1. i \in 1..Length /\ Around(r + i - 1) = r + i - 1
        BY <1>1, <3>2 DEF Around
      <4> QED BY <1>2, <3>4, <4>1
    <3>7. ASSUME NEW i \in 1..w PROVE Content[(Size - r) + i] = Slice(0, w)[i]
      <4>1. (Size - r) + i \in 1..Length /\ Around(r + ((Size - r) + i) - 1) = 0 + i - 1
        BY <1>1, <3>2 DEF Around
      <4> QED BY <1>2, <3>5, <4>1
    <3> DEFINE a == Slice(r, Size)
               b == Slice(0, w)
    <3>8. a \in Seq(Value) /\ b \in Seq(Value) /\ Len(Content) = Len(a) + Len(b)
      BY <1>1, <1>2, <3>2, <3>4, <3>5
    <3>9. /\ \A i \in 1..Len(a) : Content[i] = a[i]
          /\ \A i \in 1..Len(b) : Content[Len(a) + i] = b[i]
      BY <3>4, <3>5, <3>6, <3>7
    <3>10. Bytes = a \o b
      BY <3>1
    <3> HIDE DEF a, b
    <3> QED BY <1>2, <3>8, <3>9, <3>10, ConcatIs
  <2> QED BY <2>1, <2>2, <2>3
<1> QED BY <1>2, <1>4, <1>5

\* A read takes the front of the queue.
LEMMA TakenFront ==
    ASSUME BufType, ~IsEmpty, NEW len \in Nat \ {0}
    PROVE  /\ Taken(len) \in Seq(Value) /\ Len(Taken(len)) \in 1..Length
           /\ \A i \in 1..Len(Taken(len)) : Taken(len)[i] = Content[i]
<1>1. /\ Size \in Nat \ {0} /\ r \in 0..(Size - 1) /\ w \in 0..(Size - 1) /\ Length \in 0..Size
  BY Positions
<1>2. \A i \in 1..Length : Content[i] = buf[Around(r + i - 1)]
  BY ContentAt
<1>3. Length = IF w > r THEN w - r ELSE Size - r + w
  BY <1>1 DEF IsEmpty, Length
<1> DEFINE n == Least(len, Length)
<1>4. n \in 1..Length /\ n = Len(Taken(len))
  <2>1. Length \in 1..Size
    BY <1>1, Positions
  <2> QED BY <1>1, <2>1, TakenLen DEF Least
<1>5. Taken(len) = IF r + n <= Size THEN Slice(r, r + n)
                   ELSE Slice(r, Size) \o Slice(0, n - (Size - r))
  BY <1>3 DEF Taken
<1> HIDE DEF n
<1>6. CASE r + n <= Size
  <2>1. r \in Nat /\ r + n \in r..Size /\ (r + n) - r = n
    BY <1>1, <1>4, <1>6
  <2>2. Slice(r, r + n) \in Seq(Value) /\ \A i \in 1..n : Slice(r, r + n)[i] = buf[r + i - 1]
    BY <2>1, SliceAt
  <2>3. \A i \in 1..n : i \in 1..Length /\ Around(r + i - 1) = r + i - 1
    BY <1>1, <1>4, <1>6 DEF Around
  <2>4. \A i \in 1..n : Taken(len)[i] = Content[i]
    BY <1>2, <1>5, <1>6, <2>2, <2>3
  <2> QED BY <1>4, <1>5, <1>6, <2>2, <2>4
<1>7. CASE ~(r + n <= Size)
  <2> DEFINE a == Slice(r, Size)
             m == n - (Size - r)
             b == Slice(0, m)
  <2>1. r \in Nat /\ Size \in r..Size /\ 0 \in Nat /\ m \in 0..Size /\ m - 0 = m
    BY <1>1, <1>4, <1>7
  <2>2. /\ a \in Seq(Value) /\ Len(a) = Size - r
        /\ \A i \in 1..(Size - r) : a[i] = buf[r + i - 1]
    BY <2>1, SliceAt
  <2>3. b \in Seq(Value) /\ Len(b) = m /\ \A i \in 1..m : b[i] = buf[0 + i - 1]
    <3> HIDE DEF m
    <3> QED BY <2>1, SliceAt
  <2>4. Taken(len) = a \o b
    BY <1>5, <1>7
  <2> HIDE DEF a, b
  <2>5. /\ a \o b \in Seq(Value)
        /\ \A i \in 1..(Len(a) + Len(b)) :
              (a \o b)[i] = IF i <= Len(a) THEN a[i] ELSE b[i - Len(a)]
    BY <2>2, <2>3, ConcatProperties
  <2>6. ASSUME NEW i \in 1..n PROVE Taken(len)[i] = Content[i]
    <3>1. i \in 1..Length /\ i \in 1..(Len(a) + Len(b))
      BY <1>1, <1>4, <2>1, <2>2, <2>3
    <3>2. CASE i <= Len(a)
      <4>1. i \in 1..(Size - r) /\ Around(r + i - 1) = r + i - 1
        BY <1>1, <2>2, <3>2 DEF Around
      <4> QED BY <1>2, <2>2, <2>4, <2>5, <3>1, <3>2, <4>1
    <3>3. CASE ~(i <= Len(a))
      <4>1. /\ i - Len(a) \in 1..m
            /\ Around(r + i - 1) = 0 + (i - Len(a)) - 1
        BY <1>1, <1>4, <2>2, <3>3 DEF Around
      <4>2. b[i - Len(a)] = buf[0 + (i - Len(a)) - 1]
        BY <2>3, <4>1
      <4> QED BY <1>2, <2>4, <2>5, <3>1, <3>3, <4>1, <4>2
    <3> QED BY <3>2, <3>3
  <2> QED BY <1>4, <2>4, <2>5, <2>6
<1> QED BY <1>6, <1>7

-----------------------------------------------------------------------------
(* Writing into the buffer *)

LEMMA CopyAt ==
    ASSUME NEW b, NEW a, NEW q, NEW x \in Pos
    PROVE  Copy(b, a, q)[x] = IF x \in a..(a + Len(q) - 1) THEN q[x - a + 1] ELSE b[x]
  BY DEF Copy

\* Where the bytes of a write go, and that those in the queue stay.
LEMMA PutAt ==
    ASSUME BufType, ~isFull, NEW s \in Seq(Byte), Len(s) \in 1..Avail, Put(s)
    PROVE  /\ r' = r /\ w' = Around(w + Len(s)) /\ isFull' = (w' = r)
           /\ \A j \in 1..Len(s) : buf'[Around(w + j - 1)] = s[j]
           /\ \A i \in 1..Length : buf'[Around(r + i - 1)] = buf[Around(r + i - 1)]
<1> DEFINE m == Len(s)
<1>1. /\ Size \in Nat \ {0} /\ r \in 0..(Size - 1) /\ w \in 0..(Size - 1) /\ m \in Nat \ {0}
  BY Positions
<1>2. /\ m <= (IF w >= r THEN Size - w + r ELSE r - w)
      /\ Length = IF w >= r THEN w - r ELSE Size - r + w
  BY <1>1 DEF Avail, Length
<1>3. /\ \A j \in 1..m : Around(w + j - 1) \in Pos
      /\ \A i \in 1..Length : Around(r + i - 1) \in Pos
  BY <1>1, <1>2 DEF Around, Pos
<1>4. CASE w >= r /\ Size - w < m
  <2> DEFINE c == Size - w
             p == SubSeq(s, 1, c)
             q == SubSeq(s, c + 1, m)
             b == Copy(buf, w, p)
  <2>1. buf' = Copy(b, 0, q) /\ w' = Wrap(m - c) /\ isFull' = (w' = r) /\ r' = r
    BY <1>4 DEF Put
  <2>2. c \in Nat \ {0} /\ c < m /\ m - c <= r
    BY <1>1, <1>2, <1>4
  <2>3. /\ Len(p) = c /\ \A j \in 1..c : p[j] = s[j]
        /\ Len(q) = m - c /\ \A j \in 1..(m - c) : q[j] = s[c + j]
    <3> HIDE DEF c
    <3>1. c + 1 \in 1..(m + 1) /\ 1 <= c + 1
      BY <1>1, <2>2
    <3>2. Len(p) = c /\ \A j \in 1..c : p[j] = s[j]
      BY <1>1, <2>2, SubSeqProperties
    <3>3. Len(q) = m - c /\ \A j \in 1..(m - c) : q[j] = s[c + j]
      BY <1>1, <2>2, <3>1, SubSeqProperties
    <3> QED BY <3>2, <3>3
  <2> HIDE DEF p, q
  <2>4. ASSUME NEW x \in Pos
        PROVE  buf'[x] = IF x \in 0..(m - c - 1) THEN s[c + x + 1]
                         ELSE IF x \in w..(Size - 1) THEN s[x - w + 1] ELSE buf[x]
    <3>1. b[x] = IF x \in w..(w + Len(p) - 1) THEN p[x - w + 1] ELSE buf[x]
      BY CopyAt
    <3> HIDE DEF b
    <3>2. buf'[x] = IF x \in 0..(0 + Len(q) - 1) THEN q[x - 0 + 1] ELSE b[x]
      BY <2>1, CopyAt
    <3>3. CASE x \in 0..(m - c - 1)
      <4>1. x + 1 \in 1..(m - c) /\ x - 0 + 1 = x + 1 /\ c + (x + 1) = c + x + 1
        BY <1>1, <2>2, <3>3
      <4> QED BY <2>3, <3>2, <3>3, <4>1
    <3>4. CASE x \notin 0..(m - c - 1)
      <4>1. buf'[x] = b[x]
        BY <2>3, <3>2, <3>4
      <4>2. w + Len(p) - 1 = Size - 1
        BY <1>1, <2>3
      <4>3. x \in w..(Size - 1) => x - w + 1 \in 1..c
        BY <1>1
      <4> QED BY <2>3, <3>1, <3>4, <4>1, <4>2, <4>3
    <3> QED BY <3>3, <3>4
  <2>5. ASSUME NEW j \in 1..m PROVE buf'[Around(w + j - 1)] = s[j]
    <3>1. CASE j <= c
      <4>1. /\ Around(w + j - 1) = w + j - 1 /\ w + j - 1 \notin 0..(m - c - 1)
            /\ w + j - 1 \in w..(Size - 1) /\ (w + j - 1) - w + 1 = j /\ w + j - 1 \in Pos
        BY <1>1, <1>4, <2>2, <3>1 DEF Around, Pos
      <4> QED BY <2>4, <4>1
    <3>2. CASE ~(j <= c)
      <4>1. /\ Around(w + j - 1) = j - c - 1 /\ j - c - 1 \in 0..(m - c - 1)
            /\ c + (j - c - 1) + 1 = j /\ j - c - 1 \in Pos
        BY <1>1, <1>4, <2>2, <3>2 DEF Around, Pos
      <4> QED BY <2>4, <4>1
    <3> QED BY <3>1, <3>2
  <2>6. ASSUME NEW i \in 1..Length PROVE buf'[Around(r + i - 1)] = buf[Around(r + i - 1)]
    <3>1. /\ Around(r + i - 1) = r + i - 1 /\ r + i - 1 \notin 0..(m - c - 1)
          /\ r + i - 1 \notin w..(Size - 1) /\ r + i - 1 \in Pos
      BY <1>1, <1>2, <1>4, <2>2 DEF Around, Pos
    <3> QED BY <2>4, <3>1
  <2>7. w' = Around(w + m)
    BY <1>1, <1>4, <2>1, <2>2 DEF Wrap, Around
  <2> QED BY <2>1, <2>5, <2>6, <2>7
<1>5. CASE ~(w >= r /\ Size - w < m)
  <2>1. buf' = Copy(buf, w, s) /\ w' = Wrap(w + m) /\ isFull' = (w' = r) /\ r' = r
    BY <1>5 DEF Put
  <2>2. w + m <= Size
    BY <1>1, <1>2, <1>5
  <2>3. \A x \in Pos : buf'[x] = IF x \in w..(w + m - 1) THEN s[x - w + 1] ELSE buf[x]
    BY <2>1, CopyAt
  <2>4. ASSUME NEW j \in 1..m PROVE buf'[Around(w + j - 1)] = s[j]
    <3>1. /\ Around(w + j - 1) = w + j - 1 /\ w + j - 1 \in w..(w + m - 1)
          /\ (w + j - 1) - w + 1 = j /\ w + j - 1 \in Pos
      BY <1>1, <2>2 DEF Around, Pos
    <3> QED BY <2>3, <3>1
  <2>5. ASSUME NEW i \in 1..Length PROVE buf'[Around(r + i - 1)] = buf[Around(r + i - 1)]
    <3>1. Around(r + i - 1) \notin w..(w + m - 1) /\ Around(r + i - 1) \in Pos
      BY <1>1, <1>2, <1>5, <2>2 DEF Around, Pos
    <3> QED BY <2>3, <3>1
  <2>6. w' = Around(w + m)
    BY <1>1, <2>1, <2>2 DEF Wrap, Around
  <2> QED BY <2>1, <2>4, <2>5, <2>6
<1> QED BY <1>4, <1>5

\* A write appends to the queue.
LEMMA PutAppends ==
    ASSUME BufType, ~isFull, NEW s \in Seq(Byte), Len(s) \in 1..Avail, Put(s)
    PROVE  Content \o s = Content'
<1> DEFINE m == Len(s)
<1>1. /\ Size \in Nat \ {0} /\ r \in 0..(Size - 1) /\ w \in 0..(Size - 1) /\ m \in Nat \ {0}
  BY Positions
<1>2. /\ m <= (IF w >= r THEN Size - w + r ELSE r - w)
      /\ Length = IF w >= r THEN w - r ELSE Size - r + w
  BY <1>1 DEF Avail, Length
<1>3. /\ r' = r /\ w' = Around(w + m) /\ isFull' = (w' = r)
      /\ \A j \in 1..m : buf'[Around(w + j - 1)] = s[j]
      /\ \A i \in 1..Length : buf'[Around(r + i - 1)] = buf[Around(r + i - 1)]
  BY PutAt
<1>4. BufType'
  BY PutKeeps DEF BufType
<1>5. Length' = Length + m
  <2>1. Length' = IF w' = r THEN IF isFull' THEN Size ELSE 0
                  ELSE IF w' > r THEN w' - r ELSE Size - r + w'
    BY <1>3 DEF Length
  <2>2. CASE w' = r
    <3>1. Length' = Size
      BY <1>3, <2>1, <2>2
    <3> QED BY <1>1, <1>2, <1>3, <2>2, <3>1 DEF Around
  <2>3. CASE w' # r
    <3>1. Length' = IF w' > r THEN w' - r ELSE Size - r + w'
      BY <2>1, <2>3
    <3> QED BY <1>1, <1>2, <1>3, <2>3, <3>1 DEF Around
  <2> QED BY <2>2, <2>3
<1>6. /\ Content \in Seq(Value) /\ Len(Content) = Length
      /\ \A i \in 1..Length : Content[i] = buf[Around(r + i - 1)]
  BY ContentAt
<1>7. /\ Content' \in Seq(Value) /\ Len(Content') = Length'
      /\ \A i \in 1..Length' : Content'[i] = buf'[Around(r' + i - 1)]
  <2>1. Length' \in 0..Size
    BY <1>1, <1>2, <1>5
  <2> QED BY <1>4, <2>1, ContentNext
<1>8. s \in Seq(Value)
  BY SeqMonotonic DEF Value
<1> DEFINE c == Content'
<1>9. c \in Seq(Value) /\ Len(c) = Len(Content) + Len(s)
  BY <1>5, <1>6, <1>7
<1>10. ASSUME NEW i \in 1..Len(Content) PROVE c[i] = Content[i]
  <2>1. i \in 1..Length /\ i \in 1..Length'
    BY <1>1, <1>2, <1>5, <1>6
  <2> QED BY <1>3, <1>6, <1>7, <2>1
<1>11. ASSUME NEW j \in 1..Len(s) PROVE c[Len(Content) + j] = s[j]
  <2>1. Length + j \in 1..Length' /\ Around(r + (Length + j) - 1) = Around(w + j - 1)
    BY <1>1, <1>2, <1>5 DEF Around
  <2> QED BY <1>3, <1>6, <1>7, <2>1
<1> HIDE DEF c
<1>12. c = Content \o s
  BY <1>6, <1>8, <1>9, <1>10, <1>11, ConcatIs
<1> QED BY <1>12 DEF c

-----------------------------------------------------------------------------
(* What a step accepts and delivers *)

LEMMA ByReturn ==
    ASSUME RInv, NEW t \in Thread, NEW th, Told(th),
           NEW op, NEW arg, NEW n, NEW got, NEW e, Leave(t, th, op, arg, n, got, e)
    PROVE  /\ ret'.op = op
           /\ Delivered = IF op \in ReadOps THEN got ELSE <<>>
           /\ op \in WriteOps => Accepted = SubSeq(arg, thread[t].n + 1, n)
           /\ op \notin WriteOps /\ thread[t].n = 0 => Accepted = <<>>
<1>1. /\ ret'.op = op /\ ret'.arg = arg /\ ret'.n = n /\ ret'.t = t /\ ret'.got = got
  BY DEF Leave
<1>2. ASSUME thread[t].n = 0, NEW u \in Thread PROVE thread'[u].n = thread[u].n
  <2>1. th \in [Thread -> Local] /\ th[u].n = thread[u].n /\ thread' = [th EXCEPT ![t] = Idle]
    BY DEF Told, Leave
  <2>2. CASE u = t
    BY <1>2, <2>1, <2>2 DEF Idle
  <2>3. CASE u # t
    BY <2>1, <2>3
  <2> QED BY <2>2, <2>3
<1>3. ASSUME op \notin WriteOps, thread[t].n = 0 PROVE Accepted = <<>>
  <2>1. {u \in Thread : thread'[u].n # thread[u].n} = {}
    BY <1>2, <1>3
  <2> QED BY <1>1, <1>3, <2>1 DEF Accepted
<1>4. op \in WriteOps => Accepted = SubSeq(arg, thread[t].n + 1, n)
  BY <1>1 DEF Accepted
<1>5. Delivered = IF op \in ReadOps THEN got ELSE <<>>
  BY <1>1 DEF Delivered
<1> QED BY <1>1, <1>3, <1>4, <1>5

LEMMA ByPause ==
    ASSUME RInv, NEW t \in Thread, NEW th, Told(th),
           NEW pc, NEW op, NEW len, NEW arg, NEW n, Pause(t, th, pc, op, len, arg, n)
    PROVE  /\ ret'.op = "none"
           /\ Delivered = <<>>
           /\ n = thread[t].n => Accepted = <<>>
           /\ n # thread[t].n => Accepted = SubSeq(arg, thread[t].n + 1, n)
<1> DEFINE l == [pc |-> pc, op |-> op, len |-> len, arg |-> arg, n |-> n]
<1>1. ret'.op = "none" /\ "none" \notin WriteOps /\ "none" \notin ReadOps
  BY DEF Pause, NoRet, WriteOps, ReadOps
<1>2. /\ thread' = [th EXCEPT ![t] = l] /\ th \in [Thread -> Local]
      /\ \A u \in Thread : th[u].n = thread[u].n
  BY DEF Pause, Told
<1>3. /\ thread'[t] = l /\ l.n = n /\ l.arg = arg
      /\ \A u \in Thread \ {t} : thread'[u].n = thread[u].n
  BY <1>2
<1> HIDE DEF l
<1> DEFINE T == {u \in Thread : thread'[u].n # thread[u].n}
<1>4. Accepted = IF T = {} THEN <<>>
                 ELSE LET u == CHOOSE u \in T : TRUE
                      IN SubSeq(thread'[u].arg, thread[u].n + 1, thread'[u].n)
  BY <1>1 DEF Accepted
<1>5. ASSUME n = thread[t].n PROVE Accepted = <<>>
  <2>1. T = {}
    BY <1>3, <1>5
  <2> QED BY <1>4, <2>1
<1>6. ASSUME n # thread[t].n PROVE Accepted = SubSeq(arg, thread[t].n + 1, n)
  <2>1. T = {t}
    BY <1>3, <1>6
  <2>2. (CHOOSE u \in T : TRUE) = t /\ T # {}
    BY <2>1
  <2> HIDE DEF T
  <2> QED BY <1>3, <1>4, <2>2
<1>7. Delivered = <<>>
  BY <1>1 DEF Delivered
<1> QED BY <1>1, <1>5, <1>6, <1>7

\* A thread that has not begun to write, or that waits for another reason.
LEMMA NoneWritten ==
    ASSUME RInv, NEW t \in Thread, thread[t].pc \notin {"readCond", "woken"} \/ thread[t].op # "Write"
    PROVE  thread[t].n = 0
  BY DEF RInv, ThreadInv, LocalOK

\* The queue, over a step other than the end of Reset.
Queue == Content \o Accepted = Delivered \o Content'

LEMMA QueueSame ==
    ASSUME BufType, UNCHANGED ring, Accepted = <<>>, Delivered = <<>>
    PROVE  Queue
<1>1. Content' = Content
  BY DEF ring, Content, Length
<1>2. Content \in Seq(Value)
  BY ContentAt
<1> QED BY <1>1, <1>2, ConcatEmptySeq DEF Queue

\* The queue when a read takes the bytes got.
LEMMA QueueRead ==
    ASSUME BufType, BufType', NEW got \in Seq(Value), Len(got) \in 1..Length,
           \A i \in 1..Len(got) : got[i] = Content[i],
           r' = Around(r + Len(got)), ~isFull', w' = w, buf' = buf,
           Accepted = <<>>, Delivered = got
    PROVE  Queue
<1>1. /\ Length' = Length - Len(got)
      /\ \A i \in 1..Length' : Content'[i] = Content[Len(got) + i]
      /\ Content' \in Seq(Value) /\ Len(Content') = Length'
  BY Drops
<1>2. Content \in Seq(Value) /\ Len(Content) = Length /\ Length \in Nat
  BY ContentAt
<1> DEFINE c == Content'
<1>3. /\ c \in Seq(Value) /\ Len(Content) = Len(got) + Len(c)
      /\ \A i \in 1..Len(got) : Content[i] = got[i]
      /\ \A i \in 1..Len(c) : Content[Len(got) + i] = c[i]
  BY <1>1, <1>2
<1> HIDE DEF c
<1>4. Content = got \o c
  BY <1>2, <1>3, ConcatIs
<1>5. Content \o <<>> = Content
  BY <1>2, ConcatEmptySeq
<1> QED BY <1>4, <1>5 DEF Queue, c

-----------------------------------------------------------------------------
(* The actions *)

LEMMA ReadLoopQueue ==
    ASSUME RInv, NEW t \in Thread, NEW op \in ReadOps, NEW len \in Nat, ReadLoop(t, op, len),
           thread[t].n = 0
    PROVE  Queue
<1>1. BufType /\ op \notin WriteOps
  BY DEF RInv, ReadOps, WriteOps
<1>2. ASSUME NEW e, Leave(t, thread, op, <<>>, 0, <<>>, e), UNCHANGED ring PROVE Queue
  <2>1. Told(thread)
    BY Broadcast
  <2>2. Accepted = <<>> /\ Delivered = <<>>
    BY <1>1, <1>2, <2>1, ByReturn
  <2> QED BY <1>1, <1>2, <2>2, QueueSame
<1>3. CASE Pause(t, thread, "writeCond", op, len, <<>>, 0) /\ UNCHANGED ring
  <2>1. Told(thread)
    BY Broadcast
  <2>2. Accepted = <<>> /\ Delivered = <<>>
    BY <1>3, <2>1, ByPause
  <2> QED BY <1>1, <1>3, <2>2, QueueSame
<1>4. CASE /\ len > 0 /\ ~IsEmpty /\ Advance(Len(Taken(len)))
           /\ Leave(t, Woken({"readCond"}), op, <<>>, Len(Taken(len)), Taken(len),
                   IF w > r THEN "nil" ELSE ReadErr(r' = w /\ ~isFull'))
  <2> DEFINE got == Taken(len)
  <2>1. /\ got \in Seq(Value) /\ Len(got) \in 1..Length
        /\ \A i \in 1..Len(got) : got[i] = Content[i]
    <3>1. len \in Nat \ {0} /\ ~IsEmpty
      BY <1>4
    <3> HIDE DEF got
    <3> QED BY <1>1, <3>1, TakenFront DEF got
  <2>2. Told(Woken({"readCond"}))
    BY Broadcast
  <2>3. Accepted = <<>> /\ Delivered = got
    BY <1>1, <1>4, <2>2, ByReturn
  <2>4. Advance(Len(got))
    BY <1>4
  <2> HIDE DEF got
  <2>5. Size \in Nat \ {0} /\ r \in 0..(Size - 1) /\ Length \in 0..Size
    BY <1>1, Positions
  <2>6. BufType' /\ w' = w /\ ~isFull'
    BY <1>1, <2>1, <2>4, <2>5, AdvanceKeeps
  <2>7. r' = Around(r + Len(got)) /\ buf' = buf
    <3> DEFINE x == r + Len(got)
    <3>1. x \in 0..(2 * Size - 1)
      BY <2>1, <2>5
    <3>2. r' = x % Size /\ buf' = buf
      BY <2>4 DEF Advance
    <3> HIDE DEF x
    <3>3. r' = Around(x)
      BY <2>5, <3>1, <3>2, Mod DEF Around
    <3> QED BY <3>2, <3>3 DEF x
  <2> QED BY <1>1, <2>1, <2>3, <2>6, <2>7, QueueRead
<1> QED BY <1>2, <1>3, <1>4 DEF ReadLoop

LEMMA ReadByteQueue ==
    ASSUME RInv, NEW t \in Thread, ReadByte(t)
    PROVE  Queue
<1> DEFINE op == "ReadByte"
<1>1. BufType /\ op \notin WriteOps /\ op \in ReadOps /\ thread[t].n = 0 /\ Told(thread)
  <2>1. thread[t].n = 0
    BY NoneWritten DEF ReadByte, At, Resumed
  <2> QED BY <2>1, Broadcast DEF RInv, ReadOps, WriteOps
<1>2. ASSUME NEW e, Leave(t, thread, op, <<>>, 0, <<>>, e), UNCHANGED ring PROVE Queue
  <2>1. Accepted = <<>> /\ Delivered = <<>>
    BY <1>1, <1>2, ByReturn
  <2> QED BY <1>1, <1>2, <2>1, QueueSame
<1>3. CASE Pause(t, thread, "writeCond", op, 1, <<>>, 0) /\ UNCHANGED ring
  <2>1. Accepted = <<>> /\ Delivered = <<>>
    BY <1>1, <1>3, ByPause
  <2> QED BY <1>1, <1>3, <2>1, QueueSame
<1>4. CASE /\ ~IsEmpty /\ r' = Wrap(r + 1) /\ isFull' = FALSE /\ UNCHANGED <<buf, w>>
           /\ Leave(t, thread, op, <<>>, 1, <<buf[r]>>, ReadErr(r' = w))
  <2> DEFINE got == <<buf[r]>>
  <2>1. /\ Size \in Nat \ {0} /\ r \in 0..(Size - 1) /\ Length \in 1..Size
    BY <1>1, <1>4, Positions
  <2>2. r' = Around(r + 1) /\ r' \in Pos
    BY <1>4, <2>1 DEF Wrap, Around, Pos
  <2>3. BufType'
    BY <1>1, <1>4, <2>2 DEF BufType
  <2>4. got \in Seq(Value) /\ Len(got) = 1 /\ got[1] = Content[1]
    <3>1. buf[r] \in Value
      BY <2>1, Positions, <1>1 DEF Value
    <3>2. Around(r + 1 - 1) = r
      BY <2>1 DEF Around
    <3>3. Content[1] = buf[r]
      BY <1>1, <2>1, <3>2, ContentAt
    <3> QED BY <3>1, <3>3
  <2>5. Accepted = <<>> /\ Delivered = got
    BY <1>1, <1>4, ByReturn
  <2> HIDE DEF got
  <2>6. Len(got) \in 1..Length /\ \A i \in 1..Len(got) : got[i] = Content[i]
    BY <2>1, <2>4
  <2> QED BY <1>1, <1>4, <2>2, <2>3, <2>4, <2>5, <2>6, QueueRead
<1> QED BY <1>2, <1>3, <1>4 DEF ReadByte

\* The queue when a write takes the bytes s.
LEMMA QueueWrite ==
    ASSUME BufType, ~isFull, NEW s \in Seq(Byte), Len(s) \in 1..Avail, Put(s),
           Accepted = s, Delivered = <<>>
    PROVE  Queue
<1>1. Content \o s = Content'
  BY PutAppends
<1>2. Content' \in Seq(Value)
  <2>1. Content \in Seq(Value) /\ s \in Seq(Value)
    BY ContentAt, SeqMonotonic DEF Value
  <2> QED BY <1>1, <2>1, ConcatProperties
<1> DEFINE c == Content'
<1>3. c \in Seq(Value)
  BY <1>2
<1> HIDE DEF c
<1>4. <<>> \o c = c
  BY <1>3, ConcatEmptySeq
<1> QED BY <1>1, <1>4 DEF Queue, c

LEMMA WriteLoopQueue ==
    ASSUME RInv, NEW t \in Thread, NEW op \in {"Write", "TryWrite"}, NEW s \in Seq(Byte),
           NEW n \in 0..Len(s), WriteLoop(t, op, s, n), thread[t].n = n
    PROVE  Queue
<1> SUFFICES ASSUME NEW k, k = (IF isFull THEN 0 ELSE Least(Len(s) - n, Avail)), NEW e
             PROVE  (\/ Pause(t, Woken({"writeCond"}), "readCond", op, 0, s, n + k)
                     \/ Leave(t, IF n + k > 0 THEN Woken({"writeCond"}) ELSE thread,
                              op, s, n + k, <<>>, e))
                    => Queue
  BY DEF WriteLoop
<1>1. IF k > 0 THEN Put(SubSeq(s, n + 1, n + k)) ELSE UNCHANGED ring
  BY DEF WriteLoop
<1>2. BufType /\ op \in WriteOps /\ op \notin ReadOps
  BY DEF RInv, WriteOps, ReadOps
<1>3. Told(Woken({"writeCond"})) /\ Told(thread)
  BY Broadcast
<1>4. /\ k \in Nat /\ n \in Nat /\ n + k <= Len(s) /\ Len(s) \in Nat
      /\ ~isFull => k <= Avail
      /\ k > 0 => ~isFull
  <2>1. Avail \in Nat /\ Len(s) \in Nat
    BY <1>2, AvailNat
  <2>2. CASE isFull
    BY <2>1, <2>2
  <2>3. CASE ~isFull
    BY <2>1, <2>3 DEF Least
  <2> QED BY <2>1, <2>2, <2>3
<1> DEFINE q == SubSeq(s, n + 1, n + k)
<1>5. q \in Seq(Byte) /\ Len(q) = k
  BY <1>4, SubSeqProperties
<1>6. k = 0 => q = <<>>
  BY <1>4, SubSeqEmpty
<1>7. SUFFICES ASSUME Accepted = q, Delivered = <<>>
               PROVE  Queue
  <2>1. CASE Pause(t, Woken({"writeCond"}), "readCond", op, 0, s, n + k)
    <3>1. Delivered = <<>> /\ (n + k = n => Accepted = <<>>) /\ (n + k # n => Accepted = q)
      BY <1>3, <2>1, ByPause
    <3> HIDE DEF q
    <3>2. CASE k = 0
      <4>1. n + k = n
        BY <1>4, <3>2
      <4> QED BY <1>6, <1>7, <3>1, <3>2, <4>1
    <3>3. CASE k # 0
      <4>1. n + k # n
        BY <1>4, <3>3
      <4> QED BY <1>7, <3>1, <4>1
    <3> QED BY <3>2, <3>3
  <2>2. CASE Leave(t, IF n + k > 0 THEN Woken({"writeCond"}) ELSE thread, op, s, n + k, <<>>, e)
    <3> DEFINE th == IF n + k > 0 THEN Woken({"writeCond"}) ELSE thread
    <3>1. Told(th) /\ Leave(t, th, op, s, n + k, <<>>, e)
      BY <1>3, <2>2
    <3> HIDE DEF th
    <3>2. Accepted = q /\ Delivered = <<>>
      BY <1>2, <3>1, ByReturn
    <3> QED BY <1>7, <3>2
  <2> QED BY <2>1, <2>2
<1> HIDE DEF q
<1>8. CASE k > 0
  <2>1. Put(q) /\ ~isFull /\ Len(q) \in 1..Avail
    BY <1>1, <1>4, <1>5, <1>8 DEF q
  <2> QED BY <1>2, <1>5, <1>7, <2>1, QueueWrite
<1>9. CASE k = 0
  BY <1>1, <1>2, <1>6, <1>7, <1>9, QueueSame
<1> QED BY <1>4, <1>8, <1>9

LEMMA WriteQueue ==
    ASSUME RInv, NEW t \in Thread, Write(t) \/ TryWrite(t)
    PROVE  Queue
<1>1. Writes \subseteq Seq(Byte) /\ BufType /\ Told(thread)
  BY RingAssumption, Broadcast DEF RInv
<1>2. CASE \E s \in Writes, op \in {"Write", "TryWrite"} : At(t, "idle") /\ WriteBegin(t, op, s)
  <2>1. PICK s \in Writes, op \in {"Write", "TryWrite"} : At(t, "idle") /\ WriteBegin(t, op, s)
    BY <1>2
  <2>2. thread[t].n = 0 /\ op \in WriteOps /\ op \notin ReadOps /\ s \in Seq(Byte)
    BY <1>1, <2>1, NoneWritten DEF At, WriteOps, ReadOps
  <2>3. ASSUME NEW e, Leave(t, thread, op, s, 0, <<>>, e), UNCHANGED ring PROVE Queue
    <3>1. Accepted = SubSeq(s, 1, 0) /\ Delivered = <<>>
      BY <1>1, <2>2, <2>3, ByReturn
    <3>2. SubSeq(s, 1, 0) = <<>>
      BY SubSeqEmpty
    <3> QED BY <1>1, <2>3, <3>1, <3>2, QueueSame
  <2>4. CASE WriteLoop(t, op, s, 0)
    <3>1. 0 \in 0..Len(s)
      BY <2>2
    <3> QED BY <2>2, <2>4, <3>1, WriteLoopQueue
  <2> QED BY <2>1, <2>3, <2>4 DEF WriteBegin
<1>3. CASE Resumed(t, "Write") /\ WriteLoop(t, "Write", thread[t].arg, thread[t].n)
  <2>1. thread[t] \in Local /\ LocalOK(thread[t])
    BY DEF RInv, ThreadInv
  <2>2. thread[t].arg \in Seq(Byte) /\ thread[t].n \in Nat /\ thread[t].n <= Len(thread[t].arg)
    BY <2>1 DEF Local, LocalOK
  <2>3. thread[t].n \in 0..Len(thread[t].arg)
    BY <2>2
  <2> QED BY <1>3, <2>2, <2>3, WriteLoopQueue
<1> QED BY <1>2, <1>3 DEF Write, TryWrite

LEMMA WriteByteLoopQueue ==
    ASSUME RInv, NEW t \in Thread, NEW op \in {"WriteByte", "TryWriteByte"}, NEW c \in Byte,
           WriteByteLoop(t, op, c), thread[t].n = 0
    PROVE  Queue
<1> SUFFICES ASSUME NEW full, full = (w = r /\ isFull),
                    NEW e, e = SetErrResult(IF full THEN "ErrIsFull" ELSE "nil")
             PROVE  Queue
  OBVIOUS
<1>1. /\ IF full THEN UNCHANGED ring ELSE Put(<<c>>)
      /\ \/ e = "ErrIsFull" /\ Pause(t, thread, "readCond", op, 0, <<c>>, 0)
         \/ Leave(t, IF e = "nil" THEN Woken({"writeCond"}) ELSE thread,
                  op, <<c>>, IF full THEN 0 ELSE 1, <<>>, e)
  BY DEF WriteByteLoop
<1>2. /\ BufType /\ Told(thread) /\ Told(Woken({"writeCond"}))
      /\ op \in WriteOps /\ op \notin ReadOps
  BY Broadcast DEF RInv, WriteOps, ReadOps
<1>3. e = "ErrIsFull" => full
  <2>1. "ErrIsFull" \in Transient
    BY DEF Transient
  <2> QED BY <2>1, SetErrHides
<1>4. CASE e = "ErrIsFull" /\ Pause(t, thread, "readCond", op, 0, <<c>>, 0)
  <2>1. Accepted = <<>> /\ Delivered = <<>>
    BY <1>2, <1>4, ByPause
  <2> QED BY <1>1, <1>2, <1>3, <1>4, <2>1, QueueSame
<1>5. CASE Leave(t, IF e = "nil" THEN Woken({"writeCond"}) ELSE thread,
                 op, <<c>>, IF full THEN 0 ELSE 1, <<>>, e)
  <2> DEFINE th == IF e = "nil" THEN Woken({"writeCond"}) ELSE thread
             n  == IF full THEN 0 ELSE 1
             q  == <<c>>
  <2>1. Told(th) /\ Leave(t, th, op, q, n, <<>>, e)
    BY <1>2, <1>5
  <2>2. q \in Seq(Byte) /\ Len(q) = 1 /\ SubSeq(q, 1, 0) = <<>> /\ SubSeq(q, 1, 1) = q
    <3>1. q \in Seq(Byte) /\ Len(q) = 1
      OBVIOUS
    <3> HIDE DEF q
    <3>2. SubSeq(q, 1, 1) = q
      BY <3>1, SubSeqFull
    <3> QED BY <3>1, <3>2, SubSeqEmpty
  <2> HIDE DEF th, q, n
  <2>3. Accepted = SubSeq(q, 1, n) /\ Delivered = <<>>
    BY <1>2, <2>1, ByReturn
  <2>4. CASE full
    BY <1>1, <1>2, <2>2, <2>3, <2>4, QueueSame DEF n
  <2>5. CASE ~full
    <3>1. ~isFull
      BY <1>2, <2>5 DEF BufType
    <3>2. Len(q) \in 1..Avail /\ Put(q)
      BY <1>1, <1>2, <2>2, <2>5, <3>1, AvailNat DEF q
    <3>3. Accepted = q
      BY <2>2, <2>3, <2>5 DEF n
    <3> QED BY <1>2, <2>2, <2>3, <3>1, <3>2, <3>3, QueueWrite
  <2> QED BY <2>4, <2>5
<1> QED BY <1>1, <1>4, <1>5

LEMMA WriteByteQueue ==
    ASSUME RInv, NEW t \in Thread, WriteByte(t) \/ TryWriteByte(t)
    PROVE  Queue
<1>1. thread[t].n = 0
  BY NoneWritten DEF WriteByte, TryWriteByte, At, Resumed
<1>2. CASE \E c \in Byte, op \in {"WriteByte", "TryWriteByte"} :
              Leave(t, thread, op, <<c>>, 0, <<>>, ClosedErr) /\ UNCHANGED <<ring, err>>
  <2>1. PICK c \in Byte, op \in {"WriteByte", "TryWriteByte"} :
              Leave(t, thread, op, <<c>>, 0, <<>>, ClosedErr) /\ UNCHANGED <<ring, err>>
    BY <1>2
  <2>2. op \in WriteOps /\ op \notin ReadOps /\ BufType /\ Told(thread)
    BY Broadcast DEF WriteOps, ReadOps, RInv
  <2>3. Accepted = SubSeq(<<c>>, 1, 0) /\ Delivered = <<>>
    BY <1>1, <2>1, <2>2, ByReturn
  <2>4. SubSeq(<<c>>, 1, 0) = <<>>
    BY SubSeqEmpty
  <2> QED BY <2>1, <2>2, <2>3, <2>4, QueueSame
<1>3. CASE \E c \in Byte, op \in {"WriteByte", "TryWriteByte"} : WriteByteLoop(t, op, c)
  BY <1>1, <1>3, WriteByteLoopQueue
<1>4. CASE Resumed(t, "WriteByte") /\ WriteByteLoop(t, "WriteByte", thread[t].arg[1])
  <2>1. thread[t] \in Local /\ LocalOK(thread[t]) /\ thread[t].op = "WriteByte"
    BY <1>4 DEF RInv, ThreadInv, Resumed
  <2>2. thread[t].arg \in Seq(Byte) /\ Len(thread[t].arg) = 1
    BY <2>1 DEF Local, LocalOK
  <2>3. thread[t].arg[1] \in Byte
    BY <2>2, ElementOfSeq
  <2> QED BY <1>1, <1>4, <2>3, WriteByteLoopQueue
<1> QED BY <1>2, <1>3, <1>4 DEF WriteByte, TryWriteByte, WriteByteBegin

\* A step of a method that neither reads nor writes.
LEMMA OtherQueue ==
    ASSUME RInv, NEW t \in Thread, thread[t].n = 0, UNCHANGED ring, NEW th, Told(th),
           NEW op \in Methods \ WriteOps,
           \/ \E e : Leave(t, th, op, <<>>, 0, <<>>, e)
           \/ \E pc : Pause(t, th, pc, op, 0, <<>>, 0)
    PROVE  Queue
<1>1. CASE \E e : Leave(t, th, op, <<>>, 0, <<>>, e)
  BY <1>1, ByReturn, QueueSame DEF RInv
<1>2. CASE \E pc : Pause(t, th, pc, op, 0, <<>>, 0)
  BY <1>2, ByPause, QueueSame DEF RInv
<1> QED BY <1>1, <1>2

LEMMA CloseQueue ==
    ASSUME RInv, NEW t \in Thread, CloseWriter(t) \/ CloseWithError(t) \/ Close(t)
    PROVE  Queue
<1>1. Told(CloseThreads)
  BY Broadcast DEF CloseThreads
<1>2. thread[t].n = 0 /\ UNCHANGED ring
  BY NoneWritten DEF CloseWriter, CloseWithError, Close, At, SetErr
<1>3. {"CloseWriter", "CloseWithError", "Flush"} \subseteq Methods \ WriteOps
  BY DEF Methods, WriteOps
<1>4. \E op \in {"CloseWriter", "CloseWithError", "Flush"} :
          \/ \E e : Leave(t, CloseThreads, op, <<>>, 0, <<>>, e)
          \/ \E pc : Pause(t, CloseThreads, pc, op, 0, <<>>, 0)
  BY DEF CloseWriter, CloseWithError, Close
<1> QED BY <1>1, <1>2, <1>3, <1>4, OtherQueue

LEMMA FlushQueue ==
    ASSUME RInv, NEW t \in Thread, Flush(t)
    PROVE  Queue
<1>1. Told(thread) /\ "Flush" \in Methods \ WriteOps
  BY Broadcast DEF Methods, WriteOps
<1>2. thread[t].n = 0 /\ UNCHANGED ring
  BY NoneWritten DEF Flush, FlushCheck, At, Resumed
<1>3. \/ \E e : Leave(t, thread, "Flush", <<>>, 0, <<>>, e)
      \/ \E pc : Pause(t, thread, pc, "Flush", 0, <<>>, 0)
  BY DEF Flush, FlushCheck
<1> QED BY <1>1, <1>2, <1>3, OtherQueue

LEMMA TryLockQueue ==
    ASSUME RInv, NEW t \in Thread,
           NEW op \in {"TryRead", "TryWrite", "TryWriteByte"}, TryLockFails(t, op)
    PROVE  Queue
<1>1. Leave(t, thread, op, <<>>, 0, <<>>, "ErrAcquireLock") /\ UNCHANGED ring
  BY DEF TryLockFails
<1>2. Told(thread) /\ BufType /\ thread[t].n = 0
  BY Broadcast, NoneWritten DEF RInv, TryLockFails, At
<1>3. SubSeq(<<>>, 1, 0) = <<>>
  BY SubSeqEmpty
<1>4. Accepted = <<>> /\ Delivered = <<>>
  BY <1>1, <1>2, <1>3, ByReturn
<1> QED BY <1>1, <1>2, <1>4, QueueSame

\* The last step of Reset is the one that empties the queue.
LEMMA ResetQueue ==
    ASSUME RInv, NEW t \in Thread, Reset(t)
    PROVE  ret'.op # "Reset" => Queue
<1>1. /\ Told(thread) /\ Told(Woken({"readCond", "writeCond"}))
      /\ "Reset" \in Methods \ WriteOps
  BY Broadcast DEF Methods, WriteOps
<1>2. thread[t].n = 0
  BY NoneWritten DEF Reset, At
<1>3. \/ ret'.op = "Reset"
      \/ /\ UNCHANGED ring
         /\ \E th \in {thread, Woken({"readCond", "writeCond"})} : \E pc :
                Pause(t, th, pc, "Reset", 0, <<>>, 0)
  <2>1. CASE SetErr("reset called")
             /\ Pause(t, Woken({"readCond", "writeCond"}), "resetWait", "Reset", 0, <<>>, 0)
    BY <2>1 DEF SetErr
  <2>2. CASE Pause(t, thread, "resetLock", "Reset", 0, <<>>, 0) /\ UNCHANGED <<ring, err>>
    BY <2>2
  <2>3. CASE Leave(t, thread, "Reset", <<>>, 0, <<>>, "nil")
    BY <2>3 DEF Leave
  <2> QED BY <2>1, <2>2, <2>3 DEF Reset
<1> QED BY <1>1, <1>2, <1>3, OtherQueue

LEMMA QueueStep ==
    ASSUME RInv, Next
    PROVE  ret'.op # "Reset" => Queue
<1>1. PICK t \in Thread :
        \/ Read(t) \/ TryRead(t) \/ ReadByte(t)
        \/ \E op \in {"TryRead", "TryWrite", "TryWriteByte"} : TryLockFails(t, op)
        \/ Write(t) \/ TryWrite(t) \/ WriteByte(t) \/ TryWriteByte(t)
        \/ CloseWriter(t) \/ CloseWithError(t) \/ Close(t) \/ Flush(t) \/ Reset(t)
  BY DEF Next
<1>2. CASE Read(t) \/ TryRead(t)
  <2>1. ReadLens \subseteq Nat /\ thread[t].len \in Nat
    BY RingAssumption DEF RInv, ThreadInv, Local
  <2>2. thread[t].n = 0
    BY <1>2, NoneWritten DEF Read, TryRead, At, Resumed
  <2>3. {"Read", "TryRead"} \subseteq ReadOps
    BY DEF ReadOps
  <2> QED BY <1>2, <2>1, <2>2, <2>3, ReadLoopQueue DEF Read, TryRead
<1>3. CASE ReadByte(t) \/ \E op \in {"TryRead", "TryWrite", "TryWriteByte"} : TryLockFails(t, op)
  BY <1>3, ReadByteQueue, TryLockQueue
<1>4. CASE Write(t) \/ TryWrite(t) \/ WriteByte(t) \/ TryWriteByte(t)
  BY <1>4, WriteQueue, WriteByteQueue
<1>5. CASE CloseWriter(t) \/ CloseWithError(t) \/ Close(t) \/ Flush(t) \/ Reset(t)
  BY <1>5, CloseQueue, FlushQueue, ResetQueue
<1> QED BY <1>1, <1>2, <1>3, <1>4, <1>5

\* "data written to a RingBuffer ... can be read back" (ringbuffer.go:25): what a
\* write reports, in one round of its loop or in several, is appended to the queue,
\* what a read returns was its front, nothing but Reset changes it otherwise, and
\* Bytes shows all of it, Free the rest.
THEOREM BufferIsQueue == Spec => Fifo
<1> DEFINE Shows == Bytes = Content /\ Free = Size - Len(Content)
<1>1. RInv => Shows
  BY Shown DEF RInv
<1>2. RInv /\ Shows' /\ [Next]_vars =>
        [/\ ret'.op # "Reset" => Content \o Accepted = Delivered \o Content'
         /\ Bytes' = Content'
         /\ Free' = Size - Len(Content')]_vars
  BY QueueStep DEF Queue
<1> HIDE DEF Shows
<1> QED BY <1>1, <1>2, RingInductive, PTL DEF Spec, Fifo
=============================================================================
