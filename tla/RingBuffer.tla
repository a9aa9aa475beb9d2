----------------------------- MODULE RingBuffer -----------------------------
(***************************************************************************)
(* RingBuffer (pkgs/ringbuffer/ringbuffer.go): a circular byte buffer that *)
(* is used as a pipe between goroutines, blocking or not.                  *)
(*                                                                         *)
(* A step is what a method does while it holds mu without a break, from    *)
(* the call or from the return of Cond.Wait to the next Wait or the end.   *)
(***************************************************************************)
EXTENDS Integers, Sequences, FiniteSets

CONSTANTS
    Thread,
    Byte,
    Size,      \* len(r.buf)
    Modes,     \* the values of r.block, which is set before the buffer is used
    Writes,    \* the byte sequences that are passed to Write
    ReadLens,  \* the lengths of the slices that are passed to Read
    Ops,       \* the methods the threads call
    CtxErr,    \* an error passed to CloseWithError, such as ctx.Err()
    Nobody,    \* no thread
    Zero       \* what a byte of a fresh buffer is

Methods == {"Read", "TryRead", "ReadByte", "Write", "TryWrite", "WriteByte",
            "TryWriteByte", "CloseWriter", "CloseWithError", "Flush", "Close", "Reset"}

ASSUME RingAssumption ==
    /\ Size \in Nat \ {0}
    /\ Modes \subseteq BOOLEAN
    /\ Writes \subseteq Seq(Byte)
    /\ ReadLens \subseteq Nat
    /\ Ops \subseteq Methods
    /\ "Close" \in Ops => "Flush" \in Ops
    /\ Zero \notin Byte

VARIABLES
    buf, r, w, isFull,
    block,   \* r.block
    err,     \* r.err
    thread,  \* where each thread is, and the locals of the method it is in
    ret      \* what the last step returned to its caller, if it did

ring == <<buf, r, w, isFull>>
vars == <<ring, block, err, thread, ret>>

Pos == 0..(Size - 1)

Idle  == [pc |-> "idle", op |-> "none", len |-> 0, arg |-> <<>>, n |-> 0]
NoRet == [t |-> Nobody, op |-> "none", arg |-> <<>>, n |-> 0, got |-> <<>>, err |-> "nil"]

\* New, followed by SetBlocking.
Init ==
    /\ block \in Modes
    /\ buf = [i \in Pos |-> Zero]
    /\ r = 0 /\ w = 0 /\ isFull = FALSE
    /\ err = "nil"
    /\ thread = [t \in Thread |-> Idle]
    /\ ret = NoRet

-----------------------------------------------------------------------------
(* The buffer *)

Least(a, b) == IF a < b THEN a ELSE b

Length ==
    IF w = r THEN IF isFull THEN Size ELSE 0
    ELSE IF w > r THEN w - r
    ELSE Size - r + w

Free ==
    IF w = r THEN IF isFull THEN 0 ELSE Size
    ELSE IF w < r THEN r - w
    ELSE Size - w + r

IsEmpty == w = r /\ ~isFull

\* buf[a:b], and buf after copy(buf[a:], s).
Slice(a, b)   == [i \in 1..(b - a) |-> buf[a + i - 1]]
Copy(b, a, s) == [i \in Pos |-> IF i \in a..(a + Len(s) - 1) THEN s[i - a + 1] ELSE b[i]]

Bytes ==
    IF IsEmpty THEN <<>>
    ELSE IF w > r THEN Slice(r, w)
    ELSE Slice(r, Size) \o Slice(0, w)

\* What read puts into a slice of the given length; the buffer is not empty.
Taken(len) ==
    LET n == Least(len, IF w > r THEN w - r ELSE Size - r + w) IN
    IF r + n <= Size THEN Slice(r, r + n)
                     ELSE Slice(r, Size) \o Slice(0, n - (Size - r))

\* r.read: the move of the read position by n bytes.
Advance(n) ==
    /\ r' = (r + n) % Size
    /\ isFull' = (w > r /\ isFull)
    /\ UNCHANGED <<buf, w>>

\* Mutant: the position after the last byte is not wrapped.
WrapForgotten(i) == i

Wrap(i) == IF i = Size THEN 0 ELSE i

\* r.write with the bytes s, of which there are no more than fit.
Put(s) ==
    LET c1 == Size - w IN
    /\ IF w >= r /\ c1 < Len(s)
       THEN /\ buf' = Copy(Copy(buf, w, SubSeq(s, 1, c1)), 0, SubSeq(s, c1 + 1, Len(s)))
            /\ w' = Wrap(Len(s) - c1)
       ELSE /\ buf' = Copy(buf, w, s)
            /\ w' = Wrap(w + Len(s))
    /\ isFull' = (w' = r)
    /\ UNCHANGED r

\* Mutant: one byte more than is free.
AvailOneMore == IF w >= r THEN Size - w + r + 1 ELSE r - w + 1

Avail == IF w >= r THEN Size - w + r ELSE r - w

-----------------------------------------------------------------------------
(* Errors *)

Transient == {"nil", "ErrIsEmpty", "ErrIsFull", "ErrTooMuchDataToWrite", "ErrIsNotEmpty"}

\* Mutant: transient errors are not passed on.
SetErrReturnsStored(e) == err

\* Mutant: the end is reported before what is left has been read.
ReadErrEager(empty) == err

\* setErr: what it returns, and what it leaves in r.err.
SetErrResult(e) == IF err \notin {"nil", "EOF"} THEN err ELSE e
SetErrStored(e) == IF err \notin {"nil", "EOF"} \/ e \in Transient THEN err ELSE e

\* readErr, in a state where the buffer is empty or not.
ReadErr(empty) == IF err = "EOF" /\ ~empty THEN "nil" ELSE err

ClosedErr == IF err = "EOF" THEN "ErrWriteOnClosed" ELSE err

-----------------------------------------------------------------------------
(* Threads *)

At(t, pc)     == thread[t].pc = pc
Resumed(t, op) == At(t, "woken") /\ thread[t].op = op

\* The threads after a Broadcast of the conditions conds.  A thread waits for a
\* condition until then and goes on, when mu is free, as "woken".
Woken(conds) ==
    [t \in Thread |-> IF block /\ thread[t].pc \in conds
                      THEN [thread[t] EXCEPT !.pc = "woken"] ELSE thread[t]]

\* Thread t leaves its method; th are the threads after the broadcasts before.
Leave(t, th, op, arg, n, got, e) ==
    /\ thread' = [th EXCEPT ![t] = Idle]
    /\ ret' = [t |-> t, op |-> op, arg |-> arg, n |-> n, got |-> got, err |-> e]

\* Thread t releases mu and goes on at pc later: a condition, or a label.
Pause(t, th, pc, op, len, arg, n) ==
    /\ thread' = [th EXCEPT ![t] = [pc |-> pc, op |-> op, len |-> len, arg |-> arg, n |-> n]]
    /\ ret' = NoRet

-----------------------------------------------------------------------------
(* Read, TryRead and ReadByte *)

ReadLoop(t, op, len) ==
    /\ \/ /\ ReadErr(IsEmpty) # "nil" \/ len = 0
          /\ Leave(t, thread, op, <<>>, 0, <<>>, ReadErr(IsEmpty))
          /\ UNCHANGED ring
       \/ /\ ReadErr(IsEmpty) = "nil" /\ len > 0 /\ IsEmpty
          /\ IF block /\ op # "TryRead"
             THEN Pause(t, thread, "writeCond", op, len, <<>>, 0)
             ELSE Leave(t, thread, op, <<>>, 0, <<>>, "ErrIsEmpty")
          /\ UNCHANGED ring
       \/ /\ ReadErr(IsEmpty) = "nil" /\ len > 0 /\ ~IsEmpty
          /\ Advance(Len(Taken(len)))
          /\ Leave(t, Woken({"readCond"}), op, <<>>, Len(Taken(len)), Taken(len),
                   IF w > r THEN "nil" ELSE ReadErr(r' = w /\ ~isFull'))
    /\ UNCHANGED err

Read(t) ==
    \/ At(t, "idle") /\ \E len \in ReadLens : ReadLoop(t, "Read", len)
    \/ Resumed(t, "Read") /\ ReadLoop(t, "Read", thread[t].len)

TryRead(t) == At(t, "idle") /\ \E len \in ReadLens : ReadLoop(t, "TryRead", len)

\* Nobody is told that a byte was read.
ReadByte(t) ==
    /\ At(t, "idle") \/ Resumed(t, "ReadByte")
    /\ \/ /\ ReadErr(IsEmpty) # "nil"
          /\ Leave(t, thread, "ReadByte", <<>>, 0, <<>>, ReadErr(IsEmpty))
          /\ UNCHANGED ring
       \/ /\ ReadErr(IsEmpty) = "nil" /\ IsEmpty
          /\ IF block
             THEN Pause(t, thread, "writeCond", "ReadByte", 1, <<>>, 0)
             ELSE Leave(t, thread, "ReadByte", <<>>, 0, <<>>, "ErrIsEmpty")
          /\ UNCHANGED ring
       \/ /\ ReadErr(IsEmpty) = "nil" /\ ~IsEmpty
          /\ r' = Wrap(r + 1)
          /\ isFull' = FALSE
          /\ UNCHANGED <<buf, w>>
          /\ Leave(t, thread, "ReadByte", <<>>, 1, <<buf[r]>>, ReadErr(r' = w))
    /\ UNCHANGED err

-----------------------------------------------------------------------------
(* Write, TryWrite, WriteByte and TryWriteByte *)

\* One round of the loop of Write, for what is left of s after n bytes.  The
\* error of a Write that was woken up is looked at when it does not fit again.
WriteLoop(t, op, s, n) ==
    LET k     == IF isFull THEN 0 ELSE Least(Len(s) - n, Avail)
        e     == IF isFull THEN "ErrIsFull"
                 ELSE IF Len(s) - n > Avail THEN "ErrTooMuchDataToWrite" ELSE "nil"
        waits == op = "Write" /\ block /\ SetErrResult(e) \in {"ErrIsFull", "ErrTooMuchDataToWrite"}
    IN
    /\ IF k > 0 THEN Put(SubSeq(s, n + 1, n + k)) ELSE UNCHANGED ring
    /\ IF waits
       THEN Pause(t, Woken({"writeCond"}), "readCond", op, 0, s, n + k)
       ELSE Leave(t, IF n + k > 0 THEN Woken({"writeCond"}) ELSE thread,
                  op, s, n + k, <<>>, SetErrResult(e))
    /\ UNCHANGED err

WriteBegin(t, op, s) ==
    \/ /\ s = <<>>
       /\ Leave(t, thread, op, s, 0, <<>>, SetErrResult("nil"))
       /\ UNCHANGED <<ring, err>>
    \/ /\ s # <<>> /\ err # "nil"
       /\ Leave(t, thread, op, s, 0, <<>>, ClosedErr)
       /\ UNCHANGED <<ring, err>>
    \/ s # <<>> /\ err = "nil" /\ WriteLoop(t, op, s, 0)

Write(t) ==
    \/ At(t, "idle") /\ \E s \in Writes : WriteBegin(t, "Write", s)
    \/ Resumed(t, "Write") /\ WriteLoop(t, "Write", thread[t].arg, thread[t].n)

TryWrite(t) == At(t, "idle") /\ \E s \in Writes : WriteBegin(t, "TryWrite", s)

\* writeByte, and what follows it in WriteByte and TryWriteByte.
WriteByteLoop(t, op, c) ==
    LET full == w = r /\ isFull
        e    == SetErrResult(IF full THEN "ErrIsFull" ELSE "nil")
        n    == IF full THEN 0 ELSE 1
    IN
    /\ IF full THEN UNCHANGED ring ELSE Put(<<c>>)
    /\ IF e = "ErrIsFull" /\ block /\ op = "WriteByte"
       THEN Pause(t, thread, "readCond", op, 0, <<c>>, 0)
       ELSE Leave(t, IF e = "nil" THEN Woken({"writeCond"}) ELSE thread, op, <<c>>, n, <<>>, e)
    /\ UNCHANGED err

WriteByteBegin(t, op) ==
    \E c \in Byte :
        \/ /\ err # "nil"
           /\ Leave(t, thread, op, <<c>>, 0, <<>>, ClosedErr)
           /\ UNCHANGED <<ring, err>>
        \/ err = "nil" /\ WriteByteLoop(t, op, c)

WriteByte(t) ==
    \/ At(t, "idle") /\ WriteByteBegin(t, "WriteByte")
    \/ Resumed(t, "WriteByte") /\ WriteByteLoop(t, "WriteByte", thread[t].arg[1])

TryWriteByte(t) == At(t, "idle") /\ WriteByteBegin(t, "TryWriteByte")

\* mu.TryLock fails while another thread is in one of its critical sections.
TryLockFails(t, op) ==
    /\ At(t, "idle")
    /\ Thread # {t}
    /\ Leave(t, thread, op, <<>>, 0, <<>>, "ErrAcquireLock")
    /\ UNCHANGED <<ring, err>>

-----------------------------------------------------------------------------
(* Close, Flush and Reset *)

\* setErr, for CloseWriter and CloseWithError.
SetErr(e) ==
    /\ err' = SetErrStored(e)
    /\ UNCHANGED ring

\* Mutant: waiting threads are not told of the error.
CloseSilent == thread

\* The broadcasts in setErr, which are left out if there was an error already.
CloseThreads ==
    IF err \in {"nil", "EOF"} THEN Woken({"readCond", "writeCond"}) ELSE thread

CloseWriter(t) ==
    /\ At(t, "idle")
    /\ SetErr("EOF")
    /\ Leave(t, CloseThreads, "CloseWriter", <<>>, 0, <<>>, "nil")

CloseWithError(t) ==
    /\ At(t, "idle")
    /\ \E e \in {CtxErr, "EOF"} :
        /\ SetErr(e)
        /\ Leave(t, CloseThreads, "CloseWithError", <<>>, 0, <<>>, "nil")

\* The IsEmpty in the loop of Flush, which holds mu only for itself.
FlushCheck(t) ==
    /\ \/ IsEmpty /\ Pause(t, thread, "flushEnd", "Flush", 0, <<>>, 0)
       \/ ~IsEmpty /\ block /\ Pause(t, thread, "flushLock", "Flush", 0, <<>>, 0)
       \/ ~IsEmpty /\ ~block /\ Pause(t, thread, "flushFail", "Flush", 0, <<>>, 0)
    /\ UNCHANGED <<ring, err>>

FlushResult == IF ReadErr(IsEmpty) = "EOF" THEN "nil" ELSE ReadErr(IsEmpty)

Flush(t) ==
    \/ At(t, "idle") /\ FlushCheck(t)
    \/ At(t, "flush") /\ FlushCheck(t)
    \/ /\ At(t, "flushLock")
       /\ Pause(t, thread, "readCond", "Flush", 0, <<>>, 0)
       /\ UNCHANGED <<ring, err>>
    \/ /\ Resumed(t, "Flush")
       /\ IF ReadErr(IsEmpty) # "nil"
          THEN Leave(t, thread, "Flush", <<>>, 0, <<>>, FlushResult)
          ELSE Pause(t, thread, "flush", "Flush", 0, <<>>, 0)
       /\ UNCHANGED <<ring, err>>
    \/ /\ At(t, "flushFail")
       /\ Leave(t, thread, "Flush", <<>>, 0, <<>>, SetErrResult("ErrIsNotEmpty"))
       /\ UNCHANGED <<ring, err>>
    \/ /\ At(t, "flushEnd")
       /\ Leave(t, thread, "Flush", <<>>, 0, <<>>, FlushResult)
       /\ UNCHANGED <<ring, err>>

\* writeCloser.Close: CloseWriter, then Flush.
Close(t) ==
    /\ At(t, "idle")
    /\ SetErr("EOF")
    /\ Pause(t, CloseThreads, "flush", "Flush", 0, <<>>, 0)

\* r.wg counts the calls of Read that wait or have been woken up.
WgZero == \A t \in Thread : thread[t].op # "Read"

Reset(t) ==
    \/ /\ At(t, "idle")
       /\ SetErr("reset called")
       /\ Pause(t, Woken({"readCond", "writeCond"}), "resetWait", "Reset", 0, <<>>, 0)
    \/ /\ At(t, "resetWait")
       /\ WgZero
       /\ Pause(t, thread, "resetLock", "Reset", 0, <<>>, 0)
       /\ UNCHANGED <<ring, err>>
    \/ /\ At(t, "resetLock")
       /\ r' = 0 /\ w' = 0 /\ isFull' = FALSE
       /\ err' = "nil"
       /\ Leave(t, thread, "Reset", <<>>, 0, <<>>, "nil")
       /\ UNCHANGED buf

-----------------------------------------------------------------------------

Next ==
    /\ UNCHANGED block
    /\ \E t \in Thread :
         \/ "Read" \in Ops /\ Read(t)
         \/ "TryRead" \in Ops /\ (TryRead(t) \/ TryLockFails(t, "TryRead"))
         \/ "ReadByte" \in Ops /\ ReadByte(t)
         \/ "Write" \in Ops /\ Write(t)
         \/ "TryWrite" \in Ops /\ (TryWrite(t) \/ TryLockFails(t, "TryWrite"))
         \/ "WriteByte" \in Ops /\ WriteByte(t)
         \/ "TryWriteByte" \in Ops /\ (TryWriteByte(t) \/ TryLockFails(t, "TryWriteByte"))
         \/ "CloseWriter" \in Ops /\ CloseWriter(t)
         \/ "CloseWithError" \in Ops /\ CloseWithError(t)
         \/ "Flush" \in Ops /\ Flush(t)
         \/ "Close" \in Ops /\ Close(t)
         \/ "Reset" \in Ops /\ Reset(t)

Spec == Init /\ [][Next]_vars

-----------------------------------------------------------------------------
(* Properties *)

\* The types; the positions stay inside the buffer.
TypeOK ==
    /\ buf \in [Pos -> Byte \cup {Zero}]
    /\ r \in Pos /\ w \in Pos
    /\ block \in BOOLEAN
    /\ isFull \in BOOLEAN /\ (isFull => w = r)
    /\ err \in {"nil", "EOF", CtxErr, "reset called"}
    /\ \A t \in Thread :
        /\ thread[t].pc \in {"idle", "readCond", "writeCond", "woken",
                             "flush", "flushLock", "flushFail", "flushEnd", "resetWait", "resetLock"}
        /\ thread[t].op \in Methods \cup {"none"}
        /\ thread[t].n \in 0..Len(thread[t].arg)

\* The queue the buffer stands for: the bytes from r on, around the end.
Content == [i \in 1..Length |-> buf[(r + i - 1) % Size]]

ReadOps  == {"Read", "TryRead", "ReadByte"}
WriteOps == {"Write", "TryWrite", "WriteByte", "TryWriteByte"}

\* What a step took from the argument of a write, and what it gave to a reader.
Accepted ==
    IF ret'.op \in WriteOps
    THEN SubSeq(ret'.arg, thread[ret'.t].n + 1, ret'.n)
    ELSE LET T == {t \in Thread : thread'[t].n # thread[t].n} IN
         IF T = {} THEN <<>>
         ELSE LET t == CHOOSE t \in T : TRUE
              IN SubSeq(thread'[t].arg, thread[t].n + 1, thread'[t].n)
Delivered == IF ret'.op \in ReadOps THEN ret'.got ELSE <<>>

\* "data written to a RingBuffer ... can be read back" (ringbuffer.go:25): the
\* buffer is a queue.  Bytes that a write reports, in one round of its loop or
\* in several, are appended; what a read returns was at the front; nothing else
\* but Reset changes the content; and Bytes shows all of it, Free the rest.
Fifo ==
    [][/\ ret'.op # "Reset" => Content \o Accepted = Delivered \o Content'
       /\ Bytes' = Content'
       /\ Free' = Size - Len(Content')]_vars

\* "Write returns a non-nil error if it returns n < len(p)" (ringbuffer.go:248).
\* A blocking Write does so only because the buffer was closed or reset.
WriteContract ==
    /\ ret.op \in WriteOps /\ ret.n < Len(ret.arg) => ret.err # "nil"
    /\ block /\ ret.op \in {"Write", "WriteByte"} /\ ret.n < Len(ret.arg)
           => ret.err \notin Transient

\* "Reads will return any remaining bytes and io.EOF" (ringbuffer.go:540): a read
\* that reports the end has left nothing behind.
EofAtEnd ==
    ret.op \in ReadOps /\ ret.err = "EOF" => IsEmpty

\* writeCond is "signalled when data has been written": a reader only waits
\* while there is nothing to read and no error to report.
ReadersWait ==
    \A t \in Thread : At(t, "writeCond") => IsEmpty /\ err = "nil"

\* readCond is "signalled when data has been read" (ringbuffer.go:38): a writer
\* only waits while there is no space, and not after an error.
WritersWait ==
    \A t \in Thread :
        At(t, "readCond") /\ thread[t].op \in WriteOps => isFull /\ err \in {"nil", "EOF"}

\* "Reads will return any remaining bytes and io.EOF" (ringbuffer.go:540): after
\* io.EOF, no more bytes come.
EofFinal ==
    [][ret.op \in ReadOps /\ ret.err = "EOF" /\ err = "EOF" => Content' = <<>>]_vars

=============================================================================
