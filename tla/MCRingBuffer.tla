---------------------------- MODULE MCRingBuffer ----------------------------
(* RingBuffer for TLC: the bytes that are written, and what is called. *)
EXTENDS RingBuffer, TLC

CONSTANTS x, y

TwoBytes == {x, y}
UpToThree == {<<>>, <<x>>, <<x, y>>, <<y, x, x>>}
UpToTwo == {<<x>>, <<x, y>>}

AllOps == Methods
ByteOps == {"ReadByte", "Write"}
EofOps == {"Read", "Write", "CloseWriter"}

Symmetry == Permutations(Thread)
=============================================================================
