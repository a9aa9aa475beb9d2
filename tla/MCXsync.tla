------------------------------ MODULE MCXsync ------------------------------
(* xsync.Map for TLC: what the threads call in each run, and the symmetry. *)
EXTENDS XsyncLin, TLC

PointOps == Methods \ {"Range"}
RouteOps == {"Load", "Swap", "LoadAndDelete", "Range"}
CompareOps == {"Load", "Swap", "CompareAndSwap", "CompareAndDelete"}

Symmetry == Permutations(Thread) \cup Permutations(Key)
                \cup Permutations(Val) \cup Permutations(Entry)
=============================================================================
