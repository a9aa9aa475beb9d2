------------------------------ MODULE MCEngine ------------------------------
(***************************************************************************)
(* Instances of Engine for TLC.                                            *)
(***************************************************************************)
EXTENDS Engine, TLC

CONSTANTS k1, k2, k3, a1, a2, a3, m1

\* Every peer has an address of its own, and a3 is no peer's.
OwnAddr == k1 :> a1 @@ k2 :> a2

\* The configuration gives two peers the same address.
SharedAddr == k1 :> a1 @@ k2 :> a1 @@ k3 :> a2

\* Channels and payloads are only compared for equality.
\* Peers with the same address are interchangeable.
Symmetry == Permutations(Chan) \cup Permutations(Payload) \cup Permutations({k1, k2})
=============================================================================
