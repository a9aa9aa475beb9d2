----------------------------- MODULE MCOverlay -----------------------------
(***************************************************************************)
(* Two nodes and their packets for TLC: p1 and p2 go from a to b, q1 goes  *)
(* back, and the others are malformed.                                     *)
(***************************************************************************)
EXTENDS Overlay, TLC

CONSTANTS a, b, p1, p2, q1, short4, short6, odd

Packets == {p1, p2, q1, short4, short6, odd}

PacketSrc == [p \in Packets |-> IF p = q1 THEN b ELSE a]
PacketDst == [p \in Packets |-> IF p = q1 THEN a ELSE b]

PacketVersion == p1 :> 4 @@ p2 :> 6 @@ q1 :> 4 @@ short4 :> 4 @@ short6 :> 6 @@ odd :> 5
PacketSize    == p1 :> 20 @@ p2 :> 40 @@ q1 :> 1500 @@ short4 :> 19 @@ short6 :> 39 @@ odd :> 60

\* Both know each other; b does not know a.
RouteTables == {a :> {b} @@ b :> {a}, a :> {b} @@ b :> {}}
=============================================================================
