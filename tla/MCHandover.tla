----------------------------- MODULE MCHandover -----------------------------
(* A size_t of three bits and elements of two bytes: two elements fit, the *)
(* product for five wraps around to two bytes, that for four to nothing.   *)
EXTENDS Handover

CONSTANTS p1, p2, p3, i1, i2, i3

ThreePlaces == {p1, p2, p3}
ThreeIds == {i1, i2, i3}
ThreeCounts == {2, 4, 5}
=============================================================================
