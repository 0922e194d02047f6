--------------------------- MODULE MCOverlayStore ---------------------------
(* Instances of OverlayStore for TLC. *)
EXTENDS OverlayStore, TLC

CONSTANTS w1, w2, w3, r1, webgl, other, p1, p2

\* Two sets of different sizes.
TwoSets == {{p1}, {p1, p2}}
Interchangeable == Permutations(Calls)
=============================================================================
