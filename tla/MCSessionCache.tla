--------------------------- MODULE MCSessionCache ---------------------------
(* Instances of SessionCache for TLC. *)
EXTENDS SessionCache, TLC

CONSTANTS i1, i2, f1, f2

FillSymmetry == Permutations({f1, f2})
=============================================================================
