--------------------------- MODULE MCApiRegistry ----------------------------
(* APIs and workers are interchangeable here.                               *)
EXTENDS ApiRegistry, TLC

MCSymmetry == Permutations(Apis) \cup Permutations(Workers)

=============================================================================
