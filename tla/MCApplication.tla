--------------------------- MODULE MCApplication ---------------------------
(* Instances of Application for TLC. Names are alike but for KeptPools,    *)
(* which has one of them or none.                                          *)
EXTENDS Application, TLC

Symmetry ==
  Permutations(Surfaces) \cup Permutations(Windows)
    \cup Permutations(Backends) \cup Permutations(Ids \ KeptPools)
=============================================================================
