------------------------- MODULE MC_ImageRepository -------------------------
(* Model-checking instance of ImageRepository: two keys, so that a Root    *)
(* rotation may change the key or keep it.                                 *)
EXTENDS ImageRepository, TLC

CONSTANTS k1, k2

MCKeys == {k1, k2}

KeySymmetry == Permutations(MCKeys)
=============================================================================
