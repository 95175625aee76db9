-------------------------- MODULE MC_MarshalRefines --------------------------
(* Model-checking instance of Marshal and of its refinement of             *)
(* MarshalOutcome: methods of up to three parameters.                      *)
EXTENDS MarshalRefinement, TLC

CONSTANTS v1, v2

MC_Vals == {v1, v2}

MC_MaxArity == 3

\* Values are only compared for equality: permuting them is sound.
MC_Symmetry == Permutations(MC_Vals)
=============================================================================
