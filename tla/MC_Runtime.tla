------------------------------ MODULE MC_Runtime ------------------------------
(* Model-checking instances of Runtime.                                    *)
EXTENDS RuntimeLifecycle, TLC

CONSTANTS t1, t2, o1, o2

MC_Threads1 == {t1}
MC_Threads2 == {t1, t2}
MC_Objs == {o1, o2}

MC_Symmetry == Permutations(MC_Objs)
=============================================================================
