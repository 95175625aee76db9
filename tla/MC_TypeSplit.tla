----------------------------- MODULE MC_TypeSplit -----------------------------
EXTENDS TypeSplit

CONSTANTS v1, v2

MC_Vals == {v1, v2}
MC_MaxFields == 3
=============================================================================
