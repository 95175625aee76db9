CONSTANTS
    Items <- MC_PairItems
    MaxItems = 2
SPECIFICATION Spec
\* The expansion of a macro ends.
CHECK_DEADLOCK FALSE
INVARIANT ErrorsBatched
