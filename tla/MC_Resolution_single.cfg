CONSTANTS
    Items <- MC_AllItems
    MaxItems = 1
SPECIFICATION Spec
\* The expansion of a macro ends.
CHECK_DEADLOCK FALSE
INVARIANTS
    TypeOK
    AcceptsExactlyWellFormed
    TableMatchesDeclarations
