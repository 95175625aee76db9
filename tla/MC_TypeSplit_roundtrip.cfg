CONSTANTS
    v1 = v1
    v2 = v2
    CompileError = CompileError
    Vals <- MC_Vals
    MaxFields <- MC_MaxFields
SPECIFICATION Spec
\* The split and the join of one struct end once Foo is rebuilt.
CHECK_DEADLOCK FALSE
INVARIANT
    RoundTrip
