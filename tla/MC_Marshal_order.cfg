CONSTANTS
    v1 = v1
    v2 = v2
    Vals <- MC_Vals
    MaxArity <- MC_MaxArity
    Mismatch = Mismatch
    Recv = Recv
    None = None
    UserErr = UserErr
SYMMETRY MC_Symmetry
SPECIFICATION Spec
\* A call of the generated function ends: returned, aborted or panicked.
CHECK_DEADLOCK FALSE
INVARIANT
    ErrorNamesFirstFailingSlot
