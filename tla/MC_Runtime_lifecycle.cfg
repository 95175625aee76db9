CONSTANTS
    t1 = t1
    t2 = t2
    o1 = o1
    o2 = o2
    NoObj = NoObj
    Threads <- MC_Threads2
    Objs <- MC_Objs
SYMMETRY MC_Symmetry
SPECIFICATION Spec
\* A panic ends the process (abort or undefined behaviour): nothing runs after it.
CHECK_DEADLOCK FALSE
INVARIANTS
    NoDoubleFree
    BoxOwnership
PROPERTY
    LifecycleSpec
