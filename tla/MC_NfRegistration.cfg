CONSTANTS
    NFs = {n1, n2}
    Slots = {s1}
    MaxInFlight = 2
    MaxFailures = 0
    CanHeal = FALSE
    NULL = NULL
SPECIFICATION Spec
SYMMETRY Symmetry
INVARIANTS TypeOK NeverIdle
CHECK_DEADLOCK FALSE
