CONSTANTS
    NFs = {n1}
    Slots = {s1}
    MaxInFlight = 3
    MaxFailures = 1
    CanHeal = TRUE
    NULL = NULL
SPECIFICATION FairSpec
PROPERTIES DeadForgotten Agreement
CHECK_DEADLOCK FALSE
