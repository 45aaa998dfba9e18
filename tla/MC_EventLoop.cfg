SPECIFICATION FairSpec
CONSTANTS
    t1 = t1
    t2 = t2
    holding = holding
    InstanceTimers <- MC_InstanceTimers
    OtherTimers <- MC_OtherTimers
    Holding = holding
    MaxRequests = 2
    Capacities <- MC_Capacities
    NULL = NULL
INVARIANTS TypeOK SignalHeard
PROPERTIES Handled Terminates
CHECK_DEADLOCK FALSE
