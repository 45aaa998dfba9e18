CONSTANTS
    Peers = {cp, up}
    Requesters = {cp, up}
    Types = {session}
    MaxXid = 1
    T1 = 4
    Delays = {1}
    MaxDelay = 1
    Lag = 1
    SendFails = FALSE
    MaxRestarts = 0
    NULL = NULL
SPECIFICATION FairSpec
INVARIANTS TypeOK HandledAtMostOnce EndIsTold
PROPERTIES ImplementsRequestReply EveryRequestEnds
