CONSTANTS
    Peers = {cp, up}
    Requesters = {cp}
    Types = {association, session}
    MaxXid = 1
    T1 = 2
    Delays = {1}
    MaxDelay = 1
    Lag = 0
    SendFails = TRUE
    MaxRestarts = 1
    NULL = NULL
SPECIFICATION FairSpec
INVARIANTS OnlyIgnoredLeak
PROPERTIES HeldIsForgotten
