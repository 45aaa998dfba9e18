SPECIFICATION FairSpec
CONSTANTS
  CP = CP
  UP = UP
  Peers = {CP, UP}
  Configurations = {{CP}, {CP, UP}}
  MaxCrashes = 2
  SendFailures = {TRUE, FALSE}
INVARIANTS TypeOK Watched
PROPERTIES DeadPeerNoticed StaysAssociated Reassociated
CHECK_DEADLOCK FALSE
