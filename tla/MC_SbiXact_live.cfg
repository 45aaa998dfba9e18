SPECIFICATION FairSpec
CONSTANTS
  Streams = {s1, s2}
  UEs = {u1, u2}
  Slots = {x1, x2}
  Routes = {"udm", "nrf"}
  Malformed = FALSE
  Unreachable = TRUE
  NULL = NULL
PROPERTIES EveryoneAnswered
CHECK_DEADLOCK FALSE
