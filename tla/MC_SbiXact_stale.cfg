SPECIFICATION Spec
CONSTANTS
  Streams = {s1, s2}
  UEs = {u1}
  Slots = {x1, x2}
  Routes = {"udm", "nrf"}
  Malformed = FALSE
  Unreachable = FALSE
  NULL = NULL
SYMMETRY Symmetry
INVARIANTS RemovedXactNoticed
CHECK_DEADLOCK FALSE
