SPECIFICATION Spec
CONSTANTS
  Streams = {s1, s2, s3}
  UEs = {u1, u2}
  Slots = {x1, x2}
  Routes = {"udm", "nrf", "scp"}
  Malformed = TRUE
  Unreachable = TRUE
  NULL = NULL
SYMMETRY Symmetry
INVARIANTS TypeOK PoolExact AnsweredOnce Pursued
CHECK_DEADLOCK FALSE
