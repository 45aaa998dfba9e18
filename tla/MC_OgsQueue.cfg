CONSTANTS
    Pushers = {p1, p2}
    Poppers = {c1, c2}
    Elements = {a, b}
    NULL = NULL
    Bounds = 2
    Timeouts = {"nowait", "timed"}
    Spurious = TRUE
SPECIFICATION Spec
SYMMETRY Symmetry
INVARIANTS TypeOK NoLostWakeup NoSleeperAfterTerm
PROPERTIES ImplementsFifo
