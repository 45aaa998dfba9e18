CONSTANTS
    Gnbs = {g1, g2}
    Subs = {s1}
    Ues = {u1, u2}
    Contexts = {c1, c2}
    MaxQueue = 2
    MaxMessages = 4
    MaxUpdates = 1
    NULL = NULL
SPECIFICATION Spec
SYMMETRY Symmetry
INVARIANTS TypeOK PlacesExact RanPointsBack CommandedLeaves OrphansInReach
CHECK_DEADLOCK FALSE
