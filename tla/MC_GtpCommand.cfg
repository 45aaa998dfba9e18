CONSTANTS
    T3 = 1
    MaxDelay = 0
    Lag = 0
    MaxForwards = 2
    NULL = NULL
SPECIFICATION FairSpec
INVARIANTS TypeOK LegsAgree HeldUntilAnswered ModifiedIfAccepted AbortsOnlyLate
PROPERTIES Forgotten
