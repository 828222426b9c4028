CONSTANTS
    Values = {v1, v2}
    FailOpen = FALSE
    StaleAfter = 1
    MaxNow = 3
    MaxSeen = 2
SPECIFICATION Spec
INVARIANT OffMeansOff
CHECK_DEADLOCK FALSE
