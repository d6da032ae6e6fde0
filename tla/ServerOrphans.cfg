SPECIFICATION Spec
CONSTANTS
    Period = 5
    MaxMissed = 3
    Interval = 5
    BeatTimeout = 3
    MaxHandler = 10
    MaxPending = 1
INVARIANT OnlyOrphansEnd
CHECK_DEADLOCK FALSE
