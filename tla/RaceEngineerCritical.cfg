SPECIFICATION FairSpec
CONSTANTS
    QueueSize = 2
    MaxCallouts = 2
    MaxSessions = 1
    MaxSwitches = 1
    NoSnapshot = NoSnapshot
PROPERTIES CriticalFirst
CHECK_DEADLOCK FALSE
