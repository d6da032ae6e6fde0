SPECIFICATION Spec
CONSTANTS
    QueueSize = 2
    MaxCallouts = 2
    MaxSessions = 1
    MaxSwitches = 1
    NoSnapshot = NoSnapshot
INVARIANT MutedSilence
CHECK_DEADLOCK FALSE
