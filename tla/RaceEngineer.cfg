SPECIFICATION MCSpec
CONSTANTS
    QueueSize = 2
    MaxCallouts = 3
    MaxSessions = 2
    MaxSwitches = 1
    NoSnapshot = NoSnapshot
    MaxPresses = 3
    MaxAudio = 2
INVARIANTS TypesOK CalloutsCounted OldSessionSilent MutedQueue CriticalsAhead HoldIsRespected
PROPERTIES WorkerReturns
CHECK_DEADLOCK FALSE
