SPECIFICATION MCSpec
CONSTANTS
    TyreSet = {s1, s2}
    Settings <- MCSettings
    MaxMoments = 5
    MaxUnsteady = 3
    MaxStops = 1
    MaxFlashbacks = 1
    None = None
    MaxLap = 2
    LapLength = 3
    MaxPace = 2
    MaxRewinds = 1
    Driver = {0, 1}
    Time = {1, 2, 3}
    MaxChanges = 3
SYMMETRY Symmetry
INVARIANTS TypesOK LapsBehindCar StaleOnlyWhereLanded WearOfOwnTyres OnlyKnownFailures
    DeltaIsSound RecordIsRight
PROPERTY HistoryIsFinal
CHECK_DEADLOCK FALSE
