SPECIFICATION MCSpec
CONSTANTS
    MaxSession = 2
    Autosaved = {1, 2}
    JustInCase = TRUE
    MaxEpoch = 3
    MaxFiles = 2
    Overlay = {o1, o2}
    Everyone = Everyone
    Scopes <- MCScopes
    o1 = o1
    o2 = o2
CONSTRAINT Bounded
INVARIANTS TypeOK FlagsAgree StartedMeansCurrent LapsArePure SavedOnce OverlaysSound
CHECK_DEADLOCK FALSE
