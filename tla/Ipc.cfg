SPECIFICATION MCSpec
CONSTANTS
    Task = {t1, t2}
    MaxSends = 4
    Thread = {u1, u2}
    MaxSyncSends = 2
    Nobody = Nobody
    Topic = {a, b}
    MaxMessages = 3
    MaxLives = 2
    Period = 5
    MaxMissed = 3
    Interval = 5
    BeatTimeout = 3
    MaxHandler = 10
    MaxPending = 2
INVARIANTS TypesOK SubscriberSound OrphanedOrBusy
PROPERTIES ImplementsRequestReply SyncImplementsRequestReply NoDealerHangs OrphanEnds
CHECK_DEADLOCK FALSE
