SPECIFICATION MCSpec
CONSTANTS
    Session = {u1, u2}
    Frame = {0, 1, 2}
    Type = {LapData, CarStatus}
    Enabled = TRUE
    None = None
    MaxDelivered = 5
    Consumer = {c1, c2}
CONSTRAINT FewDelivered
INVARIANTS TypesOK Ordered GateDecidesFreshness SaveAwaited
PROPERTIES ImplementsOrderedFeed BackendEnds
CHECK_DEADLOCK FALSE
