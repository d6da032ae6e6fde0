SPECIFICATION Spec
CONSTANTS
    MaxSession = 1
    Autosaved = {1}
    JustInCase = TRUE
INVARIANT ReceiverSurvives
CHECK_DEADLOCK FALSE
