SPECIFICATION MCSpec
CONSTANTS
    User = {ui, pool}
    MainThread = ui
    Command = {"start_stop", "restart", "stop"}
    MaxStarts = 2
    MaxCommands = 1
    MaxAttempts = 1
    MaxMissed = 0
    AutoRestart = TRUE
    ExitCode = {"crash", "term"}
    Token = {"pid", "port", "init"}
    Nobody = Nobody
    Scopes <- MCScopes
    ui = ui
    pool = pool
INVARIANTS TypeOK StopIsExclusive
PROPERTIES NoDoubleStart StopReturns HeartbeatEnds SettledCrashIsNoticed
CHECK_DEADLOCK FALSE
