SPECIFICATION FairSpec
CONSTANTS
    User = {ui}
    MainThread = ui
    Command = {"restart"}
    MaxStarts = 1
    MaxCommands = 1
    MaxAttempts = 1
    MaxMissed = 0
    AutoRestart = FALSE
    ExitCode = {"crash"}
    Token = {}
    Nobody = Nobody
PROPERTY CrashIsNoticed
CHECK_DEADLOCK FALSE
