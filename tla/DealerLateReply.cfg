SPECIFICATION Spec
CONSTANTS
    Task = {t1}
    MaxSends = 2
INVARIANT OwnReply
CHECK_DEADLOCK FALSE
