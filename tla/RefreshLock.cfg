SPECIFICATION RefreshSpec
CONSTANTS
    Refreshers = {x1, x2, x3}
    Revokers = {}
    Callbacks = {}
    MaxAttempts = 1
    None = None
    MaxToken = 1
    MaxRevokes = 0
INVARIANT LockHeldExclusively
