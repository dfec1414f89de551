SPECIFICATION RefreshSpec
CONSTANTS
    Refreshers = {x1}
    Revokers = {}
    Callbacks = {}
    MaxAttempts = 1
    None = None
    MaxToken = 2
    MaxRevokes = 0
PROPERTY AllowedTransitions
