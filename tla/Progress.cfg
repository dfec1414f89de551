\* What must happen in the end, under fairness.
CONSTANTS
    x1 = x1
    x2 = x2
    v1 = v1
    c1 = c1
    e1 = e1
    e2 = e2
    r1 = r1
    NoID = NoID
    none = none
SPECIFICATION ComposedSpec
CHECK_DEADLOCK FALSE
PROPERTIES
    EventuallySettled
    RefreshEnds
    EventuallyLogged
    Returns
    SinkSettles
