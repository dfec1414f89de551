\* A dispatcher dies with a claimed event.
CONSTANTS
    e1 = e1
    e2 = e2
    Events = {e1}
    Dispatchers = {x1}
    Recipients = {r1}
    Projectors <- ActivityThenNotify
    MaxAttempts = 3
    BatchSize = 1
    OccurredAt <- InOrder
    MaxFaults = 1
    None = None
CHECK_DEADLOCK FALSE
SPECIFICATION FairOutboxSpec
PROPERTY EventuallySettled
