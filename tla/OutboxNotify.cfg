\* A send that fails once.
CONSTANTS
    e1 = e1
    e2 = e2
    Events = {e1}
    Dispatchers = {x1}
    Recipients = {r1}
    Projectors <- NotifyThenActivity
    MaxAttempts = 3
    BatchSize = 1
    OccurredAt <- InOrder
    MaxFaults = 0
    None = None
CHECK_DEADLOCK FALSE
SPECIFICATION OutboxSpec
INVARIANT NotifiedWhenDelivered
