\* Two dispatchers, two events, and up to two faults; the activity store.
CONSTANTS
    none = none
    e1 = e1
    e2 = e2
    Events = {e1, e2}
    Dispatchers = {x1, x2}
    Recipients = {r1, r2}
    Projectors <- NotifyThenActivity
    MaxAttempts = 3
    BatchSize = 2
    OccurredAt <- InOrder
    MaxFaults = 2
    None = None
    Entries = {1, 2, 3}
    Invalid = {}
    Closers = {}
    HasFallback = FALSE
    BufferSize = 1
    ActivityTTL = 2
    RowCap = 2
    PerPage = 1
    ActivityUnset = none
    MaxActivityClock = 4
    MaxActivityFaults = 1
    MaxPrunes = 1
    MaxLists = 1
SPECIFICATION ComposedSpec
SYMMETRY OutboxSymmetry
CHECK_DEADLOCK FALSE
INVARIANTS
    SingleOwner
    DuplicateSendsNeedFaults
PROPERTIES
    SettledForGood
    StoreKeeps
