\* Cursors, jobs, runs, conflicts, bindings and mappings.
CONSTANTS
    c1 = c1
    c2 = c2
    n1 = n1
    n2 = n2
    k1 = k1
    k2 = k2
    bad = bad
    None = None
    Callers = {c1, c2}
    Cursors <- MCCursors
    Fold <- MCFold
    SnapshotWrites = TRUE
    MaxCommits = 3
    JobCallers = {c1, c2}
    Connections = {n1, n2}
    Keys = {k1, k2}
    Ops <- AllOps
    MaxJobCalls = 4
    MaxToggles = 1
    JobNone = JobNone
    Runners = {c1, c2}
    Feed <- MCFeed
    NoID = NoID
    Limit = 2
    MaxRunFaults = 1
    Conflicts = {k1, k2}
    ConflictCallers = {c1, c2}
    MaxConflictCalls = 4
    Calls = {c1, c2}
    Candidates <- SomeCandidates
    MaxCandidates = 2
    Exact = 99
    Confident = 80
    Delta = 5
    BindingUnset = BindingUnset
    MappingCallers = {c1, c2}
    Contents = {k1, k2, bad}
    Broken = bad
    MappingUnset = MappingUnset
    MaxVersion = 2
    MaxMappingCalls = 4
    MaxMappingFaults = 1
SPECIFICATION ComposedSpec
CHECK_DEADLOCK FALSE
INVARIANTS
    IdempotentCreate
    CheckpointsKept
    LogCoversCheckpoints
    
PROPERTIES
    ImplementsRegister
    ConflictIsReal
    ClosedUnlessRaced
    BoundForGood
    PublishedForGood
