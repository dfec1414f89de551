\* Three workers on one delivery; burst control; subscriptions.
CONSTANTS
    w1 = w1
    w2 = w2
    w3 = w3
    b1 = b1
    c1 = c1
    c2 = c2
    h1 = h1
    k1 = k1
    k2 = k2
    d1 = d1
    d2 = d2
    Deliveries = {d1}
    Workers = {w1, w2, w3}
    Hosts = {h1}
    HostOf <- OneHost
    Keys = {}
    None = None
    BurstKey <- NoKeys
    BurstMode = "none"
    Window = 1
    MaxEntries = 1
    Lease = 3
    MaxAttempts = 3
    InitialDelay = 1
    MaxDelay = 2
    MaxTime = 5
    ChannelCallers = {c1, c2}
    MaxChannels = 3
    MaxCalls = 5
    MaxChannelFaults = 1
SPECIFICATION ComposedSpec
SYMMETRY WorkerSymmetry
CHECK_DEADLOCK FALSE
INVARIANTS
    ProcessedWasHandled
    LeaseExclusion
    ChannelsTracked
PROPERTIES
    OnlyGrantHolderSettles
    ImplementsLifecycle
    BurstOverflowOnlyInsideWindow
