\* A retry inside the burst window: one delivery, the default ratio of window and delay.
CONSTANTS
    h1 = h1
    k1 = k1
    k2 = k2
    d1 = d1
    d2 = d2
    Deliveries = {d1}
    Workers = {w1}
    Hosts = {h1}
    HostOf <- OneHost
    Keys = {k1, k2}
    None = None
    BurstKey <- TwoKeys
    BurstMode = "coalesce"
    Window = 2
    MaxEntries = 1
    Lease = 2
    MaxAttempts = 2
    InitialDelay = 1
    MaxDelay = 2
    MaxTime = 4
SPECIFICATION WebhookSpec
INVARIANT RetriedUntilHandled
