\* Provider operations on one rate-limit key, their retries, and capability calls.
CONSTANTS
    o1 = o1
    o2 = o2
    o3 = o3
    k1 = k1
    k2 = k2
    k3 = k3
    p1 = p1
    p2 = p2
    s1 = s1
    s2 = s2
    read = read
    export = export
    g1 = g1
    g2 = g2
    PolicyInitialBackoff = 1
    PolicyMaxBackoff = 2
    Ops = {o3}
    Providers <- Normalizers
    Replies <- ManyReplies
    HeaderForms = {"absent", "canonical", "lowercase"}
    MaxAttempts = 3
    InitialBackoff = 1
    MaxBackoff = 2
    MaxClock = 0
    MaxFaults = 1
    Connections = {k1, k2, k3}
    ProviderOf <- MCProviderOf
    ScopeOf <- MCScopeOf
    InvokeProviders = {p1, p2}
    InvokeScopes = {s1, s2}
    Descriptors <- MCDescriptors
    Resolving = {p1, p2}
    CarriesToken = {p1}
    Capabilities = {read, export}
    Grants = {g1, g2}
    Nothing = Nothing
    MaxWrites = 3
SPECIFICATION ComposedSpec
SYMMETRY Symmetry
CHECK_DEADLOCK FALSE
INVARIANTS
    SentWasAllowed
PROPERTIES
    SharedCallsWait
    RetriesEnd
