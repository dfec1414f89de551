\* Refreshes, credentials, accounts, installations and secrets.
CONSTANTS
    x1 = x1
    x2 = x2
    v1 = v1
    c1 = c1
    w1 = w1
    i1 = i1
    i2 = i2
    none = none
    Refreshers = {x1, x2}
    Revokers = {v1}
    Callbacks = {c1}
    MaxAttempts = 2
    None = None
    MaxToken = 2
    MaxRevokes = 1
    AccountCallbacks = {x1, x2}
    Users <- TwoUsers
    Setups <- StableSetups
    AccountUnset = none
    MaxCallbacks = 5
    Callers = {x1, x2}
    MaxCalls = 5
    Instances = {i1, i2}
    Writers = {x1, x2}
    Deployments <- Rollout
    LegacyRows <- OldRows
    SecretUnset = none
    MaxClock = 3
    MaxRows = 3
    Workers = {x1, x2}
    Clients = {v1}
    ScopeRefs = {w1}
    Requests <- ScopeSets
    ClientClaims <- SomeClaims
    Lives = {0, 5}
    TokenTTL = 4
    RenewBefore = 3
    TokenRequestTimeout = 2
    ClientNone = none
    MaxTime = 4
SPECIFICATION ComposedSpec
SYMMETRY Symmetry
CHECK_DEADLOCK FALSE
INVARIANTS
    LockExclusion
    OnlyRevokeTakesAway
    PresentsCurrentToken
    RenewsAsCompleted
    RowFollowsEndpoint
    UsersKeepConnections
    StoredStaysReadable
    ServedTokenUsable
PROPERTIES
    TableUnlessRaced
