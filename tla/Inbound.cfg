\* Inbound claims, OAuth callbacks and embedded sessions.
CONSTANTS
    q1 = q1
    q2 = q2
    k1 = k1
    k2 = k2
    p1 = p1
    p2 = p2
    r1 = r1
    r2 = r2
    none = none
    Keys = {k1, k2}
    Requests = {q1, q2}
    KeyTTL = 2
    None = None
    MaxTime = 4
    MaxClaims = 3
    States = {k1, k2}
    Callbacks = {q1, q2}
    OAuthScopes = {p1, p2}
    Redirects = {r1, r2}
    OAuthNone = OAuthNone
    RequireRedirect = FALSE
    OAuthTTL = 1
    MaxOAuthEntries = 1
    MaxConnects = 2
    MaxOAuthClock = 2
    EmbeddedRequests <- AllRequests
    EmbeddedCallers = {q1, q2}
    EmbeddedReplies <- AllReplies
    ConfiguredShop <- ShopA
    Skew = 1
    MaxIssuedAtAge = 2
    ReplayTTL = 4
    MaxEmbeddedEntries = 1
    EmbeddedUnset = none
    MaxEmbeddedClock = 6
    MaxRestarts = 1
SPECIFICATION ComposedSpec
SYMMETRY Symmetry
CHECK_DEADLOCK FALSE
INVARIANTS
    LeaseExclusion
    IdempotencyWindow
    RecordsAccounted
PROPERTIES
    TokenPassesOnce
