SPECIFICATION Spec
CONSTANTS
    c1 = c1
    c2 = c2
    s1 = s1
    s2 = s2
    Clients <- MCClients
    Scopes <- MCScopes
    Ttls <- MCTtls
    DefaultTTL = 1
    MaxTTL = 2
    MaxSize = 2
    MaxIssue = 3
    MaxTime = 3
SYMMETRY Symm
INVARIANTS
    SingleUse
    ConsumedWasRedeemed
    ReplayRemembered
    StoreBounded
CHECK_DEADLOCK FALSE
