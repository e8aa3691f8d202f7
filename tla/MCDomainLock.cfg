SPECIFICATION Spec
CONSTANTS
    w1 = w1
    w2 = w2
    w3 = w3
    d1 = d1
    d2 = d2
    Workers = {w1, w2, w3}
    Domains = {d1, d2}
    NoDomain = NoDomain
    Tokens = {k1, k2, k3, k4, k5, k6}
    NoToken = NoToken
INVARIANTS LockTypeOK HeldUntilLapsed ExclusiveUntilLapsed
PROPERTY ImplementsMutex
