SPECIFICATION Spec
CONSTANTS
    Workers = {w1, w2}
    Domain = d1
    NoDomain = NoDomain
    Tokens = {k1, k2}
    NoToken = NoToken
    Tasks = {t1, t2}
    NoTask = NoTask
    Nobody = Nobody
    MaxAttempts = 2
    MaxResults = 2
SYMMETRY Alike
INVARIANTS ProcessingTypeOK ConflictOnlyIfShared LockedRowStands
PROPERTIES ProbedAgainOnlyIfShared OlderOnlyByRetry SharedOnlyAfterLapse
