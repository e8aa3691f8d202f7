SPECIFICATION FairSpec
CONSTANTS
    p1 = p1
    p2 = p2
    p3 = p3
    r1 = r1
    r2 = r2
    r3 = r3
    r4 = r4
    k1 = k1
    d1 = d1
    d2 = d2
    d3 = d3
    Requests = {r1, r2, r3, r4}
    Keys = {k1}
    NoKey = NoKey
    KeyOf <- OfKey1
    Domains = {d1, d2, d3}
    ValidOf <- Valid
    InvalidOf <- Invalid
    HashOf <- Hash
    Nobody = Nobody
INVARIANTS SubmissionTypeOK OneJobPerKey AnsweredJobIsStored
PROPERTIES StoredJobIsActive EveryRequestAnswered
