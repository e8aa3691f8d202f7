SPECIFICATION FairSpec
CONSTANTS
    Schedulers = {s1, s2}
    Domains = {d1, d2}
    Concurrency = 2
    MaxReopens = 1
INVARIANTS SchedulerTypeOK DuplicatesBounded
PROPERTIES OldestIsServedUnlessStranded
