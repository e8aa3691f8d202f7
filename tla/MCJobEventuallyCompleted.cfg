SPECIFICATION FairSpec
CONSTANTS
    i1 = i1
    i2 = i2
    w1 = w1
    w2 = w2
    t1 = t1
    t2 = t2
    j1 = j1
    d1 = d1
    Instances = {i1}
    Workers = {w1}
    Host <- OneHost
    Tasks = {t1}
    NoTask = NoTask
    Jobs = {j1}
    NoJob = NoJob
    JobOf <- OneJob
    Domains = {d1}
    DomainOf <- OneDomain
    QueueCapacity = 1
    MaxAttempts = 1
    MaxCrashes = 0
PROPERTY JobEventuallyCompleted
