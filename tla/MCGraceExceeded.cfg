SPECIFICATION FairSpec
CONSTANTS
    Tasks = {t1, t2}
    NoTask = NoTask
    WorkerCount = 2
    Capacity = 2
PROPERTY NoTaskBegunAfterGrace
