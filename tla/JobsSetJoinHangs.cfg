SPECIFICATION FairSpec
CONSTANTS
    a = a
    b = b
    c = c
    d = d
    NoJob = NoJob
    Jobs = {a, b}
    Clones = {}
    Suicide = {}
    Events = {a, b}
    EventOf <- OwnEvents
    PoolSizes = {0}
    QueueSize = 0
    Outcomes = {"return"}
    LateAdds = FALSE
    MaxStarts = 1
    MaxThreads = 2
PROPERTIES
    JoinReturns
CHECK_DEADLOCK FALSE
