SPECIFICATION FairSpec
CONSTANTS
    a = a
    b = b
    c = c
    d = d
    NoJob = NoJob
    Jobs = {a, b}
    Clones = {}
    Suicide = {}
    Events = {a, b}
    EventOf <- OwnEvents
    PoolSizes = {0, 1}
    QueueSize = 0
    Outcomes = {"return", "exception", "exit"}
    LateAdds = FALSE
    MaxStarts = 1
    MaxThreads = 2
INVARIANTS
    IInv
    JoinSound
    CountExact
    AllDoneSound
    NoLostCompletion
PROPERTIES
    ImplementsJobPool
    EveryJobFinishes
    QueueJoinReturns
    WaitAllReturns
CHECK_DEADLOCK FALSE
