SPECIFICATION Spec
CONSTANTS
    a = a
    b = b
    c = c
    d = d
    NoJob = NoJob
    Jobs = {a, b, c, d}
    Clones = {b, c}
    Suicide = {d}
    Events = {a}
    EventOf <- SharedEvent
    PoolSizes = {1}
    QueueSize = 1
    Outcomes = {"return", "exit"}
    LateAdds = TRUE
    MaxStarts = 2
    MaxThreads = 2
INVARIANTS
    IInv
CHECK_DEADLOCK FALSE
