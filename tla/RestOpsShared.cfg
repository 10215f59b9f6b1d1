SPECIFICATION FairSpec
CONSTANTS
    Threads = {t1, t2}
    Ids = {v1}
    None = None
    Validate = TRUE
    Configured = FALSE
    Operations = {"create", "syncAction", "find", "getElemFromLink"}
    MaxCalls = 2
INVARIANTS
    CorrelationOwn
    VerdictTrue
    AllContentAlone
    OpsInv
PROPERTIES
    OperationsReturn
CHECK_DEADLOCK FALSE
