SPECIFICATION FairSpec
CONSTANTS
    Threads = {t1, t2}
    Users = {u1}
    Elements = {vms}
    Proxies = {p1}
    Sessions = {s1, s2, s3, s4}
    None = None
    Overlap = FALSE
    Faults = TRUE
PROPERTIES
    CallsReturn
CHECK_DEADLOCK FALSE
