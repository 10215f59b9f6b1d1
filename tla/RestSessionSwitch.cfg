SPECIFICATION Spec
CONSTANTS
    Threads = {t1, t2}
    Users = {u1, u2}
    Elements = {vms}
    Proxies = {p1, p2}
    Sessions = {s1, s2, s3, s4, s5}
    None = None
    Overlap = TRUE
    Faults = FALSE
INVARIANTS
    RightUser
CHECK_DEADLOCK FALSE
