SPECIFICATION FairSpec
CONSTANTS
    m1 = m1
    i1 = i1
    i2 = i2
    Hosts = 1
    Macs = {m1}
    Ips = {i1, i2}
    None = None
    Timeout = 1
    Step = 1
    Attempts = 1
    Asked <- AskedSpelling
    Replies <- NakAndTwoLeases
    MaxChunk = 2
    MaxPackets = 2
    Cuts = {TRUE, FALSE}
    MaxDrops = 1
INVARIANTS
    LeasesInv
    LeaseTrue
    LatestLease
    NoFalseMiss
PROPERTIES
    StopEnds
    LeaseCaught
