SPECIFICATION Spec
CONSTANTS
    m1 = m1
    i1 = i1
    i2 = i2
    Hosts = 2
    Macs = {m1}
    Ips = {i1, i2}
    None = None
    Timeout = 1
    Step = 1
    Attempts = 1
    Asked <- AskedNone
    Replies <- NakAndAck
    MaxChunk = 1
    MaxPackets = 2
    Cuts = {FALSE}
    MaxDrops = 0
INVARIANTS LeaseTrue
