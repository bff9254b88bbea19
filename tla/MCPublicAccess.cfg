CONSTANTS
    Addresses <- FiveAddresses
    Threads = {t1, t2}
    Rate = 2
    Minute = 3
    MaxTracked = 2
    MaxStall = 1
    MaxTime = 4
    None = None
    Clients = {c1, c2}
    Tasks = {p1, p2}
    CorpusKeys = {subject}
    RefusedKeys = {malformed}
    DirectKeys = {health}
    ProbeKey = probe
    Unavailable = Unavailable
    BadGateway = BadGateway
    Gone = Gone
    Dead = Dead
    MaxWait = 1
    MaxDeaths = 1
SPECIFICATION PublicSpec
INVARIANTS
    Metered
PROPERTIES
    RefusedOnlyAtTheLimit
    EveryRequestEnds
