CONSTANTS
    Size <- UnitSize
    MaxBytes = 1
    Freshness = 1
    None = None
    Clients = {c1, c2}
    Tasks = {p1, p2, p3}
    CorpusKeys = {subject}
    ProseKeys = {prose}
    RefusedKeys = {}
    DirectKeys = {}
    ProbeKey = probe
    Unavailable = Failed
    BadGateway = Failed
    Gone = Gone
    Dead = Dead
    MaxTime = 2
    MaxAdmits = 1
    MaxDeaths = 1
SPECIFICATION Spec
SYMMETRY Permuted
INVARIANTS
    AdmitIsVisible
    SharedStateHolds
    OutageIsVisible
