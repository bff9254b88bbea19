CONSTANTS
    Requests = {r1, r2, r3}
    Stores = {s1, s2}
    Events = {e1, e2}
    BadInputs = {b1}
    Signers = {s1}
    Admission <- MCAdmission
    None = None
    e1 = e1
    e2 = e2
    r1 = r1
    r2 = r2
    r3 = r3
SPECIFICATION MCSpec
INVARIANTS SnapshotIsCurrent TamperedNeverServed OutcomeOfOwnCommit ReceiptOfFirstRetention RestoreComplete
PROPERTIES EveryRequestEnds
