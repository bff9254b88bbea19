CONSTANTS
    A = A
    J = J
    K = K
    L = L
    r1 = r1
    r2 = r2
    Setups <- SubmitSetups
    Curators = {A}
    MaxHops = 1
    Runs = {r1, r2}
SPECIFICATION SubmitSpec
INVARIANTS SubmittedIsSound RerunReadsBack
PROPERTIES FirstReceiptStays
SYMMETRY PermutedRuns
