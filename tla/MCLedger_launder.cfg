CONSTANTS
    A = A
    J = J
    K = K
    L = L
    Setups <- Relinquishing
    Curators = {A}
    MaxHops = 2
SPECIFICATION Spec
INVARIANTS
    NoLaundering
