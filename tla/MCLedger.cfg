CONSTANTS
    A = A
    J = J
    K = K
    L = L
    Setups <- MCSetups
    Curators = {A, K}
    MaxHops = 2
SPECIFICATION Spec
INVARIANTS OrderIsIrrelevant AuthorityIsSolved EdgesKeepTheirPins VerdictIsExact
PROPERTIES AdmissionIsFinal EffectsStayInScope
