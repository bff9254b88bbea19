SPECIFICATION Spec
CONSTANTS
    p1 = p1
    p2 = p2
    Procs = {p1, p2}
    Users = {1, 2}
    Ticks = {1}
    BlockHeights = {5, 6}
    MaxCommands = 4
INVARIANTS AnchorsAreSound AuditorIsConvinced
PROPERTIES EvidenceIsKept
SYMMETRY Symmetry
CHECK_DEADLOCK FALSE
