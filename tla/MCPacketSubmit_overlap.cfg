SPECIFICATION Spec
CONSTANTS
    r1 = r1
    r2 = r2
    old = old
    genesis = genesis
    edge = edge
    alien = alien
    wrong = wrong
    other = other
    text = text
    Entry = Entry
    Alien = Alien
    Wrong = Wrong
    None = None
    Runs = {r1, r2}
    Packets = {Entry, Alien, Wrong}
    EventsOf <- MCEventsOf
    BodyOf <- MCBodyOf
    Past <- MCPast
    Refused = {wrong}
    Trusted = {Entry, Wrong}
    Handmade = {Wrong}
    Others = {other}
    Retained = {old}
    MaxBuilds = 3
INVARIANTS WrittenInOrder OnlyApproved ReportIsTrue
SYMMETRY Permuted
