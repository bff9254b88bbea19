SPECIFICATION Spec
CONSTANTS
  r1 = r1  r2 = r2  r3 = r3
  old = old  genesis = genesis  edge = edge  alien = alien  wrong = wrong  other = other
  text = text  Entry = Entry  Alien = Alien  Wrong = Wrong  None = None
  Runs = {r1, r2}
  Packets = {Entry}
  EventsOf <- MCEventsOf
  BodyOf <- MCBodyOf
  Past <- MCPast
  Refused = {wrong}
  Trusted = {Entry}
  Handmade = {}
  Others = {other}
  Retained = {old}
  MaxBuilds = 2
INVARIANTS StaleMeansChanged
