SPECIFICATION PubSpec
CONSTANTS
  w1 = w1 c1 = c1 r1 = r1 p1 = p1 p2 = p2
  Writers = {w1}
  Clients = {c1}
  Rebuilders = {r1}
  Publishers = {p1, p2}
  MaxChain = 2
  Event <- OrphanEvent
  Worlds <- OrphanWorld
  Payload <- MCPayload
  Briefs <- MCBriefs
  Candidates <- MCCandidates
INVARIANT RebuildIsLive
CHECK_DEADLOCK FALSE
