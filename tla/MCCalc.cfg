SPECIFICATION Spec
CONSTANTS
  Requests <- MCRequests
  KMax = 3
  Successor <- MCSuccessor
  MaxLimit = 2
INVARIANTS ProofsAreExact RulingsAreExact EntriesAreExact EncodingsAreCanonical VerdictIsTrue EntityHoldsTogether MigrationsAreSound
CHECK_DEADLOCK FALSE
