CONSTANTS
  c1 = c1
  c2 = c2
  c3 = c3
  Calls = {c1, c2, c3}
  Aging = {c1, c2, c3}
  Faults = TRUE
  Crashes = TRUE
SPECIFICATION FairSpec
INVARIANT TypeOK
INVARIANT PendingIsUnresolved
INVARIANT UnresolvedIsTracked
INVARIANT VerdictsAgree
PROPERTY TrackedIsResolved
CHECK_DEADLOCK FALSE
