CONSTANTS
  c1 = c1
  c2 = c2
  c3 = c3
  Calls = {c1}
  Aging = {c1}
  Faults = TRUE
  Crashes = TRUE
SPECIFICATION FairSpec
PROPERTY EveryIntentResolved
CHECK_DEADLOCK FALSE
