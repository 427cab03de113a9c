CONSTANTS
  c1 = c1
  c2 = c2
  c3 = c3
  t1 = t1
  t2 = t2
  NoTask = NoTask
  Scheduler = Scheduler
  Calls = {c1, c2}
  Tasks = {t1, t2}
  Aging = {}
  Ops = {"accept", "decline", "halt", "result", "problem", "start", "complete", "aggregate", "system_halt", "release", "activate", "route"}
  InitStatus = {"none", "routed", "in_progress", "reported"}
  Scheduled = TRUE
  Overlap = FALSE
  RemoteStore = TRUE
  Faults = TRUE
  Crashes = FALSE
SPECIFICATION Spec
PROPERTY ImplementsFsm
PROPERTY TimeoutsAreDue
INVARIANT HaltAccountsForAll
SYMMETRY Symmetry
CHECK_DEADLOCK FALSE
