CONSTANTS
  c1 = c1
  c2 = c2
  c3 = c3
  t1 = t1
  t2 = t2
  NoTask = NoTask
  Scheduler = Scheduler
  Calls = {c1, c2, c3}
  Tasks = {t1, t2}
  Aging = {}
  Ops = {"accept", "decline", "halt", "result", "start", "complete", "system_halt"}
  InitStatus = {"routed", "in_progress"}
  Scheduled = FALSE
  Overlap = TRUE
  RemoteStore = FALSE
  Faults = FALSE
  Crashes = FALSE
SPECIFICATION Spec
PROPERTY ImplementsFsm
INVARIANT HaltAccountsForAll
SYMMETRY Symmetry
CHECK_DEADLOCK FALSE
