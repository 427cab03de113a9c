CONSTANTS
  c1 = c1
  c2 = c2
  c3 = c3
  t1 = t1
  t2 = t2
  NoTask = NoTask
  Scheduler = Scheduler
  Calls = {c1, c2}
  Tasks = {t1, t2}
  Aging = {}
  Ops = {"activate", "system_halt"}
  InitStatus = {"none"}
  Scheduled = FALSE
  Overlap = TRUE
  RemoteStore = FALSE
  Faults = FALSE
  Crashes = FALSE
SPECIFICATION Spec
PROPERTY HaltStopsEveryTask
CHECK_DEADLOCK FALSE
