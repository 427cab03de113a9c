CONSTANTS
  c1 = c1
  c2 = c2
  c3 = c3
  t1 = t1
  t2 = t2
  NoTask = NoTask
  Scheduler = Scheduler
  Calls = {c1, c2}
  Tasks = {t1, t2}
  Aging = {}
  Ops = {"accept", "decline", "result", "start", "activate"}
  InitStatus = {"none", "routed"}
  Scheduled = TRUE
  Overlap = TRUE
  RemoteStore = TRUE
  Faults = FALSE
  Crashes = FALSE
SPECIFICATION FairSpec
INVARIANT ConsentBeforeWork
PROPERTY EveryTaskSettles
CHECK_DEADLOCK FALSE
