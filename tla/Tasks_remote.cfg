CONSTANTS
  c1 = c1
  c2 = c2
  c3 = c3
  t1 = t1
  t2 = t2
  NoTask = NoTask
  Scheduler = Scheduler
  Calls = {c1, c2}
  Tasks = {t1}
  Aging = {c1}
  Ops = {"accept", "decline", "result", "start", "system_halt", "release", "activate", "route", "complete"}
  InitStatus = {"none", "routed", "in_progress"}
  Scheduled = TRUE
  Overlap = TRUE
  RemoteStore = TRUE
  Faults = TRUE
  Crashes = TRUE
SPECIFICATION Spec
INVARIANT TypeOK
INVARIANT ConsentBeforeWork
INVARIANT SettledWasReported
INVARIANT CommitMeansRecorded
PROPERTY HaltRespectsConsent
PROPERTY ImplementsTwoPhase
CHECK_DEADLOCK FALSE
