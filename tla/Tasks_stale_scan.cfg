CONSTANTS
  c1 = c1
  c2 = c2
  c3 = c3
  t1 = t1
  t2 = t2
  NoTask = NoTask
  Scheduler = Scheduler
  Calls = {c1, c2}
  Tasks = {t1, t2}
  Aging = {}
  Ops = {"decline"}
  InitStatus = {"accepted"}
  Scheduled = TRUE
  Overlap = TRUE
  RemoteStore = FALSE
  Faults = FALSE
  Crashes = FALSE
SPECIFICATION Spec
PROPERTY TerminalIsFinal
CHECK_DEADLOCK FALSE
