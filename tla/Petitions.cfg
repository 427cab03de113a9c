SPECIFICATION MCFairSpec
CONSTANTS
  p1 = p1
  j2 = j2
  r1 = r1
  r2 = r2
  s1 = s1
  s2 = s2
  w1 = w1
  w2 = w2
  NoJob = NoJob
  Jobs <- MCJobs
  Petitions <- MCPetitionSet
  Requests <- MCRequests
  Signers <- MCSigners
  Workers <- MCWorkers
  MaxAttempts = 2
  BatchSize = 2
  Threshold = 2
  MaxFaults = 1
CHECK_DEADLOCK FALSE
INVARIANTS
  TypeOK
  SingleFate
  FateWitnessed
  OneAcknowledgment
  ThresholdNotMissed
  DeadlineKept
  OneOutcome
  ExpiryAcknowledges
  OneExecution
  RunsBounded
  HeldByItsWorker
PROPERTIES
  FateFinal
  DeadlineAnswered
