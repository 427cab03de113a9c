SPECIFICATION MCFairSpec
CONSTANTS
  a1 = a1
  a2 = a2
  Motions <- TwoMotions
  Archons <- TwoArchons
  Readings <- AyeNay
  Modes <- AllModes
  MaxAttempt = 2
  Retried <- VotesOfA2
  MaxRetries = 1
  MaxFaults = 1
CHECK_DEADLOCK FALSE
INVARIANTS
  VotesTypeOK
  DeterminedByBoth
  OneFinalMessage
  CountedOnce
  GateHolds
  ResultMatchesVotes
  ValidationKept
PROPERTIES
  VotesOnlyValidated
  ValidationAnswers
