SPECIFICATION Spec
CONSTANTS
  a1 = a1
  a2 = a2
  x = x
  j0 = j0
  none = none
  Asks <- MCAsks
  Plans <- MCPlans
  RuleJobs = {j0}
  Keys <- MCKeys
  NoJob = none
  NoSerial = none
  Retries = 1
  Pool = 1
INVARIANTS
  RefusedRunsNothing
  AuditTellsOutcome
  RightPhone
PROPERTIES
  EveryRequestAnswered
CHECK_DEADLOCK FALSE
