SPECIFICATION Spec
CONSTANTS
  Cadence = 5
  Cron <- MCCron
  Lag <- MCLag
  Rolling = 2
  Stable = 2
  Review = 2
  JobTime <- MCJobTime
  SnapshotAge <- MCSnapshotAge
  Hours = 3
  MaxDelay = 5
  Budgets <- MCBudgets
INVARIANTS TypeOK  HealthyObserverHasJudged
PROPERTIES HealthySawNoDrift
CHECK_DEADLOCK FALSE
