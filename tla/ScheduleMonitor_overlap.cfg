SPECIFICATION Spec
CONSTANTS
  Cadence = 5
  Cron <- MCCron
  Lag <- MCLag
  Rolling = 2
  Stable = 2
  Review = 2
  JobTime <- MCJobTime
  SnapshotAge <- MCSnapshotAge
  Hours = 2
  MaxDelay = 5
  Budgets <- MCBudgets
INVARIANTS OverlapIsEvaluated
CHECK_DEADLOCK FALSE
