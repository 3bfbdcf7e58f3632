CONSTANTS
  r1 = r1
  r2 = r2
  r3 = r3
  l1 = l1
  l2 = l2
  Runs <- MCTwoRuns
  Issues <- MCIssues
  DomainOf <- MCOneDomain
  LeaseIds = {l1, l2}
  LeaseSeconds = 1
  RefPolls = 2
  Serialised = TRUE
  MaxSkew = 1
  MaxLag = 1
  TokenSplit = FALSE
  MaxMain = 0
  MaxClock = 1
  MaxForeign = 1
SPECIFICATION FairSpec
INVARIANTS
  PassIsDurable
PROPERTY RunsEnd
CHECK_DEADLOCK FALSE
