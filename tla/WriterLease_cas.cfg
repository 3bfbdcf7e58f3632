CONSTANTS
  r1 = r1
  r2 = r2
  r3 = r3
  l1 = l1
  l2 = l2
  Runs <- MCTwoRuns
  Issues <- MCIssues
  DomainOf <- MCOneDomain
  LeaseIds = {l1, l2}
  LeaseSeconds = 1
  RefPolls = 2
  Serialised = FALSE
  MaxSkew = 0
  MaxLag = 0
  TokenSplit = FALSE
  MaxMain = 1
  MaxClock = 1
  MaxForeign = 1
SPECIFICATION Spec
SYMMETRY SymTwoRuns
INVARIANTS
  TypeOK
  LeasesDoNotOverlap
  NoLostUpdate
  LeaseGrantedOnce
PROPERTIES
  HistoryStays
  ImplementsLeaseRegistry
CHECK_DEADLOCK FALSE
