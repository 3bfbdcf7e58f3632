SPECIFICATION Spec
CONSTANTS
  Modes = {"GENERIC", "HBE", "STATE"}
  LastHead = 1
  Files = {"resume"}
  FaultKinds = {"interrupt", "lost", "expiry", "rival", "foreign", "owner", "checks"}
  MaxFaults = 1
  MaxMain = 1
  MaxRecords = 2
INVARIANTS TypeOK OneLivingLease TransactionsHappenOnce CleanIsFenced EvidenceIsTrue
PROPERTIES WorkEnds
CHECK_DEADLOCK FALSE
