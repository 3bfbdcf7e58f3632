SPECIFICATION Spec
CONSTANTS
  Sessions = {s1}
  LastFrontier = 2
  Workflows = {w1}
  Required = {w1}
  Gate = w1
  DriftFiles = {}
  OwnerMarks = {}
  FreshCheckout = FALSE
  MaxIssues = 4
  FaultKinds = {}
  MaxFaults = 0
INVARIANTS CompletedIsNotReplayed
