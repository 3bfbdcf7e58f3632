SPECIFICATION Spec
CONSTANTS
  Sessions = {s1,s2}
  LastFrontier = 1
  Workflows = {w1, w2}
  Required = {w1, w2}
  Gate = w1
  DriftFiles = {}
  OwnerMarks = {"BLOCKED", "MALFORMED"}
  FreshCheckout = TRUE
  MaxIssues = 8
  FaultKinds = {"timeout", "expiry", "foreign", "ci", "mark"}
  MaxFaults = 1
INVARIANTS TypeOK MergedIsTested OneWriterPerFrontier
PROPERTIES KeepsPipelineOrder
SYMMETRY Symmetry
