SPECIFICATION Spec
CONSTANTS
  Sessions = {s1}
  LastFrontier = 2
  Workflows = {w1, w2}
  Required = {w1, w2}
  Gate = w1
  DriftFiles = {"selector"}
  OwnerMarks = {"BLOCKED", "MALFORMED"}
  FreshCheckout = TRUE
  MaxIssues = 8
  FaultKinds = {"timeout", "expiry", "foreign", "ci", "mark"}
  MaxFaults = 1
PROPERTIES WorkUnitsEnd ImplementsPipeline
