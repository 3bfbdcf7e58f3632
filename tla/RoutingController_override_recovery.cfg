CONSTANTS
  m1 = m1
  m2 = m2
  d1 = d1
  d2 = d2
  d3 = d3
  None = None
  Modules <- MCOneModule
  Dogs <- MCTwoDogs
  Operations = {"Apply", "Direct"}
  FaultKinds = {}
  Recovery = TRUE
  StatusReader = FALSE
  MaxOps = 3
  MaxFaults = 0
SPECIFICATION Spec
PROPERTIES
  OverrideStands
CHECK_DEADLOCK FALSE
