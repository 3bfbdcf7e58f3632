CONSTANTS
  m1 = m1
  m2 = m2
  d1 = d1
  d2 = d2
  d3 = d3
  None = None
  Modules <- MCOneModule
  Dogs <- MCTwoDogs
  Operations = {"Apply", "Direct", "RestartTunnel"}
  FaultKinds = {"load", "tunnel", "vps", "proxifier"}
  Recovery = FALSE
  StatusReader = FALSE
  MaxOps = 3
  MaxFaults = 2
SPECIFICATION Spec
SYMMETRY SymDogs
INVARIANTS
  TypeOK
  OverrideIsLoaded
  DivergenceIsVisible
PROPERTIES
  OverrideStands
  ApplyIsWatched
CHECK_DEADLOCK FALSE
