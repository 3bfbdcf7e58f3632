CONSTANTS
  m1 = m1
  m2 = m2
  d1 = d1
  d2 = d2
  d3 = d3
  None = None
  Modules <- MCOneModule
  Dogs <- MCTwoDogs
  Operations = {"Apply", "Direct", "RestartTunnel", "StopTunnel"}
  FaultKinds = {"crash", "pidfile", "load", "tunnel", "vps", "proxifier"}
  Recovery = TRUE
  StatusReader = TRUE
  MaxOps = 2
  MaxFaults = 1
SPECIFICATION FairSpec
INVARIANTS
  AtMostOneWatchdog
PROPERTIES
  ApplyIsInForce
  OperationsEnd
  TunnelRestored
  DivergenceHeals
CHECK_DEADLOCK FALSE
