CONSTANTS
  p1 = p1
  p2 = p2
  p3 = p3
  p4 = p4
  None = None
  Puttys <- MCPuttys
  Operations = {"Apply", "RestartTunnel", "StopTunnel"}
  FaultKinds = {"drop", "refused", "slow", "start", "busy"}
  MaxOps = 4
  MaxFaults = 2
SPECIFICATION FairSpec
INVARIANTS
  TypeOK
  PuttysAreAccountedFor
  StopIsFinal
PROPERTIES
  OperationsEnd
  TunnelComesBack
CHECK_DEADLOCK FALSE
