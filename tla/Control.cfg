CONSTANTS
  Callers = {"first", "second"}
  Scenarios <- Pairs
  SessionTtl = 1
  MaxTick = 1
  MaxAttempts = 2
  MaxPolls = 1
  Processes = {p, q}
  Nobody = Nobody
  Stranger = Stranger
  MaxBoots = 2
  MaxQueue = 1
  DaemonFaults = {"build", "stop", "restore", "task", "kill"}
SPECIFICATION ControlPlaneSpec
INVARIANTS
  CallersToldTruth
  ProcessInv
  ShutdownRestores
PROPERTIES
  ControlEnds
CHECK_DEADLOCK FALSE
