CONSTANTS
  Processes = {p, q}
  Nobody = Nobody
  Stranger = Stranger
  MaxBoots = 2
  MaxQueue = 1
  DaemonFaults = {"build", "stop", "restore", "task", "kill"}
SPECIFICATION FairProcessSpec
INVARIANT CleanExitRestores
CHECK_DEADLOCK FALSE
