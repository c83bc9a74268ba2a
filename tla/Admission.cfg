SPECIFICATION AdmissionSpec
SYMMETRY Symmetric
CONSTANTS
  Ops = {o1, o2, o3}
  Commands = {setTun, reload}
  RunningCancellable = {setTun}
  Clock = {0, 1}
  TotalCapacity = 2
  TerminalCapacity = 1
  MaxIncarnations = 2
  QueueCapacity = 1
INVARIANTS
  AdmissionInv
PROPERTIES
  ActiveNeverEvicted
  TokenIsOneWay
  TimeNeverMovesBack
  KeepsLifecycle
CHECK_DEADLOCK FALSE
