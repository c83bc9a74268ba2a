\* Two kernels and three threads that drive them, with the exit monitor: two
\* commands, a kernel that dies, every failing call and a lost process each.
SPECIFICATION Spec
CONSTANTS
  Kernels = {"mihomo", "singbox"}
  CoreFaults = {"start", "reap", "poll"}
  Wishes = {"switch", "stop", "apply"}
  MaxWishes = 2
  MaxLost = 1
  MaxExits = 1
  InitialBackoff = 1
  MaxBackoff = 2
  StableTicks = 2
INVARIANT KernelsOwned
PROPERTY RestartNeverResets
CHECK_DEADLOCK FALSE
