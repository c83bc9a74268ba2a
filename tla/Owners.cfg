\* Two daemons and their kills; any boot, then four commands of either actor and
\* one dropped report; both kernels with every file fault, a kernel that refuses,
\* a switch or stop at any step of an apply, and a kill; three boots of each side
\* effect with every fault.
SPECIFICATION OwnersSpec
CONSTANTS
  Procs = {"a", "b"}
  RetryLimit = 2
  Killable = {"a", "b"}
  Modes = {"rule", "global"}
  Rule = "rule"
  MaxCommands = 4
  MaxCancels = 1
  Kernels = {"mihomo", "singbox"}
  Reloads = {"mihomo"}
  Bodies = {"boot", "a", "b"}
  Boot = "boot"
  MaxHistory = 2
  FileFaults = {"early", "sync"}
  StartFails = TRUE
  MaxApplies = 3
  MaxWishes = 1
  MaxKills = 1
  Faults = {"persist", "clear", "load", "capture", "apply", "restore", "partial"}
  MaxBoots = 3
  TunFaults = {"persist", "clear", "load", "engage", "cleanup", "release"}
  MaxTunBoots = 3
INVARIANTS
  LockInv
  IntentInv
  ConfigFilesInv
  EffectsInv
PROPERTIES
  PromisesKept
CHECK_DEADLOCK FALSE
