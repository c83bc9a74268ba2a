\* Two operations over a result mailbox of one, nothing evicted; one watcher, two
\* daemon lifetimes and a replay window of two events; two sweeps of two nodes by
\* two workers with a change of the core; two spawned kernels under two daemons.
SPECIFICATION ProgressSpec
CONSTANTS
  o1 = o1
  o2 = o2
  setTun = setTun
  reload = reload
  platform = platform
  config = config
  AutoReload = AutoReload
  Ops <- TwoOps
  Commands <- TwoCommands
  RunningCancellable <- TunOnly
  Clock <- OneReading
  TotalCapacity = 2
  TerminalCapacity = 2
  MaxIncarnations = 1
  QueueCapacity = 2
  Owners <- TwoOwners
  OwnerOf <- Routes
  ReloadCommand = reload
  MailboxCapacity = 1
  ResultCapacity = 1
  Observations = 1
  Slices = {desired, applied}
  Clients = {watcher}
  ReplayCapacity = 2
  LiveCapacity = 1
  MaxSequence = 4
  MaxEpoch = 2
  SweepNodes <- MCSweepNodes
  Workers = {1, 2}
  Medians = {1, 2}
  MaxPresses = 2
  MaxChanges = 1
  MaxSpawns = 2
  MaxDaemons = 2
INVARIANTS
  RuntimeOwned
  WatchInv
  SweepTellsTruth
  KernelsAccounted
PROPERTIES
  SweepsTakeTurns
  RequestsEnd
CHECK_DEADLOCK FALSE
