\* Every limit at its smallest, and ids reused.
CONSTANTS
  o1 = o1
  o2 = o2
  setTun = setTun
  reload = reload
  platform = platform
  config = config
  AutoReload = AutoReload
  Ops <- TwoOps
  Commands <- TwoCommands
  RunningCancellable <- TunOnly
  Clock <- OneReading
  TotalCapacity = 2
  TerminalCapacity = 1
  MaxIncarnations = 2
  QueueCapacity = 1
  Owners <- TwoOwners
  OwnerOf <- Routes
  ReloadCommand = reload
  MailboxCapacity = 1
  ResultCapacity = 1
  Observations = 1
SPECIFICATION RuntimeSpec
SYMMETRY Symmetric
INVARIANTS
  RuntimeInv
PROPERTIES
  NoSecondExecution
  KeepsAdmission
