\* Two crashes amid a switch or an apply; three rates with one sample and two
\* reports in flight; three indexings with two places in each queue.
SPECIFICATION ConvergenceSpec
CONSTANTS
    Kernels = {"mihomo", "sing_box"}
    CoreFaults = {"poll"}
    Wishes = {"switch", "apply"}
    MaxWishes = 1
    MaxLost = 1
    MaxExits = 2
    InitialBackoff = 1
    MaxBackoff = 4
    StableTicks = 2
    Rates = {0, 1, 2}
    SampleQueue = 1
    ResultQueue = 2
    MaxRestarts = 2
    MaxChanges = 2
    PipeEventCap = 2
    PipeMailboxCap = 2
    MaxGeneration = 3
PROPERTIES
    SelfHeals
    SettledReported
    RenderConverges
CHECK_DEADLOCK FALSE
