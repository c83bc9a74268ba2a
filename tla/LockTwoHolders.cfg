SPECIFICATION LockSpec
CONSTANTS
    Procs = {"a", "b", "c"}
    RetryLimit = 2
    Killable = {"a"}
INVARIANT OneHolder
CHECK_DEADLOCK FALSE
