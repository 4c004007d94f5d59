SPECIFICATION FairSpec
CONSTANTS
    Keys <- MCKeys
    Priority <- MCPriority
    KeptKeys <- MCKept
    WaitedKeys <- MCWaited
    Pids = {p1, p2}
    NoPid = NoPid
    NumThreads = 2
    FaultPoints <- MCFaults
    DbMayFail = TRUE
    ThreadsOutliveMain = FALSE
    MaxTasks = 2
    MaxKills = 1
    MaxStops = 1
INVARIANTS OneRunnerPerKey RerunNeedsKill CancelledStaysGone WaiterToldTruth
PROPERTIES ImplementsLifecycle PostedIsFinished
CHECK_DEADLOCK FALSE
