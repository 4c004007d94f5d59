SPECIFICATION FairSpec
CONSTANTS
    n1 = n1
    t1 = t1
    t2 = t2
    Names = {n1}
    NoName = NoName
    Absent = Absent
    NoList = NoList
    Threads = {t1, t2}
    NoThread = NoThread
    Ops <- AllOps
    Changes <- AllChanges
    Started = FALSE
    SlowLoad = TRUE
    MaxChanges = 1
    MaxFaults = 1
INVARIANTS CurrentCopyIsComplete
PROPERTIES EveryChangeArrives EveryCallEnds
