SPECIFICATION Spec
CONSTANTS
    p1 = p1
    t1 = t1
    t2 = t2
    Procs = {p1}
    Threads = {t1, t2}
    Home <- OneProcess
    NoThread = NoThread
    Ops <- FolderOps
    DbMayFail = TRUE
    MaxChanges = 1
    MaxFaults = 1
ACTION_CONSTRAINT PortfolioVersionByNeed
SYMMETRY ThreadSymmetry
INVARIANTS FolderEntriesAreFresh FolderAnswersAreFresh
