SPECIFICATION Spec
CONSTANTS
    Names = {"f", "h", "a"}
    FolderPaths <- TheFolders
    FilePaths <- TheFiles
    Contents = {c1, c2}
    c1 = c1
    Threads = {a, b}
    Walk <- TheWalk
    Starts <- TheStarts
    MaxImages = 6
    MaxFolders = 8
    MaxVisits = 1
    MaxEvents = 2
    MaxInTurn = 4
SYMMETRY TwoThreads
INVARIANTS NoFileIsLost CachedIdIsRight OperationsKeepInStep ARoundHeals
