SPECIFICATION Spec
CONSTANTS
    t1 = t1
    t2 = t2
    mid = mid
    tile = tile
    Threads = {t1, t2}
    Variants = {mid, tile}
    Tiles = {tile}
    BaseOf <- TileBases
    Suits <- SuitsAll
    Plain = mid
    NoVariant = NoVariant
    RaiseTooBusy = TRUE
    SlowGeneration = FALSE
    MayFail = TRUE
    MayBeTooLarge = FALSE
    MaxRows = 2
    MaxChanges = 1
    MaxKills = 1
SYMMETRY ThreadSymmetry
INVARIANTS StaleNeedsARace LocksAreReleased
