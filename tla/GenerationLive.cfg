SPECIFICATION LiveSpec
CONSTANTS
    t1 = t1
    t2 = t2
    mid = mid
    tile = tile
    Threads = {t1, t2}
    Variants = {mid, tile}
    Tiles = {tile}
    BaseOf <- TileBases
    Suits <- SuitsAll
    Plain = mid
    NoVariant = NoVariant
    RaiseTooBusy = FALSE
    SlowGeneration = TRUE
    MayFail = FALSE
    MayBeTooLarge = TRUE
    MaxRows = 2
    MaxChanges = 0
    MaxKills = 0
PROPERTIES EveryRequestEnds
