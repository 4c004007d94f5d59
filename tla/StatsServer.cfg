SPECIFICATION StatsSpec
CONSTANTS
    i1 = i1
    i2 = i2
    Images = {i1, i2}
    NoImage = NoImage
    Minute = 1
    Frequency = 2
    MaxEvents <- ThreeEvents
    MaxMidway = 1
    MaxFaults = 2
    MaxPurges = 2
INVARIANTS CountedOnce ImageNotAheadOfSystem NoFalseSpike LossNeedsACause
CHECK_DEADLOCK FALSE
