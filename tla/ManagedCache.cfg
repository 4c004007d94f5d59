SPECIFICATION Spec
CONSTANTS
    triple = triple
    double = double
    huge = huge
    Threads = {t1, t2, t3}
    Objects = {triple, double, huge}
    NoObject = NoObject
    SlotsOf <- SizesOf
    MaxObjectSlots = 3
    Calls <- AllCalls
    MaxFaults = 1
CONSTRAINT NoneHasAnswer
SYMMETRY ThreadSymmetry
INVARIANTS GetReturnsOneObject OrphansNeedARace
