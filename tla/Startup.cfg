SPECIFICATION StartupSpec
CONSTANTS
  Procs = {p1, p2, p3}
  MaxStarts = 4
  MaxMishaps = 1
SYMMETRY ProcSymmetry
INVARIANTS
  FewInside
  RowsAreOwed
  ImagesAreListed
CHECK_DEADLOCK FALSE
