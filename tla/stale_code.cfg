SPECIFICATION Spec
CONSTANTS
  Pages = {1, 2}
  Extents = {{1}, {2}, {1, 2}}
  Ranges = {{1}, {2}, {1, 2}}
  Runners = FALSE
  MaxWrites = 2
INVARIANTS
  NeverStale
CHECK_DEADLOCK FALSE
