SPECIFICATION Spec
CONSTANTS
  Lo = 1
  Hi = 5
  Align = 2
  Sizes = {1, 2}
  MaxPages = 4
  Plain = TRUE
INVARIANTS
  PagesKept
CHECK_DEADLOCK FALSE
