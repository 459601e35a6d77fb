SPECIFICATION Spec
CONSTANTS
  Procs = {child, h1}
  Child = child
  Limit = 1
INVARIANT OnlyOwnGroup
CHECK_DEADLOCK FALSE
