SPECIFICATION FairSpec
CONSTANTS
  Procs = {child, h1, h2}
  Child = child
  Limit = 1
INVARIANTS OutputIsComplete NothingIsLeft
PROPERTIES Returns ReadersEnd
\* The call returns and its processes end.
CHECK_DEADLOCK FALSE
