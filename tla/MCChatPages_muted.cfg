CONSTANTS
  p1 = p1
  p2 = p2
  None = None
  Pages = {p1, p2}
  SlowServer = TRUE
  MaxSockets <- TwoEach
  MaxBreaks = 1
  MaxMsgs = 1
SPECIFICATION Spec
SYMMETRY Symmetry
INVARIANTS IgnoringPageShowsBanner
CHECK_DEADLOCK FALSE
