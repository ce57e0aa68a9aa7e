CONSTANTS
  w1 = w1
  w2 = w2
  m1 = m1
  None = None
  PcWindows = {w1}
  MobileWindows = {m1}
  SlowLogin = FALSE
  Events = {}
SPECIFICATION Spec
SYMMETRY Symmetry
INVARIANTS ToldIsNotCurrent
CHECK_DEADLOCK FALSE
