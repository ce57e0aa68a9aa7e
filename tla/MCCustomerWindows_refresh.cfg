CONSTANTS
  w1 = w1
  w2 = w2
  m1 = m1
  None = None
  PcWindows = {w1, w2}
  MobileWindows = {}
  SlowLogin = FALSE
  Events = {}
SPECIFICATION Spec
SYMMETRY Symmetry
PROPERTIES RefreshSparesConnection
CHECK_DEADLOCK FALSE
