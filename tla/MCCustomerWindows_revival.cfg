CONSTANTS
  w1 = w1
  w2 = w2
  m1 = m1
  None = None
  PcWindows = {w1}
  MobileWindows = {}
  SlowLogin = FALSE
  Events = {"drop", "logout"}
SPECIFICATION Spec
SYMMETRY Symmetry
PROPERTIES OnlyLoginBringsBack
CHECK_DEADLOCK FALSE
