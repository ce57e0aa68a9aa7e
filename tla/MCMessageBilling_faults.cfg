CONSTANTS
  text1 = text1
  text2 = text2
  file1 = file1
  r1 = r1
  r2 = r2
  Msgs = {text1, text2}
  Maskable = {text1, text2}
  Reveals = {r1, r2}
  Faults = {"redis", "db", "crash"}
  MaxFails = 1
  MaxFlips = 1
  PageSize = 2
SPECIFICATION Spec
SYMMETRY Symmetry
INVARIANTS ChargeBound
CHECK_DEADLOCK FALSE
