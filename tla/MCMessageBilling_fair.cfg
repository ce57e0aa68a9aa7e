CONSTANTS
  text1 = text1
  text2 = text2
  file1 = file1
  r1 = r1
  r2 = r2
  Msgs = {text1, text2}
  Maskable = {text1, text2}
  Reveals = {r1, r2}
  Faults = {}
  MaxFails = 0
  MaxFlips = 2
  PageSize = 1
SPECIFICATION FairSpec
INVARIANTS TypeOK NoFreeContent ContentKept ChargeBound
PROPERTIES PaidContentIsShown KeepsLedger
CHECK_DEADLOCK FALSE
