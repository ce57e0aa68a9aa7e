CONSTANTS
  text1 = text1
  text2 = text2
  file1 = file1
  r1 = r1
  r2 = r2
  Msgs = {text1, file1}
  Maskable = {text1}
  Reveals = {r1}
  Faults = {}
  MaxFails = 0
  MaxFlips = 1
  PageSize = 1
SPECIFICATION Spec
INVARIANTS EncryptedIsHidden
CHECK_DEADLOCK FALSE
