CONSTANTS
  f1 = f1
  f2 = f2
  w1 = w1
  Files = {f1, f2}
  Users = {w1}
  None = None
  NoFile = NoFile
  NoMail = NoMail
  Threads = 1
  MaxGens = 2
  MaxMoves = 2
  Uploaders <- MCUploaders
SPECIFICATION FairSpec
INVARIANTS TypeOK AtMostThreads NoFileForgotten UndisturbedUploadArrives
PROPERTIES ImplementsTransfers EveryFileSettles
CHECK_DEADLOCK FALSE
