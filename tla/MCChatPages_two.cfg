CONSTANTS
  p1 = p1
  p2 = p2
  None = None
  Pages = {p1, p2}
  SlowServer = FALSE
  MaxSockets <- TwoAndOne
  MaxBreaks = 1
  MaxMsgs = 1
SPECIFICATION FairSpec
INVARIANTS TypeOK OneWayBack BannerHonest StrangerIsTold OpenIsWatched
PROPERTIES DeadLinkNoticed PageComesBack OneActiveLeft GoesRound
CHECK_DEADLOCK FALSE
