CONSTANTS
  w1 = w1
  w2 = w2
  m1 = m1
  None = None
  PcWindows = {w1, w2}
  MobileWindows = {}
  SlowLogin = FALSE
  Events = {"drop", "failure", "logout"}
SPECIFICATION FairSpec
INVARIANTS OnlineForSomebody ToldIsReplaced
PROPERTIES ReplacedWindowLearns ClosedAgentGoesOffline
CHECK_DEADLOCK FALSE
