CONSTANTS
  u1 = u1
  u2 = u2
  None = None
  Users = {u1, u2}
  Keep = 1
  MaxMsgs = 2
  MaxCalls = 2
  MaxBinds = 2
  MaxTroubles = 1
SPECIFICATION Spec
SYMMETRY Symmetry
INVARIANTS TypeOK WindowShowsItsConversation OpenWindowHasNoUnread WaitingHonest WaitingComplete UnreadCounts  QuietDeskAgrees
CHECK_DEADLOCK FALSE
