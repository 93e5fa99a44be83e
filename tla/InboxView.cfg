SPECIFICATION FairSpec
CONSTANTS
  None = None
  Threads = {t1, t2}
  MaxMessages = 2
  MaxEvents = 3
INVARIANTS UnseenStaysUnread MovesAreAccounted
PROPERTIES DetailSettles
CHECK_DEADLOCK FALSE
