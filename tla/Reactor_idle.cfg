SPECIFICATION FairSpec
CONSTANTS
  Fds = {f1, f2}
  None = None
  MAX_EVENTS = 2
  MAX_BUF_LEN = 2
  IDLE = 2
  MaxInbox = 1
PROPERTY IdleIsClosed
