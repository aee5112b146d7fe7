SPECIFICATION Spec
CONSTANTS
  Client = {a, b}
  Fds = {4, 5}
  None = None
  Wild = Wild
  USER_LIMIT = 2
  MaxInbox = 1
INVARIANT NeverOwnText
CHECK_DEADLOCK FALSE
