SPECIFICATION Spec
CONSTANTS
  Fds = {f1, f2}
  Thread = {w1, w2}
  NoFd = NoFd
  MaxInbox = 1
INVARIANT OneThreadEach
