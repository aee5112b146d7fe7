SPECIFICATION EachSpec
CONSTANTS
    Timer = {t1, t2}
    t1 = t1
    t2 = t2
    Fds = {f1, f2}
    f1 = f1
    f2 = f2
    Null = Null
    MaxClock = 4
    MaxDelay = 3
    TIMESLOT = 1
    MaxInbox = 1
    None = None
    Wild = Wild
    Fd3 = {g1, g2, g3}
    MAX_EVENTS = 2
    MAX_BUF_LEN = 1
    IDLE = 1
    Fd1 = {h1, h2}
    Thread = {w1, w2}
    InboxOf1 = 2
    Client = {a, b, c}
    PollFds = {4, 5}
    USER_LIMIT = 2
SYMMETRY Symmetry
INVARIANTS OneTimerEach AlarmNeverLost TablesConsistent Attended NoWildPointer
PROPERTIES NeverCutShort UsesTheList HangsUpForAReason
CHECK_DEADLOCK FALSE
