SPECIFICATION EachSpec
CONSTANTS
    Thread = {u1, u2, u3}
    Mutex = {m1, m2, m3}
    ULONG_MAX = 3
    Levels = {1, 2, 3}
    Timer = {t1, t2, t3, t4}
    t1 = t1
    t2 = t2
    t3 = t3
    t4 = t4
    Null = Null
    MaxClock = 3
    MaxDelay = 2
    SlotsOfWheel = 3
    SI = 2
    MaxTimeout = 13
    Numbers = 5
    Rows = 3
    Nodes = {n1, n2, n3, n4}
    dummy_head = dummy_head
    dummy_tail = dummy_tail
    nullptr = nullptr
    Val = {1, 2}
    Garbage = {0, 7}
    Num <- SomeNumbers
    MaxNums = 6
    Ptr = {p1, p2, p3}
    Object = {o1, o2}
    Started = {w1, w2}
    Raw = {r1, r2}
    Joining = {k1, k2}
    Scoped = {s1}
    None = None
SYMMETRY TimerSymmetry
INVARIANTS LevelsNested NoCircularWait Linked WheelOnSchedule CountsOwners OneOwnerEach ConnectedAsJoined FlowsAsConnected ListKeeps MedianAnswers
PROPERTIES ImplementsTimers WheelFiresOnTime HeapImplementsTimers
CHECK_DEADLOCK FALSE
