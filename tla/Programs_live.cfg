SPECIFICATION EachSpec
CONSTANTS
    Worker = {t1, t2, t3}
    None = None
    Last = 4
    StrLength = 9
    LowValue = 4
    HighValue = 9
    Tries = 5
    MaxLength = 7
    MaxHardware = 4
    min_per_thread = 2
    Player = {1, 2}
    MaxInputs = 3
    Client = {1, 2}
    MaxLines = 2
    Reads = 1
    PipeRoom = 1
    LoopFds = {5, 6}
    LoopInbox = 2
    MaxPipe = 3
    MaxBacklog = 2
    SepLines = 3
    ReactorFds = {g1, g2}
    MAX_EVENTS = 2
    MAX_BUF_LEN = 1
    IDLE = 1
    Timer = {x1, x2}
    Null = Null
    MaxClock = 4
    MaxDelay = 3
    TimedFds = {f1}
    TIMESLOT = 1
    MaxInbox = 1
INVARIANTS ThreadsShareRightly ProcessesEchoWhole
PROPERTIES ThreadsEnd ClientsLetGo LoopsServe DataIsTaken SilentIsClosed
CHECK_DEADLOCK FALSE
