SPECIFICATION FairSpec
CONSTANTS
    Clients = {c1, c2}
    c1 = c1
    c2 = c2
    NoUser = NoUser
    USER_LIMIT = 2
    MaxConnects = 2
    MaxLeaves = 1
    MaxTerms = 1
    MaxSend = 0
    MaxEchoes = 1
PROPERTIES ZombiesReaped OrphansExit
CHECK_DEADLOCK FALSE
