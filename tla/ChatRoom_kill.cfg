SPECIFICATION FairSpec
CONSTANTS
    Clients = {c1, c2}
    c1 = c1
    c2 = c2
    NoUser = NoUser
    USER_LIMIT = 2
    MaxConnects = 1
    MaxLeaves = 0
    MaxTerms = 1
    MaxSend = 0
    MaxEchoes = 1
PROPERTY KilledChildExits
CHECK_DEADLOCK FALSE
