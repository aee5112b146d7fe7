SPECIFICATION Spec
CONSTANTS
    Clients = {c1, c2, c3}
    c1 = c1
    c2 = c2
    c3 = c3
    NoUser = NoUser
    USER_LIMIT = 2
    MaxConnects = 3
    MaxLeaves = 1
    MaxTerms = 0
    MaxSend = 0
    MaxEchoes = 1
INVARIANT SlotsPrivate
CHECK_DEADLOCK FALSE
