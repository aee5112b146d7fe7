SPECIFICATION Spec
CONSTANTS
    Clients = {c1, c2}
    c1 = c1
    c2 = c2
    NoUser = NoUser
    USER_LIMIT = 2
    MaxConnects = 2
    MaxLeaves = 1
    MaxTerms = 0
    MaxSend = 2
    MaxEchoes = 1
SYMMETRY ClientSymmetry
INVARIANTS NoEcho CaughtUp
CHECK_DEADLOCK FALSE
