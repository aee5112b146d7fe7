SPECIFICATION Spec
CONSTANTS
    Clients = {c1, c2, c3}
    c1 = c1
    c2 = c2
    c3 = c3
    NoUser = NoUser
    USER_LIMIT = 2
    MaxConnects = 3
    MaxLeaves = 2
    MaxTerms = 1
    MaxSend = 0
    MaxEchoes = 1
SYMMETRY ClientSymmetry
INVARIANTS TypeOK UserTable OneOrphan
PROPERTY ImplementsMembership
CHECK_DEADLOCK FALSE
