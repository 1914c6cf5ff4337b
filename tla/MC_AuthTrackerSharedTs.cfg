\* Two sessions of one account with one account timestamp (SharedAuthTs).
CONSTANTS
    MAXSERVERS = 2
    DANGLING_HASHSIZE = 2
    NumericsPerServer = 3
    u1 = u1
    u2 = u2
    t1 = t1
    t2 = t2
    Users <- MC_Users
    AuthTs <- MC_AuthTs
    SharedAuthTs = TRUE
    UIntBits = 3
    ULongBits = 5
    Args <- MC_ArgsValid
    NULL = NULL
    NoConn = NoConn
    NoArg = NoArg
    Junk = Junk

SPECIFICATION Spec
PROPERTY NoFalseClose
