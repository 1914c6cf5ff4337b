\* Liveness of the sweep: with the sweep weakly fair, no dangling session
\* stays open on a linked server while the tracker runs.
CONSTANTS
    MAXSERVERS = 2
    DANGLING_HASHSIZE = 2
    NumericsPerServer = 3
    u1 = u1
    u2 = u2
    t1 = t1
    t2 = t2
    Users <- MC_UsersTwo
    AuthTs <- MC_AuthTsOne
    SharedAuthTs = FALSE
    UIntBits = 3
    ULongBits = 5
    Args <- MC_ArgsValid
    NULL = NULL
    NoConn = NoConn
    NoArg = NoArg
    Junk = Junk

SPECIFICATION Spec

PROPERTY DanglingDoesNotLinger
INVARIANT Reconciled
