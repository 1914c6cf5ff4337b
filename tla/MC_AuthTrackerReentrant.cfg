\* at_serverback step by step, the registry called only between drains.
CONSTANTS
    u1 = u1
    t1 = t1
    t2 = t2
    Users <- MC_Users
    AuthTs <- MC_AuthTs
    DANGLING_HASHSIZE = 2
    NumericsPerServer = 3
    Reentrant = FALSE
    NULL = NULL

SPECIFICATION Spec

INVARIANT DrainIsAtomic
