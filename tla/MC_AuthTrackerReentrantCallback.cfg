\* at_serverback step by step, with at_logquit re-entering the registry
\* as spec.md 4.2 allows.
CONSTANTS
    u1 = u1
    t1 = t1
    t2 = t2
    Users <- MC_Users
    AuthTs <- MC_AuthTs
    DANGLING_HASHSIZE = 2
    NumericsPerServer = 3
    Reentrant = TRUE
    NULL = NULL

SPECIFICATION Spec

INVARIANT NoLostSession
