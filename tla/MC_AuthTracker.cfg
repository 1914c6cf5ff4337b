\* The core safety run: registry, hooks, network, durable table, crash and
\* start, sweep and the admin command with well-formed arguments.
CONSTANTS
    MAXSERVERS = 2
    DANGLING_HASHSIZE = 2
    NumericsPerServer = 3
    u1 = u1
    u2 = u2
    t1 = t1
    t2 = t2
    Users <- MC_UsersTwo
    AuthTs <- MC_AuthTs
    SharedAuthTs = FALSE
    UIntBits = 3
    ULongBits = 5
    Args <- MC_ArgsValid
    NULL = NULL
    NoConn = NoConn
    NoArg = NoArg
    Junk = Junk

SPECIFICATION Spec

INVARIANT TypeOK
INVARIANT Reconciled
INVARIANT NoDuplicateEntry
PROPERTY NoFalseClose
PROPERTY MC_Refinement
\* two users and two timestamps, at most two accounts in use at once
CONSTRAINT MC_TwoAccountsInUse
