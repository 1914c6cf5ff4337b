--------------------------- MODULE MC_AuthTracker ---------------------------
(* Model-checking instance of AuthTracker: two servers, a few user         *)
(* numerics each, two buckets per table (each server's numerics hash to   *)
(* both buckets, and a reused numeric chains in its bucket), one or two    *)
(* users and one or two account timestamps.  Integer widths are scaled     *)
(* down so that TLC's 32-bit integers can represent the wrap of the      *)
(* parser.                                                                 *)
EXTENDS AuthTracker, TLC

CONSTANTS u1, u2, t1, t2

MC_Users  == {u1}
MC_AuthTs == {t1, t2}

\* two accounts, for sessions of different users dangling side by side
MC_UsersTwo == {u1, u2}

\* one timestamp: enough for sessions lost, returned, swept and restarted,
\* and small enough for the per-session liveness check
MC_AuthTsOne == {t1}

\* no argument, both servers, the first numeric out of range
MC_ArgsValid == {NoArg, 0, 1, 2}

\* adds text that is no number, a negative number and one that wraps in
\* the conversion to unsigned int (2^UIntBits + 1)
MC_ArgsMalformed == MC_ArgsValid \cup {Junk, -7, 2^3 + 1}

\* at most two accounts in use at once (connected, open or dangling): a
\* numeric recycled on the far side of a split goes to another user or to
\* another authentication of the same user, while the state space stays
\* that of two accounts; a state that is not well typed is left to TypeOK
MC_TwoAccountsInUse ==
    TypeOK => Cardinality({a \in Account : InUse(a)}) <= 2

\* the abstract specification of spec.md 4.2, as a property
MC_Refinement == Refinement
=============================================================================
