----------------------- MODULE MC_AuthTrackerReentrant -----------------------
(* Model-checking instance of AuthTrackerReentrant: two buckets, three     *)
(* numerics on the drained server (two share a bucket), one user with two  *)
(* auth timestamps: a chain of two, both buckets used, and a session lost  *)
(* into a bucket the drain has already passed all occur.                   *)
EXTENDS AuthTrackerReentrant

CONSTANTS u1, t1, t2

MC_Users == {u1}
MC_AuthTs == {t1, t2}
====
