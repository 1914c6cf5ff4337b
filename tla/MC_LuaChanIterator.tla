------------------------- MODULE MC_LuaChanIterator -------------------------
(* Model-checking instance of LuaChanIterator: three chanindex objects     *)
(* over two buckets, so a chain of two, both buckets, a chanindex without  *)
(* channel between two with, and a released chanindex reused all occur.    *)
EXTENDS LuaChanIterator

CONSTANTS c1, c2, c3

MC_Chans == {c1, c2, c3}
====
