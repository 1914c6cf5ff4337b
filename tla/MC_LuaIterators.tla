-------------------------- MODULE MC_LuaIterators --------------------------
(* Model-checking instance of LuaIterators: three nick objects over two    *)
(* hash buckets (a bucket with a chain of two, nicks in both buckets, and  *)
(* a freed object coming back).  Pusher lists are three slots long over    *)
(* two pushers, so a table can hold more valid entries than fit.           *)
EXTENDS LuaIterators

CONSTANTS n1, n2, n3

MC_Nicks == {n1, n2, n3}

\* the tables irc_getfirstnick is given: no table, an empty one, a value
\* below and one at the upper bound of the index test, two valid values
\* (exactly the room), three (one too many, a repeat), and tables mixing
\* out-of-range values with more valid values than fit
MC_ArgsIter == {NotTable, <<>>, <<-1>>, <<2>>, <<0, 1>>, <<1, 0, 1>>,
                <<1, 7, 0, 1>>, <<-1, 2, 1, 0>>}
====
