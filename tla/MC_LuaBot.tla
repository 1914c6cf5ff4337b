----------------------------- MODULE MC_LuaBot -----------------------------
(* Model-checking instance of LuaBot: five event ids, enough for the     *)
(* bot's three events, one left behind by a kill and the reconnect that   *)
(* follows it, so a kill while a retry is pending is reached.             *)
EXTENDS LuaBot

MC_Ids == 1 .. 5
====
