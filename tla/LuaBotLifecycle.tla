--------------------------- MODULE LuaBotLifecycle ---------------------------
(***************************************************************************)
(* What the Lua bot of src/lua/luabot.c promises about its presence and    *)
(* the callbacks it leaves in the scheduler, without handles or ids: the   *)
(* module is unloaded, or loaded with the bot up (its user registered, and *)
(* lua_blip and lua_tick scheduled), or loaded with the bot down (only a   *)
(* lua_startbot scheduled).  A start either brings the bot up or leaves it *)
(* down with the next try scheduled; a kill takes it down; an unload       *)
(* leaves nothing scheduled.                                               *)
(***************************************************************************)

VARIABLES
    status,     \* "unloaded", "up" or "down"
    scheduled   \* the callbacks of the module that have an event in the scheduler

vars == <<status, scheduled>>

UpCallbacks == {"lua_blip", "lua_tick"}
DownCallbacks == {"lua_startbot"}

\* the outcome of a start: up with the recurring callbacks, or down with a retry
Started ==
    \/ status' = "up" /\ scheduled' = UpCallbacks
    \/ status' = "down" /\ scheduled' = DownCallbacks

Load == status = "unloaded" /\ Started

Start == status = "down" /\ Started

Kill ==
    /\ status = "up"
    /\ status' = "down" /\ scheduled' = DownCallbacks

Unload ==
    /\ status # "unloaded"
    /\ status' = "unloaded" /\ scheduled' = {}

Init == status = "unloaded" /\ scheduled = {}

Next == Load \/ Start \/ Kill \/ Unload

Spec == Init /\ [][Next]_vars

====
