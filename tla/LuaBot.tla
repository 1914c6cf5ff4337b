------------------------------ MODULE LuaBot ------------------------------
(***************************************************************************)
(* The life cycle of the Lua bot (src/lua/luabot.c): lua_startbot          *)
(* registers the local user U, its two recurring callbacks (lua_blip every *)
(* 60s, lua_tick every second) and the hooks, or, when the nick cannot be  *)
(* registered, retries itself one second later; LU_KILLED drops the        *)
(* callbacks and schedules a reconnect; lua_destroybot tears everything    *)
(* down when the module is unloaded.                                       *)
(*                                                                         *)
(* The scheduler heap is a set of events [id, fn, recurring]; a handle is  *)
(* the id of an event, and may outlive it.  deleteschedule(sch, fn, arg)   *)
(* deletes the event sch when it is an event of fn; otherwise it looks for *)
(* an event of fn in the heap when DeleteScheduleSearches (core/schedule.c *)
(* is not in this repository).  Every call into Lua goes through          *)
(* _lua_vpcall, whose signature loop is modelled; lua_avpcall (lua.h, not  *)
(* in this repository) is taken as _lua_vpcall on the one script state.    *)
(* Channel joins change nothing modelled here.                             *)
(***************************************************************************)
EXTENDS Integers, FiniteSets, Sequences, LuaCommands

CONSTANTS
    Ids,                    \* event ids the scheduler may hand out
    DeleteScheduleSearches, \* deleteschedule falls back to a search by callback
    NULL

ASSUME DeleteScheduleSearches \in BOOLEAN /\ NULL \notin Ids

VARIABLES
    loaded,         \* the lua module is loaded
    lua_nick,       \* NULL, or "U" while the bot's local user is registered
    myureconnect,   \* handle of the pending lua_startbot, or NULL
    myublip,        \* handle of the lua_blip callback, or NULL
    myutick,        \* handle of the lua_tick callback, or NULL
    heap,           \* the scheduler's events
    hooked,         \* the (hook, handler) pairs registered with the hook table
    lastcall,       \* the call into Lua the last step made: by whom, with which lua_nick
    lastcmd         \* the command binding the last step ran, from inside that call

vars == <<loaded, lua_nick, myureconnect, myublip, myutick, heap, hooked, lastcall, lastcmd>>

Callbacks == {"lua_startbot", "lua_blip", "lua_tick"}
Event == [id : Ids, fn : Callbacks, recurring : BOOLEAN]
Bot == "U"
NoCmd == [cmd |-> "none", src |-> NULL, ret |-> "none", op |-> "none", target |-> "none",
          checks |-> FALSE, duration |-> 0, hits |-> 0, deops |-> {}]
NoCall == [by |-> "none", nick |-> NULL, fn |-> "none", callee |-> "none", args |-> <<>>, present |-> {}]

\* lua_registerevents: the (hook number, handler) pairs it registers, the
\* hook number without its HOOK_/CHANNEL_/NICK_ prefix; a handler that
\* serves two hook numbers is named with the case of hooknum it takes
lua_registerevents == {<<"MODECHANGE", "lua_onmode">>, <<"NEWNICK", "lua_onnewnick">>, <<"IRC_DISCON", "lua_ondisconnect/DISCON">>,
                       <<"IRC_PRE_DISCON", "lua_ondisconnect/PRE_DISCON">>, <<"ACCOUNT", "lua_onauth">>, <<"TOPIC", "lua_ontopic">>,
                       <<"KICK", "lua_onkick">>, <<"OPPED", "lua_onop/OPPED">>, <<"DEOPPED", "lua_onop/DEOPPED">>,
                       <<"VOICED", "lua_onvoice/VOICED">>, <<"DEVOICED", "lua_onvoice/DEVOICED">>, <<"PRE_LOSTNICK", "lua_onprequit">>,
                       <<"LOSTNICK", "lua_onquit">>, <<"RENAME", "lua_onrename">>, <<"CONNECTED", "lua_onconnect/CONNECTED">>,
                       <<"END_OF_BURST", "lua_onconnect/END_OF_BURST">>, <<"JOIN", "lua_onjoin">>, <<"PART", "lua_onpart">>,
                       <<"CREATE", "lua_onjoin">>, <<"JOIN_BYPASS_BAN", "lua_onbanevade">>}

\* lua_deregisterevents as it would read had its last line, the one for
\* the most recently added hook, been left out
DeregisterEventsNoBanEvade == {<<"PART", "lua_onpart">>, <<"CREATE", "lua_onjoin">>, <<"JOIN", "lua_onjoin">>,
                               <<"END_OF_BURST", "lua_onconnect/END_OF_BURST">>, <<"CONNECTED", "lua_onconnect/CONNECTED">>, <<"RENAME", "lua_onrename">>,
                               <<"LOSTNICK", "lua_onquit">>, <<"PRE_LOSTNICK", "lua_onprequit">>, <<"DEOPPED", "lua_onop/DEOPPED">>,
                               <<"OPPED", "lua_onop/OPPED">>, <<"DEVOICED", "lua_onvoice/DEVOICED">>, <<"VOICED", "lua_onvoice/VOICED">>,
                               <<"KICK", "lua_onkick">>, <<"TOPIC", "lua_ontopic">>, <<"ACCOUNT", "lua_onauth">>,
                               <<"IRC_PRE_DISCON", "lua_ondisconnect/PRE_DISCON">>, <<"IRC_DISCON", "lua_ondisconnect/DISCON">>, <<"NEWNICK", "lua_onnewnick">>,
                               <<"MODECHANGE", "lua_onmode">>}

\* lua_deregisterevents: the pairs it deregisters, a list kept by hand
\* apart from lua_registerevents' (and in another order)
lua_deregisterevents == {<<"PART", "lua_onpart">>, <<"CREATE", "lua_onjoin">>, <<"JOIN", "lua_onjoin">>,
                         <<"END_OF_BURST", "lua_onconnect/END_OF_BURST">>, <<"CONNECTED", "lua_onconnect/CONNECTED">>, <<"RENAME", "lua_onrename">>,
                         <<"LOSTNICK", "lua_onquit">>, <<"PRE_LOSTNICK", "lua_onprequit">>, <<"DEOPPED", "lua_onop/DEOPPED">>,
                         <<"OPPED", "lua_onop/OPPED">>, <<"DEVOICED", "lua_onvoice/DEVOICED">>, <<"VOICED", "lua_onvoice/VOICED">>,
                         <<"KICK", "lua_onkick">>, <<"TOPIC", "lua_ontopic">>, <<"ACCOUNT", "lua_onauth">>,
                         <<"IRC_PRE_DISCON", "lua_ondisconnect/PRE_DISCON">>, <<"IRC_DISCON", "lua_ondisconnect/DISCON">>, <<"NEWNICK", "lua_onnewnick">>,
                         <<"MODECHANGE", "lua_onmode">>, <<"JOIN_BYPASS_BAN", "lua_onbanevade">>}

\* the state lua_startbot and the handlers read and write
Vars == [nick : {NULL, Bot}, reconnect : Ids \cup {NULL}, blip : Ids \cup {NULL},
         tick : Ids \cup {NULL}, heap : SUBSET Event,
         hooked : SUBSET lua_registerevents]

Now == [nick |-> lua_nick, reconnect |-> myureconnect, blip |-> myublip,
        tick |-> myutick, heap |-> heap, hooked |-> hooked]

SetNow(v) == /\ lua_nick' = v.nick /\ myureconnect' = v.reconnect
             /\ myublip' = v.blip /\ myutick' = v.tick
             /\ heap' = v.heap /\ hooked' = v.hooked

-----------------------------------------------------------------------------
(***************************************************************************)
(* Variants of definitions below, as a plausible bug would change them.    *)
(***************************************************************************)

\* LU_KILLED clearing a handle without deleting its callback
DropCallbackNone(hp, handle, fn) == hp

\* lua_startbot giving up when registerlocaluser fails
RetryNone(v, newid) == v

\* lua_destroybot forgetting the pending reconnect
DeleteReconnectNone(hp, handle) == hp

-----------------------------------------------------------------------------
(***************************************************************************)
(* The scheduler (core/schedule.c, not in this repository)                 *)
(***************************************************************************)

\* an id no live event holds
FreeIds(hp) == {i \in Ids : \A e \in hp : e.id # i}

\* deleteschedule(sch, fn, NULL)
deleteschedule(hp, sch, fn) ==
    IF \E e \in hp : e.id = sch /\ e.fn = fn
    THEN {e \in hp : e.id # sch}
    ELSE IF DeleteScheduleSearches /\ \E e \in hp : e.fn = fn
         THEN LET victim == CHOOSE e \in hp : e.fn = fn IN hp \ {victim}
         ELSE hp

-----------------------------------------------------------------------------
(***************************************************************************)
(* luabot.c                                                                *)
(***************************************************************************)

\* myureconnect = scheduleoneshot(time(NULL) + 1, &lua_startbot, NULL)
ScheduleReconnect(v, newid) ==
    [v EXCEPT !.reconnect = newid,
              !.heap = @ \cup {[id |-> newid, fn |-> "lua_startbot", recurring |-> FALSE]}]

\* lua_startbot's failure path: registerlocaluser returned NULL
Retry(v, newid) == ScheduleReconnect(v, newid)

\* lua_startbot: registered is the outcome of registerlocaluser; ids are
\* the ids the scheduler hands out to the events it creates
lua_startbot(v, registered, rid, bid, tid) ==
    LET v0 == [v EXCEPT !.reconnect = NULL]
    IN  IF ~registered THEN Retry(v0, rid)
        ELSE [v0 EXCEPT !.nick = Bot, !.blip = bid, !.tick = tid, !.hooked = @ \cup lua_registerevents,
                        !.heap = @ \cup {[id |-> bid, fn |-> "lua_blip", recurring |-> TRUE],
                                         [id |-> tid, fn |-> "lua_tick", recurring |-> TRUE]}]

\* if(myublip) { myublip = NULL; deleteschedule(myublip, &lua_blip, NULL); }
\* and the same for myutick: the handle is NULL when it is passed
DropCallback(hp, handle, fn) ==
    IF handle # NULL THEN deleteschedule(hp, NULL, fn) ELSE hp

\* lua_bothandler, case LU_KILLED: drop both callbacks, forget the user,
\* schedule a reconnect
LU_KILLED(v, newid) ==
    LET h1 == DropCallback(v.heap, v.blip, "lua_blip")
        h2 == DropCallback(h1, v.tick, "lua_tick")
        v1 == [v EXCEPT !.blip = NULL, !.tick = NULL, !.nick = NULL, !.heap = h2]
    IN  ScheduleReconnect(v1, newid)

\* if (myureconnect) deleteschedule(myureconnect, &lua_startbot, NULL);
DeleteReconnect(hp, handle) ==
    IF handle # NULL THEN deleteschedule(hp, handle, "lua_startbot") ELSE hp

\* lua_destroybot: delete the callbacks by handle, deregister the hooks,
\* delete the pending reconnect, deregister the user (lua_nick and the
\* handles are left as they are: the module is going away)
lua_destroybot(v) ==
    LET h1 == IF v.tick # NULL THEN deleteschedule(v.heap, v.tick, "lua_tick") ELSE v.heap
        h2 == IF v.blip # NULL THEN deleteschedule(h1, v.blip, "lua_blip") ELSE h1
    IN  [v EXCEPT !.heap = DeleteReconnect(h2, v.reconnect), !.hooked = @ \ lua_deregisterevents]

-----------------------------------------------------------------------------
(***************************************************************************)
(* _lua_vpcall and the calls into Lua.  A va_list entry is the role of the *)
(* C argument it carries ("chan", "source", ...); an entry read past the   *)
(* arguments the caller passed is "garbage".  What reaches Lua is a        *)
(* sequence of [type, val].                                                *)
(***************************************************************************)

Nil == [type |-> "nil", val |-> "nil"]

\* (variant) the '0' case taking a va_arg like the others
VaArgsNilTakes(c) == IF c = "L" THEN 2 ELSE IF c \in {"i", "l", "s", "S", "N", "C", "R", "b", "0"} THEN 1 ELSE 0

\* the va_arg calls of each case of the signature switch
VaArgs(c) == IF c = "L" THEN 2 ELSE IF c \in {"i", "l", "s", "S", "N", "C", "R", "b"} THEN 1 ELSE 0

\* the Lua type each case pushes; none for an unknown character
LuaType(c) ==
    CASE c \in {"i", "l", "N"} -> "number"
      [] c \in {"s", "S", "L"} -> "string"
      [] c = "C" -> "chan" [] c = "R" -> "ref" [] c = "b" -> "boolean"
      [] c = "0" -> "nil"
      [] OTHER -> "none"

\* while(*sig) switch(*sig++): push per character, narg++ even for an
\* unknown one (Error only), stop after '>'
PushArgs(sig, va) ==
    LET RECURSIVE loop(_, _, _, _)
        loop(s, v, args, narg) ==
            IF s = <<>> \/ Head(s) = ">" THEN [args |-> args, narg |-> narg]
            ELSE LET c == Head(s)
                     x == IF c = "0" THEN "nil" ELSE IF v = <<>> THEN "garbage" ELSE Head(v)
                     k == VaArgs(c)
                 IN  loop(Tail(s), IF Len(v) <= k THEN <<>> ELSE SubSeq(v, k + 1, Len(v)),
                          IF LuaType(c) = "none" THEN args
                          ELSE Append(args, [type |-> LuaType(c), val |-> x]),
                          narg + 1)
    IN  loop(sig, va, <<>>, 0)

\* _lua_vpcall(l, fn, LUA_CHARMODE, sig, ...): nothing when the global is
\* not a function; else the stack is scripterror, fn, the pushed values,
\* and lua_pcall calls the value narg below the top with the narg above it
lua_vpcall(defined, fn, sig, va) ==
    IF ~defined THEN [called |-> FALSE]
    ELSE LET r     == PushArgs(sig, va)
             stack == <<[type |-> "function", val |-> "scripterror"],
                        [type |-> "function", val |-> fn]>> \o r.args
             base  == Len(stack) - r.narg
         IN  [called |-> TRUE,
              callee |-> IF base >= 1 THEN stack[base].val ELSE "garbage",
              args   |-> SubSeq(stack, base + 1, Len(stack))]

\* the string up to its last character
SubPrefix(t) == SubSeq(t, 1, Len(t) - 1)

\* a hook handler's call: the Lua function, the signature, the va_list;
\* NoHookCall for an early return.  p is the set of the handler's optional
\* pointers that are not NULL.
NoHookCall == [fn |-> "none", sig |-> <<>>, va |-> <<>>]
HC(fn, sig, va) == [fn |-> fn, sig |-> sig, va |-> va]

\* lua_onmode: the modes after and before the change, as printallmodes /
\* printlimitedmodes format them
ModeCall(p) ==
    IF "np" \in p THEN HC("irc_onmode", <<"S", "l", "s", "s">>, <<"chan", "np", "allmodes", "limitedmodes">>)
    ELSE HC("irc_onmode", <<"S", "0", "s", "s">>, <<"chan", "allmodes", "limitedmodes">>)

HookCall(h, p) ==
    CASE h = "lua_onnewnick" ->
            IF "np" \notin p THEN NoHookCall ELSE HC("irc_onnewnick", <<"l">>, <<"np">>)
      [] h = "lua_onkick" ->
            IF "kicker" \in p THEN HC("irc_onkick", <<"S", "l", "l", "s">>, <<"chan", "kicked", "kicker", "message">>)
            ELSE HC("irc_onkick", <<"S", "l", "0", "s">>, <<"chan", "kicked", "message">>)
      [] h = "lua_ontopic" ->
            IF "cp" \notin p \/ "topic" \notin p THEN NoHookCall
            ELSE IF "np" \in p THEN HC("irc_ontopic", <<"S", "l", "S">>, <<"chan", "np", "topic">>)
            ELSE HC("irc_ontopic", <<"S", "0", "S">>, <<"chan", "topic">>)
      [] h \in {"lua_onop/OPPED", "lua_onop/DEOPPED", "lua_onvoice/VOICED", "lua_onvoice/DEVOICED"} ->
            LET fn == CASE h = "lua_onop/OPPED" -> "irc_onop" [] h = "lua_onop/DEOPPED" -> "irc_ondeop"
                        [] h = "lua_onvoice/VOICED" -> "irc_onvoice" [] OTHER -> "irc_ondevoice"
            IN  IF "target" \notin p THEN NoHookCall
                ELSE IF "np" \in p THEN HC(fn, <<"S", "l", "l">>, <<"chan", "np", "target">>)
                ELSE HC(fn, <<"S", "0", "l">>, <<"chan", "target">>)
      [] h \in {"lua_onjoin", "lua_onbanevade"} ->
            IF "ci" \notin p \/ "np" \notin p THEN NoHookCall
            ELSE HC(IF h = "lua_onjoin" THEN "irc_onjoin" ELSE "irc_onbanevade", <<"S", "l">>, <<"chan", "np">>)
      [] h = "lua_onpart" ->
            IF "ci" \notin p \/ "np" \notin p THEN NoHookCall
            ELSE HC("irc_onpart", <<"S", "l", "s">>, <<"chan", "np", "reason">>)
      [] h = "lua_onrename" ->
            IF "np" \notin p THEN NoHookCall ELSE HC("irc_onrename", <<"l", "s">>, <<"np", "oldnick">>)
      [] h \in {"lua_onquit", "lua_onprequit", "lua_onauth"} ->
            LET fn == CASE h = "lua_onquit" -> "irc_onquit" [] h = "lua_onprequit" -> "irc_onprequit"
                        [] OTHER -> "irc_onauth"
            IN  IF "np" \notin p THEN NoHookCall ELSE HC(fn, <<"l">>, <<"np">>)
      [] h \in {"lua_ondisconnect/DISCON", "lua_ondisconnect/PRE_DISCON"} ->
            HC(IF h = "lua_ondisconnect/DISCON" THEN "irc_ondisconnect" ELSE "irc_onpredisconnect", <<>>, <<>>)
      [] h \in {"lua_onconnect/CONNECTED", "lua_onconnect/END_OF_BURST"} ->
            HC(IF h = "lua_onconnect/CONNECTED" THEN "irc_onconnect" ELSE "irc_onendofburst", <<>>, <<>>)
      [] h = "lua_onmode" -> ModeCall(p)

\* the hooks of lua_registerevents (one entry per hook number whose
\* handler tells them apart) and the optional pointers of their arguments
Hooks == {r[2] : r \in lua_registerevents}
Optional == {"np", "kicker", "cp", "topic", "target", "ci"}

\* the optional pointers handler h tests
Pointers(h) ==
    CASE h = "lua_onkick" -> {"kicker"}
      [] h = "lua_ontopic" -> {"cp", "topic", "np"}
      [] h \in {"lua_onop/OPPED", "lua_onop/DEOPPED", "lua_onvoice/VOICED", "lua_onvoice/DEVOICED"} -> {"np", "target"}
      [] h \in {"lua_onjoin", "lua_onbanevade", "lua_onpart"} -> {"ci", "np"}
      [] h \in {"lua_ondisconnect/DISCON", "lua_ondisconnect/PRE_DISCON",
                "lua_onconnect/CONNECTED", "lua_onconnect/END_OF_BURST"} -> {}
      [] OTHER -> {"np"}

\* the call lastcall records for a call into Lua made by `by`
Called(by, fn, r, p) ==
    [by |-> by, nick |-> lua_nick, fn |-> fn, callee |-> r.callee, args |-> r.args, present |-> p]

\* the text of a message to the bot: a few characters, ^A the CTCP delimiter
Texts == UNION {[1 .. n -> {"^A", "x"}] : n \in 0 .. 3}

\* lua_bothandler, case LU_PRIVNOTICE: a notice longer than one character
\* that starts with ^A is a CTCP; its last ^A is overwritten with the
\* terminator and irc_onctcp gets the text after the first
NoticeCall(t) ==
    IF Len(t) > 1 /\ t[1] = "^A"
    THEN HC("irc_onctcp", <<"l", "s">>,
            <<"np", Tail(IF t[Len(t)] = "^A" THEN SubPrefix(t) ELSE t)>>)
    ELSE HC("irc_onnotice", <<"l", "s">>, <<"np", t>>)

-----------------------------------------------------------------------------
(***************************************************************************)
(* Actions                                                                 *)
(***************************************************************************)

\* the module is loaded: fresh statics, and its init starts the bot
Load ==
    /\ ~loaded
    /\ loaded' = TRUE
    /\ \E registered \in BOOLEAN, rid, bid, tid \in FreeIds(heap) :
          /\ bid # tid
          /\ SetNow(lua_startbot([Now EXCEPT !.nick = NULL, !.reconnect = NULL,
                                             !.blip = NULL, !.tick = NULL],
                                 registered, rid, bid, tid))
    /\ lastcall' = NoCall
    /\ lastcmd' = NoCmd

\* the scheduler runs the pending lua_startbot (a oneshot leaves the heap)
FireReconnect(e) ==
    /\ loaded
    /\ e \in heap /\ e.fn = "lua_startbot"
    /\ \E registered \in BOOLEAN, rid, bid, tid \in FreeIds(heap \ {e}) :
          /\ bid # tid
          /\ SetNow(lua_startbot([Now EXCEPT !.heap = @ \ {e}], registered, rid, bid, tid))
    /\ lastcall' = NoCall
    /\ UNCHANGED loaded
    /\ lastcmd' = NoCmd

\* the scheduler runs a recurring callback (it stays scheduled):
\* lua_blip / lua_tick call onblip / ontick in Lua
FireRecurring(e) ==
    /\ e \in heap /\ e.recurring
    /\ \E defined \in BOOLEAN :
          LET fn == IF e.fn = "lua_blip" THEN "onblip" ELSE "ontick"
              r  == lua_vpcall(defined, fn, <<>>, <<>>)
          IN  lastcall' = IF r.called THEN Called(e.fn, fn, r, {}) ELSE NoCall
    /\ UNCHANGED <<loaded, lua_nick, myureconnect, myublip, myutick, heap, hooked>>
    /\ lastcmd' = NoCmd

\* an ircd event reaches the registered hook handler h with the optional
\* pointers p set; unless it returns early it calls its irc_on* function,
\* if the script defines one
Deliver(h, p) ==
    /\ h \in {r[2] : r \in hooked}
    /\ \E defined \in BOOLEAN :
          LET c == HookCall(h, p)
              r == lua_vpcall(defined, c.fn, c.sig, c.va)
          IN  lastcall' = IF c # NoHookCall /\ r.called THEN Called("hook", c.fn, r, p) ELSE NoCall
    /\ UNCHANGED <<loaded, lua_nick, myureconnect, myublip, myutick, heap, hooked>>
    /\ lastcmd' = NoCmd

\* a private message or notice t from a nick (np NULL or not) reaches the
\* bot's user: lua_bothandler(LU_PRIVMSG / LU_PRIVNOTICE)
Message(type, np, t) ==
    /\ lua_nick # NULL
    /\ \E defined \in BOOLEAN :
          LET c == IF type = "LU_PRIVMSG" THEN HC("irc_onmsg", <<"l", "s">>, <<"np", t>>)
                   ELSE NoticeCall(t)
              r == lua_vpcall(defined, c.fn, c.sig, c.va)
          IN  lastcall' = IF np /\ r.called THEN Called("bothandler", c.fn, r, {"np"}) ELSE NoCall
    /\ UNCHANGED <<loaded, lua_nick, myureconnect, myublip, myutick, heap, hooked>>
    /\ lastcmd' = NoCmd

\* the bot's user is killed: lua_bothandler(LU_KILLED)
Killed ==
    /\ loaded
    /\ lua_nick # NULL
    /\ \E rid \in FreeIds(heap) : SetNow(LU_KILLED(Now, rid))
    /\ lastcall' = NoCall
    /\ UNCHANGED loaded
    /\ lastcmd' = NoCmd

\* the module is unloaded: lua_destroybot
Unload ==
    /\ loaded
    /\ loaded' = FALSE
    /\ SetNow(lua_destroybot(Now))
    /\ lastcall' = NoCall
    /\ lastcmd' = NoCmd

\* the bindings a script can call, each with the outcomes of the lookups
\* and checks it makes
Durations == {0, 1, MaxGline, MaxGline + 1}
Bindings ==
    LET B == BOOLEAN IN
    {[cmd |-> "irc_chanmsg", r |-> lua_chanmsg(s, lo, pk)] : s, lo, pk \in B}
    \cup {[cmd |-> "irc_ctcp", r |-> lua_ctcp(s, t, lo, pk)] : s \in B, t \in Kinds, lo, pk \in B}
    \cup {[cmd |-> "irc_notice", r |-> lua_sendcmd("lua_notice", s, t, lo)] : s \in B, t \in Kinds, lo \in B}
    \cup {[cmd |-> "irc_privmsg", r |-> lua_sendcmd("lua_message", s, t, lo)] : s \in B, t \in Kinds, lo \in B}
    \cup {[cmd |-> "irc_kill", r |-> lua_kill(s, t, lo, pk)] : s \in B, t \in Kinds, lo, pk \in B}
    \cup {[cmd |-> "irc_kick", r |-> lua_kick(s, f, t, c, lo)] :
             s \in B, f \in {"absent", "true", "false"}, t \in Kinds, c, lo \in B}
    \cup {[cmd |-> "irc_invite", r |-> lua_invite(s, t, c)] : s \in B, t \in Kinds, c \in B}
    \cup {[cmd |-> "irc_gline", r |-> lua_gline(s, d, lo, t, h, pk)] :
             s \in B, d \in Durations, lo \in B, t \in Kinds, h \in {50, 51}, pk \in B}
    \cup {[cmd |-> m[1], r |-> lua_setmode(m[2], s, c, t)] :
             m \in {<<"irc_opchan", "MC_OP">>, <<"irc_deopchan", "MC_DEOP">>,
                    <<"irc_voicechan", "MC_VOICE">>},
             s, c \in B, t \in Kinds}
    \cup {[cmd |-> "irc_skill", r |-> lua_skill(s, t, lo)] : s \in B, t \in Kinds, lo \in B}
    \cup {[cmd |-> "irc_smsg", r |-> lua_smsg(s, c, lo)] : s, c, lo \in B}
    \cup {[cmd |-> "irc_chanfix", r |-> lua_chanfix(s, c, t)] : s, c \in B, t \in {"none", "plain"}}
    \cup {[cmd |-> "irc_topic", r |-> lua_topic(s, c, lo)] : s, c, lo \in B}
    \cup {[cmd |-> "irc_ban", r |-> lua_ban(s, c, k, lo)] : s, c \in B, k \in {"empty", "mask"}, lo \in B}
    \cup {[cmd |-> "irc_simplechanmode", r |-> lua_simplechanmode(s, c, m)] :
             s, c \in B, m \in {"permitted", "disallowed", "unknown"}}
    \cup {[cmd |-> "irc_sethost", r |-> lua_sethost(s, t, lo)] : s \in B, t \in Kinds, lo \in B}
    \cup {[cmd |-> "irc_clearmode", r |-> lua_clearmode(s, c, o)] :
             s, c \in B, o \in SUBSET {"plain", "oper", "service"}}

\* a script, inside the call into Lua the last step made, calls a command
\* binding; the ircd calls it makes act as lua_nick.  The step makes no
\* call into Lua itself.  Bindings keep no state, so one per call is enough.
Command(b) ==
    /\ lastcall.by # "none"
    /\ lastcall' = NoCall
    /\ lastcmd' = [cmd |-> b.cmd, src |-> lua_nick, ret |-> b.r.ret, op |-> b.r.op,
                   target |-> b.r.target, checks |-> b.r.checks,
                   duration |-> b.r.duration, hits |-> b.r.hits, deops |-> b.r.deops]
    /\ UNCHANGED <<loaded, lua_nick, myureconnect, myublip, myutick, heap, hooked>>

Init ==
    /\ loaded = FALSE
    /\ lua_nick = NULL
    /\ myureconnect = NULL /\ myublip = NULL /\ myutick = NULL
    /\ heap = {}
    /\ hooked = {}
    /\ lastcall = NoCall
    /\ lastcmd = NoCmd

Next ==
    \/ Load \/ Killed \/ Unload
    \/ \E h \in Hooks : \E p \in SUBSET Pointers(h) : Deliver(h, p)
    \/ \E b \in Bindings : Command(b)
    \/ \E type \in {"LU_PRIVMSG", "LU_PRIVNOTICE"}, np \in BOOLEAN, t \in Texts : Message(type, np, t)
    \/ \E e \in heap : FireReconnect(e) \/ FireRecurring(e)

Spec == Init /\ [][Next]_vars

-----------------------------------------------------------------------------
(***************************************************************************)
(* Properties                                                              *)
(***************************************************************************)

Live(fn) == {e \in heap : e.fn = fn}

TypeOK ==
    /\ loaded \in BOOLEAN
    /\ Now \in Vars
    /\ lastcall.by \in {"none", "lua_blip", "lua_tick", "hook", "bothandler"}
    /\ lastcall.nick \in {NULL, Bot}

\* Each recurring callback is scheduled at most once, however often the bot
\* is killed and reconnects (LU_KILLED must remove the old ones before
\* lua_startbot schedules new ones), and while the bot is registered its
\* handles name its live callbacks.
OneCallbackEach ==
    /\ \A fn \in {"lua_blip", "lua_tick"} : Cardinality(Live(fn)) <= 1
    /\ loaded /\ lua_nick # NULL =>
          /\ \E e \in Live("lua_blip") : e.id = myublip
          /\ \E e \in Live("lua_tick") : e.id = myutick

\* lua_blip and lua_tick only ever run while the bot has a user: the
\* callbacks of a killed bot do not outlive it, so onblip / ontick never
\* act through a NULL lua_nick.
CallbacksSeeBot ==
    lastcall.by \in {"lua_blip", "lua_tick"} => lastcall.nick # NULL

\* While the module is loaded and the bot has no user (killed, or its nick
\* refused) a lua_startbot is pending: the bot always comes back.
RetryPending ==
    loaded /\ lua_nick = NULL => Live("lua_startbot") # {}

\* The parameter lists of the irc_on* functions a script defines, one role
\* per position, as the scripts read them: an optional nick is nil when
\* the ircd passed NULL, and every later argument keeps its position.
LuaApi ==
    [irc_onnewnick |-> <<"np">>, irc_onquit |-> <<"np">>, irc_onprequit |-> <<"np">>,
     irc_onauth |-> <<"np">>, irc_onrename |-> <<"np", "oldnick">>,
     irc_onkick |-> <<"chan", "kicked", "kicker", "message">>,
     irc_ontopic |-> <<"chan", "np", "topic">>,
     irc_onop |-> <<"chan", "np", "target">>, irc_ondeop |-> <<"chan", "np", "target">>,
     irc_onvoice |-> <<"chan", "np", "target">>, irc_ondevoice |-> <<"chan", "np", "target">>,
     irc_onjoin |-> <<"chan", "np">>, irc_onbanevade |-> <<"chan", "np">>,
     irc_onpart |-> <<"chan", "np", "reason">>,
     irc_onmode |-> <<"chan", "np", "allmodes", "limitedmodes">>,
     irc_ondisconnect |-> <<>>, irc_onpredisconnect |-> <<>>,
     irc_onconnect |-> <<>>, irc_onendofburst |-> <<>>]

Numbers == {"np", "kicked", "kicker", "target"}

\* Every call a hook handler makes into Lua (its signature string parsed by
\* _lua_vpcall against the arguments it passes) calls the handler's own
\* irc_on* function with exactly its parameter list: a number for each
\* nick, a string for each name and text, nil where an optional nick is
\* NULL, and nothing shifted, whichever branch of the handler ran.
HookArgsPositional ==
    lastcall.by = "hook" =>
        LET api == LuaApi[lastcall.fn]
        IN  /\ lastcall.callee = lastcall.fn
            /\ lastcall.args =
                 [k \in DOMAIN api |->
                    IF api[k] \in Optional /\ api[k] \notin lastcall.present THEN Nil
                    ELSE [type |-> IF api[k] \in Numbers THEN "number" ELSE "string", val |-> api[k]]]

\* No command a script runs, from a callback or a hook, gets the ircd to
\* kill (irc_kill, irc_skill) or gline an oper, a service or an
\* IRC-operator-flagged nick, nor to kick one unless the script turned the
\* checks off, nor deops a service (irc_clearmode); a gline lasts from one
\* second to 31 days and hit at most 50 users in the simulation.
DestructiveCommandsGuarded ==
    /\ lastcmd.op \in {"killuser", "glinebynickex"} => lastcmd.target \notin Protected
    /\ lastcmd.op = "localkickuser" /\ lastcmd.checks => lastcmd.target \notin Protected
    /\ lastcmd.op = "glinebynickex" =>
          lastcmd.duration \in 1 .. MaxGline /\ ~OverLimit(lastcmd.hits)
    /\ "service" \notin lastcmd.deops

\* The abstract life cycle, seen through the module's state: the bot is up
\* while loaded with a user, and the scheduled callbacks are those with an
\* event in the heap.
Lifecycle == INSTANCE LuaBotLifecycle
                WITH status <- IF ~loaded THEN "unloaded"
                               ELSE IF lua_nick # NULL THEN "up" ELSE "down",
                     scheduled <- {e.fn : e \in heap}

\* lua_startbot, lua_bothandler(LU_KILLED) and lua_destroybot, with their
\* handles and the scheduler's deleteschedule, implement the abstract life
\* cycle: every start leaves the bot up with exactly lua_blip and lua_tick
\* scheduled or down with only a retry scheduled, a kill leaves only the
\* retry, an unload leaves nothing, and no other step changes either.
LifecycleRefined == Lifecycle!Spec

\* After lua_destroybot nothing of the module stays scheduled: no callback
\* can run code that has been unloaded.
NothingAfterUnload ==
    ~loaded => heap = {} /\ hooked = {}

====
