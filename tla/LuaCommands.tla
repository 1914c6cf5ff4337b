----------------------------- MODULE LuaCommands -----------------------------
(***************************************************************************)
(* The command bindings of src/lua/luacommands.c that act on the network   *)
(* through the bot (irc_chanmsg, irc_ctcp, irc_notice, irc_privmsg,        *)
(* irc_kill, irc_kick, irc_invite, irc_gline, irc_opchan, irc_deopchan,    *)
(* irc_voicechan, irc_skill, irc_smsg, irc_chanfix, irc_topic, irc_ban,   *)
(* irc_simplechanmode, irc_sethost, irc_clearmode), each the chain of checks of its C function and what it  *)
(* asks of the ircd.  A binding returns [ret, op, target, checks,          *)
(* duration, hits]: what it returns to Lua, the ircd call it made ("none"  *)
(* for none), the kind of nick it acted on, and what that call was given.  *)
(*                                                                         *)
(* What the ircd looks up is abstracted to the outcome: getnickbynick      *)
(* yields a nick of one of Kinds ("none" when there is no such nick),      *)
(* findchannel finds the channel or not, lua_lineok accepts the text or    *)
(* not, glinebynick(GLINE_SIMULATE) counts hits.                           *)
(***************************************************************************)
EXTENDS Integers

\* IsOper(np) || IsService(np) || IsXOper(np)
Protected == {"oper", "service", "xoper"}
Kinds == {"none", "plain"} \cup Protected

MaxGline == 31 * 86400
LUA_OK == "LUA_OK"
LUA_FAIL == "LUA_FAIL"

Fail == [ret |-> LUA_FAIL, op |-> "none", target |-> "none", checks |-> FALSE,
         duration |-> 0, hits |-> 0, deops |-> {}]

\* a binding that reached its ircd call op on a nick of kind t
Did(ret, op, t) == [Fail EXCEPT !.ret = ret, !.op = op, !.target = t]

\* lua_cmsg(LUA_PUKECHAN, ...): the report goes to the puke channel; FAIL
\* when the channel does not exist or the formatted line is refused
lua_cmsg(puke, lineok) == IF puke /\ lineok THEN LUA_OK ELSE LUA_FAIL

IsProtected(k) == k \in Protected

\* lua_chanmsg: lua_cmsg of the script's text on the puke channel
lua_chanmsg(strs, lineok, puke) ==
    IF ~strs THEN Fail
    ELSE IF lua_cmsg(puke, lineok) = LUA_FAIL THEN Fail
    ELSE Did(LUA_OK, "lua_channelmessage", "none")

\* lua_ctcp: the CTCP to the nick, then the report to the puke channel,
\* whose result is what Lua gets
lua_ctcp(strs, target, lineok, puke) ==
    IF ~strs \/ target = "none" \/ ~lineok THEN Fail
    ELSE Did(lua_cmsg(puke, TRUE), "lua_message", target)

\* lua_noticecmd and lua_privmsgcmd
lua_sendcmd(op, strs, target, lineok) ==
    IF ~strs \/ target = "none" \/ ~lineok THEN Fail
    ELSE Did(LUA_OK, op, target)

\* (variant) lua_kill testing IsOper and IsService only
lua_killNoXOper(strs, target, lineok, puke) ==
    IF ~strs \/ target = "none" \/ target \in {"oper", "service"} \/ ~lineok THEN Fail
    ELSE Did(lua_cmsg(puke, TRUE), "killuser", target)

\* lua_kill: no nick, a protected nick or a refused reason fails; else
\* killuser(lua_nick, np) and Lua gets the result of the report
lua_kill(strs, target, lineok, puke) ==
    IF ~strs \/ target = "none" \/ IsProtected(target) \/ ~lineok THEN Fail
    ELSE Did(lua_cmsg(puke, TRUE), "killuser", target)

\* lua_kick: dochecks unless the fourth argument is the boolean false
lua_kick(strs, fourth, target, chan, lineok) ==
    LET dochecks == fourth # "false"
    IN  IF ~strs \/ target = "none" \/ (dochecks /\ IsProtected(target))
           \/ ~chan \/ ~lineok THEN Fail
        ELSE [Did(LUA_OK, "localkickuser", target) EXCEPT !.checks = dochecks]

\* lua_invite
lua_invite(strs, target, chan) ==
    IF ~strs \/ target = "none" \/ ~chan THEN Fail
    ELSE Did(LUA_OK, "localinvite", target)

\* lua_opchan, lua_deopchan, lua_voicechan: localsetmodes(lua_nick, cp,
\* np, mode); the channel is looked up before the nick
lua_setmode(mode, strs, chan, target) ==
    IF ~strs \/ ~chan \/ target = "none" THEN Fail
    ELSE Did(LUA_OK, mode, target)

\* lua_skill (irc_skill): lua_kill's checks and killuser, without the report
lua_skill(strs, target, lineok) ==
    IF ~strs \/ target = "none" \/ IsProtected(target) \/ ~lineok THEN Fail
    ELSE Did(LUA_OK, "killuser", target)

\* lua_smsg (irc_smsg): lua_cmsg of the text on the channel the script names
lua_smsg(strs, chan, lineok) ==
    IF ~strs \/ lua_cmsg(chan, lineok) = LUA_FAIL THEN Fail
    ELSE Did(LUA_OK, "lua_channelmessage", "none")

\* lua_chanfix: "chanfix #chan" to the nick LUA_CHANFIXBOT (of kind bot)
lua_chanfix(strs, chan, bot) ==
    IF ~strs \/ ~chan \/ bot = "none" THEN Fail
    ELSE Did(LUA_OK, "lua_message", bot)

\* lua_topic: localsettopic(lua_nick, cp, topic)
lua_topic(strs, chan, lineok) ==
    IF ~strs \/ ~chan \/ ~lineok THEN Fail
    ELSE Did(LUA_OK, "localsettopic", "none")

\* lua_ban: a non-empty mask the line check accepts is set, or removed
\* when the third argument is true
lua_ban(strs, chan, mask, lineok) ==
    IF ~strs \/ ~chan \/ mask = "empty" \/ ~lineok THEN Fail
    ELSE Did(LUA_OK, "localdosetmode_ban", "none")

\* lua_simplechanmode: both setflags passes must accept every mode letter
\* (only permitted, known modes)
lua_simplechanmode(strs, chan, modes) ==
    IF ~strs \/ ~chan \/ modes # "permitted" THEN Fail
    ELSE Did(LUA_OK, "localdosetmode_simple", "none")

\* lua_sethost: the nick by numeric, ident and host through lua_lineok
lua_sethost(types, target, lineok) ==
    IF ~types \/ target = "none" \/ ~lineok THEN Fail
    ELSE Did(LUA_OK, "sethostuser", target)

\* lua_clearmode: -k, -i, -l, every ban, and -o for each op of the channel
\* (ops: the kinds of the opped members) that is not a service
ClearDeops(ops) == {k \in ops : k # "service"}

lua_clearmode(strs, chan, ops) ==
    IF ~strs \/ ~chan THEN Fail
    ELSE [Did(LUA_OK, "clearmode", "none") EXCEPT !.deops = ClearDeops(ops)]

\* glinebynick(target, duration, reason, GLINE_SIMULATE, "lua") > 50
OverLimit(hits) == hits > 50

\* lua_gline: duration in 1 .. 31 days, a reason, an unprotected nick, at
\* most 50 users hit by the simulation; then glinebynickex and the report
lua_gline(types, duration, lineok, target, hits, puke) ==
    IF ~types \/ duration < 1 \/ duration > MaxGline \/ ~lineok
       \/ target = "none" \/ IsProtected(target) \/ OverLimit(hits) THEN Fail
    ELSE [Did(lua_cmsg(puke, TRUE), "glinebynickex", target)
            EXCEPT !.duration = duration, !.hits = hits]

====
