---------------------------- MODULE LuaIterators ----------------------------
(***************************************************************************)
(* The nick iterator of the Lua bindings (src/lua/luacommands.c):          *)
(* irc_getfirstnick(pushers) resets the global cursor (hashindex,          *)
(* lasthashnick), builds the pusher list from its table argument with      *)
(* lua_setuppusher, and returns the first nick; each irc_getnextnick moves *)
(* the cursor on and pushes the fields of the next nick with               *)
(* lua_usepusher.  Between two calls nicks arrive (at the head of their    *)
(* hash bucket, the bucket of the hash of their name) and leave (irc_kill  *)
(* from the script itself, or a quit handled between two callbacks).       *)
(*                                                                         *)
(* A nick object is a model value: a nick that leaves is freed and its     *)
(* memory may come back as a new nick.  Reading the next pointer of a      *)
(* freed nick is undefined; it yields any nick or NULL.  What usepusher    *)
(* pushes is abstracted to how many values it pushes.                      *)
(***************************************************************************)
EXTENDS Integers, Sequences, SequencesExt, Functions, FiniteSets

CONSTANTS
    Nicks,          \* nick objects
    NICKHASHSIZE,
    Args,           \* first argument of irc_getfirstnick: NotTable or a sequence of table values
    NotTable,
    MAX_PUSHER,
    nickpushercount,
    NULL

ASSUME NICKHASHSIZE \in Nat \ {0} /\ MAX_PUSHER \in Nat /\ nickpushercount \in Nat

VARIABLES
    nicktable,      \* nicktable[b]: the chain of bucket b, head first
    hashindex,
    lasthashnick,
    nickhashpusher, \* the pusher list, as the sequence of pusher indexes before the NULL
    pushed,         \* values the last call returned to Lua
    lastarg,        \* the argument of the last irc_getfirstnick
    \* history of the current iteration, for the properties
    phase,          \* "none", "active" (a nick was returned) or "done" (0 returned)
    seen,           \* the nicks returned since irc_getfirstnick, in order
    stable,         \* the nicks present since irc_getfirstnick and not freed since
    stale           \* the cursor's nick was freed since irc_getfirstnick

vars == <<nicktable, hashindex, lasthashnick, nickhashpusher, pushed, lastarg,
          phase, seen, stable, stale>>

Buckets == 0 .. NICKHASHSIZE - 1
Live == UNION {Range(nicktable[b]) : b \in Buckets}

-----------------------------------------------------------------------------
(***************************************************************************)
(* Variants of definitions below, as a plausible bug would change them.    *)
(***************************************************************************)

\* lua_setuppusher without the max-- that keeps room for the terminator
PusherRoomFull(max) == max

\* lua_setuppusher without the upper bound of the index test
InPusherRangeNoUpper(v, pcount) == v >= 0

-----------------------------------------------------------------------------

\* max--: one slot of lp is kept for the terminating NULL
PusherRoom(max) == max - 1

\* (index >= 0) && (index < pcount)
InPusherRange(v, pcount) == v \in 0 .. pcount - 1

\* lua_setuppusher: the in-range integer values of the table, in lua_next
\* order, until max - 1 have been taken; no list for a non-table or max < 2
lua_setuppusher(arg, max, pcount) ==
    LET RECURSIVE take(_, _)
        take(s, lp) ==
            IF s = <<>> THEN lp
            ELSE LET lp2 == IF InPusherRange(Head(s), pcount) THEN Append(lp, Head(s)) ELSE lp
                 IN  IF Len(lp2) = PusherRoom(max) THEN lp2 ELSE take(Tail(s), lp2)
    IN  IF arg = NotTable \/ max < 2 THEN <<>> ELSE take(arg, <<>>)

\* lua_usepusher: one value per pusher of the list
lua_usepusher(lp) == Len(lp)

\* where the do-loop resumes its bucket scan: hashindex++
ScanStart(hi) == hi + 1

\* the do-loop of lua_getnextnick once lasthashnick is NULL: the first
\* non-empty bucket from hi on, or the end of the table
NextBucket(hi) ==
    LET RECURSIVE scan(_)
        scan(i) == IF i >= NICKHASHSIZE THEN [idx |-> i, cur |-> NULL]
                   ELSE IF nicktable[i] # <<>> THEN [idx |-> i, cur |-> Head(nicktable[i])]
                   ELSE scan(i + 1)
    IN  scan(hi)

\* the bucket a nick of the table is linked in
BucketOf(np) == CHOOSE b \in Buckets : np \in Range(nicktable[b])

\* lasthashnick->next of a nick in the table
Successor(np) ==
    LET c == nicktable[BucketOf(np)]
        i == SelectInSeq(c, LAMBDA x : x = np)
    IN  IF i = Len(c) THEN NULL ELSE c[i + 1]

\* (variant) lua_getnextnick with an if in place of its do-while: the end of a chain
\* ends the walk instead of moving to the next bucket
AdvanceNoRescan(hi, cur, nxt) ==
    IF cur = NULL THEN NextBucket(hi + 1)
    ELSE [idx |-> hi, cur |-> nxt]

\* the cursor lua_getnextnick moves to, from (hi, cur), given what the
\* next pointer of cur reads (nxt)
Advance(hi, cur, nxt) ==
    IF cur = NULL \/ nxt = NULL THEN NextBucket(ScanStart(hi))
    ELSE [idx |-> hi, cur |-> nxt]

\* the values lasthashnick->next may read
NextReads(cur) ==
    IF cur = NULL THEN {NULL}
    ELSE IF cur \in Live THEN {Successor(cur)}
    ELSE Nicks \cup {NULL}

\* lua_getnextnick from cursor (hi, cur) with pusher list lp: the
\* possible outcomes, each the new cursor and the number of values returned
lua_getnextnick(hi, cur, lp) ==
    IF cur = NULL /\ hi # -1 THEN {[idx |-> hi, cur |-> NULL, pushed |-> 0]}
    ELSE {LET r == Advance(hi, cur, nxt)
          IN  [idx |-> r.idx, cur |-> r.cur,
               pushed |-> IF r.cur = NULL THEN 0 ELSE lua_usepusher(lp)] :
            nxt \in NextReads(cur)}

-----------------------------------------------------------------------------
(***************************************************************************)
(* Actions                                                                 *)
(***************************************************************************)

SetCursor(r) == hashindex' = r.idx /\ lasthashnick' = r.cur /\ pushed' = r.pushed

\* irc_getfirstnick(arg): hashindex = -1, lasthashnick = NULL, the pusher
\* list, then lua_getnextnick
GetFirstNick(arg) ==
    LET lp == lua_setuppusher(arg, MAX_PUSHER, nickpushercount)
    IN  /\ nickhashpusher' = lp
        /\ lastarg' = arg
        /\ \E r \in lua_getnextnick(-1, NULL, lp) :
              /\ SetCursor(r)
              /\ phase' = IF r.cur = NULL THEN "done" ELSE "active"
              /\ seen' = IF r.cur = NULL THEN <<>> ELSE <<r.cur>>
        /\ stable' = Live
        /\ stale' = FALSE
        /\ UNCHANGED nicktable

\* irc_getnextnick()
GetNextNick ==
    /\ \E r \in lua_getnextnick(hashindex, lasthashnick, nickhashpusher) :
          /\ SetCursor(r)
          /\ phase' = IF r.cur # NULL THEN "active" ELSE IF phase = "none" THEN "none" ELSE "done"
          /\ seen' = IF r.cur = NULL \/ stale THEN seen ELSE Append(seen, r.cur)  \* the history ends with a freed cursor
    /\ UNCHANGED <<nicktable, nickhashpusher, lastarg, stable, stale>>

\* a nick object is allocated and linked at the head of bucket b, the
\* bucket of its name's hash
NewNick(np, b) ==
    /\ np \notin Live
    /\ nicktable' = [nicktable EXCEPT ![b] = <<np>> \o @]
    /\ UNCHANGED <<hashindex, lasthashnick, nickhashpusher, pushed, lastarg, phase, seen, stable, stale>>

\* a nick leaves: unlinked from its bucket and freed
LostNick(np) ==
    /\ np \in Live
    /\ nicktable' = [nicktable EXCEPT ![BucketOf(np)] = Remove(@, np)]
    /\ stable' = stable \ {np}
    /\ stale' = (stale \/ (phase = "active" /\ np = lasthashnick))
    /\ UNCHANGED <<hashindex, lasthashnick, nickhashpusher, pushed, lastarg, phase, seen>>

Init ==
    /\ nicktable = [b \in Buckets |-> <<>>]
    /\ hashindex = 0
    /\ lasthashnick = NULL
    /\ nickhashpusher = <<>>
    /\ pushed = 0
    /\ lastarg = NotTable
    /\ phase = "none"
    /\ seen = <<>>
    /\ stable = {}
    /\ stale = FALSE

Next ==
    \/ \E arg \in Args : GetFirstNick(arg)
    \/ GetNextNick
    \/ \E np \in Nicks, b \in Buckets : NewNick(np, b)
    \/ \E np \in Nicks : LostNick(np)

Spec == Init /\ [][Next]_vars

-----------------------------------------------------------------------------
(***************************************************************************)
(* Properties                                                              *)
(***************************************************************************)

TypeOK ==
    /\ nicktable \in [Buckets -> Seq(Nicks)]
    /\ hashindex \in -1 .. NICKHASHSIZE
    /\ lasthashnick \in Nicks \cup {NULL}
    /\ nickhashpusher \in Seq(0 .. nickpushercount - 1)
    /\ Len(nickhashpusher) < MAX_PUSHER   \* it and its NULL fit in the array
    /\ pushed \in 0 .. MAX_PUSHER - 1
    /\ phase \in {"none", "active", "done"}
    /\ seen \in Seq(Nicks) /\ stable \subseteq Nicks /\ stale \in BOOLEAN

\* An iteration that ran to its end (irc_getnextnick returned nothing)
\* without the cursor's own nick being freed under it returned every nick
\* that was in the table the whole time exactly once, whatever other
\* nicks arrived or left between the calls: the bucket walk of
\* lua_getnextnick resumes exactly where it stopped.
IterationExact ==
    phase = "done" /\ ~stale =>
        \A np \in stable : Cardinality({i \in DOMAIN seen : seen[i] = np}) = 1

\* The pusher list is the first MAX_PUSHER - 1 in-range integers of the
\* table irc_getfirstnick was given, in table order, and every nick
\* returned pushes one value per entry, until the next irc_getfirstnick.
PusherMatchesTable ==
    LET valid == SelectSeq(IF lastarg = NotTable THEN <<>> ELSE lastarg,
                           LAMBDA x : x \in 0 .. nickpushercount - 1)
        want  == IF MAX_PUSHER < 2 THEN <<>>
                 ELSE SubSeq(valid, 1, IF Len(valid) < MAX_PUSHER - 1 THEN Len(valid) ELSE MAX_PUSHER - 1)
    IN  /\ nickhashpusher = want
        /\ lasthashnick # NULL => pushed = Len(nickhashpusher)

====
