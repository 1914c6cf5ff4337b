--------------------------- MODULE LuaChanIterator ---------------------------
(***************************************************************************)
(* The channel iterator of the Lua bindings (src/lua/luacommands.c):       *)
(* irc_getfirstchan / irc_getnextchan walk the chanindex hash table with   *)
(* the global cursor (chanhashindex, lasthashchan), skipping chanindex     *)
(* entries that have no channel (registered names nobody is on), and push  *)
(* the fields of the channel with lua_usepusher, which dereferences        *)
(* ->channel for every pusher but the name.  Between two calls channels    *)
(* are created and destroyed; a chanindex without channel may be released *)
(* (unlinked and freed) and its memory reused.  Reading ->next of a freed  *)
(* chanindex yields any chanindex or NULL.  The pusher list is the one     *)
(* LuaIterators models; here only its use matters.                         *)
(***************************************************************************)
EXTENDS Integers, Sequences, SequencesExt, Functions, FiniteSets

CONSTANTS
    Chans,              \* chanindex objects
    CHANNELHASHSIZE,
    NULL

ASSUME CHANNELHASHSIZE \in Nat \ {0}

VARIABLES
    chantable,          \* chantable[b]: the chain of bucket b, head first
    haschannel,         \* haschannel[c]: chanindex c has a channel
    chanhashindex,
    lasthashchan,
    returned,           \* the chanindex the last step returned to Lua, or NULL
    \* history of the current iteration, for the properties
    phase, seen, stable, stale

vars == <<chantable, haschannel, chanhashindex, lasthashchan, returned,
          phase, seen, stable, stale>>

Buckets == 0 .. CHANNELHASHSIZE - 1
Linked == UNION {Range(chantable[b]) : b \in Buckets}
WithChannel == {c \in Linked : haschannel[c]}

-----------------------------------------------------------------------------

\* the end-of-table test one bucket early
PastEndLast(i) == i >= CHANNELHASHSIZE - 1

\* while(!lasthashchan || !lasthashchan->channel): the walk stops only at
\* a chanindex with a channel
ShowsChannel(c) == haschannel[c]

\* chanhashindex >= CHANNELHASHSIZE
PastEnd(i) == i >= CHANNELHASHSIZE

\* the bucket a linked chanindex is in, and its ->next
BucketOf(c) == CHOOSE b \in Buckets : c \in Range(chantable[b])
Successor(c) ==
    LET ch == chantable[BucketOf(c)]
        i  == SelectInSeq(ch, LAMBDA x : x = c)
    IN  IF i = Len(ch) THEN NULL ELSE ch[i + 1]

\* the values lasthashchan->next may read
NextReads(cur) ==
    IF cur = NULL THEN {NULL}
    ELSE IF cur \in Linked THEN {Successor(cur)}
    ELSE Chans \cup {NULL}

\* the do-while of lua_getnextchan from (hi, cur): a step (to ->next, or
\* to the head of the next bucket once cur is NULL), repeated while the
\* cursor is NULL or has no channel; nxt is what the first ->next reads
Walk(hi, cur, nxt) ==
    LET RECURSIVE loop(_, _)
        loop(i, c) ==
            IF c # NULL /\ ShowsChannel(c) THEN [idx |-> i, cur |-> c]
            ELSE IF c = NULL
                 THEN IF PastEnd(i + 1) THEN [idx |-> i + 1, cur |-> NULL]
                      ELSE loop(i + 1, IF chantable[i + 1] = <<>> THEN NULL ELSE Head(chantable[i + 1]))
                 ELSE loop(i, Successor(c))
        first == IF cur = NULL
                 THEN IF PastEnd(hi + 1) THEN [idx |-> hi + 1, cur |-> NULL]
                      ELSE [idx |-> hi + 1, cur |-> IF chantable[hi + 1] = <<>> THEN NULL ELSE Head(chantable[hi + 1])]
                 ELSE [idx |-> hi, cur |-> nxt]
    IN  IF PastEnd(first.idx) THEN first
        ELSE IF first.cur # NULL /\ first.cur \notin Linked THEN first
        ELSE loop(first.idx, first.cur)

\* lua_getnextchan: the early return, else the outcomes of the walk
lua_getnextchan(hi, cur) ==
    IF cur = NULL /\ hi # -1 THEN {[idx |-> hi, cur |-> NULL]}
    ELSE {Walk(hi, cur, nxt) : nxt \in NextReads(cur)}

-----------------------------------------------------------------------------

\* irc_getfirstchan: chanhashindex = -1, lasthashchan = NULL, then
\* lua_getnextchan
GetFirstChan ==
    /\ \E r \in lua_getnextchan(-1, NULL) :
          /\ chanhashindex' = r.idx /\ lasthashchan' = r.cur /\ returned' = r.cur
          /\ phase' = IF r.cur = NULL THEN "done" ELSE "active"
          /\ seen' = IF r.cur = NULL THEN <<>> ELSE <<r.cur>>
    /\ stable' = WithChannel
    /\ stale' = FALSE
    /\ UNCHANGED <<chantable, haschannel>>

\* irc_getnextchan
GetNextChan ==
    /\ \E r \in lua_getnextchan(chanhashindex, lasthashchan) :
          /\ chanhashindex' = r.idx /\ lasthashchan' = r.cur /\ returned' = r.cur
          /\ phase' = IF r.cur # NULL THEN "active" ELSE IF phase = "none" THEN "none" ELSE "done"
          /\ seen' = IF r.cur = NULL \/ stale THEN seen ELSE Append(seen, r.cur)
    /\ UNCHANGED <<chantable, haschannel, stable, stale>>

\* a channel is created: on its chanindex, linked at the head of bucket b
\* when the name had none
CreateChannel(c, b) ==
    /\ c \notin WithChannel
    /\ chantable' = IF c \in Linked THEN chantable ELSE [chantable EXCEPT ![b] = <<c>> \o @]
    /\ haschannel' = [haschannel EXCEPT ![c] = TRUE]
    /\ returned' = NULL
    /\ UNCHANGED <<chanhashindex, lasthashchan, phase, seen, stable, stale>>

\* the last user leaves: the channel is freed, its chanindex stays
DestroyChannel(c) ==
    /\ c \in WithChannel
    /\ haschannel' = [haschannel EXCEPT ![c] = FALSE]
    /\ stable' = stable \ {c}
    /\ returned' = NULL
    /\ UNCHANGED <<chantable, chanhashindex, lasthashchan, phase, seen, stale>>

\* releasechanindex: a chanindex without channel nor other users is
\* unlinked and freed
ReleaseChanIndex(c) ==
    /\ c \in Linked /\ ~haschannel[c]
    /\ chantable' = [chantable EXCEPT ![BucketOf(c)] = Remove(@, c)]
    /\ stale' = (stale \/ (phase = "active" /\ c = lasthashchan))
    /\ returned' = NULL
    /\ UNCHANGED <<haschannel, chanhashindex, lasthashchan, phase, seen, stable>>

Init ==
    /\ chantable = [b \in Buckets |-> <<>>]
    /\ haschannel = [c \in Chans |-> FALSE]
    /\ chanhashindex = 0
    /\ lasthashchan = NULL
    /\ returned = NULL
    /\ phase = "none" /\ seen = <<>> /\ stable = {} /\ stale = FALSE

Next ==
    \/ GetFirstChan
    \/ GetNextChan
    \/ \E c \in Chans, b \in Buckets : CreateChannel(c, b)
    \/ \E c \in Chans : DestroyChannel(c) \/ ReleaseChanIndex(c)

Spec == Init /\ [][Next]_vars

-----------------------------------------------------------------------------

TypeOK ==
    /\ chantable \in [Buckets -> Seq(Chans)]
    /\ haschannel \in [Chans -> BOOLEAN]
    /\ chanhashindex \in -1 .. CHANNELHASHSIZE
    /\ {lasthashchan, returned} \subseteq Chans \cup {NULL}
    /\ phase \in {"none", "active", "done"}
    /\ seen \in Seq(Chans) /\ stable \subseteq Chans /\ stale \in BOOLEAN

\* A walk that ran to its end without its cursor being freed returned,
\* exactly once each, the channels that existed the whole time.
IterationExact ==
    phase = "done" /\ ~stale =>
        \A c \in stable : Cardinality({i \in DOMAIN seen : seen[i] = c}) = 1

====
