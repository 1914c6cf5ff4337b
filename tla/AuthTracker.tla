----------------------------- MODULE AuthTracker -----------------------------
(***************************************************************************)
(* The authtracker's dangling-session registry (chanserv/authtracker/      *)
(* authtracker_db.c) driven by the events of an IRC network.               *)
(*                                                                         *)
(* ds[server] is NULL or a table of DANGLING_HASHSIZE chained buckets; a   *)
(* bucket is a sequence whose head is the head of the C list.  The         *)
(* registry operations are operators on a value of ds, translated line by  *)
(* line; the hook handlers, the durable session table and the network are  *)
(* modelled from spec.md (their code is not in this repository).           *)
(*                                                                         *)
(* The network: every server is linked, split (LS_SQUIT) or re-linking and *)
(* bursting.  conn[n] is what really holds numeric n on its server; nicks  *)
(* is what newserv sees.  While a server is split its users may quit and   *)
(* numerics may be reused by other users, invisibly.                       *)
(***************************************************************************)
EXTENDS Integers, FiniteSets, Sequences, SequencesExt

CONSTANTS
    MAXSERVERS,         \* size of ds[] (server numerics 0..MAXSERVERS-1)
    DANGLING_HASHSIZE,  \* buckets per server table
    NumericsPerServer,  \* user numerics per server in the model
    Users,              \* account ids
    AuthTs,             \* account timestamps
    SharedAuthTs,       \* may two live sessions carry the same (userid, authts)?
    UIntBits,           \* width of unsigned int
    ULongBits,          \* width of unsigned long
    Args,               \* what an operator may pass to delinkauthtracker
    NULL, NoConn, NoArg, Junk

ASSUME /\ MAXSERVERS \in Nat \ {0} /\ DANGLING_HASHSIZE \in Nat \ {0}
       /\ NumericsPerServer \in Nat \ {0}
       /\ SharedAuthTs \in BOOLEAN
       /\ MAXSERVERS < 2^UIntBits /\ UIntBits < ULongBits

VARIABLES
    ds,     \* the registry: ds[server] = NULL or a bucket table
    store,  \* open records of the durable session table
    link,   \* link state of every server, as newserv sees it
    conn,   \* the real holder of each numeric (also on the far side of a split)
    nicks,  \* newserv's nick table: the live nicks it can see
    quits,  \* the at_logquit calls made by the last step (history only)
    up      \* the tracker's process is running

vars == <<ds, store, link, conn, nicks, quits, up>>

Servers  == 0 .. MAXSERVERS - 1
Buckets  == 0 .. DANGLING_HASHSIZE - 1
Numerics == 0 .. MAXSERVERS * NumericsPerServer - 1

LS_LINKED  == "linked"
LS_SQUIT   == "squit"
LS_LINKING == "linking"

AT_NETSPLIT == "AT_NETSPLIT"
AT_RESTART  == "AT_RESTART"

CMD_OK    == "CMD_OK"
CMD_ERROR == "CMD_ERROR"

Account == [userid : Users, authts : AuthTs]
Session == [numeric : Numerics, userid : Users, authts : AuthTs]
Entry   == [numeric : Numerics, userid : Users, authts : AuthTs,
            reason : {AT_NETSPLIT, AT_RESTART}]
Table   == [Buckets -> Seq(Entry)]
Quit    == [userid : Users, authts : AuthTs,
            reason : {AT_NETSPLIT, AT_RESTART, "quit"},
            by : {"quit", "serverback", "flushghosts", "delinkdb"}]

ULONG_MAX == 2^ULongBits - 1

-----------------------------------------------------------------------------
(***************************************************************************)
(* Variants of definitions below, as a plausible bug would change them.    *)
(***************************************************************************)

\* at_foundnick not comparing the account id
MatchesNoUserid(dep, numeric, userid, accountts) ==
    dep.numeric = numeric /\ dep.authts = accountts

\* at_foundnick not comparing the authentication timestamp
MatchesNoAuthts(dep, numeric, userid, accountts) ==
    dep.numeric = numeric /\ dep.userid = userid

\* at_flushghosts stopping one server short
FlushServersShort(linked) == {i \in 0 .. MAXSERVERS - 2 : linked[i]}

\* at_foundnick reporting the match but leaving it chained
UnlinkKept(bucket, i) == bucket

\* at_flushghosts without the linkstate test
FlushServersAll(linked) == 0 .. MAXSERVERS - 1

\* the bucket initialisation loop of at_lostnick stopping one short
EmptyTableShort == [i \in 0 .. DANGLING_HASHSIZE - 2 |-> <<>>]

-----------------------------------------------------------------------------
(***************************************************************************)
(* The registry: authtracker_db.c                                          *)
(***************************************************************************)

\* nick.h: the server part of a user numeric
homeserver(x) == x \div NumericsPerServer

dangling_hash(x) == x % DANGLING_HASHSIZE

\* a fresh server table: every bucket empty
EmptyTable == [i \in Buckets |-> <<>>]

\* at_lostnick: create the server's table if needed, prepend the entry
at_lostnick(d, numeric, userid, accountts, reason) ==
    LET server  == homeserver(numeric)
        thehash == dangling_hash(numeric)
        table   == IF d[server] = NULL THEN EmptyTable ELSE d[server]
        dep     == [numeric |-> numeric, userid |-> userid,
                    authts |-> accountts, reason |-> reason]
    IN  [d EXCEPT ![server] = [table EXCEPT ![thehash] = <<dep>> \o @]]

\* the comparison at_foundnick makes on every entry of the chain
Matches(dep, numeric, userid, accountts) ==
    /\ dep.numeric = numeric
    /\ dep.userid = userid
    /\ dep.authts = accountts

\* *deh = dep->next: unlink the i-th entry of the chain
Unlink(bucket, i) == RemoveAt(bucket, i)

\* at_foundnick: remove the first match of the triple; found is 1 or 0.
\* The server's table is left in place even when it becomes empty.
at_foundnick(d, numeric, userid, accountts) ==
    LET server  == homeserver(numeric)
        thehash == dangling_hash(numeric)
        i == IF d[server] = NULL THEN 0
             ELSE SelectInSeq(d[server][thehash],
                              LAMBDA e : Matches(e, numeric, userid, accountts))
    IN  IF i = 0 THEN [found |-> 0, ds |-> d]
        ELSE [found |-> 1,
              ds |-> [d EXCEPT ![server][thehash] = Unlink(@, i)]]

\* every entry of a table, bucket 0 first, each chain from its head
Drain(table) == FlattenSeq([j \in 1 .. DANGLING_HASHSIZE |-> table[j - 1]])

\* at_serverback: -1 when there is no table; otherwise at_logquit for
\* every entry (quits, in order), free the table and return the count
at_serverback(d, server) ==
    IF d[server] = NULL THEN [count |-> -1, ds |-> d, quits |-> <<>>]
    ELSE LET q == Drain(d[server])
         IN  [count |-> Len(q), ds |-> [d EXCEPT ![server] = NULL], quits |-> q]

\* the servers at_flushghosts visits: serverlist[i].linkstate == LS_LINKED
FlushServers(linked) == {i \in 0 .. MAXSERVERS - 1 : linked[i]}

\* at_flushghosts: at_serverback on every linked server, in numeric order
at_flushghosts(d, linked) ==
    LET step(acc, i) ==
            IF i \in FlushServers(linked)
            THEN LET r == at_serverback(acc.ds, i)
                 IN  [ds |-> r.ds, quits |-> acc.quits \o r.quits]
            ELSE acc
    IN  FoldLeft(step, [ds |-> d, quits |-> <<>>],
                 [j \in 1 .. MAXSERVERS |-> j - 1])

\* strtoul(argv[0], NULL, 10): no digits give 0, a leading '-' negates in
\* unsigned arithmetic, out of range saturates at ULONG_MAX
strtoul(a) ==
    LET mag == IF a = Junk THEN 0 ELSE IF a < 0 THEN -a ELSE a
    IN  CASE a = Junk         -> 0
          [] mag > ULONG_MAX  -> ULONG_MAX
          [] a >= 0           -> a
          [] OTHER            -> (2^ULongBits - mag) % 2^ULongBits

\* the implicit conversion of the unsigned long to unsigned int numeric
ToUInt(x) == x % 2^UIntBits

\* the range check of at_delinkdb
NumericInRange(numeric) == numeric < MAXSERVERS

\* at_delinkdb: the delinkauthtracker command
at_delinkdb(d, arg) ==
    IF arg = NoArg
    THEN [rc |-> CMD_ERROR, ds |-> d, quits |-> <<>>]
    ELSE LET numeric == ToUInt(strtoul(arg))
         IN  IF ~NumericInRange(numeric)
             THEN [rc |-> CMD_ERROR, ds |-> d, quits |-> <<>>]
             ELSE LET r == at_serverback(d, numeric)
                  IN  [rc |-> IF r.count = -1 THEN CMD_ERROR ELSE CMD_OK,
                       ds |-> r.ds, quits |-> r.quits]

\* at_dumpdb: one line per server that has a table, with its entry count
at_dumpdb(d) ==
    {[server |-> i, count |-> Len(Drain(d[i]))] : i \in {s \in Servers : d[s] # NULL}}

-----------------------------------------------------------------------------
(***************************************************************************)
(* The durable session table (authtracker_query.c, from spec.md 4.3)       *)
(***************************************************************************)

SessionOf(n, a) == [numeric |-> n, userid |-> a.userid, authts |-> a.authts]

\* at_logquit: close the open records of (userid, accountts); the call
\* carries no numeric, so every record with that pair is closed
at_logquit(st, calls) ==
    {r \in st : ~\E q \in calls : r.userid = q.userid /\ r.authts = q.authts}

\* at_lognewsession
at_lognewsession(st, n, a) == st \cup {SessionOf(n, a)}

\* the open records whose nick newserv does not see (at_finddanglingsessions)
Orphans(st, nk) == {r \in st : nk[r.numeric] # [userid |-> r.userid, authts |-> r.authts]}

\* the at_logquit calls of a drained list, as issued from call site `by`
LogCalls(q, by) ==
    {[userid |-> q[i].userid, authts |-> q[i].authts,
      reason |-> q[i].reason, by |-> by] : i \in 1 .. Len(q)}

-----------------------------------------------------------------------------
(***************************************************************************)
(* Hooks and network (authtracker_hooks.c, spec.md 4.4)                    *)
(***************************************************************************)

\* the entries of every table, and their keys
Entries(d) == UNION {Range(d[s][b]) : s \in {x \in Servers : d[x] # NULL}, b \in Buckets}

KeyOf(e) == [numeric |-> e.numeric, userid |-> e.userid, authts |-> e.authts]

\* a record is held when its numeric carries its (userid, authts)
Held(r) == nicks[r.numeric] = [userid |-> r.userid, authts |-> r.authts]

\* (userid, authts) is in use by a connection, an open record or a
\* dangling entry (authts is the time of the authentication: a new one
\* never repeats a timestamp still remembered anywhere)
InUse(a) == \/ \E n \in Numerics : conn[n] = a
            \/ \E r \in store \cup {KeyOf(e) : e \in Entries(ds)} :
                   r.userid = a.userid /\ r.authts = a.authts

\* the account timestamp of a new authentication
FreshAuth(a) == SharedAuthTs \/ ~InUse(a)

OnServer(s) == {n \in Numerics : homeserver(n) = s}

\* the hook for an authed nick newserv sees (new, or in a burst): ask
\* at_foundnick, log a new session when it was not dangling
FoundOrNew(n, a) ==
    LET r == at_foundnick(ds, n, a.userid, a.authts)
    IN  /\ ds' = r.ds
        /\ store' = IF r.found = 1 THEN store ELSE at_lognewsession(store, n, a)

\* a user connects to a linked server and authenticates; authentication
\* goes through newserv, so none happens while the tracker is down
NewNick(n, a) ==
    /\ up
    /\ link[homeserver(n)] = LS_LINKED
    /\ conn[n] = NoConn
    /\ FreshAuth(a)
    /\ FoundOrNew(n, a)
    /\ conn' = [conn EXCEPT ![n] = a]
    /\ nicks' = [nicks EXCEPT ![n] = a]
    /\ quits' = {}
    /\ UNCHANGED <<link, up>>

\* a nick quits while its server is linked: the hook closes the session
QuitNick(n) ==
    /\ link[homeserver(n)] = LS_LINKED
    /\ nicks[n] # NoConn
    /\ LET call == {[userid |-> nicks[n].userid, authts |-> nicks[n].authts,
                     reason |-> "quit", by |-> "quit"]}
       IN  IF up THEN store' = at_logquit(store, call) /\ quits' = call
                 ELSE UNCHANGED store /\ quits' = {}
    /\ conn' = [conn EXCEPT ![n] = NoConn]
    /\ nicks' = [nicks EXCEPT ![n] = NoConn]
    /\ UNCHANGED <<ds, link, up>>

\* server s splits: every nick of s is lost while s is not linked, so the
\* hook calls at_lostnick(AT_NETSPLIT) for each of them
Netsplit(s) ==
    /\ link[s] \in {LS_LINKED, LS_LINKING}
    /\ LET lost == {n \in OnServer(s) : nicks[n] # NoConn}
       IN  /\ ds' = IF ~up THEN ds
                    ELSE FoldSet(LAMBDA n, d : at_lostnick(d, n, nicks[n].userid,
                                                  nicks[n].authts, AT_NETSPLIT),
                                 ds, lost)
           /\ nicks' = [n \in Numerics |-> IF n \in lost THEN NoConn ELSE nicks[n]]
    /\ link' = [link EXCEPT ![s] = LS_SQUIT]
    /\ quits' = {}
    /\ UNCHANGED <<store, conn, up>>

\* on the far side of a split a user quits, unseen
FarQuit(n) ==
    /\ link[homeserver(n)] = LS_SQUIT
    /\ conn[n] # NoConn
    /\ conn' = [conn EXCEPT ![n] = NoConn]
    /\ quits' = {}
    /\ UNCHANGED <<ds, store, link, nicks, up>>

\* on the far side of a split an authed user appears on a numeric,
\* possibly one that a dangling session used (spec I2)
FarNewNick(n, a) ==
    /\ up
    /\ link[homeserver(n)] = LS_SQUIT
    /\ conn[n] = NoConn
    /\ FreshAuth(a)
    /\ conn' = [conn EXCEPT ![n] = a]
    /\ quits' = {}
    /\ UNCHANGED <<ds, store, link, nicks, up>>

\* a split server reconnects and starts its burst
StartLink(s) ==
    /\ link[s] = LS_SQUIT
    /\ link' = [link EXCEPT ![s] = LS_LINKING]
    /\ quits' = {}
    /\ UNCHANGED <<ds, store, conn, nicks, up>>

\* one nick of the burst arrives
BurstNick(n) ==
    /\ link[homeserver(n)] = LS_LINKING
    /\ conn[n] # NoConn
    /\ nicks[n] = NoConn
    /\ IF up THEN FoundOrNew(n, conn[n]) ELSE UNCHANGED <<ds, store>>
    /\ nicks' = [nicks EXCEPT ![n] = conn[n]]
    /\ quits' = {}
    /\ UNCHANGED <<link, conn, up>>

\* the burst is complete and the server fully linked: at_serverback
EndOfBurst(s) ==
    /\ link[s] = LS_LINKING
    /\ \A n \in OnServer(s) : nicks[n] = conn[n]
    /\ IF up
       THEN LET r == at_serverback(ds, s)
                calls == LogCalls(r.quits, "serverback")
            IN  /\ ds' = r.ds
                /\ store' = at_logquit(store, calls)
                /\ quits' = calls
       ELSE UNCHANGED <<ds, store>> /\ quits' = {}
    /\ link' = [link EXCEPT ![s] = LS_LINKED]
    /\ UNCHANGED <<conn, nicks, up>>

\* the tracker stops; the registry is process memory and is lost
Crash ==
    /\ up
    /\ up' = FALSE
    /\ ds' = [s \in Servers |-> NULL]
    /\ quits' = {}
    /\ UNCHANGED <<store, link, conn, nicks>>

\* the tracker starts: once the session table is loaded every open record
\* without a live nick is marked with at_lostnick(AT_RESTART)
Start ==
    /\ ~up
    /\ up' = TRUE
    /\ ds' = FoldSet(LAMBDA r, d : at_lostnick(d, r.numeric, r.userid,
                                               r.authts, AT_RESTART),
                     ds, Orphans(store, nicks))
    /\ quits' = {}
    /\ UNCHANGED <<store, link, conn, nicks>>

\* the periodic sweep: at_flushghosts
FlushGhosts ==
    /\ up
    /\ LET r == at_flushghosts(ds, [i \in Servers |-> link[i] = LS_LINKED])
           calls == LogCalls(r.quits, "flushghosts")
       IN  /\ ds' = r.ds
           /\ store' = at_logquit(store, calls)
           /\ quits' = calls
    /\ UNCHANGED <<link, conn, nicks, up>>

\* an operator runs delinkauthtracker <arg>
DelinkDb(arg) ==
    /\ up
    /\ LET r == at_delinkdb(ds, arg)
           calls == LogCalls(r.quits, "delinkdb")
       IN  /\ ds' = r.ds
           /\ store' = at_logquit(store, calls)
           /\ quits' = calls
    /\ UNCHANGED <<link, conn, nicks, up>>

Init ==
    /\ ds = [s \in Servers |-> NULL]
    /\ store = {}
    /\ link = [s \in Servers |-> LS_LINKED]
    /\ conn = [n \in Numerics |-> NoConn]
    /\ nicks = [n \in Numerics |-> NoConn]
    /\ quits = {}
    /\ up = TRUE

Next ==
    \/ \E n \in Numerics, a \in Account : NewNick(n, a) \/ FarNewNick(n, a)
    \/ \E n \in Numerics : QuitNick(n) \/ FarQuit(n) \/ BurstNick(n)
    \/ \E s \in Servers : Netsplit(s) \/ StartLink(s) \/ EndOfBurst(s)
    \/ Crash \/ Start
    \/ FlushGhosts
    \/ \E arg \in Args : DelinkDb(arg)

\* the sweep runs off a timer, so it is weakly fair; the network and the
\* users are not
Spec == Init /\ [][Next]_vars /\ WF_vars(FlushGhosts)

-----------------------------------------------------------------------------
(***************************************************************************)
(* Properties                                                              *)
(***************************************************************************)

TypeOK ==
    /\ ds \in [Servers -> Table \cup {NULL}]
    /\ store \subseteq Session
    /\ link \in [Servers -> {LS_LINKED, LS_SQUIT, LS_LINKING}]
    /\ conn \in [Numerics -> Account \cup {NoConn}]
    /\ nicks \in [Numerics -> Account \cup {NoConn}]
    /\ quits \subseteq Quit
    /\ up \in BOOLEAN

\* The registry and the session table agree (spec I4 and 4.3) while the
\* tracker runs: every open record that no live nick holds is dangling,
\* and no dangling entry is held by a live nick, across splits, returns,
\* sweeps and restarts.  (A nick burst while the tracker was down has no
\* record, so its entry after a later split may have none either.)  Broken
\* by a hook, a match or a drain that loses or keeps the wrong entry.
Reconciled ==
    up => /\ {r \in store : ~Held(r)} \subseteq {KeyOf(e) : e \in Entries(ds)}
          /\ \A e \in Entries(ds) : ~Held(KeyOf(e))

\* P1: no (numeric, userid, authts) is dangling twice, in any bucket of any
\* table (at_lostnick does not check for duplicates).
NoDuplicateEntry ==
    LET slots == UNION {{<<s, b, i>> : i \in 1 .. Len(ds[s][b])} :
                            s \in {x \in Servers : ds[x] # NULL}, b \in Buckets}
        at(p) == KeyOf(ds[p[1]][p[2]][p[3]])
    IN  \A p, q \in slots : at(p) = at(q) => p = q

\* No automatic path (quit, end of burst, sweep) closes the session of a
\* user who is still connected, even on the far side of a split; only the
\* operator's delinkauthtracker may.
NoFalseClose ==
    [][\A q \in quits' : q.by # "delinkdb" =>
           \A n \in Numerics : conn'[n] # [userid |-> q.userid, authts |-> q.authts]]_vars

\* A dangling session whose server is linked does not stay open for ever
\* while the tracker runs: unless its user comes back, the server splits
\* again or the tracker stops, the at_flushghosts sweep closes it (it may
\* have been marked at restart, when no burst will follow).
DanglingDoesNotLinger ==
    \A r \in Session :
        (up /\ r \in store /\ ~Held(r) /\ link[homeserver(r.numeric)] = LS_LINKED)
            ~> (~up \/ r \notin store \/ Held(r)
                \/ link[homeserver(r.numeric)] # LS_LINKED)

\* spec I3 / P2 and the dump of spec 6: a server table exists only while it
\* holds an entry, so every server the dump (at_dumpdb) lists has entries.
TableIffNonEmpty ==
    \A line \in at_dumpdb(ds) : line.count > 0

\* spec 6 / 7: delinkauthtracker succeeds only for an argument that is a
\* server numeric; anything else is rejected at the command boundary.
DelinkRejectsInvalid ==
    [][\A arg \in Args : DelinkDb(arg) /\ at_delinkdb(ds, arg).rc = CMD_OK
                            => arg \in Servers]_vars

\* The registry implements the per-session state machine of spec.md 4.2:
\* seen through the nick table and the set of entries in ds, every step
\* is a step of DanglingSessions.  A wrong match in at_foundnick, or an
\* entry removed or kept by the wrong path, is a step it does not allow.
Abstract == INSTANCE DanglingSessions
    WITH Keys <- Session, Servers <- Servers, Home <- homeserver,
         Reasons <- {AT_NETSPLIT, AT_RESTART},
         NetsplitReason <- AT_NETSPLIT, RestartReason <- AT_RESTART,
         live <- {SessionOf(n, nicks[n]) : n \in {x \in Numerics : nicks[x] # NoConn}},
         dangling <- Entries(ds),
         running <- up

Refinement == Abstract!Spec

=============================================================================
