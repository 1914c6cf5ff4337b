------------------------- MODULE AuthTrackerReentrant -------------------------
(***************************************************************************)
(* at_serverback (src/chanserv/authtracker/authtracker_db.c) as the loop   *)
(* it is: for each bucket, for each entry, read ndep = dep->next, call     *)
(* at_logquit, free the entry; then free the table and set ds[server] to   *)
(* NULL.  spec.md 4.2 allows the close-session callback to re-enter the    *)
(* engine (at_lostnick, at_foundnick) and requires the drained entries to  *)
(* be detached before any callback runs.  With Reentrant the registry      *)
(* operations of AuthTracker may run inside the callback; without it they  *)
(* run only between drains.  One server (MAXSERVERS = 1) is drained.       *)
(*                                                                         *)
(* Freed entries stay linked in their bucket until the table is freed, as  *)
(* free_de(dep) does not unlink.  Reading ->next of an entry that is no    *)
(* longer linked (freed by a re-entrant at_foundnick) is undefined: it     *)
(* yields NULL or any entry of the bucket.                                 *)
(***************************************************************************)
EXTENDS Integers, FiniteSets, Sequences, SequencesExt

CONSTANTS
    DANGLING_HASHSIZE,
    NumericsPerServer,
    Users,
    AuthTs,
    Reentrant,          \* the at_logquit callback may re-enter the registry
    NULL

ASSUME Reentrant \in BOOLEAN

VARIABLES
    ds,         \* ds[0]: NULL or the server's table
    pc,         \* at_serverback: "idle", "loop", "call" (inside at_logquit), "free"
    i,          \* the bucket the loop is in
    dep, ndep,  \* the loop's pointers
    freed,      \* entries free_de has freed during the current drain
    logged,     \* the entries at_logquit was called for, in order, this drain
    snapshot,   \* the table's entries when the drain began (history)
    pending     \* sessions marked dangling and neither returned nor closed (history)

vars == <<ds, pc, i, dep, ndep, freed, logged, snapshot, pending>>

AT == INSTANCE AuthTracker
        WITH MAXSERVERS <- 1, SharedAuthTs <- FALSE, UIntBits <- 3, ULongBits <- 5,
             Args <- {}, NoConn <- "NoConn", NoArg <- "NoArg", Junk <- "Junk",
             store <- {}, link <- <<>>, conn <- <<>>, nicks <- {}, quits <- {},
             up <- TRUE

S == 0
Buckets == 0 .. DANGLING_HASHSIZE - 1
Entry == AT!Entry
Linked == IF ds[S] = NULL THEN {} ELSE Range(AT!Drain(ds[S]))

-----------------------------------------------------------------------------

\* the bucket loop of at_serverback stopping one bucket short
MoreBucketsShort(j) == j + 1 < DANGLING_HASHSIZE - 1

\* for (i=0;i<DANGLING_HASHSIZE;i++): another bucket after j
MoreBuckets(j) == j + 1 < DANGLING_HASHSIZE

\* the head of bucket j of the server's table, read now
HeadOf(j) == IF ds[S][j] = <<>> THEN NULL ELSE Head(ds[S][j])

\* ndep = dep->next: the next link of a linked entry; anything for an
\* entry no longer linked
NextReads(e) ==
    LET c == ds[S][i]
        k == SelectInSeq(c, LAMBDA x : x = e)
    IN  IF k = 0 THEN {NULL} \cup Range(c)
        ELSE {IF k = Len(c) THEN NULL ELSE c[k + 1]}

-----------------------------------------------------------------------------
(***************************************************************************)
(* at_serverback, one step per statement group                             *)
(***************************************************************************)

\* if (!ds[server]) return -1; else start at bucket 0
SbStart ==
    /\ pc = "idle" /\ ds[S] # NULL
    /\ pc' = "loop" /\ i' = 0 /\ dep' = HeadOf(0) /\ ndep' = NULL
    /\ freed' = {} /\ logged' = <<>> /\ snapshot' = AT!Drain(ds[S])
    /\ UNCHANGED <<ds, pending>>

\* dep != NULL: ndep = dep->next; at_logquit(dep->userid, dep->authts, ...)
SbLogQuit ==
    /\ pc = "loop" /\ dep # NULL
    /\ \E nx \in NextReads(dep) : ndep' = nx
    /\ logged' = Append(logged, dep)
    /\ pending' = {p \in pending : p.userid # dep.userid \/ p.authts # dep.authts}
    /\ pc' = "call"
    /\ UNCHANGED <<ds, i, dep, freed, snapshot>>

\* back from at_logquit: free_de(dep); count++; dep = ndep
SbFree ==
    /\ pc = "call"
    /\ freed' = freed \cup {dep}
    /\ dep' = ndep /\ pc' = "loop"
    /\ UNCHANGED <<ds, i, ndep, logged, snapshot, pending>>

\* dep == NULL: the next bucket, or out of the loop
SbNextBucket ==
    /\ pc = "loop" /\ dep = NULL
    /\ IF MoreBuckets(i)
       THEN i' = i + 1 /\ dep' = HeadOf(i + 1) /\ pc' = "loop"
       ELSE UNCHANGED <<i, dep>> /\ pc' = "free"
    /\ UNCHANGED <<ds, ndep, freed, logged, snapshot, pending>>

\* nsfree(POOL_AUTHTRACKER, ds[server]); ds[server] = NULL; return count
SbEnd ==
    /\ pc = "free"
    /\ ds' = [ds EXCEPT ![S] = NULL] /\ pc' = "idle"
    /\ UNCHANGED <<i, dep, ndep, freed, logged, snapshot, pending>>

-----------------------------------------------------------------------------
(***************************************************************************)
(* The registry calls of the hooks, between drains or re-entrant           *)
(***************************************************************************)

MayCall == pc = "idle" \/ (Reentrant /\ pc = "call")

\* a split loses a session: at_lostnick(numeric, userid, authts, AT_NETSPLIT),
\* at most once per session (spec.md 4.2)
LostNick(n, u, t) ==
    LET e == [numeric |-> n, userid |-> u, authts |-> t, reason |-> AT!AT_NETSPLIT]
    IN  /\ MayCall
        /\ e \notin Linked /\ e \notin pending
        /\ pc = "call" => e \notin Range(logged)   \* not the session being closed
        /\ ds' = AT!at_lostnick(ds, n, u, t, AT!AT_NETSPLIT)
        /\ pending' = pending \cup {e}
        /\ UNCHANGED <<pc, i, dep, ndep, freed, logged, snapshot>>

\* the session returns: at_foundnick unlinks and frees its entry
FoundNick(e) ==
    LET r == AT!at_foundnick(ds, e.numeric, e.userid, e.authts)
    IN  /\ MayCall
        /\ e \in pending /\ r.found = 1
        /\ ds' = r.ds
        /\ pending' = pending \ {e}
        /\ UNCHANGED <<pc, i, dep, ndep, freed, logged, snapshot>>

Init ==
    /\ ds = [s \in {S} |-> NULL]
    /\ pc = "idle" /\ i = 0 /\ dep = NULL /\ ndep = NULL
    /\ freed = {} /\ logged = <<>> /\ snapshot = <<>> /\ pending = {}

Next ==
    \/ SbStart \/ SbLogQuit \/ SbFree \/ SbNextBucket \/ SbEnd
    \/ \E n \in AT!Numerics, u \in Users, t \in AuthTs : LostNick(n, u, t)
    \/ \E e \in pending : FoundNick(e)

Spec == Init /\ [][Next]_vars

-----------------------------------------------------------------------------

TypeOK ==
    /\ ds \in [{S} -> AT!Table \cup {NULL}]
    /\ pc \in {"idle", "loop", "call", "free"}
    /\ i \in Buckets
    /\ {dep, ndep} \subseteq Entry \cup {NULL}
    /\ freed \subseteq Entry /\ logged \in Seq(Entry) /\ pending \subseteq Entry

\* Once at_serverback has returned, it called at_logquit once for every
\* entry the table held when it began, in the order of the atomic
\* at_serverback AuthTracker uses (bucket 0 first, each chain from its head).
DrainIsAtomic ==
    pc = "idle" => logged = snapshot

\* Between drains no dangling session has been lost: every session
\* at_lostnick marked and that has neither returned nor been closed by
\* at_logquit is still in the registry (spec.md 4.2: a re-entrant call
\* cannot corrupt the in-progress drain).
NoLostSession ==
    pc = "idle" => pending \subseteq Linked

====
