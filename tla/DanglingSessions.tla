--------------------------- MODULE DanglingSessions ---------------------------
(***************************************************************************)
(* What the reconciliation engine promises (spec.md 4.2, 4.4), per session *)
(* key (numeric, userid, authts):                                          *)
(*                                                                         *)
(*   LIVE --uncertainty--> DANGLING --return--> LIVE                       *)
(*   DANGLING --server confirmed back / admin--> FINALIZED                 *)
(*                                                                         *)
(* live is the set of keys of the sessions newserv sees; dangling the set  *)
(* of dangling entries (key and reason); running whether the tracker is   *)
(* up.  A stop forgets everything; while stopped sessions come and go      *)
(* unobserved; a start re-marks sessions that are not live as dangling for *)
(* AT_RESTART.                                                             *)
(***************************************************************************)
EXTENDS FiniteSets

CONSTANTS
    Keys,           \* records [numeric, userid, authts]
    Servers,
    Home(_),        \* the server of a numeric
    Reasons,        \* {netsplit reason, restart reason}
    NetsplitReason,
    RestartReason

VARIABLES live, dangling, running

KeyOf(e) == [numeric |-> e.numeric, userid |-> e.userid, authts |-> e.authts]

DanglingKeys == {KeyOf(e) : e \in dangling}

EntryOf(k, why) == [numeric |-> k.numeric, userid |-> k.userid,
                    authts |-> k.authts, reason |-> why]

OnServer(S, s) == {x \in S : Home(x.numeric) = s}

TypeOK ==
    /\ live \subseteq Keys
    /\ dangling \subseteq {EntryOf(k, why) : k \in Keys, why \in Reasons}
    /\ running \in BOOLEAN

Init == live = {} /\ dangling = {} /\ running = TRUE

\* a session starts (a new nick that was not dangling)
Open(k) ==
    /\ running
    /\ k \notin live
    /\ k \notin DanglingKeys
    /\ live' = live \cup {k}
    /\ UNCHANGED <<dangling, running>>

\* a dangling session's user is seen again with the same key
Return(k) ==
    /\ running
    /\ k \notin live
    /\ k \in DanglingKeys
    /\ live' = live \cup {k}
    /\ dangling' = {e \in dangling : KeyOf(e) # k}
    /\ UNCHANGED running

\* a live session ends normally
Close(k) ==
    /\ running
    /\ k \in live
    /\ live' = live \ {k}
    /\ UNCHANGED <<dangling, running>>

\* server s becomes unreachable: its live sessions become dangling
Split(s) ==
    /\ running
    /\ live' = live \ OnServer(live, s)
    /\ dangling' = dangling \cup {EntryOf(k, NetsplitReason) : k \in OnServer(live, s)}
    /\ UNCHANGED running

\* the servers in SS are confirmed back (or delinked by hand): every
\* session still dangling there is finalized
Finalize(SS) ==
    /\ running
    /\ dangling' = {e \in dangling : Home(e.numeric) \notin SS}
    /\ UNCHANGED <<live, running>>

\* the process stops: the registry is lost
Stop ==
    /\ running
    /\ running' = FALSE
    /\ dangling' = {}
    /\ UNCHANGED live

\* while stopped, sessions open and close unobserved
Unobserved ==
    /\ ~running
    /\ live' \subseteq Keys
    /\ UNCHANGED <<dangling, running>>

\* the process starts and marks sessions that are not live as dangling
Restart ==
    /\ ~running
    /\ running' = TRUE
    /\ dangling' \subseteq {EntryOf(k, RestartReason) : k \in Keys \ live}
    /\ UNCHANGED live

Next ==
    \/ \E k \in Keys : Open(k) \/ Return(k) \/ Close(k)
    \/ \E s \in Servers : Split(s)
    \/ \E SS \in SUBSET Servers : Finalize(SS)
    \/ Stop \/ Unobserved \/ Restart

Spec == Init /\ [][Next]_<<live, dangling, running>>

=============================================================================
