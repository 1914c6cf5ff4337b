------------------------------- MODULE GeoIP -------------------------------
(***************************************************************************)
(* The GeoIP statistics module (src/geoip/geoip.c): per-country counters   *)
(* geoip_totals kept in step with the nick table through the NEWNICK and   *)
(* LOSTNICK hooks, with the country of each nick cached in a nick          *)
(* extension slot.  The module can be loaded while nicks already exist and *)
(* unloaded and reloaded at any time.                                      *)
(*                                                                         *)
(* The GeoIP database is a function from the IPv4 address of a nick to the *)
(* id GeoIP_id_by_ipnum returns; an address is a model value, its id given *)
(* by IpId.  An extension slot that was never written reads NULL, i.e. 0   *)
(* once cast to an int.                                                    *)
(***************************************************************************)
EXTENDS Integers, FiniteSets

CONSTANTS
    Nicks,          \* nick objects that may exist
    V4Addrs,        \* IPv4 addresses
    V6Addrs,        \* IPv6 addresses (geoip only supports IPv4)
    IpId(_),        \* GeoIP_id_by_ipnum of an IPv4 address
    COUNTRY_MIN,
    COUNTRY_MAX,
    CountryCode(_), \* GeoIP_country_code[i]
    NoNick

ASSUME COUNTRY_MIN \in Int /\ COUNTRY_MAX \in Nat /\ COUNTRY_MIN <= COUNTRY_MAX

VARIABLES
    addr,           \* addr[n]: the address of live nick n, or NoNick
    exts,           \* exts[n]: the geoip extension slot of nick n (0 = NULL)
    geoip_totals,   \* the counters, index 0 .. COUNTRY_MAX
    gi,             \* the database is open
    geoip_nickext,  \* -1, or the extension slot registered
    hooked,         \* geoip_new_nick / geoip_quit are registered
    loaded          \* the module is loaded

vars == <<addr, exts, geoip_totals, gi, geoip_nickext, hooked, loaded>>

NULL == 0
Slot == 0
Addrs == V4Addrs \cup V6Addrs
Live == {n \in Nicks : addr[n] # NoNick}

-----------------------------------------------------------------------------
(***************************************************************************)
(* Variants of definitions below, as a plausible bug would change them.    *)
(***************************************************************************)

\* geoip_totals declared one element short (int geoip_totals[COUNTRY_MAX])
TotalsIndexShort == 0 .. COUNTRY_MAX - 1

\* the range check of geoip_setupuser dropped
InRangeAny(country) == country \in 0 .. COUNTRY_MAX

\* geoip_setupuser counting the nick without caching its country
CacheNone(e, np, country) == e

-----------------------------------------------------------------------------

\* int geoip_totals[COUNTRY_MAX + 1]
TotalsIndex == 0 .. COUNTRY_MAX

\* the range test of geoip_setupuser, geoip_quit and the whois handler
InRange(country) == (country >= COUNTRY_MIN) /\ (country <= COUNTRY_MAX)

\* np->exts[geoip_nickext] = (void *)(long)country
Cache(e, np, country) == [e EXCEPT ![np] = country]

\* geoip_setupuser: IPv6 and out-of-range ids are not counted
geoip_setupuser(st, np, a) ==
    IF a \in V6Addrs THEN st
    ELSE LET country == IpId(a)
         IN  IF ~InRange(country) THEN st
             ELSE [totals |-> [st.totals EXCEPT ![country] = @ + 1],
                   exts   |-> Cache(st.exts, np, country)]

\* geoip_quit: the cached item, decremented when it is in range
geoip_quit(totals, item) ==
    IF ~InRange(item) THEN totals ELSE [totals EXCEPT ![item] = @ - 1]

\* geoip_lookupcode: the first id in [COUNTRY_MIN, COUNTRY_MAX) whose code
\* matches, or -1
geoip_lookupcode(code) ==
    LET RECURSIVE search(_)
        search(i) == IF i >= COUNTRY_MAX THEN -1
                     ELSE IF CountryCode(i) = code THEN i
                     ELSE search(i + 1)
    IN  search(COUNTRY_MIN)

-----------------------------------------------------------------------------
(***************************************************************************)
(* Module load and unload, and the nick hooks                              *)
(***************************************************************************)

\* dlopen gives fresh statics (geoip_nickext = -1, gi = NULL, zero totals);
\* _init then opens the database, registers the extension, zeroes the
\* totals, counts every existing nick and registers the hooks.  Either of
\* the first two may fail and end _init early.
Load(dbok, extok) ==
    /\ ~loaded
    /\ loaded' = TRUE
    /\ gi' = dbok
    /\ IF dbok /\ extok
       THEN LET st == [totals |-> [i \in TotalsIndex |-> 0], exts |-> exts]
                r  == LET RECURSIVE scan(_, _)
                          scan(s, ns) == IF ns = {} THEN s
                                         ELSE LET np == CHOOSE x \in ns : TRUE
                                              IN  scan(geoip_setupuser(s, np, addr[np]), ns \ {np})
                      IN  scan(st, Live)
            IN  /\ geoip_nickext' = Slot
                /\ geoip_totals' = r.totals
                /\ exts' = r.exts
                /\ hooked' = TRUE
       ELSE /\ geoip_nickext' = -1
            /\ geoip_totals' = [i \in TotalsIndex |-> 0]
            /\ hooked' = FALSE
            /\ UNCHANGED exts
    /\ UNCHANGED addr

\* _fini: close the database; when the extension was registered, release
\* it (every nick's slot is cleared) and deregister the hooks
Unload ==
    /\ loaded
    /\ loaded' = FALSE
    /\ gi' = FALSE
    /\ IF geoip_nickext = -1
       THEN UNCHANGED <<exts, hooked>>
       ELSE /\ exts' = [n \in Nicks |-> NULL]
            /\ hooked' = FALSE
    /\ UNCHANGED <<addr, geoip_totals, geoip_nickext>>

\* a nick is created with NULL extension slots; HOOK_NICK_NEWNICK
NewNick(np, a) ==
    /\ addr[np] = NoNick
    /\ addr' = [addr EXCEPT ![np] = a]
    /\ LET fresh == [totals |-> geoip_totals, exts |-> [exts EXCEPT ![np] = NULL]]
           r == IF hooked THEN geoip_setupuser(fresh, np, a) ELSE fresh
       IN  /\ geoip_totals' = r.totals
           /\ exts' = r.exts
    /\ UNCHANGED <<gi, geoip_nickext, hooked, loaded>>

\* HOOK_NICK_LOSTNICK, then the nick is freed
LostNick(np) ==
    /\ addr[np] # NoNick
    /\ geoip_totals' = IF hooked THEN geoip_quit(geoip_totals, exts[np])
                       ELSE geoip_totals
    /\ addr' = [addr EXCEPT ![np] = NoNick]
    /\ exts' = [exts EXCEPT ![np] = NULL]
    /\ UNCHANGED <<gi, geoip_nickext, hooked, loaded>>

Init ==
    /\ addr = [n \in Nicks |-> NoNick]
    /\ exts = [n \in Nicks |-> NULL]
    /\ geoip_totals = [i \in TotalsIndex |-> 0]
    /\ gi = FALSE
    /\ geoip_nickext = -1
    /\ hooked = FALSE
    /\ loaded = FALSE

Next ==
    \/ \E dbok, extok \in BOOLEAN : Load(dbok, extok)
    \/ Unload
    \/ \E np \in Nicks, a \in Addrs : NewNick(np, a)
    \/ \E np \in Nicks : LostNick(np)

Spec == Init /\ [][Next]_vars

-----------------------------------------------------------------------------
(***************************************************************************)
(* Properties                                                              *)
(***************************************************************************)

\* the country a live nick is counted under: its address's id when that is
\* an IPv4 address with an id in range
CountryOf(np) ==
    IF addr[np] \in V4Addrs /\ IpId(addr[np]) \in COUNTRY_MIN .. COUNTRY_MAX THEN IpId(addr[np]) ELSE NoNick

TypeOK ==
    /\ addr \in [Nicks -> Addrs \cup {NoNick}]
    /\ exts \in [Nicks -> Int]
    /\ geoip_totals \in [0 .. COUNTRY_MAX -> Int]
    /\ gi \in BOOLEAN /\ hooked \in BOOLEAN /\ loaded \in BOOLEAN
    /\ geoip_nickext \in {-1, Slot}

\* While the hooks are registered, geoip_totals[c] is the number of live
\* nicks in country c, whichever of nicks existing at load, nicks arriving
\* and leaving afterwards, IPv6 nicks and nicks of unknown address came and
\* went: the scan of _init, geoip_setupuser and geoip_quit keep it so.
TotalsMatchNicks ==
    hooked => \A c \in TotalsIndex :
                 geoip_totals[c] = Cardinality({n \in Live : CountryOf(n) = c})

\* The code of the country a live nick is counted under leads back to that
\* country through geoip_lookupcode: lookups by code and the counters of
\* geoip_setupuser agree on the range of country ids.
LookupCodeInverts ==
    hooked => \A n \in Live : CountryOf(n) # NoNick =>
                 geoip_lookupcode(CountryCode(CountryOf(n))) = CountryOf(n)

====
