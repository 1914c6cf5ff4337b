# TLA+ models of newserv's authtracker, Lua bot and GeoIP modules

This directory holds TLA+ modules and TLC configurations that model the C
sources under `src/` of this repository, plus a `PROJECT.json` that maps every
modelled definition to the lines of code it stands for.

## 1. Inventory

### 1.1 Components

| Component | Source | State it keeps | Operations (state changing) |
|---|---|---|---|
| Dangling registry (authtracker) | `src/chanserv/authtracker/authtracker_db.c` | `ds[MAXSERVERS]`: per server either `NULL` or a table of `DANGLING_HASHSIZE` chained buckets of `dangling_entry {numeric, userid, authts, losttime, reason}` | `at_lostnick` (insert, create table), `at_foundnick` (remove first triple match), `at_serverback` (drain + `at_logquit` per entry + free table), `at_flushghosts` (serverback on every `LS_LINKED` server), `at_delinkdb` (admin: parse numeric, serverback), `at_dumpdb` (read only) |
| Session persistence bridge | `authtracker.h` declarations only (`at_logquit`, `at_lognewsession`, `at_finddanglingsessions` live in `authtracker_query.c`, not in `src/`) | durable session table: one record per open session | close (keyed by userid + authts only), open, restart scan for orphans — modelled from spec.md §4.3 |
| Event binding (hooks) | `authtracker.h` declarations only (`authtracker_hooks.c` not in `src/`) | none of its own | new authed nick → `at_foundnick` / open session; lost nick → `at_lostnick` (split) or close (quit); server linked → `at_serverback`; db loaded → orphan scan — modelled from spec.md §4.4 |
| Lua bot lifecycle | `src/lua/luabot.c` | `lua_nick`, `myureconnect`, `myublip`, `myutick`, registered hooks, `luabotnick` | `lua_startbot` (register user or reschedule itself), `lua_destroybot`, `lua_bothandler` `LU_KILLED` (drop schedules, schedule reconnect), hook handlers forwarding events to Lua |
| Lua call marshalling | `src/lua/luabot.c` `_lua_vpcall` | Lua stack | parse a signature string, push arguments, pcall |
| Lua command bindings | `src/lua/luacommands.c` | iterator cursors `hashindex/lasthashnick`, `chanhashindex/lasthashchan`, `channelnicklist*`; pusher tables `nickpusher`, `chanpusher` | per-command guard chains (kill, kick, gline, ...), nick/channel/channel-member iterators, `lua_setuppusher`/`lua_usepusher` |
| GeoIP statistics | `src/geoip/geoip.c` | `geoip_totals[COUNTRY_MAX+1]`, per-nick extension slot holding the country | `_init` (count every existing nick, register hooks), `geoip_new_nick`, `geoip_quit`, `_fini`, `geoip_lookupcode` (pure) |
| Jupes | `src/jupe/jupe.h` | list of jupes | declarations only — nothing to model |

### 1.2 How the components interact

* The authtracker is driven by ircd events delivered synchronously through
  hooks (single thread, one event loop): a nick leaving in a netsplit is
  inserted into `ds` (`at_lostnick`); a nick reappearing in the relink burst is
  removed (`at_foundnick`); the end of the burst (server fully linked) finalises
  everything still dangling for that server (`at_serverback` → `at_logquit` for
  each entry, which closes the durable session record). `at_flushghosts` does
  the same for every linked server (periodic / after the restart scan), and the
  `delinkauthtracker` command does it for a named server.
* The durable session table outlives the process; the in-memory registry does
  not. After a (module) restart the orphan scan re-creates a `RESTART` entry for
  every open record whose nick is not live.
* The Lua bot registers a local user and recurring scheduler callbacks; the
  ircd kills the bot user (`LU_KILLED`), which must cancel the callbacks and
  schedule a reconnect; module unload (`lua_destroybot`) cancels everything.
* Lua scripts call the command bindings; the iterator commands keep global
  cursors into the nick / channel hash tables between calls, while other
  commands (`irc_kill`, `irc_kick`) can delete the very objects the cursors
  point at.
* GeoIP keeps per-country counters in step with `HOOK_NICK_NEWNICK` /
  `HOOK_NICK_LOSTNICK`.

### 1.3 What is hard

* Authtracker: three asynchronous event streams (users returning, servers
  relinking, the tracker restarting) plus the hidden real state of the far side
  of a split (users quitting and numerics being recycled while we cannot see
  them); the triple key `(numeric, userid, authts)`; a durable store whose
  close operation is keyed by `(userid, authts)` only; admin commands racing
  the automatic paths; an argument parser with integer truncation.
* Lua bot: teardown ordering of scheduler handles (the kill handler clears the
  handle before using it), re-registration after reconnect, unload while a
  reconnect is pending.
* Lua iterators: cursor state kept across calls while the iterated tables
  change underneath.
* GeoIP: counter consistency across module load with pre-existing nicks and
  nicks without a country.

### 1.4 Properties that make each component correct

* Registry + store + nick table (authtracker): every open durable session is
  either held by the live nick that owns it or dangling in the registry, and
  vice versa; no key dangles twice; the automatic paths never close the session
  of a user who is still connected; a dangling session on a linked server does not linger; the hash table implements the
  abstract set-of-dangling-sessions state machine of spec.md §4.2.
* Admin surface: only well-formed server numerics are accepted; a table exists
  iff it is non-empty (spec I3 / P2).
* Lua bot: at most one live instance of each recurring callback; after
  unload, no callback into the module remains scheduled.
* Lua iterators: no cursor dereferences a freed nick / channel.
* GeoIP: `geoip_totals[c]` equals the number of live nicks whose extension is
  `c`; `geoip_lookupcode` inverts the country code table on
  `[COUNTRY_MIN, COUNTRY_MAX]`.

## 2. Plan

Order: most important behaviour first. Status as of now in brackets.

1. **`AuthTracker`** [done]: registry operations translated from
   `authtracker_db.c`, composed with the spec-modelled environment (servers
   splitting, far-side quits/connects with recycled numerics, relink bursts,
   tracker crash and start with the orphan scan, periodic sweep, admin
   delink) and the spec-modelled durable store.
2. **`DanglingSessions`** [done]: abstract specification of spec.md §4.2;
   `AuthTracker` refines it.
3. Violation runs found while modelling [done]: empty tables left behind
   (spec I3), delink argument parsing (spec §6/§7), close keyed by
   `(userid, authts)` (spec gap).
4. **`AuthTrackerReentrant`** [done]: `at_serverback` as a loop of
   single-entry steps with re-entrant callbacks (spec.md §4.2 requires
   detach-before-callback) to show what the code's free-after-callbacks
   order allows.
5. **`LuaBot`** [done]: `lua_startbot`, `lua_destroybot`,
   `lua_bothandler`(`LU_KILLED`), scheduler firing, hook delivery; the
   scheduler's `deleteschedule(NULL, ...)` behaviour as a constant.
6. **`LuaIterators`**, **`LuaChanIterator`** [nick and channel iterators
   and pushers done; the channel-member iterator to do]: `lua_getfirstnick`/`lua_getnextnick`
   interleaved with nicks arriving and being freed.
7. **`_lua_vpcall`** [done, inside `LuaBot`]: the signature parser and
   the stack it builds for every hook handler, checked against the
   argument list each handler's Lua function is documented to take.
8. **`GeoIP`** [done]: counters over nick arrival/loss and module
   load/unload; `geoip_lookupcode` against the code table.
9. **`LuaCommands`** [done for the bindings that act on the network]:
   the guard chains of kill, kick, gline, clearmode and the other
   commands, composed into `LuaBot` as a `Command` step after a callback.
10. **`LuaBotLifecycle`** [done]: the abstract life cycle of the bot,
    refined by `LuaBot`.

## 3. Modules

### 3.1 `AuthTracker` (with `DanglingSessions`, `MC_AuthTracker`)

State: `ds` (per server `NULL` or a table of `DANGLING_HASHSIZE` buckets, each
a sequence of entries `[numeric, userid, authts, reason]`, newest first as
`at_lostnick` pushes at the head), `store` (the durable session records:
open sessions keyed by `(userid, authts)`), `link` (per server its link
state), `conn` (the real far-side state of each numeric, which the tracker
cannot see during a split), `nicks` (what this side sees), `quits` (the
closes issued, for the action property) and `up` (the tracker runs).

Actions: `NewNick`, `QuitNick` (local events); `Netsplit` (every nick of a
server is lost: `at_lostnick(AT_NETSPLIT)`); `FarQuit`, `FarNewNick` (the far
side changes, numerics recycled); `StartLink`, `BurstNick` (`at_foundnick`
or a new session), `EndOfBurst` (`at_serverback`); `Crash` (`ds` lost) and
`Start` (the orphan scan marks every open record without a live nick with
`AT_RESTART`); `FlushGhosts` (`at_flushghosts`); `DelinkDb`
(`at_delinkdb`, with the raw argument from a small set including malformed
ones). Operators translated from `authtracker_db.c` carry its function
names; the bridge (`at_logquit`, `at_lognewsession`) and the hooks are
modelled from spec.md §4.3/§4.4 because their C files are not in `src/`.

`DanglingSessions` is the abstract machine: a set of dangling sessions with
Open/Return/Close/Split/Finalize and Stop/Unobserved/Restart. `AuthTracker`
maps `dangling` to the set of entries of `ds` and `running` to `up`.

Integers: `unsigned int` and `unsigned long` are scaled to `UIntBits = 3`
and `ULongBits = 5` bits so that TLC's 32-bit integers can represent the
truncation of `strtoul` to the numeric's width; what matters is that the
long is wider than the int, not the absolute widths.

### 3.2 `GeoIP` (with `MC_GeoIP`)

State: `addr` (live nicks and their addresses), `exts` (each nick's
extension slot, 0 = NULL), `geoip_totals`, `gi`, `geoip_nickext`, `hooked`,
`loaded`. Actions: `Load(dbok, extok)` is the whole `_init` with both early
returns and the scan of the existing nick table; `Unload` is `_fini`;
`NewNick` and `LostNick` are a nick arriving / leaving with the hooks run
when registered. A module load starts from fresh statics (the `.so` is
reloaded). `geoip_lookupcode` is a RECURSIVE operator.

### 3.3 `LuaBot` (with `LuaBotLifecycle`, `MC_LuaBot`)

State: `lua_nick`, the three scheduler handles, the scheduler heap (a set of
events `[id, fn, recurring]`), `hooked` (the set of (hook number, handler)
pairs registered with the hook table), `loaded`, and `lastcall` (which
callback or hook last called into Lua and whether `lua_nick` was set).
Actions: `Load` (fresh statics, then `lua_startbot`), `FireReconnect`
(the oneshot `lua_startbot` runs), `FireRecurring` (`lua_blip`/`lua_tick`),
`Deliver` (any hook handler), `Killed` (`lua_bothandler` with
`LU_KILLED`), `Unload` (`lua_destroybot`). `registerlocaluser` succeeding
or failing is a nondeterministic choice; ids handed out by the scheduler
are any free ids. `lua_registerevents` and `lua_deregisterevents` are
their two hand-kept lists of 20 pairs (luabot.c:41-86); `lua_startbot`
adds the first to `hooked`, `lua_destroybot` removes the second, and
`Deliver` reaches only a handler some registered pair names. The mutant
that drops the last deregistration line is caught by `NothingAfterUnload`.

`_lua_vpcall` is `lua_vpcall(defined, fn, sig, va)`: the signature is a
tuple of characters, `PushArgs` is the recursive loop over it (it stops at
`>`, counts an argument for every character, known or not, and yields
"garbage" once the varargs run out, as `va_arg` past the end does), and
`VaArgs(c)` says how many C arguments each character consumes (`L`
takes two). The stack is `<<scripterror, fn>>` followed by the pushed
values, and `lua_pcall` calls the slot `Len - narg`. `HookCall(h, p)` is
the table of hook handlers with their exact signatures; `p` is which
optional pointers (channel, kicker, reason, ...) are non-NULL for this
event (`Pointers(h)` restricts it to the handler's own). `Message` is
`lua_bothandler` for private messages and notices, with the CTCP
unwrapping of `NoticeCall`. `Command(b)` runs one command binding of
`LuaCommands` after any call into Lua, with the script's arguments and
the ircd's answers drawn from small sets (`Bindings`).

The scheduler (`core/schedule.c`) is not in this repository. The model
assumes what the handler code relies on: `deleteschedule(sch, fn, arg)`
deletes `sch` when it is an event of `fn`, and otherwise searches for an
event of `fn` (constant `DeleteScheduleSearches`, TRUE in the run).

`LuaBotLifecycle` is what the bot promises without handles or ids: the
module is unloaded, or loaded with the bot up (`lua_blip` and `lua_tick`
scheduled) or down (only a `lua_startbot` scheduled); `Load` and `Start`
end up or down, `Kill` takes the bot down, `Unload` leaves nothing
scheduled. `LuaBot` instantiates it with `status` computed from `loaded`
and `lua_nick`, and `scheduled` the callbacks that have an event in the
heap; `LifecycleRefined` checks `Lifecycle!Spec` against `LuaBot`.

### 3.3a `LuaCommands` (operators only, composed into `LuaBot`)

One operator per binding of `luacommands.c` that calls the ircd: each is
the binding's chain of checks (argument types, nick lookup, protection,
channel lookup, `lua_lineok`, the gline duration and hit limit) and yields
`[ret, op, target, checks, duration, hits, deops]`: what Lua gets back,
the ircd call made (`"none"` when a check failed), the kind of nick acted
on and the arguments of that call. Lookups are abstracted to their
outcome: a nick is one of `Kinds` (`none`, `plain`, `oper`, `service`,
`xoper`), a channel exists or not, a line is accepted or not.
`lua_clearmode` yields the kinds of the members it deops.

### 3.4 `LuaIterators` (with `MC_LuaIterators`)

State: `nicktable` (bucket chains, head first), the cursor `hashindex` /
`lasthashnick`, `nickhashpusher` (the pusher list as the sequence of pusher
indexes before the terminating NULL), `pushed` (values the last call
returned), and history variables for the properties (`lastarg`, `phase`,
`seen`, `stable`, `stale`). Actions: `GetFirstNick(arg)`
(`lua_getfirstnick`, including `lua_setuppusher` and the first
`lua_getnextnick`), `GetNextNick`, and the environment's `NewNick(np, b)`
(linked at the head of bucket `b`, the hash of its name) and `LostNick`
(unlinked and freed). A freed nick object may be allocated again. Reading
`->next` of a freed cursor is undefined behaviour and yields any nick or
NULL; `IterationExact` is stated for iterations whose cursor was not freed,
and the hazard list records the freed-cursor case.

### 3.5 `LuaChanIterator` (with `MC_LuaChanIterator`)

The same cursor pattern over the chanindex table: `chantable`,
`haschannel` (a chanindex has a channel), `chanhashindex` /
`lasthashchan`, and `returned` (what the last call gave Lua). The do-while
of `lua_getnextchan` is the RECURSIVE `Walk`, which also skips a chanindex
without a channel. The environment is `CreateChannel` (on an existing
chanindex or a new one linked at a bucket head), `DestroyChannel` (the
chanindex stays) and `ReleaseChanIndex` (a chanindex without channel is
unlinked and freed, and may be reused).

### 3.6 `AuthTrackerReentrant` (with `MC_AuthTrackerReentrant`)

`at_serverback` of one server as the loop it is. `pc` is where the loop
is: `"loop"`, `"call"` (inside `at_logquit`) or `"free"`. `i`, `dep` and
`ndep` are its variables. Each action is one statement group:
`SbStart` (the `!ds[server]` early return, bucket 0), `SbLogQuit`
(`ndep = dep->next`, the call), `SbFree` (`free_de`, `dep = ndep`),
`SbNextBucket` and `SbEnd` (`nsfree`, `ds[server] = NULL`). `free_de`
does not unlink, so freed entries stay in their chains until the table is
freed. The registry operations are `AuthTracker`'s own `at_lostnick` and
`at_foundnick`, reached through `INSTANCE`. They run between drains or,
with the constant `Reentrant`, inside the callback as well, which spec.md
§4.2 allows. Reading `->next` of an entry a re-entrant `at_foundnick` freed
is undefined and yields NULL or any entry of the bucket. The history
variables are `logged` (the callbacks made), `snapshot` (the table at the
start) and `pending` (sessions marked and neither found nor closed).

## 4. Runs

| Run | Checks | Shows |
|---|---|---|
| `authtracker_safety` | TypeOK, Reconciled, NoDuplicateEntry, NoFalseClose, MC_Refinement | the registry stays reconciled with the store across splits, recycled numerics, bursts, crash/start, sweeps and delinks; no automatic close of a connected user's session; refinement of `DanglingSessions` |
| `authtracker_liveness` | DanglingDoesNotLinger | with the sweep weakly fair, a dangling session on a linked server is eventually closed while the tracker runs |
| `authtracker_empty_table` (violation) | TableIffNonEmpty | `at_foundnick` leaves an empty table allocated (spec I3) |
| `authtracker_delink_parse` (violation) | DelinkRejectsInvalid | `strtoul` accepts garbage and truncates wide numbers (spec §6/§7) |
| `authtracker_shared_authts` (violation) | NoFalseClose | with two connected sessions of a user sharing an auth timestamp (numerics 0 and 2), an ordinary quit of one makes `at_logquit`, keyed by `(userid, authts)` and no numeric, close the record of the other, still connected |
| `geoip_counters` | TypeOK, TotalsMatchNicks | with `COUNTRY_MIN = 1` the counters equal the live nicks per country across load with existing nicks, failed loads, reloads, IPv6 and unknown addresses |
| `geoip_lookup` (violation) | LookupCodeInverts | `geoip_lookupcode` never returns `COUNTRY_MAX` |
| `luaiter_nicks` | TypeOK, IterationExact, PusherMatchesTable | an iteration whose cursor is not freed returns every nick present throughout exactly once, whatever arrives and leaves between the calls; the pusher list is the first `MAX_PUSHER - 1` in-range indexes of the table, in order, and fits its array |
| `luaiter_chans` | IterationExact | a walk whose cursor is not freed returns each channel present throughout exactly once, skipping chanindexes without a channel, while channels are created, destroyed and released between the calls |
| `authtracker_reentrant_drain` | DrainIsAtomic | called only between drains, the statement-level `at_serverback` makes one `at_logquit` per entry of the table it found, in bucket order (so the atomic drain of `AuthTracker` is a faithful summary) |
| `authtracker_reentrant_callback` (violation) | NoLostSession | an `at_lostnick` from inside `at_logquit` into a bucket already passed is freed with the table and never closed: the code frees after the callbacks, where spec.md §4.2 requires detaching before them |
| `luabot_lifecycle` | OneCallbackEach, CallbacksSeeBot, RetryPending, NothingAfterUnload, HookArgsPositional, DestructiveCommandsGuarded, LifecycleRefined | kills, failed starts, reconnects and unload never duplicate or orphan a callback, never lose the retry, and leave nothing scheduled or hooked after unload (the deregistration list undoes the registration list); every hook handler's `_lua_vpcall` calls the Lua function it names with the arguments at the positions the handler's API gives them (nil where an optional pointer is NULL); no command binding kills, glines or kick-with-checks an oper, service or X-oper, glines outside 1 s .. 31 days or over 50 hits, or deops a service; and `LuaBot` implements the abstract life cycle of `LuaBotLifecycle` |

Every property of a passing run has a mutant in `PROJECT.json`: a variant of
a mapped definition, written next to it, that a plausible bug would produce
and under which TLC finds the property violated.

## 5. Bounds

* AuthTracker: `MAXSERVERS = 2` (a home server and one that splits),
  `DANGLING_HASHSIZE = 2` (collisions in a bucket happen), numerics per
  server `NPS = 3` so a recycled numeric coexists with others. The safety
  run has two users and two auth timestamps, four accounts, of which the
  constraint `MC_TwoAccountsInUse` lets at most two be in use at once: a
  numeric recycled on the far side of a split goes to another user or to
  another authentication of the same user, so both the userid and the
  authts comparison of `at_foundnick` are exercised (the mutants that drop
  either one are caught). All four accounts unconstrained, or two users
  with `NPS = 2`, run past five minutes. The liveness run uses one user
  and one timestamp: the leads-to is per session and the extra values only
  multiply the graph (two users take six minutes).
* GeoIP: three nicks and one address each for an unknown id (0), each
  country (1, 2), an id past `COUNTRY_MAX`, and IPv6: every branch of
  `geoip_setupuser` and `geoip_quit`, with two nicks of one country.
* LuaIterators: three nick objects over two buckets (a chain of two, both
  buckets used, a freed object reused); `MAX_PUSHER = 3` over two pushers,
  so a table can hold more valid indexes than fit. The tables given to
  `irc_getfirstnick` are the boundary cases of `lua_setuppusher`: no table,
  an empty one, -1 and 2 (either side of the index test), exactly two valid
  values, one too many, and mixes. Checking every table of up to four
  values exhaustively multiplies the iterator's graph past minutes, so
  the tables stop at the boundaries.
* LuaChanIterator: three chanindex objects over two buckets, so a
  chanindex without channel sits between two with one, and a released
  chanindex is reused.
* AuthTrackerReentrant: two buckets, three numerics (two share a bucket),
  one user and two auth timestamps: six possible entries, enough for a chain
  of two, an insertion behind the cursor and one in a later bucket.
* LuaBot: five event ids: the bot's three events, one left behind and the
  reconnect after a kill. Message texts are the sequences of up to three
  characters over `^A` and `x`: the empty text, a bare `^A`, `^A^A`, a
  CTCP with and without its closing `^A`. The command inputs are the
  nick kinds above, gline durations `{0, 1, MaxGline, MaxGline + 1}`
  (both sides of both limits) and simulated hits `{50, 51}`.

## 6. Fairness

Only `FlushGhosts` (the periodic `at_flushghosts`, a scheduler timer in
the code) is weakly fair in `AuthTracker`. Network events, users and the
administrator get no fairness: nothing in the code makes a server relink
or a user return. The liveness property is accordingly conditioned on the
tracker running and the home server staying linked.

`LuaBot` has no fairness and no liveness property. That a killed bot
comes back would need `registerlocaluser` to succeed eventually, which
nothing in this repository guarantees (the ircd may keep the nick), and
with that assumed it adds nothing to `RetryPending`: a retry is always
scheduled while the bot is down. Termination of the nick and channel
walks (a script that keeps calling `irc_getnextnick` reaches the end) was
tried as a leads-to under weak fairness of the next call; TLC's check of
the behaviour graph did not finish in minutes on the bounds of those runs,
so it is not part of the project.

## 7. Not modelled

* `authtracker_query.c`, `authtracker_hooks.c`: not in `src/`; modelled from
  spec.md (marked `spec_modelled` in the map). The truncation of
  `at_lognewsession`'s `unsigned int` user id is not modelled.
* `COUNTRY_MIN` and `COUNTRY_MAX` come from `geoip.h`, which is not in this
  repository. `geoip_counters` uses `COUNTRY_MIN = 1`. With
  `COUNTRY_MIN = 0`, TLC finds `TotalsMatchNicks` violated: the NULL slot
  of a nick that was never counted reads as country 0, and its quit
  decrements `geoip_totals[0]`.
* `at_dumpdb` text and `geoip_whois_handler`: output formatting only.
* The channel-member iterator (`irc_getfirstchannick` and following):
  not modelled. Its cursor is a channel pointer and a member count cached
  at the first call; what they go stale against is the channel's member
  hash, whose growth on join and freeing on the last part are in
  `channel/channel.c`, not in this repository. Its hazards are listed.
* Hook registration is idempotent in `LuaBot` (`hooked` is a set of pairs):
  whether `registerhook` refuses the second registration that follows a
  kill and reconnect is decided in `core/hooks.c`, not here.
* The Lua stack: bindings push up to 49 values (`lua_usepusher`) or one
  per channel / nick / clone without `lua_checkstack`; the model counts
  the values but has no stack to overflow (hazard list).
* Read-only Lua bindings (nick and channel lookups, `irc_getuserbyauth`
  and the like) change no state; `localdosetmode_ban`'s and `lua_avpcall`'s
  internals (in `lua.h` / the ircd, not in `src/lua`) and `lua_onload` /
  `lua_onunload` script handling are outside the bot's state. What `lua_usepusher` pushes
  for each field type is data formatting and is abstracted to the number
  of values.
* `jupe.h`: declarations only.
