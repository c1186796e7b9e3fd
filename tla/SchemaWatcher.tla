----------------------------- MODULE SchemaWatcher -----------------------------
(***************************************************************************)
(* The schema cache (internal/schema/cache.go), the watcher that keeps it  *)
(* up to date (watcher.go), the order in which BuildCache introspects      *)
(* (introspect.go) and the wait for the first load (cli/start.go).         *)
(*                                                                         *)
(* The database's catalog is a version number per part.  Every statement   *)
(* of BuildCache is a query of its own, so that DDL can run between two of *)
(* them.  A Reload is executed by a goroutine: the watcher's own for the   *)
(* first load and in poll mode, one per fired debounce timer otherwise.    *)
(***************************************************************************)
EXTENDS Integers, Sequences, FiniteSets

CONSTANTS Loaders,     \* goroutines that call Reload
          MaxDDL,      \* bound: DDL statements
          MaxLosses,   \* bound: losses of the listener's connection
          MaxFails     \* bound: failed introspections

ASSUME SchemaAssumption ==
  /\ MaxDDL \in Nat /\ MaxLosses \in Nat /\ MaxFails \in Nat

\* The queries of BuildCache, in order.
BuildOrder == <<"enums", "tables", "primaryKeys", "foreignKeys", "indexes", "functions">>
Parts == {"enums", "tables", "primaryKeys", "foreignKeys", "indexes", "functions"}

\* What DDL statements change, and whether the event triggers notify of them.
\* Their lists of command tags and object types name tables, views and types.
\* They have no CREATE INDEX and no CREATE FUNCTION; no COMMENT ON, although
\* comments are read with the tables, nor ALTER DOMAIN and DROP SEQUENCE, which
\* change the types and defaults of columns; and no ALTER SCHEMA, whose RENAME
\* changes everything that is read with the schema's name.
Statements ==
  {[touches |-> {"tables", "primaryKeys", "foreignKeys", "indexes"}, notifies |-> TRUE],
   [touches |-> {"enums"},     notifies |-> TRUE],
   [touches |-> {"indexes"},   notifies |-> FALSE],
   [touches |-> {"functions"}, notifies |-> FALSE],
   [touches |-> {"tables"},    notifies |-> FALSE],
   [touches |-> Parts,         notifies |-> FALSE]}

VARIABLES
  catalog,   \* version of each part of the database's catalog
  pollMode,  \* the event triggers could not be installed (Watcher.pollMode)
  phase,     \* the server: "triggers", "starting", "running" or "failed"
  listener,  \* the listening connection: "down", "listen" (LISTEN done), "up"
  inbox,     \* notifications received by the connection and not yet handled
  timer,     \* is the debounce timer armed
  lpc,       \* each loader: "idle", "called" or "building"
  pos,       \* the next query of each build
  snap,      \* what each build has read so far
  loading,   \* CacheHolder.loading
  loaded,    \* has the cache been stored once
  cache,     \* version of each part in the cache
  readies,   \* times the ready channel was closed
  skipped,   \* history: has a call of Reload found another one in progress
  silent,    \* history: the parts changed without a notification, while listening,
             \* since the last notification or reconnect
  ddls, losses, fails

loadVars == <<lpc, pos, snap, loading>>
cacheVars == <<loaded, cache, readies>>
vars == <<catalog, pollMode, phase, listener, inbox, timer, loadVars, cacheVars, skipped, silent,
          ddls, losses, fails>>

Versions == [Parts -> Nat]
Nothing == [p \in Parts |-> 0]

TypeOK ==
  /\ catalog \in Versions
  /\ pollMode \in BOOLEAN
  /\ phase \in {"triggers", "starting", "running", "failed"}
  /\ listener \in {"down", "listen", "up"}
  /\ inbox \in Nat
  /\ timer \in BOOLEAN
  /\ lpc \in [Loaders -> {"idle", "called", "building"}]
  /\ pos \in [Loaders -> 1..Len(BuildOrder) + 1]
  /\ snap \in [Loaders -> Versions]
  /\ loading \in BOOLEAN /\ loaded \in BOOLEAN
  /\ cache \in Versions
  /\ skipped \in BOOLEAN /\ silent \in SUBSET Parts
  /\ readies \in Nat /\ ddls \in Nat /\ losses \in Nat /\ fails \in Nat

Init ==
  /\ catalog = [p \in Parts |-> 1]
  /\ pollMode = FALSE
  /\ phase = "triggers"
  /\ listener = "down" /\ inbox = 0 /\ timer = FALSE
  /\ lpc = [l \in Loaders |-> "idle"]
  /\ pos = [l \in Loaders |-> 1]
  /\ snap = [l \in Loaders |-> Nothing]
  /\ loading = FALSE /\ loaded = FALSE
  /\ cache = Nothing
  /\ skipped = FALSE /\ silent = {}
  /\ readies = 0 /\ ddls = 0 /\ losses = 0 /\ fails = 0

-----------------------------------------------------------------------------
\* External: a DDL statement commits; its notification reaches the connection
\* if that has executed LISTEN.
Ddl(stmt) ==
  /\ ddls < MaxDDL /\ ddls' = ddls + 1
  /\ catalog' = [p \in Parts |-> IF p \in stmt.touches THEN catalog[p] + 1 ELSE catalog[p]]
  /\ inbox' = IF stmt.notifies /\ listener # "down" THEN inbox + 1 ELSE inbox
  /\ silent' = IF stmt.notifies \/ listener # "up" THEN {} ELSE silent \cup stmt.touches
  /\ UNCHANGED <<pollMode, phase, listener, timer, loadVars, cacheVars, losses, fails, skipped>>

-----------------------------------------------------------------------------
(***************************************************************************)
(* CacheHolder.Reload.                                                     *)
(***************************************************************************)
Call(l) == lpc[l] = "idle" /\ lpc' = [lpc EXCEPT ![l] = "called"]

\* Mutated TryReload: neither the flag nor the mutex.
TryReloadUnguarded(l) ==
  /\ lpc[l] = "called"
  /\ lpc' = [lpc EXCEPT ![l] = "building"]
  /\ loading' = TRUE
  /\ UNCHANGED <<catalog, pollMode, phase, listener, inbox, timer, pos, snap, cacheVars,
                 ddls, losses, fails, skipped, silent>>

\* The compare-and-swap: a call that finds a reload in progress returns at once.
TryReload(l) ==
  /\ lpc[l] = "called"
  /\ IF loading
     THEN lpc' = [lpc EXCEPT ![l] = "idle"] /\ skipped' = TRUE /\ UNCHANGED loading
     ELSE /\ lpc' = [lpc EXCEPT ![l] = "building"]
          /\ loading' = TRUE
          /\ UNCHANGED skipped
  /\ UNCHANGED <<catalog, pollMode, phase, listener, inbox, timer, pos, snap, cacheVars,
                 ddls, losses, fails, silent>>

\* The goroutine returns and what it had read is dropped.
EndBuild(l) ==
  /\ lpc' = [lpc EXCEPT ![l] = "idle"]
  /\ pos' = [pos EXCEPT ![l] = 1]
  /\ snap' = [snap EXCEPT ![l] = Nothing]

\* One query of BuildCache.
Introspect(l) ==
  /\ lpc[l] = "building" /\ pos[l] <= Len(BuildOrder)
  /\ LET p == BuildOrder[pos[l]] IN snap' = [snap EXCEPT ![l][p] = catalog[p]]
  /\ pos' = [pos EXCEPT ![l] = @ + 1]
  /\ UNCHANGED <<catalog, pollMode, phase, listener, inbox, timer, lpc, loading,
                 cacheVars, ddls, losses, fails, skipped, silent>>

\* Mutated BuildFails: loading is not reset on the error path.
BuildFailsKeepsFlag(l) ==
  /\ lpc[l] = "building" /\ fails < MaxFails
  /\ fails' = fails + 1
  /\ EndBuild(l)
  /\ phase' = IF phase = "starting" THEN "failed" ELSE phase
  /\ UNCHANGED <<catalog, pollMode, listener, inbox, timer, loading, cacheVars, ddls,
                 losses, skipped, silent>>

\* A query fails: the error is logged and the old cache stays.  The first load
\* ends the server's start instead.
BuildFails(l) ==
  /\ lpc[l] = "building" /\ fails < MaxFails
  /\ fails' = fails + 1
  /\ EndBuild(l)
  /\ loading' = FALSE
  /\ phase' = IF phase = "starting" THEN "failed" ELSE phase
  /\ UNCHANGED <<catalog, pollMode, listener, inbox, timer, cacheVars, ddls, losses, skipped,
                 silent>>

\* The new cache replaces the old one; the first one closes the ready channel,
\* for which runStart waits before it serves.
Swap(l) ==
  /\ lpc[l] = "building" /\ pos[l] > Len(BuildOrder)
  /\ cache' = snap[l] /\ loaded' = TRUE
  /\ readies' = IF loaded THEN readies ELSE readies + 1
  /\ phase' = IF phase = "starting" THEN "running" ELSE phase
  /\ EndBuild(l)
  /\ loading' = FALSE
  /\ UNCHANGED <<catalog, pollMode, listener, inbox, timer, ddls, losses, fails, skipped, silent>>

-----------------------------------------------------------------------------
(***************************************************************************)
(* Watcher.                                                                *)
(***************************************************************************)
\* Start installs the event triggers, or learns that it may not and will poll ...
EnsureTriggers ==
  /\ phase = "triggers"
  /\ phase' = "starting"
  /\ pollMode' \in BOOLEAN
  /\ UNCHANGED <<catalog, listener, inbox, timer, loadVars, cacheVars, ddls, losses,
                 fails, skipped, silent>>

\* ... and calls Load, once.
InitialLoad(l) ==
  /\ phase = "starting" /\ \A k \in Loaders : lpc[k] = "idle"
  /\ Call(l)
  /\ UNCHANGED <<catalog, pollMode, phase, listener, inbox, timer, pos, snap, loading,
                 cacheVars,
                 ddls, losses, fails, skipped, silent>>

\* listenLoop connects and executes LISTEN ...
Listen ==
  /\ phase = "running" /\ ~pollMode /\ listener = "down"
  /\ listener' = "listen" /\ inbox' = 0
  /\ UNCHANGED <<catalog, pollMode, phase, timer, loadVars, cacheVars, ddls, losses,
                 fails, skipped, silent>>

\* Mutated ReloadOnConnect: notifications missed while disconnected are ignored.
ConnectWithoutReload ==
  /\ listener = "listen"
  /\ listener' = "up"
  /\ UNCHANGED <<catalog, pollMode, phase, inbox, timer, loadVars, cacheVars, ddls,
                 losses, fails, skipped, silent>>

\* ... schedules a full reload ...
ReloadOnConnect ==
  /\ listener = "listen"
  /\ listener' = "up"
  /\ timer' = TRUE
  /\ UNCHANGED <<catalog, pollMode, phase, inbox, loadVars, cacheVars, ddls, losses,
                 fails, skipped, silent>>

\* ... and one more for each notification: scheduleReload stops the armed timer
\* and arms a new one.
HandleNotification ==
  /\ listener = "up" /\ inbox > 0
  /\ inbox' = inbox - 1
  /\ timer' = TRUE
  /\ UNCHANGED <<catalog, pollMode, phase, listener, loadVars, cacheVars, ddls, losses,
                 fails, skipped, silent>>

\* The connection is lost, and what was queued on it; runListener reconnects.
LoseConnection ==
  /\ listener # "down" /\ losses < MaxLosses
  /\ listener' = "down" /\ inbox' = 0
  /\ losses' = losses + 1
  /\ silent' = {}
  /\ UNCHANGED <<catalog, pollMode, phase, timer, loadVars, cacheVars, ddls, fails, skipped>>

\* debounceDelay after the last notification the timer's goroutine calls Reload.
TimerFires(l) ==
  /\ timer /\ Call(l)
  /\ timer' = FALSE
  /\ UNCHANGED <<catalog, pollMode, phase, listener, inbox, pos, snap, loading,
                 cacheVars, ddls, losses, fails, skipped, silent>>

\* runPoller: the ticker's next tick, after the previous reload returned.
Poll(l) ==
  /\ phase = "running" /\ pollMode
  /\ \A k \in Loaders : lpc[k] = "idle"
  /\ Call(l)
  /\ UNCHANGED <<catalog, pollMode, phase, listener, inbox, timer, pos, snap, loading,
                 cacheVars,
                 ddls, losses, fails, skipped, silent>>

-----------------------------------------------------------------------------
Reload(l) == TryReload(l) \/ Introspect(l) \/ Swap(l)

Next ==
  \/ \E stmt \in Statements : Ddl(stmt)
  \/ \E l \in Loaders : \/ InitialLoad(l) \/ Reload(l) \/ BuildFails(l)
                        \/ TimerFires(l) \/ Poll(l)
  \/ EnsureTriggers \/ Listen \/ ReloadOnConnect \/ HandleNotification \/ LoseConnection

Spec == Init /\ [][Next]_vars

\* Goroutines run, timers and tickers fire, the listener reconnects and reads;
\* introspection ends, successfully but for the bounded failures.
FairSpec ==
  /\ Spec
  /\ \A l \in Loaders : WF_vars(Reload(l))
  /\ WF_vars(EnsureTriggers) /\ WF_vars(\E l \in Loaders : InitialLoad(l))
  /\ WF_vars(\E l \in Loaders : TimerFires(l))
  /\ WF_vars(\E l \in Loaders : Poll(l))
  /\ WF_vars(Listen) /\ WF_vars(ReloadOnConnect) /\ WF_vars(HandleNotification)

-----------------------------------------------------------------------------
(***************************************************************************)
(* Properties.                                                             *)
(***************************************************************************)
\* Reloads do not overtake each other: no part of the cache is ever replaced
\* by an older version of it, even when DDL runs between two queries of a
\* build and reloads are asked for while one is in progress.
NeverBackwards == [][\A p \in Parts : cache'[p] >= cache[p]]_vars

\* Readiness is signalled once (the channel is closed once), and the server
\* runs only with a loaded cache.
ReadyOnce == readies = (IF loaded THEN 1 ELSE 0) /\ (phase = "running" <=> loaded)

\* Once DDL stops, a listening watcher settles the cache on the catalog, across
\* losses of the connection, but for the parts that statements changed of which
\* the event triggers do not notify, with no notification or reconnect since;
\* unless a reload was skipped because another was in progress, or an
\* introspection failed: in this mode nothing repeats it.
NotifiedChangesSettle ==
  \/ <>(pollMode \/ fails > 0 \/ skipped)
  \/ <>[](phase = "running" /\ \A p \in Parts \ silent : cache[p] = catalog[p])

\* In poll mode it settles on every part, across failed reloads too, or the
\* first load failed and the server did not start.
AllPartsSettle ==
  \/ <>[]~pollMode
  \/ <>(phase = "failed")
  \/ <>[](phase = "running" /\ cache = catalog)

=============================================================================
