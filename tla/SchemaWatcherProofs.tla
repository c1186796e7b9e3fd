------------------------- MODULE SchemaWatcherProofs -------------------------
(***************************************************************************)
(* Proofs about SchemaWatcher, for any number of reloading goroutines and  *)
(* any amount of DDL, lost connections and failed introspections: the      *)
(* cache never goes backwards, readiness is signalled once, and a change   *)
(* that was notified of is pursued until the cache has it, after which the *)
(* watcher is at rest.                                                     *)
(***************************************************************************)
EXTENDS SchemaWatcher, TLAPS

\* The flag admits one build at a time; a goroutine that builds nothing starts
\* from the first query.
OneBuild ==
  /\ \A l \in Loaders : lpc[l] # "building" => pos[l] = 1
  /\ loading <=> \E l \in Loaders : lpc[l] = "building"
  /\ \A k, l \in Loaders : lpc[k] = "building" /\ lpc[l] = "building" => k = l

\* The cache is not ahead of the catalog, and what a build has read lies
\* between the two.
Between ==
  /\ \A p \in Parts : cache[p] <= catalog[p]
  /\ \A l \in Loaders : lpc[l] = "building" =>
       \A i \in 1..Len(BuildOrder) : i < pos[l] =>
         LET p == BuildOrder[i] IN cache[p] <= snap[l][p] /\ snap[l][p] <= catalog[p]

\* Nothing but the first load happens before the server runs, or if it never does.
Phases ==
  /\ phase # "running" => listener = "down" /\ ~timer
  /\ phase = "starting" =>
       \A k, l \in Loaders : lpc[k] # "idle" /\ lpc[l] # "idle" => k = l
  /\ phase \in {"triggers", "failed"} => \A l \in Loaders : lpc[l] = "idle"

IInv == TypeOK /\ OneBuild /\ Between /\ Phases /\ ReadyOnce

-----------------------------------------------------------------------------
\* BuildOrder lists every part.
LEMMA Order ==
  /\ Len(BuildOrder) = 6 /\ 1..Len(BuildOrder) + 1 = 1..7
  /\ \A i \in 1..6 : BuildOrder[i] \in Parts
  /\ \A p \in Parts : \E i \in 1..6 : BuildOrder[i] = p
  BY DEF BuildOrder, Parts

LEMMA InitInv == Init => IInv
  <1> SUFFICES ASSUME Init PROVE IInv
    OBVIOUS
  <1>1. TypeOK
    <2>1. pos \in [Loaders -> 1..7] /\ Nothing \in Versions
      BY DEF Init, Versions, Nothing
    <2>2. snap \in [Loaders -> Versions] /\ cache \in Versions /\ catalog \in Versions
      BY <2>1 DEF Init, Versions
    <2>3. lpc \in [Loaders -> {"idle", "called", "building"}]
      BY DEF Init
    <2>4. phase = "triggers" /\ pollMode = FALSE /\ listener = "down" /\ inbox = 0 /\ timer = FALSE
          /\ loading = FALSE /\ loaded = FALSE /\ skipped = FALSE /\ silent = {}
          /\ readies = 0 /\ ddls = 0 /\ losses = 0 /\ fails = 0
      BY DEF Init
    <2>5. pos \in [Loaders -> 1..Len(BuildOrder) + 1]
      BY <2>1, Order
    <2>6. QED
      BY <2>2, <2>3, <2>4, <2>5 DEF TypeOK
  <1>2. OneBuild /\ Between /\ Phases /\ ReadyOnce
    BY Order DEF Init, OneBuild, Between, Phases, ReadyOnce, Nothing
  <1>3. QED
    BY <1>1, <1>2 DEF IInv

\* Every step keeps the types.
LEMMA TypeNext == IInv /\ [Next]_vars => TypeOK'
  <1> SUFFICES ASSUME IInv, [Next]_vars PROVE TypeOK'
    OBVIOUS
  <1> USE Order DEF IInv, TypeOK, Versions, Nothing, loadVars, cacheVars
  <1>1. ASSUME NEW stmt \in Statements, Ddl(stmt)
        PROVE TypeOK'
    <2>1. stmt.touches \subseteq Parts
      BY DEF Statements, Parts
    <2>2. silent' \in SUBSET Parts
      BY <1>1, <2>1 DEF Ddl
    <2> HIDE DEF Parts
    <2>3. catalog' \in [Parts -> Nat]
      BY <1>1 DEF Ddl
    <2>4. QED
      BY <1>1, <2>2, <2>3 DEF Ddl
  <1>2. ASSUME NEW l \in Loaders, InitialLoad(l)
        PROVE TypeOK'
    BY <1>2 DEF InitialLoad, Call
  <1>3. ASSUME NEW l \in Loaders, TryReload(l)
        PROVE TypeOK'
    BY <1>3 DEF TryReload
  <1>4. ASSUME NEW l \in Loaders, Introspect(l)
        PROVE TypeOK'
    <2> DEFINE p == BuildOrder[pos[l]]
    <2>1. pos[l] \in 1..6 /\ pos' = [pos EXCEPT ![l] = pos[l] + 1] /\ p \in Parts
      BY <1>4 DEF Introspect
    <2>2. snap' = [snap EXCEPT ![l] = [snap[l] EXCEPT ![p] = catalog[p]]]
      BY <1>4 DEF Introspect
    <2>3. snap[l] \in Versions /\ catalog[p] \in Nat
      BY <2>1
    <2>4. [snap[l] EXCEPT ![p] = catalog[p]] \in Versions
      BY <2>3
    <2>5. snap' \in [Loaders -> Versions] /\ pos' \in [Loaders -> 1..7]
      BY <2>1, <2>2, <2>4
    <2>6. QED
      BY <1>4, <2>5 DEF Introspect
  <1>5. ASSUME NEW l \in Loaders, Swap(l)
        PROVE TypeOK'
    <2>1. snap[l] \in Versions /\ Nothing \in Versions
      OBVIOUS
    <2> HIDE DEF Versions, Nothing
    <2>2. snap' \in [Loaders -> Versions] /\ pos' \in [Loaders -> 1..7] /\ cache' \in Versions
      BY <1>5, <2>1 DEF Swap, EndBuild
    <2>3. lpc' \in [Loaders -> {"idle", "called", "building"}]
          /\ phase' \in {"triggers", "starting", "running", "failed"} /\ readies' \in Nat
      BY <1>5 DEF Swap, EndBuild
    <2>4. QED
      BY <1>5, <2>2, <2>3 DEF Swap, EndBuild
  <1>6. ASSUME NEW l \in Loaders, BuildFails(l)
        PROVE TypeOK'
    <2>1. Nothing \in Versions
      OBVIOUS
    <2>2. snap' \in [Loaders -> Versions] /\ pos' \in [Loaders -> 1..7]
      BY <1>6, <2>1 DEF BuildFails, EndBuild
    <2>3. lpc' \in [Loaders -> {"idle", "called", "building"}]
          /\ phase' \in {"triggers", "starting", "running", "failed"} /\ fails' \in Nat
      BY <1>6 DEF BuildFails, EndBuild
    <2>4. QED
      BY <1>6, <2>2, <2>3 DEF BuildFails, EndBuild
  <1>7. ASSUME NEW l \in Loaders, TimerFires(l)
        PROVE TypeOK'
    BY <1>7 DEF TimerFires, Call
  <1>8. ASSUME NEW l \in Loaders, Poll(l)
        PROVE TypeOK'
    BY <1>8 DEF Poll, Call
  <1>9. ASSUME Listen
        PROVE TypeOK'
    BY <1>9 DEF Listen
  <1>10. ASSUME ReloadOnConnect
        PROVE TypeOK'
    BY <1>10 DEF ReloadOnConnect
  <1>11. ASSUME HandleNotification
        PROVE TypeOK'
    BY <1>11 DEF HandleNotification
  <1>12. ASSUME LoseConnection
        PROVE TypeOK'
    BY <1>12 DEF LoseConnection
  <1>13. CASE UNCHANGED vars
    BY <1>13 DEF vars
  <1>14. ASSUME EnsureTriggers
        PROVE TypeOK'
    BY <1>14 DEF EnsureTriggers
  <1>15. QED
    BY <1>1, <1>2, <1>3, <1>4, <1>5, <1>6, <1>7, <1>8,
       <1>9, <1>10, <1>11, <1>12, <1>13, <1>14
    DEF Next, Reload

\* A build starts only when none is in progress.
LEMMA OneBuildNext == IInv /\ [Next]_vars => OneBuild'
  <1> SUFFICES ASSUME IInv, [Next]_vars PROVE OneBuild'
    OBVIOUS
  <1> USE Order DEF IInv, TypeOK, OneBuild, loadVars, cacheVars
  <1>1. ASSUME NEW stmt \in Statements, Ddl(stmt)
        PROVE OneBuild'
    BY <1>1 DEF Ddl
  <1>2. ASSUME NEW l \in Loaders, InitialLoad(l)
        PROVE OneBuild'
    BY <1>2 DEF InitialLoad, Call
  <1>3. ASSUME NEW l \in Loaders, TryReload(l)
        PROVE OneBuild'
    BY <1>3 DEF TryReload
  <1>4. ASSUME NEW l \in Loaders, Introspect(l)
        PROVE OneBuild'
    BY <1>4 DEF Introspect
  <1>5. ASSUME NEW l \in Loaders, Swap(l)
        PROVE OneBuild'
    BY <1>5 DEF Swap, EndBuild
  <1>6. ASSUME NEW l \in Loaders, BuildFails(l)
        PROVE OneBuild'
    BY <1>6 DEF BuildFails, EndBuild
  <1>7. ASSUME NEW l \in Loaders, TimerFires(l)
        PROVE OneBuild'
    BY <1>7 DEF TimerFires, Call
  <1>8. ASSUME NEW l \in Loaders, Poll(l)
        PROVE OneBuild'
    BY <1>8 DEF Poll, Call
  <1>9. ASSUME Listen
        PROVE OneBuild'
    BY <1>9 DEF Listen
  <1>10. ASSUME ReloadOnConnect
        PROVE OneBuild'
    BY <1>10 DEF ReloadOnConnect
  <1>11. ASSUME HandleNotification
        PROVE OneBuild'
    BY <1>11 DEF HandleNotification
  <1>12. ASSUME LoseConnection
        PROVE OneBuild'
    BY <1>12 DEF LoseConnection
  <1>13. CASE UNCHANGED vars
    BY <1>13 DEF vars
  <1>14. ASSUME EnsureTriggers
        PROVE OneBuild'
    BY <1>14 DEF EnsureTriggers
  <1>15. QED
    BY <1>1, <1>2, <1>3, <1>4, <1>5, <1>6, <1>7, <1>8,
       <1>9, <1>10, <1>11, <1>12, <1>13, <1>14
    DEF Next, Reload

\* A build reads versions no older than those the cache has.
LEMMA BetweenNext == IInv /\ [Next]_vars => Between'
  <1> SUFFICES ASSUME IInv, [Next]_vars PROVE Between'
    OBVIOUS
  <1> USE Order DEF IInv, TypeOK, Versions, OneBuild, Between, loadVars, cacheVars
  <1>1. ASSUME NEW stmt \in Statements, Ddl(stmt)
        PROVE Between'
    BY <1>1 DEF Ddl
  <1>2. ASSUME NEW l \in Loaders, InitialLoad(l)
        PROVE Between'
    BY <1>2 DEF InitialLoad, Call
  <1>3. ASSUME NEW l \in Loaders, TryReload(l)
        PROVE Between'
    BY <1>3 DEF TryReload
  <1>4. ASSUME NEW l \in Loaders, Introspect(l)
        PROVE Between'
    BY <1>4 DEF Introspect
  <1>5. ASSUME NEW l \in Loaders, Swap(l)
        PROVE Between'
    <2>1. lpc[l] = "building" /\ pos[l] > 6 /\ cache' = snap[l] /\ catalog' = catalog
          /\ lpc' = [lpc EXCEPT ![l] = "idle"]
      BY <1>5 DEF Swap, EndBuild
    <2>2. \A k \in Loaders : lpc'[k] # "building"
      BY <2>1
    <2>3. ASSUME NEW p \in Parts PROVE cache'[p] <= catalog'[p]
      <3>1. PICK i \in 1..6 : BuildOrder[i] = p
        OBVIOUS
      <3>2. QED
        BY <2>1, <3>1
    <2>4. QED
      BY <2>2, <2>3
  <1>6. ASSUME NEW l \in Loaders, BuildFails(l)
        PROVE Between'
    BY <1>6 DEF BuildFails, EndBuild
  <1>7. ASSUME NEW l \in Loaders, TimerFires(l)
        PROVE Between'
    BY <1>7 DEF TimerFires, Call
  <1>8. ASSUME NEW l \in Loaders, Poll(l)
        PROVE Between'
    BY <1>8 DEF Poll, Call
  <1>9. ASSUME Listen
        PROVE Between'
    BY <1>9 DEF Listen
  <1>10. ASSUME ReloadOnConnect
        PROVE Between'
    BY <1>10 DEF ReloadOnConnect
  <1>11. ASSUME HandleNotification
        PROVE Between'
    BY <1>11 DEF HandleNotification
  <1>12. ASSUME LoseConnection
        PROVE Between'
    BY <1>12 DEF LoseConnection
  <1>13. CASE UNCHANGED vars
    BY <1>13 DEF vars
  <1>14. ASSUME EnsureTriggers
        PROVE Between'
    BY <1>14 DEF EnsureTriggers
  <1>15. QED
    BY <1>1, <1>2, <1>3, <1>4, <1>5, <1>6, <1>7, <1>8,
       <1>9, <1>10, <1>11, <1>12, <1>13, <1>14
    DEF Next, Reload

\* Only the first load runs before the server does.
LEMMA PhasesNext == IInv /\ [Next]_vars => Phases'
  <1> SUFFICES ASSUME IInv, [Next]_vars PROVE Phases'
    OBVIOUS
  <1> USE Order DEF IInv, TypeOK, Phases, loadVars, cacheVars
  <1>1. ASSUME NEW stmt \in Statements, Ddl(stmt)
        PROVE Phases'
    BY <1>1 DEF Ddl
  <1>2. ASSUME NEW l \in Loaders, InitialLoad(l)
        PROVE Phases'
    BY <1>2 DEF InitialLoad, Call
  <1>3. ASSUME NEW l \in Loaders, TryReload(l)
        PROVE Phases'
    BY <1>3 DEF TryReload
  <1>4. ASSUME NEW l \in Loaders, Introspect(l)
        PROVE Phases'
    BY <1>4 DEF Introspect
  <1>5. ASSUME NEW l \in Loaders, Swap(l)
        PROVE Phases'
    BY <1>5 DEF Swap, EndBuild
  <1>6. ASSUME NEW l \in Loaders, BuildFails(l)
        PROVE Phases'
    BY <1>6 DEF BuildFails, EndBuild
  <1>7. ASSUME NEW l \in Loaders, TimerFires(l)
        PROVE Phases'
    BY <1>7 DEF TimerFires, Call
  <1>8. ASSUME NEW l \in Loaders, Poll(l)
        PROVE Phases'
    BY <1>8 DEF Poll, Call
  <1>9. ASSUME Listen
        PROVE Phases'
    BY <1>9 DEF Listen
  <1>10. ASSUME ReloadOnConnect
        PROVE Phases'
    BY <1>10 DEF ReloadOnConnect
  <1>11. ASSUME HandleNotification
        PROVE Phases'
    BY <1>11 DEF HandleNotification
  <1>12. ASSUME LoseConnection
        PROVE Phases'
    BY <1>12 DEF LoseConnection
  <1>13. CASE UNCHANGED vars
    BY <1>13 DEF vars
  <1>14. ASSUME EnsureTriggers
        PROVE Phases'
    BY <1>14 DEF EnsureTriggers
  <1>15. QED
    BY <1>1, <1>2, <1>3, <1>4, <1>5, <1>6, <1>7, <1>8,
       <1>9, <1>10, <1>11, <1>12, <1>13, <1>14
    DEF Next, Reload

\* The first load, and no other, signals readiness and starts the server.
LEMMA ReadyNext == IInv /\ [Next]_vars => ReadyOnce'
  <1> SUFFICES ASSUME IInv, [Next]_vars PROVE ReadyOnce'
    OBVIOUS
  <1> USE Order DEF IInv, TypeOK, Phases, ReadyOnce, loadVars, cacheVars
  <1>1. ASSUME NEW stmt \in Statements, Ddl(stmt)
        PROVE ReadyOnce'
    BY <1>1 DEF Ddl
  <1>2. ASSUME NEW l \in Loaders, InitialLoad(l)
        PROVE ReadyOnce'
    BY <1>2 DEF InitialLoad, Call
  <1>3. ASSUME NEW l \in Loaders, TryReload(l)
        PROVE ReadyOnce'
    BY <1>3 DEF TryReload
  <1>4. ASSUME NEW l \in Loaders, Introspect(l)
        PROVE ReadyOnce'
    BY <1>4 DEF Introspect
  <1>5. ASSUME NEW l \in Loaders, Swap(l)
        PROVE ReadyOnce'
    BY <1>5 DEF Swap, EndBuild
  <1>6. ASSUME NEW l \in Loaders, BuildFails(l)
        PROVE ReadyOnce'
    BY <1>6 DEF BuildFails, EndBuild
  <1>7. ASSUME NEW l \in Loaders, TimerFires(l)
        PROVE ReadyOnce'
    BY <1>7 DEF TimerFires, Call
  <1>8. ASSUME NEW l \in Loaders, Poll(l)
        PROVE ReadyOnce'
    BY <1>8 DEF Poll, Call
  <1>9. ASSUME Listen
        PROVE ReadyOnce'
    BY <1>9 DEF Listen
  <1>10. ASSUME ReloadOnConnect
        PROVE ReadyOnce'
    BY <1>10 DEF ReloadOnConnect
  <1>11. ASSUME HandleNotification
        PROVE ReadyOnce'
    BY <1>11 DEF HandleNotification
  <1>12. ASSUME LoseConnection
        PROVE ReadyOnce'
    BY <1>12 DEF LoseConnection
  <1>13. CASE UNCHANGED vars
    BY <1>13 DEF vars
  <1>14. ASSUME EnsureTriggers
        PROVE ReadyOnce'
    BY <1>14 DEF EnsureTriggers
  <1>15. QED
    BY <1>1, <1>2, <1>3, <1>4, <1>5, <1>6, <1>7, <1>8,
       <1>9, <1>10, <1>11, <1>12, <1>13, <1>14
    DEF Next, Reload

-----------------------------------------------------------------------------
THEOREM WatcherInvariant == Spec => []IInv
  <1>1. IInv /\ [Next]_vars => IInv'
    BY TypeNext, OneBuildNext, BetweenNext, PhasesNext, ReadyNext DEF IInv
  <1>2. QED
    BY InitInv, <1>1, PTL DEF Spec

\* Readiness is signalled exactly once, by the load that lets the server start.
THEOREM ReadinessOnce == Spec => []ReadyOnce
  <1>1. IInv => ReadyOnce
    BY DEF IInv
  <1>2. QED
    BY <1>1, WatcherInvariant, PTL

\* A reload that began before a schema change never overwrites the result of
\* one that began after it: no part of the cache goes backwards.
THEOREM CacheNeverGoesBackwards == Spec => NeverBackwards
  <1>1. IInv /\ [Next]_vars => [\A p \in Parts : cache'[p] >= cache[p]]_vars
    <2> SUFFICES ASSUME IInv, [Next]_vars, NEW p \in Parts
                 PROVE  cache'[p] >= cache[p]
      OBVIOUS
    <2> USE DEF cacheVars
    <2>1. CASE cache' = cache
      BY <2>1 DEF IInv, TypeOK, Versions
    <2>2. ASSUME NEW l \in Loaders, Swap(l) PROVE cache'[p] >= cache[p]
      <3>1. cache' = snap[l] /\ lpc[l] = "building" /\ pos[l] > 6
        BY <2>2, Order DEF Swap
      <3>2. PICK i \in 1..6 : BuildOrder[i] = p
        BY Order
      <3>3. cache[p] <= snap[l][p]
        BY <3>1, <3>2, Order DEF IInv, Between, TypeOK
      <3>4. QED
        BY <3>1, <3>3 DEF IInv, TypeOK, Versions
    <2>3. cache' = cache \/ \E l \in Loaders : Swap(l)
      BY DEF Next, Ddl, InitialLoad, Reload, TryReload, Introspect, BuildFails, TimerFires,
         Poll, EnsureTriggers, Listen, ReloadOnConnect, HandleNotification, LoseConnection, vars
    <2>4. QED
      BY <2>1, <2>2, <2>3
  <1>2. QED
    BY <1>1, WatcherInvariant, PTL DEF Spec, NeverBackwards

-----------------------------------------------------------------------------
(***************************************************************************)
(* What a change of the schema sets off: the safety half of                *)
(* NotifiedChangesSettle.                                                     *)
(***************************************************************************)
\* A build that has read the part as it is now, or has still to read it.
WillRead(l, p) ==
  /\ lpc[l] = "building"
  /\ \A i \in 1..Len(BuildOrder) : BuildOrder[i] = p /\ i < pos[l] => snap[l][p] = catalog[p]

\* The part is up to date, or something is under way that will make it so: the
\* listener has yet to connect, a notification or the timer is waiting, a
\* reload is called or builds.
Pursued(p) ==
  \/ cache[p] = catalog[p]
  \/ listener # "up" \/ inbox > 0 \/ timer
  \/ \E l \in Loaders : lpc[l] = "called" \/ WillRead(l, p)

\* A build fails, or a call of Reload finds another in progress.
GivesUp == fails' > fails \/ \E l \in Loaders : lpc[l] = "called" /\ lpc'[l] = "idle"

KeepsPursuing ==
  [][\A p \in Parts :
       Pursued(p) \/ p \in silent => Pursued(p)' \/ p \in silent' \/ GivesUp]_vars

AtRest ==
  listener = "up" /\ inbox = 0 /\ ~timer /\ \A l \in Loaders : lpc[l] = "idle"
UpToDateAtRest ==
  AtRest /\ fails = 0 /\ ~skipped => \A p \in Parts \ silent : cache[p] = catalog[p]

LEMMA PursueNext ==
  ASSUME IInv, [Next]_vars, NEW p \in Parts, Pursued(p) \/ p \in silent, p \notin silent', ~GivesUp
  PROVE  Pursued(p)'
  <1>0. CASE ~Pursued(p)
    \* What ends the silence is a notification or a reconnect to come.
    <2>1. p \in silent /\ silent' # silent
      BY <1>0
    <2>2. LoseConnection \/ \E stmt \in Statements : Ddl(stmt)
      BY <2>1 DEF Next, InitialLoad, Reload, TryReload, Introspect, Swap, BuildFails, TimerFires,
         Poll, EnsureTriggers, Listen, ReloadOnConnect, HandleNotification, vars
    <2>3. CASE LoseConnection
      BY <2>3 DEF LoseConnection, Pursued
    <2>4. ASSUME NEW stmt \in Statements, Ddl(stmt) PROVE Pursued(p)'
      <3>1. stmt.notifies \/ listener # "up"
        BY <2>1, <2>4 DEF Ddl
      <3>2. listener' # "up" \/ inbox' > 0
        BY <2>4, <3>1 DEF Ddl, IInv, TypeOK
      <3>3. QED
        BY <3>2 DEF Pursued
    <2>5. QED
      BY <2>2, <2>3, <2>4
  <1> SUFFICES ASSUME Pursued(p) PROVE Pursued(p)'
    BY <1>0
  <1> USE DEF loadVars, cacheVars
  <1>1. ASSUME NEW stmt \in Statements, Ddl(stmt) PROVE Pursued(p)'
    <2>1. inbox \in Nat /\ UNCHANGED <<cache, listener, timer, lpc, pos, snap>>
      BY <1>1 DEF Ddl, IInv, TypeOK
    <2>2. CASE p \in stmt.touches
      <3>1. stmt.notifies \/ listener # "up"
        BY <1>1, <2>2 DEF Ddl
      <3>2. listener' # "up" \/ inbox' > 0
        BY <1>1, <2>1, <3>1 DEF Ddl
      <3>3. QED
        BY <3>2 DEF Pursued
    <2>3. CASE p \notin stmt.touches
      <3>1. catalog'[p] = catalog[p] /\ (inbox > 0 => inbox' > 0)
        BY <1>1, <2>1, <2>3 DEF Ddl
      <3>2. \A k \in Loaders : WillRead(k, p) => WillRead(k, p)'
        BY <2>1, <3>1 DEF WillRead
      <3>3. QED
        BY <2>1, <3>1, <3>2 DEF Pursued
    <2>4. QED
      BY <2>2, <2>3
  <1>2. ASSUME NEW l \in Loaders, InitialLoad(l) \/ TimerFires(l) \/ Poll(l) PROVE Pursued(p)'
    <2>1. lpc'[l] = "called"
      BY <1>2 DEF InitialLoad, TimerFires, Poll, Call, IInv, TypeOK
    <2>2. QED
      BY <2>1 DEF Pursued
  <1>3. ASSUME NEW l \in Loaders, TryReload(l) PROVE Pursued(p)'
    \* It reads everything from now on.
    <2>1. lpc'[l] = "building" /\ pos'[l] = 1
      BY <1>3 DEF TryReload, GivesUp, IInv, TypeOK, OneBuild
    <2>2. WillRead(l, p)'
      BY <2>1, Order DEF WillRead
    <2>3. QED
      BY <2>2 DEF Pursued
  <1>4. ASSUME NEW l \in Loaders, Introspect(l) PROVE Pursued(p)'
    <2> DEFINE q == BuildOrder[pos[l]]
    <2>1. /\ lpc[l] = "building" /\ pos[l] \in 1..6 /\ q \in Parts
          /\ pos' = [pos EXCEPT ![l] = pos[l] + 1]
          /\ UNCHANGED <<catalog, cache, listener, inbox, timer, lpc>>
          /\ snap'[l] = [snap[l] EXCEPT ![q] = catalog[q]]
          /\ \A k \in Loaders \ {l} : snap'[k] = snap[k]
      BY <1>4, Order DEF Introspect, IInv, TypeOK
    <2>2. WillRead(l, p) => WillRead(l, p)'
      <3> SUFFICES ASSUME WillRead(l, p), NEW i \in 1..Len(BuildOrder), BuildOrder[i] = p, i < pos'[l]
                   PROVE  snap'[l][p] = catalog[p]
        BY <2>1 DEF WillRead
      <3>1. snap[l] \in Versions
        BY DEF IInv, TypeOK
      <3>2. CASE q = p
        BY <2>1, <3>1, <3>2 DEF Versions
      <3>3. CASE q # p
        <4>1. i < pos[l] /\ snap[l][p] = catalog[p]
          BY <2>1, <3>3, Order DEF WillRead, IInv, TypeOK
        <4>2. QED
          BY <2>1, <3>1, <3>3, <4>1 DEF Versions
      <3>4. QED
        BY <3>2, <3>3
    <2>3. \A k \in Loaders \ {l} : WillRead(k, p) => WillRead(k, p)'
      BY <2>1 DEF WillRead, IInv, TypeOK
    <2>4. QED
      BY <2>1, <2>2, <2>3 DEF Pursued
  <1>5. ASSUME NEW l \in Loaders, Swap(l) PROVE Pursued(p)'
    <2>1. /\ lpc[l] = "building" /\ pos[l] > 6 /\ cache' = snap[l]
          /\ UNCHANGED <<catalog, listener, inbox, timer>>
          /\ \A k \in Loaders \ {l} : lpc'[k] = lpc[k]
      BY <1>5, Order DEF Swap, EndBuild, IInv, TypeOK
    <2>2. PICK i \in 1..6 : BuildOrder[i] = p
      BY Order
    <2>3. cache[p] <= snap[l][p] /\ snap[l][p] <= catalog[p]
      BY <2>1, <2>2, Order DEF IInv, Between, TypeOK
    <2>4. cache[p] \in Nat /\ snap[l][p] \in Nat /\ catalog[p] \in Nat
      BY DEF IInv, TypeOK, Versions
    <2>5. cache[p] = catalog[p] => snap[l][p] = catalog[p]
      BY <2>3, <2>4
    <2>6. WillRead(l, p) => snap[l][p] = catalog[p]
      BY <2>1, <2>2, Order DEF WillRead, IInv, TypeOK
    <2>7. \A k \in Loaders : WillRead(k, p) => k = l
      BY <2>1 DEF WillRead, IInv, OneBuild
    <2>8. \A k \in Loaders : lpc[k] = "called" => lpc'[k] = "called"
      BY <2>1
    <2>9. QED
      BY <2>1, <2>5, <2>6, <2>7, <2>8 DEF Pursued
  <1>6. ASSUME NEW l \in Loaders, BuildFails(l) PROVE Pursued(p)'
    BY <1>6 DEF BuildFails, GivesUp, IInv, TypeOK
  <1>7. CASE Listen \/ LoseConnection
    BY <1>7 DEF Listen, LoseConnection, Pursued
  <1>8. CASE ReloadOnConnect \/ HandleNotification
    BY <1>8 DEF ReloadOnConnect, HandleNotification, Pursued
  <1>9. CASE EnsureTriggers \/ UNCHANGED vars
    <2>1. UNCHANGED <<catalog, cache, listener, inbox, timer, lpc, pos, snap>>
      BY <1>9 DEF EnsureTriggers, vars
    <2>2. QED
      BY <2>1 DEF Pursued, WillRead
  <1>10. QED
    BY <1>1, <1>2, <1>3, <1>4, <1>5, <1>6, <1>7, <1>8, <1>9 DEF Next, Reload

\* History has it when a step gives up.
LEMMA SkipsAreSeen ==
  ASSUME IInv, [Next]_vars, GivesUp
  PROVE  fails' > 0 \/ skipped'
  <1>1. CASE fails' > fails
    BY <1>1 DEF IInv, TypeOK, Next, Ddl, InitialLoad, Reload, TryReload, Introspect, Swap,
       BuildFails, TimerFires, Poll, EnsureTriggers, Listen, ReloadOnConnect,
       HandleNotification, LoseConnection, vars
  <1>2. ASSUME NEW l \in Loaders, lpc[l] = "called", lpc'[l] = "idle" PROVE skipped'
    <2>1. \E k \in Loaders : TryReload(k) /\ k = l
      BY <1>2 DEF IInv, TypeOK, Next, Ddl, InitialLoad, Reload, TryReload, Introspect, Swap,
         BuildFails, EndBuild, TimerFires, Poll, Call, EnsureTriggers, Listen, ReloadOnConnect,
         HandleNotification, LoseConnection, vars, loadVars
    <2>2. QED
      BY <1>2, <2>1 DEF TryReload, IInv, TypeOK
  <1>3. QED
    BY <1>1, <1>2 DEF GivesUp

LEMMA HistoryStays ==
  ASSUME IInv, [Next]_vars
  PROVE  fails' >= fails /\ fails' \in Nat /\ (skipped => skipped')
  BY DEF IInv, TypeOK, Next, Ddl, InitialLoad, Reload, TryReload, Introspect, Swap,
     BuildFails, TimerFires, Poll, EnsureTriggers, Listen, ReloadOnConnect,
     HandleNotification, LoseConnection, vars

\* A change the event triggers notify of, wherever it falls in a reload, a
\* reconnect or the debounce delay, stays pursued until the cache has it, and so
\* does every change they do not notify of once they notify of another or the
\* connection is lost: only a failed introspection and a reload skipped for
\* another forget it.
THEOREM ChangesArePursued == Spec => KeepsPursuing
  <1>1. IInv /\ [Next]_vars
          => [\A p \in Parts :
                Pursued(p) \/ p \in silent => Pursued(p)' \/ p \in silent' \/ GivesUp]_vars
    BY PursueNext
  <1>2. QED
    BY <1>1, WatcherInvariant, PTL DEF Spec, KeepsPursuing

\* When the watcher has nothing left to do, the cache has every change but the
\* silent ones, if no introspection failed and no reload was skipped.
THEOREM CacheCurrentAtRest == Spec => []UpToDateAtRest
  <1> DEFINE Inv == fails = 0 /\ ~skipped => \A p \in Parts \ silent : Pursued(p)
  <1>1. Init => Inv
    BY DEF Init, Pursued
  <1>2. IInv /\ Inv /\ [Next]_vars => Inv'
    <2> SUFFICES ASSUME IInv, Inv, [Next]_vars, fails' = 0, ~skipped', NEW p \in Parts \ silent'
                 PROVE  Pursued(p)'
      OBVIOUS
    <2>1. ~GivesUp
      BY SkipsAreSeen
    <2>2. fails = 0 /\ ~skipped
      BY HistoryStays DEF IInv, TypeOK
    <2>3. QED
      BY <2>1, <2>2, PursueNext
  <1>3. Inv => UpToDateAtRest
    BY DEF UpToDateAtRest, AtRest, Pursued, WillRead
  <1>4. QED
    BY <1>1, <1>2, <1>3, WatcherInvariant, PTL DEF Spec

-----------------------------------------------------------------------------
(***************************************************************************)
(* A listening watcher comes to rest.                                      *)
(***************************************************************************)
\* What is left to do before a reload is called, and to each loader.
ToDo ==
  (CASE listener = "down" -> 4 [] listener = "listen" -> 2 [] OTHER -> 0)
  + 2 * inbox + (IF timer THEN 1 ELSE 0)
LoaderToDo(l) == CASE lpc[l] = "idle" -> 0 [] lpc[l] = "called" -> 9 [] OTHER -> 8 - pos[l]

Disturbed == ddls' > ddls \/ losses' > losses
Nearer ==
  \/ ToDo' < ToDo
  \/ ToDo' = ToDo /\ \E l \in Loaders : /\ LoaderToDo(l)' < LoaderToDo(l)
                                        /\ \A k \in Loaders \ {l} : LoaderToDo(k)' = LoaderToDo(k)
ComesToRest ==
  [][phase = "running" /\ ~pollMode => Disturbed \/ Nearer]_vars

\* Between DDL statements and losses of the connection every step of a listening
\* watcher leaves less to do, in the order of listener and timer before reloads:
\* no notification and no reload makes another (listenLoop, scheduleReload,
\* Reload).
THEOREM WatcherComesToRest == Spec => ComesToRest
  <1>1. ASSUME IInv, Next, phase = "running", ~pollMode PROVE Disturbed \/ Nearer
    <2>1. /\ inbox \in Nat /\ timer \in BOOLEAN /\ ddls \in Nat /\ losses \in Nat
          /\ listener \in {"down", "listen", "up"}
          /\ lpc \in [Loaders -> {"idle", "called", "building"}]
          /\ \A l \in Loaders : pos[l] \in 1..7
      BY <1>1, Order DEF IInv, TypeOK
    <2>2. ASSUME NEW stmt \in Statements, Ddl(stmt) PROVE Disturbed
      BY <2>1, <2>2 DEF Ddl, Disturbed
    <2>3. ASSUME LoseConnection PROVE Disturbed
      BY <2>1, <2>3 DEF LoseConnection, Disturbed
    <2>4. ASSUME Listen \/ ReloadOnConnect \/ HandleNotification PROVE Nearer
      <3>1. ToDo' < ToDo
        BY <2>1, <2>4 DEF Listen, ReloadOnConnect, HandleNotification, ToDo
      <3>2. QED
        BY <3>1 DEF Nearer
    <2>5. ASSUME NEW l \in Loaders, TimerFires(l) PROVE Nearer
      <3>1. ToDo' < ToDo
        BY <2>1, <2>5 DEF TimerFires, ToDo
      <3>2. QED
        BY <3>1 DEF Nearer
    <2>6. ASSUME NEW l \in Loaders, Reload(l) \/ BuildFails(l) PROVE Nearer
      <3>1. UNCHANGED <<listener, inbox, timer>>
        BY <2>6 DEF Reload, TryReload, Introspect, Swap, BuildFails
      <3>2. /\ LoaderToDo(l)' < LoaderToDo(l)
            /\ \A k \in Loaders \ {l} : lpc'[k] = lpc[k] /\ pos'[k] = pos[k]
        <4>0. lpc[l] = "called" => pos[l] = 1
          BY <1>1 DEF IInv, OneBuild
        <4>1. CASE TryReload(l)
          BY <2>1, <4>0, <4>1 DEF TryReload, LoaderToDo
        <4>2. CASE Introspect(l)
          <5>1. pos' = [pos EXCEPT ![l] = pos[l] + 1] /\ UNCHANGED lpc /\ lpc[l] = "building"
            BY <4>2 DEF Introspect
          <5>2. pos'[l] = pos[l] + 1 /\ \A k \in Loaders \ {l} : pos'[k] = pos[k]
            BY <1>1, <5>1 DEF IInv, TypeOK
          <5>3. QED
            BY <2>1, <5>1, <5>2 DEF LoaderToDo
        <4>3. CASE Swap(l) \/ BuildFails(l)
          <5>1. /\ lpc[l] = "building" /\ lpc' = [lpc EXCEPT ![l] = "idle"]
                /\ pos' = [pos EXCEPT ![l] = 1]
            BY <4>3 DEF Swap, BuildFails, EndBuild
          <5>2. lpc'[l] = "idle" /\ \A k \in Loaders \ {l} : lpc'[k] = lpc[k] /\ pos'[k] = pos[k]
            BY <1>1, <5>1 DEF IInv, TypeOK
          <5>3. QED
            BY <2>1, <5>1, <5>2 DEF LoaderToDo
        <4>4. QED
          BY <2>6, <4>1, <4>2, <4>3 DEF Reload
      <3>3. \A k \in Loaders \ {l} : LoaderToDo(k)' = LoaderToDo(k)
        BY <3>2 DEF LoaderToDo
      <3>4. QED
        BY <3>1, <3>2, <3>3 DEF Nearer, ToDo
    <2>7. ~EnsureTriggers /\ \A l \in Loaders : ~InitialLoad(l) /\ ~Poll(l)
      BY <1>1 DEF EnsureTriggers, InitialLoad, Poll
    <2>8. QED
      BY <1>1, <2>2, <2>3, <2>4, <2>5, <2>6, <2>7 DEF Next
  <1>2. IInv /\ [Next]_vars => [phase = "running" /\ ~pollMode => Disturbed \/ Nearer]_vars
    BY <1>1
  <1>3. QED
    BY <1>2, WatcherInvariant, PTL DEF Spec, ComesToRest

-----------------------------------------------------------------------------
\* The watcher's state stays well typed; in particular no notification is
\* handled that was not received.
THEOREM WatcherTypes == Spec => []TypeOK
  <1>1. IInv => TypeOK
    BY DEF IInv
  <1>2. QED
    BY <1>1, WatcherInvariant, PTL

=============================================================================
