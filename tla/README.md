# A verification project for AllYourBase

AllYourBase (`ayb`) is a single Go binary that puts a REST API, realtime events,
authentication and file storage in front of a PostgreSQL database. This
directory holds TLA+ models of the parts of it where steps of several actors
interleave or fail, the TLC configurations that check them on small instances,
and machine-checked proofs (TLAPS) of the properties that matter most, for every
value of the constants.

`PROJECT.json` is the index: components, runs, mutants (a plausible bug of the
code that each property must catch), the map from definitions to source lines,
findings, hazards and theorems.

To check: `tlc -config <run>.cfg <module>` for the runs of the table below,
`tlapm <module>Proofs.tla` for the proofs.

## 1. Inventory

Sources are under `src/internal/` unless a path says otherwise.

| Component | State it keeps | Operations | Interacts with | What is hard | What makes it correct |
|---|---|---|---|---|---|
| **Records API** `api/handler.go`, `rpc.go`, `auth/rls.go` | none of its own: pool connections, transactions, row locks, `set_config` identity on a connection | list, read, create, update, delete, rpc; `withRLS` opens the transaction that carries the caller's identity, `done(err)` ends it | pool, schema cache (read), hub (publish), PostgreSQL row security | early returns, cancelled clients, clients that do not read, refused and implied COMMITs, lost answers, panics, locks, pool exhaustion | every path gives everything back; statements run as their caller; errors leave no trace; events match answers; a write that is acknowledged is committed |
| **Expansion, filters, queries** `api/expand.go`, `filter.go`, `query.go` | none | parse a filter into SQL with parameters; pages; fetch related rows and attach them | pool (second connection), schema cache | a second connection while one is held; precedence and parameter numbering; offsets that wrap; rows in another order for every page; related rows found through an index of values | nothing but nested reads blocks the pool; the database reads the filter the client wrote; pages partition the rows; expand is the join |
| **Realtime hub** `realtime/hub.go` | `clients` map under an RWMutex, `nextID`, a bounded channel per client | Subscribe, Unsubscribe, Publish, Close | publishers (record handlers), SSE sessions, server shutdown | channel closed twice or sent on after closing, slow readers, lock held while sending | no panic; a slow client costs only itself; publishing never waits; a lossy but ordered feed |
| **SSE sessions** `realtime/handler.go` | one client each | ServeHTTP, canSeeRecord | hub, pool, schema cache, token validation | events judged later than they were made; end of the stream | sessions end; hidden rows are not sent |
| **Schema cache and watcher** `schema/cache.go`, `watcher.go` | atomic pointer to the cache, `loading`, `ready`, listener connection, debounce timer | Load, Reload, Start, listen loop, poller | PostgreSQL event triggers and NOTIFY; server start waits for `ready`; every handler reads the cache | lost notifications, reconnects, overlapping reloads, non-atomic introspection | never goes back; settles once DDL stops; ready is closed once |
| **Introspection** `schema/introspect.go`, `schema.go`, `typemap.go` | none | BuildCache and its queries, relationship derivation | PostgreSQL catalogue | queries see different moments; relationships come in the order of a Go map | the cache is never older than what it replaces; a name that stands for one key means that key under every order |
| **Auth service** `auth/auth.go`, `handler.go` | tables of users, sessions, password resets, email verifications | register, login, refresh, logout, reset request and confirmation, verification and resend, me | mailer, PostgreSQL, middleware | no call uses a transaction: every statement interleaves; dropped errors; lost answers; expiry | used tokens are refused, unused ones are lost to races only; what was cleared stays cleared; an old password keeps no session; only mailed tokens change a password |
| **OAuth** `auth/oauth.go` | one-time states in memory; table of linked identities | redirect, callback, OAuthLogin | provider over HTTP, auth service | two first logins race; state used twice | one identity, one account; a state once |
| **Rate limiter** `auth/ratelimit.go` | timestamps per address, a cleanup goroutine | Allow, cleanup, Stop | auth routes | window boundary, cleanup between requests | never more than the limit in a window, and never less than it allows |
| **Storage** `storage/*.go` | files (disk or S3) and a table of objects | upload, download, delete, list, sign, validate | backend, PostgreSQL | file and row are written in two steps by concurrent callers; a file is rewritten in place; failing steps and crashes | no file without a row; calls that do not overlap leave row and file of the last change, and downloads answer it; a row has its file; a signed URL lives as long as was asked for |
| **Migrations** `migrations/*.go` | tables of applied migrations | Bootstrap, Run, Up, Status, CreateFile | PostgreSQL, start-up, `ayb migrate` | several processes on one database, crashes, files that appear late | each applied once, in order, with its record |
| **Embedded PostgreSQL** `pgmanager/pgmanager.go` | child process, pid file | Start, Stop, cleanupOrphan | operating system | crash or error return between start and pid file, a stop that fails | the next start finds the PostgreSQL that was left before it launches its own |
| **Server and start-up** `server/*.go`, `cli/start.go`, `postgres/pool.go` | http.Server, hub, limiter, pool | New, Start, Shutdown | everything | signal before start, requests and late sessions during shutdown, waits without a timeout, errors half-way | PostgreSQL is stopped after the requests; starts and shutdowns end |
| **Admin, middleware, mailer, config, CLI** `server/admin.go`, `mailer`, `config`, `cli` | none that changes | compare a password, send a mail, read settings | | | not modelled: see section 7 |
| **SDK, UI, docs** `src/sdk`, `src/ui`, `src/docs-site` | tokens in the client | HTTP calls, EventSource | server | event names | not modelled: see section 7 |

How a write travels: the server's router authenticates the caller (middleware),
the record handler borrows a connection, runs its statement under the caller's
identity, ends the transaction, answers, and hands an event to the hub; the hub
queues it for the sessions subscribed to the table; each session asks the
database whether its own caller may see the row and writes it to its stream.
The handlers find their tables in the schema cache, which the watcher replaces
when the database's DDL triggers notify it.

## 2. The modules

| Module | Role |
|---|---|
| `RecordsAPI` | the life of a record or RPC request |
| `EventFeed` | abstract: what the hub promises a subscriber |
| `RealtimeHub` | hub and SSE sessions; `IsLossyFeed` instantiates `EventFeed` |
| `SchemaWatcher` | schema cache, watcher, introspection order, wait for the first load |
| `TokenLedger` | abstract: what the auth service promises about refresh tokens |
| `AuthService` | the auth service's calls; `IsTokenLedger` instantiates `TokenLedger` |
| `ObjectStore` | file storage: files of a backend and their rows |
| `Migrations` | system and user migrations run by several processes |
| `SlidingWindow` | abstract: a rate limiter that never forgets |
| `RateLimiter` | the rate limiter; `IsSlidingWindow` instantiates `SlidingWindow` |
| `ServerLifecycle` | `ayb start` from the pid file to the last deferred call, over several runs |
| `MachineInts` | integers up to `MaxInt`, in two's complement |
| `Pages` | the page arithmetic of list requests, and its property |
| `SignedURL` | lifetimes of signed URLs, and their property |
| `FilterParser` | the parser of filters and the SQL it makes, their grammar, and that the one accepts the other |
| `FilterSQL` | buildList, a second reader of filters and of SQL, and that both mean the same |
| `Joins`, `ForeignKeys`, `Expansion` | one step of expand; relationships and their names; paths of steps |
| `MCQueries` | inputs for the last seven |
| `RecordsAPIProofs`, `RealtimeHubProofs`, `SchemaWatcherProofs`, `AuthServiceProofs`, `ObjectStoreProofs`, `MigrationsProofs`, `RateLimiterProofs`, `ServerLifecycleProofs` | theorems and their proofs |
| `MCRealtimeHub`, `MCAuthService`, `MCObjectStore`, `MCMigrations` | symmetry for TLC, nothing else |

Operators whose comment begins with "Mutated" are not part of the model: each is
a definition with a plausible bug, which the property named beside it in
`PROJECT.json` refutes.

### RecordsAPI

A request is a goroutine with a program counter. `Arrive` (with any kind, with or
without claims, with or without `expand`) or `TurnAway`; `Acquire` is
`pool.Begin` or the connection the statement takes; `SetRLSContext`; `Execute`,
whose outcomes (`Outcomes`) are what PostgreSQL can return; `Scan`; expansion on the
transaction's connection (`ExpandInTx`) or on a second one (`ExpandAcquire`,
`FetchRelated`), or its panic on a key Go cannot hash (`ExpandPanics`); `Commit`, `CommitFails` or `NothingToCommit`, each followed by
the answer (`Respond`), whose writing lasts until the client has read enough of it or left
(`Deliver`); `Publish`; `Cleanup`, the deferred `rows.Close`. `Fail` is
every early return with an error. `Disconnect` cancels the context at any time.

Four facts about PostgreSQL and pgx carry the model. A result set that was not read to its end keeps
its connection busy; `scanRow` reads one row and leaves it open; a COMMIT
on a busy connection closes it, which rolls back; and the COMMIT that ends a statement
outside a transaction (`Settle`) comes after its rows, so that `scanRow` can return before it
and never learns whether it was refused. A statement on a row written
by an open transaction waits for it. A statement the handler is told has failed, because its
client left or the connection broke, may have had its effect: without claims it is still `pending`
and `Settle` decides.

Rows are abstracted to which exist and whose uncommitted write is on them;
statements to their kind. One row is enough: requests interact through a common
row and through the pool, not across rows.

### RealtimeHub

`TakeID` and `Register` are Subscribe (the identifier is taken before the lock);
`Receive`, `Flush` and `StopStreaming` the loop of ServeHTTP, where `Flush` is the end of the
write to the client, which that client can put off for ever; `Unsubscribe` its deferred
call; `BeginPublish`, `Visit` (one client) and `EndPublish` are Publish under the
read lock; `Close`. Sections under the write lock are single steps, enabled when no
publisher holds the read lock. `canSeeRecord` may hide any event but a delete.
`panicked` records a send on, or a second close of, a closed channel.

### SchemaWatcher

The catalogue is a version number per part, so that a cache can mix moments.
`EnsureTriggers` decides between listening and polling; `InitialLoad`,
`TimerFires` and `Poll` are the three callers of Reload; `TryReload` is its
compare-and-swap, `Introspect` one query of BuildCache, `Swap` and `BuildFails`
its ends. `Listen`, `ReloadOnConnect`, `HandleNotification` and `LoseConnection`
are the listen loop. `Ddl` changes parts and notifies only for what the event
triggers cover: their command tags and object types name tables, views and types. CREATE INDEX
and CREATE FUNCTION are not among them, nor COMMENT ON, whose text is read with the tables, ALTER
DOMAIN and DROP SEQUENCE, which change columns, nor ALTER SCHEMA, whose RENAME changes
everything. `skipped` and `silent` are history: a call of Reload found another in progress and
returned; and the parts that such statements changed with no notification or reconnect since.

### AuthService

A call is a sequence of statements, one step each, because no call of the
service opens a transaction. Tokens are named by the call that made them, rows by
the call that inserted them, an account by its email. A client presents only what
some client was given (`Presentable`). `Faults` says what may fail:
statements whose error is looked at (`Fail`), those whose error the code drops (in
`ClearResets`, `ClearSessions`, `ClearVerifs`), and the server itself (`Crash`, which
cuts off every call, keeps the tables and empties the state store). A statement may also take
effect while its call or its client is not told (`Unheard`): the connection breaks, the client
leaves and pgx cancels a statement that is over, the server dies before it answers. `GiveUp` is what a
handler makes of an error: it is returned, but for the verification mail of a registration,
and a forgotten password, which are answered as if nothing had happened. `Lapse` passes a row's
`expires_at`. The kind "create" is `ayb admin create`, the INSERT of register alone.
`missed` and `late` are history: the tables a call failed to clear without noticing, and
logins that had checked, or registrations that had inserted, the password a reset was about to replace.

OAuth: `Generate` is handleOAuthRedirect and the state store's Generate, `Validate` the state
check of the callback, `Exchange` the provider's answer (an identity, and an email or
none: GitHub's handler goes on without one when it cannot read the addresses), then
`ReadLink`, `ReadByEmail`, `InsertOAuthUser` and `Link` are OAuthLogin and `InsertSession`
its issueTokens. An identity without an email gets the account of its `Placeholder`
address. The model shows one thing the property has to except: two first logins of one identity
that are told different emails both go on as the account each has found, though
only one link is stored, so one of them is logged in as an account the identity never reaches again.

### ObjectStore

An upload is `Create` (`os.Create`: a new file, or the one of that name emptied),
`Copy` chunk by chunk, `CopyDone`, `Record` (the INSERT ... ON CONFLICT) or
`RecordFails` with its clean-up; on S3 `PutObject` replaces the object at once.
A delete is `DeleteRow` and `RemoveFile`, a download `Lookup`, `Open` and `Read`
(never beyond the row's size, which serveFile sends as Content-Length).
`PutFails`, `RecordFails`, `Fail` and `RemoveFile` are the failing steps; `PutUnheard`,
`RecordUnheard` and `DeleteUnheard` those that take effect and report an error all the same, because
the answer was lost or the client left; `Crash` ends every call where it is. The effect of such a
statement is there by the time its error is: one that PostgreSQL finishes only after the call
has gone on is left out. A file is named by the upload that created it and is a
sequence of chunks marked with their writers, so a truncated file, a mixture of two
uploads and a stale tail are all visible.

Two variables are chosen at the beginning: `backend`, and `serial`, whether clients wait for
each other's calls on a name. The code has no lock, so what it promises to
overlapping calls is little; `SerialAgree` and `ReadYourWrites` say what it promises when
calls on a name do not overlap (calls on other names still do).
`hurt`, `latest` and `expected` are history that only properties read: the faults that befell
calls on a name since its last answered change, which mends what earlier ones did (`Heal`);
that change; and what a download that arrives now may answer, which is nothing in particular
while the name is hurt.

### Migrations

A process is a server that starts (system migrations, then the user's) or
`ayb migrate up` (the user's only); one that restarts is another process. `Bootstrap`,
`List`, `Check` (the SELECT EXISTS of the next file), `Execute` (BEGIN and the
script), `Record` (the INSERT), `Commit` and `Finish` are the loop shared by
`Runner.Run` and `UserRunner.Up`. `List` lets binaries of two versions run at once, and
`CreateFile` adds a file under any name, so that a later run may find a file that sorts
before what is applied. `Fail` is every error return and death at every step, `CommitUnheard` a
COMMIT that succeeds while its process is told, or sees, nothing.

PostgreSQL's part is what a transaction hides until it commits and that the unique
name makes a second INSERT wait for the first. `times` counts how often a script's
effect was committed. A script that ends the transaction it runs in (a user's file
with its own COMMIT) is assumed away: then effect and record are two transactions.
A process that loses a race ends with an error although the migration is applied; the
properties ask for no more, as nothing in the code takes a lock for the whole run.

### RateLimiter

`Allow` is a request and its judgement, `Cleanup` a pass of the goroutine, at a tick
it may take late, `Stop` and `CleanupEnds` its end; each holds the mutex from its
reading of the clock on and is one step. `Advance` lets the clock jump. The model
names a time stamp by the request that left it, so that `SlidingWindow`, which
remembers all of them, can be compared step by step: `LetIn` and `TurnAway` map to
`Allow`, everything else but the clock is a stutter.

### ServerLifecycle

A run is the main goroutine of one `ayb start`. `Probe` and `Await` are
`cleanupOrphan`; `Launch`, `WritePID` and `FillPID` (the file is opened, which empties
it, and then written) the rest of `Manager.Start`; `Initialise` is everything in
runStart that can return an error, which leaves PostgreSQL running. `AssignHTTP` and
`Listen` are the goroutine of `Server.Start`, unsynchronised with the main one as in
the code: `ShutdownHTTP` may find `s.http` nil, and the panic skips `pgMgr.Stop`.
`Select` leads through `CloseHub`, `ShutdownHTTP`, `Drain` (all answered, or
`ShutdownTimeout`), `StopPG`, `Unlink` and `ClosePool`, or to `StopPG` at once when the
listener failed. `Crash` ends a run anywhere, `Die` a PostgreSQL.
Requests are accepted, take a connection (`Query`), or subscribe, also after hub.Close
(`Subscribe`), and leave when they like. Runs follow each other: two at once on one
data directory meet only in PostgreSQL's own lock, and their pid files would
overwrite each other. A pid that another program has got by the time of
`cleanupOrphan` is excluded too: the code sends it TERM, as it cannot tell.

### FilterParser, FilterSQL, Pages, Joins, ForeignKeys, Expansion, SignedURL

`FilterParser` is the recursive descent parser over tokens. Each of its functions is a function
of its calls, a position and the arguments so far: `Primaries` given the expressions in
parentheses, `Conjunctions` and `Expressions` as loops over operands (`Joined`, turn by turn
`Another`), nested as deep as a filter has tokens; `Parse` wants all of them read. A node is
the SQL that toSQL makes of it (`Compared`, `ComparedWithNull`, `Listed`, `Pair`), a sequence of
the same tokens: the code asks nothing else of a node. Beside the parser
stands the grammar (`WellFormed`), by which any span of tokens is an expression or not: it knows
no position, no precedence and no order of reading, so that an expression may split at any
of its operators. `IsDocumentedTest` is what the API reference writes beside it.

`FilterSQL` is buildList with its parameters. It also holds a second reader (`Holds`), for filters
and for SQL, which shares nothing with the parser: an expression splits at its last OR outside
parentheses (`Outside`), at its last AND only where there is no such OR, and it is true or false by the
tests a row passes. A test of NULL counts as failed; that SQL calls it unknown makes
no difference to which rows are kept, since nothing negates.

`Pages` is what handleList makes of page and page size,
buildList's offset, and the rows PostgreSQL returns for it. The query has an ORDER BY only when
the client asks for a sort, and nothing breaks its ties: every page has an order of its own
(`Arrangements`), in which rows may change places with those they are tied with (`Tied`). `Joins` is one step of expand as
the code does it: one query for the values of all records (`Fetch`), an index of what came
back by Go value, attachment record by record (`Attach`), one row per record where the relationship is
many-to-one; and what the step means for one row, by all columns of the key (`Mates`). `SameInSQL` and
`SameInGo` are the two equalities that meet there, and `Joinable` says what the code counts on: one
column, and values that Go's maps find as the database does. `ForeignKeys` is buildRelationships over the tables in some order, the first
relationship that answers to a name (`FirstNamed`), and, with no order and no first, the keys
a name can stand for (`Away`, `Towards`). `Expansion` is expand, path after path, relationship after relationship
(`Follow`). A record holds the columns `fields=` asks for (`Part`); one that is read alone, with claims, is
expanded on a busy connection, where no query finds anything (`Findable`).
Beside it stands `Meaning`, the join read off the foreign keys for one row and its
`Partners`, and `ExpandIsJoin` compares the two for every order of the tables. `SignedURL` is the arithmetic of handleSign, SignURL and
ValidateSignedURL. `MCQueries` enumerates inputs: filters grow piece by piece
(`Extend`), tables reference by reference (`Refer`), and pages and lifetimes lie around the
edges of the arithmetic. What TLC cannot enumerate, integers of any width and tables of any
size, the proofs cover.

The lexer below its tokens and the conversion of literals to Go values are left out; both
reject what they do not know. One thing met there: the lexer steps over a backslash before a
quote but keeps it in the value (`filter.go:85`), so a value with a quote in it cannot be
written.

## 3. The runs

| Run | Instance | Question and answer |
|---|---|---|
| `records_pair` | 2 reads, lists, updates or deletes, 2 connections, 1 row, COMMITs refused, answers lost, panics, clients that do not read, fair handlers | `PoolHygiene`, `RunsAsCaller`, `ErrorLeavesNoTrace`, `AnnouncedOnce`, `OnlyNestingBlocks` hold; `RequestsComplete`: every handler ends, unless the pool is taken for good or its client does not read |
| `records_acked` | 1 authenticated write | finding: acknowledged and announced, never committed |
| `hub_safety` | 2 sessions, 2 publishers, 2 tables, channels of 1, 2 calls of Close | `NoPanic`, `ClientsMatchChannels`, `SlowClientsLoseAlone` hold |
| `hub_feed` | 1 session, 2 publishers of 2 updates, channel of 2, a client that may stop reading, fair | `IsLossyFeed`: the hub implements `EventFeed`; `NobodyWaits`: publications and sessions end |
| `schema_settles` | both modes, 2 DDL, 2 lost connections, 1 failure, reloads overlap, fair | `NeverBackwards`; the cache settles: on all parts but those changed without a notification, unless a reload failed or was skipped; in poll mode on all |
| `auth_sessions` | 4 calls of every kind on one account and one OAuth identity, 2 faults (errors reported or dropped, answers lost, crashes), 1 expiry | `UsedTokensRefused`, `TokensLostToRacesOnly`, `OldPasswordsKeepNoSession`, `ClearedIsGone`, `StateUsedOnce`, `IsTokenLedger`, `IdentityKeepsAccount`, `MailProvesOwnership` hold |
| `storage_calls` | 3 calls of any kind on one object that may exist already, both backends, overlapping or serial, 2 chunks, any step failing or taking effect unheard, 1 crash | `NoOrphanFiles`, `SerialAgree`, `ReadYourWrites` hold |
| `storage_overwrite` | 2 serial calls, local disk, a failing INSERT | finding: a row whose file is gone |
| `migrations_race` | 3 processes, 2 system and 2 user migrations, any step failing | `OnceWithRecord`, `SuccessMeansApplied`, `AppliedInOrder` hold |
| `rate_limit` | 2 addresses, limit 2, window of 2, 6 instants | `LimitInEveryWindow` holds; `IsSlidingWindow`: the limiter implements `SlidingWindow` |
| `server_life` | 3 runs, 1 request or session, fair main goroutine | `OrphansAreNamed`, `LaunchIsFree`, `OnlyLateSessionsUntold`, `DatabaseOutlivesRequests` hold; `RunsSettle`: starts and shutdowns end, but for one wait |
| `queries` | filters of up to 4 pieces; integers of 16 bits; 3 tables with up to 3 references under 3 schemas in every order | `AcceptsItsGrammar`, `FilterKeepsItsMeaning`, `PagesPartitionRows`, `URLLivesAsAsked`, `ExpandIsJoin` hold |

The type invariants are theorems of section 5, not part of the runs. TLC checks for deadlock wherever the system cannot
simply stop (record requests; migrations, where all processes having ended is a step
of its own); the other models stop when their bounds are used up.

### Bounds, and why they are enough

* `RecordsAPI`: two requests give every pairwise race for a connection, a row lock
  and an identity left behind on a connection. Two connections are as many as requests, so the
  circle of nested reads is reached: two reads without claims hold one each, with an open result set, and
  `fetchRelated` asks for a second. `OnlyNestingBlocks` says that nothing else makes handlers wait for each other in a
  circle, and `RequestsComplete` excepts a pool that is taken for good.
  The run leaves out create and RPC: their steps are those of an update whose outcome
  `records_acked` shows, and the proofs cover every kind.
* `RealtimeHub`: the panics need a session, a publisher and a closer; a victim of
  somebody else's slowness needs two sessions; order within a queue needs two
  events in a channel of two (`hub_feed`), not two tables, which `hub_safety` has, nor
  deletes, which differ in that `canSeeRecord` never hides them. `MaxEvents` and `MaxCloses` bound histories, not
  interleavings.
* `SchemaWatcher`: two loaders are one running reload and one that finds it
  running; the second DDL statement may fall on either side of a reload that has begun, and the
  second loss between a reconnect and its reload.
* `AuthService`: the longest chain that matters (register, use a token, race it,
  use the result) takes four calls. One account: a token names its account
  through its row, so calls on different accounts touch disjoint rows. Four calls are two
  OAuth logins with their redirects; the identity's placeholder is a second account. Two faults
  (`MaxFaults`) are one that sets a call up and one that befalls another; the theorems have no such bound.
* `ObjectStore`: three calls are an upload, a call that overlaps it at every step and one
  that comes after both; with the object there at the beginning that is two earlier changes.
  Two chunks tell a long file from a short one. One name: calls on different names touch different
  files and rows, which `ObjectStoreProofs` proves (`HandleIsLocal`).
* `Migrations`: three processes are two that race and one that starts after either has ended;
  two migrations per table give order within a table, and two tables order across them.
* `RateLimiter`: a window of two has an inside and an edge, six instants are three windows, and
  the goroutine gets two passes with requests before, between and after them.
* `ServerLifecycle`: an orphan, the run that finds it, and one after that which finds what a
  clean-up that was cut short has left. One request: requests meet only in the main
  goroutine, which waits for all.
* `MCQueries`: a piece is a comparison, two joined by an operator, two in parentheses, or a
  single token: four of them join three comparisons by both operators, with parentheses
  around either side or both. Sixteen bits (`MaxInt` is 32767) wrap at the edges TLC enumerates
  as sixty-four do at theirs, and the theorems about pages and lifetimes hold for every
  `MaxInt`: `WidthAssumption` and `DurationsAssumption` say what the code needs of it. Two rows and three
  references give a value shared by rows, a row nothing refers to, a dangling value and a
  null, along paths of two steps and back.

### Fairness

* `RecordsAPI!FairSpec`: weak fairness of each handler; a runnable goroutine runs,
  PostgreSQL answers and ends what it began, a freed connection is given out. Clients are not obliged to
  arrive, to leave or to read: `server.go:150-153` sets no WriteTimeout, so the write of an
  answer is fair only once its client has left.
* `RealtimeHub!FairSpec`: weak fairness of reading from the channel and of a publisher's next client; of the
  write to the client only if that has left;
  strong fairness of taking the write lock, because Go's RWMutex blocks new readers
  once a writer waits. No fairness of BeginPublish, Disconnect or Close.
* `SchemaWatcher!FairSpec`: reloads run and end, timers and tickers fire, the listener
  reconnects. DDL, losses and failures are bounded, not fair.

* `ServerLifecycle!FairSpec`: weak fairness of the main goroutine of each run. Its waits
  for PostgreSQL and for the drain have timeouts; those of the start-up (`start.go:103-166`: the pool's first connection,
  migrations, the first load of the schema) have none, and the fairness is that PostgreSQL answers them; the last, `pool.Close`, has
  neither and is `RunsSettle`'s exception. Nobody is obliged to send a request, to end one, or to
  send a signal, and a PostgreSQL that was sent TERM need not end.

`AuthService`, `ObjectStore`, `RateLimiter` and `Migrations` have safety properties only; in `Migrations`: nothing waits but `Record`, and TLC's deadlock
check covers that.

## 4. Findings

1. `records_acked` - `api/handler.go:89`. With authentication on, `withRLS`'s
   cleanup "commits the tx on success" (handler.go:67). Create and update, and RPC
   functions that return a scalar, read their row with `scanRow`, then call
   `done(nil)` while the result set is still open. The commit fails on the busy
   connection, its error is dropped, and the client is answered with success.
   The run shows it with one request, no fault and no concurrency. How far it reaches is a
   theorem, `UnreadWritesAreLost`: the writes with claims that are answered through
   `scanRow` are lost, all of them; another acknowledged write is not, unless its client
   left before the COMMIT or the database refused it - or, without claims, has still to decide.
2. `storage_overwrite` - `storage/storage.go:92`. Upload over an existing object
   replaces the file before the INSERT; when the INSERT fails, "Clean up the stored
   file on DB error" removes the file the older row still names. The object stays
   listed and its download is 404. No concurrency is needed; a DeleteObject whose two steps
   an upload falls between leaves the same state (give the configuration
   `Disciplines = {FALSE}` and `Faults = {}` to see it). When calls do not overlap, a row
   loses its file in this way, an INSERT that was only reported to have failed included, and in one other (`OnlyFailedUploadsLoseFiles`): an upload
   to the local disk that breaks off half-way has already emptied the older file, and removes
   it. The next upload or delete of the name that succeeds mends either.

Weaknesses that a property states as its exception, so that the run passes only because of it:

* `api/expand.go:109` (`OnlyNestingBlocks`, `RequestsComplete`): a read without claims that expands holds a connection
  while it asks the pool for a second one. As many of them as the pool has connections
  wait for each other until a client leaves.
* `server/server.go:150` (`RequestsComplete`, `NobodyWaits`): there is no WriteTimeout, so a client that stays and does
  not read holds its handler for ever, a one-row answer without claims its connection too (rows.Close is
  deferred), and a realtime session even after hub.Close.
* `api/expand.go:87` (`PoolHygiene`): a key of a type Go cannot hash (bytea, json) makes expand panic; with
  claims the transaction stays open, because done is not deferred, and the pool has one connection less.
* `api/handler.go:584` (`AnnouncedOnce`): without claims a create or an update is answered and announced
  when its row has come, before the COMMIT that PostgreSQL adds. A deferred constraint that refuses it
  is not noticed: scanRow does not read so far, and nobody asks `rows.Err` after `rows.Close`.
* `schema/watcher.go:197` (`NotifiedChangesSettle`): COMMENT ON, ALTER SCHEMA ... RENAME, ALTER DOMAIN, DROP SEQUENCE, CREATE
  INDEX and CREATE FUNCTION change what the cache holds and are not notified of.
* `schema/cache.go:63` (`NotifiedChangesSettle`): a reload that finds another in progress
  returns at once and leaves no trace. If the running one has passed the query that
  would have seen the change, the change stays unknown until the next notification,
  although the "Watcher listens for DDL change notifications and triggers schema cache
  reloads" (`schema/watcher.go:22`). It takes an introspection longer than the debounce delay.
* `auth/auth.go:476` and `479` (`ClearedIsGone`, `OldPasswordsKeepNoSession`): "Invalidate all
  existing sessions (force re-login)" drops the DELETE's error, and the reset reports success.
* `auth/auth.go:150` and `98` (`OldPasswordsKeepNoSession`): a login that checked the old password
  before the reset, or a registration that is between its user and its session, inserts its session
  after the reset's DELETE.
* `auth/auth.go:292` (`TokensLostToRacesOnly`): of two refreshes of one token both succeed and
  one client is left with a token that is refused. So is the client of a refresh whose UPDATE took
  effect and whose answer it did not get: the token it holds is used up and the new one is nobody's.
* `storage/storage.go:135` and `76` (`NoOrphanFiles`): a DELETE, or a PUT to S3, that took effect and reported an
  error leaves a file no row names.
* `realtime/hub.go:101` (`OnlyLateSessionsUntold`): a session that subscribes after
  hub.Close is not told, and the shutdown waits for it until `ShutdownTimeout`.
* `cli/start.go:113` (`RunsSettle`): the deferred `pool.Close` has no timeout. A read without
  claims keeps its connection while its answer is written; a client that takes
  no more of it keeps a process from ending that has given up waiting and stopped PostgreSQL.
* `pgmanager.go:122` (`OrphansAreNamed`): a PostgreSQL whose pid file could not be written, or
  whose stop failed (the pid file is removed all the same), is found by nobody.
* `api/query.go:141` (`PagesPartitionRows`): without `sort` there is no ORDER BY, and a sort by a column that
  repeats has no tie-breaker, so that a row can be on two pages or on none although nothing was written.
* `api/query.go:146`, `storage/handler.go:201` (`PagesPartitionRows`, `URLLivesAsAsked`): the product
  wraps for huge pages and lifetimes, and is then an ordinary one.
* `api/expand.go:48`, `schema/introspect.go:447` (`ExpandIsJoin`): of two keys that answer to one
  name the first in Go's map order is taken.
* `api/expand.go:131` and `174` (`ExpandIsJoin`): of a key of several columns only the first is compared, so rows are
  attached that the key does not relate. A key whose columns have different integer types, or
  are `numeric` (pgx returns a pointer in it), attaches nothing.
* `cli/start.go:213` (outside `URLLivesAsAsked`): without a JWT secret the key that signs URLs is drawn at
  every start, which ends those of before early; the server logs it.

Divergences from the documentation that no violation run shows:

* The API reference gives `deleted_at IS NULL` and `name LIKE '%john%'` as filters
  (`src/docs-site/guide/api-reference.md:63-67`). The parser refuses both: it knows `deleted_at=null` and
  `name~'%john%'`. `AcceptsItsGrammar` states that it does.
* Getting one record "Supports `?fields=` and `?expand=`" (`api-reference.md:96`), but with claims nothing is expanded:
  the query for the related rows meets the connection that `scanRow` left busy, and its error is logged
  only. `ExpandIsJoin` states it (`alone`). What is attached is nested under `expand` and the relationship's
  name, not "under the FK column name" (`api-reference.md:124`).
* The SSE handler names each event after its action (`realtime/handler.go:126`) while the SDK
  (`src/sdk/src/client.ts:344`) and the guide (`src/docs-site/guide/realtime.md:49`)
  listen with `onmessage`, which receives unnamed events only.

## 5. Proofs

All theorems are about `Spec` (no fairness), or about requests as such where the code is a pure
function of them, and hold for every value of the
constants that satisfies the module's named assumption.

* `RecordsAPIProofs`. The inductive invariant relates a request's program counter
  to what it holds: which connection, whether in a transaction, whether busy, under which
  identity, and whose lock is on which row. `PoolHygiene` alone is not inductive:
  that a connection is free of identity when it is given back needs that exactly
  its holder's identity was on it before. From the invariant follow `PoolHygiene`,
  `RunsAsCaller`, `ErrorLeavesNoTrace` and, with no assumption on the size of the pool, `OnlyNestingBlocks`
  (`HandlersBlockByNesting`: the holder of a row lock waits for nothing, so who is blocked waits for a
  connection or for its client, and each connection is held by one that cannot give it back). `AnnouncedOnce` needs two more facts: who is about to
  publish has been answered with success (`Told`), and where the write of a statement without claims is:
  committed, still to be, or refused (`Committed`). `UnreadWritesAreLost` follows from these and from where a result set
  is unread (`Reading`). The safety half of `RequestsComplete`: by a rank over the stages, no
  step takes a handler back (`HandlersAdvance`), and while those that can keep a connection they wait with are fewer
  than the connections somebody goes on, by counting (`SomeHandlerCanMove`).
  `PagesPartition` is arithmetic of division for every `MaxInt`, page and number of rows; a row whose ties
  lie within a page cannot be moved off it, because an arrangement only exchanges tied rows.
  `BatchIsJoin` says of every batch of records what `ExpandIsJoin` says of small ones: query and
  index together give each record its own rows, by all columns of the key, and nobody else's; `NestedBatchIsJoin`
  says it of a path of two names, the longest there is. Their hypothesis is `Joinable`: without it the statement is
  false of the code, as section 4 lists. Which relationship that is, `NameMeansItsKey` says of every
  schema: a name that can stand for one foreign key only is taken for that key, wherever in Go's
  map order it comes, and `ReloadsKeepTheMeaning` draws the conclusion for a reload. They rest
  on an induction over the flattened lists (`Flattened`), which the library's well-foundedness of
  the naturals gives without an operator as parameter.
  `ExpandAttachesTheJoin` puts these together: for any tables, rows and paths, in any order of
  the tables, expand gives every row its `Meaning`. The partners of a name are those of its key
  (`NamedPartners`), a path of one or two names attaches them (`LastNameFollowed`,
  `PathFollowed`), and by induction over the paths the last one that names a field keeps it
  (`ExpandedRows`). It asks for `SimpleKeys`, which is `Joinable` of every key in both directions, and that no
  path is empty, which strings.Split promises.
  `ParserAcceptsItsGrammar` says of any filter that the parser takes it exactly when it is an
  expression, and hence no test that names no operator (`NamesAreTested`). Where a call ends does not depend on the arguments it is given (`Reads`): a
  comparison has one end (`ComparisonEnds`), a loop ends at the first operand that its operator
  does not follow (`JoinedRead`), and so the two loops over primaries are one, whichever the
  operator (`LevelOf`). What is read is an expression, by induction over depth and position
  (`NestedSound`); an expression is read to its end, wherever the grammar splits it, by induction
  over its length, which bounds how deep it is nested (`NestedComplete`).
  `WhereClauseKeepsTheFilter` says, again of any filter, that the WHERE clause with its
  arguments in place is true of exactly the rows the filter is true of, and that the data
  query binds the same arguments before those of LIMIT and OFFSET. The second reader is
  well defined, by the length of what it reads (`Readers`, `ReadersAgree`, `HoldsRead`).
  Where it splits is a matter of the depth of parentheses: what the parser reads and what
  toSQL makes is closed, its depth never negative and zero at its end (`DepthGlued`, `Closed`),
  and lacks outside parentheses the operators that bind less (`Lacks`). So the reader takes a filter apart
  at its last operator, where the parser's loops ended (`JoinedByOr`, `JoinedByAnd`), and a pair
  of SQL inside its parentheses (`InParentheses`). `Carried` is the invariant of a call: the SQL with the arguments is true
  of what the tokens read are true of. Comparisons have it (`ComparisonCarries`), a loop keeps it
  turn by turn (`JoinedCarries`), nesting keeps it (`ExpressionsCarry`); arguments are only
  ever appended (`Lengthens`), so what was bound stays bound (`ArgumentsShared`). `20 <= MaxInt`
  is there for the OFFSET of the page the property asks for.
* `RealtimeHubProofs`. The inductive invariant adds to `ClientsMatchChannels` what the
  locks give: a publisher's remaining clients are registered ones, so nobody
  unregisters while it sends; an identifier was taken by one session. It gives
  `NoPanic`, `ClientsMatchChannels` and `TypeOK`, which contains the bound on
  every channel. `SlowClientsLoseAlone` is inductive with `Unvisited`: a client a publisher
  has still to visit was brought only earlier events of it, so its queue is full of others
  when it is passed over. That the hub implements `EventFeed` needs that queued events were
  announced and asked for (`Asked`) and that each publisher's events wait in order, behind
  those already sent (`Ordered`). `FinishersAreNotHeldUp` is the safety half of `NobodyWaits`.
* `SchemaWatcherProofs`. One build at a time (`OneBuild`), what it has read
  lies between cache and catalogue (`Between`), nothing but the first load happens
  before the server runs (`Phases`). From these: `NeverBackwards`, an action property, and
  `ReadyOnce`. The safety half of `NotifiedChangesSettle` is three theorems: a change
  is pursued by something until the cache has it, or was made in silence, and is given up only by a failing build
  or a skipped reload (`ChangesArePursued`); when nothing is under way any more the
  cache is current on all that is not silent (`CacheCurrentAtRest`); and every step but DDL and losses leaves less to do
  (`WatcherComesToRest`). Without either exception TLC refutes the first two on the instance of
  `schema_settles`.
* `ObjectStoreProofs`. `NoOrphanFiles` speaks of quiet names only and is not
  inductive; `OrphansOwed` adds that a file without a row is owed by a call in
  progress that will record it or remove it. For the serial properties, `SerialInv`
  says of each call what it may rely on at its step (`Downloading`, `Changing`) and
  that at most one call is busy on a name; `FilesApart` and `Named` say that a file
  belongs to one name and that history names uploads that have begun. The step is proved in
  two halves: a call's own facts (`OwnStep`), and that a call leaves everything
  about other names alone (`HandleIsLocal`, `OthersKeep`). `OnlyFailedUploadsLoseFiles` adds that
  who is about to remove a file under a row was told why (`ToldWhy`).
  `URLsLiveAsAsked` is arithmetic of `SignedURL` for every `MaxInt` that holds a week.
* `MigrationsProofs`. `Transactions` says what an open transaction has done at each
  step of its process, and that of two transactions with one name at most one
  holds the record; without it `OnceWithRecord` is not inductive. `Progress` says that all
  a process has listed is recorded but the migration it is at and what its loop has still to come to.
  `MigratorsNeverDeadlock` follows from `Transactions`: a transaction records one name, so who
  is waited for is at its COMMIT. Locks that scripts take are the scripts' own.
* `AuthServiceProofs`. `UsedTokensRefused` is not inductive: that a refresh leaves its
  token in no session needs that a token is in one session at most and that sessions
  hold tokens of calls that have begun; `StateUsedOnce` needs that a state a callback has
  consumed is not in the store and that every later callback presents one that is. For the
  refinement of `TokenLedger`, a step of the tables is a rotation, a login, a removal or a
  lapse, and what has lapsed belongs to a call that has ended (`LInv`), so it never returns.
  `MailProvesOwnership` rests on every reset and verification presenting a token that was
  mailed (`MInv`), `IdentityKeepsAccount` on what an OAuth login knows of its identity's link
  at each step (`Kept`). `ClearedIsGone` needs that rows, and rows remembered, are of calls past
  their INSERT (`OldRows`), so that none comes back; `OldPasswordsKeepNoSession` that a login or registration whose
  password was replaced was late or is owed by a reset (`Owed`). For `TokensLostToRacesOnly` a
  refresh under way that finds another token in its session must know why: `Overtaken` names
  the race, logout or reset, heard or not, that took it.
* `RateLimiterProofs`. The invariant says that the stamps of an address are the last
  requests let in, down to some number, and that those dropped lie a window back. Then what
  `Allow` counts is what the abstract limiter counts, which gives the refinement, and
  `LimitInEveryWindow` follows by counting an interval of stamps.
* `ServerLifecycleProofs`. Runs come one after the other (`OneAtATime`), a run's PostgreSQL
  is the only one from its launch on (`OwnDatabase`), and the one `cleanupOrphan` waits for is
  the one the pid file names (`Awaited`); with these `OrphansAreNamed` is inductive and
  `LaunchIsFree` follows.

Only model-checked:

* liveness (`RequestsComplete`, `NobodyWaits`, `NotifiedChangesSettle`, `AllPartsSettle`,
  `RunsSettle`), which the prover cannot do: it has no fairness and no ENABLED. The safety
  halves above say why the first three hold; that a step which can be taken is taken is left to TLC.

Every other property that a passing run checks is a theorem.

## 6. Plan

What is left, most important first. The modules of section 2 are done.

1. A composition of `RecordsAPI` with `RealtimeHub`: what a subscriber learns of a
   row compared with what is committed.
2. A migration script that ends its own transaction, as an action of `Migrations`.
3. Two runs of `ayb start` at once on one data directory, in `ServerLifecycle`.
4. Effects that a statement has only after its error was returned, in `ObjectStore`.
5. Tables of several PostgreSQL schemas in `ForeignKeys`, which names them by their own name only.
6. The lexer of filters, so that the grammar starts at characters.

## 7. Not modelled, and why

* SQL texts, JSON, HTTP headers, password hashing and token signing: data that no
  property tells apart. Hashes and random tokens are one-to-one names.
* Admin login, CORS, logging, static files, mail transports, templates, CLI output: no state
  that changes, or pure I/O.
* Configuration: sequential. Defaults, file, environment and flags overwrite each other in the
  order of four calls, and values are compared with bounds: a model would restate the assignments.
* SDK, UI and documentation site: presentation; the SDK's event handling is in
  section 4.
* Listing in the storage service: it only reads. ListObjects ignores `rows.Err()`, so a
  listing cut short by a lost connection is answered as complete.
* The lexer of filters and the conversion of literals (a number that strconv refuses is a token of its own
  kind); the texts of INSERT, UPDATE and DELETE.
* Connections that die under a request are the case `Fail` of `RecordsAPI` (the
  statement returns an error) and `CommitFails`; the pool's health check changes
  no state.
