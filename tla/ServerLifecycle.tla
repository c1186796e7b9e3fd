--------------------------- MODULE ServerLifecycle ---------------------------
(***************************************************************************)
(* One `ayb start` after the other on one data directory: the embedded     *)
(* PostgreSQL and its pid file (internal/pgmanager/pgmanager.go), the      *)
(* start, the signal and the end of a server (internal/cli/start.go,       *)
(* internal/server/server.go), and the requests it is still answering.     *)
(*                                                                         *)
(* A PostgreSQL is named by the run that launched it.  The library that    *)
(* launches and stops it, the http package and the operating system are    *)
(* modelled from how they are used: a launch fails when a PostgreSQL holds *)
(* the data directory, a process that dies leaves its PostgreSQL behind,   *)
(* TERM may be ignored, KILL is not.  A run starts when the one before it  *)
(* is over, and no other program gets a dead PostgreSQL's pid.             *)
(***************************************************************************)
EXTENDS Naturals

CONSTANTS MaxRuns,   \* bound: the runs that are started
          Requests,  \* requests and SSE sessions of the clients
          None, Garbled

Runs == 1..MaxRuns

ASSUME LifecycleAssumption ==
  MaxRuns \in Nat /\ None \notin Nat /\ Garbled \notin Nat /\ None # Garbled

VARIABLES
  pc,       \* where each run is, "off" before it starts
  web,      \* the goroutine of srv.Start: "none", "assigned", "listening", "failed", "closed"
  signal,   \* runs that were sent SIGTERM or SIGINT
  pg,       \* each run's PostgreSQL: "none", "up", "terminating", "dying", "dead"
  pidFile,  \* ~/.ayb/pg.pid: a run, None if there is no file, or Garbled
  victim,   \* the PostgreSQL that cleanupOrphan of a run waits for
  request,  \* "none", "plain", "answering", "arrived", "open", "told" or "done"
  server,   \* the run that serves each request
  lapse,    \* history: runs whose PostgreSQL the pid file does not name, and why
  late,     \* history: sessions that subscribed after hub.Close
  hurried   \* history: runs that go on to stop PostgreSQL while requests are answered

process == <<pc, web, signal>>
clients == <<request, server, late>>
vars == <<process, pg, pidFile, victim, clients, lapse, hurried>>

Starting == {"probe", "await", "launch", "write", "fill", "init"}
Ending   == {"close", "shutdown", "drain", "stop", "unlink", "pool"}
PCs == {"off", "end", "select"} \cup Starting \cup Ending

TypeOK ==
  /\ pc \in [Runs -> PCs]
  /\ web \in [Runs -> {"none", "assigned", "listening", "failed", "closed"}]
  /\ signal \subseteq Runs
  /\ pg \in [Runs -> {"none", "up", "terminating", "dying", "dead"}]
  /\ pidFile \in Runs \cup {None, Garbled}
  /\ victim \in [Runs -> Runs \cup {None}]
  /\ request \in [Requests -> {"none", "plain", "answering", "arrived", "open", "told", "done"}]
  /\ server \in [Requests -> Runs \cup {None}]
  /\ lapse \in [Runs -> SUBSET {"unwritten", "unstopped"}]
  /\ late \subseteq Requests /\ hurried \subseteq Runs

Init ==
  /\ pc = [r \in Runs |-> "off"] /\ web = [r \in Runs |-> "none"] /\ signal = {}
  /\ pg = [r \in Runs |-> "none"] /\ pidFile = None /\ victim = [r \in Runs |-> None]
  /\ request = [q \in Requests |-> "none"] /\ server = [q \in Requests |-> None]
  /\ lapse = [r \in Runs |-> {}] /\ late = {} /\ hurried = {}

Alive(r) == pc[r] \notin {"off", "end"}
Holding  == {r \in Runs : pg[r] \in {"up", "terminating", "dying"}}
Active(r) == {q \in Requests : server[q] = r /\ request[q] \notin {"none", "done"}}

Goto(r, where) == pc' = [pc EXCEPT ![r] = where] /\ UNCHANGED <<web, signal, clients>>

\* The process is gone, with its goroutines and the connections of its clients.
Exit(r) ==
  /\ pc' = [pc EXCEPT ![r] = "end"]
  /\ web' = [web EXCEPT ![r] = "none"] /\ signal' = signal \ {r}
  /\ request' = [q \in Requests |-> IF q \in Active(r) THEN "done" ELSE request[q]]
  /\ UNCHANGED <<server, late>>

\* removePID, whose error nobody looks at.
RemoveFile == pidFile' \in {None, pidFile}

-----------------------------------------------------------------------------
(***************************************************************************)
(* Manager.Start, and in it cleanupOrphan.                                 *)
(***************************************************************************)
Start(r) ==
  /\ pc[r] = "off" /\ \A s \in Runs : s < r => pc[s] = "end"
  /\ Goto(r, "probe")
  /\ UNCHANGED <<pg, pidFile, victim, lapse, hurried>>

\* No pid, a process that is dead, or one that is alive and is sent TERM.
Probe(r) ==
  /\ pc[r] = "probe"
  /\ \/ /\ pidFile \in {None, Garbled}
        /\ Goto(r, "launch")
        /\ UNCHANGED <<pg, pidFile, victim>>
     \/ /\ pidFile \in Runs /\ pidFile \notin Holding
        /\ RemoveFile
        /\ Goto(r, "launch")
        /\ UNCHANGED <<pg, victim>>
     \/ /\ pidFile \in Holding
        /\ pg' = [pg EXCEPT ![pidFile] = IF @ = "up" THEN "terminating" ELSE @]
        /\ victim' = [victim EXCEPT ![r] = pidFile]
        /\ Goto(r, "await")
        /\ UNCHANGED pidFile
  /\ UNCHANGED <<lapse, hurried>>

\* Mutated Await: after the five seconds it goes on without KILL.
AwaitGivesUp(r) ==
  /\ pc[r] = "await"
  /\ RemoveFile /\ Goto(r, "launch")
  /\ UNCHANGED <<pg, victim, lapse, hurried>>

\* Mutated Await: no deadline.
AwaitForever(r) ==
  /\ pc[r] = "await"
  /\ pg[victim[r]] = "dead"
  /\ victim' = [victim EXCEPT ![r] = None]
  /\ RemoveFile /\ Goto(r, "launch")
  /\ UNCHANGED <<pg, lapse, hurried>>

\* Polled until it is dead or five seconds are over; then KILL.
Await(r) ==
  /\ pc[r] = "await"
  /\ victim' = [victim EXCEPT ![r] = None]
  /\ pg' = [pg EXCEPT ![victim[r]] = IF @ = "dead" THEN @ ELSE "dying"]
  /\ RemoveFile /\ Goto(r, "launch")
  /\ UNCHANGED <<lapse, hurried>>

\* db.Start: an error leaves no PostgreSQL of this run behind.
Launch(r) ==
  /\ pc[r] = "launch"
  /\ \/ /\ Holding = {}
        /\ pg' = [pg EXCEPT ![r] = "up"]
        /\ Goto(r, "write")
     \/ Exit(r) /\ UNCHANGED pg
  /\ UNCHANGED <<pidFile, victim, lapse, hurried>>

\* The postmaster's pid is read and the file opened, which empties it; nothing
\* is written when the first fails.
WritePID(r) ==
  /\ pc[r] = "write"
  /\ \/ pidFile' = Garbled /\ Goto(r, "fill") /\ UNCHANGED lapse
     \/ /\ UNCHANGED pidFile /\ Goto(r, "init")
        /\ lapse' = [lapse EXCEPT ![r] = @ \cup {"unwritten"}]
  /\ UNCHANGED <<pg, victim, hurried>>

FillPID(r) ==
  /\ pc[r] = "fill"
  /\ \/ pidFile' = r /\ UNCHANGED lapse
     \/ UNCHANGED pidFile /\ lapse' = [lapse EXCEPT ![r] = @ \cup {"unwritten"}]
  /\ Goto(r, "init")
  /\ UNCHANGED <<pg, victim, hurried>>

-----------------------------------------------------------------------------
(***************************************************************************)
(* runStart: the pool, migrations, schema cache, services; the server.     *)
(***************************************************************************)
\* Every error on the way returns, and leaves PostgreSQL running.
Initialise(r) ==
  /\ pc[r] = "init"
  /\ \/ pg[r] = "up" /\ Goto(r, "select")
     \/ Exit(r)
  /\ UNCHANGED <<pg, pidFile, victim, lapse, hurried>>

\* The goroutine: s.http is assigned, then it listens until it fails or is shut down.
AssignHTTP(r) ==
  /\ Alive(r) /\ pc[r] \notin Starting /\ web[r] = "none"
  /\ web' = [web EXCEPT ![r] = "assigned"]
  /\ UNCHANGED <<pc, signal, pg, pidFile, victim, clients, lapse, hurried>>

Listen(r) ==
  /\ Alive(r)
  /\ \/ web[r] = "assigned" /\ web' = [web EXCEPT ![r] = "listening"]
     \/ web[r] \in {"assigned", "listening"} /\ web' = [web EXCEPT ![r] = "failed"]
  /\ UNCHANGED <<pc, signal, pg, pidFile, victim, clients, lapse, hurried>>

Signal(r) ==
  /\ pc[r] \notin {"off", "end"} \cup Starting /\ r \notin signal
  /\ signal' = signal \cup {r}
  /\ UNCHANGED <<pc, web, pg, pidFile, victim, clients, lapse, hurried>>

\* The server failed, and pgMgr.Stop follows at once; or a signal came.
Select(r) ==
  /\ pc[r] = "select"
  /\ \/ /\ web[r] = "failed"
        /\ hurried' = hurried \cup {r}
        /\ Goto(r, "stop")
     \/ /\ r \in signal
        /\ Goto(r, "close")
        /\ UNCHANGED hurried
  /\ UNCHANGED <<pg, pidFile, victim, lapse>>

-----------------------------------------------------------------------------
(***************************************************************************)
(* Server.Shutdown and Manager.Stop.                                       *)
(***************************************************************************)
\* Mutated CloseHub: the sessions are not told.
CloseHubForgets(r) ==
  /\ pc[r] = "close"
  /\ Goto(r, "shutdown")
  /\ UNCHANGED <<pg, pidFile, victim, lapse, hurried>>

\* The rate limiter is stopped, and hub.Close ends the sessions there are.
CloseHub(r) ==
  /\ pc[r] = "close"
  /\ request' = [q \in Requests |->
                   IF server[q] = r /\ request[q] = "open" THEN "told" ELSE request[q]]
  /\ pc' = [pc EXCEPT ![r] = "shutdown"]
  /\ UNCHANGED <<web, signal, pg, pidFile, victim, server, late, lapse, hurried>>

\* s.http.Shutdown closes the listener.  A nil s.http panics, past pgMgr.Stop, and the
\* goroutine's assignment is not synchronised with this reading of it.
ShutdownHTTP(r) ==
  /\ pc[r] = "shutdown"
  /\ \/ web[r] \in {"none", "assigned"} /\ Goto(r, "pool")
     \/ /\ web[r] # "none"
        /\ pc' = [pc EXCEPT ![r] = "drain"]
        /\ web' = [web EXCEPT ![r] = "closed"]
        /\ UNCHANGED <<signal, clients>>
  /\ UNCHANGED <<pg, pidFile, victim, lapse, hurried>>

\* Mutated Drain: the listener is closed and that is all (http.Server.Close).
DrainAtOnce(r) ==
  /\ pc[r] = "drain"
  /\ Goto(r, "stop")
  /\ UNCHANGED <<pg, pidFile, victim, lapse, hurried>>

\* It waits for the requests, or until ShutdownTimeout.
Drain(r) ==
  /\ pc[r] = "drain"
  /\ hurried' = IF Active(r) = {} THEN hurried ELSE hurried \cup {r}
  /\ Goto(r, "stop")
  /\ UNCHANGED <<pg, pidFile, victim, lapse>>

\* Mutated StopPG: the pid file goes first, whatever becomes of PostgreSQL.
StopPGLast(r) ==
  /\ pc[r] = "stop"
  /\ RemoveFile
  /\ Goto(r, "unlink")
  /\ UNCHANGED <<pg, victim, lapse, hurried>>

\* db.Stop, which may fail: the pid file is removed all the same.
StopPG(r) ==
  /\ pc[r] = "stop"
  /\ \/ pg' = [pg EXCEPT ![r] = "dead"] /\ UNCHANGED lapse
     \/ UNCHANGED pg /\ lapse' = [lapse EXCEPT ![r] = @ \cup {"unstopped"}]
  /\ Goto(r, "unlink")
  /\ UNCHANGED <<pidFile, victim, hurried>>

Unlink(r) ==
  /\ pc[r] = "unlink"
  /\ RemoveFile
  /\ Goto(r, "pool")
  /\ UNCHANGED <<pg, victim, lapse, hurried>>

\* The connections of the pool that requests have not given back.
Lent(r) == {q \in Active(r) : request[q] = "answering"}

\* The deferred pool.Close, which waits for them without a timeout; main returns.
ClosePool(r) ==
  /\ pc[r] = "pool" /\ Lent(r) = {}
  /\ Exit(r)
  /\ UNCHANGED <<pg, pidFile, victim, lapse, hurried>>

-----------------------------------------------------------------------------
(***************************************************************************)
(* What happens to a run: clients, and the end of processes.               *)
(***************************************************************************)
Accept(q) ==
  /\ request[q] = "none"
  /\ \E r \in Runs : web[r] = "listening" /\ Alive(r) /\ server' = [server EXCEPT ![q] = r]
  /\ \E kind \in {"plain", "arrived"} : request' = [request EXCEPT ![q] = kind]
  /\ UNCHANGED <<process, pg, pidFile, victim, late, lapse, hurried>>

\* A read that is answered while its rows are open, with a connection of the pool.
Query(q) ==
  /\ request[q] = "plain" /\ pc[server[q]] # "pool" /\ server[q] \in Holding
  /\ request' = [request EXCEPT ![q] = "answering"]
  /\ UNCHANGED <<process, pg, pidFile, victim, server, late, lapse, hurried>>

\* hub.Subscribe of a session that has arrived, also after hub.Close.
Subscribe(q) ==
  /\ request[q] = "arrived"
  /\ request' = [request EXCEPT ![q] = "open"]
  /\ late' = IF pc[server[q]] \in {"shutdown", "drain"}
             THEN late \cup {q} ELSE late
  /\ UNCHANGED <<process, pg, pidFile, victim, server, lapse, hurried>>

\* Answered, refused, told to go, or the client hangs up.
Leave(q) ==
  /\ request[q] \notin {"none", "done"}
  /\ request' = [request EXCEPT ![q] = "done"]
  /\ UNCHANGED <<process, pg, pidFile, victim, server, late, lapse, hurried>>

\* A run dies: KILL, a crash, or a signal before runStart listens for signals.
Crash(r) ==
  /\ Alive(r)
  /\ lapse' = [lapse EXCEPT ![r] = IF pc[r] \in {"write", "fill"} THEN @ \cup {"unwritten"} ELSE @]
  /\ Exit(r)
  /\ UNCHANGED <<pg, pidFile, victim, hurried>>

\* A PostgreSQL crashes, is shut down by TERM, or is gone after KILL.
Die(r) ==
  /\ r \in Holding
  /\ pg' = [pg EXCEPT ![r] = "dead"]
  /\ UNCHANGED <<process, pidFile, victim, clients, lapse, hurried>>

-----------------------------------------------------------------------------
Main(r) ==
  \/ Probe(r) \/ Await(r) \/ Launch(r) \/ WritePID(r) \/ FillPID(r) \/ Initialise(r)
  \/ Select(r) \/ CloseHub(r) \/ ShutdownHTTP(r) \/ Drain(r) \/ StopPG(r) \/ Unlink(r)
  \/ ClosePool(r)

Next ==
  \/ \E r \in Runs : Start(r) \/ Main(r) \/ AssignHTTP(r) \/ Listen(r) \/ Signal(r)
                       \/ Crash(r) \/ Die(r)
  \/ \E q \in Requests : Accept(q) \/ Query(q) \/ Subscribe(q) \/ Leave(q)

Spec == Init /\ [][Next]_vars

\* The scheduler runs the main goroutine, and its timeouts pass.
FairSpec == Spec /\ \A r \in Runs : WF_vars(Main(r))

-----------------------------------------------------------------------------
(***************************************************************************)
(* Properties.                                                             *)
(***************************************************************************)
Loose(r) == pg[r] \in {"up", "terminating"}

\* A PostgreSQL that was launched can be found by the next start, however the run
\* that launched it ends and however clean-ups are cut short: the pid file names it,
\* unless that could not be written, or a stop failed.
OrphansAreNamed ==
  \A r \in Runs : Loose(r) /\ pc[r] \notin {"write", "fill"} =>
    pidFile = r \/ lapse[r] # {}

\* So a start is not in the way of itself: when it launches its PostgreSQL, none
\* that an earlier run left holds the data directory, but one that no file named
\* or one that was sent KILL.
LaunchIsFree ==
  \A r, s \in Runs : pc[r] = "launch" /\ Loose(s) => lapse[s] # {}

\* A shutdown waits for nobody who does not know: while the server drains, every
\* session was told by hub.Close to end, but those that were accepted before it and
\* subscribed after it.
OnlyLateSessionsUntold ==
  \A q \in Requests : request[q] = "open" /\ pc[server[q]] \in {"shutdown", "drain"} => q \in late

\* PostgreSQL is not stopped under a request that is being answered, unless the
\* timeout passed, or the listener had failed.
DatabaseOutlivesRequests ==
  [][\A r \in Runs : pc[r] = "stop" /\ pc'[r] = "unlink" /\ Active(r) # {} => r \in hurried]_vars

\* A run that begins to start comes to serve or ends, whatever it finds.  One that was
\* sent a signal ends, whatever its clients do, but for one case: ShutdownTimeout does not
\* bound pool.Close, and a client that takes no more of its answer keeps a connection.
RunsSettle ==
  /\ \A r \in Runs : pc[r] = "probe" ~> pc[r] \in {"select", "end"}
  /\ \A r \in Runs : r \in signal ~> pc[r] = "end" \/ (pc[r] = "pool" /\ Lent(r) # {})

=============================================================================
