------------------------ MODULE ServerLifecycleProofs ------------------------
(***************************************************************************)
(* For any number of runs and clients, and wherever a run is cut short:    *)
(* the pid file names the PostgreSQL that was left, the next start is not  *)
(* in the way of itself, and a shutdown treats its clients as it should.   *)
(***************************************************************************)
EXTENDS ServerLifecycle, TLAPS

\* Runs come one after the other.
OneAtATime == \A r, s \in Runs : s < r /\ pc[r] # "off" => pc[s] = "end"

\* A run has a PostgreSQL from its launch on, and then it is the only one.
Unlaunched == {"off", "probe", "await", "launch"}
OwnDatabase ==
  /\ \A r \in Runs : pc[r] \in Unlaunched => pg[r] = "none"
  /\ \A r, s \in Runs : pc[r] \notin Unlaunched \cup {"end"} /\ s \in Holding => s = r

\* The orphan that cleanupOrphan waits for is the one the pid file names.
Awaited ==
  \A r \in Runs : pc[r] = "await" =>
    victim[r] \in Runs /\ pidFile = victim[r] /\ pg[victim[r]] \notin {"none", "up"}

\* When the pid file is removed at the end, PostgreSQL is stopped or is known not to be.
Stopped == \A r \in Runs : pc[r] = "unlink" /\ Loose(r) => lapse[r] # {}

\* Requests have a server, and a server that waited for them takes no more.
Served == \A q \in Requests : request[q] # "none" => server[q] \in Runs
Waited ==
  \A r \in Runs :
    /\ pc[r] = "drain" => web[r] = "closed"
    /\ pc[r] = "stop" /\ r \notin hurried => web[r] = "closed" /\ Active(r) = {}

IInv == /\ TypeOK /\ OneAtATime /\ OwnDatabase /\ Awaited /\ Stopped /\ Served /\ Waited
        /\ OrphansAreNamed /\ LaunchIsFree /\ OnlyLateSessionsUntold



\* Runs are numbers, and neither None nor Garbled is one.
LEMMA RunNumbers == None \notin Runs /\ Garbled \notin Runs /\ Runs \subseteq Nat /\ None # Garbled
BY LifecycleAssumption DEF Runs

LEMMA InitIInv == Init => IInv
<1> SUFFICES ASSUME Init PROVE IInv OBVIOUS
<1>1. TypeOK BY RunNumbers DEF Init, TypeOK, PCs
<1>2. OneAtATime /\ OwnDatabase /\ Awaited /\ Stopped
  BY DEF Init, OneAtATime, OwnDatabase, Awaited, Stopped, Unlaunched, Holding, Loose
<1>3. Served /\ Waited /\ OnlyLateSessionsUntold
  BY DEF Init, Served, Waited, OnlyLateSessionsUntold
<1>4. OrphansAreNamed /\ LaunchIsFree
  BY DEF Init, OrphansAreNamed, LaunchIsFree, Loose
<1> QED BY <1>1, <1>2, <1>3, <1>4 DEF IInv

\* What it is for a run to go on to another step, and to end.
LEMMA GotoMoves ==
  ASSUME TypeOK, NEW r \in Runs, NEW where \in PCs, Goto(r, where)
  PROVE  /\ pc' \in [Runs -> PCs] /\ pc'[r] = where
         /\ \A s \in Runs : s # r => pc'[s] = pc[s]
         /\ UNCHANGED <<web, signal, request, server, late>>
BY DEF TypeOK, Goto, clients

LEMMA ExitMoves ==
  ASSUME TypeOK, NEW r \in Runs, Exit(r)
  PROVE  /\ pc' \in [Runs -> PCs] /\ pc'[r] = "end"
         /\ \A s \in Runs : s # r => pc'[s] = pc[s]
         /\ web' \in [Runs -> {"none", "assigned", "listening", "failed", "closed"}]
         /\ signal' \subseteq Runs
         /\ request' \in [Requests -> {"none", "plain", "answering", "arrived", "open", "told", "done"}]
         /\ \A q \in Requests :
              request'[q] # request[q] => request'[q] = "done" /\ request[q] # "none"
         /\ UNCHANGED <<server, late>>
<1>1. pc' \in [Runs -> PCs] /\ pc'[r] = "end" /\ \A s \in Runs : s # r => pc'[s] = pc[s]
  BY DEF TypeOK, Exit, PCs
<1>2. web' \in [Runs -> {"none", "assigned", "listening", "failed", "closed"}]
      /\ signal' \subseteq Runs
  BY DEF TypeOK, Exit
<1>3. /\ request' \in [Requests -> {"none", "plain", "answering", "arrived", "open", "told", "done"}]
      /\ \A q \in Requests :
              request'[q] # request[q] => request'[q] = "done" /\ request[q] # "none"
  BY DEF TypeOK, Exit, Active
<1> QED BY <1>1, <1>2, <1>3 DEF Exit

LEMMA StepMoves ==
  ASSUME TypeOK, NEW r \in Runs, NEW W \in SUBSET PCs,
         (\E where \in W : Goto(r, where)) \/ Exit(r)
  PROVE  /\ pc' \in [Runs -> PCs] /\ pc'[r] \in W \cup {"end"}
         /\ \A s \in Runs : s # r => pc'[s] = pc[s]
         /\ web' \in [Runs -> {"none", "assigned", "listening", "failed", "closed"}]
         /\ signal' \subseteq Runs
         /\ request' \in [Requests -> {"none", "plain", "answering", "arrived", "open", "told", "done"}]
         /\ \A q \in Requests :
              request'[q] # request[q] => request'[q] = "done" /\ request[q] # "none"
         /\ UNCHANGED <<server, late>>
<1>1. CASE \E where \in W : Goto(r, where)
  BY <1>1, GotoMoves DEF TypeOK
<1>2. CASE Exit(r)
  BY <1>2, ExitMoves
<1> QED BY <1>1, <1>2

LEMMA KeepsTypeOK == IInv /\ [Next]_vars => TypeOK'
<1> SUFFICES ASSUME IInv, [Next]_vars PROVE TypeOK' OBVIOUS
<1> USE RunNumbers DEF IInv, TypeOK, PCs, Ending, Goto, Exit, RemoveFile, Alive, Starting, process, clients
<1>1. ASSUME NEW r0 \in Runs, Start(r0) PROVE TypeOK'
  BY <1>1 DEF Start
<1>2. ASSUME NEW r0 \in Runs, Probe(r0) PROVE TypeOK'
  <2> HIDE DEF Goto, Exit
  <2>1. (\E where \in {"launch", "await"} : Goto(r0, where)) \/ Exit(r0)
    BY <1>2 DEF Probe
  <2>2. {"launch", "await"} \in SUBSET PCs BY DEF PCs, Starting, Ending
  <2>3. /\ pc' \in [Runs -> PCs] /\ signal' \subseteq Runs
        /\ web' \in [Runs -> {"none", "assigned", "listening", "failed", "closed"}]
        /\ request' \in [Requests -> {"none", "plain", "answering", "arrived", "open", "told", "done"}]
        /\ UNCHANGED <<server, late>>
    BY <2>1, <2>2, StepMoves
  <2>0. pidFile \in Holding => pidFile \in Runs BY DEF Holding
  <2>4. /\ pg' \in [Runs -> {"none", "up", "terminating", "dying", "dead"}]
        /\ pidFile' \in Runs \cup {None, Garbled}
        /\ victim' \in [Runs -> Runs \cup {None}]
    BY <1>2, <2>0 DEF Probe
  <2>5. lapse' \in [Runs -> SUBSET {"unwritten", "unstopped"}] /\ hurried' \subseteq Runs
    BY <1>2 DEF Probe
  <2> QED BY <2>3, <2>4, <2>5
<1>3. ASSUME NEW r0 \in Runs, Await(r0) PROVE TypeOK'
  BY <1>3 DEF Await
<1>4. ASSUME NEW r0 \in Runs, Launch(r0) PROVE TypeOK'
  <2> HIDE DEF Goto, Exit
  <2>1. (\E where \in {"write"} : Goto(r0, where)) \/ Exit(r0)
    BY <1>4 DEF Launch
  <2>2. {"write"} \in SUBSET PCs BY DEF PCs, Starting, Ending
  <2>3. /\ pc' \in [Runs -> PCs] /\ signal' \subseteq Runs
        /\ web' \in [Runs -> {"none", "assigned", "listening", "failed", "closed"}]
        /\ request' \in [Requests -> {"none", "plain", "answering", "arrived", "open", "told", "done"}]
        /\ UNCHANGED <<server, late>>
    BY <2>1, <2>2, StepMoves
  <2>4. /\ pg' \in [Runs -> {"none", "up", "terminating", "dying", "dead"}]
        /\ pidFile' \in Runs \cup {None, Garbled}
        /\ victim' \in [Runs -> Runs \cup {None}]
    BY <1>4 DEF Launch
  <2>5. lapse' \in [Runs -> SUBSET {"unwritten", "unstopped"}] /\ hurried' \subseteq Runs
    BY <1>4 DEF Launch
  <2> QED BY <2>3, <2>4, <2>5
<1>5. ASSUME NEW r0 \in Runs, WritePID(r0) PROVE TypeOK'
  <2> HIDE DEF Goto, Exit
  <2>1. (\E where \in {"fill", "init"} : Goto(r0, where)) \/ Exit(r0)
    BY <1>5 DEF WritePID
  <2>2. {"fill", "init"} \in SUBSET PCs BY DEF PCs, Starting, Ending
  <2>3. /\ pc' \in [Runs -> PCs] /\ signal' \subseteq Runs
        /\ web' \in [Runs -> {"none", "assigned", "listening", "failed", "closed"}]
        /\ request' \in [Requests -> {"none", "plain", "answering", "arrived", "open", "told", "done"}]
        /\ UNCHANGED <<server, late>>
    BY <2>1, <2>2, StepMoves
  <2>4. /\ pg' \in [Runs -> {"none", "up", "terminating", "dying", "dead"}]
        /\ pidFile' \in Runs \cup {None, Garbled}
        /\ victim' \in [Runs -> Runs \cup {None}]
    BY <1>5 DEF WritePID
  <2>5. lapse' \in [Runs -> SUBSET {"unwritten", "unstopped"}] /\ hurried' \subseteq Runs
    BY <1>5 DEF WritePID
  <2> QED BY <2>3, <2>4, <2>5
<1>6. ASSUME NEW r0 \in Runs, FillPID(r0) PROVE TypeOK'
  BY <1>6 DEF FillPID
<1>7. ASSUME NEW r0 \in Runs, Initialise(r0) PROVE TypeOK'
  <2> HIDE DEF Goto, Exit
  <2>1. (\E where \in {"select"} : Goto(r0, where)) \/ Exit(r0)
    BY <1>7 DEF Initialise
  <2>2. {"select"} \in SUBSET PCs BY DEF PCs, Starting, Ending
  <2>3. /\ pc' \in [Runs -> PCs] /\ signal' \subseteq Runs
        /\ web' \in [Runs -> {"none", "assigned", "listening", "failed", "closed"}]
        /\ request' \in [Requests -> {"none", "plain", "answering", "arrived", "open", "told", "done"}]
        /\ UNCHANGED <<server, late>>
    BY <2>1, <2>2, StepMoves
  <2>4. /\ pg' \in [Runs -> {"none", "up", "terminating", "dying", "dead"}]
        /\ pidFile' \in Runs \cup {None, Garbled}
        /\ victim' \in [Runs -> Runs \cup {None}]
    BY <1>7 DEF Initialise
  <2>5. lapse' \in [Runs -> SUBSET {"unwritten", "unstopped"}] /\ hurried' \subseteq Runs
    BY <1>7 DEF Initialise
  <2> QED BY <2>3, <2>4, <2>5
<1>8. ASSUME NEW r0 \in Runs, Select(r0) PROVE TypeOK'
  <2> HIDE DEF Goto, Exit
  <2>1. (\E where \in {"stop", "close"} : Goto(r0, where)) \/ Exit(r0)
    BY <1>8 DEF Select
  <2>2. {"stop", "close"} \in SUBSET PCs BY DEF PCs, Starting, Ending
  <2>3. /\ pc' \in [Runs -> PCs] /\ signal' \subseteq Runs
        /\ web' \in [Runs -> {"none", "assigned", "listening", "failed", "closed"}]
        /\ request' \in [Requests -> {"none", "plain", "answering", "arrived", "open", "told", "done"}]
        /\ UNCHANGED <<server, late>>
    BY <2>1, <2>2, StepMoves
  <2>4. /\ pg' \in [Runs -> {"none", "up", "terminating", "dying", "dead"}]
        /\ pidFile' \in Runs \cup {None, Garbled}
        /\ victim' \in [Runs -> Runs \cup {None}]
    BY <1>8 DEF Select
  <2>5. lapse' \in [Runs -> SUBSET {"unwritten", "unstopped"}] /\ hurried' \subseteq Runs
    BY <1>8 DEF Select
  <2> QED BY <2>3, <2>4, <2>5
<1>9. ASSUME NEW r0 \in Runs, CloseHub(r0) PROVE TypeOK'
  BY <1>9 DEF CloseHub
<1>10. ASSUME NEW r0 \in Runs, ShutdownHTTP(r0) PROVE TypeOK'
  <2>1. CASE web[r0] \in {"none", "assigned"} /\ Goto(r0, "pool")
    BY <1>10, <2>1 DEF ShutdownHTTP, PCs, Ending
  <2>2. CASE web[r0] # "none" /\ pc' = [pc EXCEPT ![r0] = "drain"]
             /\ web' = [web EXCEPT ![r0] = "closed"] /\ UNCHANGED <<signal, clients>>
    BY <1>10, <2>2 DEF ShutdownHTTP, PCs, Ending
  <2> QED BY <1>10, <2>1, <2>2 DEF ShutdownHTTP
<1>11. ASSUME NEW r0 \in Runs, Drain(r0) PROVE TypeOK'
  BY <1>11 DEF Drain
<1>12. ASSUME NEW r0 \in Runs, StopPG(r0) PROVE TypeOK'
  BY <1>12 DEF StopPG
<1>13. ASSUME NEW r0 \in Runs, Unlink(r0) PROVE TypeOK'
  BY <1>13 DEF Unlink
<1>14. ASSUME NEW r0 \in Runs, AssignHTTP(r0) PROVE TypeOK'
  BY <1>14 DEF AssignHTTP
<1>15. ASSUME NEW r0 \in Runs, Listen(r0) PROVE TypeOK'
  BY <1>15 DEF Listen
<1>16. ASSUME NEW r0 \in Runs, Signal(r0) PROVE TypeOK'
  BY <1>16 DEF Signal
<1>17. ASSUME NEW r0 \in Runs, Crash(r0) PROVE TypeOK'
  BY <1>17 DEF Crash
<1>18. ASSUME NEW r0 \in Runs, Die(r0) PROVE TypeOK'
  BY <1>18 DEF Die
<1>19. ASSUME NEW q0 \in Requests, Accept(q0) PROVE TypeOK'
  BY <1>19 DEF Accept
<1>20. ASSUME NEW q0 \in Requests, Subscribe(q0) PROVE TypeOK'
  BY <1>20 DEF Subscribe
<1>21. ASSUME NEW q0 \in Requests, Leave(q0) PROVE TypeOK'
  BY <1>21 DEF Leave
<1>22. CASE UNCHANGED vars
  BY <1>22 DEF vars
<1>23. ASSUME NEW r0 \in Runs, ClosePool(r0) PROVE TypeOK'
  BY <1>23 DEF ClosePool
<1>24. ASSUME NEW q0 \in Requests, Query(q0) PROVE TypeOK'
  BY <1>24 DEF Query
<1> QED BY <1>1, <1>2, <1>3, <1>4, <1>5, <1>6, <1>7, <1>8, <1>9, <1>10, <1>11, <1>12, <1>13, <1>14, <1>15, <1>16, <1>17, <1>18, <1>19, <1>20, <1>21, <1>22, <1>23, <1>24 DEF Next, Main

LEMMA KeepsOneAtATime == IInv /\ [Next]_vars => OneAtATime'
<1> SUFFICES ASSUME IInv, [Next]_vars PROVE OneAtATime' OBVIOUS
<1> USE RunNumbers DEF IInv, TypeOK, OneAtATime, Goto, Exit, RemoveFile, Alive, Starting, process, clients
<1>1. ASSUME NEW r0 \in Runs, Start(r0) PROVE OneAtATime'
  BY <1>1 DEF Start
<1>2. ASSUME NEW r0 \in Runs, Probe(r0) PROVE OneAtATime'
  BY <1>2 DEF Probe
<1>3. ASSUME NEW r0 \in Runs, Await(r0) PROVE OneAtATime'
  BY <1>3 DEF Await
<1>4. ASSUME NEW r0 \in Runs, Launch(r0) PROVE OneAtATime'
  BY <1>4 DEF Launch
<1>5. ASSUME NEW r0 \in Runs, WritePID(r0) PROVE OneAtATime'
  BY <1>5 DEF WritePID
<1>6. ASSUME NEW r0 \in Runs, FillPID(r0) PROVE OneAtATime'
  BY <1>6 DEF FillPID
<1>7. ASSUME NEW r0 \in Runs, Initialise(r0) PROVE OneAtATime'
  BY <1>7 DEF Initialise
<1>8. ASSUME NEW r0 \in Runs, Select(r0) PROVE OneAtATime'
  BY <1>8 DEF Select
<1>9. ASSUME NEW r0 \in Runs, CloseHub(r0) PROVE OneAtATime'
  BY <1>9 DEF CloseHub
<1>10. ASSUME NEW r0 \in Runs, ShutdownHTTP(r0) PROVE OneAtATime'
  BY <1>10 DEF ShutdownHTTP
<1>11. ASSUME NEW r0 \in Runs, Drain(r0) PROVE OneAtATime'
  BY <1>11 DEF Drain
<1>12. ASSUME NEW r0 \in Runs, StopPG(r0) PROVE OneAtATime'
  BY <1>12 DEF StopPG
<1>13. ASSUME NEW r0 \in Runs, Unlink(r0) PROVE OneAtATime'
  BY <1>13 DEF Unlink
<1>14. ASSUME NEW r0 \in Runs, AssignHTTP(r0) PROVE OneAtATime'
  BY <1>14 DEF AssignHTTP
<1>15. ASSUME NEW r0 \in Runs, Listen(r0) PROVE OneAtATime'
  BY <1>15 DEF Listen
<1>16. ASSUME NEW r0 \in Runs, Signal(r0) PROVE OneAtATime'
  BY <1>16 DEF Signal
<1>17. ASSUME NEW r0 \in Runs, Crash(r0) PROVE OneAtATime'
  BY <1>17 DEF Crash
<1>18. ASSUME NEW r0 \in Runs, Die(r0) PROVE OneAtATime'
  BY <1>18 DEF Die
<1>19. ASSUME NEW q0 \in Requests, Accept(q0) PROVE OneAtATime'
  BY <1>19 DEF Accept
<1>20. ASSUME NEW q0 \in Requests, Subscribe(q0) PROVE OneAtATime'
  BY <1>20 DEF Subscribe
<1>21. ASSUME NEW q0 \in Requests, Leave(q0) PROVE OneAtATime'
  BY <1>21 DEF Leave
<1>22. CASE UNCHANGED vars
  BY <1>22 DEF vars
<1>23. ASSUME NEW r0 \in Runs, ClosePool(r0) PROVE OneAtATime'
  BY <1>23 DEF ClosePool
<1>24. ASSUME NEW q0 \in Requests, Query(q0) PROVE OneAtATime'
  BY <1>24 DEF Query
<1> QED BY <1>1, <1>2, <1>3, <1>4, <1>5, <1>6, <1>7, <1>8, <1>9, <1>10, <1>11, <1>12, <1>13, <1>14, <1>15, <1>16, <1>17, <1>18, <1>19, <1>20, <1>21, <1>22, <1>23, <1>24 DEF Next, Main

LEMMA KeepsOwnDatabase == IInv /\ [Next]_vars => OwnDatabase'
<1> SUFFICES ASSUME IInv, [Next]_vars PROVE OwnDatabase' OBVIOUS
<1> USE RunNumbers DEF IInv, TypeOK, OwnDatabase, OneAtATime, Unlaunched, Holding, Goto, Exit, RemoveFile, Alive, Starting, process, clients
<1>1. ASSUME NEW r0 \in Runs, Start(r0) PROVE OwnDatabase'
  BY <1>1 DEF Start
<1>2. ASSUME NEW r0 \in Runs, Probe(r0) PROVE OwnDatabase'
  BY <1>2 DEF Probe
<1>3. ASSUME NEW r0 \in Runs, Await(r0) PROVE OwnDatabase'
  <2>1. /\ pc[r0] = "await" /\ pc' = [pc EXCEPT ![r0] = "launch"]
        /\ pg' = [pg EXCEPT ![victim[r0]] = IF @ = "dead" THEN @ ELSE "dying"]
    BY <1>3 DEF Await
  <2>2. victim[r0] \in Runs /\ pg[victim[r0]] \notin {"none", "up"}
    BY <2>1 DEF Awaited
  <2>3. \A s \in Runs : /\ s \in Holding' => s \in Holding
                        /\ pg[s] = "none" => pg'[s] = "none"
    BY <2>1, <2>2
  <2> QED BY <2>1, <2>3
<1>4. ASSUME NEW r0 \in Runs, Launch(r0) PROVE OwnDatabase'
  BY <1>4 DEF Launch
<1>5. ASSUME NEW r0 \in Runs, WritePID(r0) PROVE OwnDatabase'
  BY <1>5 DEF WritePID
<1>6. ASSUME NEW r0 \in Runs, FillPID(r0) PROVE OwnDatabase'
  BY <1>6 DEF FillPID
<1>7. ASSUME NEW r0 \in Runs, Initialise(r0) PROVE OwnDatabase'
  BY <1>7 DEF Initialise
<1>8. ASSUME NEW r0 \in Runs, Select(r0) PROVE OwnDatabase'
  BY <1>8 DEF Select
<1>9. ASSUME NEW r0 \in Runs, CloseHub(r0) PROVE OwnDatabase'
  BY <1>9 DEF CloseHub
<1>10. ASSUME NEW r0 \in Runs, ShutdownHTTP(r0) PROVE OwnDatabase'
  BY <1>10 DEF ShutdownHTTP
<1>11. ASSUME NEW r0 \in Runs, Drain(r0) PROVE OwnDatabase'
  BY <1>11 DEF Drain
<1>12. ASSUME NEW r0 \in Runs, StopPG(r0) PROVE OwnDatabase'
  BY <1>12 DEF StopPG
<1>13. ASSUME NEW r0 \in Runs, Unlink(r0) PROVE OwnDatabase'
  BY <1>13 DEF Unlink
<1>14. ASSUME NEW r0 \in Runs, AssignHTTP(r0) PROVE OwnDatabase'
  BY <1>14 DEF AssignHTTP
<1>15. ASSUME NEW r0 \in Runs, Listen(r0) PROVE OwnDatabase'
  BY <1>15 DEF Listen
<1>16. ASSUME NEW r0 \in Runs, Signal(r0) PROVE OwnDatabase'
  BY <1>16 DEF Signal
<1>17. ASSUME NEW r0 \in Runs, Crash(r0) PROVE OwnDatabase'
  BY <1>17 DEF Crash
<1>18. ASSUME NEW r0 \in Runs, Die(r0) PROVE OwnDatabase'
  BY <1>18 DEF Die
<1>19. ASSUME NEW q0 \in Requests, Accept(q0) PROVE OwnDatabase'
  BY <1>19 DEF Accept
<1>20. ASSUME NEW q0 \in Requests, Subscribe(q0) PROVE OwnDatabase'
  BY <1>20 DEF Subscribe
<1>21. ASSUME NEW q0 \in Requests, Leave(q0) PROVE OwnDatabase'
  BY <1>21 DEF Leave
<1>22. CASE UNCHANGED vars
  BY <1>22 DEF vars
<1>23. ASSUME NEW r0 \in Runs, ClosePool(r0) PROVE OwnDatabase'
  BY <1>23 DEF ClosePool
<1>24. ASSUME NEW q0 \in Requests, Query(q0) PROVE OwnDatabase'
  BY <1>24 DEF Query
<1> QED BY <1>1, <1>2, <1>3, <1>4, <1>5, <1>6, <1>7, <1>8, <1>9, <1>10, <1>11, <1>12, <1>13, <1>14, <1>15, <1>16, <1>17, <1>18, <1>19, <1>20, <1>21, <1>22, <1>23, <1>24 DEF Next, Main

LEMMA KeepsAwaited == IInv /\ [Next]_vars => Awaited'
<1> SUFFICES ASSUME IInv, [Next]_vars PROVE Awaited' OBVIOUS
<1> USE RunNumbers DEF IInv, TypeOK, Awaited, OneAtATime, OwnDatabase, Unlaunched, Holding, Goto, Exit, RemoveFile, Alive, Starting, process, clients
<1>1. ASSUME NEW r0 \in Runs, Start(r0) PROVE Awaited'
  BY <1>1 DEF Start
<1>2. ASSUME NEW r0 \in Runs, Probe(r0) PROVE Awaited'
  BY <1>2 DEF Probe
<1>3. ASSUME NEW r0 \in Runs, Await(r0) PROVE Awaited'
  BY <1>3 DEF Await
<1>4. ASSUME NEW r0 \in Runs, Launch(r0) PROVE Awaited'
  BY <1>4 DEF Launch
<1>5. ASSUME NEW r0 \in Runs, WritePID(r0) PROVE Awaited'
  BY <1>5 DEF WritePID
<1>6. ASSUME NEW r0 \in Runs, FillPID(r0) PROVE Awaited'
  BY <1>6 DEF FillPID
<1>7. ASSUME NEW r0 \in Runs, Initialise(r0) PROVE Awaited'
  BY <1>7 DEF Initialise
<1>8. ASSUME NEW r0 \in Runs, Select(r0) PROVE Awaited'
  BY <1>8 DEF Select
<1>9. ASSUME NEW r0 \in Runs, CloseHub(r0) PROVE Awaited'
  BY <1>9 DEF CloseHub
<1>10. ASSUME NEW r0 \in Runs, ShutdownHTTP(r0) PROVE Awaited'
  BY <1>10 DEF ShutdownHTTP
<1>11. ASSUME NEW r0 \in Runs, Drain(r0) PROVE Awaited'
  BY <1>11 DEF Drain
<1>12. ASSUME NEW r0 \in Runs, StopPG(r0) PROVE Awaited'
  BY <1>12 DEF StopPG
<1>13. ASSUME NEW r0 \in Runs, Unlink(r0) PROVE Awaited'
  BY <1>13 DEF Unlink
<1>14. ASSUME NEW r0 \in Runs, AssignHTTP(r0) PROVE Awaited'
  BY <1>14 DEF AssignHTTP
<1>15. ASSUME NEW r0 \in Runs, Listen(r0) PROVE Awaited'
  BY <1>15 DEF Listen
<1>16. ASSUME NEW r0 \in Runs, Signal(r0) PROVE Awaited'
  BY <1>16 DEF Signal
<1>17. ASSUME NEW r0 \in Runs, Crash(r0) PROVE Awaited'
  BY <1>17 DEF Crash
<1>18. ASSUME NEW r0 \in Runs, Die(r0) PROVE Awaited'
  BY <1>18 DEF Die
<1>19. ASSUME NEW q0 \in Requests, Accept(q0) PROVE Awaited'
  BY <1>19 DEF Accept
<1>20. ASSUME NEW q0 \in Requests, Subscribe(q0) PROVE Awaited'
  BY <1>20 DEF Subscribe
<1>21. ASSUME NEW q0 \in Requests, Leave(q0) PROVE Awaited'
  BY <1>21 DEF Leave
<1>22. CASE UNCHANGED vars
  BY <1>22 DEF vars
<1>23. ASSUME NEW r0 \in Runs, ClosePool(r0) PROVE Awaited'
  BY <1>23 DEF ClosePool
<1>24. ASSUME NEW q0 \in Requests, Query(q0) PROVE Awaited'
  BY <1>24 DEF Query
<1> QED BY <1>1, <1>2, <1>3, <1>4, <1>5, <1>6, <1>7, <1>8, <1>9, <1>10, <1>11, <1>12, <1>13, <1>14, <1>15, <1>16, <1>17, <1>18, <1>19, <1>20, <1>21, <1>22, <1>23, <1>24 DEF Next, Main

LEMMA KeepsStopped == IInv /\ [Next]_vars => Stopped'
<1> SUFFICES ASSUME IInv, [Next]_vars PROVE Stopped' OBVIOUS
<1> USE RunNumbers DEF IInv, TypeOK, Stopped, Loose, Goto, Exit, RemoveFile, Alive, Starting, process, clients
<1>1. ASSUME NEW r0 \in Runs, Start(r0) PROVE Stopped'
  BY <1>1 DEF Start
<1>2. ASSUME NEW r0 \in Runs, Probe(r0) PROVE Stopped'
  BY <1>2 DEF Probe
<1>3. ASSUME NEW r0 \in Runs, Await(r0) PROVE Stopped'
  BY <1>3 DEF Await
<1>4. ASSUME NEW r0 \in Runs, Launch(r0) PROVE Stopped'
  BY <1>4 DEF Launch
<1>5. ASSUME NEW r0 \in Runs, WritePID(r0) PROVE Stopped'
  BY <1>5 DEF WritePID
<1>6. ASSUME NEW r0 \in Runs, FillPID(r0) PROVE Stopped'
  BY <1>6 DEF FillPID
<1>7. ASSUME NEW r0 \in Runs, Initialise(r0) PROVE Stopped'
  BY <1>7 DEF Initialise
<1>8. ASSUME NEW r0 \in Runs, Select(r0) PROVE Stopped'
  BY <1>8 DEF Select
<1>9. ASSUME NEW r0 \in Runs, CloseHub(r0) PROVE Stopped'
  BY <1>9 DEF CloseHub
<1>10. ASSUME NEW r0 \in Runs, ShutdownHTTP(r0) PROVE Stopped'
  BY <1>10 DEF ShutdownHTTP
<1>11. ASSUME NEW r0 \in Runs, Drain(r0) PROVE Stopped'
  BY <1>11 DEF Drain
<1>12. ASSUME NEW r0 \in Runs, StopPG(r0) PROVE Stopped'
  BY <1>12 DEF StopPG
<1>13. ASSUME NEW r0 \in Runs, Unlink(r0) PROVE Stopped'
  BY <1>13 DEF Unlink
<1>14. ASSUME NEW r0 \in Runs, AssignHTTP(r0) PROVE Stopped'
  BY <1>14 DEF AssignHTTP
<1>15. ASSUME NEW r0 \in Runs, Listen(r0) PROVE Stopped'
  BY <1>15 DEF Listen
<1>16. ASSUME NEW r0 \in Runs, Signal(r0) PROVE Stopped'
  BY <1>16 DEF Signal
<1>17. ASSUME NEW r0 \in Runs, Crash(r0) PROVE Stopped'
  BY <1>17 DEF Crash
<1>18. ASSUME NEW r0 \in Runs, Die(r0) PROVE Stopped'
  BY <1>18 DEF Die
<1>19. ASSUME NEW q0 \in Requests, Accept(q0) PROVE Stopped'
  BY <1>19 DEF Accept
<1>20. ASSUME NEW q0 \in Requests, Subscribe(q0) PROVE Stopped'
  BY <1>20 DEF Subscribe
<1>21. ASSUME NEW q0 \in Requests, Leave(q0) PROVE Stopped'
  BY <1>21 DEF Leave
<1>22. CASE UNCHANGED vars
  BY <1>22 DEF vars
<1>23. ASSUME NEW r0 \in Runs, ClosePool(r0) PROVE Stopped'
  BY <1>23 DEF ClosePool
<1>24. ASSUME NEW q0 \in Requests, Query(q0) PROVE Stopped'
  BY <1>24 DEF Query
<1> QED BY <1>1, <1>2, <1>3, <1>4, <1>5, <1>6, <1>7, <1>8, <1>9, <1>10, <1>11, <1>12, <1>13, <1>14, <1>15, <1>16, <1>17, <1>18, <1>19, <1>20, <1>21, <1>22, <1>23, <1>24 DEF Next, Main

LEMMA KeepsServed == IInv /\ [Next]_vars => Served'
<1> SUFFICES ASSUME IInv, [Next]_vars PROVE Served' OBVIOUS
<1> USE RunNumbers DEF IInv, TypeOK, Served, Goto, Exit, RemoveFile, Alive, Starting, process, clients
<1>1. ASSUME NEW r0 \in Runs, Start(r0) PROVE Served'
  BY <1>1 DEF Start
<1>2. ASSUME NEW r0 \in Runs, Probe(r0) PROVE Served'
  BY <1>2 DEF Probe
<1>3. ASSUME NEW r0 \in Runs, Await(r0) PROVE Served'
  BY <1>3 DEF Await
<1>4. ASSUME NEW r0 \in Runs, Launch(r0) PROVE Served'
  <2> HIDE DEF Goto, Exit
  <2>1. (\E where \in {"write"} : Goto(r0, where)) \/ Exit(r0)
    BY <1>4 DEF Launch
  <2>2. {"write"} \in SUBSET PCs BY DEF PCs, Starting, Ending
  <2>3. /\ pc'[r0] \in {"write"} \cup {"end"}
        /\ \A s \in Runs : s # r0 => pc'[s] = pc[s]
        /\ \A q \in Requests : request'[q] # request[q] => request'[q] = "done" /\ request[q] # "none"
        /\ UNCHANGED <<server, late>>
    BY <2>1, <2>2, StepMoves
  <2> QED BY <2>3
<1>5. ASSUME NEW r0 \in Runs, WritePID(r0) PROVE Served'
  BY <1>5 DEF WritePID
<1>6. ASSUME NEW r0 \in Runs, FillPID(r0) PROVE Served'
  BY <1>6 DEF FillPID
<1>7. ASSUME NEW r0 \in Runs, Initialise(r0) PROVE Served'
  <2> HIDE DEF Goto, Exit
  <2>1. (\E where \in {"select"} : Goto(r0, where)) \/ Exit(r0)
    BY <1>7 DEF Initialise
  <2>2. {"select"} \in SUBSET PCs BY DEF PCs, Starting, Ending
  <2>3. /\ pc'[r0] \in {"select"} \cup {"end"}
        /\ \A s \in Runs : s # r0 => pc'[s] = pc[s]
        /\ \A q \in Requests : request'[q] # request[q] => request'[q] = "done" /\ request[q] # "none"
        /\ UNCHANGED <<server, late>>
    BY <2>1, <2>2, StepMoves
  <2> QED BY <2>3
<1>8. ASSUME NEW r0 \in Runs, Select(r0) PROVE Served'
  BY <1>8 DEF Select
<1>9. ASSUME NEW r0 \in Runs, CloseHub(r0) PROVE Served'
  BY <1>9 DEF CloseHub
<1>10. ASSUME NEW r0 \in Runs, ShutdownHTTP(r0) PROVE Served'
  <2>1. CASE web[r0] \in {"none", "assigned"} /\ Goto(r0, "pool")
    BY <1>10, <2>1 DEF ShutdownHTTP, PCs, Ending
  <2>2. CASE web[r0] # "none" /\ pc' = [pc EXCEPT ![r0] = "drain"]
             /\ web' = [web EXCEPT ![r0] = "closed"] /\ UNCHANGED <<signal, clients>>
    BY <1>10, <2>2 DEF ShutdownHTTP, PCs, Ending
  <2> QED BY <1>10, <2>1, <2>2 DEF ShutdownHTTP
<1>11. ASSUME NEW r0 \in Runs, Drain(r0) PROVE Served'
  BY <1>11 DEF Drain
<1>12. ASSUME NEW r0 \in Runs, StopPG(r0) PROVE Served'
  BY <1>12 DEF StopPG
<1>13. ASSUME NEW r0 \in Runs, Unlink(r0) PROVE Served'
  BY <1>13 DEF Unlink
<1>14. ASSUME NEW r0 \in Runs, AssignHTTP(r0) PROVE Served'
  BY <1>14 DEF AssignHTTP
<1>15. ASSUME NEW r0 \in Runs, Listen(r0) PROVE Served'
  BY <1>15 DEF Listen
<1>16. ASSUME NEW r0 \in Runs, Signal(r0) PROVE Served'
  BY <1>16 DEF Signal
<1>17. ASSUME NEW r0 \in Runs, Crash(r0) PROVE Served'
  <2> HIDE DEF Goto, Exit
  <2>1. (\E where \in {} : Goto(r0, where)) \/ Exit(r0)
    BY <1>17 DEF Crash
  <2>2. {} \in SUBSET PCs BY DEF PCs, Starting, Ending
  <2>3. /\ pc'[r0] \in {} \cup {"end"}
        /\ \A s \in Runs : s # r0 => pc'[s] = pc[s]
        /\ \A q \in Requests : request'[q] # request[q] => request'[q] = "done" /\ request[q] # "none"
        /\ UNCHANGED <<server, late>>
    BY <2>1, <2>2, StepMoves
  <2> QED BY <2>3
<1>18. ASSUME NEW r0 \in Runs, Die(r0) PROVE Served'
  BY <1>18 DEF Die
<1>19. ASSUME NEW q0 \in Requests, Accept(q0) PROVE Served'
  BY <1>19 DEF Accept
<1>20. ASSUME NEW q0 \in Requests, Subscribe(q0) PROVE Served'
  BY <1>20 DEF Subscribe
<1>21. ASSUME NEW q0 \in Requests, Leave(q0) PROVE Served'
  BY <1>21 DEF Leave
<1>22. CASE UNCHANGED vars
  BY <1>22 DEF vars
<1>23. ASSUME NEW r0 \in Runs, ClosePool(r0) PROVE Served'
  <2> HIDE DEF Goto, Exit
  <2>1. (\E where \in {} : Goto(r0, where)) \/ Exit(r0)
    BY <1>23 DEF ClosePool
  <2>2. {} \in SUBSET PCs BY DEF PCs, Starting, Ending
  <2>3. /\ pc'[r0] \in {} \cup {"end"}
        /\ \A s \in Runs : s # r0 => pc'[s] = pc[s]
        /\ \A q \in Requests : request'[q] # request[q] => request'[q] = "done" /\ request[q] # "none"
        /\ UNCHANGED <<server, late>>
    BY <2>1, <2>2, StepMoves
  <2> QED BY <2>3
<1>24. ASSUME NEW q0 \in Requests, Query(q0) PROVE Served'
  BY <1>24 DEF Query
<1> QED BY <1>1, <1>2, <1>3, <1>4, <1>5, <1>6, <1>7, <1>8, <1>9, <1>10, <1>11, <1>12, <1>13, <1>14, <1>15, <1>16, <1>17, <1>18, <1>19, <1>20, <1>21, <1>22, <1>23, <1>24 DEF Next, Main

LEMMA KeepsWaited == IInv /\ [Next]_vars => Waited'
<1> SUFFICES ASSUME IInv, [Next]_vars PROVE Waited' OBVIOUS
<1> USE RunNumbers DEF IInv, TypeOK, Waited, Active, Goto, Exit, RemoveFile, Alive, Starting, process, clients
<1>1. ASSUME NEW r0 \in Runs, Start(r0) PROVE Waited'
  BY <1>1 DEF Start
<1>2. ASSUME NEW r0 \in Runs, Probe(r0) PROVE Waited'
  BY <1>2 DEF Probe
<1>3. ASSUME NEW r0 \in Runs, Await(r0) PROVE Waited'
  BY <1>3 DEF Await
<1>4. ASSUME NEW r0 \in Runs, Launch(r0) PROVE Waited'
  BY <1>4 DEF Launch
<1>5. ASSUME NEW r0 \in Runs, WritePID(r0) PROVE Waited'
  BY <1>5 DEF WritePID
<1>6. ASSUME NEW r0 \in Runs, FillPID(r0) PROVE Waited'
  BY <1>6 DEF FillPID
<1>7. ASSUME NEW r0 \in Runs, Initialise(r0) PROVE Waited'
  BY <1>7 DEF Initialise
<1>8. ASSUME NEW r0 \in Runs, Select(r0) PROVE Waited'
  BY <1>8 DEF Select
<1>9. ASSUME NEW r0 \in Runs, CloseHub(r0) PROVE Waited'
  BY <1>9 DEF CloseHub
<1>10. ASSUME NEW r0 \in Runs, ShutdownHTTP(r0) PROVE Waited'
  BY <1>10 DEF ShutdownHTTP
<1>11. ASSUME NEW r0 \in Runs, Drain(r0) PROVE Waited'
  BY <1>11 DEF Drain
<1>12. ASSUME NEW r0 \in Runs, StopPG(r0) PROVE Waited'
  BY <1>12 DEF StopPG
<1>13. ASSUME NEW r0 \in Runs, Unlink(r0) PROVE Waited'
  BY <1>13 DEF Unlink
<1>14. ASSUME NEW r0 \in Runs, AssignHTTP(r0) PROVE Waited'
  BY <1>14 DEF AssignHTTP
<1>15. ASSUME NEW r0 \in Runs, Listen(r0) PROVE Waited'
  BY <1>15 DEF Listen
<1>16. ASSUME NEW r0 \in Runs, Signal(r0) PROVE Waited'
  BY <1>16 DEF Signal
<1>17. ASSUME NEW r0 \in Runs, Crash(r0) PROVE Waited'
  BY <1>17 DEF Crash
<1>18. ASSUME NEW r0 \in Runs, Die(r0) PROVE Waited'
  BY <1>18 DEF Die
<1>19. ASSUME NEW q0 \in Requests, Accept(q0) PROVE Waited'
  <2>1. PICK r0 \in Runs : web[r0] = "listening" /\ server' = [server EXCEPT ![q0] = r0]
    BY <1>19 DEF Accept
  <2>2. UNCHANGED <<pc, web, hurried>> BY <1>19 DEF Accept
  <2>3. \A q \in Requests : q # q0 => request'[q] = request[q] /\ server'[q] = server[q]
    BY <1>19, <2>1 DEF Accept
  <2>4. server'[q0] = r0 BY <2>1
  <2> QED BY <2>1, <2>2, <2>3, <2>4
<1>20. ASSUME NEW q0 \in Requests, Subscribe(q0) PROVE Waited'
  BY <1>20 DEF Subscribe
<1>21. ASSUME NEW q0 \in Requests, Leave(q0) PROVE Waited'
  BY <1>21 DEF Leave
<1>22. CASE UNCHANGED vars
  BY <1>22 DEF vars
<1>23. ASSUME NEW r0 \in Runs, ClosePool(r0) PROVE Waited'
  BY <1>23 DEF ClosePool
<1>24. ASSUME NEW q0 \in Requests, Query(q0) PROVE Waited'
  BY <1>24 DEF Query
<1> QED BY <1>1, <1>2, <1>3, <1>4, <1>5, <1>6, <1>7, <1>8, <1>9, <1>10, <1>11, <1>12, <1>13, <1>14, <1>15, <1>16, <1>17, <1>18, <1>19, <1>20, <1>21, <1>22, <1>23, <1>24 DEF Next, Main

LEMMA KeepsOrphansAreNamed == IInv /\ [Next]_vars => OrphansAreNamed'
<1> SUFFICES ASSUME IInv, [Next]_vars PROVE OrphansAreNamed' OBVIOUS
<1> USE RunNumbers DEF IInv, TypeOK, OrphansAreNamed, OwnDatabase, Awaited, Stopped, Unlaunched, OneAtATime, Loose, Holding, Goto, Exit, RemoveFile, Alive, Starting, process, clients
<1>1. ASSUME NEW r0 \in Runs, Start(r0) PROVE OrphansAreNamed'
  BY <1>1 DEF Start
<1>2. ASSUME NEW r0 \in Runs, Probe(r0) PROVE OrphansAreNamed'
  BY <1>2 DEF Probe
<1>3. ASSUME NEW r0 \in Runs, Await(r0) PROVE OrphansAreNamed'
  BY <1>3 DEF Await
<1>4. ASSUME NEW r0 \in Runs, Launch(r0) PROVE OrphansAreNamed'
  BY <1>4 DEF Launch
<1>5. ASSUME NEW r0 \in Runs, WritePID(r0) PROVE OrphansAreNamed'
  BY <1>5 DEF WritePID
<1>6. ASSUME NEW r0 \in Runs, FillPID(r0) PROVE OrphansAreNamed'
  BY <1>6 DEF FillPID
<1>7. ASSUME NEW r0 \in Runs, Initialise(r0) PROVE OrphansAreNamed'
  BY <1>7 DEF Initialise
<1>8. ASSUME NEW r0 \in Runs, Select(r0) PROVE OrphansAreNamed'
  BY <1>8 DEF Select
<1>9. ASSUME NEW r0 \in Runs, CloseHub(r0) PROVE OrphansAreNamed'
  BY <1>9 DEF CloseHub
<1>10. ASSUME NEW r0 \in Runs, ShutdownHTTP(r0) PROVE OrphansAreNamed'
  BY <1>10 DEF ShutdownHTTP
<1>11. ASSUME NEW r0 \in Runs, Drain(r0) PROVE OrphansAreNamed'
  BY <1>11 DEF Drain
<1>12. ASSUME NEW r0 \in Runs, StopPG(r0) PROVE OrphansAreNamed'
  BY <1>12 DEF StopPG
<1>13. ASSUME NEW r0 \in Runs, Unlink(r0) PROVE OrphansAreNamed'
  BY <1>13 DEF Unlink
<1>14. ASSUME NEW r0 \in Runs, AssignHTTP(r0) PROVE OrphansAreNamed'
  BY <1>14 DEF AssignHTTP
<1>15. ASSUME NEW r0 \in Runs, Listen(r0) PROVE OrphansAreNamed'
  BY <1>15 DEF Listen
<1>16. ASSUME NEW r0 \in Runs, Signal(r0) PROVE OrphansAreNamed'
  BY <1>16 DEF Signal
<1>17. ASSUME NEW r0 \in Runs, Crash(r0) PROVE OrphansAreNamed'
  BY <1>17 DEF Crash
<1>18. ASSUME NEW r0 \in Runs, Die(r0) PROVE OrphansAreNamed'
  BY <1>18 DEF Die
<1>19. ASSUME NEW q0 \in Requests, Accept(q0) PROVE OrphansAreNamed'
  BY <1>19 DEF Accept
<1>20. ASSUME NEW q0 \in Requests, Subscribe(q0) PROVE OrphansAreNamed'
  BY <1>20 DEF Subscribe
<1>21. ASSUME NEW q0 \in Requests, Leave(q0) PROVE OrphansAreNamed'
  BY <1>21 DEF Leave
<1>22. CASE UNCHANGED vars
  BY <1>22 DEF vars
<1>23. ASSUME NEW r0 \in Runs, ClosePool(r0) PROVE OrphansAreNamed'
  BY <1>23 DEF ClosePool
<1>24. ASSUME NEW q0 \in Requests, Query(q0) PROVE OrphansAreNamed'
  BY <1>24 DEF Query
<1> QED BY <1>1, <1>2, <1>3, <1>4, <1>5, <1>6, <1>7, <1>8, <1>9, <1>10, <1>11, <1>12, <1>13, <1>14, <1>15, <1>16, <1>17, <1>18, <1>19, <1>20, <1>21, <1>22, <1>23, <1>24 DEF Next, Main

LEMMA KeepsLaunchIsFree == IInv /\ [Next]_vars => LaunchIsFree'
<1> SUFFICES ASSUME IInv, [Next]_vars PROVE LaunchIsFree' OBVIOUS
<1> USE RunNumbers DEF IInv, TypeOK, LaunchIsFree, OrphansAreNamed, Awaited, OneAtATime, OwnDatabase, Unlaunched, Loose, Holding, Goto, Exit, RemoveFile, Alive, Starting, process, clients
<1>1. ASSUME NEW r0 \in Runs, Start(r0) PROVE LaunchIsFree'
  BY <1>1 DEF Start
<1>2. ASSUME NEW r0 \in Runs, Probe(r0) PROVE LaunchIsFree'
  BY <1>2 DEF Probe
<1>3. ASSUME NEW r0 \in Runs, Await(r0) PROVE LaunchIsFree'
  BY <1>3 DEF Await
<1>4. ASSUME NEW r0 \in Runs, Launch(r0) PROVE LaunchIsFree'
  BY <1>4 DEF Launch
<1>5. ASSUME NEW r0 \in Runs, WritePID(r0) PROVE LaunchIsFree'
  BY <1>5 DEF WritePID
<1>6. ASSUME NEW r0 \in Runs, FillPID(r0) PROVE LaunchIsFree'
  BY <1>6 DEF FillPID
<1>7. ASSUME NEW r0 \in Runs, Initialise(r0) PROVE LaunchIsFree'
  BY <1>7 DEF Initialise
<1>8. ASSUME NEW r0 \in Runs, Select(r0) PROVE LaunchIsFree'
  BY <1>8 DEF Select
<1>9. ASSUME NEW r0 \in Runs, CloseHub(r0) PROVE LaunchIsFree'
  BY <1>9 DEF CloseHub
<1>10. ASSUME NEW r0 \in Runs, ShutdownHTTP(r0) PROVE LaunchIsFree'
  BY <1>10 DEF ShutdownHTTP
<1>11. ASSUME NEW r0 \in Runs, Drain(r0) PROVE LaunchIsFree'
  BY <1>11 DEF Drain
<1>12. ASSUME NEW r0 \in Runs, StopPG(r0) PROVE LaunchIsFree'
  BY <1>12 DEF StopPG
<1>13. ASSUME NEW r0 \in Runs, Unlink(r0) PROVE LaunchIsFree'
  BY <1>13 DEF Unlink
<1>14. ASSUME NEW r0 \in Runs, AssignHTTP(r0) PROVE LaunchIsFree'
  BY <1>14 DEF AssignHTTP
<1>15. ASSUME NEW r0 \in Runs, Listen(r0) PROVE LaunchIsFree'
  BY <1>15 DEF Listen
<1>16. ASSUME NEW r0 \in Runs, Signal(r0) PROVE LaunchIsFree'
  BY <1>16 DEF Signal
<1>17. ASSUME NEW r0 \in Runs, Crash(r0) PROVE LaunchIsFree'
  BY <1>17 DEF Crash
<1>18. ASSUME NEW r0 \in Runs, Die(r0) PROVE LaunchIsFree'
  BY <1>18 DEF Die
<1>19. ASSUME NEW q0 \in Requests, Accept(q0) PROVE LaunchIsFree'
  <2>1. UNCHANGED <<pc, pg, lapse>> BY <1>19 DEF Accept
  <2> QED BY <2>1
<1>20. ASSUME NEW q0 \in Requests, Subscribe(q0) PROVE LaunchIsFree'
  BY <1>20 DEF Subscribe
<1>21. ASSUME NEW q0 \in Requests, Leave(q0) PROVE LaunchIsFree'
  BY <1>21 DEF Leave
<1>22. CASE UNCHANGED vars
  BY <1>22 DEF vars
<1>23. ASSUME NEW r0 \in Runs, ClosePool(r0) PROVE LaunchIsFree'
  BY <1>23 DEF ClosePool
<1>24. ASSUME NEW q0 \in Requests, Query(q0) PROVE LaunchIsFree'
  BY <1>24 DEF Query
<1> QED BY <1>1, <1>2, <1>3, <1>4, <1>5, <1>6, <1>7, <1>8, <1>9, <1>10, <1>11, <1>12, <1>13, <1>14, <1>15, <1>16, <1>17, <1>18, <1>19, <1>20, <1>21, <1>22, <1>23, <1>24 DEF Next, Main

LEMMA KeepsOnlyLateSessionsUntold == IInv /\ [Next]_vars => OnlyLateSessionsUntold'
<1> SUFFICES ASSUME IInv, [Next]_vars PROVE OnlyLateSessionsUntold' OBVIOUS
<1> USE RunNumbers DEF IInv, TypeOK, OnlyLateSessionsUntold, Served, Goto, Exit, RemoveFile, Alive, Starting, process, clients
<1>1. ASSUME NEW r0 \in Runs, Start(r0) PROVE OnlyLateSessionsUntold'
  BY <1>1 DEF Start
<1>2. ASSUME NEW r0 \in Runs, Probe(r0) PROVE OnlyLateSessionsUntold'
  <2> HIDE DEF Goto, Exit
  <2>1. (\E where \in {"launch", "await"} : Goto(r0, where)) \/ Exit(r0)
    BY <1>2 DEF Probe
  <2>2. {"launch", "await"} \in SUBSET PCs BY DEF PCs, Starting, Ending
  <2>3. /\ pc'[r0] \in {"launch", "await"} \cup {"end"}
        /\ \A s \in Runs : s # r0 => pc'[s] = pc[s]
        /\ \A q \in Requests : request'[q] # request[q] => request'[q] = "done" /\ request[q] # "none"
        /\ UNCHANGED <<server, late>>
    BY <2>1, <2>2, StepMoves
  <2> QED BY <2>3
<1>3. ASSUME NEW r0 \in Runs, Await(r0) PROVE OnlyLateSessionsUntold'
  BY <1>3 DEF Await
<1>4. ASSUME NEW r0 \in Runs, Launch(r0) PROVE OnlyLateSessionsUntold'
  <2> HIDE DEF Goto, Exit
  <2>1. (\E where \in {"write"} : Goto(r0, where)) \/ Exit(r0)
    BY <1>4 DEF Launch
  <2>2. {"write"} \in SUBSET PCs BY DEF PCs, Starting, Ending
  <2>3. /\ pc'[r0] \in {"write"} \cup {"end"}
        /\ \A s \in Runs : s # r0 => pc'[s] = pc[s]
        /\ \A q \in Requests : request'[q] # request[q] => request'[q] = "done" /\ request[q] # "none"
        /\ UNCHANGED <<server, late>>
    BY <2>1, <2>2, StepMoves
  <2> QED BY <2>3
<1>5. ASSUME NEW r0 \in Runs, WritePID(r0) PROVE OnlyLateSessionsUntold'
  <2> HIDE DEF Goto, Exit
  <2>1. (\E where \in {"fill", "init"} : Goto(r0, where)) \/ Exit(r0)
    BY <1>5 DEF WritePID
  <2>2. {"fill", "init"} \in SUBSET PCs BY DEF PCs, Starting, Ending
  <2>3. /\ pc'[r0] \in {"fill", "init"} \cup {"end"}
        /\ \A s \in Runs : s # r0 => pc'[s] = pc[s]
        /\ \A q \in Requests : request'[q] # request[q] => request'[q] = "done" /\ request[q] # "none"
        /\ UNCHANGED <<server, late>>
    BY <2>1, <2>2, StepMoves
  <2> QED BY <2>3
<1>6. ASSUME NEW r0 \in Runs, FillPID(r0) PROVE OnlyLateSessionsUntold'
  BY <1>6 DEF FillPID
<1>7. ASSUME NEW r0 \in Runs, Initialise(r0) PROVE OnlyLateSessionsUntold'
  <2> HIDE DEF Goto, Exit
  <2>1. (\E where \in {"select"} : Goto(r0, where)) \/ Exit(r0)
    BY <1>7 DEF Initialise
  <2>2. {"select"} \in SUBSET PCs BY DEF PCs, Starting, Ending
  <2>3. /\ pc'[r0] \in {"select"} \cup {"end"}
        /\ \A s \in Runs : s # r0 => pc'[s] = pc[s]
        /\ \A q \in Requests : request'[q] # request[q] => request'[q] = "done" /\ request[q] # "none"
        /\ UNCHANGED <<server, late>>
    BY <2>1, <2>2, StepMoves
  <2> QED BY <2>3
<1>8. ASSUME NEW r0 \in Runs, Select(r0) PROVE OnlyLateSessionsUntold'
  <2> HIDE DEF Goto, Exit
  <2>1. (\E where \in {"stop", "close"} : Goto(r0, where)) \/ Exit(r0)
    BY <1>8 DEF Select
  <2>2. {"stop", "close"} \in SUBSET PCs BY DEF PCs, Starting, Ending
  <2>3. /\ pc'[r0] \in {"stop", "close"} \cup {"end"}
        /\ \A s \in Runs : s # r0 => pc'[s] = pc[s]
        /\ \A q \in Requests : request'[q] # request[q] => request'[q] = "done" /\ request[q] # "none"
        /\ UNCHANGED <<server, late>>
    BY <2>1, <2>2, StepMoves
  <2> QED BY <2>3
<1>9. ASSUME NEW r0 \in Runs, CloseHub(r0) PROVE OnlyLateSessionsUntold'
  BY <1>9 DEF CloseHub
<1>10. ASSUME NEW r0 \in Runs, ShutdownHTTP(r0) PROVE OnlyLateSessionsUntold'
  <2>1. CASE Goto(r0, "pool")
    BY <1>10, <2>1 DEF ShutdownHTTP
  <2>2. CASE web[r0] # "none" /\ pc' = [pc EXCEPT ![r0] = "drain"]
             /\ web' = [web EXCEPT ![r0] = "closed"] /\ UNCHANGED <<signal, clients>>
    BY <1>10, <2>2 DEF ShutdownHTTP
  <2> QED BY <1>10, <2>1, <2>2 DEF ShutdownHTTP
<1>11. ASSUME NEW r0 \in Runs, Drain(r0) PROVE OnlyLateSessionsUntold'
  BY <1>11 DEF Drain
<1>12. ASSUME NEW r0 \in Runs, StopPG(r0) PROVE OnlyLateSessionsUntold'
  BY <1>12 DEF StopPG
<1>13. ASSUME NEW r0 \in Runs, Unlink(r0) PROVE OnlyLateSessionsUntold'
  BY <1>13 DEF Unlink
<1>14. ASSUME NEW r0 \in Runs, AssignHTTP(r0) PROVE OnlyLateSessionsUntold'
  BY <1>14 DEF AssignHTTP
<1>15. ASSUME NEW r0 \in Runs, Listen(r0) PROVE OnlyLateSessionsUntold'
  BY <1>15 DEF Listen
<1>16. ASSUME NEW r0 \in Runs, Signal(r0) PROVE OnlyLateSessionsUntold'
  BY <1>16 DEF Signal
<1>17. ASSUME NEW r0 \in Runs, Crash(r0) PROVE OnlyLateSessionsUntold'
  BY <1>17 DEF Crash
<1>18. ASSUME NEW r0 \in Runs, Die(r0) PROVE OnlyLateSessionsUntold'
  BY <1>18 DEF Die
<1>19. ASSUME NEW q0 \in Requests, Accept(q0) PROVE OnlyLateSessionsUntold'
  BY <1>19 DEF Accept
<1>20. ASSUME NEW q0 \in Requests, Subscribe(q0) PROVE OnlyLateSessionsUntold'
  BY <1>20 DEF Subscribe
<1>21. ASSUME NEW q0 \in Requests, Leave(q0) PROVE OnlyLateSessionsUntold'
  BY <1>21 DEF Leave
<1>22. CASE UNCHANGED vars
  BY <1>22 DEF vars
<1>23. ASSUME NEW r0 \in Runs, ClosePool(r0) PROVE OnlyLateSessionsUntold'
  BY <1>23 DEF ClosePool
<1>24. ASSUME NEW q0 \in Requests, Query(q0) PROVE OnlyLateSessionsUntold'
  BY <1>24 DEF Query
<1> QED BY <1>1, <1>2, <1>3, <1>4, <1>5, <1>6, <1>7, <1>8, <1>9, <1>10, <1>11, <1>12, <1>13, <1>14, <1>15, <1>16, <1>17, <1>18, <1>19, <1>20, <1>21, <1>22, <1>23, <1>24 DEF Next, Main

\* Every step keeps the inductive invariant.
LEMMA NextIInv == IInv /\ [Next]_vars => IInv'
BY KeepsTypeOK, KeepsOneAtATime, KeepsOwnDatabase, KeepsAwaited, KeepsStopped, KeepsServed,
   KeepsWaited, KeepsOrphansAreNamed, KeepsLaunchIsFree, KeepsOnlyLateSessionsUntold DEF IInv

LEMMA LifecycleInvariant == Spec => []IInv
BY InitIInv, NextIInv, PTL DEF Spec

\* The variables of every run and request keep their types.
THEOREM LifecycleTypes == Spec => []TypeOK
<1>1. IInv => TypeOK BY DEF IInv
<1> QED BY <1>1, LifecycleInvariant, PTL

\* The pid file names the PostgreSQL a run leaves (Manager.Start, Stop, cleanupOrphan,
\* the error returns of runStart).
THEOREM OrphansNamed == Spec => []OrphansAreNamed
<1>1. IInv => OrphansAreNamed BY DEF IInv
<1> QED BY <1>1, LifecycleInvariant, PTL

\* A start finds the data directory free of what earlier runs left (cleanupOrphan).
THEOREM LaunchesFree == Spec => []LaunchIsFree
<1>1. IInv => LaunchIsFree BY DEF IInv
<1> QED BY <1>1, LifecycleInvariant, PTL

\* Only sessions that subscribe after hub.Close are not told of a shutdown (Shutdown).
THEOREM SessionsTold == Spec => []OnlyLateSessionsUntold
<1>1. IInv => OnlyLateSessionsUntold BY DEF IInv
<1> QED BY <1>1, LifecycleInvariant, PTL

\* PostgreSQL is not stopped under a request, but after the timeout or a failure of
\* the listener (runStart).
THEOREM DatabaseStoppedLast == Spec => DatabaseOutlivesRequests
<1>1. IInv /\ [Next]_vars =>
        [\A r \in Runs : pc[r] = "stop" /\ pc'[r] = "unlink" /\ Active(r) # {} => r \in hurried]_vars
  BY DEF IInv, Waited
<1> QED BY <1>1, LifecycleInvariant, PTL DEF Spec, DatabaseOutlivesRequests

=============================================================================
