------------------------------ MODULE Migrations ------------------------------
(***************************************************************************)
(* Migrations (internal/migrations) and the processes that run them: a     *)
(* server that starts (cli/start.go) applies the migrations embedded in    *)
(* its binary and then the user's files of a directory, `ayb migrate up`   *)
(* (cli/migrate.go) the user's files only.  Any number of processes may do *)
(* so at once on one database, and die anywhere.                           *)
(*                                                                         *)
(* Runner.Run and UserRunner.Up are the same loop over two tables: look    *)
(* whether a migration is recorded; if not, execute its script and record  *)
(* it in one transaction.  PostgreSQL is external: what a transaction did  *)
(* is kept apart until it commits, and the INSERT of a name waits while    *)
(* another open transaction has inserted it.  A script may fail wherever   *)
(* it wants (bad SQL, a lock timeout, an object that another run has       *)
(* created), and is assumed not to end the transaction it runs in.         *)
(* GetApplied, Status and CreateFile's text change nothing here.           *)
(***************************************************************************)
EXTENDS Naturals

CONSTANTS Procs,   \* the processes; a restarted one is another one
          System,  \* how many migrations the newest binary embeds
          User,    \* how many user migrations are ever written
          None

Stages == {"system", "user"}
Items  == ({"system"} \X (1..System)) \cup ({"user"} \X (1..User))

ASSUME MigrationsAssumption == System \in Nat \ {0} /\ User \in Nat /\ None \notin Items

VARIABLES
  pc,        \* the next step of each process, or how it ended
  stage,     \* the table it is at: _ayb_migrations or _ayb_user_migrations
  todo,      \* the files its loop has not come to
  cur,       \* the migration it is applying
  applied,   \* the migrations it counts as applied by itself
  listed,    \* history: all that it has listed
  dir,       \* the user's files
  tables,    \* the tables that exist
  pending,   \* what its open transaction has done
  recorded,  \* the rows of both tables
  times      \* history: how often the effects of a script were committed

procVars == <<stage, todo, cur, applied, listed>>
vars == <<pc, procVars, dir, tables, pending, recorded, times>>

InTx == {"record", "commit"}
Busy == {"bootstrap", "list", "check", "execute"} \cup InTx

TypeOK ==
  /\ pc \in [Procs -> Busy \cup {"idle", "ok", "failed"}]
  /\ stage \in [Procs -> Stages]
  /\ todo \in [Procs -> SUBSET Nat]
  /\ \A p \in Procs : {stage[p]} \X todo[p] \subseteq Items
  /\ cur \in [Procs -> Items \cup {None}]
  /\ \A p \in Procs : pc[p] \in {"execute"} \cup InTx => cur[p] # None
  /\ applied \in [Procs -> SUBSET Items]
  /\ listed \in [Procs -> SUBSET Items]
  /\ dir \subseteq 1..User
  /\ tables \subseteq Stages
  /\ pending \in [Procs -> SUBSET {"effect", "record"}]
  /\ recorded \subseteq Items
  /\ times \in [Items -> Nat]

Init ==
  /\ pc = [p \in Procs |-> "idle"]
  /\ stage = [p \in Procs |-> "system"]
  /\ todo = [p \in Procs |-> {}]
  /\ cur = [p \in Procs |-> None]
  /\ applied = [p \in Procs |-> {}]
  /\ listed = [p \in Procs |-> {}]
  /\ dir = {} /\ tables = {}
  /\ pending = [p \in Procs |-> {}]
  /\ recorded = {}
  /\ times = [i \in Items |-> 0]

-----------------------------------------------------------------------------
Goto(p, where) == pc' = [pc EXCEPT ![p] = where]

\* A file appears in the directory, under an earlier or a later name than those
\* there (CreateFile, or a checkout of somebody else's).
CreateFile ==
  /\ \E f \in 1..User \ dir : dir' = dir \cup {f}
  /\ UNCHANGED <<pc, procVars, tables, pending, recorded, times>>

\* A server is started, or `ayb migrate up`.
Start(p) ==
  /\ pc[p] = "idle"
  /\ \E s \in Stages : stage' = [stage EXCEPT ![p] = s]
  /\ Goto(p, "bootstrap")
  /\ UNCHANGED <<todo, cur, applied, listed, dir, tables, pending, recorded, times>>

\* CREATE TABLE IF NOT EXISTS.
Bootstrap(p) ==
  /\ pc[p] = "bootstrap"
  /\ tables' = tables \cup {stage[p]}
  /\ Goto(p, "list")
  /\ UNCHANGED <<procVars, dir, pending, recorded, times>>

\* The migrations embedded in this binary, or the files there are now.
List(p) ==
  /\ pc[p] = "list"
  /\ \E files \in IF stage[p] = "system" THEN {1..v : v \in 1..System} ELSE {dir} :
       /\ todo' = [todo EXCEPT ![p] = files]
       /\ listed' = [listed EXCEPT ![p] = @ \cup ({stage[p]} \X files)]
  /\ Goto(p, "check")
  /\ UNCHANGED <<stage, cur, applied, dir, tables, pending, recorded, times>>

\* Mutated Check: the files are not sorted.
CheckUnsorted(p) ==
  /\ pc[p] = "check"
  /\ \E f \in todo[p] :
       /\ todo' = [todo EXCEPT ![p] = @ \ {f}]
       /\ \/ <<stage[p], f>> \in recorded /\ UNCHANGED <<pc, cur>>
          \/ /\ <<stage[p], f>> \notin recorded
             /\ cur' = [cur EXCEPT ![p] = <<stage[p], f>>]
             /\ Goto(p, "execute")
  /\ UNCHANGED <<stage, applied, listed, dir, tables, pending, recorded, times>>

\* SELECT EXISTS for the next file by name.
Check(p) ==
  /\ pc[p] = "check"
  /\ \E f \in todo[p] :
       /\ \A g \in todo[p] : f <= g
       /\ todo' = [todo EXCEPT ![p] = @ \ {f}]
       /\ \/ <<stage[p], f>> \in recorded /\ UNCHANGED <<pc, cur>>
          \/ /\ <<stage[p], f>> \notin recorded
             /\ cur' = [cur EXCEPT ![p] = <<stage[p], f>>]
             /\ Goto(p, "execute")
  /\ UNCHANGED <<stage, applied, listed, dir, tables, pending, recorded, times>>

\* The loop is over: a server goes on with the user's files, unless no directory
\* is configured or it does not exist.
Finish(p) ==
  /\ pc[p] = "check" /\ todo[p] = {}
  /\ \/ stage[p] = "system" /\ stage' = [stage EXCEPT ![p] = "user"] /\ Goto(p, "bootstrap")
     \/ Goto(p, "ok") /\ UNCHANGED stage
  /\ UNCHANGED <<todo, cur, applied, listed, dir, tables, pending, recorded, times>>

\* Mutated Execute: the script runs on the pool, not in the transaction.
ExecuteOnPool(p) ==
  /\ pc[p] = "execute"
  /\ times' = [times EXCEPT ![cur[p]] = @ + 1]
  /\ Goto(p, "record")
  /\ UNCHANGED <<procVars, dir, tables, pending, recorded>>

\* Begin, and the script.
Execute(p) ==
  /\ pc[p] = "execute"
  /\ pending' = [pending EXCEPT ![p] = {"effect"}]
  /\ Goto(p, "record")
  /\ UNCHANGED <<procVars, dir, tables, recorded, times>>

\* The process is over without success, and with it what it had in mind.
Abort(p) ==
  /\ Goto(p, "failed")
  /\ pending' = [pending EXCEPT ![p] = {}]
  /\ todo' = [todo EXCEPT ![p] = {}]
  /\ cur' = [cur EXCEPT ![p] = None]
  /\ UNCHANGED <<stage, applied, listed>>

\* Mutated Record: a table without UNIQUE.
RecordTwice(p) ==
  /\ pc[p] = "record"
  /\ pending' = [pending EXCEPT ![p] = @ \cup {"record"}]
  /\ Goto(p, "commit")
  /\ UNCHANGED <<procVars, dir, tables, recorded, times>>

\* INSERT of the name, which is unique: it waits for another transaction that
\* has inserted it, and fails if that one, or an earlier one, has committed.
Record(p) ==
  /\ pc[p] = "record"
  /\ \A q \in Procs : q # p /\ cur[q] = cur[p] => "record" \notin pending[q]
  /\ \/ /\ cur[p] \notin recorded
        /\ pending' = [pending EXCEPT ![p] = @ \cup {"record"}]
        /\ Goto(p, "commit")
        /\ UNCHANGED procVars
     \/ cur[p] \in recorded /\ Abort(p)
  /\ UNCHANGED <<dir, tables, recorded, times>>

CommitTx(p) ==
  /\ times' = IF "effect" \in pending[p] THEN [times EXCEPT ![cur[p]] = @ + 1] ELSE times
  /\ recorded' = IF "record" \in pending[p] THEN recorded \cup {cur[p]} ELSE recorded

Commit(p) ==
  /\ pc[p] = "commit"
  /\ CommitTx(p)
  /\ pending' = [pending EXCEPT ![p] = {}]
  /\ applied' = [applied EXCEPT ![p] = @ \cup {cur[p]}]
  /\ cur' = [cur EXCEPT ![p] = None]
  /\ Goto(p, "check")
  /\ UNCHANGED <<stage, todo, listed, dir, tables>>

\* The transaction commits, but the process learns of a lost connection, or of
\* nothing any more.
CommitUnheard(p) ==
  /\ pc[p] = "commit"
  /\ CommitTx(p)
  /\ Abort(p)
  /\ UNCHANGED <<dir, tables>>

\* Mutated Fail: a migration that fails is logged and left out.
FailContinues(p) ==
  /\ pc[p] \in Busy
  /\ IF cur[p] # None
     THEN /\ Goto(p, "check")
          /\ pending' = [pending EXCEPT ![p] = {}]
          /\ cur' = [cur EXCEPT ![p] = None]
          /\ UNCHANGED <<stage, todo, applied, listed>>
     ELSE Abort(p)
  /\ UNCHANGED <<dir, tables, recorded, times>>

\* Any statement fails, COMMIT included, and the process ends with the error; or
\* it dies.  Its transaction is rolled back, by the deferred Rollback or by the
\* database.
Fail(p) ==
  /\ pc[p] \in Busy
  /\ Abort(p)
  /\ UNCHANGED <<dir, tables, recorded, times>>

-----------------------------------------------------------------------------
Run(p) ==
  \/ Bootstrap(p) \/ List(p) \/ Check(p) \/ Finish(p)
  \/ Execute(p) \/ Record(p) \/ Commit(p) \/ CommitUnheard(p)
  \/ Fail(p)

AllEnded == (\A p \in Procs : pc[p] \notin Busy \cup {"idle"}) /\ UNCHANGED vars

Next == CreateFile \/ AllEnded \/ \E p \in Procs : Start(p) \/ Run(p)

Spec == Init /\ [][Next]_vars

-----------------------------------------------------------------------------
(***************************************************************************)
(* Properties.                                                             *)
(***************************************************************************)
\* However many processes migrate one database and wherever they fail or die, a
\* script has taken effect exactly once if it is recorded and not at all
\* otherwise, and no two processes count it as theirs.
OnceWithRecord ==
  /\ \A i \in Items : times[i] = IF i \in recorded THEN 1 ELSE 0
  /\ \A p \in Procs : applied[p] \subseteq recorded
  /\ \A p, q \in Procs : p # q => applied[p] \cap applied[q] = {}

\* A process that reports success leaves none of the migrations it knows of
\* unapplied, those that others applied meanwhile included.
SuccessMeansApplied ==
  \A p \in Procs : pc[p] = "ok" => listed[p] \subseteq recorded

\* Embedded migrations come before the user's, and otherwise names decide.
Before(i, j) ==
  \/ i[1] = "system" /\ j[1] = "user"
  \/ i[1] = j[1] /\ i[2] < j[2]

\* A migration is applied only after all that come before it in the list of the
\* process that applies it (runner.go:45, user_runner.go:44: "in order"),
\* whoever applied those.
AppliedInOrder ==
  [][\A i \in recorded' \ recorded :
       \E p \in Procs :
         /\ pc[p] = "commit" /\ cur[p] = i
         /\ \A j \in listed[p] : Before(j, i) => j \in recorded]_vars

=============================================================================
