--------------------------- MODULE MigrationsProofs ---------------------------
(***************************************************************************)
(* Proofs about Migrations, for any number of processes and migrations:    *)
(* each script takes effect exactly once, with its record, in order, a     *)
(* process that reports success has left nothing out, and processes that   *)
(* are at the same migration do not deadlock over its record.              *)
(***************************************************************************)
EXTENDS Migrations, TLAPS

Applying == {"execute", "record", "commit"}

\* What a transaction has done follows from where its process is, and the one
\* that is about to commit a record is the only one with that record.
Transactions ==
  /\ \A p \in Procs : pc[p] \in Applying <=> cur[p] # None
  /\ \A p \in Procs : pc[p] = "record" => pending[p] = {"effect"}
  /\ \A p \in Procs : pc[p] = "commit" => pending[p] = {"effect", "record"}
  /\ \A p \in Procs : pc[p] \notin InTx => pending[p] = {}
  /\ \A p \in Procs : pc[p] = "commit" => cur[p] \notin recorded
  /\ \A p, q \in Procs : p # q /\ pc[p] = "commit" /\ pc[q] = "commit" => cur[p] # cur[q]

\* Of what a process has listed, all is recorded but what its loop has still to
\* come to, which is after the migration it is at.
Progress ==
  \A p \in Procs :
    /\ pc[p] \in {"idle", "bootstrap", "list", "ok"} => listed[p] \subseteq recorded
    /\ pc[p] = "idle" => stage[p] = "system" /\ listed[p] = {} /\ todo[p] = {}
    /\ pc[p] \in {"check"} \cup Applying =>
         \A j \in listed[p] : j \in recorded \/ j = cur[p] \/ (j[1] = stage[p] /\ j[2] \in todo[p])
    /\ pc[p] \in Applying =>
         cur[p][1] = stage[p] /\ \A g \in todo[p] : cur[p][2] < g
    /\ stage[p] = "system" => \A j \in listed[p] : j[1] = "system"

IInv == TypeOK /\ Transactions /\ OnceWithRecord /\ Progress

-----------------------------------------------------------------------------
LEMMA InitInv == Init => IInv
  <1> SUFFICES ASSUME Init PROVE IInv
    OBVIOUS
  <1>1. TypeOK
    BY DEF Init, TypeOK, Stages, Busy, InTx
  <1>2. Transactions /\ OnceWithRecord /\ Progress
    BY DEF Init, Transactions, OnceWithRecord, Progress, Applying
  <1>3. QED
    BY <1>1, <1>2 DEF IInv

\* Every step keeps the types.
LEMMA TypesNext == IInv /\ [Next]_vars => TypeOK'
  <1> SUFFICES ASSUME IInv, [Next]_vars PROVE TypeOK'
    OBVIOUS
  <1> USE MigrationsAssumption DEF IInv, TypeOK, Busy, InTx, Stages
  <1>1. CASE CreateFile
    BY <1>1 DEF CreateFile, procVars
  <1>2. ASSUME NEW p \in Procs, Start(p) PROVE TypeOK'
    <2>1. todo[p] = {}
      BY <1>2 DEF Start, Progress
    <2>2. \A q \in Procs : {stage'[q]} \X todo'[q] \subseteq Items
      BY <1>2, <2>1 DEF Start
    <2>3. QED
      BY <1>2, <2>2 DEF Start, Goto
  <1>3. ASSUME NEW p \in Procs, Bootstrap(p) PROVE TypeOK'
    BY <1>3 DEF Bootstrap, Goto, procVars
  <1>4. ASSUME NEW p \in Procs, List(p) PROVE TypeOK'
    <2>1. PICK files : /\ files \in IF stage[p] = "system"
                                     THEN {1..v : v \in 1..System} ELSE {dir}
                       /\ todo' = [todo EXCEPT ![p] = files]
                       /\ listed' = [listed EXCEPT ![p] = @ \cup ({stage[p]} \X files)]
      BY <1>4 DEF List
    <2>2. files \subseteq Nat /\ {stage[p]} \X files \subseteq Items
      <3>1. CASE stage[p] = "system"
        BY <2>1, <3>1 DEF Items
      <3>2. CASE stage[p] = "user"
        <4>1. files = dir
          BY <2>1, <3>2
        <4>2. QED
          <5>1. files \subseteq 1..User
            BY <4>1
          <5>2. 1..User \subseteq Nat
            OBVIOUS
          <5>3. QED
            BY <3>2, <5>1, <5>2 DEF Items
      <3>3. QED
        BY <3>1, <3>2
    <2>3. todo' \in [Procs -> SUBSET Nat] /\ listed' \in [Procs -> SUBSET Items]
      BY <2>1, <2>2
    <2>4. \A q \in Procs : {stage'[q]} \X todo'[q] \subseteq Items
      BY <1>4, <2>1, <2>2 DEF List
    <2>5. QED
      BY <1>4, <2>3, <2>4 DEF List, Goto
  <1>5. ASSUME NEW p \in Procs, Check(p) PROVE TypeOK'
    BY <1>5 DEF Check, Goto
  <1>6. ASSUME NEW p \in Procs, Finish(p) PROVE TypeOK'
    BY <1>6 DEF Finish, Goto
  <1>7. ASSUME NEW p \in Procs, Execute(p) PROVE TypeOK'
    BY <1>7 DEF Execute, Goto, procVars
  <1>8. ASSUME NEW p \in Procs, Record(p) PROVE TypeOK'
    BY <1>8 DEF Record, Abort, Goto, procVars
  <1>9. ASSUME NEW p \in Procs, Commit(p) PROVE TypeOK'
    BY <1>9 DEF Commit, CommitTx, Goto
  <1>10. ASSUME NEW p \in Procs, CommitUnheard(p) PROVE TypeOK'
    BY <1>10 DEF CommitUnheard, CommitTx, Abort, Goto
  <1>11. ASSUME NEW p \in Procs, Fail(p) PROVE TypeOK'
    BY <1>11 DEF Fail, Abort, Goto
  <1>12. CASE UNCHANGED vars
    BY <1>12 DEF vars, procVars
  <1>13. QED
    BY <1>1, <1>2, <1>3, <1>4, <1>5, <1>6, <1>7, <1>8, <1>9, <1>10, <1>11, <1>12
    DEF Next, Run, AllEnded

\* An ended process has no transaction any more, and the others' are as they were:
\* what they are about to record is still not recorded.
LEMMA Aborted ==
  ASSUME IInv, NEW p \in Procs, Abort(p),
         recorded' = recorded \/ (pc[p] = "commit" /\ recorded' = recorded \cup {cur[p]})
  PROVE  Transactions'
  <1> USE DEF IInv, TypeOK, Busy, InTx, Applying, Transactions
  <1>1. /\ pc' = [pc EXCEPT ![p] = "failed"]
        /\ pending' = [pending EXCEPT ![p] = {}]
        /\ cur' = [cur EXCEPT ![p] = None]
    BY DEF Abort, Goto
  <1>2. \A q \in Procs : q # p => pc'[q] = pc[q] /\ pending'[q] = pending[q] /\ cur'[q] = cur[q]
    BY <1>1
  <1>3. pc'[p] = "failed" /\ pending'[p] = {} /\ cur'[p] = None
    BY <1>1
  <1>4. \A q \in Procs : pc'[q] = "commit" => cur'[q] \notin recorded'
    BY <1>2, <1>3
  <1>5. QED
    BY <1>2, <1>3, <1>4

\* A record is committed by one transaction, together with its script.
LEMMA OnceNext == IInv /\ [Next]_vars => Transactions' /\ OnceWithRecord'
  <1> SUFFICES ASSUME IInv, [Next]_vars PROVE Transactions' /\ OnceWithRecord'
    OBVIOUS
  <1> USE MigrationsAssumption
      DEF IInv, TypeOK, Busy, InTx, Stages, Transactions, OnceWithRecord, Applying
  <1>1. CASE CreateFile
    BY <1>1 DEF CreateFile, procVars
  <1>2. ASSUME NEW p \in Procs, Start(p) PROVE Transactions' /\ OnceWithRecord'
    BY <1>2 DEF Start, Goto
  <1>3. ASSUME NEW p \in Procs, Bootstrap(p) PROVE Transactions' /\ OnceWithRecord'
    BY <1>3 DEF Bootstrap, Goto, procVars
  <1>4. ASSUME NEW p \in Procs, List(p) PROVE Transactions' /\ OnceWithRecord'
    BY <1>4 DEF List, Goto
  <1>5. ASSUME NEW p \in Procs, Check(p) PROVE Transactions' /\ OnceWithRecord'
    <2>1. OnceWithRecord'
      BY <1>5 DEF Check
    <2>2. pc[p] = "check" /\ cur[p] = None /\ UNCHANGED <<pending, recorded>>
      BY <1>5 DEF Check
    <2>3. CASE UNCHANGED <<pc, cur>>
      BY <2>1, <2>2, <2>3
    <2>4. CASE pc' # pc \/ cur' # cur
      <3>1. PICK i \in Items : cur' = [cur EXCEPT ![p] = i] /\ pc' = [pc EXCEPT ![p] = "execute"]
        BY <1>5, <2>4 DEF Check, Goto
      <3>2. \A q \in Procs : q # p => pc'[q] = pc[q] /\ cur'[q] = cur[q]
        BY <3>1
      <3>3. pc'[p] = "execute" /\ cur'[p] # None
        BY <3>1
      <3>4. QED
        BY <2>1, <2>2, <3>2, <3>3
    <2>5. QED
      BY <2>1, <2>3, <2>4
  <1>6. ASSUME NEW p \in Procs, Finish(p) PROVE Transactions' /\ OnceWithRecord'
    BY <1>6 DEF Finish, Goto
  <1>7. ASSUME NEW p \in Procs, Execute(p) PROVE Transactions' /\ OnceWithRecord'
    <2>1. pc' = [pc EXCEPT ![p] = "record"] /\ pending' = [pending EXCEPT ![p] = {"effect"}]
      BY <1>7 DEF Execute, Goto
    <2>2. Transactions'
      BY <1>7, <2>1 DEF Execute, procVars
    <2>3. OnceWithRecord'
      BY <1>7 DEF Execute, procVars
    <2>4. QED
      BY <2>2, <2>3
  <1>8. ASSUME NEW p \in Procs, Record(p) PROVE Transactions' /\ OnceWithRecord'
    <2>1. CASE cur[p] \in recorded /\ Abort(p)
      <3>1. Transactions'
        BY <1>8, <2>1, Aborted DEF Record
      <3>2. OnceWithRecord'
        BY <1>8, <2>1 DEF Record, Abort
      <3>3. QED
        BY <3>1, <3>2
    <2>2. CASE /\ cur[p] \notin recorded
               /\ pending' = [pending EXCEPT ![p] = @ \cup {"record"}]
               /\ Goto(p, "commit")
               /\ UNCHANGED procVars
      <3>1. /\ pc' = [pc EXCEPT ![p] = "commit"]
            /\ pending' = [pending EXCEPT ![p] = {"effect", "record"}]
        <4>1. pending[p] = {"effect"}
          BY <1>8 DEF Record
        <4>2. {"effect"} \cup {"record"} = {"effect", "record"}
          OBVIOUS
        <4>3. QED
          BY <2>2, <4>1, <4>2 DEF Goto
      <3>2. \A q \in Procs : q # p /\ pc[q] = "commit" => cur[q] # cur[p]
        BY <1>8 DEF Record
      <3>3. Transactions'
        BY <1>8, <2>2, <3>1, <3>2 DEF Record, procVars
      <3>4. OnceWithRecord'
        BY <1>8, <2>2 DEF Record, procVars
      <3>5. QED
        BY <3>3, <3>4
    <2>3. QED
      BY <1>8, <2>1, <2>2 DEF Record
  <1>9. ASSUME NEW p \in Procs, Commit(p) PROVE Transactions' /\ OnceWithRecord'
    <2>1. cur[p] \in Items /\ cur[p] \notin recorded /\ times[cur[p]] = 0
          /\ "effect" \in pending[p] /\ "record" \in pending[p]
      BY <1>9 DEF Commit
    <2>2. times' = [times EXCEPT ![cur[p]] = 1] /\ recorded' = recorded \cup {cur[p]}
      BY <1>9, <2>1 DEF Commit, CommitTx
    <2>3. OnceWithRecord'
      BY <1>9, <2>1, <2>2 DEF Commit
    <2>4. /\ pc' = [pc EXCEPT ![p] = "check"]
          /\ pending' = [pending EXCEPT ![p] = {}]
          /\ cur' = [cur EXCEPT ![p] = None]
      BY <1>9 DEF Commit, Goto
    <2>5. Transactions'
      BY <1>9, <2>1, <2>2, <2>4 DEF Commit
    <2>6. QED
      BY <2>3, <2>5
  <1>10. ASSUME NEW p \in Procs, CommitUnheard(p) PROVE Transactions' /\ OnceWithRecord'
    <2>1. cur[p] \in Items /\ cur[p] \notin recorded /\ times[cur[p]] = 0
          /\ "effect" \in pending[p] /\ "record" \in pending[p]
      BY <1>10 DEF CommitUnheard
    <2>2. times' = [times EXCEPT ![cur[p]] = 1] /\ recorded' = recorded \cup {cur[p]}
      BY <1>10, <2>1 DEF CommitUnheard, CommitTx
    <2>3. OnceWithRecord'
      BY <1>10, <2>1, <2>2 DEF CommitUnheard, Abort
    <2>4. Transactions'
      BY <1>10, <2>1, <2>2, Aborted DEF CommitUnheard
    <2>5. QED
      BY <2>3, <2>4
  <1>11. ASSUME NEW p \in Procs, Fail(p) PROVE Transactions' /\ OnceWithRecord'
    <2>1. Transactions'
      BY <1>11, Aborted DEF Fail
    <2>2. OnceWithRecord'
      BY <1>11 DEF Fail, Abort
    <2>3. QED
      BY <2>1, <2>2
  <1>12. CASE UNCHANGED vars
    BY <1>12 DEF vars, procVars
  <1>13. QED
    BY <1>1, <1>2, <1>3, <1>4, <1>5, <1>6, <1>7, <1>8, <1>9, <1>10, <1>11, <1>12
    DEF Next, Run, AllEnded

\* Records are never deleted, and a process moves past what is recorded only.
LEMMA ProgressNext == IInv /\ [Next]_vars => Progress'
  <1> SUFFICES ASSUME IInv, [Next]_vars PROVE Progress'
    OBVIOUS
  <1> USE MigrationsAssumption
      DEF IInv, TypeOK, Busy, InTx, Stages, Transactions, Applying, Progress
  <1>1. CASE CreateFile
    BY <1>1 DEF CreateFile, procVars
  <1>2. ASSUME NEW p \in Procs, Start(p) PROVE Progress'
    BY <1>2 DEF Start, Goto
  <1>3. ASSUME NEW p \in Procs, Bootstrap(p) PROVE Progress'
    BY <1>3 DEF Bootstrap, Goto, procVars
  <1>4. ASSUME NEW p \in Procs, List(p) PROVE Progress'
    <2>1. PICK files : /\ todo' = [todo EXCEPT ![p] = files]
                       /\ listed' = [listed EXCEPT ![p] = @ \cup ({stage[p]} \X files)]
      BY <1>4 DEF List
    <2>2. pc' = [pc EXCEPT ![p] = "check"] /\ UNCHANGED <<stage, cur, recorded>>
      BY <1>4 DEF List, Goto
    <2>3. \A q \in Procs : q # p => pc'[q] = pc[q] /\ todo'[q] = todo[q] /\ listed'[q] = listed[q]
      BY <2>1, <2>2
    <2>4. pc'[p] = "check" /\ todo'[p] = files /\ listed'[p] = listed[p] \cup ({stage[p]} \X files)
      BY <2>1, <2>2
    <2>5. listed[p] \subseteq recorded
      BY <1>4 DEF List
    <2>6. \A j \in listed'[p] : j \in recorded \/ (j[1] = stage[p] /\ j[2] \in todo'[p])
      <3>1. \A j \in {stage[p]} \X files : j[1] = stage[p] /\ j[2] \in files
        OBVIOUS
      <3>2. \A j \in listed'[p] : j \in listed[p] \/ j \in {stage[p]} \X files
        BY <2>4
      <3>3. QED
        BY <2>4, <2>5, <3>1, <3>2
    <2>7. stage[p] = "system" => \A j \in listed'[p] : j[1] = "system"
      BY <2>4
    <2>8. QED
      BY <2>2, <2>3, <2>4, <2>6, <2>7
  <1>5. ASSUME NEW p \in Procs, Check(p) PROVE Progress'
    <2>1. PICK f \in todo[p] :
            /\ \A g \in todo[p] : f <= g
            /\ todo' = [todo EXCEPT ![p] = @ \ {f}]
            /\ \/ <<stage[p], f>> \in recorded /\ UNCHANGED <<pc, cur>>
               \/ /\ <<stage[p], f>> \notin recorded
                  /\ cur' = [cur EXCEPT ![p] = <<stage[p], f>>]
                  /\ Goto(p, "execute")
      BY <1>5 DEF Check
    <2>2. pc[p] = "check" /\ cur[p] = None /\ UNCHANGED <<stage, listed, recorded>>
      BY <1>5 DEF Check
    <2>3. \A q \in Procs : q # p => pc'[q] = pc[q] /\ todo'[q] = todo[q] /\ cur'[q] = cur[q]
      BY <2>1 DEF Goto
    <2>4. todo'[p] = todo[p] \ {f} /\ todo[p] \subseteq Nat
      BY <2>1
    <2>5. \A j \in listed[p] : j \in Items /\ j # None /\ j = <<j[1], j[2]>>
      BY DEF Items
    <2>6. \A j \in listed[p] :
            j \in recorded \/ j = <<stage[p], f>> \/ (j[1] = stage[p] /\ j[2] \in todo'[p])
      <3> SUFFICES ASSUME NEW j \in listed[p], j \notin recorded, j # <<stage[p], f>>
                   PROVE  j[1] = stage[p] /\ j[2] \in todo'[p]
        OBVIOUS
      <3>1. j[1] = stage[p] /\ j[2] \in todo[p]
        BY <2>2, <2>5
      <3>2. j[2] # f
        BY <2>5, <3>1
      <3>3. QED
        BY <2>4, <3>1, <3>2
    <2>7. CASE <<stage[p], f>> \in recorded /\ UNCHANGED <<pc, cur>>
      BY <2>2, <2>3, <2>4, <2>6, <2>7
    <2>8. CASE cur' = [cur EXCEPT ![p] = <<stage[p], f>>] /\ Goto(p, "execute")
      <3>1. pc'[p] = "execute" /\ cur'[p] = <<stage[p], f>>
        BY <2>8 DEF Goto
      <3>2. \A g \in todo'[p] : f < g
        BY <2>1, <2>4
      <3>3. QED
        BY <2>2, <2>3, <2>6, <3>1, <3>2
    <2>9. QED
      BY <2>1, <2>7, <2>8
  <1>6. ASSUME NEW p \in Procs, Finish(p) PROVE Progress'
    BY <1>6 DEF Finish, Goto
  <1>7. ASSUME NEW p \in Procs, Execute(p) PROVE Progress'
    BY <1>7 DEF Execute, Goto, procVars
  <1>8. ASSUME NEW p \in Procs, Record(p) PROVE Progress'
    BY <1>8 DEF Record, Abort, Goto, procVars
  <1>9. ASSUME NEW p \in Procs, Commit(p) PROVE Progress'
    <2>1. recorded' = recorded \cup {cur[p]}
      BY <1>9 DEF Commit, CommitTx
    <2>2. QED
      BY <1>9, <2>1 DEF Commit, Goto
  <1>10. ASSUME NEW p \in Procs, CommitUnheard(p) PROVE Progress'
    <2>1. recorded' = recorded \cup {cur[p]}
      BY <1>10 DEF CommitUnheard, CommitTx
    <2>2. QED
      BY <1>10, <2>1 DEF CommitUnheard, Abort, Goto
  <1>11. ASSUME NEW p \in Procs, Fail(p) PROVE Progress'
    BY <1>11 DEF Fail, Abort, Goto
  <1>12. CASE UNCHANGED vars
    BY <1>12 DEF vars, procVars
  <1>13. QED
    BY <1>1, <1>2, <1>3, <1>4, <1>5, <1>6, <1>7, <1>8, <1>9, <1>10, <1>11, <1>12
    DEF Next, Run, AllEnded

\* The inductive invariant.
THEOREM MigrationsInvariant == Spec => []IInv
  <1>1. IInv /\ [Next]_vars => IInv'
    BY TypesNext, OnceNext, ProgressNext DEF IInv
  <1>2. QED
    BY InitInv, <1>1, PTL DEF Spec

-----------------------------------------------------------------------------
\* Whatever processes race, fail and die, a migration has taken effect exactly
\* once if it is recorded, and not at all otherwise (Run, Up: one transaction
\* for script and record, names unique).
THEOREM EachAppliedOnce == Spec => []OnceWithRecord
  <1>1. IInv => OnceWithRecord
    BY DEF IInv
  <1>2. QED
    BY MigrationsInvariant, <1>1, PTL

\* Success means that everything listed is recorded (the loop of Run and Up).
THEOREM SuccessIsComplete == Spec => []SuccessMeansApplied
  <1>1. IInv => SuccessMeansApplied
    BY DEF IInv, Progress, SuccessMeansApplied
  <1>2. QED
    BY MigrationsInvariant, <1>1, PTL

\* Type correctness.
THEOREM MigrationsTypes == Spec => []TypeOK
  <1>1. IInv => TypeOK
    BY DEF IInv
  <1>2. QED
    BY MigrationsInvariant, <1>1, PTL

\* A migration is committed by a process that finds all earlier ones of its list
\* recorded (Run, Up: in order of their names).
THEOREM OrderIsKept == Spec => AppliedInOrder
  <1> DEFINE InOrder ==
        \A i \in recorded' \ recorded :
          \E p \in Procs : /\ pc[p] = "commit" /\ cur[p] = i
                           /\ \A j \in listed[p] : Before(j, i) => j \in recorded
  <1>1. IInv /\ [Next]_vars => InOrder
    <2> SUFFICES ASSUME IInv, [Next]_vars, NEW i \in recorded', i \notin recorded
                 PROVE  \E p \in Procs : /\ pc[p] = "commit" /\ cur[p] = i
                          /\ \A j \in listed[p] : Before(j, i) => j \in recorded
      OBVIOUS
    <2>1. PICK p \in Procs : pc[p] = "commit" /\ cur[p] = i
      BY DEF Next, Run, AllEnded, CreateFile, Start, Bootstrap, List, Check, Finish, Execute,
             Record, Commit, CommitUnheard, CommitTx, Fail, vars
    <2>2. ASSUME NEW j \in listed[p], Before(j, i) PROVE j \in recorded
      <3>1. j \in Items /\ i \in Items /\ i[1] = stage[p] /\ \A g \in todo[p] : i[2] < g
        BY <2>1 DEF IInv, TypeOK, Progress, Applying, InTx
      <3>2. j # i /\ ~(j[1] = stage[p] /\ j[2] \in todo[p])
        BY <2>2, <3>1, MigrationsAssumption DEF Before, Items
      <3>3. QED
        BY <2>1, <3>2 DEF IInv, Progress, Applying
    <2>3. QED
      BY <2>1, <2>2
  <1>2. QED
    BY MigrationsInvariant, <1>1, PTL DEF Spec, AppliedInOrder
-----------------------------------------------------------------------------
(***************************************************************************)
(* Two processes at the same migration: the INSERT of one waits for the    *)
(* transaction of the other.                                               *)
(***************************************************************************)
\* The transaction of p waits for that of q at the unique name.
WaitsFor(p, q) ==
  pc[p] = "record" /\ q # p /\ cur[q] = cur[p] /\ "record" \in pending[q]

\* Waits are short: one waits for one other only, whose next statement is COMMIT,
\* and which waits for nobody.
WaitsAreShort ==
  \A p, q \in Procs : WaitsFor(p, q) =>
    /\ pc[q] = "commit"
    /\ \A r \in Procs : WaitsFor(p, r) => r = q
    /\ \A r \in Procs : ~WaitsFor(q, r)

\* Processes that migrate one database never wait for each other's records in a
\* circle or in a chain, in whatever order they come to the same migrations: the
\* transaction of Run and Up records one name, and what others wait for is its COMMIT.
THEOREM MigratorsNeverDeadlock == Spec => []WaitsAreShort
  <1>1. IInv => WaitsAreShort
    <2> SUFFICES ASSUME IInv, NEW p \in Procs, NEW q \in Procs, WaitsFor(p, q)
                 PROVE  /\ pc[q] = "commit"
                        /\ \A r \in Procs : WaitsFor(p, r) => r = q
                        /\ \A r \in Procs : ~WaitsFor(q, r)
      BY DEF WaitsAreShort
    <2>1. \A r \in Procs : "record" \in pending[r] => pc[r] = "commit"
      BY DEF IInv, Transactions, InTx
    <2>2. pc[q] = "commit" /\ cur[q] = cur[p]
      BY <2>1 DEF WaitsFor
    <2>3. ASSUME NEW r \in Procs, WaitsFor(p, r) PROVE r = q
      BY <2>1, <2>2, <2>3 DEF IInv, Transactions, WaitsFor
    <2>4. QED
      BY <2>2, <2>3 DEF WaitsFor
  <1>2. QED
    BY MigrationsInvariant, <1>1, PTL
=============================================================================
