--------------------------- MODULE RecordsAPIProofs ---------------------------
(***************************************************************************)
(* Proofs about RecordsAPI, for any number of requests, connections and    *)
(* rows: a finished handler leaves the pool clean, no statement runs under *)
(* another caller's identity, an error answer to a caller with claims      *)
(* means that nothing was written, each change that was answered with      *)
(* success is announced once, which acknowledged writes are lost, and that *)
(* handlers go on.  And about what an answer holds: the rows of its page   *)
(* (Pages), the rows attached to its records (Joins, Expansion), which     *)
(* foreign key a name to expand stands for (ForeignKeys), which filters    *)
(* are taken (FilterParser) and what their WHERE clauses mean (FilterSQL). *)
(***************************************************************************)
EXTENDS RecordsAPI, Pages, Expansion, FilterSQL, FiniteSetTheorems, WellFoundedInduction, TLAPS

\* Which connections a request holds at each stage of its handler.
Stages ==
  \A r \in Requests :
    /\ pc[r] \in {"idle", "acquire"} => conn[r] = NoConn
    /\ pc[r] = "end" => conn[r] = NoConn \/ (r \in panicked /\ op[r].claims)
    /\ pc[r] \in {"setrls", "exec", "scan"} => conn[r] \in Conns
    /\ op[r].claims /\ pc[r] \in {"expand", "finish"} => conn[r] \in Conns
    /\ op[r].claims /\ pc[r] \in {"write", "publish", "cleanup"} => conn[r] = NoConn
    /\ pc[r] = "setrls" => op[r].claims
    /\ pc[r] = "fetch" => extra[r] \in Conns /\ ~op[r].claims
    /\ pc[r] # "fetch" => extra[r] = NoConn
    /\ pc[r] = "idle" => ranAs[r] = {} /\ status[r] = "none" /\ r \notin committed
    /\ r \in panicked => pc[r] = "end"

\* A connection has one borrower, in one role.
Exclusive ==
  /\ \A r, s \in Requests : r # s =>
       /\ conn[r] \in Conns => conn[r] # conn[s]
       /\ extra[r] \in Conns => extra[r] # extra[s]
  /\ \A r, s \in Requests : conn[r] \in Conns => conn[r] # extra[s]

\* Connections in the pool, and those borrowed by fetchRelated, are clean.
CleanPool ==
  \A c \in Conns :
    Free(c) \/ (\E r \in Requests : extra[r] = c) =>
      c \notin inTx /\ c \notin busy /\ ident[c] = NoReq

\* The identity a borrowed connection runs under.
Identity ==
  \A r \in Requests : conn[r] \in Conns =>
    ident[conn[r]] = IF op[r].claims /\ pc[r] # "setrls" THEN r ELSE NoReq

\* Only a request whose transaction is open, or is still to be committed, keeps a
\* row locked.
Locks ==
  \A k \in Rows, r \in Requests :
    writer[k] = r =>
      \/ r \in pending
      \/ op[r].claims /\ op[r].kind \in Writes /\ pc[r] \in {"scan", "finish"}

\* Who expands, who keeps a connection for rows.Close, and when a COMMIT can be due.
Shape ==
  \A r \in Requests :
    /\ pc[r] \notin {"idle", "end"} /\ op[r].expand => op[r].kind \in Expandable
    /\ pc[r] = "expand" => op[r].expand
    /\ ~op[r].claims /\ conn[r] \in Conns
       /\ pc[r] \in {"expand", "fetch", "finish", "write", "publish", "cleanup"}
         => op[r].kind \in OneRow
    /\ r \in pending =>
         /\ ~op[r].claims /\ op[r].kind \in Writes
         /\ pc[r] \in {"scan", "finish", "write", "publish", "cleanup", "end"}
    /\ r \in pending /\ op[r].kind \notin OneRow => pc[r] \in {"scan", "end"} /\ status[r] # "ok"

\* With claims nothing is committed before the answer, and an error is the
\* last thing a handler says.
Traces ==
  \A r \in Requests :
    /\ op[r].claims /\ r \in committed => status[r] \in {"ok", "notfound"}
    /\ status[r] # "none" <=> pc[r] \in {"write", "publish", "cleanup", "end"}

IInv ==
  /\ TypeOK /\ Stages /\ Exclusive /\ CleanPool /\ Identity /\ Locks /\ Shape /\ Traces
  /\ RunsAsCaller

-----------------------------------------------------------------------------
LEMMA InitInv == Init => IInv
  <1> SUFFICES ASSUME Init PROVE IInv
    OBVIOUS
  <1>1. \A r \in Requests : op[r] \in Op
    <2>1. PICK k \in Kinds, w \in Rows : TRUE
      BY RecordsAssumption
    <2>2. [kind |-> k, claims |-> TRUE, expand |-> TRUE, row |-> w] \in Op
      BY DEF Op
    <2>3. (CHOOSE o \in Op : TRUE) \in Op
      BY <2>2
    <2>4. QED
      BY <2>3 DEF Init
  <1>2. TypeOK
    BY <1>1 DEF Init, TypeOK, PCs
  <1>3. Stages /\ Exclusive /\ CleanPool /\ Identity /\ Locks /\ Shape /\ Traces /\ RunsAsCaller
    BY RecordsAssumption DEF Init, Stages, Exclusive, CleanPool, Identity, Locks, Shape, Traces,
       RunsAsCaller
  <1>4. QED
    BY <1>2, <1>3 DEF IInv

\* A statement returns a row, no row, or an error.
LEMMA OutcomesType ==
  ASSUME NEW r \in Requests
  PROVE Outcomes(r) \subseteq {"none", "row", "error"}
  BY DEF Outcomes

\* The pieces handlers share keep the types of the variables they change.
LEMMA ReleaseType ==
  ASSUME TypeOK, NEW r \in Requests, Release(r)
  PROVE  /\ conn' \in [Requests -> Conns \cup {NoConn}]
         /\ inTx' \subseteq Conns /\ busy' \subseteq Conns
         /\ ident' \in [Conns -> Requests \cup {NoReq}]
         /\ writer' \in [Rows -> Requests \cup {NoReq}]
  BY DEF TypeOK, Release

LEMMA ApplyType ==
  ASSUME TypeOK, NEW r \in Requests, Apply(r)
  PROVE  present' \subseteq Rows /\ committed' \subseteq Requests
  <1>1. op[r].row \in Rows
    BY DEF TypeOK, Op
  <1>2. QED
    BY <1>1 DEF TypeOK, Apply

LEMMA RespondType ==
  ASSUME TypeOK, NEW r \in Requests, Respond(r)
  PROVE  /\ pc' \in [Requests -> PCs]
         /\ status' \in [Requests -> {"none", "ok", "notfound", "error"}]
  BY DEF TypeOK, PCs, Respond, AfterAnswer, Answer, Goto

LEMMA ExecuteType ==
  ASSUME TypeOK, Stages, NEW r \in Requests, Execute(r)
  PROVE  TypeOK'
  <1> USE DEF TypeOK, PCs, Goto, connVars, dbVars, tableVars
  <1>1. PICK out \in {"none", "row", "error"} : result' = [result EXCEPT ![r] = out]
    BY OutcomesType DEF Execute
  <1>2. writer' \in [Rows -> Requests \cup {NoReq}]
    BY DEF Execute
  <1>3. present' \subseteq Rows /\ committed' \subseteq Requests
    BY ApplyType DEF Execute
  <1>4. ranAs' \in [Requests -> SUBSET (Requests \cup {NoReq})]
    <2>1. ranAs' = [ranAs EXCEPT ![r] = @ \cup {ident[conn[r]]}] /\ conn[r] \in Conns
      BY DEF Execute, Stages
    <2>2. QED
      BY <2>1
  <1>5. QED
    BY <1>1, <1>2, <1>3, <1>4 DEF Execute

\* Every step keeps the types.
LEMMA TypeNext == TypeOK /\ Stages /\ [Next]_vars => TypeOK'
  <1> SUFFICES ASSUME TypeOK, Stages, [Next]_vars PROVE TypeOK'
    OBVIOUS
  <1> USE DEF PCs, Goto, Answer, connVars, dbVars, tableVars
  <1>1. ASSUME NEW r \in Requests, Arrive(r) \/ TurnAway(r) \/ Disconnect(r)
        PROVE TypeOK'
    <2>1. CASE Arrive(r)
      BY <2>1 DEF TypeOK, Arrive
    <2>2. CASE TurnAway(r)
      BY <2>2 DEF TypeOK, TurnAway
    <2>3. CASE Disconnect(r)
      BY <2>3 DEF TypeOK, Disconnect
    <2>4. QED
      BY <1>1, <2>1, <2>2, <2>3
  <1>2. ASSUME NEW r \in Requests, NEW c \in Conns, Acquire(r, c) \/ ExpandAcquire(r, c)
        PROVE TypeOK'
    <2>1. CASE Acquire(r, c)
      BY <2>1 DEF TypeOK, Acquire
    <2>2. CASE ExpandAcquire(r, c)
      BY <2>2 DEF TypeOK, ExpandAcquire
    <2> QED
      BY <1>2, <2>1, <2>2
  <1>3. ASSUME NEW r \in Requests, SetRLSContext(r)
        PROVE TypeOK'
    BY <1>3 DEF TypeOK, SetRLSContext
  <1>4. ASSUME NEW r \in Requests, Execute(r)
        PROVE TypeOK'
    BY <1>4, ExecuteType
  <1>5. ASSUME NEW r \in Requests, Fail(r)
        PROVE TypeOK'
    BY <1>5, ReleaseType DEF TypeOK, Fail
  <1>6. ASSUME NEW r \in Requests, Scan(r)
        PROVE TypeOK'
    <2>1. conn[r] \in Conns
      BY <1>6 DEF Scan, Stages
    <2>2. /\ conn' \in [Requests -> Conns \cup {NoConn}]
          /\ inTx' \subseteq Conns /\ busy' \subseteq Conns
          /\ ident' \in [Conns -> Requests \cup {NoReq}]
          /\ writer' \in [Rows -> Requests \cup {NoReq}]
      BY <1>6, <2>1, ReleaseType DEF TypeOK, Scan, KeepConn
    <2>3. QED
      BY <1>6, <2>2 DEF TypeOK, Scan
  <1>7. ASSUME NEW r \in Requests, ExpandInTx(r) \/ FetchRelated(r)
        PROVE TypeOK'
    <2>1. CASE ExpandInTx(r)
      <3>1. ranAs' \in [Requests -> SUBSET (Requests \cup {NoReq})]
        BY <2>1 DEF TypeOK, ExpandInTx, Stages
      <3>2. QED
        BY <2>1, <3>1 DEF TypeOK, ExpandInTx
    <2>2. CASE FetchRelated(r)
      <3>1. ranAs' \in [Requests -> SUBSET (Requests \cup {NoReq})]
        BY <2>2 DEF TypeOK, FetchRelated, Stages
      <3>2. QED
        BY <2>2, <3>1 DEF TypeOK, FetchRelated
    <2>3. QED
      BY <1>7, <2>1, <2>2
  <1>8. ASSUME NEW r \in Requests, ExpandCancelled(r)
        PROVE TypeOK'
    BY <1>8 DEF TypeOK, ExpandCancelled
  <1>9. ASSUME NEW r \in Requests, NothingToCommit(r)
        PROVE TypeOK'
    BY <1>9, RespondType DEF TypeOK, NothingToCommit
  <1>10. ASSUME NEW r \in Requests, Commit(r)
         PROVE TypeOK'
    <2>1. present' \subseteq Rows /\ committed' \subseteq Requests
      BY <1>10, ApplyType DEF TypeOK, Commit
    <2>2. QED
      BY <1>10, <2>1, RespondType, ReleaseType DEF TypeOK, Commit
  <1>11. ASSUME NEW r \in Requests, CommitFails(r)
         PROVE TypeOK'
    BY <1>11, RespondType, ReleaseType DEF TypeOK, CommitFails
  <1>12. ASSUME NEW r \in Requests, Publish(r)
         PROVE TypeOK'
    BY <1>12 DEF TypeOK, Publish
  <1>13. ASSUME NEW r \in Requests, Cleanup(r)
         PROVE TypeOK'
    BY <1>13, ReleaseType DEF TypeOK, Cleanup
  <1>14. ASSUME NEW r \in Requests, ExpandPanics(r)
         PROVE TypeOK'
    BY <1>14, ReleaseType DEF TypeOK, ExpandPanics
  <1>15. ASSUME NEW r \in Requests, Deliver(r)
         PROVE TypeOK'
    BY <1>15 DEF TypeOK, Deliver, AfterAnswer
  <1>16. ASSUME NEW r \in Requests, Settle(r)
         PROVE TypeOK'
    BY <1>16, ApplyType DEF TypeOK, Settle
  <1>17. CASE UNCHANGED vars
    BY <1>17 DEF TypeOK, vars, reqVars
  <1>18. QED
    BY <1>1, <1>2, <1>3, <1>4, <1>5, <1>6, <1>7, <1>8, <1>9, <1>10, <1>11, <1>12, <1>13,
       <1>14, <1>15, <1>16, <1>17 DEF Next, Handle, AllServed

\* Every step keeps Stages: each stage holds the connections it should.
LEMMA StagesNext == IInv /\ [Next]_vars => Stages'
  <1> SUFFICES ASSUME IInv, [Next]_vars PROVE Stages'
    OBVIOUS
  <1> USE RecordsAssumption DEF IInv, TypeOK, Stages, PCs, Goto, Answer, reqVars, connVars, dbVars, tableVars
  <1>1. ASSUME NEW r \in Requests, Arrive(r)
        PROVE Stages'
    BY <1>1 DEF Arrive
  <1>2. ASSUME NEW r \in Requests, TurnAway(r)
        PROVE Stages'
    BY <1>2 DEF TurnAway
  <1>3. ASSUME NEW r \in Requests, Disconnect(r)
        PROVE Stages'
    BY <1>3 DEF Disconnect
  <1>4. ASSUME NEW r \in Requests, SetRLSContext(r)
        PROVE Stages'
    BY <1>4 DEF SetRLSContext
  <1>5. ASSUME NEW r \in Requests, Execute(r)
        PROVE Stages'
    BY <1>5 DEF Execute, Apply
  <1>6. ASSUME NEW r \in Requests, Fail(r)
        PROVE Stages'
    BY <1>6 DEF Fail, Release
  <1>7. ASSUME NEW r \in Requests, Scan(r)
        PROVE Stages'
    BY <1>7 DEF Scan, Release, KeepConn
  <1>8. ASSUME NEW r \in Requests, ExpandInTx(r)
        PROVE Stages'
    BY <1>8 DEF ExpandInTx
  <1>9. ASSUME NEW r \in Requests, ExpandCancelled(r)
        PROVE Stages'
    BY <1>9 DEF ExpandCancelled
  <1>10. ASSUME NEW r \in Requests, FetchRelated(r)
        PROVE Stages'
    BY <1>10 DEF FetchRelated
  <1>11. ASSUME NEW r \in Requests, NothingToCommit(r)
        PROVE Stages'
    BY <1>11 DEF NothingToCommit, Respond, AfterAnswer
  <1>12. ASSUME NEW r \in Requests, Commit(r)
        PROVE Stages'
    BY <1>12 DEF Commit, Release, Respond, AfterAnswer, Apply
  <1>13. ASSUME NEW r \in Requests, CommitFails(r)
        PROVE Stages'
    BY <1>13 DEF CommitFails, Release, Respond, AfterAnswer
  <1>14. ASSUME NEW r \in Requests, Publish(r)
        PROVE Stages'
    BY <1>14 DEF Publish
  <1>15. ASSUME NEW r \in Requests, Cleanup(r)
        PROVE Stages'
    BY <1>15 DEF Cleanup, Release
  <1>16. ASSUME NEW r \in Requests, NEW c \in Conns, Acquire(r, c)
        PROVE Stages'
    BY <1>16 DEF Acquire, Free
  <1>17. ASSUME NEW r \in Requests, NEW c \in Conns, ExpandAcquire(r, c)
        PROVE Stages'
    BY <1>17 DEF ExpandAcquire, Free
  <1>18. ASSUME NEW r \in Requests, ExpandPanics(r)
        PROVE Stages'
    BY <1>18 DEF ExpandPanics, Release
  <1>19. ASSUME NEW r \in Requests, Deliver(r)
        PROVE Stages'
    BY <1>19 DEF Deliver, AfterAnswer
  <1>20. ASSUME NEW r \in Requests, Settle(r)
        PROVE Stages'
    BY <1>20 DEF Settle, Apply, Shape
  <1>21. CASE UNCHANGED vars
    BY <1>21 DEF vars, Free
  <1>22. QED
    BY <1>1, <1>2, <1>3, <1>4, <1>5, <1>6, <1>7, <1>8, <1>9,
       <1>10, <1>11, <1>12, <1>13, <1>14, <1>15, <1>16, <1>17, <1>18, <1>19, <1>20, <1>21
    DEF Next, Handle, AllServed

\* Only a connection no request holds is handed out.
LEMMA ExclusiveNext == IInv /\ [Next]_vars => Exclusive'
  <1> SUFFICES ASSUME IInv, [Next]_vars PROVE Exclusive'
    OBVIOUS
  <1> USE RecordsAssumption DEF IInv, TypeOK, Stages, Exclusive, Free, PCs, Goto, Answer, reqVars, connVars, dbVars, tableVars
  <1>1. ASSUME NEW r \in Requests, Arrive(r)
        PROVE Exclusive'
    BY <1>1 DEF Arrive
  <1>2. ASSUME NEW r \in Requests, TurnAway(r)
        PROVE Exclusive'
    BY <1>2 DEF TurnAway
  <1>3. ASSUME NEW r \in Requests, Disconnect(r)
        PROVE Exclusive'
    BY <1>3 DEF Disconnect
  <1>4. ASSUME NEW r \in Requests, SetRLSContext(r)
        PROVE Exclusive'
    BY <1>4 DEF SetRLSContext
  <1>5. ASSUME NEW r \in Requests, Execute(r)
        PROVE Exclusive'
    BY <1>5 DEF Execute
  <1>6. ASSUME NEW r \in Requests, Fail(r)
        PROVE Exclusive'
    BY <1>6 DEF Fail, Release
  <1>7. ASSUME NEW r \in Requests, Scan(r)
        PROVE Exclusive'
    <2>1. extra' = extra
      BY <1>7 DEF Scan
    <2>2. conn' = conn \/ conn' = [conn EXCEPT ![r] = NoConn]
      BY <1>7 DEF Scan, Release, KeepConn
    <2>3. CASE conn' = conn
      BY <2>1, <2>3
    <2>4. CASE conn' = [conn EXCEPT ![r] = NoConn]
      BY <2>1, <2>4
    <2>5. QED
      BY <2>2, <2>3, <2>4
  <1>8. ASSUME NEW r \in Requests, ExpandInTx(r)
        PROVE Exclusive'
    BY <1>8 DEF ExpandInTx
  <1>9. ASSUME NEW r \in Requests, ExpandCancelled(r)
        PROVE Exclusive'
    BY <1>9 DEF ExpandCancelled
  <1>10. ASSUME NEW r \in Requests, FetchRelated(r)
        PROVE Exclusive'
    BY <1>10 DEF FetchRelated
  <1>11. ASSUME NEW r \in Requests, NothingToCommit(r)
        PROVE Exclusive'
    BY <1>11 DEF NothingToCommit
  <1>12. ASSUME NEW r \in Requests, Commit(r)
        PROVE Exclusive'
    BY <1>12 DEF Commit, Release
  <1>13. ASSUME NEW r \in Requests, CommitFails(r)
        PROVE Exclusive'
    BY <1>13 DEF CommitFails, Release
  <1>14. ASSUME NEW r \in Requests, Publish(r)
        PROVE Exclusive'
    BY <1>14 DEF Publish
  <1>15. ASSUME NEW r \in Requests, Cleanup(r)
        PROVE Exclusive'
    BY <1>15 DEF Cleanup, Release
  <1>16. ASSUME NEW r \in Requests, NEW c \in Conns, Acquire(r, c)
        PROVE Exclusive'
    BY <1>16 DEF Acquire, Free
  <1>17. ASSUME NEW r \in Requests, NEW c \in Conns, ExpandAcquire(r, c)
        PROVE Exclusive'
    BY <1>17 DEF ExpandAcquire, Free
  <1>18. ASSUME NEW r \in Requests, ExpandPanics(r)
        PROVE Exclusive'
    <2>1. extra' = extra
      BY <1>18 DEF ExpandPanics
    <2>2. conn' = conn \/ conn' = [conn EXCEPT ![r] = NoConn]
      BY <1>18 DEF ExpandPanics, Release
    <2>3. CASE conn' = conn
      BY <2>1, <2>3
    <2>4. CASE conn' = [conn EXCEPT ![r] = NoConn]
      BY <2>1, <2>4
    <2>5. QED
      BY <2>2, <2>3, <2>4
  <1>19. ASSUME NEW r \in Requests, Deliver(r)
        PROVE Exclusive'
    BY <1>19 DEF Deliver, AfterAnswer
  <1>20. ASSUME NEW r \in Requests, Settle(r)
        PROVE Exclusive'
    BY <1>20 DEF Settle, Apply
  <1>21. CASE UNCHANGED vars
    BY <1>21 DEF vars, Free
  <1>22. QED
    BY <1>1, <1>2, <1>3, <1>4, <1>5, <1>6, <1>7, <1>8, <1>9,
       <1>10, <1>11, <1>12, <1>13, <1>14, <1>15, <1>16, <1>17, <1>18, <1>19, <1>20, <1>21
    DEF Next, Handle, AllServed

\* A connection that returns to the pool, or leaves it for fetchRelated, is clean.
LEMMA CleanPoolNext == IInv /\ [Next]_vars => CleanPool'
  <1> SUFFICES ASSUME IInv, [Next]_vars PROVE CleanPool'
    OBVIOUS
  <1> USE RecordsAssumption DEF IInv, TypeOK, Stages, Exclusive, CleanPool, Free, PCs, Goto, Answer, reqVars, connVars, dbVars, tableVars
  <1>1. ASSUME NEW r \in Requests, Arrive(r)
        PROVE CleanPool'
    BY <1>1 DEF Arrive
  <1>2. ASSUME NEW r \in Requests, TurnAway(r)
        PROVE CleanPool'
    BY <1>2 DEF TurnAway
  <1>3. ASSUME NEW r \in Requests, Disconnect(r)
        PROVE CleanPool'
    BY <1>3 DEF Disconnect
  <1>4. ASSUME NEW r \in Requests, SetRLSContext(r)
        PROVE CleanPool'
    BY <1>4 DEF SetRLSContext
  <1>5. ASSUME NEW r \in Requests, Execute(r)
        PROVE CleanPool'
    BY <1>5 DEF Execute
  <1>6. ASSUME NEW r \in Requests, Fail(r)
        PROVE CleanPool'
    BY <1>6 DEF Fail, Release
  <1>7. ASSUME NEW r \in Requests, Scan(r)
        PROVE CleanPool'
    BY <1>7 DEF Scan, Release, KeepConn
  <1>8. ASSUME NEW r \in Requests, ExpandInTx(r)
        PROVE CleanPool'
    BY <1>8 DEF ExpandInTx
  <1>9. ASSUME NEW r \in Requests, ExpandCancelled(r)
        PROVE CleanPool'
    BY <1>9 DEF ExpandCancelled
  <1>10. ASSUME NEW r \in Requests, FetchRelated(r)
        PROVE CleanPool'
    BY <1>10 DEF FetchRelated
  <1>11. ASSUME NEW r \in Requests, NothingToCommit(r)
        PROVE CleanPool'
    BY <1>11 DEF NothingToCommit
  <1>12. ASSUME NEW r \in Requests, Commit(r)
        PROVE CleanPool'
    BY <1>12 DEF Commit, Release
  <1>13. ASSUME NEW r \in Requests, CommitFails(r)
        PROVE CleanPool'
    BY <1>13 DEF CommitFails, Release
  <1>14. ASSUME NEW r \in Requests, Publish(r)
        PROVE CleanPool'
    BY <1>14 DEF Publish
  <1>15. ASSUME NEW r \in Requests, Cleanup(r)
        PROVE CleanPool'
    BY <1>15 DEF Cleanup, Release
  <1>16. ASSUME NEW r \in Requests, NEW c \in Conns, Acquire(r, c)
        PROVE CleanPool'
    BY <1>16 DEF Acquire, Free
  <1>17. ASSUME NEW r \in Requests, NEW c \in Conns, ExpandAcquire(r, c)
        PROVE CleanPool'
    BY <1>17 DEF ExpandAcquire, Free
  <1>18. ASSUME NEW r \in Requests, ExpandPanics(r)
        PROVE CleanPool'
    BY <1>18 DEF ExpandPanics, Release
  <1>19. ASSUME NEW r \in Requests, Deliver(r)
        PROVE CleanPool'
    BY <1>19 DEF Deliver, AfterAnswer
  <1>20. ASSUME NEW r \in Requests, Settle(r)
        PROVE CleanPool'
    BY <1>20 DEF Settle, Apply
  <1>21. CASE UNCHANGED vars
    BY <1>21 DEF vars, Free
  <1>22. QED
    BY <1>1, <1>2, <1>3, <1>4, <1>5, <1>6, <1>7, <1>8, <1>9,
       <1>10, <1>11, <1>12, <1>13, <1>14, <1>15, <1>16, <1>17, <1>18, <1>19, <1>20, <1>21
    DEF Next, Handle, AllServed

\* A connection runs under its borrower's claims from SetRLSContext to the end of the
\* transaction, and under nobody's otherwise.
LEMMA IdentityNext == IInv /\ [Next]_vars => Identity'
  <1> SUFFICES ASSUME IInv, [Next]_vars PROVE Identity'
    OBVIOUS
  <1> USE RecordsAssumption DEF IInv, TypeOK, Stages, Exclusive, CleanPool, Identity, Free, PCs, Goto, Answer, reqVars, connVars, dbVars, tableVars
  <1>1. ASSUME NEW r \in Requests, Arrive(r)
        PROVE Identity'
    BY <1>1 DEF Arrive
  <1>2. ASSUME NEW r \in Requests, TurnAway(r)
        PROVE Identity'
    BY <1>2 DEF TurnAway
  <1>3. ASSUME NEW r \in Requests, Disconnect(r)
        PROVE Identity'
    BY <1>3 DEF Disconnect
  <1>4. ASSUME NEW r \in Requests, SetRLSContext(r)
        PROVE Identity'
    BY <1>4 DEF SetRLSContext
  <1>5. ASSUME NEW r \in Requests, Execute(r)
        PROVE Identity'
    BY <1>5 DEF Execute
  <1>6. ASSUME NEW r \in Requests, Fail(r)
        PROVE Identity'
    BY <1>6 DEF Fail, Release
  <1>7. ASSUME NEW r \in Requests, Scan(r)
        PROVE Identity'
    BY <1>7 DEF Scan, Release, KeepConn
  <1>8. ASSUME NEW r \in Requests, ExpandInTx(r)
        PROVE Identity'
    BY <1>8 DEF ExpandInTx
  <1>9. ASSUME NEW r \in Requests, ExpandCancelled(r)
        PROVE Identity'
    BY <1>9 DEF ExpandCancelled
  <1>10. ASSUME NEW r \in Requests, FetchRelated(r)
        PROVE Identity'
    BY <1>10 DEF FetchRelated
  <1>11. ASSUME NEW r \in Requests, NothingToCommit(r)
        PROVE Identity'
    BY <1>11 DEF NothingToCommit, Respond, AfterAnswer
  <1>12. ASSUME NEW r \in Requests, Commit(r)
        PROVE Identity'
    BY <1>12 DEF Commit, Release, Respond, AfterAnswer
  <1>13. ASSUME NEW r \in Requests, CommitFails(r)
        PROVE Identity'
    BY <1>13 DEF CommitFails, Release, Respond, AfterAnswer
  <1>14. ASSUME NEW r \in Requests, Publish(r)
        PROVE Identity'
    BY <1>14 DEF Publish
  <1>15. ASSUME NEW r \in Requests, Cleanup(r)
        PROVE Identity'
    BY <1>15 DEF Cleanup, Release
  <1>16. ASSUME NEW r \in Requests, NEW c \in Conns, Acquire(r, c)
        PROVE Identity'
    BY <1>16 DEF Acquire, Free
  <1>17. ASSUME NEW r \in Requests, NEW c \in Conns, ExpandAcquire(r, c)
        PROVE Identity'
    BY <1>17 DEF ExpandAcquire, Free
  <1>18. ASSUME NEW r \in Requests, ExpandPanics(r)
        PROVE Identity'
    BY <1>18 DEF ExpandPanics, Release
  <1>19. ASSUME NEW r \in Requests, Deliver(r)
        PROVE Identity'
    BY <1>19 DEF Deliver, AfterAnswer
  <1>20. ASSUME NEW r \in Requests, Settle(r)
        PROVE Identity'
    BY <1>20 DEF Settle, Apply
  <1>21. CASE UNCHANGED vars
    BY <1>21 DEF vars, Free
  <1>22. QED
    BY <1>1, <1>2, <1>3, <1>4, <1>5, <1>6, <1>7, <1>8, <1>9,
       <1>10, <1>11, <1>12, <1>13, <1>14, <1>15, <1>16, <1>17, <1>18, <1>19, <1>20, <1>21
    DEF Next, Handle, AllServed

\* A row stays locked only while its writer's transaction is open.
LEMMA LocksNext == IInv /\ [Next]_vars => Locks'
  <1> SUFFICES ASSUME IInv, [Next]_vars PROVE Locks'
    OBVIOUS
  <1> USE RecordsAssumption DEF IInv, TypeOK, Stages, Locks, Shape, PCs, Goto, Answer, reqVars, connVars, dbVars, tableVars
  <1>1. ASSUME NEW r \in Requests, Arrive(r)
        PROVE Locks'
    BY <1>1 DEF Arrive
  <1>2. ASSUME NEW r \in Requests, TurnAway(r)
        PROVE Locks'
    BY <1>2 DEF TurnAway
  <1>3. ASSUME NEW r \in Requests, Disconnect(r)
        PROVE Locks'
    BY <1>3 DEF Disconnect
  <1>4. ASSUME NEW r \in Requests, SetRLSContext(r)
        PROVE Locks'
    BY <1>4 DEF SetRLSContext
  <1>5. ASSUME NEW r \in Requests, Execute(r)
        PROVE Locks'
    <2>1. CASE writer' = writer /\ pending' = pending
      BY <1>5, <2>1 DEF Execute
    <2>2. CASE /\ writer' = [writer EXCEPT ![op[r].row] = r]
               /\ op[r].kind \in Writes
               /\ pending' = IF op[r].claims THEN pending ELSE pending \cup {r}
      BY <1>5, <2>2 DEF Execute, Op
    <2>3. QED
      BY <1>5, <2>1, <2>2 DEF Execute
  <1>6. ASSUME NEW r \in Requests, Fail(r)
        PROVE Locks'
    BY <1>6 DEF Fail, Release
  <1>7. ASSUME NEW r \in Requests, Scan(r)
        PROVE Locks'
    BY <1>7 DEF Scan, Release, KeepConn, Writes, Expandable
  <1>8. ASSUME NEW r \in Requests, ExpandInTx(r)
        PROVE Locks'
    BY <1>8 DEF ExpandInTx
  <1>9. ASSUME NEW r \in Requests, ExpandCancelled(r)
        PROVE Locks'
    BY <1>9 DEF ExpandCancelled
  <1>10. ASSUME NEW r \in Requests, FetchRelated(r)
        PROVE Locks'
    BY <1>10 DEF FetchRelated
  <1>11. ASSUME NEW r \in Requests, NothingToCommit(r)
        PROVE Locks'
    BY <1>11 DEF NothingToCommit, Respond, AfterAnswer
  <1>12. ASSUME NEW r \in Requests, Commit(r)
        PROVE Locks'
    BY <1>12 DEF Commit, Release, Respond, AfterAnswer
  <1>13. ASSUME NEW r \in Requests, CommitFails(r)
        PROVE Locks'
    BY <1>13 DEF CommitFails, Release, Respond, AfterAnswer
  <1>14. ASSUME NEW r \in Requests, Publish(r)
        PROVE Locks'
    BY <1>14 DEF Publish
  <1>15. ASSUME NEW r \in Requests, Cleanup(r)
        PROVE Locks'
    BY <1>15 DEF Cleanup, Release
  <1>16. ASSUME NEW r \in Requests, NEW c \in Conns, Acquire(r, c)
        PROVE Locks'
    BY <1>16 DEF Acquire, Free
  <1>17. ASSUME NEW r \in Requests, NEW c \in Conns, ExpandAcquire(r, c)
        PROVE Locks'
    BY <1>17 DEF ExpandAcquire, Free
  <1>18. ASSUME NEW r \in Requests, ExpandPanics(r)
        PROVE Locks'
    BY <1>18 DEF ExpandPanics, Release
  <1>19. ASSUME NEW r \in Requests, Deliver(r)
        PROVE Locks'
    BY <1>19 DEF Deliver, AfterAnswer
  <1>20. ASSUME NEW r \in Requests, Settle(r)
        PROVE Locks'
    BY <1>20 DEF Settle, Apply
  <1>21. CASE UNCHANGED vars
    BY <1>21 DEF vars, Free
  <1>22. QED
    BY <1>1, <1>2, <1>3, <1>4, <1>5, <1>6, <1>7, <1>8, <1>9,
       <1>10, <1>11, <1>12, <1>13, <1>14, <1>15, <1>16, <1>17, <1>18, <1>19, <1>20, <1>21
    DEF Next, Handle, AllServed

\* Only reads are expanded, only single rows keep a connection without a transaction, and
\* a COMMIT is due only after a statement outside one.
LEMMA ShapeNext == IInv /\ [Next]_vars => Shape'
  <1> SUFFICES ASSUME IInv, [Next]_vars PROVE Shape'
    OBVIOUS
  <1> USE RecordsAssumption DEF IInv, TypeOK, Stages, Shape, Traces, PCs, Goto, Answer, reqVars, connVars, dbVars, tableVars
  <1>1. ASSUME NEW r \in Requests, Arrive(r)
        PROVE Shape'
    BY <1>1 DEF Arrive
  <1>2. ASSUME NEW r \in Requests, TurnAway(r)
        PROVE Shape'
    BY <1>2 DEF TurnAway
  <1>3. ASSUME NEW r \in Requests, Disconnect(r)
        PROVE Shape'
    BY <1>3 DEF Disconnect
  <1>4. ASSUME NEW r \in Requests, SetRLSContext(r)
        PROVE Shape'
    BY <1>4 DEF SetRLSContext
  <1>5. ASSUME NEW r \in Requests, Execute(r)
        PROVE Shape'
    BY <1>5 DEF Execute
  <1>6. ASSUME NEW r \in Requests, Fail(r)
        PROVE Shape'
    BY <1>6 DEF Fail, Release
  <1>7. ASSUME NEW r \in Requests, Scan(r)
        PROVE Shape'
    BY <1>7 DEF Scan, Release, KeepConn, Writes, Expandable, OneRow
  <1>8. ASSUME NEW r \in Requests, ExpandInTx(r)
        PROVE Shape'
    BY <1>8 DEF ExpandInTx
  <1>9. ASSUME NEW r \in Requests, ExpandCancelled(r)
        PROVE Shape'
    BY <1>9 DEF ExpandCancelled
  <1>10. ASSUME NEW r \in Requests, FetchRelated(r)
        PROVE Shape'
    BY <1>10 DEF FetchRelated
  <1>11. ASSUME NEW r \in Requests, NothingToCommit(r)
        PROVE Shape'
    BY <1>11 DEF NothingToCommit, Respond, AfterAnswer
  <1>12. ASSUME NEW r \in Requests, Commit(r)
        PROVE Shape'
    BY <1>12 DEF Commit, Release, Respond, AfterAnswer
  <1>13. ASSUME NEW r \in Requests, CommitFails(r)
        PROVE Shape'
    BY <1>13 DEF CommitFails, Release, Respond, AfterAnswer
  <1>14. ASSUME NEW r \in Requests, Publish(r)
        PROVE Shape'
    BY <1>14 DEF Publish
  <1>15. ASSUME NEW r \in Requests, Cleanup(r)
        PROVE Shape'
    BY <1>15 DEF Cleanup, Release
  <1>16. ASSUME NEW r \in Requests, NEW c \in Conns, Acquire(r, c)
        PROVE Shape'
    BY <1>16 DEF Acquire, Free
  <1>17. ASSUME NEW r \in Requests, NEW c \in Conns, ExpandAcquire(r, c)
        PROVE Shape'
    BY <1>17 DEF ExpandAcquire, Free
  <1>18. ASSUME NEW r \in Requests, ExpandPanics(r)
        PROVE Shape'
    BY <1>18 DEF ExpandPanics, Release
  <1>19. ASSUME NEW r \in Requests, Deliver(r)
        PROVE Shape'
    BY <1>19 DEF Deliver, AfterAnswer
  <1>20. ASSUME NEW r \in Requests, Settle(r)
        PROVE Shape'
    BY <1>20 DEF Settle, Apply
  <1>21. CASE UNCHANGED vars
    BY <1>21 DEF vars, Free
  <1>22. QED
    BY <1>1, <1>2, <1>3, <1>4, <1>5, <1>6, <1>7, <1>8, <1>9,
       <1>10, <1>11, <1>12, <1>13, <1>14, <1>15, <1>16, <1>17, <1>18, <1>19, <1>20, <1>21
    DEF Next, Handle, AllServed

\* With claims, what is committed is answered with success.
LEMMA TracesNext == IInv /\ [Next]_vars => Traces'
  <1> SUFFICES ASSUME IInv, [Next]_vars PROVE Traces'
    OBVIOUS
  <1> USE RecordsAssumption DEF IInv, TypeOK, Stages, Shape, Traces, PCs, Goto, Answer, reqVars, connVars, dbVars, tableVars
  <1>1. ASSUME NEW r \in Requests, Arrive(r)
        PROVE Traces'
    BY <1>1 DEF Arrive
  <1>2. ASSUME NEW r \in Requests, TurnAway(r)
        PROVE Traces'
    BY <1>2 DEF TurnAway
  <1>3. ASSUME NEW r \in Requests, Disconnect(r)
        PROVE Traces'
    BY <1>3 DEF Disconnect
  <1>4. ASSUME NEW r \in Requests, SetRLSContext(r)
        PROVE Traces'
    BY <1>4 DEF SetRLSContext
  <1>5. ASSUME NEW r \in Requests, Execute(r)
        PROVE Traces'
    BY <1>5 DEF Execute, Apply
  <1>6. ASSUME NEW r \in Requests, Fail(r)
        PROVE Traces'
    BY <1>6 DEF Fail, Release
  <1>7. ASSUME NEW r \in Requests, Scan(r)
        PROVE Traces'
    BY <1>7 DEF Scan, Release, KeepConn
  <1>8. ASSUME NEW r \in Requests, ExpandInTx(r)
        PROVE Traces'
    BY <1>8 DEF ExpandInTx
  <1>9. ASSUME NEW r \in Requests, ExpandCancelled(r)
        PROVE Traces'
    BY <1>9 DEF ExpandCancelled
  <1>10. ASSUME NEW r \in Requests, FetchRelated(r)
        PROVE Traces'
    BY <1>10 DEF FetchRelated
  <1>11. ASSUME NEW r \in Requests, NothingToCommit(r)
        PROVE Traces'
    BY <1>11 DEF NothingToCommit, Respond, AfterAnswer
  <1>12. ASSUME NEW r \in Requests, Commit(r)
        PROVE Traces'
    BY <1>12 DEF Commit, Release, Respond, AfterAnswer, Apply
  <1>13. ASSUME NEW r \in Requests, CommitFails(r)
        PROVE Traces'
    BY <1>13 DEF CommitFails, Release, Respond, AfterAnswer
  <1>14. ASSUME NEW r \in Requests, Publish(r)
        PROVE Traces'
    BY <1>14 DEF Publish
  <1>15. ASSUME NEW r \in Requests, Cleanup(r)
        PROVE Traces'
    BY <1>15 DEF Cleanup, Release
  <1>16. ASSUME NEW r \in Requests, NEW c \in Conns, Acquire(r, c)
        PROVE Traces'
    BY <1>16 DEF Acquire, Free
  <1>17. ASSUME NEW r \in Requests, NEW c \in Conns, ExpandAcquire(r, c)
        PROVE Traces'
    BY <1>17 DEF ExpandAcquire, Free
  <1>18. ASSUME NEW r \in Requests, ExpandPanics(r)
        PROVE Traces'
    BY <1>18 DEF ExpandPanics, Release
  <1>19. ASSUME NEW r \in Requests, Deliver(r)
        PROVE Traces'
    BY <1>19 DEF Deliver, AfterAnswer
  <1>20. ASSUME NEW r \in Requests, Settle(r)
        PROVE Traces'
    BY <1>20 DEF Settle, Apply
  <1>21. CASE UNCHANGED vars
    BY <1>21 DEF vars, Free
  <1>22. QED
    BY <1>1, <1>2, <1>3, <1>4, <1>5, <1>6, <1>7, <1>8, <1>9,
       <1>10, <1>11, <1>12, <1>13, <1>14, <1>15, <1>16, <1>17, <1>18, <1>19, <1>20, <1>21
    DEF Next, Handle, AllServed

\* Statements run under the identity of the connection they are given.
LEMMA RunsAsCallerNext == IInv /\ [Next]_vars => RunsAsCaller'
  <1> SUFFICES ASSUME IInv, [Next]_vars PROVE RunsAsCaller'
    OBVIOUS
  <1> USE RecordsAssumption DEF IInv, TypeOK, Stages, Identity, CleanPool, RunsAsCaller, PCs, Goto, Answer, reqVars, connVars, dbVars, tableVars
  <1>1. ASSUME NEW r \in Requests, Arrive(r)
        PROVE RunsAsCaller'
    BY <1>1 DEF Arrive
  <1>2. ASSUME NEW r \in Requests, TurnAway(r)
        PROVE RunsAsCaller'
    BY <1>2 DEF TurnAway
  <1>3. ASSUME NEW r \in Requests, Disconnect(r)
        PROVE RunsAsCaller'
    BY <1>3 DEF Disconnect
  <1>4. ASSUME NEW r \in Requests, SetRLSContext(r)
        PROVE RunsAsCaller'
    BY <1>4 DEF SetRLSContext
  <1>5. ASSUME NEW r \in Requests, Execute(r)
        PROVE RunsAsCaller'
    BY <1>5 DEF Execute
  <1>6. ASSUME NEW r \in Requests, Fail(r)
        PROVE RunsAsCaller'
    BY <1>6 DEF Fail, Release
  <1>7. ASSUME NEW r \in Requests, Scan(r)
        PROVE RunsAsCaller'
    BY <1>7 DEF Scan, Release, KeepConn
  <1>8. ASSUME NEW r \in Requests, ExpandInTx(r)
        PROVE RunsAsCaller'
    BY <1>8 DEF ExpandInTx
  <1>9. ASSUME NEW r \in Requests, ExpandCancelled(r)
        PROVE RunsAsCaller'
    BY <1>9 DEF ExpandCancelled
  <1>10. ASSUME NEW r \in Requests, FetchRelated(r)
        PROVE RunsAsCaller'
    BY <1>10 DEF FetchRelated
  <1>11. ASSUME NEW r \in Requests, NothingToCommit(r)
        PROVE RunsAsCaller'
    BY <1>11 DEF NothingToCommit
  <1>12. ASSUME NEW r \in Requests, Commit(r)
        PROVE RunsAsCaller'
    BY <1>12 DEF Commit, Release
  <1>13. ASSUME NEW r \in Requests, CommitFails(r)
        PROVE RunsAsCaller'
    BY <1>13 DEF CommitFails, Release
  <1>14. ASSUME NEW r \in Requests, Publish(r)
        PROVE RunsAsCaller'
    BY <1>14 DEF Publish
  <1>15. ASSUME NEW r \in Requests, Cleanup(r)
        PROVE RunsAsCaller'
    BY <1>15 DEF Cleanup, Release
  <1>16. ASSUME NEW r \in Requests, NEW c \in Conns, Acquire(r, c)
        PROVE RunsAsCaller'
    BY <1>16 DEF Acquire, Free
  <1>17. ASSUME NEW r \in Requests, NEW c \in Conns, ExpandAcquire(r, c)
        PROVE RunsAsCaller'
    BY <1>17 DEF ExpandAcquire, Free
  <1>18. ASSUME NEW r \in Requests, ExpandPanics(r)
        PROVE RunsAsCaller'
    BY <1>18 DEF ExpandPanics, Release
  <1>19. ASSUME NEW r \in Requests, Deliver(r)
        PROVE RunsAsCaller'
    BY <1>19 DEF Deliver, AfterAnswer
  <1>20. ASSUME NEW r \in Requests, Settle(r)
        PROVE RunsAsCaller'
    BY <1>20 DEF Settle, Apply
  <1>21. CASE UNCHANGED vars
    BY <1>21 DEF vars, Free
  <1>22. QED
    BY <1>1, <1>2, <1>3, <1>4, <1>5, <1>6, <1>7, <1>8, <1>9,
       <1>10, <1>11, <1>12, <1>13, <1>14, <1>15, <1>16, <1>17, <1>18, <1>19, <1>20, <1>21
    DEF Next, Handle, AllServed

-----------------------------------------------------------------------------
THEOREM RecordsInvariant == Spec => []IInv
  <1>1. IInv /\ [Next]_vars => IInv'
    BY TypeNext, StagesNext, ExclusiveNext, CleanPoolNext, IdentityNext, LocksNext,
       ShapeNext, TracesNext, RunsAsCallerNext DEF IInv
  <1>2. QED
    BY InitInv, <1>1, PTL DEF Spec

\* The pool is clean whenever a handler is over, for any number of requests,
\* connections and rows (withRLS and its done function, the deferred
\* rows.Close).
THEOREM PoolStaysClean == Spec => []PoolHygiene
  <1>1. IInv => PoolHygiene
    <2> SUFFICES ASSUME IInv PROVE PoolHygiene
      OBVIOUS
    <2>1. \A r \in Requests : pc[r] \in {"idle", "end"} =>
            /\ conn[r] = NoConn \/ (r \in panicked /\ op[r].claims)
            /\ extra[r] = NoConn
            /\ \A k \in Rows : writer[k] = r => r \in pending
      BY DEF IInv, TypeOK, Stages, Locks
    <2>2. \A c \in Conns : Free(c) => c \notin inTx \cup busy /\ ident[c] = NoReq
      BY DEF IInv, CleanPool
    <2>3. \A r, s \in Requests : r # s =>
            {conn[r], extra[r]} \cap {conn[s], extra[s]} \subseteq {NoConn}
      <3> SUFFICES ASSUME NEW r \in Requests, NEW s \in Requests, r # s,
                          NEW c \in {conn[r], extra[r]} \cap {conn[s], extra[s]},
                          c # NoConn
                   PROVE FALSE
        OBVIOUS
      <3>1. c \in Conns
        BY DEF IInv, TypeOK
      <3>2. QED
        BY <3>1 DEF IInv, Exclusive
    <2>4. QED
      BY <2>1, <2>2, <2>3 DEF PoolHygiene
  <1>2. QED
    BY <1>1, RecordsInvariant, PTL

\* No statement ever runs under another caller's identity, nor an anonymous
\* one under anybody's, although they share the pool's connections.
THEOREM CallersAreSeparated == Spec => []RunsAsCaller
  <1>1. IInv => RunsAsCaller
    BY DEF IInv
  <1>2. QED
    BY <1>1, RecordsInvariant, PTL

\* A caller with claims that is told of an error has changed nothing.
THEOREM ErrorsAreAtomic == Spec => []ErrorLeavesNoTrace
  <1>1. IInv => ErrorLeavesNoTrace
    BY DEF IInv, Traces, ErrorLeavesNoTrace
  <1>2. QED
    BY <1>1, RecordsInvariant, PTL

\* The types of the variables.
THEOREM RecordsTypes == Spec => []TypeOK
  <1>1. IInv => TypeOK
    BY DEF IInv
  <1>2. QED
    BY <1>1, RecordsInvariant, PTL

\* Nothing but reads that nest, answers nobody reads and handlers that panicked
\* can bring all of them to a stop: a handler that waits for a row waits for one
\* that needs nothing more, and whoever else holds a connection goes on (withRLS,
\* expandRecords on the pool, the deferred rows.Close).
THEOREM HandlersBlockByNesting == Spec => []OnlyNestingBlocks
  <1>1. IInv => OnlyNestingBlocks
    <2> SUFFICES ASSUME IInv, pending = {},
                        \A r \in Requests : pc[r] \in {"idle", "end"} \/ Blocked(r),
                        NEW r \in Requests, pc[r] \notin {"idle", "write", "end"}
                 PROVE  PoolTaken
      BY DEF OnlyNestingBlocks
    \* Whoever has a row locked goes on.
    <2>1. ASSUME NEW s \in Requests
          PROVE  \A k \in Rows : writer[k] # s
      <3> SUFFICES ASSUME NEW k \in Rows, writer[k] = s PROVE FALSE
        OBVIOUS
      <3>1. pc[s] \in {"scan", "finish"}
        BY DEF IInv, Locks
      <3>2. QED
        BY <3>1 DEF Blocked, Waiting
    <2>2. ASSUME NEW s \in Requests PROVE pc[s] \in {"idle", "write", "end"} \/ Waiting(s)
      <3>1. ASSUME pc[s] = "exec" PROVE writer[op[s].row] = NoReq
        BY <2>1 DEF IInv, TypeOK, Op
      <3>2. QED
        BY <3>1 DEF Blocked
    <2>3. \A c \in Conns : ~Free(c)
      BY <2>2 DEF Blocked, Waiting
    <2>4. ASSUME NEW c \in Conns PROVE Taken(c)
      <3>1. PICK s \in Requests : conn[s] = c \/ extra[s] = c
        BY <2>3 DEF Free
      <3>2. conn[s] = c
        BY <2>2, <3>1, RecordsAssumption DEF IInv, Stages, Waiting
      <3>3. CASE pc[s] \in {"idle", "end"}
        BY <3>2, <3>3, RecordsAssumption DEF IInv, Stages, Taken
      <3>4. CASE pc[s] = "write"
        <4>1. s \notin gone
          BY <3>4 DEF Blocked
        <4>2. ~op[s].claims
          BY <3>2, <3>4, RecordsAssumption DEF IInv, Stages
        <4>3. QED
          BY <3>2, <3>4, <4>1, <4>2 DEF Taken, IInv, Shape
      <3>5. CASE Waiting(s)
        <4>1. pc[s] = "expand" /\ ~op[s].claims /\ s \notin gone
          BY <3>2, <3>5, RecordsAssumption DEF Waiting, IInv, Stages, Blocked
        <4>2. op[s].kind \in OneRow /\ op[s].kind \in Expandable
          BY <3>2, <4>1 DEF IInv, Shape
        <4>3. QED
          BY <3>2, <4>1, <4>2 DEF Taken, OneRow, Expandable
      <3>6. QED
        BY <2>2, <3>3, <3>4, <3>5
    <2>5. QED
      BY <2>4 DEF PoolTaken
  <1>2. QED
    BY <1>1, RecordsInvariant, PTL

-----------------------------------------------------------------------------
(***************************************************************************)
(* Announcements.                                                          *)
(***************************************************************************)
Sent(r) == \E i \in DOMAIN events : events[i] = r

\* The hub is told once, after a success, and of every one.
Told ==
  /\ \A i, j \in DOMAIN events : events[i] = events[j] => i = j
  /\ \A r \in Requests :
       /\ pc[r] = "write" => status[r] = "ok" /\ result[r] = "row"
       /\ pc[r] = "publish" => op[r].kind \in Announced /\ status[r] = "ok"
       /\ Sent(r) => pc[r] \in {"cleanup", "end"} /\ op[r].kind \in Announced /\ status[r] = "ok"
       /\ pc[r] \in {"cleanup", "end"} /\ op[r].kind \in Announced /\ status[r] = "ok" => Sent(r)

\* What became of the COMMIT of a write, with claims and without.
Early == {"idle", "acquire", "setrls", "exec"}
Middle == {"scan", "expand", "finish"}
Committed ==
  \A r \in Requests :
    /\ pc[r] \in Early => result[r] = "none" /\ r \notin committed /\ r \notin refused
    /\ op[r].claims /\ pc[r] \in Middle => r \notin committed /\ r \notin refused
    /\ ~op[r].claims /\ Wrote(r) => r \in committed \cup pending \cup refused
    /\ ~op[r].claims /\ r \in refused => op[r].kind \in OneRow \/ result[r] = "error"
    /\ r \in pending => r \notin committed /\ r \notin refused
    /\ r \in committed => r \notin refused

LEMMA InitTold == Init => Told /\ Committed
  BY DEF Init, Told, Committed, Sent, Wrote

LEMMA ToldNext == IInv /\ Told /\ [Next]_vars => Told'
  <1> SUFFICES ASSUME IInv, Told, [Next]_vars PROVE Told'
    OBVIOUS
  <1>1. /\ pc \in [Requests -> PCs] /\ op \in [Requests -> Op] /\ events \in Seq(Requests)
        /\ status \in [Requests -> {"none", "ok", "notfound", "error"}]
    BY DEF IInv, TypeOK
  <1>2. ASSUME NEW r \in Requests, Arrive(r) PROVE Told'
    <2>1. pc[r] = "idle" /\ pc' = [pc EXCEPT ![r] = "acquire"] /\ UNCHANGED <<status, result, events>>
          /\ \A s \in Requests \ {r} : op'[s] = op[s]
      BY <1>1, <1>2 DEF Arrive, Goto
    <2>2. QED
      BY <1>1, <2>1 DEF Told, Sent
  <1>3. ASSUME NEW r \in Requests, TurnAway(r) \/ Fail(r) \/ ExpandPanics(r) PROVE Told'
    <2>1. /\ pc[r] \in {"idle", "acquire", "setrls", "exec", "scan", "expand"} /\ pc' = [pc EXCEPT ![r] = "end"]
          /\ status' = [status EXCEPT ![r] = "error"] /\ UNCHANGED <<op, result, events>>
      BY <1>3 DEF TurnAway, Fail, ExpandPanics, Goto, Answer
    <2>2. QED
      BY <1>1, <2>1 DEF Told, Sent
  <1>4. ASSUME NEW r \in Requests, NothingToCommit(r) \/ Commit(r) \/ CommitFails(r) PROVE Told'
    <2>1. pc[r] = "finish" /\ Respond(r) /\ UNCHANGED <<op, result, events>>
      BY <1>4 DEF NothingToCommit, Commit, CommitFails
    <2>2. \/ /\ op[r].kind \in Announced
             /\ status' = [status EXCEPT ![r] = "ok"] /\ pc' = [pc EXCEPT ![r] = "publish"]
          \/ /\ result[r] = "row"
             /\ status' = [status EXCEPT ![r] = "ok"] /\ pc' = [pc EXCEPT ![r] = "write"]
          \/ /\ op[r].kind \notin Announced
             /\ \E a \in {"ok", "notfound"} : status' = [status EXCEPT ![r] = a]
             /\ pc' = [pc EXCEPT ![r] = "cleanup"]
          \/ status' = [status EXCEPT ![r] = "notfound"] /\ pc' = [pc EXCEPT ![r] = "cleanup"]
      BY <2>1 DEF Respond, AfterAnswer, Missing, Writing, Answer, Goto
    <2>3. QED
      BY <1>1, <2>1, <2>2 DEF Told, Sent
  <1>5. ASSUME NEW r \in Requests, Publish(r) PROVE Told'
    <2>1. /\ pc[r] = "publish" /\ pc' = [pc EXCEPT ![r] = "cleanup"]
          /\ events' = Append(events, r) /\ UNCHANGED <<op, result, status>>
      BY <1>5 DEF Publish, Goto
    <2>2. /\ DOMAIN events' = 1..(Len(events) + 1) /\ DOMAIN events = 1..Len(events)
          /\ Len(events) \in Nat /\ events'[Len(events) + 1] = r
          /\ \A i \in DOMAIN events : events'[i] = events[i]
      BY <1>1, <2>1
    <2>3. \A i \in DOMAIN events' : i \in DOMAIN events \/ i = Len(events) + 1
      BY <2>2
    <2>4. DOMAIN events \subseteq DOMAIN events' /\ Len(events) + 1 \in DOMAIN events'
      BY <2>2
    <2>5. \A s \in Requests : Sent(s)' <=> Sent(s) \/ s = r
      BY <2>2, <2>3, <2>4 DEF Sent
    <2>6. \A i, j \in DOMAIN events' : events'[i] = events'[j] => i = j
      <3>1. \A i \in DOMAIN events : events[i] # r
        BY <1>1, <2>1 DEF Told, Sent
      <3>2. QED
        BY <2>2, <2>3, <3>1 DEF Told
    <2>7. \A s \in Requests : pc'[s] = IF s = r THEN "cleanup" ELSE pc[s]
      BY <1>1, <2>1
    <2>8. QED
      BY <2>1, <2>5, <2>6, <2>7 DEF Told
  <1>6. ASSUME NEW r \in Requests, Cleanup(r) PROVE Told'
    BY <1>1, <1>6 DEF Cleanup, Goto, Told, Sent
  <1>7. ASSUME NEW r \in Requests, NEW where \in PCs \ {"write", "publish", "cleanup", "end"},
               pc[r] \notin {"write", "publish", "cleanup", "end"},
               pc' = [pc EXCEPT ![r] = where], UNCHANGED <<op, status, events>>,
               \A s \in Requests \ {r} : result'[s] = result[s]
        PROVE Told'
    BY <1>1, <1>7 DEF Told, Sent
  <1>8. ASSUME NEW r \in Requests,
               \/ \E c \in Conns : Acquire(r, c) \/ ExpandAcquire(r, c)
               \/ SetRLSContext(r) \/ Execute(r) \/ Scan(r)
               \/ ExpandInTx(r) \/ ExpandCancelled(r) \/ FetchRelated(r)
        PROVE Told'
    <2>1. /\ pc[r] \notin {"write", "publish", "cleanup", "end"} /\ UNCHANGED <<op, status, events>>
          /\ \A s \in Requests \ {r} : result'[s] = result[s]
          /\ \E where \in {"setrls", "exec", "scan", "expand", "fetch", "finish"} :
               pc' = [pc EXCEPT ![r] = where]
      <3>1. CASE \E c \in Conns : Acquire(r, c) \/ ExpandAcquire(r, c)
        BY <3>1 DEF Acquire, ExpandAcquire, Goto
      <3>2. CASE Execute(r)
        BY <1>1, <3>2 DEF Execute, Goto
      <3>3. CASE Scan(r)
        BY <3>3 DEF Scan, Goto
      <3>4. CASE SetRLSContext(r) \/ ExpandInTx(r) \/ ExpandCancelled(r) \/ FetchRelated(r)
        BY <3>4 DEF SetRLSContext, ExpandInTx, ExpandCancelled, FetchRelated, Goto
      <3>5. QED
        BY <1>8, <3>1, <3>2, <3>3, <3>4
    <2>2. QED
      BY <1>7, <2>1 DEF PCs
  <1>9. CASE (\E r \in Requests : Disconnect(r)) \/ UNCHANGED vars
    <2>1. UNCHANGED <<pc, op, result, status, events>>
      BY <1>9 DEF Disconnect, vars, reqVars
    <2>2. QED
      BY <2>1 DEF Told, Sent
  <1>10. ASSUME NEW r \in Requests, Deliver(r) PROVE Told'
    <2>1. /\ pc[r] = "write" /\ UNCHANGED <<op, result, status, events>>
          /\ IF ~Missing(r) /\ op[r].kind \in Announced
             THEN pc' = [pc EXCEPT ![r] = "publish"] ELSE pc' = [pc EXCEPT ![r] = "cleanup"]
      BY <1>10 DEF Deliver, AfterAnswer, Goto
    <2>2. status[r] = "ok" /\ ~Missing(r)
      BY <2>1 DEF Told, Missing
    <2>3. QED
      BY <1>1, <2>1, <2>2 DEF Told, Sent
  <1>11. ASSUME NEW r \in Requests, Settle(r) PROVE Told'
    <2>1. UNCHANGED <<pc, op, status, events>>
      BY <1>11 DEF Settle
    <2>2. \/ result' = result
          \/ op[r].kind \notin OneRow /\ \A s \in Requests \ {r} : result'[s] = result[s]
      <3>1. \/ result' = result
            \/ op[r].kind \notin OneRow /\ result' = [result EXCEPT ![r] = "error"]
        BY <1>11 DEF Settle
      <3>2. result \in [Requests -> {"none", "row", "error"}]
        BY DEF IInv, TypeOK
      <3>3. QED
        BY <3>1, <3>2
    <2>3. op[r].kind \notin OneRow => pc[r] # "write"
      BY <1>11 DEF Settle, IInv, Shape
    <2>4. QED
      BY <1>1, <2>1, <2>2, <2>3 DEF Told, Sent
  <1>12. QED
    BY <1>2, <1>3, <1>4, <1>5, <1>6, <1>8, <1>9, <1>10, <1>11 DEF Next, Handle, AllServed

LEMMA CommittedNext == IInv /\ Committed /\ [Next]_vars => Committed'
  <1> SUFFICES ASSUME IInv, Committed, [Next]_vars PROVE Committed'
    OBVIOUS
  <1> USE DEF Early, Middle
  <1>1. /\ pc \in [Requests -> PCs] /\ op \in [Requests -> Op]
        /\ result \in [Requests -> {"none", "row", "error"}]
    BY DEF IInv, TypeOK
  <1>2. ASSUME NEW r \in Requests, Arrive(r) PROVE Committed'
    <2>1. /\ pc[r] = "idle" /\ pc' = [pc EXCEPT ![r] = "acquire"]
          /\ UNCHANGED <<result, committed, pending, refused>>
          /\ \A s \in Requests \ {r} : op'[s] = op[s]
      BY <1>1, <1>2 DEF Arrive, Goto, dbVars, tableVars
    <2>2. result[r] = "none" /\ r \notin committed /\ r \notin refused
      BY <2>1 DEF Committed
    <2>3. QED
      BY <1>1, <2>1, <2>2 DEF Committed, Wrote
  <1>3. ASSUME NEW r \in Requests, Execute(r) PROVE Committed'
    <2>1. pc[r] = "exec" /\ pc' = [pc EXCEPT ![r] = "scan"] /\ op' = op
      BY <1>3 DEF Execute, Goto
    <2>2. PICK out \in Outcomes(r) :
            /\ result' = [result EXCEPT ![r] = out] /\ UNCHANGED <<committed, refused>>
            /\ \/ (out # "row" \/ op[r].kind \notin Writes \/ op[r].claims) /\ pending' = pending
               \/ pending' = pending \cup {r}
      BY <1>3 DEF Execute, dbVars, tableVars
    <2>3. r \notin committed /\ r \notin refused
      BY <2>1 DEF Committed
    <2>4. QED
      BY <1>1, <2>1, <2>2, <2>3 DEF Committed, Wrote
  <1>4. ASSUME NEW r \in Requests, Settle(r) PROVE Committed'
    <2>1. /\ UNCHANGED <<pc, op>> /\ r \in pending /\ pending' = pending \ {r}
          /\ \/ committed' = committed \cup {r} /\ UNCHANGED <<result, refused>>
             \/ /\ refused' = refused \cup {r} /\ committed' = committed
                /\ IF op[r].kind \in OneRow THEN result' = result
                   ELSE result' = [result EXCEPT ![r] = "error"]
      BY <1>4 DEF Settle, Apply
    <2>2. pc[r] \notin Early /\ ~op[r].claims
      BY <2>1 DEF IInv, Shape
    <2>3. QED
      BY <1>1, <2>1, <2>2 DEF Committed, Wrote
  <1>5. ASSUME NEW r \in Requests, Commit(r) \/ CommitFails(r) PROVE Committed'
    <2>1. /\ UNCHANGED <<op, result, pending>> /\ op[r].claims /\ pc[r] = "finish"
          /\ \E where \in {"write", "publish", "cleanup"} : pc' = [pc EXCEPT ![r] = where]
          /\ \/ committed' \in {committed, committed \cup {r}} /\ refused' = refused
             \/ refused' \in {refused, refused \cup {r}} /\ committed' = committed
      BY <1>5 DEF Commit, CommitFails, Respond, AfterAnswer, Apply, Goto
    <2>2. r \notin committed /\ r \notin refused /\ r \notin pending
      BY <2>1 DEF Committed, IInv, Shape
    <2>3. QED
      BY <1>1, <2>1, <2>2 DEF Committed, Wrote
  <1>6. ASSUME UNCHANGED <<op, result, committed, pending, refused>>,
               \A r \in Requests : /\ pc'[r] \in Early => pc[r] \in Early
                                   /\ pc'[r] \in Middle => pc[r] \in Early \cup Middle \cup {"fetch"}
                                   /\ pc'[r] \in Middle /\ op[r].claims => pc[r] \in Early \cup Middle
        PROVE Committed'
    BY <1>6 DEF Committed, Wrote
  <1>7. ASSUME NEW r \in Requests,
               \/ \E c \in Conns : Acquire(r, c) \/ ExpandAcquire(r, c)
               \/ TurnAway(r) \/ Disconnect(r) \/ SetRLSContext(r) \/ Fail(r) \/ Scan(r)
               \/ ExpandInTx(r) \/ ExpandCancelled(r) \/ ExpandPanics(r) \/ FetchRelated(r)
               \/ NothingToCommit(r) \/ Publish(r) \/ Cleanup(r) \/ Deliver(r)
        PROVE Committed'
    <2>1. UNCHANGED <<op, result, committed, pending, refused>>
      BY <1>7 DEF Acquire, ExpandAcquire, TurnAway, Disconnect, SetRLSContext, Fail, Scan,
         ExpandInTx, ExpandCancelled, ExpandPanics, FetchRelated, NothingToCommit,
         Publish, Cleanup, Deliver, dbVars, tableVars
    <2>2. \/ pc' = pc
          \/ pc[r] \in {"acquire", "setrls"} /\ \E where \in {"setrls", "exec", "end"} : pc' = [pc EXCEPT ![r] = where]
          \/ pc[r] \in {"scan", "expand"} /\ \E where \in PCs \ Early : pc' = [pc EXCEPT ![r] = where]
          \/ pc[r] = "fetch" /\ pc' = [pc EXCEPT ![r] = "finish"]
          \/ \E where \in PCs \ (Early \cup Middle) : pc' = [pc EXCEPT ![r] = where]
      BY <1>7 DEF Acquire, ExpandAcquire, TurnAway, Disconnect, SetRLSContext, Fail, Scan,
         ExpandInTx, ExpandCancelled, ExpandPanics, FetchRelated, NothingToCommit,
         Publish, Cleanup, Deliver, Respond, AfterAnswer, Goto, PCs
    <2>3. pc[r] = "fetch" => ~op[r].claims
      BY DEF IInv, Stages
    <2>4. QED
      BY <1>1, <1>6, <2>1, <2>2, <2>3
  <1>8. CASE UNCHANGED vars
    BY <1>6, <1>8 DEF vars, reqVars, dbVars, tableVars
  <1>9. QED
    BY <1>2, <1>3, <1>4, <1>5, <1>7, <1>8 DEF Next, Handle, AllServed

\* A successful create, update or delete is announced once, a failed one never.
\* Without claims what is announced is in the database, but for a create or an update
\* whose COMMIT is still to come or was refused (scanRow, publishEvent).
THEOREM AnnouncementsAreExact == Spec => []AnnouncedOnce
  <1>1. IInv /\ Told /\ Committed => AnnouncedOnce
    <2> SUFFICES ASSUME IInv, Told, Committed, NEW r \in Requests
                 PROVE  LET times == Cardinality({i \in DOMAIN events : events[i] = r})
                        IN /\ times <= 1
                           /\ pc[r] = "end" /\ op[r].kind \in Announced =>
                                (times = 1 <=> status[r] = "ok")
                           /\ times = 1 /\ ~op[r].claims /\ result[r] = "row" =>
                                r \in committed \/ (op[r].kind \in OneRow /\ r \in pending \cup refused)
      BY DEF AnnouncedOnce
    <2> DEFINE times == Cardinality({i \in DOMAIN events : events[i] = r})
    <2>1. (Sent(r) /\ times = 1) \/ (~Sent(r) /\ times = 0)
      <3>1. CASE Sent(r)
        <4>1. PICK i \in DOMAIN events : events[i] = r
          BY <3>1 DEF Sent
        <4>2. {j \in DOMAIN events : events[j] = r} = {i}
          BY <4>1 DEF Told
        <4>3. QED
          BY <3>1, <4>2, FS_Singleton
      <3>2. CASE ~Sent(r)
        <4>1. {j \in DOMAIN events : events[j] = r} = {}
          BY <3>2 DEF Sent
        <4>2. QED
          BY <3>2, <4>1, FS_EmptySet
      <3>3. QED
        BY <3>1, <3>2
    <2> HIDE DEF times
    <2>2. times <= 1
      BY <2>1
    <2>3. pc[r] = "end" /\ op[r].kind \in Announced => (times = 1 <=> status[r] = "ok")
      BY <2>1 DEF Told
    <2>4. times = 1 /\ ~op[r].claims /\ result[r] = "row" =>
            r \in committed \/ (op[r].kind \in OneRow /\ r \in pending \cup refused)
      <3> SUFFICES ASSUME times = 1, ~op[r].claims, result[r] = "row", r \notin committed
                   PROVE  op[r].kind \in OneRow /\ r \in pending \cup refused
        OBVIOUS
      <3>1. Wrote(r) /\ status[r] = "ok"
        BY <2>1 DEF Told, Wrote, Announced, Writes
      <3>2. r \in pending \cup refused
        BY <3>1 DEF Committed
      <3>3. QED
        BY <3>1, <3>2 DEF Committed, IInv, Shape
    <2>5. QED
      BY <2>2, <2>3, <2>4 DEF times
  <1>2. QED
    BY <1>1, InitTold, ToldNext, CommittedNext, RecordsInvariant, PTL DEF Spec

-----------------------------------------------------------------------------
(***************************************************************************)
(* What becomes of an acknowledged write.                                  *)
(***************************************************************************)
\* scanRow has read one row and left the result set open.
Unread(r) == op[r].kind \in OneRow /\ result[r] = "row"

\* When the transaction is to be committed, its connection is busy exactly if
\* the result set was left open.
Reading ==
  \A r \in Requests :
    /\ pc[r] \in {"setrls", "exec", "scan"} => conn[r] \notin busy
    /\ op[r].claims /\ pc[r] \in {"expand", "finish"} => (conn[r] \in busy <=> Unread(r))

\* Without claims an acknowledged write is in the database, or comes from scanRow
\* and its COMMIT is still to come or was refused.  With claims it never is when its
\* answer came from scanRow, and it is, unless the client left or the database
\* refused the COMMIT, when it did not.  What was refused is not in the database.
KeptUnlessUnread ==
  \A r \in Requests : status[r] = "ok" /\ Wrote(r) =>
    /\ ~op[r].claims => r \in committed \/ (op[r].kind \in OneRow /\ r \in pending \cup refused)
    /\ op[r].claims /\ op[r].kind \in OneRow => r \notin committed
    /\ op[r].claims /\ op[r].kind \notin OneRow => r \in committed \/ r \in gone \/ r \in refused
    /\ r \in pending \cup refused => r \notin committed

Kept ==
  \A r \in Requests : op[r].claims /\ Wrote(r) =>
    /\ op[r].kind \in OneRow => r \notin committed
    /\ op[r].kind \notin OneRow /\ status[r] = "ok" => r \in committed \/ r \in gone \/ r \in refused

LEMMA ReadingNext == IInv /\ Reading /\ [Next]_vars => Reading'
  <1> SUFFICES ASSUME IInv, Reading, [Next]_vars PROVE Reading'
    OBVIOUS
  <1>1. /\ pc \in [Requests -> PCs] /\ op \in [Requests -> Op]
        /\ conn \in [Requests -> Conns \cup {NoConn}] /\ busy \subseteq Conns
        /\ result \in [Requests -> {"none", "row", "error"}]
        /\ NoConn \notin Conns
    BY RecordsAssumption DEF IInv, TypeOK
  <1> DEFINE Reads(s) ==
        /\ pc[s] \in {"setrls", "exec", "scan"} => conn[s] \notin busy
        /\ op[s].claims /\ pc[s] \in {"expand", "finish"} => (conn[s] \in busy <=> Unread(s))
  <1>2. \A r, s \in Requests : r # s /\ conn[r] \in Conns => conn[r] # conn[s]
    BY DEF IInv, Exclusive
  \* What a step of one request leaves to the others.
  <1>3. ASSUME NEW r \in Requests, NEW s \in Requests, s # r,
               pc'[s] = pc[s], op'[s] = op[s], conn'[s] = conn[s], result'[s] = result[s],
               \A c \in Conns : c # conn[r] => (c \in busy' <=> c \in busy), busy' \subseteq Conns
        PROVE  Reads(s)'
    <2>1. conn[s] \in Conns => conn[s] # conn[r]
      BY <1>1, <1>2, <1>3
    <2>2. conn[s] \in busy' <=> conn[s] \in busy
      BY <1>1, <1>3, <2>1
    <2>3. Unread(s)' <=> Unread(s)
      BY <1>3 DEF Unread
    <2>4. QED
      BY <1>3, <2>2, <2>3 DEF Reading
  <1>4. ASSUME NEW r \in Requests, NEW where \in {"acquire", "write", "publish", "cleanup", "end"},
               pc' = [pc EXCEPT ![r] = where],
               \A s \in Requests \ {r} : op'[s] = op[s] /\ conn'[s] = conn[s] /\ result'[s] = result[s],
               busy' \subseteq busy, \A c \in Conns : c # conn[r] => (c \in busy' <=> c \in busy)
        PROVE  Reading'
    <2>1. \A s \in Requests \ {r} : Reads(s)'
      BY <1>1, <1>3, <1>4
    <2>2. Reads(r)'
      BY <1>1, <1>4
    <2>3. QED
      BY <2>1, <2>2 DEF Reading
  <1>5. ASSUME NEW r \in Requests, Arrive(r) \/ TurnAway(r) PROVE Reading'
    <2>1. /\ \E where \in {"acquire", "end"} : pc' = [pc EXCEPT ![r] = where]
          /\ \A s \in Requests \ {r} : op'[s] = op[s]
          /\ UNCHANGED <<conn, result, busy>>
      BY <1>1, <1>5 DEF Arrive, TurnAway, Goto, connVars
    <2>2. QED
      BY <1>4, <2>1
  <1>6. ASSUME NEW r \in Requests, NEW c \in Conns, Acquire(r, c) PROVE Reading'
    <2>1. /\ \E where \in {"setrls", "exec"} : pc' = [pc EXCEPT ![r] = where]
          /\ conn' = [conn EXCEPT ![r] = c] /\ UNCHANGED <<op, result, busy>>
      BY <1>6 DEF Acquire, Goto
    <2>2. c \notin busy
      BY <1>6 DEF Acquire, IInv, CleanPool
    <2>3. \A s \in Requests \ {r} : Reads(s)'
      BY <1>1, <1>3, <2>1
    <2>4. Reads(r)'
      BY <1>1, <2>1, <2>2
    <2>5. QED
      BY <2>3, <2>4 DEF Reading
  <1>7. ASSUME NEW r \in Requests, SetRLSContext(r) \/ Execute(r) PROVE Reading'
    <2>1. /\ pc[r] \in {"setrls", "exec"}
          /\ \E where \in {"exec", "scan"} : pc' = [pc EXCEPT ![r] = where]
          /\ \A s \in Requests \ {r} : result'[s] = result[s]
          /\ UNCHANGED <<op, conn, busy>>
      BY <1>1, <1>7 DEF SetRLSContext, Execute, Goto, connVars
    <2>2. \A s \in Requests \ {r} : Reads(s)'
      BY <1>1, <1>3, <2>1
    <2>3. Reads(r)'
      BY <1>1, <2>1 DEF Reading
    <2>4. QED
      BY <2>2, <2>3 DEF Reading
  <1>8. ASSUME NEW r \in Requests, Fail(r) \/ Cleanup(r) PROVE Reading'
    <2>1. pc' = [pc EXCEPT ![r] = "end"] /\ Release(r) /\ UNCHANGED <<op, result>>
      BY <1>8 DEF Fail, Cleanup, Goto
    <2>2. QED
      BY <1>1, <1>4, <2>1 DEF Release
  <1>9. ASSUME NEW r \in Requests, Commit(r) \/ CommitFails(r) PROVE Reading'
    <2>1. Respond(r) /\ Release(r) /\ UNCHANGED <<op, result>>
      BY <1>9 DEF Commit, CommitFails
    <2>2. \E where \in {"write", "publish", "cleanup"} : pc' = [pc EXCEPT ![r] = where]
      BY <2>1 DEF Respond, AfterAnswer, Goto
    <2>3. QED
      BY <1>1, <1>4, <2>1, <2>2 DEF Release
  <1>10. ASSUME NEW r \in Requests, NothingToCommit(r) \/ Publish(r) \/ Deliver(r) PROVE Reading'
    <2>1. /\ \E where \in {"write", "publish", "cleanup"} : pc' = [pc EXCEPT ![r] = where]
          /\ UNCHANGED <<op, conn, result, busy>>
      BY <1>10 DEF NothingToCommit, Publish, Deliver, Respond, AfterAnswer, Goto, connVars
    <2>2. QED
      BY <1>4, <2>1
  <1>11. ASSUME NEW r \in Requests, Scan(r) PROVE Reading'
    <2>1. /\ pc[r] = "scan" /\ \E where \in {"expand", "finish"} : pc' = [pc EXCEPT ![r] = where]
          /\ UNCHANGED <<op, result>> /\ conn[r] \in Conns /\ conn[r] \notin busy
      BY <1>11 DEF Scan, Goto, IInv, Stages, Reading
    <2>2. \/ Unread(r) /\ busy' = busy \cup {conn[r]} /\ conn' = conn
          \/ ~Unread(r) /\ op[r].claims /\ busy' = busy /\ conn' = conn
          \/ ~op[r].claims /\ busy' = busy \ {conn[r]} /\ conn' = [conn EXCEPT ![r] = NoConn]
      BY <1>11 DEF Scan, KeepConn, Release, Unread
    <2>3. /\ \A c \in Conns : c # conn[r] => (c \in busy' <=> c \in busy)
          /\ busy' \subseteq Conns /\ \A s \in Requests \ {r} : conn'[s] = conn[s]
      BY <1>1, <2>1, <2>2
    <2>4. \A s \in Requests \ {r} : Reads(s)'
      BY <1>1, <1>3, <2>1, <2>3
    <2>5. Unread(r)' <=> Unread(r)
      BY <2>1 DEF Unread
    <2>6. Reads(r)'
      BY <1>1, <2>1, <2>2, <2>5
    <2>7. QED
      BY <2>4, <2>6 DEF Reading
  <1>12. ASSUME NEW r \in Requests,
                \/ \E c \in Conns : ExpandAcquire(r, c)
                \/ ExpandInTx(r) \/ ExpandCancelled(r) \/ FetchRelated(r)
         PROVE Reading'
    <2>1. /\ pc[r] = "expand" \/ ~op[r].claims
          /\ \E where \in {"fetch", "finish"} : pc' = [pc EXCEPT ![r] = where]
          /\ UNCHANGED <<op, conn, result, busy>>
      BY <1>12 DEF ExpandAcquire, ExpandInTx, ExpandCancelled, FetchRelated, Goto, connVars,
         IInv, Stages
    <2>2. \A s \in Requests \ {r} : Reads(s)'
      BY <1>1, <1>3, <2>1
    <2>3. Unread(r)' <=> Unread(r)
      BY <2>1 DEF Unread
    <2>4. Reads(r)'
      BY <1>1, <2>1, <2>3 DEF Reading
    <2>5. QED
      BY <2>2, <2>4 DEF Reading
  <1>13. CASE (\E r \in Requests : Disconnect(r)) \/ UNCHANGED vars
    <2>1. UNCHANGED <<pc, op, conn, result, busy>>
      BY <1>13 DEF Disconnect, vars, reqVars, connVars
    <2>2. QED
      BY <2>1 DEF Reading, Unread
  <1>14. ASSUME NEW r \in Requests, ExpandPanics(r) PROVE Reading'
    <2>1. /\ pc' = [pc EXCEPT ![r] = "end"] /\ UNCHANGED <<op, result>>
          /\ busy' = busy \ {conn[r]} /\ \A s \in Requests \ {r} : conn'[s] = conn[s]
      BY <1>1, <1>14 DEF ExpandPanics, Release, Goto
    <2>2. QED
      BY <1>1, <1>4, <2>1
  <1>15. ASSUME NEW r \in Requests, Settle(r) PROVE Reading'
    <2>1. UNCHANGED <<pc, op, conn, busy>>
      BY <1>15 DEF Settle, connVars
    <2>2. \A s \in Requests : Unread(s)' <=> Unread(s)
      BY <1>1, <1>15 DEF Settle, Unread
    <2>3. QED
      BY <2>1, <2>2 DEF Reading
  <1>16. QED
    BY <1>5, <1>6, <1>7, <1>8, <1>9, <1>10, <1>11, <1>12, <1>13, <1>14, <1>15 DEF Next, Handle, AllServed

LEMMA KeptNext == IInv /\ Committed /\ Reading /\ Kept /\ [Next]_vars => Kept'
  <1> SUFFICES ASSUME IInv, Committed, Reading, Kept, [Next]_vars PROVE Kept'
    OBVIOUS
  <1>1. /\ pc \in [Requests -> PCs] /\ op \in [Requests -> Op]
        /\ result \in [Requests -> {"none", "row", "error"}]
        /\ status \in [Requests -> {"none", "ok", "notfound", "error"}]
    BY DEF IInv, TypeOK
  <1>2. ASSUME NEW r \in Requests, Arrive(r) PROVE Kept'
    <2>1. /\ pc[r] = "idle" /\ UNCHANGED <<result, status, committed, refused, gone>>
          /\ \A s \in Requests \ {r} : op'[s] = op[s]
      BY <1>1, <1>2 DEF Arrive, dbVars, tableVars
    <2>2. result[r] = "none"
      BY <2>1 DEF Committed, Early
    <2>3. QED
      BY <1>1, <2>1, <2>2 DEF Kept, Wrote
  <1>3. ASSUME NEW r \in Requests, Execute(r) PROVE Kept'
    <2>1. pc[r] = "exec" /\ UNCHANGED <<op, status, gone>>
      BY <1>3 DEF Execute
    <2>2. status[r] = "none" /\ (op[r].claims => r \notin committed)
      BY <2>1 DEF IInv, Traces
    <2>3. PICK out \in Outcomes(r) :
            /\ result' = [result EXCEPT ![r] = out]
            /\ UNCHANGED <<committed, refused>>
      BY <1>3 DEF Execute, dbVars, tableVars
    <2>4. QED
      BY <1>1, <2>1, <2>2, <2>3 DEF Kept, Wrote
  <1>4. ASSUME NEW r \in Requests, Commit(r) PROVE Kept'
    <2>1. /\ UNCHANGED <<op, result, gone, refused>> /\ \E a \in {"ok", "notfound"} : status' = [status EXCEPT ![r] = a]
          /\ op[r].claims /\ pc[r] = "finish" /\ conn[r] \notin busy
          /\ IF Wrote(r) THEN committed' = committed \cup {r} ELSE committed' = committed
      BY <1>4 DEF Commit, Respond, AfterAnswer, Answer, Apply
    <2>2. ~Unread(r)
      BY <2>1 DEF Reading
    <2>3. QED
      BY <1>1, <2>1, <2>2 DEF Kept, Wrote, Unread
  <1>5. ASSUME NEW r \in Requests, CommitFails(r) PROVE Kept'
    <2>1. /\ UNCHANGED <<op, result, gone, committed>> /\ \E a \in {"ok", "notfound"} : status' = [status EXCEPT ![r] = a]
          /\ op[r].claims /\ pc[r] = "finish" /\ (conn[r] \in busy \/ r \in gone \/ r \in refused')
          /\ refused \subseteq refused'
      BY <1>5 DEF CommitFails, Respond, AfterAnswer, Answer
    <2>2. op[r].kind \in OneRow \/ r \in gone \/ r \in refused'
      BY <2>1 DEF Reading, Unread
    <2>3. QED
      BY <1>1, <2>1, <2>2 DEF Kept, Wrote
  <1>6. ASSUME NEW r \in Requests, NothingToCommit(r) PROVE Kept'
    <2>1. /\ UNCHANGED <<op, result, gone, committed, refused>> /\ ~op[r].claims
          /\ \A s \in Requests \ {r} : status'[s] = status[s]
      BY <1>1, <1>6 DEF NothingToCommit, Respond, AfterAnswer, Answer, dbVars, tableVars
    <2>2. QED
      BY <1>1, <2>1 DEF Kept, Wrote
  <1>7. ASSUME NEW r \in Requests, TurnAway(r) \/ Fail(r) \/ ExpandPanics(r) PROVE Kept'
    <2>1. status' = [status EXCEPT ![r] = "error"] /\ UNCHANGED <<op, result, gone, committed, refused>>
      BY <1>7 DEF TurnAway, Fail, ExpandPanics, Answer, dbVars, tableVars
    <2>2. QED
      BY <1>1, <2>1 DEF Kept, Wrote
  <1>8. ASSUME UNCHANGED <<op, result, status, committed, refused>>, gone \subseteq gone' PROVE Kept'
    BY <1>8 DEF Kept, Wrote
  <1>9. ASSUME NEW r \in Requests,
               \/ \E c \in Conns : Acquire(r, c) \/ ExpandAcquire(r, c)
               \/ Disconnect(r) \/ SetRLSContext(r) \/ Scan(r)
               \/ ExpandInTx(r) \/ ExpandCancelled(r) \/ FetchRelated(r)
               \/ Publish(r) \/ Cleanup(r) \/ Deliver(r)
        PROVE Kept'
    <2>1. UNCHANGED <<op, result, status, committed, refused>> /\ gone \subseteq gone'
      BY <1>9 DEF Acquire, ExpandAcquire, Disconnect, SetRLSContext, Scan, ExpandInTx,
         ExpandCancelled, FetchRelated, Publish, Cleanup, Deliver, dbVars, tableVars
    <2>2. QED
      BY <1>8, <2>1
  <1>10. CASE UNCHANGED vars
    BY <1>8, <1>10 DEF vars, reqVars, dbVars, tableVars
  <1>11. ASSUME NEW r \in Requests, Settle(r) PROVE Kept'
    <2>1. /\ UNCHANGED <<op, status, gone>> /\ ~op[r].claims
          /\ \A s \in Requests \ {r} : /\ result'[s] = result[s]
                                       /\ s \in committed' <=> s \in committed
                                       /\ s \in refused' <=> s \in refused
      BY <1>1, <1>11 DEF Settle, Apply, IInv, Shape
    <2>2. QED
      BY <1>1, <2>1 DEF Kept, Wrote
  <1>12. QED
    BY <1>2, <1>3, <1>4, <1>5, <1>6, <1>7, <1>9, <1>10, <1>11 DEF Next, Handle, AllServed

\* The exact extent of finding 1: which acknowledged writes are in the database
\* is decided by whether scanRow answered them (withRLS, handleCreate,
\* handleUpdate, handleRPC, scanRow).
THEOREM UnreadWritesAreLost == Spec => []KeptUnlessUnread
  <1>1. Init => Reading /\ Kept
    BY DEF Init, Reading, Kept, Wrote
  <1>2. IInv /\ Committed /\ Kept => KeptUnlessUnread
    <2> SUFFICES ASSUME IInv, Committed, Kept, NEW r \in Requests, status[r] = "ok", Wrote(r),
                        ~op[r].claims
                 PROVE  r \in committed \/ (op[r].kind \in OneRow /\ r \in pending \cup refused)
      BY DEF Committed, Kept, KeptUnlessUnread
    <2>1. QED
      BY DEF Committed, IInv, Shape, Wrote
  <1>3. QED
    BY <1>1, <1>2, InitTold, ReadingNext, KeptNext, CommittedNext, RecordsInvariant, PTL DEF Spec

-----------------------------------------------------------------------------
(***************************************************************************)
(* Progress, as far as safety goes: handlers never go back, and there is   *)
(* always one that nothing holds up.                                       *)
(***************************************************************************)
\* How far a handler is from its end.
Rank == [idle |-> 11, acquire |-> 10, setrls |-> 9, exec |-> 8, scan |-> 7, expand |-> 6,
         fetch |-> 5, finish |-> 4, write |-> 3, publish |-> 2, cleanup |-> 1, end |-> 0]

\* A client leaves, a COMMIT is over, or one handler comes nearer to its end.
Advances ==
  \/ pc' = pc /\ gone \subseteq gone' /\ gone' # gone
  \/ pc' = pc /\ gone' = gone /\ pending' \subseteq pending /\ pending' # pending
  \/ /\ gone' = gone
     /\ \E r \in Requests :
          /\ Rank[pc'[r]] < Rank[pc[r]]
          /\ \A s \in Requests \ {r} : pc'[s] = pc[s]

Active(r) == pc[r] \notin {"idle", "write", "end"}

\* Requests that can keep a connection while they wait: without claims, and with a
\* single row to expand or to write to the client; and those that panicked.
Takers ==
  panicked \cup
  {r \in Requests : /\ pc[r] # "idle" /\ ~op[r].claims /\ op[r].kind \in OneRow
                    /\ op[r].expand \/ pc[r] = "write"}

NeverAllBlocked ==
  Cardinality(Takers) < Cardinality(Conns) /\ (\E r \in Requests : Active(r)) =>
    pending # {} \/ \E r \in Requests : pc[r] \notin {"idle", "end"} /\ ~Blocked(r)

\* No step takes a handler back, so no request keeps the server working for ever:
\* there are at most eleven steps to each, and the COMMIT of its statement (every
\* handler of api/handler.go and rpc.go).
THEOREM HandlersAdvance == Spec => [][Advances]_vars
  <1>1. ASSUME TypeOK, Next, vars' # vars PROVE Advances
    <2>1. pc \in [Requests -> PCs] /\ gone \subseteq Requests
      BY <1>1 DEF TypeOK
    <2> DEFINE Step(r, to) == pc' = [pc EXCEPT ![r] = to] /\ gone' = gone /\ Rank[to] < Rank[pc[r]]
    <2>3. ASSUME NEW r \in Requests, NEW to \in PCs, Step(r, to) PROVE Advances
      BY <2>1, <2>3 DEF Advances
    <2>4. ASSUME NEW r \in Requests, Disconnect(r) PROVE Advances
      BY <2>4 DEF Disconnect, Advances
    <2>5. ASSUME NEW r \in Requests, Arrive(r) \/ TurnAway(r) PROVE Advances
      <3>1. Step(r, "acquire") \/ Step(r, "end")
        BY <2>5 DEF Arrive, TurnAway, Goto, Rank
      <3>2. QED
        BY <2>3, <3>1 DEF PCs
    <2>6. ASSUME NEW r \in Requests, NEW c \in Conns, Acquire(r, c) \/ ExpandAcquire(r, c)
          PROVE Advances
      <3>1. Step(r, "setrls") \/ Step(r, "exec") \/ Step(r, "fetch")
        BY <2>6 DEF Acquire, ExpandAcquire, Goto, Rank
      <3>2. QED
        BY <2>3, <3>1 DEF PCs
    <2>7. ASSUME NEW r \in Requests, SetRLSContext(r) \/ Execute(r) \/ Scan(r) PROVE Advances
      <3>1. Step(r, "exec") \/ Step(r, "scan") \/ Step(r, "expand") \/ Step(r, "finish")
        BY <2>7 DEF SetRLSContext, Execute, Scan, Goto, Rank
      <3>2. QED
        BY <2>3, <3>1 DEF PCs
    <2>8. ASSUME NEW r \in Requests, Fail(r) \/ Cleanup(r) \/ ExpandPanics(r) PROVE Advances
      <3>1. Step(r, "end")
        BY <2>8 DEF Fail, Cleanup, ExpandPanics, Goto, Rank
      <3>2. QED
        BY <2>3, <3>1 DEF PCs
    <2>9. ASSUME NEW r \in Requests, ExpandInTx(r) \/ ExpandCancelled(r) \/ FetchRelated(r)
          PROVE Advances
      <3>1. Step(r, "finish")
        BY <2>9 DEF ExpandInTx, ExpandCancelled, FetchRelated, Goto, Rank
      <3>2. QED
        BY <2>3, <3>1 DEF PCs
    <2>10. ASSUME NEW r \in Requests, NothingToCommit(r) \/ Commit(r) \/ CommitFails(r) \/ Publish(r)
                         \/ Deliver(r)
           PROVE Advances
      <3>1. Step(r, "write") \/ Step(r, "publish") \/ Step(r, "cleanup")
        BY <2>10 DEF NothingToCommit, Commit, CommitFails, Publish, Deliver, Respond, AfterAnswer, Goto, Rank
      <3>2. QED
        BY <2>3, <3>1 DEF PCs
    <2>11. ASSUME NEW r \in Requests, Settle(r) PROVE Advances
      BY <2>11 DEF Settle, Advances
    <2>12. QED
      BY <1>1, <2>4, <2>5, <2>6, <2>7, <2>8, <2>9, <2>10, <2>11 DEF Next, Handle, AllServed
  <1>2. TypeOK /\ [Next]_vars => [Advances]_vars
    BY <1>1
  <1>3. QED
    BY <1>2, RecordsTypes, PTL DEF Spec

\* As long as fewer requests than there are connections can keep one while they wait,
\* some handler goes on, or a COMMIT is under way: whoever keeps a row locked needs
\* neither a connection nor a row any more (withRLS, expandManyToOne, handleRead).
THEOREM SomeHandlerCanMove ==
  ASSUME IsFiniteSet(Requests), IsFiniteSet(Conns)
  PROVE  Spec => []NeverAllBlocked
  <1>1. IInv /\ OnlyNestingBlocks => NeverAllBlocked
    <2> SUFFICES ASSUME IInv, OnlyNestingBlocks,
                        Cardinality(Takers) < Cardinality(Conns),
                        NEW r \in Requests, Active(r), pending = {},
                        \A s \in Requests : pc[s] \in {"idle", "end"} \/ Blocked(s)
                 PROVE  FALSE
      BY DEF NeverAllBlocked
    <2>1. \A c \in Conns : Taken(c)
      BY DEF OnlyNestingBlocks, Active, PoolTaken
    \* Each connection has a keeper, and no two have the same.
    <2>2. ASSUME NEW c \in Conns PROVE \E s \in Takers : conn[s] = c
      <3>1. PICK s \in Requests :
              /\ conn[s] = c
              /\ \/ pc[s] = "expand" /\ op[s].kind = "read" /\ ~op[s].claims
                 \/ pc[s] = "write" /\ op[s].kind \in OneRow /\ ~op[s].claims
                 \/ s \in panicked
        BY <2>1 DEF Taken
      <3>2. s \in Takers
        BY <3>1 DEF Takers, OneRow, IInv, Shape
      <3>3. QED
        BY <3>1, <3>2
    <2> DEFINE keeper == [c \in Conns |-> CHOOSE s \in Takers : conn[s] = c]
    <2>3. keeper \in [Conns -> Takers] /\ \A c \in Conns : conn[keeper[c]] = c
      BY <2>2
    <2>4. Takers \subseteq Requests
      BY DEF Takers, IInv, TypeOK
    <2>5. IsFiniteSet(Takers)
      BY <2>4, FS_Subset
    <2> HIDE DEF keeper
    <2>6. PICK c \in Conns, d \in Conns : c # d /\ keeper[c] = keeper[d]
      BY <2>3, <2>5, FS_PigeonHole
    <2>7. QED
      BY <2>3, <2>6
  <1>2. QED
    BY <1>1, RecordsInvariant, HandlersBlockByNesting, PTL

-----------------------------------------------------------------------------
(***************************************************************************)
(* Pages.  Numbers that fit are not changed; the rest is arithmetic of     *)
(* multiples.                                                              *)
(***************************************************************************)
\* Nothing is lost of what fits.
LEMMA WrapKeeps ==
  ASSUME NEW n \in Int, -MaxInt - 1 <= n, n <= MaxInt
  PROVE  Wrap(n) = n
<1>1. n + MaxInt + 1 \in 0..(2 * (MaxInt + 1) - 1)
  BY MaxIntAssumption
<1>2. (n + MaxInt + 1) % (2 * (MaxInt + 1)) = n + MaxInt + 1
  BY <1>1, MaxIntAssumption
<1> QED
  BY <1>2, MaxIntAssumption DEF Wrap

LEMMA Products ==
  ASSUME NEW a \in Int, NEW b \in Int, NEW s \in Nat \ {0}
  PROVE  a * s \in Int /\ (a * s <= b * s <=> a <= b) /\ (a + 1) * s = a * s + s
  BY SMT

LEMMA Quotients ==
  ASSUME NEW a \in Int, NEW s \in Nat \ {0}
  PROVE  a \div s \in Int /\ (a \div s) * s <= a /\ a < (a \div s) * s + s
  BY SMT

LEMMA PerPageRange == ASSUME NEW p \in Int PROVE PerPage(p) \in 1..500
  BY DEF PerPage

(***************************************************************************)
(* Where the pages lie: one after the other from the first row on, the     *)
(* last of them reaching the last row (buildList, handleList).             *)
(***************************************************************************)
LEMMA PagesInARow ==
  ASSUME NEW rows \in 0..MaxInt, NEW perPage \in Int
  PROVE  LET size == PerPage(perPage)
             pages == TotalPages(rows, perPage)
         IN /\ pages \in Nat /\ rows <= pages * size
            /\ \A page \in 1..pages :
                 (page - 1) * size \in 0..(rows - 1) /\ Offset(page, perPage) = (page - 1) * size
            /\ \A k \in 1..rows : \E page \in 1..pages : (page - 1) * size < k /\ k <= page * size
<1> DEFINE size == PerPage(perPage)
           pages == TotalPages(rows, perPage)
<1>1. size \in Nat \ {0} /\ rows \in Nat /\ rows <= MaxInt /\ MaxInt \in Nat
  <2>1. MaxInt \in Nat
    BY MaxIntAssumption
  <2>2. rows \in Nat /\ rows <= MaxInt
    BY <2>1
  <2>3. size \in 1..500
    BY PerPageRange
  <2> HIDE DEF size
  <2>4. size \in Nat \ {0}
    BY <2>3
  <2> QED
    BY <2>1, <2>2, <2>4
<1>2. pages = (rows + size - 1) \div size
  BY DEF TotalPages
<1> HIDE DEF size, pages
<1>3. /\ pages \in Int /\ pages * size <= rows + size - 1 /\ rows + size - 1 < pages * size + size
  <2>1. rows + size - 1 \in Int
    BY <1>1
  <2> QED
    BY <1>1, <1>2, <2>1, Quotients
<1>4. pages \in Nat
  <2>1. 0 * size <= (pages + 1) * size <=> 0 <= pages + 1
    BY <1>1, <1>3, Products
  <2>2. (pages + 1) * size = pages * size + size /\ pages * size \in Int
    BY <1>1, <1>3, Products
  <2>3. (pages + 1) * size <= 0 * size <=> pages + 1 <= 0
    BY <1>1, <1>3, Products
  <2> QED
    BY <1>1, <1>3, <2>1, <2>2, <2>3
<1>5. ASSUME NEW page \in 1..pages
      PROVE  (page - 1) * size \in 0..(rows - 1) /\ Offset(page, perPage) = (page - 1) * size
  <2>1. page \in Int /\ Page(page) = page
    BY <1>4 DEF Page
  <2>2. (page - 1) * size \in Int /\ page * size = (page - 1) * size + size
    <3>1. page - 1 \in Int /\ (page - 1) + 1 = page
      BY <2>1
    <3> QED
      BY <1>1, <3>1, Products
  <2>3. page * size <= pages * size
    BY <1>1, <1>4, <2>1, Products
  <2>4. 0 * size <= (page - 1) * size <=> 0 <= page - 1
    BY <1>1, <2>1, Products
  <2>5. (page - 1) * size \in 0..(rows - 1)
    BY <1>1, <1>3, <2>1, <2>2, <2>3, <2>4
  <2> QED
    BY <1>1, <2>1, <2>5, WrapKeeps DEF Offset, size
<1>6. ASSUME NEW k \in 1..rows
      PROVE  \E page \in 1..pages : (page - 1) * size < k /\ k <= page * size
  <2> DEFINE n == (k - 1) \div size
  <2>1. k - 1 \in Int /\ k \in Int
    BY <1>1
  <2>2. n \in Int /\ n * size <= k - 1 /\ k - 1 < n * size + size
    BY <1>1, <2>1, Quotients
  <2> HIDE DEF n
  <2>3. (n + 1) * size = n * size + size /\ n * size \in Int
    BY <1>1, <2>2, Products
  <2>4. n >= 0
    <3>1. (n + 1) * size <= 0 * size <=> n + 1 <= 0
      BY <1>1, <2>2, Products
    <3> QED
      BY <1>1, <2>1, <2>2, <2>3, <3>1
  <2>5. n + 1 <= pages
    <3>1. pages * size <= n * size <=> pages <= n
      BY <1>1, <1>4, <2>2, Products
    <3> QED
      BY <1>1, <1>3, <1>4, <2>1, <2>2, <2>3, <3>1
  <2>6. n + 1 \in 1..pages /\ (n + 1) - 1 = n
    BY <1>4, <2>2, <2>4, <2>5
  <2>7. ((n + 1) - 1) * size < k /\ k <= (n + 1) * size
    BY <1>1, <2>1, <2>2, <2>3, <2>6
  <2> QED
    BY <2>6, <2>7
<1>7. rows <= pages * size
  BY <1>1, <1>3
<1> QED
  BY <1>4, <1>5, <1>6, <1>7 DEF size, pages

(***************************************************************************)
(* Whatever is asked for, however many rows match and however the database *)
(* orders those that tie: a row whose ties lie within a page is on exactly *)
(* that one of the pages the answer counts, rows appear only where their   *)
(* ties reach, none of the pages is empty, and a page past them is, unless *)
(* its offset wrapped.                                                     *)
(***************************************************************************)
THEOREM PagesPartition ==
  IsListing(listing) => PagesPartitionRows
<1> SUFFICES ASSUME IsListing(listing) PROVE PagesPartitionRows
  OBVIOUS
<1> DEFINE rows == listing.rows
           size == PerPage(listing.perPage)
           pages == TotalPages(rows, listing.perPage)
           Places(page) == OnPage(page, listing.perPage, rows)
           TiesOf(k) == {j \in 1..rows : Tied(listing, j, k)}
<1>1. /\ size \in Nat \ {0} /\ rows \in 0..MaxInt /\ listing.perPage \in Int
      /\ listing.page \in Int /\ MaxInt \in Nat
  <2>1. listing.page \in Int /\ listing.perPage \in Int /\ listing.rows \in 0..MaxInt
    BY DEF IsListing
  <2>2. size \in 1..500
    BY <2>1, PerPageRange
  <2> HIDE DEF size
  <2>3. size \in Nat \ {0}
    BY <2>2
  <2> QED
    BY <2>1, <2>3, MaxIntAssumption
<1>2. /\ pages \in Nat /\ rows <= pages * size
      /\ \A page \in 1..pages :
           /\ (page - 1) * size \in 0..(rows - 1)
           /\ Offset(page, listing.perPage) = (page - 1) * size
      /\ \A k \in 1..rows : \E page \in 1..pages : (page - 1) * size < k /\ k <= page * size
  BY <1>1, PagesInARow
<1>3. \A page \in 1..pages :
        Places(page) = {k \in 1..rows : (page - 1) * size < k /\ k <= page * size}
  <2>1. ASSUME NEW page \in 1..pages
        PROVE  Places(page) = {k \in 1..rows : (page - 1) * size < k /\ k <= page * size}
    <3>0. page - 1 \in Int /\ (page - 1) + 1 = page
      BY <1>2
    <3>1. page * size = (page - 1) * size + size
      BY <1>1, <3>0, Products
    <3>2. Offset(page, listing.perPage) = (page - 1) * size /\ (page - 1) * size >= 0
      BY <1>1, <1>2
    <3> QED
      BY <1>1, <3>0, <3>1, <3>2 DEF OnPage
  <2> QED
    BY <2>1
<1> HIDE DEF size, pages, Places, TiesOf, rows
<1>4. ASSUME NEW k \in 1..rows
      PROVE  \E page \in 1..pages :
               k \in Places(page) /\ \A other \in (1..pages) \ {page} : k \notin Places(other)
  <2>1. PICK page \in 1..pages : (page - 1) * size < k /\ k <= page * size
    BY <1>2
  <2>2. ASSUME NEW other \in (1..pages) \ {page}
        PROVE  ~((other - 1) * size < k /\ k <= other * size)
    <3>1. /\ page \in Int /\ other \in Int /\ page - 1 \in Int /\ other - 1 \in Int
          /\ k \in Int
      BY <1>1, <1>2
    <3>2. /\ page * size \in Int /\ other * size \in Int
          /\ (page - 1) * size \in Int /\ (other - 1) * size \in Int
          /\ page * size <= (other - 1) * size <=> page <= other - 1
          /\ other * size <= (page - 1) * size <=> other <= page - 1
      BY <1>1, <3>1, Products
    <3> QED
      BY <2>1, <2>2, <3>1, <3>2
  <2> QED
    BY <1>3, <2>1, <2>2
<1>5. ASSUME listing.page > pages, ~Overflows(listing.page, listing.perPage)
      PROVE  Places(listing.page) = {}
  <2> DEFINE first == (listing.page - 1) * size
  <2>1. Page(listing.page) = listing.page /\ listing.page - 1 \in Int
    BY <1>1, <1>2, <1>5 DEF Page
  <2>2. first \in Int /\ pages * size <= first
    BY <1>1, <1>2, <1>5, <2>1, Products
  <2>3. first <= MaxInt
    BY <1>1, <1>5, <2>1, <2>2 DEF Overflows, size
  <2>4. first >= rows
    BY <1>1, <1>2, <2>2, Products
  <2>5. Offset(listing.page, listing.perPage) = first
    BY <1>1, <2>1, <2>2, <2>3, <2>4, WrapKeeps DEF Offset, size
  <2> HIDE DEF first
  <2>6. \A k \in 1..rows : ~(first < k)
    BY <1>1, <2>2, <2>4
  <2> QED
    BY <2>5, <2>6 DEF OnPage, Places
<1>6. ASSUME NEW page \in 1..pages PROVE Places(page) # {}
  <2> DEFINE k == (page - 1) * size + 1
  <2>1. (page - 1) * size \in 0..(rows - 1) /\ page - 1 \in Int /\ page \in Int
    BY <1>2, SMTT(30)
  <2>2. page * size = (page - 1) * size + size
    <3>1. (page - 1) + 1 = page
      BY <2>1
    <3> HIDE DEF size
    <3> QED
      BY <1>1, <2>1, <3>1, Products
  <2>3. k \in 1..rows /\ (page - 1) * size < k /\ k <= page * size
    BY <1>1, <2>1, <2>2
  <2> QED
    BY <1>3, <2>3
<1>7. ASSUME NEW page \in 1..pages
      PROVE  /\ listing.order[page] \in [1..rows -> 1..rows]
             /\ \A k \in 1..rows : \E place \in 1..rows : listing.order[page][place] = k
             /\ \A place \in 1..rows : Tied(listing, place, listing.order[page][place])
  <2>1. listing.order[page] \in Arrangements(listing)
    BY DEF IsListing, Asked, pages, rows
  <2> QED
    BY <2>1 DEF Arrangements, rows
<1>8. \A page \in Int : Places(page) \subseteq 1..rows /\ Shown(listing, page) = {listing.order[page][place] : place \in Places(page)}
  BY DEF Places, OnPage, Shown, rows
<1>9. \A page \in 1..pages : page \in Int
  BY <1>2
<1>10. ASSUME NEW k \in 1..rows, NEW page \in 1..pages, TiesOf(k) \subseteq Places(page),
              NEW other \in 1..pages
       PROVE  k \in Shown(listing, other) <=> other = page
  <2>1. PICK place \in 1..rows : listing.order[other][place] = k
    BY <1>7
  <2>2. place \in TiesOf(k)
    BY <1>7, <2>1 DEF TiesOf
  <2>3. other = page => k \in Shown(listing, other)
    BY <1>8, <1>9, <2>1, <2>2, <1>10
  <2>4. ASSUME k \in Shown(listing, other), other # page PROVE FALSE
    <3>1. PICK at \in Places(other) : listing.order[other][at] = k
      BY <1>8, <1>9, <2>4
    <3>2. at \in 1..rows
      BY <1>8, <1>9
    <3>3. at \in TiesOf(k)
      BY <1>7, <3>1, <3>2 DEF TiesOf
    <3>4. at \in Places(page) /\ at \in Places(other)
      BY <1>10, <3>1, <3>3
    <3> QED
      BY <1>4, <2>4, <3>2, <3>4
  <2> QED
    BY <2>3, <2>4
<1>11. ASSUME NEW page \in 1..pages
       PROVE  Shown(listing, page) # {} /\ \A k \in Shown(listing, page) : TiesOf(k) \cap Places(page) # {}
  <2>1. Shown(listing, page) # {}
    <3>1. PICK place : place \in Places(page)
      BY <1>6
    <3>2. listing.order[page][place] \in Shown(listing, page)
      BY <1>8, <1>9, <3>1
    <3> QED
      BY <3>2
  <2>2. ASSUME NEW k \in Shown(listing, page) PROVE TiesOf(k) \cap Places(page) # {}
    <3>1. PICK at \in Places(page) : listing.order[page][at] = k
      BY <1>8, <1>9
    <3>2. at \in 1..rows
      BY <1>8, <1>9
    <3> QED
      BY <1>7, <3>1, <3>2 DEF TiesOf
  <2> QED
    BY <2>1, <2>2
<1>12. listing.page > pages /\ ~Overflows(listing.page, listing.perPage)
         => Shown(listing, listing.page) = {}
  BY <1>1, <1>5, <1>8
<1> QED
  BY <1>4, <1>10, <1>11, <1>12 DEF PagesPartitionRows, pages, Places, TiesOf, rows

-----------------------------------------------------------------------------
(***************************************************************************)
(* Expanding the records of an answer.                                     *)
(***************************************************************************)
\* The rows of a batch of records.
OwnRows(records) == {rec.row : rec \in records}

\* The rows fetched for a batch that belong to one of its records are its mates: none of
\* them is left out by the query, and the index brings in nobody else's.
LEMMA FetchedMates ==
  ASSUME NEW rel, NEW rows, NEW records, Joinable(rel, rows, OwnRows(records)),
         NEW rec \in records, NEW r \in rows[rel.table]
  PROVE  /\ r \in Mates(rel, rows, rec.row) =>
              Record(r) \in Fetch(rel, rows, records) /\ Cell(rec.row, rel.cols[1]) # Null
                /\ SameInGo(Cell(rec.row, rel.cols[1]), Cell(r, rel.theirs[1]))
         /\ Cell(rec.row, rel.cols[1]) # Null /\ SameInGo(Cell(rec.row, rel.cols[1]), Cell(r, rel.theirs[1])) =>
              r \in Mates(rel, rows, rec.row)
<1> DEFINE u == Cell(rec.row, rel.cols[1])
           v == Cell(r, rel.theirs[1])
<1>1. r \in Mates(rel, rows, rec.row) <=> SameInSQL(u, v)
  BY DEF Mates, Joinable
<1>2. rec.row \in OwnRows(records)
  BY DEF OwnRows
<1>3. SameInSQL(u, v) => SameInGo(u, v)
  BY <1>2 DEF Joinable
<1>4. SameInSQL(u, v) => Record(r) \in Fetch(rel, rows, records)
  BY DEF Fetch
<1> HIDE DEF u, v
<1>5. SameInSQL(u, v) <=> u # Null /\ SameInGo(u, v)
  BY <1>3 DEF SameInSQL, SameInGo
<1> QED
  BY <1>1, <1>4, <1>5 DEF u, v

\* What is attached to a record when each fetched row r has become f[r].
LEMMA AttachedMates ==
  ASSUME NEW rel, NEW rows, NEW records, Joinable(rel, rows, OwnRows(records)),
         NEW f, \A r \in rows[rel.table] : f[r].row = r,
         NEW rec \in records
  PROVE  Attach(rel, {f[r.row] : r \in Fetch(rel, rows, records)}, rec)
           = WithMates(rel, rec, {f[r] : r \in Mates(rel, rows, rec.row)})
<1> DEFINE related == {f[r.row] : r \in Fetch(rel, rows, records)}
           own     == Cell(rec.row, rel.cols[1])
           mine    == {x \in related : own # Null /\ SameInGo(own, Cell(x.row, rel.theirs[1]))}
           mates   == {f[r] : r \in Mates(rel, rows, rec.row)}
           kept    == IF rel.many THEN mine ELSE {CHOOSE x \in mine : TRUE}
<1>1. \A x \in Fetch(rel, rows, records) : x = Record(x.row) /\ x.row \in rows[rel.table]
  BY DEF Fetch, Record
<1>2. \A r : Record(r).row = r
  BY DEF Record
<1>3. Mates(rel, rows, rec.row) \subseteq rows[rel.table]
  BY DEF Mates
<1>4. mates \subseteq mine
  <2> SUFFICES ASSUME NEW r \in Mates(rel, rows, rec.row) PROVE f[r] \in mine
    OBVIOUS
  <2>1. /\ Record(r) \in Fetch(rel, rows, records)
        /\ own # Null /\ SameInGo(own, Cell(r, rel.theirs[1]))
    BY <1>3, FetchedMates
  <2>2. f[Record(r).row] \in related
    BY <2>1
  <2>3. f[r] \in related /\ f[r].row = r
    BY <1>2, <1>3, <2>2
  <2> QED
    BY <2>1, <2>3
<1>5. mine \subseteq mates
  <2> SUFFICES ASSUME NEW x \in mine PROVE x \in mates
    OBVIOUS
  <2>1. PICK y \in Fetch(rel, rows, records) : x = f[y.row]
    OBVIOUS
  <2>2. y.row \in rows[rel.table] /\ x.row = y.row
    BY <1>1, <2>1
  <2>3. y.row \in Mates(rel, rows, rec.row)
    BY <2>2, FetchedMates
  <2>4. QED
    BY <2>1, <2>3
<1>6. Attach(rel, related, rec) = IF mine = {} THEN rec ELSE Put(rec, rel.field, kept)
  BY DEF Attach
\* Many-to-one, the row is the only one.
<1>7. ASSUME ~rel.many, NEW x \in mine, NEW y \in mine PROVE x = y
  <2>1. PICK r \in Mates(rel, rows, rec.row), s \in Mates(rel, rows, rec.row) : x = f[r] /\ y = f[s]
    BY <1>5
  <2>2. SameInSQL(own, Cell(r, rel.theirs[1])) /\ SameInSQL(own, Cell(s, rel.theirs[1]))
    BY DEF Mates, Joinable
  <2>3. SameInSQL(Cell(r, rel.theirs[1]), Cell(s, rel.theirs[1]))
    BY <2>2 DEF SameInSQL
  <2>4. r = s
    BY <1>3, <1>7, <2>3 DEF Joinable
  <2> QED
    BY <2>1, <2>4
<1> HIDE DEF mine, mates, related
<1>8. mine = mates
  BY <1>4, <1>5
<1>9. mine # {} => kept = mine
  <2> SUFFICES ASSUME mine # {}, ~rel.many PROVE {CHOOSE x \in mine : TRUE} = mine
    OBVIOUS
  <2>1. (CHOOSE x \in mine : TRUE) \in mine
    OBVIOUS
  <2> QED
    BY <1>7, <2>1
<1> HIDE DEF kept
<1> QED
  BY <1>6, <1>8, <1>9 DEF WithMates, related, mates

\* One step of expand, for all records at once, is the join row by row: each record of a
\* batch gets the rows the foreign key relates to its own row, all of them and no other
\* record's, whatever the batch, NULLs, repeated keys and columns not asked for included
\* (collectUniqueValues, fetchRelated and the index of expandManyToOne and
\* expandOneToMany).  It is so for keys of one column whose values Go's maps find, and
\* for references to a column that holds every value once.
THEOREM BatchIsJoin ==
  ASSUME NEW rel, NEW rows, NEW records, Joinable(rel, rows, OwnRows(records)), NEW rec \in records
  PROVE  Attach(rel, Fetch(rel, rows, records), rec)
           = WithMates(rel, rec, {Record(r) : r \in Mates(rel, rows, rec.row)})
<1> DEFINE f == [r \in rows[rel.table] |-> Record(r)]
<1>1. \A r \in rows[rel.table] : f[r].row = r
  BY DEF Record
<1>2. {f[x.row] : x \in Fetch(rel, rows, records)} = Fetch(rel, rows, records)
  <2>1. \A x \in Fetch(rel, rows, records) : f[x.row] = x
    BY DEF Fetch, Record
  <2>2. QED
    BY <2>1
<1>3. {f[r] : r \in Mates(rel, rows, rec.row)} = {Record(r) : r \in Mates(rel, rows, rec.row)}
  BY DEF Mates
<1> HIDE DEF f
<1>4. Attach(rel, {f[x.row] : x \in Fetch(rel, rows, records)}, rec)
        = WithMates(rel, rec, {f[r] : r \in Mates(rel, rows, rec.row)})
  BY <1>1, AttachedMates
<1> QED
  BY <1>2, <1>3, <1>4

\* The same along a path of two names, the longest that is followed (maxExpandDepth): what
\* is attached are the mates, each with its own mates, although the second step runs
\* once for the mates of all records together.
THEOREM NestedBatchIsJoin ==
  ASSUME NEW rel, NEW next, NEW rows, NEW records, NEW rec \in records,
         Joinable(rel, rows, OwnRows(records)),
         Joinable(next, rows, OwnRows(Fetch(rel, rows, records)))
  PROVE  LET fetched == Fetch(rel, rows, records)
             related == {Attach(next, Fetch(next, rows, fetched), r) : r \in fetched}
         IN Attach(rel, related, rec)
              = WithMates(rel, rec,
                  {WithMates(next, Record(r), {Record(s) : s \in Mates(next, rows, r)}) :
                     r \in Mates(rel, rows, rec.row)})
<1> DEFINE fetched == Fetch(rel, rows, records)
           related == {Attach(next, Fetch(next, rows, fetched), r) : r \in fetched}
           Own(r)  == WithMates(next, Record(r), {Record(s) : s \in Mates(next, rows, r)})
           f == [r \in rows[rel.table] |-> Own(r)]
<1>1. \A r \in rows[rel.table] : f[r].row = r
  BY DEF WithMates, Record, Put
<1>2. \A x \in fetched : x = Record(x.row) /\ x.row \in rows[rel.table]
  BY DEF Fetch, Record
<1>3. \A x \in fetched : Attach(next, Fetch(next, rows, fetched), x) = f[x.row]
  <2> SUFFICES ASSUME NEW x \in fetched
               PROVE  Attach(next, Fetch(next, rows, fetched), x) = f[x.row]
    OBVIOUS
  <2>1. Attach(next, Fetch(next, rows, fetched), x)
          = WithMates(next, x, {Record(s) : s \in Mates(next, rows, x.row)})
    BY BatchIsJoin
  <2>2. QED
    BY <1>2, <2>1
<1>4. related = {f[x.row] : x \in fetched}
  BY <1>3
<1>5. {f[r] : r \in Mates(rel, rows, rec.row)} = {Own(r) : r \in Mates(rel, rows, rec.row)}
  BY DEF Mates
<1> HIDE DEF f
<1>6. Attach(rel, {f[x.row] : x \in fetched}, rec)
        = WithMates(rel, rec, {f[r] : r \in Mates(rel, rows, rec.row)})
  BY <1>1, AttachedMates
<1> QED
  BY <1>4, <1>5, <1>6

-----------------------------------------------------------------------------
\* A set of numbers that is not empty has a least one.
LEMMA LeastNumber ==
  ASSUME NEW T, T \subseteq Nat, T # {}
  PROVE  \E x \in T : \A y \in T : x <= y
<1> DEFINE R == {ss \in Nat \X Nat : ss[1] < ss[2]}
<1>1. IsWellFoundedOn(R, Nat)
  BY NatLessThanWellFounded DEF OpToRel
<1>2. \E x \in T : \A y \in T : ~(<<y, x>> \in R)
  <2> HIDE DEF R
  <2> QED
    BY <1>1, WFMin
<1>3. PICK x \in T : \A y \in T : ~(y < x)
  BY <1>2
<1> QED
  BY <1>3

\* Induction over the naturals, for a set: what the sequences below are known by.
LEMMA Induction ==
  ASSUME NEW S, S \subseteq Nat, 0 \in S, \A n \in S : n + 1 \in S
  PROVE  S = Nat
<1> DEFINE T == Nat \ S
<1> SUFFICES ASSUME T # {} PROVE FALSE
  OBVIOUS
<1>1. PICK x \in T : \A y \in T : x <= y
  <2>1. T \subseteq Nat
    OBVIOUS
  <2> HIDE DEF T
  <2> QED
    BY <2>1, LeastNumber
<1>2. x # 0 /\ x - 1 \in Nat /\ x - 1 \in S
  BY <1>1
<1>3. (x - 1) + 1 \in S
  BY <1>2
<1> QED
  BY <1>2, <1>3

\* What two sequences hold, one after the other.
LEMMA BothHold ==
  ASSUME NEW U, NEW s \in Seq(U), NEW t \in Seq(U)
  PROVE  s \o t \in Seq(U) /\ ToSet(s \o t) = ToSet(s) \cup ToSet(t)
<1>1. s \o t \in Seq(U) /\ Len(s \o t) = Len(s) + Len(t)
  OBVIOUS
<1>2. \A i \in DOMAIN s : i \in DOMAIN (s \o t) /\ (s \o t)[i] = s[i]
  OBVIOUS
<1>3. \A i \in DOMAIN t : Len(s) + i \in DOMAIN (s \o t) /\ (s \o t)[Len(s) + i] = t[i]
  OBVIOUS
<1>4. \A i \in DOMAIN (s \o t) :
        i \in DOMAIN s \/ (i - Len(s) \in DOMAIN t /\ Len(s) + (i - Len(s)) = i)
  OBVIOUS
<1>5. ToSet(s) \subseteq ToSet(s \o t)
  BY <1>2 DEF ToSet
<1>6. ToSet(t) \subseteq ToSet(s \o t)
  BY <1>3 DEF ToSet
<1>7. ToSet(s \o t) \subseteq ToSet(s) \cup ToSet(t)
  <2> SUFFICES ASSUME NEW i \in DOMAIN (s \o t) PROVE (s \o t)[i] \in ToSet(s) \cup ToSet(t)
    BY DEF ToSet
  <2>1. CASE i \in DOMAIN s
    BY <1>2, <2>1 DEF ToSet
  <2>2. CASE i - Len(s) \in DOMAIN t /\ Len(s) + (i - Len(s)) = i
    <3>1. (s \o t)[i] = t[i - Len(s)]
      BY <1>3, <2>2
    <3> QED
      BY <2>2, <3>1 DEF ToSet
  <2> QED
    BY <1>4, <2>1, <2>2
<1> QED
  BY <1>1, <1>5, <1>6, <1>7

\* FlattenSeq holds what the sequences it joins hold, and nothing else.
LEMMA Flattened ==
  ASSUME NEW U, NEW seqs \in Seq(Seq(U))
  PROVE  /\ FlattenSeq(seqs) \in Seq(U)
         /\ \A u : u \in ToSet(FlattenSeq(seqs)) <=> \E n \in DOMAIN seqs : u \in ToSet(seqs[n])
<1>1. CASE Len(seqs) = 0
  <2>1. seqs = <<>> /\ FlattenSeq(seqs) = seqs
    BY <1>1 DEF FlattenSeq
  <2>2. DOMAIN seqs = {} /\ <<>> \in Seq(U)
    BY <2>1
  <2>3. ToSet(seqs) = {}
    BY <2>2 DEF ToSet
  <2> QED
    BY <2>1, <2>2, <2>3
<1>2. CASE Len(seqs) # 0
  <2> DEFINE Is(f, m) == f = [i \in 1..m |-> IF i = 1 THEN seqs[i] ELSE f[i - 1] \o seqs[i]]
             g == CHOOSE f : Is(f, Len(seqs))
  <2>1. Len(seqs) \in Nat
    OBVIOUS
  <2>2. \E f : Is(f, Len(seqs))
    <3> DEFINE S == {m \in Nat : \E f : Is(f, m)}
    <3>1. 0 \in S
      <4>1. Is([i \in 1..0 |-> seqs[i]], 0)
        OBVIOUS
      <4> QED
        BY <4>1
    <3>2. ASSUME NEW m \in S PROVE m + 1 \in S
      <4>1. PICK f : Is(f, m)
        OBVIOUS
      <4> DEFINE h == [i \in 1..(m + 1) |-> IF i = m + 1
                                            THEN (IF i = 1 THEN seqs[i] ELSE f[m] \o seqs[i])
                                            ELSE f[i]]
      <4>2. \A i \in 1..m : f[i] = IF i = 1 THEN seqs[i] ELSE f[i - 1] \o seqs[i]
        BY <4>1
      <4>3. \A i \in 1..(m + 1) : h[i] = IF i = 1 THEN seqs[i] ELSE h[i - 1] \o seqs[i]
        <5> SUFFICES ASSUME NEW i \in 1..(m + 1)
                     PROVE  h[i] = IF i = 1 THEN seqs[i] ELSE h[i - 1] \o seqs[i]
          OBVIOUS
        <5>1. i # 1 => i - 1 \in 1..m /\ h[i - 1] = f[i - 1]
          OBVIOUS
        <5>2. CASE i = m + 1
          BY <5>1, <5>2
        <5>3. CASE i # m + 1
          <6>1. i \in 1..m /\ h[i] = f[i]
            BY <5>3
          <6> QED
            BY <4>2, <5>1, <6>1
        <5> QED
          BY <5>2, <5>3
      <4>4. Is(h, m + 1)
        <5>1. h = [i \in 1..(m + 1) |-> h[i]]
          OBVIOUS
        <5> HIDE DEF h
        <5> QED
          BY <4>3, <5>1
      <4>5. m + 1 \in Nat
        OBVIOUS
      <4> HIDE DEF h, Is
      <4> QED
        BY <4>4, <4>5
    <3> HIDE DEF S
    <3>3. S = Nat
      BY <3>1, <3>2, Induction DEF S
    <3> QED
      BY <2>1, <3>3 DEF S
  <2>3. Is(g, Len(seqs))
    BY <2>2
  <2>4. FlattenSeq(seqs) = g[Len(seqs)]
    BY <1>2 DEF FlattenSeq
  <2>5. \A i \in 1..Len(seqs) : g[i] = IF i = 1 THEN seqs[i] ELSE g[i - 1] \o seqs[i]
    BY <2>3
  <2> HIDE DEF g
  <2> DEFINE Known(m) == /\ g[m] \in Seq(U)
                         /\ \A u : u \in ToSet(g[m]) <=> \E n \in 1..m : u \in ToSet(seqs[n])
             K == {m \in Nat : m \in 1..Len(seqs) => Known(m)}
  <2>6. 0 \in K
    OBVIOUS
  <2>7. ASSUME NEW m \in K PROVE m + 1 \in K
    <3> SUFFICES ASSUME m + 1 \in 1..Len(seqs) PROVE Known(m + 1)
      <4>1. m + 1 \in Nat
        OBVIOUS
      <4> HIDE DEF Known
      <4> QED
        BY <4>1
    <3>1. seqs[m + 1] \in Seq(U)
      OBVIOUS
    <3>2. CASE m = 0
      <4>1. 1 \in 1..Len(seqs) /\ m + 1 = 1
        BY <3>2
      <4>3. g[1] = seqs[1]
        BY <2>5, <4>1
      <4>2. 1..(m + 1) = {1}
        BY <3>2
      <4> QED
        BY <3>1, <4>1, <4>2, <4>3
    <3>3. CASE m # 0
      <4>1. m \in 1..Len(seqs) /\ Known(m)
        BY <2>1, <3>3
      <4>2. g[m + 1] = g[m] \o seqs[m + 1]
        <5>1. m + 1 # 1 /\ (m + 1) - 1 = m
          BY <3>3
        <5> QED
          BY <2>5, <5>1
      <4>3. 1..(m + 1) = (1..m) \cup {m + 1}
        OBVIOUS
      <4>4. g[m + 1] \in Seq(U) /\ ToSet(g[m + 1]) = ToSet(g[m]) \cup ToSet(seqs[m + 1])
        BY <3>1, <4>1, <4>2, BothHold
      <4> QED
        BY <4>1, <4>3, <4>4
    <3> QED
      BY <3>2, <3>3
  <2>8. K = Nat
    <3>1. K \subseteq Nat
      OBVIOUS
    <3> HIDE DEF K
    <3> QED
      BY <2>6, <2>7, <3>1, Induction
  <2>9. Known(Len(seqs))
    <3>1. Len(seqs) \in 1..Len(seqs)
      BY <1>2, <2>1
    <3>2. Len(seqs) \in K
      BY <2>1, <2>8
    <3> HIDE DEF Known
    <3> QED
      BY <3>1, <3>2
  <2>10. DOMAIN seqs = 1..Len(seqs)
    OBVIOUS
  <2> QED
    BY <2>4, <2>9, <2>10
<1> QED
  BY <1>1, <1>2

\* What introspection caches of a foreign key and of a table.
KeyRecords   == [cols : Seq(STRING), ref : STRING, refCols : Seq(STRING)]
TableRecords == [name : STRING, fks : Seq(KeyRecords)]

\* The sequences of none and of one element.
LEMMA FewElements ==
  ASSUME NEW U, NEW u \in U
  PROVE  /\ <<>> \in Seq(U) /\ ToSet(<<>>) = {}
         /\ <<u>> \in Seq(U) /\ ToSet(<<u>>) = {u}
  BY DEF ToSet

\* A foreign key gives two relationships: one to the table it is of, one to the table it
\* refers to; and a table has no others, in whatever order the tables come.
LEMMA RelationshipsOfKeys ==
  ASSUME NEW schema \in Seq(TableRecords), NEW name
  PROVE  /\ \E U : Relationships(schema, name) \in Seq(U)
         /\ \A u : u \in ToSet(Relationships(schema, name)) <=>
                \E key \in Keys(Tables(schema)) : \/ key.table = name /\ u = Forward(key.fk)
                                                  \/ key.fk.ref = name /\ u = Backward(key.table, key.fk)
<1> DEFINE U == {Forward(fk) : fk \in KeyRecords}
                \cup {Backward(table, fk) : table \in STRING, fk \in KeyRecords}
           Of(table, fk) == (IF table = name THEN <<Forward(fk)>> ELSE <<>>)
                            \o (IF fk.ref = name THEN <<Backward(table, fk)>> ELSE <<>>)
           Row(t) == [k \in DOMAIN t.fks |-> Of(t.name, t.fks[k])]
           From(t) == FlattenSeq(Row(t))
           All == [n \in DOMAIN schema |-> From(schema[n])]
           Gives(table, fk, u) == \/ table = name /\ u = Forward(fk)
                                  \/ fk.ref = name /\ u = Backward(table, fk)
<1>1. ASSUME NEW table \in STRING, NEW fk \in KeyRecords
      PROVE  /\ Of(table, fk) \in Seq(U)
             /\ \A u : u \in ToSet(Of(table, fk)) <=> Gives(table, fk, u)
  <2> DEFINE a == IF table = name THEN <<Forward(fk)>> ELSE <<>>
             b == IF fk.ref = name THEN <<Backward(table, fk)>> ELSE <<>>
  <2>1. Forward(fk) \in U /\ Backward(table, fk) \in U
    BY <1>1
  <2> HIDE DEF U
  <2>2. a \in Seq(U) /\ \A u : u \in ToSet(a) <=> table = name /\ u = Forward(fk)
    BY <2>1, FewElements
  <2>3. b \in Seq(U) /\ \A u : u \in ToSet(b) <=> fk.ref = name /\ u = Backward(table, fk)
    BY <2>1, FewElements
  <2> HIDE DEF a, b
  <2>4. a \o b \in Seq(U) /\ ToSet(a \o b) = ToSet(a) \cup ToSet(b)
    BY <2>2, <2>3, BothHold
  <2>5. Of(table, fk) = a \o b
    BY DEF a, b
  <2>6. \A u : u \in ToSet(Of(table, fk)) <=> u \in ToSet(a) \/ u \in ToSet(b)
    BY <2>4, <2>5
  <2>7. Of(table, fk) \in Seq(U)
    BY <2>4, <2>5
  <2> HIDE DEF Of
  <2> QED
    BY <2>2, <2>3, <2>6, <2>7
<1> HIDE DEF U, Of, Gives
<1>2. ASSUME NEW t \in TableRecords
      PROVE  /\ From(t) \in Seq(U)
             /\ \A u : u \in ToSet(From(t)) <=> \E k \in DOMAIN t.fks : Gives(t.name, t.fks[k], u)
  <2>1. t.name \in STRING /\ t.fks \in Seq(KeyRecords)
    BY <1>2 DEF TableRecords
  <2>2. \A k \in DOMAIN t.fks : t.fks[k] \in KeyRecords
    BY <2>1
  <2>3. \A k \in DOMAIN t.fks : Of(t.name, t.fks[k]) \in Seq(U)
    BY <1>1, <2>1, <2>2
  <2>4. Row(t) \in Seq(Seq(U))
    <3>1. DOMAIN t.fks = 1..Len(t.fks) /\ Len(t.fks) \in Nat
      BY <2>1
    <3> QED
      BY <2>3, <3>1
  <2>5. \A k \in DOMAIN t.fks : \A u : u \in ToSet(Row(t)[k]) <=> Gives(t.name, t.fks[k], u)
    BY <1>1, <2>1, <2>2
  <2>6. DOMAIN Row(t) = DOMAIN t.fks
    OBVIOUS
  <2> HIDE DEF Row
  <2> QED
    BY <2>4, <2>5, <2>6, Flattened
<1> HIDE DEF Row, From
<1>3. \A n \in DOMAIN schema : schema[n] \in TableRecords
  OBVIOUS
<1>4. All \in Seq(Seq(U)) /\ DOMAIN All = DOMAIN schema
  <2>1. DOMAIN schema = 1..Len(schema) /\ Len(schema) \in Nat
    OBVIOUS
  <2>2. \A n \in DOMAIN schema : From(schema[n]) \in Seq(U)
    BY <1>2, <1>3
  <2> QED
    BY <2>1, <2>2
<1>5. Relationships(schema, name) = FlattenSeq(All)
  BY DEF Relationships, From, Row, Of
<1>6. \A n \in DOMAIN schema : \A u :
        u \in ToSet(All[n]) <=> \E k \in DOMAIN schema[n].fks : Gives(schema[n].name, schema[n].fks[k], u)
  BY <1>2, <1>3
<1> HIDE DEF All
<1>7. /\ Relationships(schema, name) \in Seq(U)
      /\ \A u : u \in ToSet(Relationships(schema, name)) <=>
             \E n \in DOMAIN schema : \E k \in DOMAIN schema[n].fks :
               Gives(schema[n].name, schema[n].fks[k], u)
  BY <1>4, <1>5, <1>6, Flattened
<1>8. \A u : (\E n \in DOMAIN schema : \E k \in DOMAIN schema[n].fks :
                 Gives(schema[n].name, schema[n].fks[k], u))
             <=> \E key \in Keys(Tables(schema)) : Gives(key.table, key.fk, u)
  <2> SUFFICES ASSUME NEW u
               PROVE  (\E n \in DOMAIN schema : \E k \in DOMAIN schema[n].fks :
                         Gives(schema[n].name, schema[n].fks[k], u))
                      <=> \E key \in Keys(Tables(schema)) : Gives(key.table, key.fk, u)
    OBVIOUS
  <2>1. ASSUME NEW n \in DOMAIN schema, NEW k \in DOMAIN schema[n].fks,
               Gives(schema[n].name, schema[n].fks[k], u)
        PROVE  \E key \in Keys(Tables(schema)) : Gives(key.table, key.fk, u)
    <3> DEFINE key == [table |-> schema[n].name, fk |-> schema[n].fks[k]]
    <3>1. key \in Keys(Tables(schema))
      BY DEF Keys, Tables
    <3>2. key.table = schema[n].name /\ key.fk = schema[n].fks[k]
      OBVIOUS
    <3> HIDE DEF key
    <3> QED
      BY <2>1, <3>1, <3>2
  <2>2. ASSUME NEW key \in Keys(Tables(schema)), Gives(key.table, key.fk, u)
        PROVE  \E n \in DOMAIN schema : \E k \in DOMAIN schema[n].fks :
                 Gives(schema[n].name, schema[n].fks[k], u)
    <3>3. PICK n \in DOMAIN schema :
            \E j \in DOMAIN schema[n].fks : key = [table |-> schema[n].name, fk |-> schema[n].fks[j]]
      BY DEF Keys, Tables
    <3>1. PICK k \in DOMAIN schema[n].fks : key = [table |-> schema[n].name, fk |-> schema[n].fks[k]]
      BY <3>3
    <3>2. key.table = schema[n].name /\ key.fk = schema[n].fks[k]
      BY <3>1
    <3> QED
      BY <2>2, <3>2
  <2> QED
    BY <2>1, <2>2
<1>9. \A u : u \in ToSet(Relationships(schema, name)) <=>
             \E key \in Keys(Tables(schema)) : Gives(key.table, key.fk, u)
  BY <1>7, <1>8
<1>10. \E V : Relationships(schema, name) \in Seq(V)
  BY <1>7
<1> QED
  BY <1>9, <1>10 DEF Gives

\* FirstNamed finds a relationship that answers to the name, if there is any.
LEMMA FirstThatAnswers ==
  ASSUME NEW U, NEW rels \in Seq(U), NEW word
  PROVE  \/ FirstNamed(rels, word) = 0 /\ \A i \in DOMAIN rels : ~Answers(rels[i], word)
         \/ FirstNamed(rels, word) \in DOMAIN rels /\ Answers(rels[FirstNamed(rels, word)], word)
<1> DEFINE I == {i \in 1..Len(rels) : Answers(rels[i], word)}
<1>1. FirstNamed(rels, word) = IF I # {} THEN Min(I) ELSE 0
  BY DEF FirstNamed, SelectInSeq
<1>2. DOMAIN rels = 1..Len(rels)
  OBVIOUS
<1>3. CASE I = {}
  BY <1>1, <1>2, <1>3
<1>4. CASE I # {}
  <2>1. I \subseteq Nat
    OBVIOUS
  <2> HIDE DEF I
  <2>2. \E x \in I : \A y \in I : x <= y
    BY <1>4, <2>1, LeastNumber
  <2>3. Min(I) \in I
    BY <2>2 DEF Min
  <2> QED
    BY <1>1, <1>2, <1>4, <2>3 DEF I
<1> QED
  BY <1>3, <1>4

\* A name that can stand for one foreign key only is taken for the relationship of that
\* key, and a name that stands for none finds none, wherever in the relationships of the
\* table the key comes: buildRelationships appends them in the order in which Go happens
\* to range over its map of tables, and expandRelation takes the first that answers.
THEOREM NameMeansItsKey ==
  ASSUME NEW schema \in Seq(TableRecords), NEW name \in Cached(schema), NEW word,
         ~Ambiguous(Tables(schema), word)
  PROVE  LET rels == Relationships(schema, name)
             k    == FirstNamed(rels, word)
         IN /\ \A key \in Away(Tables(schema), name, word) : k # 0 /\ rels[k] = Forward(key.fk)
            /\ \A key \in Towards(Tables(schema), name, word) : k # 0 /\ rels[k] = Backward(key.table, key.fk)
            /\ k # 0 => Away(Tables(schema), name, word) \cup Towards(Tables(schema), name, word) # {}
<1> DEFINE rels == Relationships(schema, name)
           k    == FirstNamed(rels, word)
           away == Away(Tables(schema), name, word)
           towards == Towards(Tables(schema), name, word)
<1>1. /\ \A key1, key2 \in away \cup towards : key1 = key2
      /\ away \cap towards = {}
  BY DEF Ambiguous, Cached, Tables
<1>2. \A key \in Keys(Tables(schema)) : key.fk \in KeyRecords
  <2> SUFFICES ASSUME NEW key \in Keys(Tables(schema)) PROVE key.fk \in KeyRecords
    OBVIOUS
  <2>3. PICK n \in DOMAIN schema :
          \E j \in DOMAIN schema[n].fks : key = [table |-> schema[n].name, fk |-> schema[n].fks[j]]
    BY DEF Keys, Tables
  <2>1. PICK j \in DOMAIN schema[n].fks : key = [table |-> schema[n].name, fk |-> schema[n].fks[j]]
    BY <2>3
  <2>2. schema[n].fks \in Seq(KeyRecords)
    <3>1. schema[n] \in TableRecords
      OBVIOUS
    <3> QED
      BY <3>1 DEF TableRecords
  <2>4. key.fk = schema[n].fks[j]
    BY <2>1
  <2> QED
    BY <2>2, <2>4
<1>3. \A key \in Keys(Tables(schema)) : key.table = name => (key \in away <=> Answers(Forward(key.fk), word))
  <2> SUFFICES ASSUME NEW key \in Keys(Tables(schema)), key.table = name
               PROVE  key \in away <=> Answers(Forward(key.fk), word)
    OBVIOUS
  <2>1. key.fk.cols \in Seq(STRING)
    BY <1>2 DEF KeyRecords
  <2>2. key.fk.cols = <<word>> <=> Len(key.fk.cols) = 1 /\ key.fk.cols[1] = word
    <3> DEFINE cols == key.fk.cols
    <3>1. cols \in Seq(STRING)
      BY <2>1
    <3> HIDE DEF cols
    <3>2. cols = <<word>> => Len(cols) = 1 /\ cols[1] = word
      OBVIOUS
    <3>3. ASSUME Len(cols) = 1, cols[1] = word PROVE cols = <<word>>
      <4>1. cols = [i \in 1..1 |-> cols[i]]
        BY <3>1, <3>3
      <4> QED
        BY <3>3, <4>1
    <3>4. cols = <<word>> <=> Len(cols) = 1 /\ cols[1] = word
      BY <3>2, <3>3
    <3> QED
      BY <3>4 DEF cols
  <2>3. Answers(Forward(key.fk), word) <=> FieldName(key.fk.cols, key.fk.ref) = word \/ key.fk.cols = <<word>>
    BY DEF Answers, Forward
  <2> QED
    BY <2>2, <2>3 DEF Away
<1>4. \A key \in Keys(Tables(schema)) : key.fk.ref = name =>
        (key \in towards <=> Answers(Backward(key.table, key.fk), word))
  BY DEF Towards, Answers, Backward
<1>5. away \subseteq Keys(Tables(schema)) /\ towards \subseteq Keys(Tables(schema))
  BY DEF Away, Towards
<1>6. \/ k = 0 /\ \A i \in DOMAIN rels : ~Answers(rels[i], word)
      \/ k \in DOMAIN rels /\ Answers(rels[k], word)
  <2>1. PICK U : rels \in Seq(U)
    BY RelationshipsOfKeys
  <2> QED
    BY <2>1, FirstThatAnswers
<1>7. \A u : u \in ToSet(rels) <=>
        \E key \in Keys(Tables(schema)) : \/ key.table = name /\ u = Forward(key.fk)
                                          \/ key.fk.ref = name /\ u = Backward(key.table, key.fk)
  BY RelationshipsOfKeys
<1>8. \A u : u \in ToSet(rels) <=> \E i \in DOMAIN rels : u = rels[i]
  BY DEF ToSet
<1>9. \A key \in away : key.table = name /\ Answers(Forward(key.fk), word)
  BY <1>3 DEF Away
<1>10. \A key \in towards : key.fk.ref = name /\ Answers(Backward(key.table, key.fk), word)
  BY <1>4 DEF Towards
<1>11. k = 0 => away = {} /\ towards = {}
  <2> SUFFICES ASSUME k = 0 PROVE away = {} /\ towards = {}
    OBVIOUS
  <2>1. \A u \in ToSet(rels) : ~Answers(u, word)
    <3>1. \A i \in DOMAIN rels : ~Answers(rels[i], word)
      <4>1. k \notin DOMAIN rels
        <5>1. PICK U : rels \in Seq(U)
          BY RelationshipsOfKeys
        <5> HIDE DEF rels, k
        <5>2. DOMAIN rels = 1..Len(rels) /\ Len(rels) \in Nat
          BY <5>1
        <5> QED
          BY <5>2
      <4> QED
        BY <1>6, <4>1
    <3> HIDE DEF rels
    <3> QED
      BY <1>8, <3>1
  <2> HIDE DEF rels, away, towards, k
  <2>2. \A key \in away : Forward(key.fk) \in ToSet(rels)
    BY <1>5, <1>7, <1>9
  <2>3. \A key \in towards : Backward(key.table, key.fk) \in ToSet(rels)
    BY <1>5, <1>7, <1>10
  <2> QED
    BY <1>9, <1>10, <2>1, <2>2, <2>3
<1>12. CASE k # 0
  <2>1. rels[k] \in ToSet(rels) /\ Answers(rels[k], word)
    BY <1>6, <1>8, <1>12
  <2> DEFINE rel == rels[k]
  <2>4. \E key \in Keys(Tables(schema)) : \/ key.table = name /\ rel = Forward(key.fk)
                                          \/ key.fk.ref = name /\ rel = Backward(key.table, key.fk)
    <3>1. rel \in ToSet(rels)
      BY <2>1
    <3> HIDE DEF rel, rels
    <3> QED
      BY <1>7, <3>1
  <2>2. PICK key \in Keys(Tables(schema)) : \/ key.table = name /\ rels[k] = Forward(key.fk)
                                            \/ key.fk.ref = name /\ rels[k] = Backward(key.table, key.fk)
    BY <2>4
  <2>3. \/ key \in away /\ rels[k] = Forward(key.fk)
        \/ key \in towards /\ rels[k] = Backward(key.table, key.fk)
    BY <1>3, <1>4, <2>1, <2>2
  <2> QED
    BY <1>1, <1>12, <2>3
<1> QED
  BY <1>11, <1>12

\* So a reload of the cache, that has the same tables in another order, changes nothing
\* in what such a name is expanded to (buildRelationships, expandRelation).
COROLLARY ReloadsKeepTheMeaning ==
  ASSUME NEW schema \in Seq(TableRecords), NEW reloaded \in Seq(TableRecords),
         Tables(schema) = Tables(reloaded),
         NEW name \in Cached(schema), NEW word, ~Ambiguous(Tables(schema), word)
  PROVE  LET before == Relationships(schema, name)
             after  == Relationships(reloaded, name)
             b      == FirstNamed(before, word)
             a      == FirstNamed(after, word)
         IN (b = 0 <=> a = 0) /\ (b # 0 => before[b] = after[a])
<1>1. name \in Cached(reloaded)
  <2>1. PICK n \in DOMAIN schema : name = schema[n].name
    BY DEF Cached
  <2>2. schema[n] \in Tables(reloaded)
    BY DEF Tables
  <2>3. PICK m \in DOMAIN reloaded : reloaded[m] = schema[n]
    BY <2>2 DEF Tables
  <2> QED
    BY <2>1, <2>3 DEF Cached
<1>2. Keys(Tables(schema)) = Keys(Tables(reloaded))
  BY DEF Keys
<1>3. ~Ambiguous(Tables(reloaded), word)
  BY <1>2 DEF Ambiguous, Away, Towards
<1>4. /\ Away(Tables(schema), name, word) = Away(Tables(reloaded), name, word)
      /\ Towards(Tables(schema), name, word) = Towards(Tables(reloaded), name, word)
  BY <1>2 DEF Away, Towards
<1> QED
  BY <1>1, <1>3, <1>4, NameMeansItsKey

-----------------------------------------------------------------------------
(***************************************************************************)
(* The expansion as a whole, up to ExpandIsJoin: a name gives a row the    *)
(* partners it means, a path extends what its earlier ones attached, and   *)
(* so do all paths, one after the other.                                   *)
(***************************************************************************)
\* The keys that leave a table, or lead to it, can be followed from these rows.
Fitting(tables, rows, name, from) ==
  \A key \in Keys(tables) : key.fk.ref \in Names(tables) =>
    /\ key.table = name => Joinable(Forward(key.fk), rows, from)
    /\ key.fk.ref = name => Joinable(Backward(key.table, key.fk), rows, from)

\* So they can from fewer rows, and with simple keys from all rows of a table.
LEMMA FittingFewer ==
  ASSUME NEW tables, NEW rows, NEW name, NEW from, Fitting(tables, rows, name, from),
         NEW some, some \subseteq from
  PROVE  Fitting(tables, rows, name, some)
<1>1. ASSUME NEW rel, Joinable(rel, rows, from) PROVE Joinable(rel, rows, some)
  BY <1>1 DEF Joinable
<1> QED
  BY <1>1 DEF Fitting

LEMMA SimpleFitting ==
  ASSUME NEW tables, NEW rows, NEW name, SimpleKeys(tables, rows)
  PROVE  Fitting(tables, rows, name, rows[name])
BY DEF SimpleKeys, Fitting

\* The partners one relationship has at a row.
PartnersBy(rel, rows, row) ==
  {p \in {[field |-> rel.field, table |-> rel.table, rows |-> Mates(rel, rows, row)]} : p.rows # {}}

\* The names of a list are those of its tables.
LEMMA CachedNames == ASSUME NEW schema PROVE Cached(schema) = Names(Tables(schema))
  BY DEF Cached, Names, Tables

\* A name is followed along a relationship to the partners it means, or there are none.
LEMMA NamedPartners ==
  ASSUME NEW schema \in Seq(TableRecords), NEW name \in Cached(schema), NEW word,
         ~Ambiguous(Tables(schema), word), NEW rows
  PROVE  LET rels == Relationships(schema, name)
             k    == FirstNamed(rels, word)
         IN \/ /\ k = 0 \/ rels[k].table \notin Cached(schema)
               /\ \A row : Partners(Tables(schema), rows, name, row, word) = {}
            \/ /\ k # 0 /\ rels[k].table \in Cached(schema)
               /\ \A row : Partners(Tables(schema), rows, name, row, word) = PartnersBy(rels[k], rows, row)
               /\ \A from : Fitting(Tables(schema), rows, name, from) => Joinable(rels[k], rows, from)
<1> DEFINE tables == Tables(schema)
           rels == Relationships(schema, name)
           k    == FirstNamed(rels, word)
           away == Away(tables, name, word)
           towards == Towards(tables, name, word)
           near == {key \in away : key.fk.ref \in Names(tables)}
           By(rel, row) == [field |-> rel.field, table |-> rel.table, rows |-> Mates(rel, rows, row)]
           Forth(key, row) == By(Forward(key.fk), row)
           Back(key, row) == By(Backward(key.table, key.fk), row)
<1>1. /\ \A key \in away : k # 0 /\ rels[k] = Forward(key.fk)
      /\ \A key \in towards : k # 0 /\ rels[k] = Backward(key.table, key.fk)
      /\ k # 0 => away \cup towards # {}
  BY NameMeansItsKey
<1>2. /\ \A key1, key2 \in away \cup towards : key1 = key2
      /\ away \cap towards = {}
  <2>1. \E t \in tables : t.name = name
    BY DEF Cached, Tables
  <2> QED
    BY <2>1 DEF Ambiguous
<1>3. \A row : Partners(tables, rows, name, row, word)
                = {p \in {Forth(key, row) : key \in near} \cup {Back(key, row) : key \in towards} : p.rows # {}}
  BY DEF Partners
<1>4. Cached(schema) = Names(tables)
  BY CachedNames
<1>5. away \subseteq Keys(tables) /\ towards \subseteq Keys(tables)
  BY DEF Away, Towards
<1>6. /\ \A key \in away : key.table = name
      /\ \A key \in towards : key.fk.ref = name
  BY DEF Away, Towards
<1>7. \A key \in Keys(tables) : key.table \in Names(tables)
  BY DEF Keys, Names
<1> HIDE DEF rels, k, away, towards
<1>8. CASE away = {} /\ towards = {}
  <2>1. k = 0
    BY <1>1, <1>8
  <2>2. \A row : Partners(tables, rows, name, row, word) = {}
    BY <1>3, <1>8
  <2> QED
    BY <2>1, <2>2 DEF rels, k
<1>9. ASSUME NEW key \in away, key.fk.ref \notin Names(tables)
      PROVE  rels[k].table \notin Cached(schema) /\ \A row : Partners(tables, rows, name, row, word) = {}
  <2>4. rels[k] = Forward(key.fk)
    BY <1>1, <1>9
  <2>1. rels[k].table = key.fk.ref
    BY <2>4 DEF Forward
  <2>2. away = {key} /\ towards = {}
    BY <1>2, <1>9
  <2>3. near = {}
    BY <1>9, <2>2
  <2> QED
    BY <1>3, <1>4, <1>9, <2>1, <2>2, <2>3
<1>10. ASSUME NEW key \in away, key.fk.ref \in Names(tables)
       PROVE  /\ k # 0 /\ rels[k].table \in Cached(schema)
              /\ \A row : Partners(tables, rows, name, row, word) = PartnersBy(rels[k], rows, row)
              /\ \A from : Fitting(tables, rows, name, from) => Joinable(rels[k], rows, from)
  <2>1. k # 0 /\ rels[k] = Forward(key.fk)
    BY <1>1, <1>10
  <2>2. rels[k].table = key.fk.ref
    BY <2>1 DEF Forward
  <2>3. near = {key} /\ towards = {}
    BY <1>2, <1>10
  <2>4. \A row : Forth(key, row) = [field |-> rels[k].field, table |-> rels[k].table, rows |-> Mates(rels[k], rows, row)]
    BY <2>1
  <2> HIDE DEF Forth, Back, near
  <2>5. \A row : Partners(tables, rows, name, row, word) = {p \in {Forth(key, row)} : p.rows # {}}
    BY <1>3, <2>3
  <2>6. \A row : Partners(tables, rows, name, row, word) = PartnersBy(rels[k], rows, row)
    BY <2>4, <2>5 DEF PartnersBy
  <2>7. \A from : Fitting(tables, rows, name, from) => Joinable(rels[k], rows, from)
    BY <1>5, <1>6, <1>10, <2>1 DEF Fitting
  <2> QED
    BY <1>4, <1>10, <2>1, <2>2, <2>6, <2>7
<1>11. ASSUME NEW key \in towards
       PROVE  /\ k # 0 /\ rels[k].table \in Cached(schema)
              /\ \A row : Partners(tables, rows, name, row, word) = PartnersBy(rels[k], rows, row)
              /\ \A from : Fitting(tables, rows, name, from) => Joinable(rels[k], rows, from)
  <2>1. k # 0 /\ rels[k] = Backward(key.table, key.fk)
    BY <1>1, <1>11
  <2>2. rels[k].table = key.table
    BY <2>1 DEF Backward
  <2>3. near = {} /\ towards = {key}
    BY <1>2, <1>11
  <2>4. \A row : Back(key, row) = [field |-> rels[k].field, table |-> rels[k].table, rows |-> Mates(rels[k], rows, row)]
    BY <2>1
  <2> HIDE DEF Forth, Back, near
  <2>5. \A row : Partners(tables, rows, name, row, word) = {p \in {Back(key, row)} : p.rows # {}}
    BY <1>3, <2>3
  <2>6. \A row : Partners(tables, rows, name, row, word) = PartnersBy(rels[k], rows, row)
    BY <2>4, <2>5 DEF PartnersBy
  <2>8. key \in Keys(tables) /\ name \in Names(tables) /\ key.fk.ref = name
    BY <1>4, <1>5, <1>6
  <2>7. \A from : Fitting(tables, rows, name, from) => Joinable(rels[k], rows, from)
    BY <2>1, <2>8 DEF Fitting
  <2> QED
    BY <1>4, <1>7, <2>1, <2>2, <2>6, <2>7, <2>8
<1> QED
  BY <1>8, <1>9, <1>10, <1>11 DEF rels, k

\* What attaching mates does to a record written out.
LEMMA Attached ==
  ASSUME NEW rel, NEW row, NEW g, NEW found, found # {}
  PROVE  WithMates(rel, [row |-> row, expand |-> g], found)
           = [row |-> row, expand |-> [x \in {rel.field} \cup DOMAIN g |-> IF x = rel.field THEN found ELSE g[x]]]
  BY DEF WithMates, Put

\* Records to which nothing is attached yet.
Plain(batch, of) == \A x \in batch : x = Record(x.row) /\ x.row \in of

\* What attaching them first does.
LEMMA AttachedFirst ==
  ASSUME NEW step, NEW own, NEW attached, attached # {}
  PROVE  WithMates(step, Record(own), attached) = [row |-> own, expand |-> [z \in {step.field} |-> attached]]
<1> DEFINE g == <<>>
<1>1. DOMAIN g = {}
  OBVIOUS
<1> HIDE DEF g
<1>2. WithMates(step, [row |-> own, expand |-> g], attached)
        = [row |-> own, expand |-> [z \in {step.field} \cup DOMAIN g |-> IF z = step.field THEN attached ELSE g[z]]]
  BY Attached
<1>3. {step.field} \cup DOMAIN g = {step.field}
  BY <1>1
<1>4. [z \in {step.field} \cup DOMAIN g |-> IF z = step.field THEN attached ELSE g[z]] = [z \in {step.field} |-> attached]
  BY <1>3
<1> QED
  BY <1>2, <1>4 DEF Record, g

\* A row without partners stays as it is.
LEMMA NoPartners == ASSUME NEW row PROVE WithPartners(row, {}) = Record(row)
<1>1. {p.field : p \in {}} = {}
  OBVIOUS
<1>2. WithPartners(row, {})
        = [row |-> row,
           expand |-> [field \in {} |->
                        UNION {{Record(r) : r \in p.rows} : p \in {q \in {} : q.field = field}}]]
  BY <1>1 DEF WithPartners
<1> QED
  BY <1>2 DEF Record

\* A row with one partner has its rows under its field.
LEMMA OnePartner ==
  ASSUME NEW row, NEW p
  PROVE  WithPartners(row, {p})
           = [row |-> row, expand |-> [field \in {p.field} |-> {Record(r) : r \in p.rows}]]
<1> DEFINE g == [field \in {q.field : q \in {p}} |->
                  UNION {{Record(r) : r \in q.rows} : q \in {q \in {p} : q.field = field}}]
           h == [field \in {p.field} |-> {Record(r) : r \in p.rows}]
<1>1. {q.field : q \in {p}} = {p.field}
  OBVIOUS
<1>2. {q \in {p} : q.field = p.field} = {p}
  OBVIOUS
<1>3. UNION {{Record(r) : r \in q.rows} : q \in {q \in {p} : q.field = p.field}} = {Record(r) : r \in p.rows}
  BY <1>2
<1>4. DOMAIN g = {p.field} /\ g[p.field] = h[p.field]
  BY <1>1, <1>3
<1>5. g = [field \in DOMAIN g |-> g[field]] /\ h = [field \in DOMAIN h |-> h[field]] /\ DOMAIN h = {p.field}
  OBVIOUS
<1> HIDE DEF g, h
<1>6. g = h
  BY <1>4, <1>5
<1> QED
  BY <1>6 DEF WithPartners, g, h

\* The last name of a path gives each record of a batch its partners.
LEMMA LastNameFollowed ==
  ASSUME NEW schema \in Seq(TableRecords), NEW name \in Cached(schema), NEW word,
         ~Ambiguous(Tables(schema), word), NEW rows, SimpleKeys(Tables(schema), rows),
         NEW batch, Plain(batch, rows[name])
  PROVE  FollowLast(schema, rows, name, batch, word)
           = {WithPartners(x.row, Partners(Tables(schema), rows, name, x.row, word)) : x \in batch}
<1> DEFINE tables == Tables(schema)
           rels == Relationships(schema, name)
           k    == FirstNamed(rels, word)
           fetched == Fetch(rels[k], rows, batch)
           Own(x) == WithPartners(x.row, Partners(tables, rows, name, x.row, word))
<1>1. FollowLast(schema, rows, name, batch, word)
        = IF k = 0 \/ rels[k].table \notin Cached(schema) THEN batch
          ELSE {Attach(rels[k], fetched, x) : x \in batch}
  BY DEF FollowLast, Follow
<1> HIDE DEF rels, k
<1>2. \/ /\ k = 0 \/ rels[k].table \notin Cached(schema)
         /\ \A row : Partners(tables, rows, name, row, word) = {}
      \/ /\ k # 0 /\ rels[k].table \in Cached(schema)
         /\ \A row : Partners(tables, rows, name, row, word) = PartnersBy(rels[k], rows, row)
         /\ Joinable(rels[k], rows, OwnRows(batch))
  <2>1. OwnRows(batch) \subseteq rows[name]
    BY DEF OwnRows, Plain
  <2>2. Fitting(tables, rows, name, OwnRows(batch))
    BY <2>1, SimpleFitting, FittingFewer
  <2> QED
    BY <2>2, NamedPartners DEF rels, k
<1>3. ASSUME k = 0 \/ rels[k].table \notin Cached(schema),
             \A row : Partners(tables, rows, name, row, word) = {},
             NEW x \in batch
      PROVE  Own(x) = x
  <2>1. Partners(tables, rows, name, x.row, word) = {}
    BY <1>3
  <2>2. x = Record(x.row)
    BY DEF Plain
  <2> QED
    BY <2>1, <2>2, NoPartners
<1>4. ASSUME k # 0, rels[k].table \in Cached(schema),
             \A row : Partners(tables, rows, name, row, word) = PartnersBy(rels[k], rows, row),
             Joinable(rels[k], rows, OwnRows(batch)),
             NEW x \in batch
      PROVE  Own(x) = Attach(rels[k], fetched, x)
  <2> DEFINE mates == Mates(rels[k], rows, x.row)
             found == {Record(r) : r \in mates}
             partners == PartnersBy(rels[k], rows, x.row)
  <2>2. Attach(rels[k], fetched, x) = WithMates(rels[k], x, found)
    BY <1>4, BatchIsJoin
  <2>3. x = Record(x.row)
    BY DEF Plain
  <2>4. Own(x) = WithPartners(x.row, partners)
    BY <1>4
  <2> HIDE DEF Own
  <2>5. CASE mates = {}
    <3>1. partners = {}
      BY <2>5 DEF PartnersBy
    <3>2. found = {}
      BY <2>5
    <3>3. Own(x) = Record(x.row)
      BY <2>4, <3>1, NoPartners
    <3> QED
      BY <2>2, <2>3, <3>2, <3>3 DEF WithMates
  <2>6. CASE mates # {}
    <3> DEFINE p == [field |-> rels[k].field, table |-> rels[k].table, rows |-> mates]
    <3>1. partners = {p}
      BY <2>6 DEF PartnersBy
    <3>2. p.field = rels[k].field /\ p.rows = mates
      OBVIOUS
    <3> HIDE DEF p, partners
    <3>3. WithPartners(x.row, {p}) = [row |-> x.row, expand |-> [field \in {p.field} |-> {Record(r) : r \in p.rows}]]
      BY OnePartner
    <3> HIDE DEF mates
    <3>4. {Record(r) : r \in p.rows} = found
      BY <3>2
    <3>5. Own(x) = [row |-> x.row, expand |-> [field \in {rels[k].field} |-> found]]
      BY <2>4, <3>1, <3>2, <3>3, <3>4
    <3>6. found # {}
      BY <2>6
    <3> HIDE DEF found
    <3>7. WithMates(rels[k], Record(x.row), found)
            = [row |-> x.row, expand |-> [field \in {rels[k].field} |-> found]]
      <4>1. \A F : F # {} => WithMates(rels[k], Record(x.row), F) = [row |-> x.row, expand |-> [field \in {rels[k].field} |-> F]]
        BY AttachedFirst
      <4> QED
        BY <3>6, <4>1
    <3> QED
      BY <2>2, <2>3, <3>5, <3>7
  <2> QED
    BY <2>5, <2>6
<1> HIDE DEF Own
<1>5. CASE k = 0 \/ rels[k].table \notin Cached(schema)
  BY <1>1, <1>2, <1>3, <1>5 DEF Own
<1>6. CASE k # 0 /\ rels[k].table \in Cached(schema)
  BY <1>1, <1>2, <1>4, <1>6 DEF Own
<1> QED
  BY <1>5, <1>6

-----------------------------------------------------------------------------
\* The last of some paths.
Latest(S) == CHOOSE n \in S : \A m \in S : m <= n

\* What the last path naming a field leads to, of the first n paths.
Along(tables, rows, path, table, r) ==
  IF Len(path) = 1 THEN Record(r) ELSE WithPartners(r, Partners(tables, rows, table, r, path[2]))
Under(tables, rows, path, found, field) ==
  UNION {{Along(tables, rows, path, p.table, r) : r \in p.rows} : p \in {q \in found : q.field = field}}
Naming(found, n, field) == {m \in 1..n : \E p \in found[m] : p.field = field}
Attachments(tables, rows, paths, found, n) ==
  [field \in {p.field : p \in UNION {found[m] : m \in 1..n}} |->
     LET m == Latest(Naming(found, n, field)) IN Under(tables, rows, paths[m], found[m], field)]

AlongAll(tables, rows, path, p) == {Along(tables, rows, path, p.table, r) : r \in p.rows}

\* The partners the paths lead to from a row.
FoundAlong(tables, rows, name, row, paths) ==
  [n \in DOMAIN paths |-> Partners(tables, rows, name, row, paths[n][1])]

\* One path more that leads nowhere changes nothing.
LEMMA NothingMore ==
  ASSUME NEW tables, NEW rows, NEW paths, NEW found, NEW n \in Nat, found[n + 1] = {}
  PROVE  Attachments(tables, rows, paths, found, n + 1) = Attachments(tables, rows, paths, found, n)
<1>1. 1..(n + 1) = (1..n) \cup {n + 1}
  OBVIOUS
<1>2. UNION {found[m] : m \in 1..(n + 1)} = UNION {found[m] : m \in 1..n}
  BY <1>1
<1>3. \A field : Naming(found, n + 1, field) = Naming(found, n, field)
  BY <1>1 DEF Naming
<1> QED
  BY <1>2, <1>3 DEF Attachments

\* A function with a field put in its place.
Replaced(g, field, v) == [y \in {field} \cup DOMAIN g |-> IF y = field THEN v ELSE g[y]]

\* Put is that replacement in a record.
LEMMA PutReplaces ==
  ASSUME NEW own, NEW g, NEW place, NEW v
  PROVE  Put([row |-> own, expand |-> g], place, v) = [row |-> own, expand |-> Replaced(g, place, v)]
<1> DEFINE x == [row |-> own, expand |-> g]
<1>1. x.expand = g
  OBVIOUS
<1>2. Put(x, place, v) = [x EXCEPT !.expand = Replaced(x.expand, place, v)]
  BY DEF Put, Replaced
<1> QED
  BY <1>1, <1>2

\* One path more that leads to a partner replaces what was under the partner's field.
LEMMA OneMore ==
  ASSUME NEW tables, NEW rows, NEW paths, NEW found, NEW n \in Nat, NEW p, found[n + 1] = {p},
         NEW own, own = AlongAll(tables, rows, paths[n + 1], p)
  PROVE  Attachments(tables, rows, paths, found, n + 1)
           = Replaced(Attachments(tables, rows, paths, found, n), p.field, own)
<1> DEFINE before == Attachments(tables, rows, paths, found, n)
           Value(m, field) == Under(tables, rows, paths[m], found[m], field)
           fields(i) == {q.field : q \in UNION {found[m] : m \in 1..i}}
           after == Attachments(tables, rows, paths, found, n + 1)
<1>1. 1..(n + 1) = (1..n) \cup {n + 1} /\ n + 1 \notin 1..n
  OBVIOUS
<1>2. fields(n + 1) = {p.field} \cup fields(n)
  <2>1. UNION {found[m] : m \in 1..(n + 1)} = {p} \cup UNION {found[m] : m \in 1..n}
    BY <1>1
  <2> QED
    BY <2>1
<1>3. /\ before = [field \in fields(n) |-> Value(Latest(Naming(found, n, field)), field)]
      /\ after = [field \in fields(n + 1) |-> Value(Latest(Naming(found, n + 1, field)), field)]
  BY DEF Attachments
<1>4. \A field : field # p.field => Naming(found, n + 1, field) = Naming(found, n, field)
  BY <1>1 DEF Naming
<1>5. Latest(Naming(found, n + 1, p.field)) = n + 1
  <2>1. n + 1 \in Naming(found, n + 1, p.field)
    BY DEF Naming
  <2>2. \A m \in Naming(found, n + 1, p.field) : m \in Nat /\ m <= n + 1
    BY DEF Naming
  <2> QED
    BY <2>1, <2>2 DEF Latest
<1>6. Value(n + 1, p.field) = own
  <2>1. {q \in {p} : q.field = p.field} = {p}
    OBVIOUS
  <2>2. UNION {{Along(tables, rows, paths[n + 1], q.table, r) : r \in q.rows} : q \in {p}} = own
    BY DEF AlongAll
  <2> QED
    BY <2>1, <2>2 DEF Under
<1> HIDE DEF Value, fields, before, after
<1>7. after = [field \in {p.field} \cup fields(n) |-> IF field = p.field THEN own ELSE before[field]]
  BY <1>2, <1>3, <1>4, <1>5, <1>6
<1>8. DOMAIN before = fields(n)
  BY <1>3
<1> QED
  BY <1>7, <1>8 DEF Replaced, before, after

\* A set of numbers up to a bound has a greatest one.
LEMMA GreatestNumber ==
  ASSUME NEW N \in Nat, NEW T, T \subseteq 1..N, T # {}
  PROVE  \E m \in T : \A i \in T : i <= m
<1> DEFINE U == {N - x : x \in T}
<1>1. U \subseteq Nat /\ U # {}
  <2>1. \A x \in T : N - x \in Nat
    BY N \in Nat
  <2> QED
    BY <2>1
<1> HIDE DEF U
<1>2. PICK u \in U : \A v \in U : u <= v
  BY <1>1, LeastNumber
<1>3. PICK m \in T : u = N - m
  BY DEF U
<1>4. \A i \in T : N - i \in U
  BY DEF U
<1>5. \A i \in T : i <= m
  BY <1>2, <1>3, <1>4
<1> QED
  BY <1>5

\* The meaning of all paths is what the last path naming each field attaches.
LEMMA MeaningAttached ==
  ASSUME NEW tables, NEW rows, NEW name, NEW row, NEW W, NEW paths \in Seq(W)
  PROVE  Meaning(tables, rows, name, row, paths)
           = [row |-> row,
              expand |-> Attachments(tables, rows, paths, FoundAlong(tables, rows, name, row, paths), Len(paths))]
<1> DEFINE found == FoundAlong(tables, rows, name, row, paths)
           Found(n) == Partners(tables, rows, name, row, paths[n][1])
           fields == {p.field : p \in UNION {Found(n) : n \in DOMAIN paths}}
<1>1. DOMAIN paths = 1..Len(paths)
  OBVIOUS
<1>2. \A n \in 1..Len(paths) : found[n] = Found(n)
  BY <1>1 DEF FoundAlong
<1> HIDE DEF found
<1>3. Meaning(tables, rows, name, row, paths)
        = [row |-> row,
           expand |-> [field \in fields |->
             LET m == Latest({n \in DOMAIN paths : \E p \in Found(n) : p.field = field})
             IN Under(tables, rows, paths[m], Found(m), field)]]
  BY DEF Meaning, Latest, Under, Along
<1>4. \A field : Naming(found, Len(paths), field) = {n \in DOMAIN paths : \E p \in Found(n) : p.field = field}
  BY <1>1, <1>2 DEF Naming
<1>5. UNION {Found(n) : n \in DOMAIN paths} = UNION {found[n] : n \in 1..Len(paths)}
  BY <1>1, <1>2
<1>6. \A field \in fields : Latest(Naming(found, Len(paths), field)) \in 1..Len(paths)
  <2> SUFFICES ASSUME NEW field \in fields PROVE Latest(Naming(found, Len(paths), field)) \in 1..Len(paths)
    OBVIOUS
  <2> DEFINE S == Naming(found, Len(paths), field)
  <2>1. S # {} /\ S \subseteq 1..Len(paths)
    <3>1. S = {n \in DOMAIN paths : \E p \in Found(n) : p.field = field}
      BY <1>4
    <3> HIDE DEF S
    <3>2. PICK p \in UNION {Found(n) : n \in DOMAIN paths} : field = p.field
      OBVIOUS
    <3> HIDE DEF Found
    <3>3. PICK n \in DOMAIN paths : p \in Found(n)
      BY <3>2
    <3> QED
      BY <1>1, <3>1, <3>2, <3>3
  <2>2. \E m \in S : \A i \in S : i <= m
    <3>1. Len(paths) \in Nat
      OBVIOUS
    <3> HIDE DEF S
    <3> QED
      BY <2>1, <3>1, GreatestNumber
  <2>3. Latest(S) \in S
    <3> HIDE DEF S
    <3> QED
      BY <2>2 DEF Latest
  <2> QED
    BY <2>1, <2>3
<1> DEFINE Value(n, of, field) == Under(tables, rows, paths[n], of, field)
<1>7. Attachments(tables, rows, paths, found, Len(paths))
        = [field \in {p.field : p \in UNION {found[n] : n \in 1..Len(paths)}} |->
             Value(Latest(Naming(found, Len(paths), field)),
                   found[Latest(Naming(found, Len(paths), field))], field)]
  BY DEF Attachments
<1>8. Meaning(tables, rows, name, row, paths)
        = [row |-> row,
           expand |-> [field \in fields |->
             Value(Latest(Naming(found, Len(paths), field)),
                   Found(Latest(Naming(found, Len(paths), field))), field)]]
  BY <1>3, <1>4
<1>9. fields = {p.field : p \in UNION {found[n] : n \in 1..Len(paths)}}
  BY <1>5
<1> HIDE DEF Value, Found, fields
<1> QED
  BY <1>2, <1>6, <1>7, <1>8, <1>9 DEF found

\* A list of these tables.
Lists(schema, tables) == schema \in Seq(TableRecords) /\ Tables(schema) = tables

\* A name means one partner at most.
LEMMA SolePartner ==
  ASSUME NEW schema, NEW tables, Lists(schema, tables),
         NEW name \in Cached(schema), NEW word, ~Ambiguous(tables, word), NEW rows, NEW row
  PROVE  \/ Partners(tables, rows, name, row, word) = {}
         \/ \E p : Partners(tables, rows, name, row, word) = {p}
<1> DEFINE rels == Relationships(schema, name)
           k    == FirstNamed(rels, word)
           rel  == rels[k]
<1>1. ~Ambiguous(Tables(schema), word) /\ schema \in Seq(TableRecords) /\ tables = Tables(schema)
  BY DEF Lists
<1>2. \/ /\ k = 0 \/ rel.table \notin Cached(schema)
         /\ \A r : Partners(Tables(schema), rows, name, r, word) = {}
      \/ /\ k # 0 /\ rel.table \in Cached(schema)
         /\ \A r : Partners(Tables(schema), rows, name, r, word) = PartnersBy(rel, rows, r)
         /\ \A from : Fitting(Tables(schema), rows, name, from) => Joinable(rel, rows, from)
  BY <1>1, NamedPartners
<1> HIDE DEF rel
<1>3. \/ Partners(Tables(schema), rows, name, row, word) = {}
      \/ Partners(Tables(schema), rows, name, row, word) = PartnersBy(rel, rows, row)
  BY <1>2
<1> QED
  BY <1>1, <1>3 DEF PartnersBy

\* A record with its partners along one path more.
Onto(tables, rows, path, x, found) ==
  LET p == CHOOSE q \in found : TRUE
  IN IF found = {} THEN x ELSE Put(x, p.field, AlongAll(tables, rows, path, p))
Extended(tables, rows, name, path, x) ==
  Onto(tables, rows, path, x, Partners(tables, rows, name, x.row, path[1]))

Extends(tables, rows, name, path, own, before, after) ==
  \A row \in own : /\ before[row].row = row
                     /\ after[row] = Extended(tables, rows, name, path, before[row])

\* A path of names that stand for one key at most.
Unambiguous(path, tables, words) ==
  /\ path \in Seq(words) /\ path # <<>>
  /\ \A k \in DOMAIN path : ~Ambiguous(tables, path[k])

\* The members of a set, each through a function.
Image(h, S) == {h[x] : x \in S}

\* A path leads to one partner at most from a row.
SoleAlong(tables, rows, name, path) ==
  \A row : \/ Partners(tables, rows, name, row, path[1]) = {}
           \/ \E p : Partners(tables, rows, name, row, path[1]) = {p}

\* The same for the first name of a path.
LEMMA SolePartners ==
  ASSUME NEW schema, NEW tables, Lists(schema, tables), NEW name \in Cached(schema),
         NEW W, NEW path, Unambiguous(path, tables, W), NEW rows
  PROVE  SoleAlong(tables, rows, name, path)
<1> DEFINE word == path[1]
<1>1. ~Ambiguous(tables, word)
  <2>1. 1 \in DOMAIN path
    BY DEF Unambiguous
  <2> QED
    BY <2>1 DEF Unambiguous
<1> HIDE DEF word
<1>2. ASSUME NEW row
      PROVE  \/ Partners(tables, rows, name, row, word) = {}
             \/ \E p : Partners(tables, rows, name, row, word) = {p}
  BY <1>1, SolePartner
<1> QED
  BY <1>2 DEF SoleAlong, word

\* One path followed for all rows of a table gives each row its partners along it.
LEMMA PathFollowed ==
  ASSUME NEW schema, NEW tables, Lists(schema, tables),
         NEW name \in Cached(schema), NEW W, NEW path, Unambiguous(path, tables, W),
         NEW rows, SimpleKeys(tables, rows), NEW own, Fitting(tables, rows, name, own),
         NEW before, NEW after, Extends(tables, rows, name, path, own, before, after)
  PROVE  ExpandRelation(schema, rows, name, Image(before, own), path) = Image(after, own)
<1>0. /\ schema \in Seq(TableRecords) /\ tables = Tables(schema)
      /\ path \in Seq(W) /\ path # <<>> /\ \A k \in DOMAIN path : ~Ambiguous(tables, path[k])
      /\ \A row \in own : before[row].row = row /\ after[row] = Extended(tables, rows, name, path, before[row])
  BY DEF Lists, Unambiguous, Extends
<1> DEFINE Found(row) == Partners(tables, rows, name, row, path[1])
           batch == {before[row] : row \in own}
           p(row) == CHOOSE p \in Found(row) : TRUE
           attached(row) == AlongAll(tables, rows, path, p(row))
           After(row) ==
             IF Found(row) = {} THEN before[row] ELSE Put(before[row], p(row).field, attached(row))
           rels == Relationships(schema, name)
           k    == FirstNamed(rels, path[1])
           rel  == rels[k]
           fetched == Fetch(rel, rows, batch)
           related == IF Len(path) = 1 THEN fetched ELSE FollowLast(schema, rows, rel.table, fetched, path[2])
           f == [r \in rows[rel.table] |-> Along(tables, rows, path, rel.table, r)]
<1>1. ExpandRelation(schema, rows, name, batch, path)
        = IF k = 0 \/ rel.table \notin Cached(schema) THEN batch
          ELSE {Attach(rel, related, x) : x \in batch}
  BY DEF ExpandRelation, Follow
<1>2. ~Ambiguous(tables, path[1]) /\ (Len(path) # 1 => ~Ambiguous(tables, path[2]))
  <2>1. Len(path) \in Nat /\ Len(path) # 0 /\ DOMAIN path = 1..Len(path)
    BY <1>0
  <2>2. 1 \in DOMAIN path /\ (Len(path) # 1 => 2 \in DOMAIN path)
    BY <2>1
  <2> QED
    BY <1>0, <2>2
<1>3. \/ /\ k = 0 \/ rel.table \notin Cached(schema)
         /\ \A row : Found(row) = {}
      \/ /\ k # 0 /\ rel.table \in Cached(schema)
         /\ \A row : Found(row) = PartnersBy(rel, rows, row)
         /\ Joinable(rel, rows, own)
  BY <1>0, <1>2, NamedPartners
<1>4. /\ \A r \in rows[rel.table] : f[r].row = r
      /\ \A x \in fetched : x = Record(x.row) /\ x.row \in rows[rel.table]
  BY DEF Along, WithPartners, Record, Fetch
<1> HIDE DEF rels, k, rel
<1>5. ASSUME rel.table \in Cached(schema)
      PROVE  related = {f[x.row] : x \in fetched}
  <2>1. CASE Len(path) = 1
    <3>1. \A x \in fetched : f[x.row] = x
      BY <1>4, <2>1 DEF Along
    <3> HIDE DEF fetched, f
    <3>2. {f[x.row] : x \in fetched} = fetched
      BY <3>1
    <3> QED
      BY <2>1, <3>2
  <2>2. CASE Len(path) # 1
    <3>1. Plain(fetched, rows[rel.table])
      BY <1>4 DEF Plain
    <3>2. \A x \in fetched : f[x.row] = WithPartners(x.row, Partners(tables, rows, rel.table, x.row, path[2]))
      BY <1>4, <2>2 DEF Along
    <3> HIDE DEF fetched, f
    <3>3. FollowLast(schema, rows, rel.table, fetched, path[2])
            = {WithPartners(x.row, Partners(tables, rows, rel.table, x.row, path[2])) : x \in fetched}
      BY <1>0, <1>2, <1>5, <2>2, <3>1, LastNameFollowed
    <3> QED
      BY <2>2, <3>2, <3>3
  <2> QED
    BY <2>1, <2>2
<1>6. ASSUME k # 0, rel.table \in Cached(schema),
             \A row : Found(row) = PartnersBy(rel, rows, row),
             Joinable(rel, rows, own),
             NEW row \in own
      PROVE  /\ Attach(rel, related, before[row]) = After(row)
             /\ Found(row) = {} \/ \E q : Found(row) = {q}
  <2> DEFINE x == before[row]
             mates == Mates(rel, rows, row)
             q == [field |-> rel.field, table |-> rel.table, rows |-> mates]
             found == {f[r] : r \in mates}
  <2>1. x \in batch /\ x.row = row
    BY <1>0
  <2>2. Joinable(rel, rows, OwnRows(batch))
    <3>1. OwnRows(batch) = own
      BY <1>0 DEF OwnRows
    <3> QED
      BY <1>6, <3>1
  <2>3. Attach(rel, related, x) = WithMates(rel, x, found)
    <3>1. related = {f[y.row] : y \in fetched}
      BY <1>5, <1>6
    <3>2. \A r \in rows[rel.table] : f[r].row = r
      BY <1>4
    <3> HIDE DEF related, f, batch, x
    <3>3. Attach(rel, {f[y.row] : y \in Fetch(rel, rows, batch)}, x)
            = WithMates(rel, x, {f[r] : r \in Mates(rel, rows, x.row)})
      BY <2>1, <2>2, <3>2, AttachedMates
    <3> QED
      BY <2>1, <3>1, <3>3
  <2>4. Found(row) = {y \in {q} : y.rows # {}}
    BY <1>6 DEF PartnersBy
  <2>5. CASE mates = {}
    <3>1. Found(row) = {} /\ found = {}
      BY <2>4, <2>5
    <3> QED
      BY <2>3, <3>1 DEF WithMates
  <2>6. CASE mates # {}
    <3>1. q.field = rel.field /\ q.table = rel.table /\ q.rows = mates
      OBVIOUS
    <3> HIDE DEF q, Found
    <3>2. Found(row) = {q}
      BY <2>4, <2>6, <3>1
    <3>3. p(row) = q
      BY <3>2
    <3>4. \A r \in mates : f[r] = Along(tables, rows, path, rel.table, r)
      BY DEF Mates
    <3>5. found # {}
      BY <2>6
    <3>6. found = attached(row)
      <4> HIDE DEF f, p
      <4>1. found = {Along(tables, rows, path, rel.table, r) : r \in mates}
        BY <3>4
      <4>2. attached(row) = AlongAll(tables, rows, path, q)
        BY <3>3
      <4> HIDE DEF q, mates, found, attached
      <4>3. AlongAll(tables, rows, path, q) = {Along(tables, rows, path, rel.table, r) : r \in mates}
        BY <3>1 DEF AlongAll
      <4> QED
        BY <4>1, <4>2, <4>3
    <3> HIDE DEF found, attached, mates, f, p, x
    <3>7. WithMates(rel, x, found) = Put(x, rel.field, found)
      BY <3>5 DEF WithMates
    <3> QED
      BY <2>3, <3>1, <3>2, <3>3, <3>6, <3>7 DEF x
  <2> QED
    BY <2>5, <2>6
<1>9. \A row \in own : after[row] = After(row)
  <2> SUFFICES ASSUME NEW row \in own PROVE after[row] = After(row)
    OBVIOUS
  <2>1. after[row] = Extended(tables, rows, name, path, before[row]) /\ before[row].row = row
    BY <1>0
  <2>2. Extended(tables, rows, name, path, before[row]) = Onto(tables, rows, path, before[row], Found(row))
    <3> HIDE DEF Found
    <3> QED
      BY <2>1 DEF Extended, Found
  <2> HIDE DEF Found
  <2> QED
    BY <2>1, <2>2 DEF Onto
<1>10. batch = Image(before, own)
  BY DEF Image
<1> HIDE DEF related, After, Found
<1>7. CASE k = 0 \/ rel.table \notin Cached(schema)
  <2>1. \A row : Found(row) = {}
    BY <1>3, <1>7
  <2>2. ExpandRelation(schema, rows, name, batch, path) = batch
    BY <1>1, <1>7
  <2>3. \A row : After(row) = before[row]
    BY <2>1 DEF After
  <2> QED
    BY <1>9, <1>10, <2>1, <2>2, <2>3 DEF Image
<1>8. CASE k # 0 /\ rel.table \in Cached(schema)
  <2>1. \A row \in own : /\ Attach(rel, related, before[row]) = After(row)
                         /\ Found(row) = {} \/ \E q : Found(row) = {q}
    BY <1>3, <1>6, <1>8
  <2>2. ExpandRelation(schema, rows, name, batch, path) = {Attach(rel, related, x) : x \in batch}
    BY <1>1, <1>8
  <2>3. ExpandRelation(schema, rows, name, batch, path) = {After(row) : row \in own}
    BY <2>1, <2>2
  <2> QED
    BY <1>9, <1>10, <2>1, <2>3 DEF Image
<1> QED
  BY <1>7, <1>8

\* A list of tables is an order of all of them.
LEMMA OrdersList ==
  ASSUME NEW tables, IsFiniteSet(tables), NEW schema \in Orders(tables)
  PROVE  schema \in Seq(tables) /\ Tables(schema) = tables
<1>1. Cardinality(tables) \in Nat
  BY FS_CardinalityType
<1> QED
  BY <1>1 DEF Orders

\* Following the paths goes from one state of the records to the next.
LEMMA Expanding ==
  ASSUME NEW schema, NEW rows, NEW name, NEW records, NEW W, NEW paths \in Seq(W)
  PROVE  \E after : /\ after[0] = records
                    /\ \A n \in 1..Len(paths) :
                         after[n] = ExpandRelation(schema, rows, name, after[n - 1], paths[n])
                    /\ Expand(schema, rows, name, records, paths) = after[Len(paths)]
<1> DEFINE N == Len(paths)
           Turn(v, n) == ExpandRelation(schema, rows, name, v, paths[n])
           Is(h, m) == h = [n \in 0..m |-> IF n = 0 THEN records ELSE Turn(h[n - 1], n)]
           S == {m \in Nat : \E h : Is(h, m)}
           after == CHOOSE h : h = [n \in 0..N |-> IF n = 0 THEN records ELSE Turn(h[n - 1], n)]
<1>1. N \in Nat
  OBVIOUS
<1> HIDE DEF N
<1>2. 0 \in S
  <2> DEFINE h == [n \in 0..0 |-> records]
  <2>1. h = [n \in 0..0 |-> IF n = 0 THEN records ELSE Turn(h[n - 1], n)]
    <3> HIDE DEF Turn
    <3> QED
      OBVIOUS
  <2> QED
    BY <2>1
<1>3. ASSUME NEW m \in S PROVE m + 1 \in S
  <2>1. PICK h : Is(h, m)
    OBVIOUS
  <2> DEFINE h2 == [n \in 0..(m + 1) |-> IF n = m + 1 THEN Turn(h[m], n) ELSE h[n]]
  <2>2. Is(h2, m + 1)
    <3> HIDE DEF Turn
    <3>1. \A n \in 0..(m + 1) : h2[n] = IF n = 0 THEN records ELSE Turn(h2[n - 1], n)
      BY <2>1
    <3> QED
      BY <3>1
  <2> HIDE DEF Is, h2
  <2> QED
    BY <2>2
<1>4. N \in S
  <2> HIDE DEF Is
  <2>1. S \subseteq Nat
    OBVIOUS
  <2> HIDE DEF S
  <2> QED
    BY <1>1, <1>2, <1>3, <2>1, Induction
<1>5. Is(after, N)
  BY <1>4
<1>6. Expand(schema, rows, name, records, paths) = after[N]
  BY DEF Expand, N
<1> HIDE DEF after
<1>7. after[0] = records /\ \A n \in 1..N : after[n] = Turn(after[n - 1], n)
  <2> HIDE DEF Turn
  <2> QED
    BY <1>1, <1>5
<1> QED
  BY <1>6, <1>7 DEF N

\* expand on tables in an order gives each row its meaning.
ExpandsAs(tables, rows, name, own, paths, schema) ==
  Expand(schema, rows, name, {Record(row) : row \in own}, paths)
    = {Meaning(tables, rows, name, row, paths) : row \in own}

LEMMA ExpandedRows ==
  ASSUME NEW tables, IsFiniteSet(tables), tables \subseteq TableRecords,
         NEW name \in Names(tables), NEW Words, NEW paths \in Seq(Seq(Words) \ {<<>>}),
         Clear(tables, paths), NEW rows, SimpleKeys(tables, rows),
         NEW own, Fitting(tables, rows, name, own), NEW schema \in Orders(tables)
  PROVE  ExpandsAs(tables, rows, name, own, paths, schema)
<1> DEFINE found(row) == FoundAlong(tables, rows, name, row, paths)
           R(n, row) == [row |-> row, expand |-> Attachments(tables, rows, paths, found(row), n)]
           N == Len(paths)
<1>1. schema \in Seq(TableRecords) /\ Tables(schema) = tables /\ Lists(schema, tables)
  BY OrdersList DEF Lists
<1>2. name \in Cached(schema)
  BY <1>1, CachedNames
<1>3. N \in Nat /\ DOMAIN paths = 1..N
  OBVIOUS
<1>4. PICK after : /\ after[0] = {Record(row) : row \in own}
                   /\ \A n \in 1..N : after[n] = ExpandRelation(schema, rows, name, after[n - 1], paths[n])
                   /\ Expand(schema, rows, name, {Record(row) : row \in own}, paths) = after[N]
  <2> DEFINE first == {Record(row) : row \in own}
  <2> HIDE DEF first
  <2>1. \E after : /\ after[0] = first
                   /\ \A n \in 1..Len(paths) :
                        after[n] = ExpandRelation(schema, rows, name, after[n - 1], paths[n])
                   /\ Expand(schema, rows, name, first, paths) = after[Len(paths)]
    BY Expanding
  <2> QED
    BY <2>1 DEF first
<1>5. \A row : R(0, row) = Record(row)
  <2>1. \A row : Attachments(tables, rows, paths, found(row), 0) = <<>>
    BY DEF Attachments
  <2> QED
    BY <2>1 DEF Record
<1>6. \A n \in 0..N : after[n] = {R(n, row) : row \in own}
  <2> DEFINE S == {n \in Nat : n <= N => after[n] = {R(n, row) : row \in own}}
  <2>1. 0 \in S
    BY <1>4, <1>5
  <2>2. ASSUME NEW n \in S PROVE n + 1 \in S
    <3> SUFFICES ASSUME n + 1 <= N PROVE after[n + 1] = {R(n + 1, row) : row \in own}
      OBVIOUS
    <3> DEFINE path == paths[n + 1]
               before == [row \in own |-> R(n, row)]
               next == [row \in own |-> R(n + 1, row)]
    <3>1. n \in Nat /\ n + 1 \in 1..N /\ n <= N /\ n + 1 - 1 = n
      BY <1>3
    <3>2. path \in Seq(Words) /\ path # <<>> /\ \A k \in DOMAIN path : ~Ambiguous(tables, path[k])
      <4>1. n + 1 \in DOMAIN paths
        BY <1>3, <3>1
      <4>2. path \in Seq(Words) \ {<<>>}
        BY <4>1
      <4>3. \A k \in DOMAIN path : ~Ambiguous(tables, path[k])
        BY <4>1 DEF Clear
      <4> QED
        BY <4>2, <4>3
    <3>3. \A row \in own : before[row].row = row
      OBVIOUS
    <3>4. /\ after[n] = Image(before, own)
          /\ {R(n + 1, row) : row \in own} = Image(next, own)
      <4> HIDE DEF R
      <4> QED
        BY <3>1 DEF Image
    <3>5. ASSUME NEW row \in own,
                 \/ Partners(tables, rows, name, row, path[1]) = {}
                 \/ \E q : Partners(tables, rows, name, row, path[1]) = {q}
          PROVE  next[row] = Extended(tables, rows, name, path, before[row])
      <4> DEFINE fr == found(row)
                 at == Partners(tables, rows, name, row, path[1])
                 sofar == Attachments(tables, rows, paths, fr, n)
      <4>1. fr[n + 1] = at
        BY <1>3, <3>1 DEF FoundAlong
      <4>2. before[row] = [row |-> row, expand |-> sofar] /\ before[row].row = row
        OBVIOUS
      <4>3. next[row] = [row |-> row, expand |-> Attachments(tables, rows, paths, fr, n + 1)]
        OBVIOUS
      <4> HIDE DEF fr, before, next, path
      <4>4. CASE at = {}
        <5>1. Attachments(tables, rows, paths, fr, n + 1) = sofar
          BY <3>1, <4>1, <4>4, NothingMore
        <5> QED
          BY <4>2, <4>3, <4>4, <5>1 DEF Extended, Onto
      <4>5. ASSUME NEW q, at = {q} PROVE next[row] = Extended(tables, rows, name, path, before[row])
        <5> DEFINE theirs == AlongAll(tables, rows, path, q)
        <5>1. Onto(tables, rows, path, before[row], {q}) = Put(before[row], q.field, theirs)
          BY DEF Onto
        <5>2. Extended(tables, rows, name, path, before[row]) = Put(before[row], q.field, theirs)
          BY <4>2, <4>5, <5>1 DEF Extended
        <5>3. theirs = AlongAll(tables, rows, paths[n + 1], q)
          BY DEF path
        <5>4. fr[n + 1] = {q}
          BY <4>1, <4>5
        <5> HIDE DEF theirs
        <5>5. Attachments(tables, rows, paths, fr, n + 1) = Replaced(sofar, q.field, theirs)
          <6>1. n \in Nat
            BY <3>1
          <6> DEFINE more == Attachments(tables, rows, paths, fr, n + 1)
          <6>2. more = Replaced(Attachments(tables, rows, paths, fr, n), q.field, theirs)
            BY <5>3, <5>4, <6>1, OneMore
          <6> QED
            BY <6>2
        <5> HIDE DEF sofar
        <5>6. Put([row |-> row, expand |-> sofar], q.field, theirs) = [row |-> row, expand |-> Replaced(sofar, q.field, theirs)]
          BY PutReplaces
        <5> QED
          BY <4>2, <4>3, <5>2, <5>5, <5>6
      <4> QED
        BY <3>5, <4>4, <4>5
    <3> HIDE DEF path, before, next, R
    <3>6. \A row : \/ Partners(tables, rows, name, row, path[1]) = {}
                   \/ \E q : Partners(tables, rows, name, row, path[1]) = {q}
      <4>1. Unambiguous(path, tables, Words)
        BY <3>2 DEF Unambiguous
      <4>2. SoleAlong(tables, rows, name, path)
        BY <1>1, <1>2, <4>1, SolePartners
      <4> QED
        BY <4>2 DEF SoleAlong
    <3>7. \A row \in own : next[row] = Extended(tables, rows, name, path, before[row])
      BY <3>5, <3>6
    <3>8. ExpandRelation(schema, rows, name, Image(before, own), path) = Image(next, own)
      <4>1. Extends(tables, rows, name, path, own, before, next)
        BY <3>3, <3>7 DEF Extends
      <4>2. Unambiguous(path, tables, Words)
        BY <3>2 DEF Unambiguous
      <4> QED
        BY <1>1, <1>2, <4>1, <4>2, PathFollowed
    <3> QED
      BY <1>4, <3>1, <3>4, <3>8 DEF path
  <2>3. S = Nat
    <3>1. S \subseteq Nat
      OBVIOUS
    <3> HIDE DEF S
    <3> QED
      BY <2>1, <2>2, <3>1, Induction
  <2> QED
    BY <1>3, <2>3
<1>7. \A row : R(N, row) = Meaning(tables, rows, name, row, paths)
  BY MeaningAttached
<1> HIDE DEF R, N
<1>8. after[N] = {R(N, row) : row \in own}
  BY <1>3, <1>6
<1>9. {R(N, row) : row \in own} = {Meaning(tables, rows, name, row, paths) : row \in own}
  BY <1>7
<1> QED
  BY <1>4, <1>8, <1>9 DEF ExpandsAs

\* Without rows there are no partners, and nothing to expand.
LEMMA NothingFound ==
  ASSUME NEW tables, NEW rows, NEW name, NEW row, NEW paths,
         \A key \in Keys(tables) : rows[key.table] = {} /\ (key.fk.ref \in Names(tables) => rows[key.fk.ref] = {})
  PROVE  Meaning(tables, rows, name, row, paths) = Record(row)
<1>1. ASSUME NEW rel, rows[rel.table] = {} PROVE Mates(rel, rows, row) = {}
  BY <1>1 DEF Mates
<1>2. ASSUME NEW word PROVE Partners(tables, rows, name, row, word) = {}
  <2>1. \A key \in Away(tables, name, word) : key.fk.ref \in Names(tables) => Mates(Forward(key.fk), rows, row) = {}
    BY <1>1 DEF Away, Forward
  <2>2. \A key \in Towards(tables, name, word) : Mates(Backward(key.table, key.fk), rows, row) = {}
    BY <1>1 DEF Towards, Backward
  <2> QED
    BY <2>1, <2>2 DEF Partners
<1> DEFINE First(n) == Partners(tables, rows, name, row, paths[n][1])
           fields == {p.field : p \in UNION {First(n) : n \in DOMAIN paths}}
<1>3. fields = {}
  BY <1>2
<1>4. \E F : Meaning(tables, rows, name, row, paths) = [row |-> row, expand |-> [field \in {} |-> F[field]]]
  <2> DEFINE Naming1(field) == {n \in DOMAIN paths : \E p \in First(n) : p.field = field}
             LastNaming(field) == CHOOSE n \in Naming1(field) : \A m \in Naming1(field) : m <= n
             Value(field) == UNION {{Along(tables, rows, paths[LastNaming(field)], p.table, r) : r \in p.rows} :
                                      p \in {p \in First(LastNaming(field)) : p.field = field}}
  <2>1. Meaning(tables, rows, name, row, paths) = [row |-> row, expand |-> [field \in fields |-> Value(field)]]
    BY DEF Meaning, Along
  <2> HIDE DEF Value, fields
  <2> QED
    BY <1>3, <2>1
<1> HIDE DEF fields
<1> QED
  BY <1>4 DEF Record

\* For any tables, rows and paths: expand attaches the join, whatever the order in which the
\* cache lists its tables, and to one record read with claims nothing (expandRecords and
\* expandRelation in expand.go).  It asks of the paths that none is empty, which
\* strings.Split promises.
THEOREM ExpandAttachesTheJoin ==
  ASSUME IsFiniteSet(expansion.tables), expansion.tables \subseteq TableRecords,
         expansion.name \in Names(expansion.tables), expansion.alone \in BOOLEAN,
         NEW Words, expansion.paths \in Seq(Seq(Words) \ {<<>>}),
         Names(expansion.tables) \subseteq DOMAIN expansion.rows
  PROVE  ExpandIsJoin
<1> DEFINE tables == expansion.tables
           name   == expansion.name
           rows   == expansion.rows
           paths  == expansion.paths
           own    == Answered(expansion)
<1> SUFFICES ASSUME Clear(tables, paths), SimpleKeys(tables, rows), NEW schema \in Orders(tables)
             PROVE  Expand(schema, Findable(expansion), name, {Record(row) : row \in own}, paths)
                      = IF expansion.alone THEN {Record(row) : row \in own}
                        ELSE {Meaning(tables, rows, name, row, paths) : row \in own}
  BY DEF ExpandIsJoin
<1>1. /\ IsFiniteSet(tables) /\ tables \subseteq TableRecords /\ name \in Names(tables)
      /\ paths \in Seq(Seq(Words) \ {<<>>})
  OBVIOUS
<1>2. CASE ~expansion.alone
  <2>1. Findable(expansion) = rows
    BY <1>2 DEF Findable
  \* A part of a row relates what the row does, or nothing.
  <2>2. Fitting(tables, rows, name, own)
    <3>1. ASSUME NEW rel, Joinable(rel, rows, rows[name]) PROVE Joinable(rel, rows, own)
      <4> DEFINE col == rel.cols[1]
      <4>1. ASSUME NEW row \in own PROVE Cell(row, col) = Null \/ \E full \in rows[name] : Cell(row, col) = Cell(full, col)
        <5>1. PICK full \in rows[name] : row = [c \in expansion.fields \cap DOMAIN full |-> full[c]]
          BY DEF Answered, Part
        <5> QED
          BY <5>1 DEF Cell
      <4>2. ASSUME NEW row \in own, NEW r \in rows[rel.table],
                   SameInSQL(Cell(row, col), Cell(r, rel.theirs[1]))
            PROVE  SameInGo(Cell(row, col), Cell(r, rel.theirs[1]))
        <5>1. PICK full \in rows[name] : Cell(row, col) = Cell(full, col)
          BY <4>1, <4>2 DEF SameInSQL
        <5> QED
          BY <3>1, <4>2, <5>1 DEF Joinable
      <4> HIDE DEF own
      <4> QED
        BY <3>1, <4>2 DEF Joinable
    <3>2. Fitting(tables, rows, name, rows[name])
      BY SimpleFitting
    <3> HIDE DEF own
    <3> QED
      BY <3>1, <3>2 DEF Fitting
  <2> HIDE DEF tables, name, rows, paths, own
  <2>3. ExpandsAs(tables, rows, name, own, paths, schema)
    BY <1>1, <2>2, ExpandedRows
  <2> QED
    BY <1>2, <2>1, <2>3 DEF ExpandsAs
<1>3. CASE expansion.alone
  <2> DEFINE none == Findable(expansion)
  <2>1. \A table \in Names(tables) : none[table] = {}
    BY <1>3 DEF Findable
  <2>2. \A key \in Keys(tables) : key.table \in Names(tables)
    BY DEF Keys, Names
  <2> HIDE DEF tables, name, rows, paths, own, none
  <2>3. ASSUME NEW key \in Keys(tables), key.fk.ref \in Names(tables), NEW from
        PROVE  Joinable(Forward(key.fk), none, from) /\ Joinable(Backward(key.table, key.fk), none, from)
    <3>1. none[key.table] = {} /\ none[key.fk.ref] = {}
      BY <2>1, <2>2, <2>3
    <3>2. DOMAIN Forward(key.fk).cols = {1} /\ DOMAIN Backward(key.table, key.fk).cols = {1}
      BY <2>3 DEF SimpleKeys, Joinable
    <3>3. Forward(key.fk).table = key.fk.ref /\ Backward(key.table, key.fk).table = key.table
      BY DEF Forward, Backward
    <3> QED
      BY <3>1, <3>2, <3>3 DEF Joinable
  <2>4. SimpleKeys(tables, none) /\ Fitting(tables, none, name, own)
    BY <2>3 DEF SimpleKeys, Fitting
  <2>5. ExpandsAs(tables, none, name, own, paths, schema)
    BY <1>1, <2>4, ExpandedRows
  <2>6. \A row : Meaning(tables, none, name, row, paths) = Record(row)
    BY <2>1, <2>2, NothingFound
  <2> QED
    BY <1>3, <2>5, <2>6 DEF ExpandsAs, none
<1> QED
  BY <1>2, <1>3

-----------------------------------------------------------------------------
\* Parity, by halves.
LEMMA Even == ASSUME NEW h \in Int PROVE (2 * h) % 2 = 0 /\ (2 * h + 1) % 2 = 1
  OBVIOUS
LEMMA Halved ==
  ASSUME NEW n \in Int
  PROVE  \E h \in Int : (n = 2 * h /\ n % 2 = 0) \/ (n = 2 * h + 1 /\ n % 2 = 1)
<1> DEFINE h == n \div 2
<1>1. h \in Int /\ (n = 2 * h \/ n = 2 * h + 1)
  OBVIOUS
<1> HIDE DEF h
<1> QED
  BY <1>1, Even

\* Values and commas alternate in a list that starts at s.
LEMMA ValueSpot ==
  ASSUME NEW i \in Int, NEW s \in Int, NEW k \in Int, NEW h \in Int, s = i + 3, k - s = 2 * h
  PROVE  k = s + 2 * h /\ k - i = 2 * (h + 1) + 1 /\ h + 1 \in Int
  OBVIOUS
LEMMA CommaSpot ==
  ASSUME NEW i \in Int, NEW s \in Int, NEW k \in Int, NEW h \in Int, s = i + 3, k - s = 2 * h + 1
  PROVE  k = s + 2 * h + 1 /\ k - i = 2 * (h + 2) /\ h + 2 \in Int
  OBVIOUS
\* A value or a comma before the end.
LEMMA SpotBefore ==
  ASSUME NEW s \in Int, NEW k \in Int, NEW h \in Int, NEW last \in Int, s <= k, k < s + 2 * last + 1
  PROVE  (k - s = 2 * h => 0 <= h /\ h <= last) /\ (k - s = 2 * h + 1 => 0 <= h /\ h < last)
  OBVIOUS

\* Where the comparison at a position ends: after its last token, 0 if there is none.
CmpEnd(toks, i) ==
  IF \E j \in DOMAIN toks : IsComparison(toks, i, j)
  THEN (CHOOSE j \in DOMAIN toks : IsComparison(toks, i, j)) + 1 ELSE 0

\* A call of the parser whose functions read what they are said to.
Returns(toks, x, end) ==
  IF end = 0 THEN x = Failed
  ELSE \E sql, args : args \in Seq(ToSet(toks)) /\ x = Read(sql, end, args)

\* An IN list from i to j, as it is returned.
ListAt(toks, i, j, col, args, x) ==
  \E n \in Nat : /\ n > 0 /\ j = i + 2 * n + 2
                 /\ x = Read(Listed(col, Len(args), n), j + 1,
                             args \o [k \in 1..n |-> toks[(i + 3) + 2 * k - 2]])

\* A function over 1..n is a sequence; what one holds after another.
LEMMA FunctionSeq ==
  ASSUME NEW S, NEW n \in Nat, NEW f \in [1..n -> S]
  PROVE  f \in Seq(S) /\ Len(f) = n
  OBVIOUS
Follows(S, x, y, z) ==
  /\ z \in Seq(S) /\ DOMAIN x = 1..Len(x) /\ Len(x) \in Nat /\ DOMAIN z = 1..(Len(x) + Len(y))
  /\ (\A k \in 1..Len(x) : z[k] = x[k]) /\ \A k \in 1..Len(y) : z[Len(x) + k] = y[k]
LEMMA FollowsOn ==
  ASSUME NEW S, NEW x \in Seq(S), NEW y \in Seq(S)
  PROVE  Follows(S, x, y, x \o y)
  BY DEF Follows

\* What has a kind is a token.
LEMMA KindsInside ==
  ASSUME NEW T, NEW toks \in Seq(T), NEW i \in Int, KindAt(toks, i) # "end"
  PROVE  i \in DOMAIN toks /\ KindAt(toks, i) = toks[i].kind
  BY DEF KindAt

\* The values of an IN list end somewhere.
LEMMA ListEnds ==
  ASSUME NEW T, NEW toks \in Seq(T), NEW s \in Nat
  PROVE  LET S == {k \in 0..Len(toks) : KindAt(toks, s + 2 * k + 1) # "comma"}
         IN Min(S) \in S /\ \A k \in S : Min(S) <= k
<1> DEFINE N == Len(toks)
           S == {k \in 0..N : KindAt(toks, s + 2 * k + 1) # "comma"}
<1>1. N \in Nat /\ DOMAIN toks = 1..N
  OBVIOUS
<1> HIDE DEF N
<1>2. KindAt(toks, s + 2 * N + 1) = "end"
  <2>1. s + 2 * N + 1 \notin DOMAIN toks
    BY <1>1
  <2> QED
    BY <2>1 DEF KindAt
<1>3. N \in S
  BY <1>1, <1>2
<1>4. S \subseteq Nat
  BY <1>1
<1> HIDE DEF S
<1>5. \E x \in S : \A y \in S : x <= y
  BY <1>3, <1>4, LeastNumber
<1>6. Min(S) \in S /\ \A k \in S : Min(S) <= k
  BY <1>5 DEF Min
<1> QED
  BY <1>6 DEF S, N

\* An IN list is read up to its parenthesis, exactly when it is one.
LEMMA InListRead ==
  ASSUME NEW T, NEW toks \in Seq(T), NEW i \in Nat, NEW args \in Seq(ToSet(toks)), NEW col,
         KindAt(toks, i) = "ident", toks[i].value \in Columns,
         KindAt(toks, i + 1) = "in", KindAt(toks, i + 2) = "lparen"
  PROVE  \/ /\ InList(toks, col, i + 3, args) = Failed
            /\ \A j \in DOMAIN toks : ~IsComparison(toks, i, j)
         \/ \E j \in DOMAIN toks :
              /\ IsComparison(toks, i, j) /\ j > i
              /\ \A l \in DOMAIN toks : IsComparison(toks, i, l) => l = j
              /\ Returns(toks, InList(toks, col, i + 3, args), j + 1)
              /\ ListAt(toks, i, j, col, args, InList(toks, col, i + 3, args))
<1> DEFINE s == i + 3
           N == Len(toks)
           last == Min({k \in 0..Len(toks) : KindAt(toks, s + 2 * k + 1) # "comma"})
           values == [k \in 1..(last + 1) |-> toks[s + 2 * k - 2]]
           fits == /\ \A k \in 0..last : IsValue(KindAt(toks, s + 2 * k))
                   /\ KindAt(toks, s + 2 * last + 1) = "rparen"
           sql == Listed(col, Len(args), last + 1)
           j == s + 2 * last + 1
<1>1. N \in Nat /\ DOMAIN toks = 1..N /\ s \in Nat
  OBVIOUS
<1>2. /\ last \in 0..N /\ KindAt(toks, s + 2 * last + 1) # "comma"
      /\ \A k \in 0..N : k < last => KindAt(toks, s + 2 * k + 1) = "comma"
  <2>1. \A k \in {m \in 0..Len(toks) : KindAt(toks, s + 2 * m + 1) # "comma"} : last <= k
    BY <1>1, ListEnds
  <2>2. last \in {m \in 0..Len(toks) : KindAt(toks, s + 2 * m + 1) # "comma"}
    BY <1>1, ListEnds
  <2> HIDE DEF last
  <2> QED
    BY <1>1, <2>1, <2>2
<1>3. InList(toks, col, s, args) = IF fits THEN Read(sql, s + 2 * last + 2, args \o values) ELSE Failed
  BY DEF InList
<1>8. s = i + 3 /\ i \in Nat
  OBVIOUS
<1> HIDE DEF last, s, N
<1>4. ASSUME NEW l \in DOMAIN toks, IsComparison(toks, i, l)
      PROVE  fits /\ l = j
  <2>1. /\ KindAt(toks, l) = "rparen" /\ l - i > 3 /\ (l - i) % 2 = 0
        /\ \A k \in (i + 3)..(l - 1) :
             IF (k - i) % 2 = 1 THEN IsValue(toks[k].kind) ELSE toks[k].kind = "comma"
    BY <1>4, <1>8 DEF IsComparison
  <2>2. \A k \in (i + 3)..(l - 1) : KindAt(toks, k) = toks[k].kind
    BY <1>1 DEF KindAt
  <2>3. PICK m \in Nat : l = s + 2 * m + 1
    <3>1. l \in Int /\ l - i >= 4
      BY <1>1, <1>8, <2>1
    <3>4. l - i \in Int /\ (l - i) % 2 = 0
      BY <1>8, <2>1, <3>1
    <3>2. PICK h \in Int : l - i = 2 * h
      BY <3>4, Halved
    <3>3. h - 2 \in Nat /\ l = s + 2 * (h - 2) + 1
      BY <1>1, <1>8, <3>1, <3>2
    <3> QED
      BY <3>3
  <2>4. m <= N
    BY <1>1, <1>8, <2>3
  <2>5. \A k \in 0..N : k < m => KindAt(toks, s + 2 * k + 1) = "comma"
    <3> SUFFICES ASSUME NEW k \in 0..N, k < m PROVE KindAt(toks, s + 2 * k + 1) = "comma"
      OBVIOUS
    <3>1. s + 2 * k + 1 \in (i + 3)..(l - 1)
      BY <1>1, <1>8, <2>3
    <3>2. (s + 2 * k + 1) - i = 2 * (k + 2) /\ k + 2 \in Int
      BY <1>1, <1>8
    <3>3. ((s + 2 * k + 1) - i) % 2 = 0
      BY <1>1, <1>8, <3>2, Even
    <3> HIDE DEF s
    <3> QED
      BY <1>1, <2>1, <2>2, <3>1, <3>3
  <2>6. last = m
    <3>1. last >= m
      BY <1>1, <1>8, <1>2, <2>1, <2>3, <2>5
    <3>2. last <= m
      BY <1>1, <1>8, <1>2, <2>1, <2>3, <2>4
    <3> QED
      BY <1>2, <3>1, <3>2
  <2>7. \A k \in 0..last : IsValue(KindAt(toks, s + 2 * k))
    <3> SUFFICES ASSUME NEW k \in 0..last PROVE IsValue(KindAt(toks, s + 2 * k))
      OBVIOUS
    <3>1. s + 2 * k \in (i + 3)..(l - 1)
      BY <1>1, <1>8, <2>3, <2>6
    <3>2. (s + 2 * k) - i = 2 * (k + 1) + 1 /\ k + 1 \in Int
      BY <1>1, <1>8
    <3>3. ((s + 2 * k) - i) % 2 = 1
      BY <1>1, <1>8, <3>2, Even
    <3> QED
      BY <1>1, <2>1, <2>2, <3>1, <3>3
  <2> QED
    BY <2>1, <2>3, <2>6, <2>7
<1>5. ASSUME fits
      PROVE  /\ j \in DOMAIN toks /\ j > i /\ IsComparison(toks, i, j)
             /\ args \o values \in Seq(ToSet(toks))
  <2>1. j \in DOMAIN toks /\ KindAt(toks, j) = "rparen"
    <3>1. KindAt(toks, j) # "end" /\ j \in Int
      BY <1>1, <1>8, <1>2, <1>5
    <3> QED
      BY <1>5, <3>1, KindsInside
  <2>2. j - i = 2 * (last + 2) /\ last + 2 \in Int /\ j - i > 3
    BY <1>1, <1>8, <1>2
  <2>3. (j - i) % 2 = 0
    BY <2>2, Even
  <2>4. ASSUME NEW k \in (i + 3)..(j - 1)
        PROVE  IF (k - i) % 2 = 1 THEN IsValue(toks[k].kind) ELSE toks[k].kind = "comma"
    <3>1. k \in 1..N /\ k \in Int /\ KindAt(toks, k) = toks[k].kind
      BY <1>1, <1>8, <1>2, <2>1 DEF KindAt
    <3>2. \E h \in Int : k - s = 2 * h \/ k - s = 2 * h + 1
      <4>1. k - s \in Int
        BY <1>1, <3>1
      <4> QED
        BY <4>1, Halved
    <3>3. PICK h \in Int : k - s = 2 * h \/ k - s = 2 * h + 1
      BY <3>2
    <3>6. s \in Int /\ i \in Int /\ k \in Int /\ k < s + 2 * last + 1 /\ s <= k /\ last \in Int
      <4>1. s \in Int /\ i \in Int /\ k \in Int /\ last \in Int
        BY <1>1, <1>8, <1>2, <3>1
      <4>2. s <= k
        BY <1>8, <4>1
      <4>3. k < s + 2 * last + 1
        BY <4>1
      <4> QED
        BY <4>1, <4>2, <4>3
    <3>7. (k - s = 2 * h => 0 <= h /\ h <= last) /\ (k - s = 2 * h + 1 => 0 <= h /\ h < last)
      BY <3>6, SpotBefore
    <3>4. CASE k - s = 2 * h
      <4>1. h \in 0..last
        BY <3>4, <3>6, <3>7
      <4>2. k = s + 2 * h /\ k - i = 2 * (h + 1) + 1 /\ h + 1 \in Int
        BY <1>8, <3>4, <3>6, ValueSpot
      <4>3. (k - i) % 2 = 1
        BY <4>2, Even
      <4> QED
        BY <1>5, <3>1, <4>1, <4>2, <4>3
    <3>5. CASE k - s = 2 * h + 1
      <4>1. h >= 0 /\ h < last
        BY <3>5, <3>7
      <4>2. k = s + 2 * h + 1 /\ k - i = 2 * (h + 2) /\ h + 2 \in Int
        BY <1>8, <3>5, <3>6, CommaSpot
      <4>4. h \in 0..N
        BY <1>1, <1>2, <4>1
      <4>3. (k - i) % 2 = 0
        BY <4>2, Even
      <4> QED
        BY <1>2, <3>1, <4>1, <4>2, <4>3, <4>4
    <3> QED
      BY <3>3, <3>4, <3>5
  <2>5. IsComparison(toks, i, j)
    BY <1>8, <2>1, <2>2, <2>3, <2>4 DEF IsComparison
  <2>6. values \in Seq(ToSet(toks))
    <3>1. \A k \in 1..(last + 1) : toks[s + 2 * k - 2] \in ToSet(toks)
      <4> SUFFICES ASSUME NEW k \in 1..(last + 1) PROVE toks[s + 2 * k - 2] \in ToSet(toks)
        OBVIOUS
      <4>1. k - 1 \in 0..last /\ s + 2 * (k - 1) = s + 2 * k - 2 /\ s + 2 * k - 2 \in Int
        BY <1>1, <1>8, <1>2
      <4>2. KindAt(toks, s + 2 * k - 2) # "end"
        BY <1>5, <4>1 DEF IsValue
      <4>3. s + 2 * k - 2 \in DOMAIN toks
        BY <4>1, <4>2, KindsInside
      <4> QED
        BY <4>3 DEF ToSet
    <3>2. last + 1 \in Nat
      BY <1>2
    <3>3. values \in [1..(last + 1) -> ToSet(toks)]
      BY <3>1
    <3> HIDE DEF values, last
    <3> QED
      BY <3>2, <3>3, FunctionSeq
  <2> QED
    BY <2>1, <2>2, <2>5, <2>6
<1>6. CASE fits
  <2>1. InList(toks, col, i + 3, args) = Read(sql, j + 1, args \o values)
    <3>1. s + 2 * last + 2 = j + 1
      BY <1>1, <1>8, <1>2
    <3>2. InList(toks, col, s, args) = Read(sql, s + 2 * last + 2, args \o values)
      <4> HIDE DEF sql, values
      <4> QED
        BY <1>3, <1>6
    <3> HIDE DEF sql, values, j
    <3> QED
      BY <1>8, <3>1, <3>2
  <2>2. j + 1 # 0
    BY <1>1, <1>8, <1>2
  <2>3. Returns(toks, InList(toks, col, i + 3, args), j + 1)
    <3> HIDE DEF sql, values, j
    <3> QED
      BY <1>5, <1>6, <2>1, <2>2 DEF Returns
  <2>4. \A l \in DOMAIN toks : IsComparison(toks, i, l) => l = j
    BY <1>4
  <2>5. ListAt(toks, i, j, col, args, InList(toks, col, i + 3, args))
    <3> DEFINE n == last + 1
               x == InList(toks, col, i + 3, args)
    <3>1. n \in Nat /\ n > 0 /\ j = i + 2 * n + 2
      BY <1>1, <1>8, <1>2
    <3>2. sql = Listed(col, Len(args), n) /\ values = [k \in 1..n |-> toks[(i + 3) + 2 * k - 2]]
      BY <1>8
    <3> HIDE DEF sql, values, j, n, x
    <3>3. x = Read(Listed(col, Len(args), n), j + 1, args \o [k \in 1..n |-> toks[(i + 3) + 2 * k - 2]])
      BY <2>1, <3>2 DEF x
    <3> QED
      BY <3>1, <3>3 DEF ListAt, x
  <2> HIDE DEF j
  <2> QED
    BY <1>5, <1>6, <2>3, <2>4, <2>5
<1>7. CASE ~fits
  <2>1. InList(toks, col, i + 3, args) = Failed
    BY <1>3, <1>7, <1>8
  <2>2. \A l \in DOMAIN toks : ~IsComparison(toks, i, l)
    BY <1>4, <1>7
  <2> QED
    BY <2>1, <2>2
<1> QED
  BY <1>6, <1>7

\* A comparison is read to its end, exactly when there is one.
LEMMA ComparisonRead ==
  ASSUME NEW T, NEW toks \in Seq(T), NEW i \in Nat, NEW args \in Seq(ToSet(toks))
  PROVE  \/ /\ Comparison(toks, i, args) = Failed
            /\ \A j \in DOMAIN toks : ~IsComparison(toks, i, j)
         \/ \E j \in DOMAIN toks :
              /\ IsComparison(toks, i, j) /\ j > i
              /\ \A l \in DOMAIN toks : IsComparison(toks, i, l) => l = j
              /\ Returns(toks, Comparison(toks, i, args), j + 1)
<1> DEFINE column == KindAt(toks, i) = "ident" /\ toks[i].value \in Columns
           second == KindAt(toks, i + 1)
           third  == KindAt(toks, i + 2)
           equality == toks[i + 1].value \in {Equal, Unequal}
<1>1. Comparison(toks, i, args) =
        CASE column /\ second = "in" /\ third = "lparen" -> InList(toks, toks[i].value, i + 3, args)
          [] column /\ second = "op" /\ third = "null" -> NullTest(toks, i, args)
          [] column /\ second = "op" /\ third = "value" ->
               Read(Compared(toks[i].value, toks[i + 1].value, Len(args) + 1),
                    i + 3, Append(args, toks[i + 2]))
          [] OTHER -> Failed
  BY DEF Comparison
<1>2. \A j : IsComparison(toks, i, j) <=>
        /\ column
        /\ \/ /\ j = i + 2 /\ second = "op"
              /\ KindAt(toks, j) = "value" \/ (KindAt(toks, j) = "null" /\ equality)
           \/ /\ second = "in" /\ third = "lparen" /\ KindAt(toks, j) = "rparen"
              /\ j - i > 3 /\ (j - i) % 2 = 0
              /\ \A k \in (i + 3)..(j - 1) :
                   IF (k - i) % 2 = 1 THEN IsValue(toks[k].kind) ELSE toks[k].kind = "comma"
  BY DEF IsComparison
<1>3. third # "end" => i + 2 \in DOMAIN toks
  BY KindsInside
<1>4. DOMAIN toks \subseteq Int /\ i + 2 > i /\ (i + 2) + 1 = i + 3 /\ i + 3 # 0
  OBVIOUS
<1>5. CASE ~column
  <2>1. Comparison(toks, i, args) = Failed
    BY <1>1, <1>5
  <2> HIDE DEF column, second, third, equality
  <2> QED
    BY <1>2, <1>5, <2>1
<1>6. CASE column /\ second = "in" /\ third = "lparen"
  <2>1. Comparison(toks, i, args) = InList(toks, toks[i].value, i + 3, args)
    BY <1>1, <1>6
  <2> QED
    BY <1>6, <2>1, InListRead
<1>7. CASE column /\ second = "op" /\ third = "value"
  <2>1. Comparison(toks, i, args) =
          Read(Compared(toks[i].value, toks[i + 1].value, Len(args) + 1), i + 3, Append(args, toks[i + 2]))
    BY <1>1, <1>7
  <2>2. i + 2 \in DOMAIN toks /\ IsComparison(toks, i, i + 2)
    BY <1>2, <1>3, <1>7
  <2>3. \A l \in DOMAIN toks : IsComparison(toks, i, l) => l = i + 2
    BY <1>2, <1>7
  <2>4. Append(args, toks[i + 2]) \in Seq(ToSet(toks))
    BY <2>2 DEF ToSet
  <2>5. Returns(toks, Comparison(toks, i, args), (i + 2) + 1)
    BY <1>4, <2>1, <2>4 DEF Returns
  <2> QED
    BY <1>4, <2>2, <2>3, <2>5
<1>8. CASE column /\ second = "op" /\ third = "null" /\ equality
  <2>1. Comparison(toks, i, args) =
          Read(<<Column(toks[i].value), Token("is", toks[i + 1].value = Equal)>>, i + 3, args)
    BY <1>1, <1>8 DEF NullTest, ComparedWithNull
  <2>2. i + 2 \in DOMAIN toks /\ IsComparison(toks, i, i + 2)
    BY <1>2, <1>3, <1>8
  <2>3. \A l \in DOMAIN toks : IsComparison(toks, i, l) => l = i + 2
    BY <1>2, <1>8
  <2>4. Returns(toks, Comparison(toks, i, args), (i + 2) + 1)
    BY <1>4, <2>1 DEF Returns
  <2> QED
    BY <1>4, <2>2, <2>3, <2>4
<1>9. CASE column /\ second = "op" /\ third = "null" /\ ~equality
  <2>1. Comparison(toks, i, args) = Failed
    BY <1>1, <1>9 DEF NullTest
  <2> QED
    BY <1>2, <1>9, <2>1
<1>10. CASE /\ column
            /\ ~(second = "in" /\ third = "lparen")
            /\ ~(second = "op" /\ third \in {"null", "value"})
  <2>1. Comparison(toks, i, args) = Failed
    BY <1>1, <1>10
  <2> QED
    BY <1>2, <1>10, <2>1
<1> QED
  BY <1>5, <1>6, <1>7, <1>8, <1>9, <1>10

\* There is one comparison at a position at most, and CmpEnd is behind it.
LEMMA ComparisonEnds ==
  ASSUME NEW T, NEW toks \in Seq(T), NEW i \in Nat
  PROVE  /\ CmpEnd(toks, i) \in 0..(Len(toks) + 1)
         /\ CmpEnd(toks, i) # 0 => /\ CmpEnd(toks, i) > i + 1
                                   /\ CmpEnd(toks, i) - 1 \in DOMAIN toks
                                   /\ IsComparison(toks, i, CmpEnd(toks, i) - 1)
         /\ \A j \in DOMAIN toks : IsComparison(toks, i, j) => CmpEnd(toks, i) = j + 1
         /\ \A args \in Seq(ToSet(toks)) : Returns(toks, Comparison(toks, i, args), CmpEnd(toks, i))
<1> DEFINE some == \E j \in DOMAIN toks : IsComparison(toks, i, j)
<1>0. <<>> \in Seq(ToSet(toks)) /\ DOMAIN toks = 1..Len(toks) /\ Len(toks) \in Nat
  OBVIOUS
<1>1. CASE ~some
  <2>1. CmpEnd(toks, i) = 0
    BY <1>1 DEF CmpEnd
  <2>2. ASSUME NEW args \in Seq(ToSet(toks))
        PROVE  Comparison(toks, i, args) = Failed
    BY <1>1, ComparisonRead
  <2> QED
    BY <1>0, <1>1, <2>1, <2>2 DEF Returns
<1>2. CASE some
  <2>5. ASSUME NEW args \in Seq(ToSet(toks))
        PROVE  \E j \in DOMAIN toks :
                 /\ IsComparison(toks, i, j) /\ j > i
                 /\ \A l \in DOMAIN toks : IsComparison(toks, i, l) => l = j
    BY <1>2, ComparisonRead
  <2>1. PICK j \in DOMAIN toks :
          /\ IsComparison(toks, i, j) /\ j > i
          /\ \A l \in DOMAIN toks : IsComparison(toks, i, l) => l = j
    BY <1>0, <2>5
  <2>2. CmpEnd(toks, i) = j + 1
    BY <1>2, <2>1 DEF CmpEnd
  <2>3. ASSUME NEW args \in Seq(ToSet(toks))
        PROVE  Returns(toks, Comparison(toks, i, args), CmpEnd(toks, i))
    <3>1. PICK l \in DOMAIN toks : /\ IsComparison(toks, i, l)
                                   /\ Returns(toks, Comparison(toks, i, args), l + 1)
      BY <2>1, ComparisonRead
    <3> QED
      BY <2>1, <2>2, <3>1
  <2>4. /\ CmpEnd(toks, i) \in 0..(Len(toks) + 1) /\ CmpEnd(toks, i) > i + 1
        /\ CmpEnd(toks, i) - 1 = j
    BY <1>0, <2>1, <2>2
  <2> QED
    BY <2>1, <2>2, <2>3, <2>4
<1> QED
  BY <1>1, <1>2

\* Where the calls of a function of the parser end: 0 if they fail, else behind their start.
Ends(toks) == {e \in [Nat -> 0..(Len(toks) + 1)] : \A i \in Nat : e[i] # 0 => e[i] > i}
Reads(toks, f, e) ==
  \A i \in Nat : \A args \in Seq(ToSet(toks)) : Returns(toks, f[<<i, args>>], e[i])

\* Where a primary ends, if the expressions in parentheses end at e.
PrimEnd(toks, e, i) ==
  IF KindAt(toks, i) # "lparen" THEN CmpEnd(toks, i)
  ELSE IF e[i + 1] # 0 /\ KindAt(toks, e[i + 1]) = "rparen" THEN e[i + 1] + 1 ELSE 0

LEMMA EndOf ==
  ASSUME NEW toks, NEW e \in Ends(toks), NEW i \in Nat
  PROVE  e[i] \in 0..(Len(toks) + 1) /\ (e[i] # 0 => e[i] > i)
  BY DEF Ends

LEMMA ReadAt ==
  ASSUME NEW toks, NEW f, NEW e, Reads(toks, f, e), NEW i \in Nat, NEW args \in Seq(ToSet(toks))
  PROVE  Returns(toks, f[<<i, args>>], e[i])
  BY DEF Reads

\* What a call returned.
LEMMA ReadOf ==
  ASSUME NEW n, NEW p, NEW a
  PROVE  /\ Read(n, p, a).ok /\ Read(n, p, a).sql = n /\ Read(n, p, a).pos = p /\ Read(n, p, a).args = a
         /\ ~Failed.ok
  BY DEF Read, Failed

\* A primary ends behind its start, inside the filter.
LEMMA PrimaryEnd ==
  ASSUME NEW T, NEW toks \in Seq(T), NEW e \in Ends(toks), NEW i \in Nat
  PROVE  PrimEnd(toks, e, i) \in 0..(Len(toks) + 1) /\ (PrimEnd(toks, e, i) # 0 => PrimEnd(toks, e, i) > i)
<1>0. Len(toks) \in Nat /\ DOMAIN toks = 1..Len(toks)
  OBVIOUS
<1>1. CASE KindAt(toks, i) # "lparen"
  <2>1. PrimEnd(toks, e, i) = CmpEnd(toks, i)
    BY <1>1 DEF PrimEnd
  <2> QED
    BY <1>0, <2>1, ComparisonEnds
<1>2. CASE KindAt(toks, i) = "lparen"
  <2>1. i + 1 \in Nat
    OBVIOUS
  <2>2. e[i + 1] \in 0..(Len(toks) + 1) /\ (e[i + 1] # 0 => e[i + 1] > i + 1)
    BY <2>1, EndOf
  <2>3. KindAt(toks, e[i + 1]) = "rparen" => e[i + 1] \in 1..Len(toks)
    <3>1. KindAt(toks, e[i + 1]) = "rparen" => e[i + 1] \in DOMAIN toks
      BY DEF KindAt
    <3> QED
      BY <1>0, <3>1
  <2>4. PrimEnd(toks, e, i) =
          IF e[i + 1] # 0 /\ KindAt(toks, e[i + 1]) = "rparen" THEN e[i + 1] + 1 ELSE 0
    BY <1>2 DEF PrimEnd
  <2> QED
    BY <1>0, <2>2, <2>3, <2>4
<1> QED
  BY <1>1, <1>2

\* parsePrimary ends at PrimEnd, if the expressions it calls end at e.
LEMMA PrimariesRead ==
  ASSUME NEW T, NEW toks \in Seq(T), NEW f, NEW e \in Ends(toks), Reads(toks, f, e)
  PROVE  /\ [i \in Nat |-> PrimEnd(toks, e, i)] \in Ends(toks)
         /\ Reads(toks, Primaries(toks, f), [i \in Nat |-> PrimEnd(toks, e, i)])
<1>0. Len(toks) \in Nat /\ DOMAIN toks = 1..Len(toks)
  OBVIOUS
<1>1. \A i \in Nat : /\ PrimEnd(toks, e, i) \in 0..(Len(toks) + 1)
                     /\ PrimEnd(toks, e, i) # 0 => PrimEnd(toks, e, i) > i
  BY PrimaryEnd
<1>2. ASSUME NEW i \in Nat, NEW args \in Seq(ToSet(toks))
      PROVE  Returns(toks, Primaries(toks, f)[<<i, args>>], PrimEnd(toks, e, i))
  <2> DEFINE inner == f[<<i + 1, args>>]
             x == Primaries(toks, f)[<<i, args>>]
  <2>1. x = CASE KindAt(toks, i) # "lparen" -> Comparison(toks, i, args)
              [] KindAt(toks, i) = "lparen" /\ inner.ok /\ KindAt(toks, inner.pos) = "rparen" ->
                   Read(inner.sql, inner.pos + 1, inner.args)
              [] OTHER -> Failed
    BY DEF Primaries, Calls
  <2> HIDE DEF x
  <2>2. CASE KindAt(toks, i) # "lparen"
    <3>1. x = Comparison(toks, i, args) /\ PrimEnd(toks, e, i) = CmpEnd(toks, i)
      BY <2>1, <2>2 DEF PrimEnd
    <3>2. Returns(toks, Comparison(toks, i, args), CmpEnd(toks, i))
      BY ComparisonEnds
    <3> QED
      BY <3>1, <3>2 DEF x
  <2>3. CASE KindAt(toks, i) = "lparen"
    <3>1. i + 1 \in Nat
      OBVIOUS
    <3>2. Returns(toks, inner, e[i + 1]) /\ e[i + 1] \in 0..(Len(toks) + 1)
      BY <3>1, EndOf, ReadAt
    <3>3. CASE e[i + 1] = 0
      <4>1. inner = Failed
        BY <3>2, <3>3 DEF Returns
      <4>2. ~inner.ok
        BY <4>1 DEF Failed
      <4>3. x = Failed /\ PrimEnd(toks, e, i) = 0
        BY <2>1, <2>3, <3>3, <4>2 DEF PrimEnd
      <4> QED
        BY <4>3 DEF Returns, x
    <3>4. CASE e[i + 1] # 0
      <4>1. PICK sql, more : more \in Seq(ToSet(toks)) /\ inner = Read(sql, e[i + 1], more)
        BY <3>2, <3>4 DEF Returns
      <4> HIDE DEF inner
      <4>2. /\ inner.ok /\ inner.pos = e[i + 1]
            /\ Read(inner.sql, inner.pos + 1, inner.args) = Read(sql, e[i + 1] + 1, more)
        BY <4>1, ReadOf
      <4>3. CASE KindAt(toks, e[i + 1]) = "rparen"
        <5>1. x = Read(sql, e[i + 1] + 1, more) /\ PrimEnd(toks, e, i) = e[i + 1] + 1
          BY <2>1, <2>3, <3>4, <4>2, <4>3 DEF PrimEnd
        <5>2. e[i + 1] + 1 # 0
          BY <1>0, <3>2
        <5> QED
          BY <4>1, <5>1, <5>2 DEF Returns, x
      <4>4. CASE KindAt(toks, e[i + 1]) # "rparen"
        <5>1. x = Failed /\ PrimEnd(toks, e, i) = 0
          BY <2>1, <2>3, <3>4, <4>2, <4>4 DEF PrimEnd
        <5> QED
          BY <5>1 DEF Returns, x
      <4> QED
        BY <4>3, <4>4
    <3> QED
      BY <3>3, <3>4
  <2> QED
    BY <2>2, <2>3
<1> QED
  BY <1>1, <1>2 DEF Ends, Reads

\* Where a turn of a loop ends that starts with what was read up to p.
Step(toks, kind, e, p) == IF p = 0 \/ KindAt(toks, p) # kind THEN p ELSE e[p + 1]

\* Where a loop over operands ends: with the first that its operator does not follow.
Unrolled(toks, kind, e, g) ==
  \A i \in Nat : g[i] = IF e[i] = 0 \/ KindAt(toks, e[i]) # kind THEN e[i] ELSE g[e[i] + 1]

LEMMA StepOn ==
  ASSUME NEW toks, Len(toks) \in Nat, NEW kind, kind # "end", NEW e \in Ends(toks),
         NEW p \in 0..(Len(toks) + 1)
  PROVE  /\ Step(toks, kind, e, p) \in 0..(Len(toks) + 1)
         /\ p = 0 => Step(toks, kind, e, p) = 0
         /\ p # 0 /\ KindAt(toks, p) # kind => Step(toks, kind, e, p) = p
         /\ p # 0 /\ KindAt(toks, p) = kind => /\ p + 1 \in Nat /\ Step(toks, kind, e, p) = e[p + 1]
                                               /\ e[p + 1] # 0 => e[p + 1] > p + 1
<1>0. Len(toks) \in Nat /\ p + 1 \in Nat /\ p \in Nat
  OBVIOUS
<1>1. e[p + 1] \in 0..(Len(toks) + 1) /\ (e[p + 1] # 0 => e[p + 1] > p + 1)
  BY <1>0, EndOf
<1> QED
  BY <1>0, <1>1 DEF Step

\* A turn ends at Step.
LEMMA AnotherRead ==
  ASSUME NEW T, NEW toks \in Seq(T), NEW kind, kind # "end",
         NEW f, NEW e \in Ends(toks), Reads(toks, f, e),
         NEW p \in 0..(Len(toks) + 1), NEW left, Returns(toks, left, p)
  PROVE  Returns(toks, Another(toks, kind, f, left), Step(toks, kind, e, p))
<1> DEFINE right == f[<<left.pos + 1, left.args>>]
           x == Another(toks, kind, f, left)
<1>1. x = CASE ~left.ok \/ KindAt(toks, left.pos) # kind -> left
            [] left.ok /\ KindAt(toks, left.pos) = kind /\ right.ok ->
                 Read(Pair(kind, left.sql, right.sql), right.pos, right.args)
            [] OTHER -> Failed
  BY DEF Another
<1>2. CASE p = 0
  <2>1. left = Failed
    BY <1>2 DEF Returns
  <2>2. ~left.ok
    BY <2>1, ReadOf
  <2>3. x = left /\ Step(toks, kind, e, p) = 0
    BY <1>1, <1>2, <2>2 DEF Step
  <2> QED
    BY <2>1, <2>3 DEF Returns
<1>3. CASE p # 0
  <2>1. PICK sql, args : args \in Seq(ToSet(toks)) /\ left = Read(sql, p, args)
    BY <1>3 DEF Returns
  <2>2. left.ok /\ left.pos = p /\ left.args = args
    BY <2>1, ReadOf
  <2>3. CASE KindAt(toks, p) # kind
    <3>1. x = left /\ Step(toks, kind, e, p) = p
      BY <1>1, <2>2, <2>3 DEF Step
    <3> QED
      BY <1>3, <3>1
  <2>4. CASE KindAt(toks, p) = kind
    <3>1. p + 1 \in Nat /\ Step(toks, kind, e, p) = e[p + 1]
      BY <1>3, <2>4, StepOn
    <3>2. Returns(toks, right, e[p + 1])
      BY <2>1, <2>2, <3>1, ReadAt
    <3> HIDE DEF right
    <3>3. CASE e[p + 1] = 0
      <4>1. right = Failed
        BY <3>2, <3>3 DEF Returns
      <4>2. ~right.ok
        BY <4>1, ReadOf
      <4>3. x = Failed
        BY <1>1, <2>2, <2>4, <4>2
      <4> QED
        BY <3>1, <3>3, <4>3 DEF Returns
    <3>4. CASE e[p + 1] # 0
      <4>1. PICK n2, more : more \in Seq(ToSet(toks)) /\ right = Read(n2, e[p + 1], more)
        BY <3>2, <3>4 DEF Returns
      <4>2. right.ok /\ right.pos = e[p + 1] /\ right.args = more
        BY <4>1, ReadOf
      <4>3. x = Read(Pair(kind, left.sql, right.sql), e[p + 1], more)
        BY <1>1, <2>2, <2>4, <4>2
      <4> QED
        BY <3>1, <3>4, <4>1, <4>3 DEF Returns
    <3> QED
      BY <3>3, <3>4
  <2> QED
    BY <2>3, <2>4
<1> QED
  BY <1>2, <1>3

\* The turns of a loop exist, for any number of them.
LEMMA Turning ==
  ASSUME NEW T, NEW toks \in Seq(T), NEW kind, NEW f, NEW call \in Calls(toks)
  PROVE  \E read : /\ read[0] = f[call]
                   /\ \A n \in 1..Len(toks) : read[n] = Another(toks, kind, f, read[n - 1])
                   /\ Joined(toks, kind, f)[call] = read[Len(toks)]
<1> DEFINE N == Len(toks)
           Is(h, m) == h = [n \in 0..m |-> IF n = 0 THEN f[call] ELSE Another(toks, kind, f, h[n - 1])]
           S == {m \in Nat : \E h : Is(h, m)}
           read == CHOOSE h : h = [n \in 0..N |-> IF n = 0 THEN f[call] ELSE Another(toks, kind, f, h[n - 1])]
<1>1. N \in Nat
  OBVIOUS
<1> HIDE DEF N
<1>2. 0 \in S
  <2> DEFINE h == [n \in 0..0 |-> f[call]]
  <2>1. h = [n \in 0..0 |-> IF n = 0 THEN f[call] ELSE Another(toks, kind, f, h[n - 1])]
    OBVIOUS
  <2> QED
    BY <2>1
<1>3. ASSUME NEW m \in S PROVE m + 1 \in S
  <2>1. PICK h : Is(h, m)
    OBVIOUS
  <2> DEFINE h2 == [n \in 0..(m + 1) |-> IF n = m + 1 THEN Another(toks, kind, f, h[m]) ELSE h[n]]
  <2>2. Is(h2, m + 1)
    <3>1. \A n \in 0..(m + 1) : h2[n] = IF n = 0 THEN f[call] ELSE Another(toks, kind, f, h2[n - 1])
      BY <2>1
    <3> QED
      BY <3>1
  <2> HIDE DEF Is, h2
  <2> QED
    BY <2>2
<1>4. N \in S
  <2> HIDE DEF Is
  <2>1. S \subseteq Nat
    OBVIOUS
  <2> HIDE DEF S
  <2> QED
    BY <1>1, <1>2, <1>3, <2>1, Induction
<1>5. Is(read, N)
  BY <1>4
<1>6. Joined(toks, kind, f)[call] = read[N]
  BY DEF Joined, N
<1> HIDE DEF read
<1>7. read[0] = f[call] /\ \A n \in 1..N : read[n] = Another(toks, kind, f, read[n - 1])
  BY <1>1, <1>5
<1> QED
  BY <1>6, <1>7 DEF N

\* A turn goes on behind where it starts.
LEMMA SteppedEnds ==
  ASSUME NEW toks, Len(toks) \in Nat, NEW kind, kind # "end", NEW e \in Ends(toks), NEW g \in Ends(toks)
  PROVE  [i \in Nat |-> Step(toks, kind, e, g[i])] \in Ends(toks)
<1> SUFFICES ASSUME NEW i \in Nat
             PROVE  /\ Step(toks, kind, e, g[i]) \in 0..(Len(toks) + 1)
                    /\ Step(toks, kind, e, g[i]) # 0 => Step(toks, kind, e, g[i]) > i
  BY DEF Ends
<1>1. g[i] \in 0..(Len(toks) + 1) /\ (g[i] # 0 => g[i] > i)
  BY EndOf
<1> DEFINE p == g[i]
<1>2. Len(toks) \in Nat
  OBVIOUS
<1> HIDE DEF p
<1>3. p \in 0..(Len(toks) + 1) /\ (p # 0 => p > i)
  BY <1>1 DEF p
<1>4. /\ Step(toks, kind, e, p) \in 0..(Len(toks) + 1)
      /\ p = 0 => Step(toks, kind, e, p) = 0
      /\ p # 0 /\ KindAt(toks, p) # kind => Step(toks, kind, e, p) = p
      /\ p # 0 /\ KindAt(toks, p) = kind => /\ p + 1 \in Nat /\ Step(toks, kind, e, p) = e[p + 1]
                                            /\ e[p + 1] # 0 => e[p + 1] > p + 1
  BY <1>3, StepOn
<1>5. Step(toks, kind, e, p) # 0 => Step(toks, kind, e, p) > i
  BY <1>2, <1>3, <1>4
<1> QED
  BY <1>4, <1>5 DEF p

\* Where the turns of a loop end.
Steps(toks, kind, e, m, r) ==
  /\ r \in [0..m -> Ends(toks)] /\ r[0] = e
  /\ \A n \in 1..m : \A i \in Nat : r[n][i] = Step(toks, kind, e, r[n - 1][i])

LEMMA Stepping ==
  ASSUME NEW toks, Len(toks) \in Nat, NEW kind, kind # "end", NEW e \in Ends(toks), NEW m \in Nat
  PROVE  \E r : Steps(toks, kind, e, m, r)
<1> DEFINE Is(r, k) == r[0] = e /\ \A n \in 1..k : \A i \in Nat : r[n][i] = Step(toks, kind, e, r[n - 1][i])
           S == {k \in Nat : \E r \in [0..k -> Ends(toks)] : Is(r, k)}
<1>1. 0 \in S
  <2> DEFINE r == [n \in 0..0 |-> e]
  <2>1. r \in [0..0 -> Ends(toks)] /\ Is(r, 0)
    OBVIOUS
  <2> QED
    BY <2>1
<1>2. ASSUME NEW k \in S PROVE k + 1 \in S
  <2>1. PICK r \in [0..k -> Ends(toks)] : Is(r, k)
    OBVIOUS
  <2> DEFINE g == [i \in Nat |-> Step(toks, kind, e, r[k][i])]
             r2 == [n \in 0..(k + 1) |-> IF n = k + 1 THEN g ELSE r[n]]
  <2>2. r[k] \in Ends(toks) /\ k \in Nat
    BY <2>1
  <2>3. g \in Ends(toks)
    BY <2>2, SteppedEnds
  <2>4. \A i \in Nat : g[i] = Step(toks, kind, e, r[k][i])
    OBVIOUS
  <2> HIDE DEF g
  <2>5. r2 \in [0..(k + 1) -> Ends(toks)]
    BY <2>1, <2>2, <2>3
  <2>6. r2[0] = e /\ r2[k + 1] = g /\ \A n \in 0..k : r2[n] = r[n]
    BY <2>1, <2>2
  <2>7. \A n \in 1..(k + 1) : \A i \in Nat : r2[n][i] = Step(toks, kind, e, r2[n - 1][i])
    <3> HIDE DEF r2
    <3> SUFFICES ASSUME NEW n \in 1..(k + 1), NEW i \in Nat
                 PROVE  r2[n][i] = Step(toks, kind, e, r2[n - 1][i])
      OBVIOUS
    <3>1. CASE n = k + 1
      <4>1. n - 1 = k /\ k \in 0..k
        BY <2>2, <3>1
      <4> QED
        BY <2>4, <2>6, <3>1, <4>1
    <3>2. CASE n # k + 1
      <4>1. n \in 1..k /\ n \in 0..k /\ n - 1 \in 0..k
        BY <2>2, <3>2
      <4> QED
        BY <2>1, <2>6, <4>1
    <3> QED
      BY <3>1, <3>2
  <2> HIDE DEF r2
  <2>8. k + 1 \in Nat
    BY <2>2
  <2> QED
    BY <2>5, <2>6, <2>7, <2>8
<1>3. m \in S
  <2>1. S \subseteq Nat
    OBVIOUS
  <2> HIDE DEF S
  <2> QED
    BY <1>1, <1>2, <2>1, Induction
<1> QED
  BY <1>3 DEF Steps

\* A loop reads operands up to the first that its operator does not follow.
LEMMA JoinedRead ==
  ASSUME NEW T, NEW toks \in Seq(T), NEW kind, kind # "end",
         NEW f, NEW e \in Ends(toks), Reads(toks, f, e)
  PROVE  \E g \in Ends(toks) : Unrolled(toks, kind, e, g) /\ Reads(toks, Joined(toks, kind, f), g)
<1> DEFINE N == Len(toks)
<1>0. N \in Nat /\ N + 1 \in Nat /\ DOMAIN toks = 1..N
  OBVIOUS
<1> HIDE DEF N
<1>1. PICK r \in [0..(N + 1) -> Ends(toks)] :
        r[0] = e /\ \A n \in 1..(N + 1) : \A i \in Nat : r[n][i] = Step(toks, kind, e, r[n - 1][i])
  <2> DEFINE m == N + 1
  <2>1. m \in Nat /\ Len(toks) \in Nat
    BY <1>0 DEF N
  <2> HIDE DEF m
  <2>2. \E r : Steps(toks, kind, e, m, r)
    BY <2>1, Stepping
  <2> QED
    BY <2>2 DEF m, Steps
<1>2. \A n \in 0..(N + 1) : \A i \in Nat : r[n][i] \in 0..(N + 1) /\ (r[n][i] # 0 => r[n][i] > i)
  BY EndOf DEF N
<1>3. \A n \in 0..N : \A i \in Nat : r[n + 1][i] = Step(toks, kind, e, r[n][i])
  <2> SUFFICES ASSUME NEW n \in 0..N, NEW i \in Nat PROVE r[n + 1][i] = Step(toks, kind, e, r[n][i])
    OBVIOUS
  <2>1. n + 1 \in 1..(N + 1) /\ (n + 1) - 1 = n
    BY <1>0
  <2> QED
    BY <1>1, <2>1
<1>4. \A p \in 0..(N + 1) :
         /\ p = 0 => Step(toks, kind, e, p) = 0
         /\ p # 0 /\ KindAt(toks, p) # kind => Step(toks, kind, e, p) = p
         /\ p # 0 /\ KindAt(toks, p) = kind => /\ p + 1 \in Nat /\ Step(toks, kind, e, p) = e[p + 1]
                                               /\ e[p + 1] # 0 => e[p + 1] > p + 1
  <2> SUFFICES ASSUME NEW p \in 0..(N + 1)
               PROVE  /\ p = 0 => Step(toks, kind, e, p) = 0
                      /\ p # 0 /\ KindAt(toks, p) # kind => Step(toks, kind, e, p) = p
                      /\ p # 0 /\ KindAt(toks, p) = kind => /\ p + 1 \in Nat /\ Step(toks, kind, e, p) = e[p + 1]
                                                            /\ e[p + 1] # 0 => e[p + 1] > p + 1
    OBVIOUS
  <2>1. p \in 0..(Len(toks) + 1)
    BY DEF N
  <2> QED
    BY <1>0, <2>1, StepOn DEF N
<1> DEFINE Late(n) == \A i \in Nat : r[n][i] # 0 /\ KindAt(toks, r[n][i]) = kind => r[n][i] > i + n
           Shifted(n) == \A i \in Nat :
             r[n + 1][i] = IF e[i] = 0 \/ KindAt(toks, e[i]) # kind THEN e[i] ELSE r[n][e[i] + 1]
           A == {n \in Nat : n <= N => Late(n)}
           B == {n \in Nat : n <= N => Shifted(n)}
\* A turn is taken only behind as many tokens.
<1>5. A = Nat
  <2>1. 0 \in A
    <3> SUFFICES ASSUME NEW i \in Nat, r[0][i] # 0 PROVE r[0][i] > i + 0
      OBVIOUS
    <3>1. r[0][i] \in 0..(N + 1) /\ r[0][i] > i
      BY <1>0, <1>2
    <3> QED
      BY <1>0, <3>1
  <2>2. ASSUME NEW n \in A PROVE n + 1 \in A
    <3> SUFFICES ASSUME n + 1 <= N, NEW i \in Nat, r[n + 1][i] # 0, KindAt(toks, r[n + 1][i]) = kind
                 PROVE  r[n + 1][i] > i + (n + 1)
      OBVIOUS
    <3> DEFINE p == r[n][i]
    <3>1. n \in Nat /\ n \in 0..N /\ n \in 0..(N + 1) /\ n <= N
      BY <1>0
    <3>2. p \in 0..(N + 1) /\ (p # 0 /\ KindAt(toks, p) = kind => p > i + n)
      BY <1>2, <3>1
    <3>3. r[n + 1][i] = Step(toks, kind, e, p)
      BY <1>3, <3>1
    <3> HIDE DEF p
    <3>4. p # 0 /\ KindAt(toks, p) = kind
      BY <1>4, <3>2, <3>3
    <3>5. r[n + 1][i] = e[p + 1] /\ e[p + 1] # 0 /\ e[p + 1] > p + 1
      BY <1>4, <3>2, <3>3, <3>4
    <3>6. e[p + 1] \in Nat
      <4>1. p + 1 \in Nat /\ 0 \in 0..(N + 1) /\ r[0] = e
        BY <1>0, <1>1, <3>2
      <4> QED
        BY <1>0, <1>2, <4>1
    <3> QED
      BY <1>0, <3>1, <3>2, <3>4, <3>5, <3>6
  <2>3. A \subseteq Nat
    OBVIOUS
  <2> HIDE DEF A
  <2> QED
    BY <2>1, <2>2, <2>3, Induction
\* The first operand read, the rest are the turns of a loop that starts behind it.
<1>6. B = Nat
  <2>1. 0 \in B
    <3> SUFFICES ASSUME NEW i \in Nat
                 PROVE  r[0 + 1][i] = IF e[i] = 0 \/ KindAt(toks, e[i]) # kind THEN e[i] ELSE r[0][e[i] + 1]
      OBVIOUS
    <3>1. 0 \in 0..N /\ r[0 + 1][i] = Step(toks, kind, e, e[i])
      BY <1>0, <1>1, <1>3
    <3>2. e[i] \in 0..(N + 1)
      BY EndOf DEF N
    <3> QED
      BY <1>1, <1>4, <3>1, <3>2
  <2>2. ASSUME NEW n \in B PROVE n + 1 \in B
    <3> SUFFICES ASSUME n + 1 <= N, NEW i \in Nat
                 PROVE  r[(n + 1) + 1][i]
                          = IF e[i] = 0 \/ KindAt(toks, e[i]) # kind THEN e[i] ELSE r[n + 1][e[i] + 1]
      OBVIOUS
    <3>1. n \in Nat /\ n \in 0..N /\ n + 1 \in 0..N /\ n <= N
      BY <1>0
    <3>2. r[(n + 1) + 1][i] = Step(toks, kind, e, r[n + 1][i])
      BY <1>3, <3>1
    <3>3. r[n + 1][i] = IF e[i] = 0 \/ KindAt(toks, e[i]) # kind THEN e[i] ELSE r[n][e[i] + 1]
      BY <3>1
    <3>4. e[i] \in 0..(N + 1)
      BY EndOf DEF N
    <3>5. CASE e[i] = 0 \/ KindAt(toks, e[i]) # kind
      BY <1>4, <3>2, <3>3, <3>4, <3>5
    <3>6. CASE ~(e[i] = 0 \/ KindAt(toks, e[i]) # kind)
      <4>1. e[i] + 1 \in Nat
        BY <3>4
      <4>2. r[n + 1][e[i] + 1] = Step(toks, kind, e, r[n][e[i] + 1])
        BY <1>3, <3>1, <4>1
      <4> QED
        BY <3>2, <3>3, <3>6, <4>2
    <3> QED
      BY <3>5, <3>6
  <2>3. B \subseteq Nat
    OBVIOUS
  <2> HIDE DEF B
  <2> QED
    BY <2>1, <2>2, <2>3, Induction
<1>7. Late(N) /\ Shifted(N)
  <2>1. N \in A /\ N \in B
    BY <1>0, <1>5, <1>6
  <2> QED
    BY <1>0, <2>1
<1>8. Unrolled(toks, kind, e, r[N])
  <2> SUFFICES ASSUME NEW i \in Nat PROVE r[N + 1][i] = r[N][i]
    BY <1>7 DEF Unrolled
  <2>1. N \in 0..N /\ N \in 0..(N + 1) /\ r[N][i] \in 0..(N + 1)
    BY <1>0, <1>2
  <2>2. r[N + 1][i] = Step(toks, kind, e, r[N][i])
    BY <1>3, <2>1
  <2>3. ~(r[N][i] # 0 /\ KindAt(toks, r[N][i]) = kind)
    <3> SUFFICES ASSUME r[N][i] # 0, KindAt(toks, r[N][i]) = kind PROVE FALSE
      OBVIOUS
    <3>1. r[N][i] > i + N
      BY <1>7
    <3>2. r[N][i] \in DOMAIN toks
      BY DEF KindAt
    <3> QED
      BY <1>0, <2>1, <3>1, <3>2
  <2> QED
    BY <1>4, <2>1, <2>2, <2>3
<1>9. Reads(toks, Joined(toks, kind, f), r[N])
  <2> SUFFICES ASSUME NEW i \in Nat, NEW args \in Seq(ToSet(toks))
               PROVE  Returns(toks, Joined(toks, kind, f)[<<i, args>>], r[N][i])
    BY DEF Reads
  <2> DEFINE call == <<i, args>>
  <2>1. call \in Calls(toks)
    BY DEF Calls
  <2>2. PICK read : /\ read[0] = f[call]
                    /\ \A n \in 1..N : read[n] = Another(toks, kind, f, read[n - 1])
                    /\ Joined(toks, kind, f)[call] = read[N]
    <3> HIDE DEF call
    <3> QED
      BY <2>1, Turning DEF N
  <2> DEFINE C == {n \in Nat : n <= N => Returns(toks, read[n], r[n][i])}
  <2>3. C = Nat
    <3>1. 0 \in C
      <4>1. Returns(toks, f[<<i, args>>], e[i])
        BY ReadAt
      <4> QED
        BY <1>1, <2>2, <4>1
    <3>2. ASSUME NEW n \in C PROVE n + 1 \in C
      <4> SUFFICES ASSUME n + 1 <= N PROVE Returns(toks, read[n + 1], r[n + 1][i])
        OBVIOUS
      <4>1. n \in Nat /\ n \in 0..N /\ n \in 0..(N + 1) /\ n + 1 \in 1..N /\ (n + 1) - 1 = n /\ n <= N
        BY <1>0
      <4>2. read[n + 1] = Another(toks, kind, f, read[n])
        BY <2>2, <4>1
      <4>3. r[n + 1][i] = Step(toks, kind, e, r[n][i]) /\ r[n][i] \in 0..(N + 1)
        BY <1>2, <1>3, <4>1
      <4>4. Returns(toks, read[n], r[n][i])
        BY <4>1
      <4> DEFINE p == r[n][i]
                 left == read[n]
      <4> HIDE DEF p, left
      <4>5. Returns(toks, left, p) /\ p \in 0..(Len(toks) + 1)
        BY <4>3, <4>4 DEF p, left, N
      <4>6. Returns(toks, Another(toks, kind, f, left), Step(toks, kind, e, p))
        BY <4>5, AnotherRead
      <4> QED
        BY <4>2, <4>3, <4>6 DEF p, left
    <3>3. C \subseteq Nat
      OBVIOUS
    <3> HIDE DEF C
    <3> QED
      BY <3>1, <3>2, <3>3, Induction
  <2>4. N \in C
    BY <1>0, <2>3
  <2> QED
    BY <1>0, <2>2, <2>4
<1>10. r[N] \in Ends(toks)
  BY <1>0, <1>1
<1> QED
  BY <1>8, <1>9, <1>10

\* Where expressions end whose parentheses hold expressions that end at e: at the end of a
\* comparison or a parenthesis that no operator follows.
LevelOf(toks, e, g) ==
  \A i \in Nat :
    LET p == PrimEnd(toks, e, i)
    IN g[i] = IF p = 0 \/ KindAt(toks, p) \notin {"and", "or"} THEN p ELSE g[p + 1]

\* The ends of expressions, by how deep they are nested.
Nested(toks, E, depth) ==
  /\ \A d \in 0..depth : E[d] \in Ends(toks)
  /\ \A i \in Nat : E[0][i] = 0
  /\ \A d \in 1..depth : LevelOf(toks, E[d - 1], E[d])

\* parseOrExpr over parseAndExpr over parsePrimary ends at a level above e, if the
\* expressions in parentheses end at e: and does not differ from or in where an expression ends.
LEMMA LevelRead ==
  ASSUME NEW T, NEW toks \in Seq(T), NEW f, NEW e \in Ends(toks), Reads(toks, f, e)
  PROVE  \E g \in Ends(toks) : /\ LevelOf(toks, e, g)
                               /\ Reads(toks, Joined(toks, "or", Conjunctions(toks, f)), g)
<1> DEFINE pe == [i \in Nat |-> PrimEnd(toks, e, i)]
           prims == Primaries(toks, f)
<1>1. pe \in Ends(toks) /\ Reads(toks, prims, pe)
  BY PrimariesRead
<1>2. \A i \in Nat : pe[i] = PrimEnd(toks, e, i)
  OBVIOUS
<1>3. Conjunctions(toks, f) = Joined(toks, "and", prims)
  BY DEF Conjunctions
<1> HIDE DEF pe, prims
<1>4. PICK a \in Ends(toks) : Unrolled(toks, "and", pe, a) /\ Reads(toks, Conjunctions(toks, f), a)
  BY <1>1, <1>3, JoinedRead
<1> DEFINE conj == Conjunctions(toks, f)
<1> HIDE DEF conj
<1>5. PICK g \in Ends(toks) : Unrolled(toks, "or", a, g) /\ Reads(toks, Joined(toks, "or", conj), g)
  BY <1>4, JoinedRead DEF conj
<1>6. LevelOf(toks, e, g)
  <2> SUFFICES ASSUME NEW i \in Nat
               PROVE  g[i] = IF pe[i] = 0 \/ KindAt(toks, pe[i]) \notin {"and", "or"}
                             THEN pe[i] ELSE g[pe[i] + 1]
    BY <1>2 DEF LevelOf
  <2>1. pe[i] \in Nat /\ pe[i] + 1 \in Nat /\ a[i] \in Nat /\ a[i] + 1 \in Nat
    <3>1. pe[i] \in 0..(Len(toks) + 1) /\ a[i] \in 0..(Len(toks) + 1) /\ Len(toks) \in Nat
      BY <1>1, EndOf
    <3> QED
      BY <3>1
  <2>2. /\ a[i] = IF pe[i] = 0 \/ KindAt(toks, pe[i]) # "and" THEN pe[i] ELSE a[pe[i] + 1]
        /\ g[i] = IF a[i] = 0 \/ KindAt(toks, a[i]) # "or" THEN a[i] ELSE g[a[i] + 1]
        /\ g[pe[i] + 1] = IF a[pe[i] + 1] = 0 \/ KindAt(toks, a[pe[i] + 1]) # "or"
                          THEN a[pe[i] + 1] ELSE g[a[pe[i] + 1] + 1]
    BY <1>4, <1>5, <2>1 DEF Unrolled
  <2>3. CASE pe[i] = 0
    BY <2>2, <2>3
  <2>4. CASE pe[i] # 0 /\ KindAt(toks, pe[i]) = "and"
    BY <2>2, <2>4
  <2>5. CASE pe[i] # 0 /\ KindAt(toks, pe[i]) # "and"
    BY <2>2, <2>5
  <2> QED
    BY <2>3, <2>4, <2>5
<1> QED
  BY <1>5, <1>6 DEF conj

\* The parsers of every depth exist.
LEMMA Nesting ==
  ASSUME NEW T, NEW toks \in Seq(T)
  PROVE  \E upTo : /\ upTo[0] = [call \in Calls(toks) |-> Failed]
                   /\ \A d \in 1..Len(toks) : upTo[d] = Joined(toks, "or", Conjunctions(toks, upTo[d - 1]))
                   /\ Expressions(toks) = upTo[Len(toks)]
<1> DEFINE N == Len(toks)
           none == [call \in Calls(toks) |-> Failed]
           Level(f) == Joined(toks, "or", Conjunctions(toks, f))
           Is(h, m) == h = [depth \in 0..m |-> IF depth = 0 THEN none ELSE Level(h[depth - 1])]
           S == {m \in Nat : \E h : Is(h, m)}
           upTo == CHOOSE h : h = [depth \in 0..N |-> IF depth = 0 THEN none ELSE Level(h[depth - 1])]
<1>1. N \in Nat
  OBVIOUS
<1>6. Expressions(toks) = upTo[N]
  BY DEF Expressions
<1> HIDE DEF N, none
<1>2. 0 \in S
  <2> DEFINE h == [depth \in 0..0 |-> none]
  <2>1. h = [depth \in 0..0 |-> IF depth = 0 THEN none ELSE Level(h[depth - 1])]
    <3> HIDE DEF Level
    <3> QED
      OBVIOUS
  <2> QED
    BY <2>1
<1>3. ASSUME NEW m \in S PROVE m + 1 \in S
  <2>1. PICK h : Is(h, m)
    OBVIOUS
  <2> DEFINE h2 == [depth \in 0..(m + 1) |-> IF depth = m + 1 THEN Level(h[m]) ELSE h[depth]]
  <2>2. Is(h2, m + 1)
    <3> HIDE DEF Level
    <3>1. \A depth \in 0..(m + 1) : h2[depth] = IF depth = 0 THEN none ELSE Level(h2[depth - 1])
      BY <2>1
    <3> QED
      BY <3>1
  <2> HIDE DEF Is, h2
  <2> QED
    BY <2>2
<1>4. N \in S
  <2> HIDE DEF Is
  <2>1. S \subseteq Nat
    OBVIOUS
  <2> HIDE DEF S
  <2> QED
    BY <1>1, <1>2, <1>3, <2>1, Induction
<1>5. Is(upTo, N)
  BY <1>4
<1> HIDE DEF upTo
<1>7. upTo[0] = none /\ \A d \in 1..N : upTo[d] = Level(upTo[d - 1])
  <2> HIDE DEF Level
  <2> QED
    BY <1>1, <1>5
<1> QED
  BY <1>6, <1>7 DEF N, none

\* parseExpression ends where the deepest level does.
LEMMA ExpressionsRead ==
  ASSUME NEW T, NEW toks \in Seq(T)
  PROVE  \E E : Nested(toks, E, Len(toks)) /\ Reads(toks, Expressions(toks), E[Len(toks)])
<1> DEFINE N == Len(toks)
<1>0. N \in Nat
  OBVIOUS
<1>1. PICK upTo : /\ upTo[0] = [call \in Calls(toks) |-> Failed]
                  /\ \A d \in 1..N : upTo[d] = Joined(toks, "or", Conjunctions(toks, upTo[d - 1]))
                  /\ Expressions(toks) = upTo[N]
  BY Nesting
<1> HIDE DEF N
<1> DEFINE Is(E, m) == Nested(toks, E, m) /\ \A d \in 0..m : Reads(toks, upTo[d], E[d])
           S == {m \in Nat : m <= N => \E E : Is(E, m)}
<1>2. 0 \in S
  <2> DEFINE zero == [i \in Nat |-> 0]
             E == [d \in 0..0 |-> zero]
  <2>1. zero \in Ends(toks)
    <3>1. 0 \in 0..(Len(toks) + 1)
      BY <1>0 DEF N
    <3> QED
      BY <3>1 DEF Ends
  <2>2. Reads(toks, upTo[0], zero)
    <3> SUFFICES ASSUME NEW i \in Nat, NEW args \in Seq(ToSet(toks))
                 PROVE  Returns(toks, upTo[0][<<i, args>>], 0)
      BY DEF Reads
    <3>1. upTo[0][<<i, args>>] = Failed
      BY <1>1 DEF Calls
    <3> QED
      BY <3>1 DEF Returns
  <2>3. E[0] = zero /\ \A i \in Nat : zero[i] = 0
    OBVIOUS
  <2> HIDE DEF zero, E
  <2>4. Is(E, 0)
    BY <2>1, <2>2, <2>3 DEF Nested
  <2> QED
    BY <2>4
<1>3. ASSUME NEW m \in S PROVE m + 1 \in S
  <2> SUFFICES ASSUME m + 1 <= N PROVE \E E : Is(E, m + 1)
    OBVIOUS
  <2>1. m \in Nat /\ m <= N /\ m + 1 \in 1..N /\ (m + 1) - 1 = m /\ m \in 0..m
    BY <1>0
  <2>2. PICK E : Is(E, m)
    BY <2>1
  <2>3. E[m] \in Ends(toks) /\ Reads(toks, upTo[m], E[m])
    BY <2>1, <2>2 DEF Nested
  <2> DEFINE e == E[m]
             f == upTo[m]
  <2> HIDE DEF e, f
  <2>4. e \in Ends(toks) /\ Reads(toks, f, e)
    BY <2>3 DEF e, f
  <2>5. PICK g \in Ends(toks) : /\ LevelOf(toks, e, g)
                                /\ Reads(toks, Joined(toks, "or", Conjunctions(toks, f)), g)
    BY <2>4, LevelRead
  <2>6. upTo[m + 1] = Joined(toks, "or", Conjunctions(toks, f))
    BY <1>1, <2>1 DEF f
  <2> DEFINE E2 == [d \in 0..(m + 1) |-> IF d = m + 1 THEN g ELSE E[d]]
  <2>7. E2[m + 1] = g /\ E2[m] = e /\ \A d \in 0..m : E2[d] = E[d]
    BY <2>1 DEF e
  <2> HIDE DEF E2
  <2>8. \A d \in 0..(m + 1) : d = m + 1 \/ d \in 0..m
    BY <2>1
  <2>9. \A d \in 1..(m + 1) : d = m + 1 \/ (d \in 1..m /\ d \in 0..m /\ d - 1 \in 0..m)
    BY <2>1
  <2>10. Nested(toks, E2, m + 1)
    <3>1. \A d \in 0..(m + 1) : E2[d] \in Ends(toks)
      BY <2>2, <2>7, <2>8 DEF Nested
    <3>2. \A i \in Nat : E2[0][i] = 0
      BY <2>1, <2>2, <2>7 DEF Nested
    <3>3. \A d \in 1..(m + 1) : LevelOf(toks, E2[d - 1], E2[d])
      <4> SUFFICES ASSUME NEW d \in 1..(m + 1) PROVE LevelOf(toks, E2[d - 1], E2[d])
        OBVIOUS
      <4>1. CASE d = m + 1
        BY <2>1, <2>5, <2>7, <4>1
      <4>2. CASE d # m + 1
        BY <2>2, <2>7, <2>9, <4>2 DEF Nested
      <4> QED
        BY <4>1, <4>2
    <3> QED
      BY <3>1, <3>2, <3>3 DEF Nested
  <2>11. \A d \in 0..(m + 1) : Reads(toks, upTo[d], E2[d])
    BY <2>2, <2>5, <2>6, <2>7, <2>8
  <2> QED
    BY <2>10, <2>11
<1>4. N \in S
  <2> HIDE DEF Is
  <2>1. S \subseteq Nat
    OBVIOUS
  <2> HIDE DEF S
  <2> QED
    BY <1>0, <1>2, <1>3, <2>1, Induction
<1>5. PICK E : Is(E, N)
  BY <1>0, <1>4
<1>6. N \in 0..N
  BY <1>0
<1> QED
  BY <1>1, <1>5, <1>6 DEF N

\* Two that agree on spans shorter than n.
Alike(toks, g, h, n) == \A a, b \in DOMAIN toks : b - a < n => (g[<<a, b>>] <=> h[<<a, b>>])

\* One that is right on short spans: N + last - first < m.
Forms(toks, h, m) ==
  /\ h \in [(DOMAIN toks) \X (DOMAIN toks) -> BOOLEAN]
  /\ \A i, j \in DOMAIN toks : Len(toks) + j - i < m => (h[<<i, j>>] <=> Formed(toks, h, i, j))

\* Whether tokens are an expression depends on shorter ones.
LEMMA FormedAlike ==
  ASSUME NEW toks, Len(toks) \in Nat, DOMAIN toks = 1..Len(toks), NEW g, NEW h,
         NEW i \in DOMAIN toks, NEW j \in DOMAIN toks, Alike(toks, g, h, j - i)
  PROVE  Formed(toks, g, i, j) <=> Formed(toks, h, i, j)
<1>1. ASSUME NEW k \in (i + 1)..(j - 1)
      PROVE  (g[<<i, k - 1>>] <=> h[<<i, k - 1>>]) /\ (g[<<k + 1, j>>] <=> h[<<k + 1, j>>])
  <2>1. k - 1 \in DOMAIN toks /\ k + 1 \in DOMAIN toks /\ (k - 1) - i < j - i /\ j - (k + 1) < j - i
    OBVIOUS
  <2> QED
    BY <2>1 DEF Alike
<1>2. i + 1 < j => (g[<<i + 1, j - 1>>] <=> h[<<i + 1, j - 1>>])
  <2>1. i + 1 < j => i + 1 \in DOMAIN toks /\ j - 1 \in DOMAIN toks /\ (j - 1) - (i + 1) < j - i
    OBVIOUS
  <2> QED
    BY <2>1 DEF Alike
<1> QED
  BY <1>1, <1>2 DEF Formed

\* Longer spans can be added.
LEMMA FormingOn ==
  ASSUME NEW toks, Len(toks) \in Nat, DOMAIN toks = 1..Len(toks), NEW m \in Nat, NEW h, Forms(toks, h, m)
  PROVE  \E g : Forms(toks, g, m + 1)
<1> DEFINE D == DOMAIN toks
           g == [p \in D \X D |-> IF Formed(toks, h, p[1], p[2]) THEN TRUE ELSE FALSE]
<1>1. g \in [D \X D -> BOOLEAN]
  OBVIOUS
<1>2. \A i, j \in D : g[<<i, j>>] <=> Formed(toks, h, i, j)
  OBVIOUS
<1> HIDE DEF g
<1>3. ASSUME NEW i \in D, NEW j \in D, Len(toks) + j - i < m + 1
      PROVE  g[<<i, j>>] <=> Formed(toks, g, i, j)
  <2>1. ASSUME NEW a \in D, NEW b \in D, b - a < j - i
        PROVE  g[<<a, b>>] <=> h[<<a, b>>]
    <3>1. Len(toks) + b - a < m
      <4>1. /\ a \in Int /\ b \in Int /\ i \in Int /\ j \in Int /\ Len(toks) \in Int /\ m \in Int
            /\ Len(toks) + j - i < m + 1 /\ b - a < j - i
        BY <1>3, <2>1
      <4> QED
        BY <4>1
    <3>2. h[<<a, b>>] <=> Formed(toks, h, a, b)
      BY <3>1 DEF Forms
    <3> QED
      BY <1>2, <3>2
  <2>2. Alike(toks, g, h, j - i)
    BY <2>1 DEF Alike
  <2>3. Formed(toks, g, i, j) <=> Formed(toks, h, i, j)
    BY <2>2, FormedAlike
  <2> QED
    BY <1>2, <2>3
<1> QED
  BY <1>1, <1>3 DEF Forms

\* What the grammar is made of exists.
LEMMA Forming ==
  ASSUME NEW T, NEW toks \in Seq(T), toks # <<>>
  PROVE  \E F : /\ \A i, j \in DOMAIN toks : F[<<i, j>>] <=> Formed(toks, F, i, j)
                /\ WellFormed(toks) <=> F[<<1, Len(toks)>>]
<1> DEFINE N == Len(toks)
           D == DOMAIN toks
           Is(F) == F = [span \in D \X D |-> Formed(toks, F, span[1], span[2])]
           S == {m \in Nat : \E h : Forms(toks, h, m)}
           formed == CHOOSE F : Is(F)
<1>0. N \in Nat /\ D = 1..N
  OBVIOUS
<1>1. WellFormed(toks) <=> formed[<<1, N>>]
  BY DEF WellFormed
<1>2. 0 \in S
  <2> DEFINE h == [p \in D \X D |-> FALSE]
  <2>1. h \in [D \X D -> BOOLEAN]
    OBVIOUS
  <2>2. \A i, j \in D : ~(N + j - i < 0)
    BY <1>0
  <2> HIDE DEF h
  <2>3. Forms(toks, h, 0)
    BY <2>1, <2>2 DEF Forms
  <2> HIDE DEF N, D
  <2> QED
    BY <2>3
<1>3. ASSUME NEW m \in S PROVE m + 1 \in S
  <2>1. m \in Nat /\ m + 1 \in Nat
    OBVIOUS
  <2>2. PICK h : Forms(toks, h, m)
    OBVIOUS
  <2>3. \E g : Forms(toks, g, m + 1)
    BY <1>0, <2>1, <2>2, FormingOn
  <2> QED
    BY <2>1, <2>3
<1>4. 2 * N \in S
  <2>1. S \subseteq Nat /\ 2 * N \in Nat
    BY <1>0
  <2> HIDE DEF S, N
  <2> QED
    BY <1>2, <1>3, <2>1, Induction
<1>5. PICK h : Forms(toks, h, 2 * N)
  BY <1>4
<1>6. \A i, j \in D : h[<<i, j>>] <=> Formed(toks, h, i, j)
  <2>1. \A i, j \in D : N + j - i < 2 * N
    BY <1>0
  <2> QED
    BY <1>5, <2>1 DEF Forms
<1>7. Is(h)
  <2>1. h \in [D \X D -> BOOLEAN]
    BY <1>5 DEF Forms
  <2>2. \A p \in D \X D : h[p] = Formed(toks, h, p[1], p[2])
    <3> SUFFICES ASSUME NEW i \in D, NEW j \in D PROVE h[<<i, j>>] = Formed(toks, h, i, j)
      OBVIOUS
    <3>1. h[<<i, j>>] \in BOOLEAN
      BY <2>1
    <3>2. h[<<i, j>>] <=> Formed(toks, h, i, j)
      BY <1>6
    <3>3. Formed(toks, h, i, j) \in BOOLEAN
      BY DEF Formed
    <3> QED
      BY <3>1, <3>2, <3>3
  <2> QED
    BY <2>1, <2>2
<1>8. Is(formed)
  <2> HIDE DEF Is
  <2> QED
    BY <1>7
<1> HIDE DEF formed
<1>9. \A i, j \in D : formed[<<i, j>>] <=> Formed(toks, formed, i, j)
  <2>1. \A p \in D \X D : formed[p] = Formed(toks, formed, p[1], p[2])
    BY <1>8
  <2> QED
    BY <2>1
<1> QED
  BY <1>1, <1>9

\* Which spans are expressions of the grammar.
Grown(toks, F) == \A i, j \in DOMAIN toks : F[<<i, j>>] <=> Formed(toks, F, i, j)

\* What is read is an expression.
Sound(toks, F, g) ==
  \A i \in Nat : g[i] # 0 => i \in DOMAIN toks /\ g[i] - 1 \in DOMAIN toks /\ F[<<i, g[i] - 1>>]

\* A primary that is read is an expression.
LEMMA PrimarySound ==
  ASSUME NEW T, NEW toks \in Seq(T), NEW F, Grown(toks, F), NEW e \in Ends(toks), Sound(toks, F, e),
         NEW i \in Nat, PrimEnd(toks, e, i) # 0
  PROVE  /\ i \in DOMAIN toks /\ PrimEnd(toks, e, i) - 1 \in DOMAIN toks
         /\ F[<<i, PrimEnd(toks, e, i) - 1>>]
<1>0. Len(toks) \in Nat /\ DOMAIN toks = 1..Len(toks)
  OBVIOUS
<1>1. CASE KindAt(toks, i) # "lparen"
  <2> DEFINE j == CmpEnd(toks, i) - 1
  <2>1. PrimEnd(toks, e, i) = CmpEnd(toks, i)
    BY <1>1 DEF PrimEnd
  <2>2. j \in DOMAIN toks /\ IsComparison(toks, i, j)
    BY <2>1, ComparisonEnds
  <2> HIDE DEF j
  <2>3. i \in DOMAIN toks
    <3>1. KindAt(toks, i) # "end"
      BY <2>2 DEF IsComparison
    <3> QED
      BY <3>1, KindsInside
  <2>4. F[<<i, j>>]
    BY <2>2, <2>3 DEF Grown, Formed
  <2> QED
    BY <2>1, <2>2, <2>3, <2>4 DEF j
<1>2. CASE KindAt(toks, i) = "lparen"
  <2> DEFINE q == e[i + 1]
  <2>1. /\ q # 0 /\ KindAt(toks, q) = "rparen" /\ PrimEnd(toks, e, i) = q + 1
    BY <1>2 DEF PrimEnd
  <2>2. i + 1 \in Nat /\ q \in 0..(Len(toks) + 1) /\ q > i + 1
    <3>1. i + 1 \in Nat
      OBVIOUS
    <3> QED
      BY <2>1, <3>1, EndOf
  <2>3. q - 1 \in DOMAIN toks /\ i + 1 \in DOMAIN toks /\ F[<<i + 1, q - 1>>]
    BY <2>1, <2>2 DEF Sound
  <2> HIDE DEF q
  <2>4. i \in DOMAIN toks /\ toks[i].kind = "lparen"
    BY <1>2, KindsInside
  <2>5. q \in DOMAIN toks /\ toks[q].kind = "rparen"
    <3>1. q \in Int
      BY <2>2
    <3> QED
      BY <2>1, <3>1, KindsInside
  <2>6. Formed(toks, F, i, q)
    BY <2>2, <2>3, <2>4, <2>5 DEF Formed
  <2>7. F[<<i, q>>] /\ (q + 1) - 1 = q
    BY <2>2, <2>4, <2>5, <2>6 DEF Grown
  <2> QED
    BY <2>1, <2>4, <2>5, <2>7
<1> QED
  BY <1>1, <1>2

\* By induction over positions, from the last.
LEMMA LevelSound ==
  ASSUME NEW T, NEW toks \in Seq(T), NEW F, Grown(toks, F), NEW e \in Ends(toks), Sound(toks, F, e),
         NEW g \in Ends(toks), LevelOf(toks, e, g)
  PROVE  Sound(toks, F, g)
<1> DEFINE N == Len(toks)
           Right(i) == g[i] # 0 => i \in DOMAIN toks /\ g[i] - 1 \in DOMAIN toks /\ F[<<i, g[i] - 1>>]
           S == {m \in Nat : \A i \in Nat : N + 1 - i < m => Right(i)}
<1>0. N \in Nat /\ DOMAIN toks = 1..N /\ Len(toks) = N
  OBVIOUS
<1> HIDE DEF N
<1>1. 0 \in S
  <2> SUFFICES ASSUME NEW i \in Nat, N + 1 - i < 0 PROVE Right(i)
    OBVIOUS
  <2>1. g[i] \in 0..(N + 1) /\ (g[i] # 0 => g[i] > i)
    BY <1>0, EndOf
  <2>2. g[i] = 0
    BY <1>0, <2>1
  <2> QED
    BY <2>2
<1>2. ASSUME NEW m \in S PROVE m + 1 \in S
  <2> SUFFICES ASSUME NEW i \in Nat, N + 1 - i < m + 1, g[i] # 0
               PROVE  i \in DOMAIN toks /\ g[i] - 1 \in DOMAIN toks /\ F[<<i, g[i] - 1>>]
    OBVIOUS
  <2>1. m \in Nat /\ \A k \in Nat : N + 1 - k < m => Right(k)
    OBVIOUS
  <2> DEFINE p == PrimEnd(toks, e, i)
  <2>2. g[i] = IF p = 0 \/ KindAt(toks, p) \notin {"and", "or"} THEN p ELSE g[p + 1]
    BY DEF LevelOf
  <2>3. p \in 0..(N + 1) /\ (p # 0 => p > i)
    BY <1>0, PrimaryEnd
  <2>4. p # 0 => i \in DOMAIN toks /\ p - 1 \in DOMAIN toks /\ F[<<i, p - 1>>]
    BY PrimarySound
  <2> HIDE DEF p
  <2>5. p # 0
    BY <2>2
  <2>6. CASE KindAt(toks, p) \notin {"and", "or"}
    BY <2>2, <2>4, <2>5, <2>6
  <2>7. CASE KindAt(toks, p) \in {"and", "or"}
    <3>1. g[i] = g[p + 1] /\ p + 1 \in Nat /\ p \in Int
      BY <1>0, <2>2, <2>3, <2>5, <2>7
    <3>2. p \in DOMAIN toks /\ toks[p].kind \in {"and", "or"}
      BY <2>7, <3>1, KindsInside
    <3>3. N + 1 - (p + 1) < m
      <4>1. p > i /\ p \in Int /\ N + 1 - i < m + 1 /\ m \in Int /\ i \in Int /\ N \in Int
        BY <1>0, <2>1, <2>3, <2>5
      <4> QED
        BY <4>1
    <3>4. Right(p + 1)
      BY <2>1, <3>1, <3>3
    <3> DEFINE q == g[i]
    <3>5. p + 1 \in DOMAIN toks /\ q - 1 \in DOMAIN toks /\ F[<<p + 1, q - 1>>]
      BY <3>1, <3>4
    <3>6. q \in 0..(N + 1) /\ q > p + 1
      <4>1. g[p + 1] \in 0..(N + 1) /\ (g[p + 1] # 0 => g[p + 1] > p + 1)
        BY <1>0, <3>1, EndOf
      <4> QED
        BY <3>1, <4>1
    <3> HIDE DEF q
    <3>7. Formed(toks, F, i, q - 1)
      <4>1. p \in (i + 1)..((q - 1) - 1)
        BY <1>0, <2>3, <2>5, <3>1, <3>6
      <4> QED
        BY <2>4, <2>5, <3>2, <3>5, <4>1 DEF Formed
    <3>8. F[<<i, q - 1>>]
      BY <2>4, <2>5, <3>5, <3>7 DEF Grown
    <3> QED
      BY <2>4, <2>5, <3>5, <3>8 DEF q
  <2> QED
    BY <2>6, <2>7
<1>3. S = Nat
  <2>1. S \subseteq Nat
    OBVIOUS
  <2> HIDE DEF S
  <2> QED
    BY <1>1, <1>2, <2>1, Induction
<1>4. ASSUME NEW i \in Nat PROVE Right(i)
  <2>1. N + 2 \in S
    <3> HIDE DEF S
    <3> QED
      BY <1>0, <1>3
  <2>2. N + 1 - i < N + 2
    BY <1>0
  <2> QED
    BY <2>1, <2>2
<1> QED
  BY <1>4 DEF Sound

\* By induction over the depth.
LEMMA NestedSound ==
  ASSUME NEW T, NEW toks \in Seq(T), NEW F, Grown(toks, F), NEW E, Nested(toks, E, Len(toks))
  PROVE  Sound(toks, F, E[Len(toks)])
<1> DEFINE N == Len(toks)
           S == {m \in Nat : m <= N => Sound(toks, F, E[m])}
<1>0. N \in Nat
  OBVIOUS
<1> HIDE DEF N
<1>1. 0 \in S
  <2>1. \A i \in Nat : E[0][i] = 0
    BY DEF Nested
  <2>2. Sound(toks, F, E[0])
    BY <2>1 DEF Sound
  <2> QED
    BY <2>2
<1>2. ASSUME NEW m \in S PROVE m + 1 \in S
  <2> SUFFICES ASSUME m + 1 <= N PROVE Sound(toks, F, E[m + 1])
    OBVIOUS
  <2>1. m \in Nat /\ m <= N /\ m \in 0..N /\ m + 1 \in 0..N /\ m + 1 \in 1..N /\ (m + 1) - 1 = m
    BY <1>0
  <2>2. E[m] \in Ends(toks) /\ E[m + 1] \in Ends(toks) /\ LevelOf(toks, E[m], E[m + 1]) /\ Sound(toks, F, E[m])
    BY <2>1 DEF Nested, N
  <2> DEFINE e == E[m]
             g == E[m + 1]
  <2> HIDE DEF e, g
  <2>3. e \in Ends(toks) /\ g \in Ends(toks) /\ LevelOf(toks, e, g) /\ Sound(toks, F, e)
    BY <2>2 DEF e, g
  <2>4. Sound(toks, F, g)
    BY <2>3, LevelSound
  <2> QED
    BY <2>4 DEF g
<1>3. N \in S
  <2>1. S \subseteq Nat
    OBVIOUS
  <2> HIDE DEF S
  <2> QED
    BY <1>0, <1>1, <1>2, <2>1, Induction
<1> QED
  BY <1>0, <1>3 DEF N

\* Where reading ends that starts with an expression up to j.
Onward(toks, e, j) == IF KindAt(toks, j + 1) \in {"and", "or"} THEN e[j + 2] ELSE j + 1

\* Expressions shorter than n are read, and what follows them.
Within(i, j, n) == j - i < n
Complete(toks, F, e, n) ==
  \A i, j \in DOMAIN toks : Within(i, j, n) /\ F[<<i, j>>] => e[i] = Onward(toks, e, j)

\* The parts on the sides of an operator are shorter.
Sides(N, i, j, k, n) ==
  /\ k \in 1..N /\ k - 1 \in 1..N /\ k + 1 \in 1..N
  /\ Within(i, k - 1, n) /\ Within(k + 1, j, n)
  /\ (k - 1) + 1 = k /\ (k - 1) + 2 = k + 1
LEMMA ShorterSides ==
  ASSUME NEW N \in Nat, NEW i \in 1..N, NEW j \in 1..N, NEW k \in (i + 1)..(j - 1), NEW n \in Int,
         Within(i, j, n + 1)
  PROVE  Sides(N, i, j, k, n)
<1>1. i \in Int /\ j \in Int /\ k \in Int
  OBVIOUS
<1> QED
  BY <1>1 DEF Within, Sides

\* So is what parentheses enclose.
Enclosing(N, i, j, n) ==
  i + 1 \in 1..N /\ j - 1 \in 1..N /\ Within(i + 1, j - 1, n) /\ (j - 1) + 1 = j /\ j # 0
LEMMA ShorterInside ==
  ASSUME NEW N \in Nat, NEW i \in 1..N, NEW j \in 1..N, NEW n \in Int, Within(i, j, n + 1), i + 1 < j
  PROVE  Enclosing(N, i, j, n)
<1>1. i \in Int /\ j \in Int
  OBVIOUS
<1> QED
  BY <1>1 DEF Within, Enclosing

\* An expression split at any of its operators, in parentheses, or a comparison: reading goes
\* on where the grammar says it can.
LEMMA LevelComplete ==
  ASSUME NEW T, NEW toks \in Seq(T), NEW F, Grown(toks, F), NEW n \in Int,
         NEW e \in Ends(toks), Complete(toks, F, e, n),
         NEW g \in Ends(toks), Complete(toks, F, g, n), LevelOf(toks, e, g)
  PROVE  Complete(toks, F, g, n + 1)
<1>0. Len(toks) \in Nat /\ DOMAIN toks = 1..Len(toks)
  OBVIOUS
<1> SUFFICES ASSUME NEW i \in DOMAIN toks, NEW j \in DOMAIN toks, Within(i, j, n + 1), F[<<i, j>>]
             PROVE  g[i] = Onward(toks, g, j)
  BY DEF Complete
<1>1. i \in Nat /\ j \in Nat /\ j + 1 # 0 /\ (j + 1) + 1 = j + 2
  BY <1>0
<1>2. Formed(toks, F, i, j)
  BY DEF Grown
<1> DEFINE p == PrimEnd(toks, e, i)
<1>3. g[i] = IF p = 0 \/ KindAt(toks, p) \notin {"and", "or"} THEN p ELSE g[p + 1]
  BY <1>1 DEF LevelOf
<1> HIDE DEF p
<1>4. p = j + 1 => g[i] = Onward(toks, g, j)
  BY <1>1, <1>3 DEF Onward
<1>5. CASE \E k \in (i + 1)..(j - 1) :
             toks[k].kind \in {"and", "or"} /\ F[<<i, k - 1>>] /\ F[<<k + 1, j>>]
  <2>1. PICK k \in (i + 1)..(j - 1) :
             toks[k].kind \in {"and", "or"} /\ F[<<i, k - 1>>] /\ F[<<k + 1, j>>]
    BY <1>5
  <2>2. /\ k \in DOMAIN toks /\ k - 1 \in DOMAIN toks /\ k + 1 \in DOMAIN toks
        /\ Within(i, k - 1, n) /\ Within(k + 1, j, n) /\ (k - 1) + 1 = k /\ (k - 1) + 2 = k + 1
    <3>1. Sides(Len(toks), i, j, k, n)
      BY <1>0, ShorterSides
    <3> QED
      BY <1>0, <3>1 DEF Sides
  <2>3. KindAt(toks, k) \in {"and", "or"}
    BY <2>1, <2>2 DEF KindAt
  <2>4. g[i] = Onward(toks, g, k - 1)
    BY <2>1, <2>2 DEF Complete
  <2>5. g[k + 1] = Onward(toks, g, j)
    BY <2>1, <2>2 DEF Complete
  <2> QED
    BY <2>2, <2>3, <2>4, <2>5 DEF Onward
<1>6. CASE /\ i + 1 < j /\ toks[i].kind = "lparen" /\ toks[j].kind = "rparen"
           /\ F[<<i + 1, j - 1>>]
  <2>1. /\ i + 1 \in DOMAIN toks /\ j - 1 \in DOMAIN toks /\ Within(i + 1, j - 1, n)
        /\ (j - 1) + 1 = j /\ j # 0
    <3>1. Enclosing(Len(toks), i, j, n)
      BY <1>0, <1>6, ShorterInside
    <3> QED
      BY <1>0, <3>1 DEF Enclosing
  <2>2. KindAt(toks, i) = "lparen" /\ KindAt(toks, j) = "rparen"
    BY <1>6 DEF KindAt
  <2>3. e[i + 1] = Onward(toks, e, j - 1)
    BY <1>6, <2>1 DEF Complete
  <2>4. e[i + 1] = j
    BY <2>1, <2>2, <2>3 DEF Onward
  <2>5. p = j + 1
    BY <2>1, <2>2, <2>4 DEF p, PrimEnd
  <2> QED
    BY <1>4, <2>5
<1>7. CASE IsComparison(toks, i, j)
  <2>1. CmpEnd(toks, i) = j + 1
    BY <1>1, <1>7, ComparisonEnds
  <2>2. KindAt(toks, i) # "lparen"
    BY <1>7 DEF IsComparison
  <2>3. p = j + 1
    BY <2>1, <2>2 DEF p, PrimEnd
  <2> QED
    BY <1>4, <2>3
<1> QED
  BY <1>2, <1>5, <1>6, <1>7 DEF Formed

\* No expression ends before it starts.
LEMMA NothingBackwards ==
  ASSUME NEW T, NEW toks \in Seq(T), NEW F, Grown(toks, F), NEW e
  PROVE  Complete(toks, F, e, 0)
<1> SUFFICES ASSUME NEW i \in DOMAIN toks, NEW j \in DOMAIN toks, j - i < 0, F[<<i, j>>]
             PROVE  FALSE
  BY DEF Complete, Within
<1>1. Formed(toks, F, i, j)
  BY DEF Grown
<1>2. i \in Int /\ j \in Int /\ j < i
  OBVIOUS
<1>3. ~(i + 1 < j) /\ ~(j = i + 2) /\ ~(j - i > 3) /\ \A k \in (i + 1)..(j - 1) : FALSE
  BY <1>2
<1> QED
  BY <1>1, <1>3 DEF Formed, IsComparison

\* By induction over the length, which bounds the depth.
LEMMA NestedComplete ==
  ASSUME NEW T, NEW toks \in Seq(T), NEW F, Grown(toks, F), NEW E, Nested(toks, E, Len(toks))
  PROVE  Complete(toks, F, E[Len(toks)], Len(toks))
<1> DEFINE N == Len(toks)
           S == {n \in Nat : \A d \in n..N : Complete(toks, F, E[d], n)}
<1>0. N \in Nat
  OBVIOUS
<1> HIDE DEF N
<1>1. 0 \in S
  BY NothingBackwards
<1>2. ASSUME NEW n \in S PROVE n + 1 \in S
  <2> SUFFICES ASSUME NEW d \in (n + 1)..N PROVE Complete(toks, F, E[d], n + 1)
    OBVIOUS
  <2>1. n \in Nat /\ d \in n..N /\ d - 1 \in n..N /\ d \in 0..N /\ d - 1 \in 0..N /\ d \in 1..N
    BY <1>0
  <2>2. /\ E[d] \in Ends(toks) /\ E[d - 1] \in Ends(toks) /\ LevelOf(toks, E[d - 1], E[d])
        /\ Complete(toks, F, E[d], n) /\ Complete(toks, F, E[d - 1], n)
    BY <2>1 DEF Nested, N
  <2> DEFINE e == E[d - 1]
             g == E[d]
  <2> HIDE DEF e, g
  <2>3. /\ e \in Ends(toks) /\ g \in Ends(toks) /\ LevelOf(toks, e, g)
        /\ Complete(toks, F, e, n) /\ Complete(toks, F, g, n) /\ n \in Int
    BY <2>1, <2>2 DEF e, g
  <2>4. Complete(toks, F, g, n + 1)
    BY <2>3, LevelComplete
  <2> QED
    BY <2>4 DEF g
<1>3. N \in S
  <2>1. S \subseteq Nat
    OBVIOUS
  <2> HIDE DEF S
  <2> QED
    BY <1>0, <1>1, <1>2, <2>1, Induction
<1>4. N \in N..N
  BY <1>0
<1>5. Complete(toks, F, E[N], N)
  BY <1>3, <1>4
<1> QED
  BY <1>5 DEF N

\* What is read to the end of the filter is the expression it is.
LEMMA ParserAccepts ==
  ASSUME NEW T, NEW toks \in Seq(T), toks # <<>>
  PROVE  Parse(toks).ok <=> WellFormed(toks)
<1> DEFINE N == Len(toks)
           all == Expressions(toks)[<<1, <<>>>>]
<1>0. N \in Nat /\ N # 0 /\ DOMAIN toks = 1..N /\ 1 \in Nat /\ <<>> \in Seq(ToSet(toks))
  OBVIOUS
<1>1. PICK E : Nested(toks, E, N) /\ Reads(toks, Expressions(toks), E[N])
  BY ExpressionsRead
<1>2. PICK F : Grown(toks, F) /\ (WellFormed(toks) <=> F[<<1, N>>])
  BY Forming DEF Grown
<1> DEFINE e == E[N]
<1>3. Sound(toks, F, e) /\ Complete(toks, F, e, N)
  BY <1>1, <1>2, NestedSound, NestedComplete
<1>4. Returns(toks, all, e[1])
  BY <1>0, <1>1, ReadAt
<1>5. Parse(toks).ok <=> e[1] = N + 1
  <2> HIDE DEF all, e, N
  <2>1. Parse(toks) = IF all.ok /\ all.pos = N + 1 THEN all ELSE Failed
    BY DEF Parse, all, N
  <2>2. CASE e[1] = 0
    <3>1. ~all.ok
      BY <1>4, <2>2, ReadOf DEF Returns
    <3> QED
      BY <1>0, <2>1, <2>2, <3>1, ReadOf
  <2>3. CASE e[1] # 0
    <3>1. PICK sql, args : all = Read(sql, e[1], args)
      BY <1>4, <2>3 DEF Returns
    <3>2. all.ok /\ all.pos = e[1]
      BY <3>1, ReadOf
    <3> QED
      BY <2>1, <3>2, ReadOf
  <2> QED
    BY <2>2, <2>3
<1> HIDE DEF N, e
<1>6. ASSUME e[1] = N + 1 PROVE F[<<1, N>>]
  <2>1. e[1] # 0 /\ e[1] - 1 = N
    BY <1>0, <1>6
  <2> QED
    BY <1>0, <1>3, <2>1 DEF Sound
<1>7. ASSUME F[<<1, N>>] PROVE e[1] = N + 1
  <2>1. 1 \in DOMAIN toks /\ N \in DOMAIN toks /\ Within(1, N, N) /\ N + 1 \notin DOMAIN toks
    BY <1>0 DEF Within
  <2>2. KindAt(toks, N + 1) = "end"
    BY <2>1 DEF KindAt
  <2> QED
    BY <1>3, <1>7, <2>1, <2>2 DEF Complete, Onward
<1> QED
  BY <1>2, <1>5, <1>6, <1>7

\* In an expression every name is followed by an operator or IN.
LEMMA NamesAreTested ==
  ASSUME NEW toks, Len(toks) \in Nat, DOMAIN toks = 1..Len(toks), NEW F, Grown(toks, F),
         NEW i \in DOMAIN toks, NEW j \in DOMAIN toks, F[<<i, j>>],
         NEW k \in i..j, toks[k].kind = "ident"
  PROVE  k + 1 \in DOMAIN toks /\ toks[k + 1].kind \in {"op", "in"}
<1> DEFINE D == DOMAIN toks
           Tested(a, b) == \A n \in a..b : toks[n].kind = "ident" => n + 1 \in D /\ toks[n + 1].kind \in {"op", "in"}
           S == {m \in Nat : \A a, b \in D : b - a < m /\ F[<<a, b>>] => Tested(a, b)}
<1>1. 0 \in S
  <2> SUFFICES ASSUME NEW a \in D, NEW b \in D, b - a < 0 PROVE Tested(a, b)
    OBVIOUS
  <2>1. a..b = {}
    OBVIOUS
  <2> QED
    BY <2>1
<1>2. ASSUME NEW m \in S PROVE m + 1 \in S
  <2> SUFFICES ASSUME NEW a \in D, NEW b \in D, b - a < m + 1, F[<<a, b>>],
                      NEW n \in a..b, toks[n].kind = "ident"
               PROVE  n + 1 \in D /\ toks[n + 1].kind \in {"op", "in"}
    OBVIOUS
  <2>0. m \in Nat /\ \A c, e \in D : e - c < m /\ F[<<c, e>>] => Tested(c, e)
    OBVIOUS
  <2> HIDE DEF S
  <2>1. Formed(toks, F, a, b)
    BY DEF Grown
  <2>2. CASE \E mid \in (a + 1)..(b - 1) :
               toks[mid].kind \in {"and", "or"} /\ F[<<a, mid - 1>>] /\ F[<<mid + 1, b>>]
    <3>1. PICK mid \in (a + 1)..(b - 1) :
            toks[mid].kind \in {"and", "or"} /\ F[<<a, mid - 1>>] /\ F[<<mid + 1, b>>]
      BY <2>2
    <3>2. mid - 1 \in D /\ mid + 1 \in D /\ (mid - 1) - a < m /\ b - (mid + 1) < m
      BY <2>0
    <3>3. Tested(a, mid - 1) /\ Tested(mid + 1, b)
      BY <2>0, <3>1, <3>2
    <3>4. n # mid
      BY <3>1
    <3>5. n \in a..(mid - 1) \/ n \in (mid + 1)..b
      BY <3>4
    <3> QED
      BY <3>3, <3>5
  <2>3. CASE /\ a + 1 < b /\ toks[a].kind = "lparen" /\ toks[b].kind = "rparen"
             /\ F[<<a + 1, b - 1>>]
    <3>1. a + 1 \in D /\ b - 1 \in D /\ (b - 1) - (a + 1) < m
      BY <2>0, <2>3
    <3>2. Tested(a + 1, b - 1)
      BY <2>0, <2>3, <3>1
    <3>3. n # a /\ n # b
      BY <2>3
    <3>4. n \in (a + 1)..(b - 1)
      BY <3>3
    <3> QED
      BY <3>2, <3>4
  <2>4. CASE IsComparison(toks, a, b)
    <3>1. KindAt(toks, a + 1) \in {"op", "in"}
      BY <2>4 DEF IsComparison
    <3>2. a + 1 \in D
      BY <3>1 DEF KindAt
    <3>3. n = a
      <4>1. CASE b = a + 2 /\ KindAt(toks, a + 1) = "op" /\ KindAt(toks, b) \in {"value", "null"}
        <5>1. toks[a + 1].kind = "op" /\ toks[a + 2].kind \in {"value", "null"}
          BY <3>2, <4>1 DEF KindAt
        <5>2. n = a \/ n = a + 1 \/ n = a + 2
          <6>1. a \in Int /\ n \in a..(a + 2)
            BY <4>1
          <6>2. \A x \in Int : \A y \in x..(x + 2) : y = x \/ y = x + 1 \/ y = x + 2
            OBVIOUS
          <6>3. \A y \in a..(a + 2) : y = a \/ y = a + 1 \/ y = a + 2
            BY <6>1, <6>2, Zenon
          <6> QED
            BY <6>1, <6>3, Zenon
        <5> QED
          BY <5>1, <5>2
      <4>2. CASE /\ KindAt(toks, a + 1) = "in" /\ KindAt(toks, a + 2) = "lparen"
                 /\ KindAt(toks, b) = "rparen"
                 /\ \A x \in (a + 3)..(b - 1) :
                      IF (x - a) % 2 = 1 THEN IsValue(toks[x].kind) ELSE toks[x].kind = "comma"
        <5>1. toks[a + 1].kind = "in" /\ toks[b].kind = "rparen" /\ (a + 2 \in D => toks[a + 2].kind = "lparen")
          BY <3>2, <4>2 DEF KindAt
        <5>2. \A x \in (a + 3)..(b - 1) : toks[x].kind # "ident"
          BY <4>2 DEF IsValue
        <5>3. n = a \/ n = a + 1 \/ n = a + 2 \/ n = b \/ n \in (a + 3)..(b - 1)
          OBVIOUS
        <5>4. n \in D
          OBVIOUS
        <5> QED
          BY <5>1, <5>2, <5>3, <5>4
      <4> QED
        BY <2>4, <4>1, <4>2 DEF IsComparison
    <3> QED
      BY <3>1, <3>2, <3>3 DEF KindAt
  <2> QED
    BY <2>1, <2>2, <2>3, <2>4 DEF Formed
<1>3. S = Nat
  <2>1. S \subseteq Nat
    OBVIOUS
  <2> HIDE DEF S
  <2> QED
    BY <1>1, <1>2, <2>1, Induction
<1>4. Len(toks) + 1 \in S /\ j - i < Len(toks) + 1
  <2> HIDE DEF S
  <2> QED
    BY <1>3
<1> QED
  BY <1>4

\* For any filter: the parser accepts it exactly when it is an expression of the grammar
\* (parseFilter in filter.go), and none with a test x IS NULL or x LIKE 'y' is one.
THEOREM ParserAcceptsItsGrammar ==
  ASSUME NEW T, filter \in Seq(T)
  PROVE  AcceptsItsGrammar
<1> DEFINE toks == filter
<1>1. toks \in Seq(T)
  OBVIOUS
<1> HIDE DEF toks
<1>2. toks # <<>> => (Parse(toks).ok <=> WellFormed(toks))
  BY <1>1, ParserAccepts
<1>3. ASSUME NEW k \in 1..(Len(toks) - 2), IsDocumentedTest(SubSeq(toks, k, k + 2)), WellFormed(toks)
      PROVE  FALSE
  <2>1. Len(toks) \in Nat /\ DOMAIN toks = 1..Len(toks) /\ toks # <<>>
    BY <1>1, <1>3
  <2>2. toks[k].kind = "ident" /\ toks[k + 1].kind = "ident"
    <3>1. SubSeq(toks, k, k + 2)[1] = toks[k] /\ SubSeq(toks, k, k + 2)[2] = toks[k + 1]
      BY <1>1, <1>3
    <3> QED
      BY <1>3, <3>1 DEF IsDocumentedTest, IsWord, LikeWord, Column, Token
  <2>3. PICK F : Grown(toks, F) /\ (WellFormed(toks) <=> F[<<1, Len(toks)>>])
    BY <1>1, <2>1, Forming DEF Grown
  <2>4. 1 \in DOMAIN toks /\ Len(toks) \in DOMAIN toks /\ k \in 1..Len(toks)
    BY <1>3, <2>1
  <2>5. toks[k + 1].kind \in {"op", "in"}
    BY <1>3, <2>1, <2>2, <2>3, <2>4, NamesAreTested
  <2> QED
    BY <2>2, <2>5
<1>4. ASSUME NEW k \in 1..(Len(toks) - 2) PROVE toks # <<>>
  BY <1>1, <1>4
<1> QED
  BY <1>2, <1>3, <1>4 DEF toks, AcceptsItsGrammar

-----------------------------------------------------------------------------
(***************************************************************************)
(* What a filter and the SQL for it mean.  Whatever reads expressions as   *)
(* FilterSQL says agrees with Holds (Reader, HoldsRead), and parentheses   *)
(* are what decides how it splits them: what has all of its own (Closed)   *)
(* and no operator outside them (Lacks) is read on its own wherever it     *)
(* stands (JoinedByOr, JoinedByAnd, InParentheses).  So each call of the   *)
(* parser that succeeds carries the meaning of the tokens it read          *)
(* (Carried), from comparisons to primaries, the loops and nesting.        *)
(***************************************************************************)
\* A token more.
Turned(tok) == IF tok.kind = "lparen" THEN 1 ELSE IF tok.kind = "rparen" THEN -1 ELSE 0

\* How many tokens of a kind come up to a position, counted token by token.
LEMMA CountStep ==
  ASSUME NEW s, NEW n \in Nat, NEW kind
  PROVE  /\ Count(s, 0, kind) = 0 /\ Count(s, n, kind) \in Nat
         /\ Count(s, n + 1, kind) = Count(s, n, kind) + (IF s[n + 1].kind = kind THEN 1 ELSE 0)
<1> DEFINE K(m) == {k \in 1..m : s[k].kind = kind}
<1>1. \A m \in Nat : IsFiniteSet(K(m)) /\ Cardinality(K(m)) \in Nat
  <2> SUFFICES ASSUME NEW m \in Nat PROVE IsFiniteSet(K(m)) /\ Cardinality(K(m)) \in Nat
    OBVIOUS
  <2>1. IsFiniteSet(1..m)
    BY FS_Interval
  <2>2. K(m) \subseteq 1..m
    OBVIOUS
  <2> QED
    BY <2>1, <2>2, FS_Subset, FS_CardinalityType
<1>2. K(0) = {}
  OBVIOUS
<1>0. \A m \in Nat : Count(s, m, kind) = Cardinality(K(m))
  BY DEF Count
<1>5. Count(s, 0, kind) = 0 /\ Count(s, n, kind) \in Nat
  <2> HIDE DEF K
  <2> QED
    BY <1>0, <1>1, <1>2, FS_EmptySet
<1>3. CASE s[n + 1].kind = kind
  <2>1. K(n + 1) = K(n) \cup {n + 1} /\ n + 1 \notin K(n)
    BY <1>3
  <2>2. Cardinality(K(n + 1)) = Cardinality(K(n)) + 1
    <3> HIDE DEF K
    <3> QED
      BY <1>1, <2>1, FS_AddElement
  <2> HIDE DEF K
  <2> QED
    BY <1>0, <1>3, <1>5, <2>2
<1>4. CASE s[n + 1].kind # kind
  <2>1. K(n + 1) = K(n)
    BY <1>4
  <2> HIDE DEF K
  <2> QED
    BY <1>0, <1>4, <1>5, <2>1
<1> QED
  BY <1>3, <1>4

\* The depth, counted token by token.
LEMMA DepthStep ==
  ASSUME NEW s, NEW n \in Nat
  PROVE  /\ Depth(s, 0) = 0 /\ Depth(s, n) \in Int
         /\ Depth(s, n + 1) = Depth(s, n) + Turned(s[n + 1])
<1>1. /\ Count(s, 0, "lparen") = 0 /\ Count(s, 0, "rparen") = 0
      /\ Count(s, n, "lparen") \in Nat /\ Count(s, n, "rparen") \in Nat
      /\ Count(s, n + 1, "lparen") = Count(s, n, "lparen") + (IF s[n + 1].kind = "lparen" THEN 1 ELSE 0)
      /\ Count(s, n + 1, "rparen") = Count(s, n, "rparen") + (IF s[n + 1].kind = "rparen" THEN 1 ELSE 0)
  BY CountStep
<1> QED
  BY <1>1 DEF Depth, Turned

\* Equal windows are as deep.
LEMMA DepthWithin ==
  ASSUME NEW s, NEW w, NEW d \in Nat, NEW n \in Nat, \A k \in 1..n : w[k] = s[d + k]
  PROVE  Depth(s, d + n) = Depth(s, d) + Depth(w, n)
<1> DEFINE S == {m \in Nat : m <= n => Depth(s, d + m) = Depth(s, d) + Depth(w, m)}
<1>1. 0 \in S
  <2>1. Depth(w, 0) = 0 /\ Depth(s, d) \in Int
    BY DepthStep
  <2> QED
    BY <2>1
<1>2. ASSUME NEW m \in S PROVE m + 1 \in S
  <2> SUFFICES ASSUME m + 1 <= n PROVE Depth(s, d + (m + 1)) = Depth(s, d) + Depth(w, m + 1)
    OBVIOUS
  <2>1. m \in Nat /\ d + m \in Nat /\ (d + m) + 1 = d + (m + 1) /\ m <= n /\ m + 1 \in 1..n
    OBVIOUS
  <2>2. Depth(s, d + m) = Depth(s, d) + Depth(w, m)
    OBVIOUS
  <2>3. Depth(s, (d + m) + 1) = Depth(s, d + m) + Turned(s[(d + m) + 1]) /\ Depth(s, d) \in Int
    BY <2>1, DepthStep
  <2>4. Depth(w, m + 1) = Depth(w, m) + Turned(w[m + 1]) /\ Depth(w, m) \in Int
    BY <2>1, DepthStep
  <2>5. w[m + 1] = s[(d + m) + 1] /\ Turned(w[m + 1]) \in Int
    BY <2>1 DEF Turned
  <2> QED
    BY <2>1, <2>2, <2>3, <2>4, <2>5
<1>3. S = Nat
  <2>1. S \subseteq Nat
    OBVIOUS
  <2> HIDE DEF S
  <2> QED
    BY <1>1, <1>2, <2>1, Induction
<1>4. n \in S
  <2> HIDE DEF S
  <2> QED
    BY <1>3
<1> QED
  BY <1>4

\* Parentheses that match; no operator of the kinds given outside them.
Closed(s) == Depth(s, Len(s)) = 0 /\ \A k \in DOMAIN s : Depth(s, k) >= 0
Lacks(s, kinds) == \A k \in DOMAIN s : s[k].kind \in kinds => Depth(s, k) # 0

\* The depth in a sequence put after another goes on from where that one ended.
LEMMA DepthGlued ==
  ASSUME NEW A, NEW a \in Seq(A), NEW b \in Seq(A)
  PROVE  /\ \A k \in 0..Len(a) : Depth(a \o b, k) = Depth(a, k)
         /\ \A k \in 0..Len(b) : Depth(a \o b, Len(a) + k) = Depth(a, Len(a)) + Depth(b, k)
<1> DEFINE s == a \o b
<1>1. /\ Len(a) \in Nat /\ Len(b) \in Nat
      /\ \A k \in 1..Len(a) : a[k] = s[0 + k]
      /\ \A k \in 1..Len(b) : b[k] = s[Len(a) + k]
  OBVIOUS
<1> HIDE DEF s
<1>2. ASSUME NEW k \in 0..Len(a) PROVE Depth(s, k) = Depth(a, k)
  <2>0. k \in Nat /\ 0 \in Nat /\ 0 + k = k /\ \A l \in 1..k : a[l] = s[0 + l]
    BY <1>1
  <2>1. Depth(s, 0 + k) = Depth(s, 0) + Depth(a, k)
    BY <2>0, DepthWithin
  <2>2. Depth(s, 0) = 0 /\ Depth(a, k) \in Int
    BY <2>0, DepthStep
  <2> QED
    BY <2>0, <2>1, <2>2
<1>3. ASSUME NEW k \in 0..Len(b) PROVE Depth(s, Len(a) + k) = Depth(a, Len(a)) + Depth(b, k)
  <2>0. k \in Nat /\ Len(a) \in Nat /\ Len(a) \in 0..Len(a) /\ \A l \in 1..k : b[l] = s[Len(a) + l]
    BY <1>1
  <2>1. Depth(s, Len(a) + k) = Depth(s, Len(a)) + Depth(b, k)
    BY <2>0, DepthWithin
  <2> QED
    BY <1>2, <2>0, <2>1
<1> QED
  BY <1>2, <1>3 DEF s

\* One after the other.
LEMMA Glued ==
  ASSUME NEW A, NEW a \in Seq(A), NEW b \in Seq(A), Closed(a), Closed(b)
  PROVE  /\ a \o b \in Seq(A) /\ Closed(a \o b)
         /\ \A kinds : Lacks(a, kinds) /\ Lacks(b, kinds) => Lacks(a \o b, kinds)
<1> DEFINE s == a \o b
<1>1. /\ s \in Seq(A) /\ Len(a) \in Nat /\ Len(b) \in Nat /\ Len(s) = Len(a) + Len(b)
      /\ DOMAIN s = 1..Len(s) /\ DOMAIN a = 1..Len(a) /\ DOMAIN b = 1..Len(b)
      /\ \A k \in 1..Len(a) : s[k] = a[k]
      /\ \A k \in 1..Len(b) : s[Len(a) + k] = b[k]
  OBVIOUS
<1>2. /\ \A k \in 0..Len(a) : Depth(s, k) = Depth(a, k)
      /\ \A k \in 0..Len(b) : Depth(s, Len(a) + k) = Depth(a, Len(a)) + Depth(b, k)
  BY DepthGlued
<1> HIDE DEF s
<1>3. \A k \in 0..Len(b) : Depth(s, Len(a) + k) = Depth(b, k)
  <2> SUFFICES ASSUME NEW k \in 0..Len(b) PROVE Depth(s, Len(a) + k) = Depth(b, k)
    OBVIOUS
  <2>1. k \in Nat /\ Depth(a, Len(a)) = 0
    BY <1>1 DEF Closed
  <2>2. Depth(b, k) \in Int
    BY <2>1, DepthStep
  <2> QED
    BY <1>2, <2>1, <2>2
<1>4. ASSUME NEW k \in DOMAIN s
      PROVE  \/ k \in DOMAIN a /\ s[k] = a[k] /\ Depth(s, k) = Depth(a, k)
             \/ k - Len(a) \in DOMAIN b /\ s[k] = b[k - Len(a)] /\ Depth(s, k) = Depth(b, k - Len(a))
  <2>1. CASE k <= Len(a)
    BY <1>1, <1>2, <2>1
  <2>2. CASE k > Len(a)
    <3>1. k - Len(a) \in 1..Len(b) /\ k - Len(a) \in 0..Len(b) /\ Len(a) + (k - Len(a)) = k
      BY <1>1, <2>2
    <3> QED
      BY <1>1, <1>3, <3>1
  <2> QED
    BY <1>1, <2>1, <2>2
<1>5. Closed(s)
  <2>1. Len(b) \in 0..Len(b)
    BY <1>1
  <2> QED
    BY <1>1, <1>3, <1>4, <2>1 DEF Closed
<1>6. ASSUME NEW kinds, Lacks(a, kinds), Lacks(b, kinds) PROVE Lacks(s, kinds)
  BY <1>4, <1>6 DEF Lacks
<1> QED
  BY <1>1, <1>5, <1>6 DEF s

\* Without parentheses.
LEMMA Flat ==
  ASSUME NEW A, NEW a \in Seq(A), \A k \in DOMAIN a : a[k].kind \notin {"lparen", "rparen"}
  PROVE  /\ \A k \in 0..Len(a) : Depth(a, k) = 0
         /\ Closed(a)
         /\ \A kinds : (\A k \in DOMAIN a : a[k].kind \notin kinds) => Lacks(a, kinds)
<1>0. Len(a) \in Nat /\ DOMAIN a = 1..Len(a) /\ Len(a) \in 0..Len(a)
  OBVIOUS
<1>1. ASSUME NEW k \in 0..Len(a) PROVE Depth(a, k) = 0
  <2>1. {l \in 1..k : a[l].kind = "lparen"} = {} /\ {l \in 1..k : a[l].kind = "rparen"} = {}
    BY <1>0
  <2>2. Count(a, k, "lparen") = 0
    BY <2>1, FS_EmptySet DEF Count
  <2>3. Count(a, k, "rparen") = 0
    BY <2>1, FS_EmptySet DEF Count
  <2> QED
    BY <2>2, <2>3 DEF Depth
<1>2. Closed(a)
  BY <1>0, <1>1 DEF Closed
<1> QED
  BY <1>1, <1>2 DEF Lacks

\* In parentheses: nothing is outside them.
LEMMA Wrapped ==
  ASSUME NEW A, NEW a \in Seq(A), Closed(a), NEW l \in A, NEW r \in A, l.kind = "lparen", r.kind = "rparen",
         NEW kinds, "rparen" \notin kinds
  PROVE  <<l>> \o a \o <<r>> \in Seq(A) /\ Closed(<<l>> \o a \o <<r>>) /\ Lacks(<<l>> \o a \o <<r>>, kinds)
<1> DEFINE s == <<l>> \o a \o <<r>>
           N == Len(a)
<1>1. /\ s \in Seq(A) /\ N \in Nat /\ Len(s) = N + 2 /\ DOMAIN s = 1..(N + 2)
      /\ s[1] = l /\ s[N + 2] = r /\ \A k \in 1..N : a[k] = s[1 + k]
  OBVIOUS
<1>2. DOMAIN a = 1..N /\ Depth(a, N) = 0 /\ \A k \in 1..N : Depth(a, k) >= 0
  BY DEF Closed
<1> HIDE DEF s, N
<1>3. Depth(s, 0) = 0 /\ Depth(s, 0 + 1) = Depth(s, 0) + Turned(s[0 + 1])
  BY DepthStep
<1>4. Depth(s, 1) = 1
  BY <1>1, <1>3 DEF Turned
<1>5. \A k \in 1..N : Depth(s, 1 + k) = 1 + Depth(a, k) /\ Depth(a, k) \in Int
  <2> SUFFICES ASSUME NEW k \in 1..N PROVE Depth(s, 1 + k) = 1 + Depth(a, k) /\ Depth(a, k) \in Int
    OBVIOUS
  <2>1. k \in Nat /\ 1 \in Nat /\ \A m \in 1..k : a[m] = s[1 + m]
    BY <1>1
  <2>2. Depth(s, 1 + k) = Depth(s, 1) + Depth(a, k)
    BY <2>1, DepthWithin
  <2> QED
    BY <1>4, <2>1, <2>2, DepthStep
<1>6. Depth(s, N + 1) = 1
  <2>1. CASE N = 0
    BY <1>4, <2>1
  <2>2. CASE N # 0
    <3>1. N \in 1..N /\ 1 + N = N + 1
      BY <1>1, <2>2
    <3> QED
      BY <1>2, <1>5, <3>1
  <2> QED
    BY <2>1, <2>2
<1>7. Depth(s, N + 2) = 0
  <2>1. N + 1 \in Nat /\ (N + 1) + 1 = N + 2
    BY <1>1
  <2>2. Depth(s, (N + 1) + 1) = Depth(s, N + 1) + Turned(s[(N + 1) + 1])
    BY <2>1, DepthStep
  <2> QED
    BY <1>1, <1>6, <2>1, <2>2 DEF Turned
<1>8. \A k \in 1..(N + 1) : Depth(s, k) > 0
  <2> SUFFICES ASSUME NEW k \in 1..(N + 1) PROVE Depth(s, k) > 0
    OBVIOUS
  <2>1. CASE k = 1
    BY <1>4, <2>1
  <2>2. CASE k # 1
    <3>1. k - 1 \in 1..N /\ 1 + (k - 1) = k
      BY <1>1, <2>2
    <3> QED
      BY <1>2, <1>5, <3>1
  <2> QED
    BY <2>1, <2>2
<1>9. Closed(s)
  <2> SUFFICES ASSUME NEW k \in DOMAIN s PROVE Depth(s, k) >= 0
    BY <1>1, <1>7 DEF Closed
  <2>1. k \in 1..(N + 1) \/ k = N + 2
    BY <1>1
  <2>2. k \in Nat
    BY <1>1
  <2>3. Depth(s, k) \in Int
    BY <2>2, DepthStep
  <2> QED
    BY <1>7, <1>8, <2>1, <2>3
<1>10. Lacks(s, kinds)
  <2> SUFFICES ASSUME NEW k \in DOMAIN s, s[k].kind \in kinds PROVE Depth(s, k) # 0
    BY DEF Lacks
  <2>1. k \in 1..(N + 1)
    BY <1>1
  <2> QED
    BY <1>8, <2>1
<1> QED
  BY <1>1, <1>9, <1>10 DEF s

\* What reads the expressions over an alphabet; those shorter than m.
Reader(A, passed, h) ==
  h \in [Seq(A) -> BOOLEAN] /\ \A s \in Seq(A) : h[s] <=> Truth(s, passed, h)
ReaderTo(A, passed, h, m) ==
  h \in [Seq(A) -> BOOLEAN] /\ \A s \in Seq(A) : Len(s) < m => (h[s] <=> Truth(s, passed, h))

\* Of numbers between bounds one is the last.
LEMMA LastNumber ==
  ASSUME NEW S, NEW lo \in Int, NEW hi \in Int, S \subseteq lo..hi, S # {}
  PROVE  Max(S) \in S /\ \A y \in S : Max(S) >= y
<1> DEFINE T == {hi - y : y \in S}
<1>1. T \subseteq Nat /\ T # {}
  OBVIOUS
<1>2. PICK x \in T : \A y \in T : x <= y
  <2> HIDE DEF T
  <2> QED
    BY <1>1, LeastNumber
<1>3. PICK z \in S : x = hi - z
  OBVIOUS
<1>4. \A y \in S : z >= y
  <2> SUFFICES ASSUME NEW y \in S PROVE z >= y
    OBVIOUS
  <2>1. hi - y \in T
    OBVIOUS
  <2>2. hi - z <= hi - y
    BY <1>2, <1>3, <2>1
  <2>3. z \in Int /\ y \in Int
    OBVIOUS
  <2> QED
    BY <2>2, <2>3
<1> QED
  BY <1>4 DEF Max

\* Where an operator splits an expression.
LEMMA Splits ==
  ASSUME NEW A, NEW s \in Seq(A), NEW kind, Outside(s, kind) # {}
  PROVE  LET k == Max(Outside(s, kind))
         IN /\ k \in Outside(s, kind) /\ k \in 2..(Len(s) - 1) /\ \A l \in Outside(s, kind) : k >= l
            /\ SubSeq(s, 1, k - 1) \in Seq(A) /\ Len(SubSeq(s, 1, k - 1)) < Len(s)
            /\ SubSeq(s, k + 1, Len(s)) \in Seq(A) /\ Len(SubSeq(s, k + 1, Len(s))) < Len(s)
<1> DEFINE S == Outside(s, kind)
           k == Max(S)
<1>1. S \subseteq 2..(Len(s) - 1) /\ Len(s) \in Nat /\ 2 \in Int /\ Len(s) - 1 \in Int
  BY DEF Outside
<1>2. S # {}
  OBVIOUS
<1> HIDE DEF S
<1>3. k \in S /\ \A l \in S : k >= l
  BY <1>1, <1>2, LastNumber
<1> HIDE DEF k
<1>4. k \in 2..(Len(s) - 1)
  BY <1>1, <1>3
<1>5. /\ SubSeq(s, 1, k - 1) \in Seq(A) /\ Len(SubSeq(s, 1, k - 1)) < Len(s)
      /\ SubSeq(s, k + 1, Len(s)) \in Seq(A) /\ Len(SubSeq(s, k + 1, Len(s))) < Len(s)
  BY <1>1, <1>4
<1> QED
  BY <1>3, <1>4, <1>5 DEF k, S

\* Only shorter expressions matter.
LEMMA TruthOfShorter ==
  ASSUME NEW A, NEW s \in Seq(A), NEW passed, NEW h, NEW g,
         \A t \in Seq(A) : Len(t) < Len(s) => (h[t] <=> g[t])
  PROVE  Truth(s, passed, h) <=> Truth(s, passed, g)
<1> DEFINE ors == Outside(s, "or")
           ands == Outside(s, "and")
           Before(k) == SubSeq(s, 1, k - 1)
           After(k) == SubSeq(s, k + 1, Len(s))
           inner == SubSeq(s, 2, Len(s) - 1)
<1>1. ors # {} => /\ h[Before(Max(ors))] <=> g[Before(Max(ors))]
                  /\ h[After(Max(ors))] <=> g[After(Max(ors))]
  BY Splits
<1>2. ands # {} => /\ h[Before(Max(ands))] <=> g[Before(Max(ands))]
                   /\ h[After(Max(ands))] <=> g[After(Max(ands))]
  BY Splits
<1>3. Enclosed(s) => (h[inner] <=> g[inner])
  <2> SUFFICES ASSUME Len(s) > 2 PROVE h[inner] <=> g[inner]
    BY DEF Enclosed
  <2>1. inner \in Seq(A) /\ Len(inner) < Len(s)
    OBVIOUS
  <2> QED
    BY <2>1
<1>4. \A f : Truth(s, passed, f) <=>
        \/ ors # {} /\ (f[Before(Max(ors))] \/ f[After(Max(ors))])
        \/ ors = {} /\ ands # {} /\ f[Before(Max(ands))] /\ f[After(Max(ands))]
        \/ ors \cup ands = {} /\ Enclosed(s) /\ f[inner]
        \/ ors \cup ands = {} /\ ~Enclosed(s) /\ Test(s) \in passed
  BY DEF Truth
<1> HIDE DEF ors, ands, Before, After, inner
<1> QED
  BY <1>1, <1>2, <1>3, <1>4

\* There is one reader at most.
LEMMA ReadersAgree ==
  ASSUME NEW A, NEW B, A \subseteq B, NEW passed, NEW h, NEW g, NEW n \in Nat,
         ReaderTo(A, passed, h, n), ReaderTo(B, passed, g, n)
  PROVE  \A s \in Seq(A) : Len(s) < n => (h[s] <=> g[s])
<1> DEFINE S == {m \in Nat : m <= n => \A s \in Seq(A) : Len(s) < m => (h[s] <=> g[s])}
<1>0. Seq(A) \subseteq Seq(B)
  OBVIOUS
<1>1. 0 \in S
  OBVIOUS
<1>2. ASSUME NEW m \in S PROVE m + 1 \in S
  <2> SUFFICES ASSUME m + 1 <= n, NEW s \in Seq(A), Len(s) < m + 1 PROVE h[s] <=> g[s]
    OBVIOUS
  <2>1. \A t \in Seq(A) : Len(t) < Len(s) => (h[t] <=> g[t])
    OBVIOUS
  <2>2. Truth(s, passed, h) <=> Truth(s, passed, g)
    BY <2>1, TruthOfShorter
  <2>3. Len(s) < n /\ s \in Seq(B)
    BY <1>0
  <2> QED
    BY <2>2, <2>3 DEF ReaderTo
<1>3. S = Nat
  <2>1. S \subseteq Nat
    OBVIOUS
  <2> HIDE DEF S
  <2> QED
    BY <1>1, <1>2, <2>1, Induction
<1>4. n \in S
  <2> HIDE DEF S
  <2> QED
    BY <1>3
<1> QED
  BY <1>4

\* What reads the expressions shorter than m reads those of length m too, extended.
LEMMA ReadingOn ==
  ASSUME NEW A, NEW passed, NEW m \in Nat, NEW h, ReaderTo(A, passed, h, m)
  PROVE  \E g : ReaderTo(A, passed, g, m + 1)
<1> DEFINE g == [s \in Seq(A) |-> IF Len(s) < m THEN h[s] ELSE Truth(s, passed, h)]
<1>1. h \in [Seq(A) -> BOOLEAN] /\ \A s \in Seq(A) : Len(s) < m => (h[s] <=> Truth(s, passed, h))
  BY DEF ReaderTo
<1>2. \A s : Truth(s, passed, h) \in BOOLEAN
  BY DEF Truth
<1>3. g \in [Seq(A) -> BOOLEAN]
  BY <1>1, <1>2
<1>4. \A s \in Seq(A) : g[s] <=> IF Len(s) < m THEN h[s] ELSE Truth(s, passed, h)
  OBVIOUS
<1> HIDE DEF g
<1>5. ASSUME NEW s \in Seq(A), Len(s) < m + 1 PROVE g[s] <=> Truth(s, passed, g)
  <2>1. Len(s) \in Nat /\ \A t \in Seq(A) : Len(t) \in Nat
    OBVIOUS
  <2>2. \A t \in Seq(A) : Len(t) < Len(s) => (h[t] <=> g[t])
    <3> SUFFICES ASSUME NEW t \in Seq(A), Len(t) < Len(s) PROVE h[t] <=> g[t]
      OBVIOUS
    <3>1. Len(t) < m
      BY <1>5, <2>1
    <3> QED
      BY <1>4, <3>1
  <2>3. Truth(s, passed, h) <=> Truth(s, passed, g)
    BY <2>2, TruthOfShorter
  <2> QED
    BY <1>1, <1>4, <2>3
<1>6. ReaderTo(A, passed, g, m + 1)
  BY <1>3, <1>5 DEF ReaderTo
<1> QED
  BY <1>6

\* There is a reader of expressions of any length.
LEMMA ReadersTo ==
  ASSUME NEW A, NEW passed, NEW n \in Nat
  PROVE  \E h : ReaderTo(A, passed, h, n)
<1> DEFINE S == {m \in Nat : \E h : ReaderTo(A, passed, h, m)}
<1>1. 0 \in S
  <2> DEFINE h == [s \in Seq(A) |-> FALSE]
  <2>1. h \in [Seq(A) -> BOOLEAN] /\ \A s \in Seq(A) : ~(Len(s) < 0)
    OBVIOUS
  <2> HIDE DEF h
  <2>2. ReaderTo(A, passed, h, 0)
    BY <2>1 DEF ReaderTo
  <2> QED
    BY <2>2
<1>2. ASSUME NEW m \in S PROVE m + 1 \in S
  <2>1. PICK h : ReaderTo(A, passed, h, m)
    OBVIOUS
  <2>2. \E g : ReaderTo(A, passed, g, m + 1)
    BY <2>1, ReadingOn
  <2> QED
    BY <2>2
<1>3. S = Nat
  <2>1. S \subseteq Nat
    OBVIOUS
  <2> HIDE DEF S
  <2> QED
    BY <1>1, <1>2, <2>1, Induction
<1>4. n \in S
  <2> HIDE DEF S
  <2> QED
    BY <1>3
<1> QED
  BY <1>4

\* There is one.
LEMMA Readers == ASSUME NEW A, NEW passed PROVE \E h : Reader(A, passed, h)
<1> DEFINE To(m) == CHOOSE h : ReaderTo(A, passed, h, m)
           h == [s \in Seq(A) |-> To(Len(s) + 1)[s]]
<1>1. \A m \in Nat : ReaderTo(A, passed, To(m), m)
  BY ReadersTo
<1> HIDE DEF To
<1>2. \A s \in Seq(A) : Len(s) \in Nat /\ Len(s) + 1 \in Nat /\ Len(s) < Len(s) + 1
  OBVIOUS
<1>3. h \in [Seq(A) -> BOOLEAN]
  <2> SUFFICES ASSUME NEW s \in Seq(A) PROVE To(Len(s) + 1)[s] \in BOOLEAN
    OBVIOUS
  <2> QED
    BY <1>1, <1>2 DEF ReaderTo
<1>4. \A s \in Seq(A) : h[s] = To(Len(s) + 1)[s]
  OBVIOUS
<1> HIDE DEF h
<1>5. ASSUME NEW s \in Seq(A) PROVE h[s] <=> Truth(s, passed, h)
  <2> DEFINE n == Len(s) + 1
             f == To(n)
  <2>1. n \in Nat /\ Len(s) < n /\ ReaderTo(A, passed, f, n)
    BY <1>1, <1>2
  <2>2. h[s] = f[s]
    BY <1>4
  <2> HIDE DEF f
  <2>3. \A t \in Seq(A) : Len(t) < Len(s) => (f[t] <=> h[t])
    <3> SUFFICES ASSUME NEW t \in Seq(A), Len(t) < Len(s) PROVE f[t] <=> h[t]
      OBVIOUS
    <3> DEFINE m == Len(t) + 1
               g == To(m)
    <3>1. m \in Nat /\ Len(t) < m /\ m <= n /\ ReaderTo(A, passed, g, m)
      BY <1>1, <1>2
    <3>2. h[t] = g[t]
      BY <1>4
    <3> HIDE DEF g, m, n
    <3>3. ReaderTo(A, passed, f, m)
      <4>1. \A u \in Seq(A) : Len(u) < m => Len(u) < n
        <5>1. \A u \in Seq(A) : Len(u) \in Nat
          OBVIOUS
        <5> QED
          BY <2>1, <3>1, <5>1
      <4> QED
        BY <2>1, <4>1 DEF ReaderTo
    <3>4. f[t] <=> g[t]
      BY <3>1, <3>3, ReadersAgree
    <3> QED
      BY <3>2, <3>4
  <2>4. Truth(s, passed, f) <=> Truth(s, passed, h)
    BY <2>3, TruthOfShorter
  <2> HIDE DEF n
  <2> QED
    BY <2>1, <2>2, <2>4 DEF ReaderTo
<1>6. Reader(A, passed, h)
  BY <1>3, <1>5 DEF Reader
<1> QED
  BY <1>6

\* Holds is what any of them says.
LEMMA HoldsRead ==
  ASSUME NEW B, NEW s \in Seq(B), NEW passed, NEW g, Reader(B, passed, g)
  PROVE  Holds(s, passed) <=> g[s]
<1> DEFINE A == ToSet(s)
           Is(f) == f = [t \in Seq(A) |-> Truth(t, passed, f)]
           holds == CHOOSE f : Is(f)
<1>0. A \subseteq B /\ s \in Seq(A) /\ Len(s) \in Nat /\ Len(s) + 1 \in Nat /\ Len(s) < Len(s) + 1
  BY DEF ToSet
<1>1. Holds(s, passed) = holds[s]
  BY DEF Holds
<1> HIDE DEF A
<1>2. PICK h : Reader(A, passed, h)
  BY Readers
<1>3. Is(h)
  <2>1. \A t \in Seq(A) : h[t] = Truth(t, passed, h)
    <3> SUFFICES ASSUME NEW t \in Seq(A) PROVE h[t] = Truth(t, passed, h)
      OBVIOUS
    <3>1. h[t] \in BOOLEAN /\ (h[t] <=> Truth(t, passed, h))
      BY <1>2 DEF Reader
    <3>2. Truth(t, passed, h) \in BOOLEAN
      BY DEF Truth
    <3> QED
      BY <3>1, <3>2
  <2> QED
    BY <1>2, <2>1 DEF Reader
<1>4. Is(holds)
  <2> HIDE DEF Is
  <2> QED
    BY <1>3
<1> HIDE DEF holds
<1>5. ReaderTo(A, passed, holds, Len(s) + 1)
  <2>1. \A t : Truth(t, passed, holds) \in BOOLEAN
    BY DEF Truth
  <2>2. \A t \in Seq(A) : holds[t] = Truth(t, passed, holds)
    BY <1>4
  <2>3. holds \in [Seq(A) -> BOOLEAN]
    BY <1>4, <2>1
  <2> QED
    BY <2>2, <2>3 DEF ReaderTo
<1>6. ReaderTo(B, passed, g, Len(s) + 1)
  BY DEF Reader, ReaderTo
<1>7. holds[s] <=> g[s]
  BY <1>0, <1>5, <1>6, ReadersAgree
<1> QED
  BY <1>1, <1>7

\* Two expressions and an operator between them.
LEMMA Between ==
  ASSUME NEW A, NEW a \in Seq(A), NEW b \in Seq(A), a # <<>>, b # <<>>, Closed(a), Closed(b),
         NEW t \in A, t.kind \in {"and", "or"}
  PROVE  LET w == a \o <<t>> \o b
         IN /\ w \in Seq(A) /\ Closed(w)
            /\ \A kinds : Lacks(a, kinds) /\ Lacks(b, kinds) /\ t.kind \notin kinds => Lacks(w, kinds)
            /\ Len(a) + 1 \in Outside(w, t.kind)
            /\ Lacks(b, {t.kind}) => \A k \in Outside(w, t.kind) : k <= Len(a) + 1
            /\ SubSeq(w, 1, Len(a)) = a /\ SubSeq(w, Len(a) + 2, Len(w)) = b
<1> DEFINE m == <<t>>
           c == a \o m
           w == c \o b
<1>1. m \in Seq(A) /\ Len(m) = 1 /\ DOMAIN m = {1} /\ m[1] = t
  OBVIOUS
<1> HIDE DEF m
<1>2. Closed(m) /\ \A kinds : t.kind \notin kinds => Lacks(m, kinds)
  BY <1>1, Flat
<1>3. c \in Seq(A) /\ Closed(c) /\ \A kinds : Lacks(a, kinds) /\ Lacks(m, kinds) => Lacks(c, kinds)
  BY <1>1, <1>2, Glued
<1>4. Len(c) = Len(a) + 1 /\ Len(a) \in Nat /\ Len(b) \in Nat /\ Len(a) > 0 /\ Len(b) > 0 /\ c[Len(a) + 1] = t
  <2>1. Len(a) \in Nat /\ Len(b) \in Nat /\ Len(a) > 0 /\ Len(b) > 0
    OBVIOUS
  <2>2. Len(a \o m) = Len(a) + Len(m) /\ \A k \in 1..Len(m) : (a \o m)[Len(a) + k] = m[k]
    <3>1. m \in Seq(A)
      BY <1>1
    <3> QED
      BY <3>1
  <2>3. Len(c) = Len(a) + Len(m) /\ c[Len(a) + 1] = m[1]
    BY <1>1, <2>2
  <2> HIDE DEF c
  <2> QED
    BY <1>1, <2>1, <2>3
<1> HIDE DEF c
<1>5. w \in Seq(A) /\ Closed(w) /\ \A kinds : Lacks(c, kinds) /\ Lacks(b, kinds) => Lacks(w, kinds)
  BY <1>3, Glued
<1>6. /\ Len(w) = Len(a) + 1 + Len(b) /\ w[Len(a) + 1] = t
      /\ \A k \in 1..Len(b) : w[Len(a) + 1 + k] = b[k]
  BY <1>3, <1>4
<1>7. /\ \A k \in 0..Len(c) : Depth(w, k) = Depth(c, k)
      /\ \A k \in 0..Len(b) : Depth(w, Len(c) + k) = Depth(c, Len(c)) + Depth(b, k)
  BY <1>3, DepthGlued
<1> HIDE DEF w
<1>8. Depth(c, Len(c)) = 0
  BY <1>3 DEF Closed
<1>9. Depth(w, Len(a) + 1) = 0
  <2>1. Len(c) \in 0..Len(c)
    BY <1>4
  <2> QED
    BY <1>4, <1>7, <1>8, <2>1
<1>10. Len(a) + 1 \in Outside(w, t.kind)
  BY <1>4, <1>6, <1>9 DEF Outside
<1>11. ASSUME Lacks(b, {t.kind}), NEW k \in Outside(w, t.kind) PROVE k <= Len(a) + 1
  <2> SUFFICES ASSUME k > Len(a) + 1 PROVE FALSE
    BY <1>4 DEF Outside
  <2> DEFINE l == k - Len(a) - 1
  <2>1. k \in Nat /\ w[k].kind = t.kind /\ Depth(w, k) = 0 /\ k <= Len(w) - 1
    BY <1>4, <1>6 DEF Outside
  <2>2. l \in 1..Len(b) /\ l \in 0..Len(b) /\ k = Len(a) + 1 + l /\ k = Len(c) + l /\ l \in Nat
    BY <1>4, <1>6, <2>1
  <2> HIDE DEF l
  <2>3. b[l].kind = t.kind /\ l \in DOMAIN b
    BY <1>6, <2>1, <2>2
  <2>4. Depth(b, l) \in Int
    BY <2>2, DepthStep
  <2>5. Depth(w, k) = 0 + Depth(b, l)
    BY <1>7, <1>8, <2>2
  <2> QED
    BY <1>11, <2>1, <2>3, <2>4, <2>5 DEF Lacks
<1>12. SubSeq(w, 1, Len(a)) = a /\ SubSeq(w, Len(a) + 2, Len(w)) = b
  BY DEF w, c, m
<1>13. w = a \o <<t>> \o b
  BY DEF w, c, m
<1>14. \A kinds : Lacks(a, kinds) /\ Lacks(b, kinds) /\ t.kind \notin kinds => Lacks(w, kinds)
  BY <1>2, <1>3, <1>5
<1> QED
  BY <1>5, <1>10, <1>11, <1>12, <1>13, <1>14

\* What the reader says of it.
LEMMA Said ==
  ASSUME NEW A, NEW passed, NEW h, Reader(A, passed, h), NEW w \in Seq(A),
         NEW l \in Nat, Outside(w, "or") # {} => Max(Outside(w, "or")) = l,
         Outside(w, "or") = {} => Outside(w, "and") # {} /\ Max(Outside(w, "and")) = l
  PROVE  h[w] <=> IF Outside(w, "or") # {} THEN h[SubSeq(w, 1, l - 1)] \/ h[SubSeq(w, l + 1, Len(w))]
                  ELSE h[SubSeq(w, 1, l - 1)] /\ h[SubSeq(w, l + 1, Len(w))]
<1>1. h[w] <=> Truth(w, passed, h)
  BY DEF Reader
<1> QED
  BY <1>1 DEF Truth

\* What OR joins is true when one side is, if the right one has no OR of its own.
LEMMA JoinedByOr ==
  ASSUME NEW A, NEW passed, NEW h, Reader(A, passed, h),
         NEW a \in Seq(A), NEW b \in Seq(A), a # <<>>, b # <<>>, Closed(a), Closed(b),
         NEW t \in A, t.kind = "or", Lacks(b, {"or"})
  PROVE  h[a \o <<t>> \o b] <=> (h[a] \/ h[b])
<1> DEFINE w == a \o <<t>> \o b
           S == Outside(w, "or")
<1>1. /\ w \in Seq(A) /\ Len(a) + 1 \in S /\ \A k \in S : k <= Len(a) + 1
      /\ SubSeq(w, 1, Len(a)) = a /\ SubSeq(w, Len(a) + 2, Len(w)) = b
  BY Between
<1>2. Len(a) \in Nat /\ Len(a) + 1 \in Nat /\ (Len(a) + 1) - 1 = Len(a) /\ (Len(a) + 1) + 1 = Len(a) + 2
  OBVIOUS
<1> HIDE DEF w
<1>3. S \subseteq Nat
  BY DEF Outside
<1>4. S # {} /\ Max(S) \in S /\ \A k \in S : Max(S) >= k
  <2>1. S # {}
    BY <1>1
  <2> QED
    BY <1>1, <2>1, Splits
<1>5. Max(S) = Len(a) + 1
  <2> HIDE DEF S
  <2>1. Max(S) \in Nat /\ Max(S) <= Len(a) + 1 /\ Max(S) >= Len(a) + 1
    BY <1>1, <1>3, <1>4
  <2> QED
    BY <1>2, <2>1
<1>6. h[w] <=> h[SubSeq(w, 1, (Len(a) + 1) - 1)] \/ h[SubSeq(w, (Len(a) + 1) + 1, Len(w))]
  BY <1>1, <1>2, <1>4, <1>5, Said
<1> QED
  BY <1>1, <1>2, <1>6 DEF w

\* Nothing of a kind that is free of it.
LEMMA NothingOutside ==
  ASSUME NEW A, NEW w \in Seq(A), NEW kind, NEW kinds, kind \in kinds, Lacks(w, kinds)
  PROVE  Outside(w, kind) = {}
<1> SUFFICES ASSUME NEW k \in Outside(w, kind) PROVE FALSE
  OBVIOUS
<1>1. k \in 2..(Len(w) - 1) /\ w[k].kind = kind /\ Depth(w, k) = 0
  BY DEF Outside
<1>2. k \in DOMAIN w
  BY <1>1
<1> QED
  BY <1>1, <1>2 DEF Lacks

\* What AND joins is true when both sides are, if neither has an OR of its own.
LEMMA JoinedByAnd ==
  ASSUME NEW A, NEW passed, NEW h, Reader(A, passed, h),
         NEW a \in Seq(A), NEW b \in Seq(A), a # <<>>, b # <<>>, Closed(a), Closed(b),
         NEW t \in A, t.kind = "and", Lacks(a, {"or"}), Lacks(b, {"or"}), Lacks(b, {"and"})
  PROVE  h[a \o <<t>> \o b] <=> (h[a] /\ h[b])
<1> DEFINE w == a \o <<t>> \o b
           S == Outside(w, "and")
<1>1. /\ w \in Seq(A) /\ Len(a) + 1 \in S /\ \A k \in S : k <= Len(a) + 1
      /\ SubSeq(w, 1, Len(a)) = a /\ SubSeq(w, Len(a) + 2, Len(w)) = b
      /\ Lacks(w, {"or"})
  BY Between
<1>2. Len(a) \in Nat /\ Len(a) + 1 \in Nat /\ (Len(a) + 1) - 1 = Len(a) /\ (Len(a) + 1) + 1 = Len(a) + 2
  OBVIOUS
<1> HIDE DEF w
<1>3. S \subseteq Nat
  BY DEF Outside
<1>4. S # {} /\ Max(S) \in S /\ \A k \in S : Max(S) >= k
  <2>1. S # {}
    BY <1>1
  <2> QED
    BY <1>1, <2>1, Splits
<1>5. Max(S) = Len(a) + 1
  <2> HIDE DEF S
  <2>1. Max(S) \in Nat /\ Max(S) <= Len(a) + 1 /\ Max(S) >= Len(a) + 1
    BY <1>1, <1>3, <1>4
  <2> QED
    BY <1>2, <2>1
<1>7. Outside(w, "or") = {}
  BY <1>1, NothingOutside
<1>6. h[w] <=> h[SubSeq(w, 1, (Len(a) + 1) - 1)] /\ h[SubSeq(w, (Len(a) + 1) + 1, Len(w))]
  BY <1>1, <1>2, <1>4, <1>5, <1>7, Said
<1> QED
  BY <1>1, <1>2, <1>6 DEF w

\* Parentheses change nothing of what is in them.
LEMMA InParentheses ==
  ASSUME NEW A, NEW passed, NEW h, Reader(A, passed, h), NEW a \in Seq(A), a # <<>>, Closed(a),
         NEW l \in A, NEW r \in A, l.kind = "lparen", r.kind = "rparen"
  PROVE  h[<<l>> \o a \o <<r>>] <=> h[a]
<1> DEFINE w == <<l>> \o a \o <<r>>
<1>1. w \in Seq(A) /\ Lacks(w, {"and", "or"})
  BY Wrapped
<1>2. /\ Len(w) = Len(a) + 2 /\ Len(a) \in Nat /\ Len(a) > 0 /\ w[1] = l /\ w[Len(w)] = r
      /\ SubSeq(w, 2, Len(w) - 1) = a
  OBVIOUS
<1> HIDE DEF w
<1>3. Outside(w, "or") = {} /\ Outside(w, "and") = {}
  BY <1>1, NothingOutside
<1>4. Enclosed(w)
  BY <1>2 DEF Enclosed
<1>5. h[w] <=> Truth(w, passed, h)
  BY <1>1 DEF Reader
<1>6. Truth(w, passed, h) <=> h[SubSeq(w, 2, Len(w) - 1)]
  BY <1>3, <1>4 DEF Truth
<1> QED
  BY <1>2, <1>5, <1>6 DEF w

\* What is no more than a comparison is its test.
LEMMA Tested ==
  ASSUME NEW A, NEW passed, NEW h, Reader(A, passed, h), NEW w \in Seq(A),
         Lacks(w, {"and", "or"}), w[1].kind # "lparen"
  PROVE  h[w] <=> Test(w) \in passed
<1>3. Outside(w, "or") = {} /\ Outside(w, "and") = {}
  BY NothingOutside
<1>4. ~Enclosed(w)
  BY DEF Enclosed
<1>5. h[w] <=> Truth(w, passed, h)
  BY DEF Reader
<1>6. Truth(w, passed, h) <=> Test(w) \in passed
  BY <1>3, <1>4 DEF Truth
<1> QED
  BY <1>5, <1>6

\* The tokens of a filter and of the SQL for it, bound and not.
Spoken(toks) ==
  ToSet(toks)
  \cup {Column(c) : c \in Columns}
  \cup {Token("op", toks[k].value) : k \in DOMAIN toks}
  \cup {Token("is", b) : b \in BOOLEAN}
  \cup {Mark(kind) : kind \in {"in", "lparen", "rparen", "comma", "and", "or"}}
Clauses(toks) == Spoken(toks) \cup {Param(n) : n \in Nat}

\* More arguments, after the same.
Lengthens(more, args) == DOMAIN args \subseteq DOMAIN more /\ \A k \in DOMAIN args : more[k] = args[k]

\* SQL that is as true as what was read, whatever arguments follow.
Means(toks, h, w, sql, args) ==
  /\ sql \in Seq(Clauses(toks))
  /\ \E b \in Seq(Spoken(toks)) :
       /\ b # <<>> /\ Closed(b) /\ Lacks(b, {"and", "or"}) /\ (h[b] <=> h[w])
       /\ \A more : Lengthens(more, args) => Bound(sql, more) = b

BindsByParts(P, R, args) ==
  \A a, b \in Seq(P) : Bound(a, args) \in Seq(R) /\ Bound(b, args) \in Seq(R) =>
    Bound(a \o b, args) = Bound(a, args) \o Bound(b, args)
\* Arguments are put in place part by part.
LEMMA BoundGlued ==
  ASSUME NEW P, NEW R, NEW args
  PROVE  BindsByParts(P, R, args)
<1> SUFFICES ASSUME NEW a \in Seq(P), NEW b \in Seq(P), Bound(a, args) \in Seq(R), Bound(b, args) \in Seq(R)
             PROVE  Bound(a \o b, args) = Bound(a, args) \o Bound(b, args)
  BY DEF BindsByParts
<1> DEFINE x == Bound(a, args)
           y == Bound(b, args)
<1>0. x \in Seq(R) /\ y \in Seq(R)
  OBVIOUS
<1> DEFINE At(tok) == IF tok.kind = "param" THEN args[tok.value] ELSE tok
<1>1. /\ Len(a) \in Nat /\ Len(b) \in Nat /\ Len(a \o b) = Len(a) + Len(b)
      /\ DOMAIN a = 1..Len(a) /\ DOMAIN b = 1..Len(b) /\ DOMAIN (a \o b) = 1..(Len(a) + Len(b))
      /\ \A k \in 1..Len(a) : (a \o b)[k] = a[k]
      /\ \A k \in 1..Len(b) : (a \o b)[Len(a) + k] = b[k]
  OBVIOUS
<1>2. /\ \A s : Bound(s, args) = [k \in DOMAIN s |-> At(s[k])]
  BY DEF Bound
<1> HIDE DEF At
<1>3. x = [k \in 1..Len(a) |-> At(a[k])] /\ y = [k \in 1..Len(b) |-> At(b[k])]
  BY <1>1, <1>2
<1> HIDE DEF x, y
<1>4. Len(x) = Len(a) /\ Len(y) = Len(b)
  BY <1>0, <1>1, <1>3
<1>5. Bound(a \o b, args) = [k \in 1..(Len(a) + Len(b)) |-> At((a \o b)[k])]
  BY <1>1, <1>2
<1> DEFINE z == x \o y
<1>6. z \in Seq(R) /\ Len(z) = Len(a) + Len(b) /\ DOMAIN z = 1..(Len(a) + Len(b))
      /\ (\A k \in 1..Len(a) : z[k] = x[k]) /\ (\A k \in 1..Len(b) : z[Len(a) + k] = y[k])
  <2>1. /\ x \o y \in Seq(R) /\ Len(x \o y) = Len(x) + Len(y) /\ DOMAIN (x \o y) = 1..(Len(x) + Len(y))
        /\ \A k \in 1..Len(x) : (x \o y)[k] = x[k]
        /\ \A k \in 1..Len(y) : (x \o y)[Len(x) + k] = y[k]
    BY <1>0
  <2> QED
    BY <1>4, <2>1
<1> HIDE DEF z
<1>7. ASSUME NEW k \in 1..(Len(a) + Len(b)) PROVE z[k] = At((a \o b)[k])
  <2>1. CASE k <= Len(a)
    <3>1. k \in 1..Len(a)
      BY <1>1, <2>1
    <3> QED
      BY <1>1, <1>3, <1>6, <3>1
  <2>2. CASE k > Len(a)
    <3>1. k - Len(a) \in 1..Len(b) /\ Len(a) + (k - Len(a)) = k
      BY <1>1, <2>2
    <3>2. z[k] = y[k - Len(a)] /\ (a \o b)[k] = b[k - Len(a)]
      BY <1>1, <1>6, <3>1
    <3> QED
      BY <1>3, <3>1, <3>2
  <2> QED
    BY <1>1, <2>1, <2>2
<1>8. z = [k \in 1..(Len(a) + Len(b)) |-> z[k]]
  <2>1. z \in [1..Len(z) -> R]
    BY <1>6
  <2> QED
    BY <1>6, <2>1
<1> QED
  BY <1>5, <1>7, <1>8 DEF x, y, z

\* There is nothing to put in place of a mark.
LEMMA BoundMark ==
  ASSUME NEW tok, tok.kind # "param", NEW args
  PROVE  Bound(<<tok>>, args) = <<tok>>
<1>1. DOMAIN <<tok>> = {1} /\ <<tok>>[1] = tok
  OBVIOUS
<1>2. <<tok>> = [k \in {1} |-> tok]
  OBVIOUS
<1> QED
  BY <1>1, <1>2 DEF Bound

\* The marks of SQL belong to its alphabet.
LEMMA MarksSpoken ==
  ASSUME NEW toks, NEW kind, kind \in {"in", "lparen", "rparen", "comma", "and", "or"}
  PROVE  Mark(kind) \in Spoken(toks) /\ Mark(kind) \in Clauses(toks) /\ Mark(kind).kind = kind
<1>1. Mark(kind) \in Spoken(toks)
  BY DEF Spoken
<1> QED
  BY <1>1 DEF Clauses, Mark, Token

\* AND and OR of what has a meaning.
LEMMA PairMeans ==
  ASSUME NEW toks, NEW passed, NEW h, Reader(Spoken(toks), passed, h),
         NEW kind \in {"and", "or"}, NEW w1, NEW w2, NEW w, NEW sql1, NEW sql2, NEW args1, NEW args2,
         Means(toks, h, w1, sql1, args1), Means(toks, h, w2, sql2, args2), Lengthens(args2, args1),
         kind = "and" => (h[w] <=> h[w1] /\ h[w2]),
         kind = "or" => (h[w] <=> h[w1] \/ h[w2])
  PROVE  Means(toks, h, w, Pair(kind, sql1, sql2), args2)
<1> DEFINE A == Spoken(toks)
           P == Clauses(toks)
           l == Mark("lparen")
           r == Mark("rparen")
           t == Mark(kind)
<1>1. PICK b1 \in Seq(A) :
        /\ b1 # <<>> /\ Closed(b1) /\ Lacks(b1, {"and", "or"}) /\ (h[b1] <=> h[w1])
        /\ \A more : Lengthens(more, args1) => Bound(sql1, more) = b1
  BY DEF Means
<1>2. PICK b2 \in Seq(A) :
        /\ b2 # <<>> /\ Closed(b2) /\ Lacks(b2, {"and", "or"}) /\ (h[b2] <=> h[w2])
        /\ \A more : Lengthens(more, args2) => Bound(sql2, more) = b2
  BY DEF Means
<1>3. sql1 \in Seq(P) /\ sql2 \in Seq(P)
  BY DEF Means
<1>4. /\ l \in A /\ r \in A /\ t \in A /\ l \in P /\ r \in P /\ t \in P
      /\ l.kind = "lparen" /\ r.kind = "rparen" /\ t.kind = kind
  BY MarksSpoken
<1> HIDE DEF A, P, l, r, t
<1> DEFINE c == b1 \o <<t>> \o b2
           b == <<l>> \o c \o <<r>>
<1>5. c \in Seq(A) /\ c # <<>> /\ Closed(c)
  <2>1. c \in Seq(A) /\ Closed(c)
    BY <1>1, <1>2, <1>4, Between
  <2> QED
    BY <1>1, <1>4, <2>1
<1>6. Reader(A, passed, h) /\ (kind = "and" \/ kind = "or")
  BY DEF A
<1>7. h[c] <=> h[w]
  <2>1. CASE kind = "and"
    <3>1. Lacks(b1, {"or"}) /\ Lacks(b2, {"or"}) /\ Lacks(b2, {"and"})
      BY <1>1, <1>2 DEF Lacks
    <3>2. h[c] <=> (h[b1] /\ h[b2])
      BY <1>1, <1>2, <1>4, <1>6, <2>1, <3>1, JoinedByAnd
    <3> QED
      BY <1>1, <1>2, <2>1, <3>2
  <2>2. CASE kind = "or"
    <3>1. Lacks(b2, {"or"})
      BY <1>2 DEF Lacks
    <3>2. h[c] <=> (h[b1] \/ h[b2])
      BY <1>1, <1>2, <1>4, <1>6, <2>2, <3>1, JoinedByOr
    <3> QED
      BY <1>1, <1>2, <2>2, <3>2
  <2> QED
    BY <1>6, <2>1, <2>2
<1> HIDE DEF c
<1>8. b \in Seq(A) /\ Closed(b) /\ Lacks(b, {"and", "or"})
  BY <1>4, <1>5, Wrapped
<1>9. b # <<>>
  BY <1>4, <1>5
<1>10. h[b] <=> h[w]
  <2>1. h[b] <=> h[c]
    BY <1>4, <1>5, <1>6, InParentheses
  <2> QED
    BY <1>7, <2>1
<1>11. b = <<l>> \o b1 \o <<t>> \o b2 \o <<r>>
  BY <1>1, <1>2, <1>4 DEF c
<1>12. ASSUME NEW more, Lengthens(more, args2)
       PROVE  Bound(Pair(kind, sql1, sql2), more) = b
  <2>1. Lengthens(more, args1)
    BY <1>12 DEF Lengthens
  <2>2. Bound(sql1, more) = b1 /\ Bound(sql2, more) = b2
    BY <1>1, <1>2, <1>12, <2>1
  <2> DEFINE lp == <<l>>
             tp == <<t>>
             rp == <<r>>
  <2>3. /\ Bound(lp, more) = lp /\ Bound(tp, more) = tp /\ Bound(rp, more) = rp
        /\ lp \in Seq(P) /\ tp \in Seq(P) /\ rp \in Seq(P)
        /\ lp \in Seq(A) /\ tp \in Seq(A) /\ rp \in Seq(A)
    BY <1>4, BoundMark
  <2>4. \A x, y \in Seq(P) : Bound(x, more) \in Seq(A) /\ Bound(y, more) \in Seq(A) =>
          Bound(x \o y, more) = Bound(x, more) \o Bound(y, more)
    <3>1. BindsByParts(P, A, more)
      BY BoundGlued
    <3> QED
      BY <3>1 DEF BindsByParts
  <2>11. b = lp \o b1 \o tp \o b2 \o rp /\ Pair(kind, sql1, sql2) = lp \o sql1 \o tp \o sql2 \o rp
    BY <1>11 DEF Pair, l, r, t
  <2> HIDE DEF lp, tp, rp, b
  <2>5. Bound(lp \o sql1, more) = lp \o b1
    BY <1>3, <2>2, <2>3, <2>4
  <2>6. lp \o sql1 \in Seq(P) /\ lp \o b1 \in Seq(A)
    BY <1>3, <2>3
  <2>7. Bound(lp \o sql1 \o tp, more) = lp \o b1 \o tp
    BY <2>3, <2>4, <2>5, <2>6
  <2>8. lp \o sql1 \o tp \in Seq(P) /\ lp \o b1 \o tp \in Seq(A)
    BY <2>3, <2>6
  <2>9. Bound(lp \o sql1 \o tp \o sql2, more) = lp \o b1 \o tp \o b2
    BY <1>3, <2>2, <2>4, <2>7, <2>8
  <2>10. lp \o sql1 \o tp \o sql2 \in Seq(P) /\ lp \o b1 \o tp \o b2 \in Seq(A)
    BY <1>3, <2>8
  <2>12. Bound(lp \o sql1 \o tp \o sql2 \o rp, more) = lp \o b1 \o tp \o b2 \o rp
    BY <2>3, <2>4, <2>9, <2>10
  <2> QED
    BY <2>11, <2>12
<1>13. Pair(kind, sql1, sql2) \in Seq(P)
  <2>1. Pair(kind, sql1, sql2) = <<l>> \o sql1 \o <<t>> \o sql2 \o <<r>>
    BY DEF Pair, l, r, t
  <2> QED
    BY <1>3, <1>4, <2>1
<1> HIDE DEF b
<1> QED
  BY <1>8, <1>9, <1>10, <1>12, <1>13 DEF Means, A, P

\* The tokens from i to j; three of them.
Span(A, s, i, j, v) == v \in Seq(A) /\ Len(v) = j - i + 1 /\ \A k \in 1..(j - i + 1) : v[k] = s[i + k - 1]
Three(A, s, i, v) ==
  /\ v \in Seq(A) /\ Len(v) = 3 /\ v[1] = s[i] /\ v[2] = s[i + 1] /\ v[3] = s[i + 2]
  /\ (i + 3) - 1 = i + 2 /\ i + 3 \in Nat /\ i < i + 3

LEMMA SpanOf ==
  ASSUME NEW A, NEW s \in Seq(A), NEW i \in Nat, NEW j \in Nat, i >= 1, i <= j, j <= Len(s)
  PROVE  Span(A, s, i, j, SubSeq(s, i, j))
<1> DEFINE v == SubSeq(s, i, j)
<1>1. v \in Seq(A) /\ Len(v) = j - i + 1
  OBVIOUS
<1>2. \A k \in 1..(j - i + 1) : v[k] = s[i + k - 1]
  OBVIOUS
<1> HIDE DEF v
<1>3. Span(A, s, i, j, v)
  BY <1>1, <1>2 DEF Span
<1> QED
  BY <1>3 DEF v

LEMMA ThreeOf ==
  ASSUME NEW A, NEW s \in Seq(A), NEW i \in Nat, i \in DOMAIN s, i + 2 \in DOMAIN s
  PROVE  Three(A, s, i, SubSeq(s, i, i + 2))
<1> DEFINE v == SubSeq(s, i, i + 2)
<1>1. i + 2 \in Nat /\ i >= 1 /\ i <= i + 2 /\ i + 2 <= Len(s) /\ (i + 2) - i + 1 = 3
  OBVIOUS
<1>2. Span(A, s, i, i + 2, v)
  BY <1>1, SpanOf
<1> HIDE DEF v
<1>3. v \in Seq(A) /\ Len(v) = 3 /\ \A k \in 1..3 : v[k] = s[i + k - 1]
  BY <1>1, <1>2 DEF Span
<1>4. i + 1 - 1 = i /\ i + 2 - 1 = i + 1 /\ i + 3 - 1 = i + 2
  OBVIOUS
<1>5. 1 \in 1..3 /\ 2 \in 1..3 /\ 3 \in 1..3
  OBVIOUS
<1>6. v[1] = s[i] /\ v[2] = s[i + 1] /\ v[3] = s[i + 2]
  BY <1>3, <1>4, <1>5
<1>7. Three(A, s, i, v)
  BY <1>3, <1>6 DEF Three
<1> QED
  BY <1>7 DEF v

\* What a call at i that succeeds has read: its meaning, and nothing of the kinds given outside
\* parentheses.
Carried(toks, h, kinds, i, args, x) ==
  \/ x = Failed
  \/ \E sql, p, more :
       /\ x = Read(sql, p, more)
       /\ i \in DOMAIN toks /\ p - 1 \in DOMAIN toks /\ p \in Nat /\ i < p
       /\ more \in Seq(ToSet(toks)) /\ Lengthens(more, args)
       /\ Closed(SubSeq(toks, i, p - 1)) /\ Lacks(SubSeq(toks, i, p - 1), kinds)
       /\ Means(toks, h, SubSeq(toks, i, p - 1), sql, more)

\* The same test, in the filter and in SQL.
LEMMA SameTest ==
  ASSUME NEW toks, NEW passed, NEW h, Reader(Spoken(toks), passed, h), NEW args,
         NEW w \in Seq(Spoken(toks)), NEW b \in Seq(Spoken(toks)), NEW sql \in Seq(Clauses(toks)),
         Lacks(w, {"and", "or"}), w[1].kind # "lparen",
         b # <<>>, Closed(b), Lacks(b, {"and", "or"}), b[1].kind # "lparen",
         Test(w) = Test(b), \A more : Lengthens(more, args) => Bound(sql, more) = b
  PROVE  Means(toks, h, w, sql, args)
<1>1. h[w] <=> Test(w) \in passed
  BY Tested
<1>2. h[b] <=> Test(b) \in passed
  BY Tested
<1>3. h[b] <=> h[w]
  BY <1>1, <1>2
<1> QED
  BY <1>3 DEF Means

\* An argument more: those before it keep their places.
LEMMA OneMoreArgument ==
  ASSUME NEW A, NEW args \in Seq(A), NEW x \in A
  PROVE  /\ Append(args, x) \in Seq(A) /\ Lengthens(Append(args, x), args)
         /\ \A more : Lengthens(more, Append(args, x)) => more[Len(args) + 1] = x
<1>1. /\ Append(args, x) \in Seq(A) /\ DOMAIN Append(args, x) = 1..(Len(args) + 1)
      /\ DOMAIN args = 1..Len(args) /\ Len(args) \in Nat /\ Append(args, x)[Len(args) + 1] = x
      /\ \A k \in 1..Len(args) : Append(args, x)[k] = args[k]
  OBVIOUS
<1>2. Lengthens(Append(args, x), args)
  BY <1>1 DEF Lengthens
<1>3. Len(args) + 1 \in DOMAIN Append(args, x)
  BY <1>1
<1> QED
  BY <1>1, <1>2, <1>3 DEF Lengthens

\* So do the tokens of the filter, and the SQL for each.
LEMMA SpokenTokens ==
  ASSUME NEW T, NEW toks \in Seq(T), NEW k \in DOMAIN toks
  PROVE  /\ toks[k] \in ToSet(toks) /\ toks[k] \in Spoken(toks) /\ toks[k] \in Clauses(toks)
         /\ toks[k].value \in Columns => /\ Column(toks[k].value) \in Spoken(toks)
                                         /\ Column(toks[k].value) \in Clauses(toks)
         /\ Token("op", toks[k].value) \in Spoken(toks) /\ Token("op", toks[k].value) \in Clauses(toks)
         /\ \A b \in BOOLEAN : Token("is", b) \in Spoken(toks) /\ Token("is", b) \in Clauses(toks)
         /\ \A n \in Nat : Param(n) \in Clauses(toks)
         /\ toks \in Seq(Spoken(toks))
<1>1. toks[k] \in ToSet(toks)
  BY DEF ToSet
<1>2. toks \in Seq(ToSet(toks))
  BY DEF ToSet
<1>3. ToSet(toks) \subseteq Spoken(toks)
  BY DEF Spoken
<1>4. toks \in Seq(Spoken(toks))
  BY <1>2, <1>3
<1>5. /\ toks[k].value \in Columns => Column(toks[k].value) \in Spoken(toks)
      /\ Token("op", toks[k].value) \in Spoken(toks)
      /\ \A b \in BOOLEAN : Token("is", b) \in Spoken(toks)
  BY DEF Spoken
<1> QED
  BY <1>1, <1>3, <1>4, <1>5 DEF Clauses

\* A column, an operator and a value.
LEMMA ComparedMeans ==
  ASSUME NEW T, NEW toks \in Seq(T), NEW passed, NEW h, Reader(Spoken(toks), passed, h),
         NEW args \in Seq(ToSet(toks)), NEW i \in Nat, i \in DOMAIN toks, i + 1 \in DOMAIN toks, i + 2 \in DOMAIN toks,
         toks[i].kind = "ident", toks[i].value \in Columns, toks[i + 1].kind = "op", toks[i + 2].kind = "value"
  PROVE  Carried(toks, h, {"and", "or"}, i, args,
                 Read(Compared(toks[i].value, toks[i + 1].value, Len(args) + 1), i + 3, Append(args, toks[i + 2])))
<1> DEFINE A == Spoken(toks)
           c == Column(toks[i].value)
           o == Token("op", toks[i + 1].value)
           v == toks[i + 2]
           w == SubSeq(toks, i, i + 2)
           n == Len(args) + 1
           sql == Compared(toks[i].value, toks[i + 1].value, n)
           b == <<c, o, v>>
<1>1. /\ c \in A /\ o \in A /\ v \in A /\ v \in ToSet(toks) /\ toks \in Seq(A)
      /\ c \in Clauses(toks) /\ o \in Clauses(toks) /\ n \in Nat /\ Param(n) \in Clauses(toks)
  BY SpokenTokens
<1>2. /\ c.kind = "ident" /\ c.value = toks[i].value /\ o.kind = "op" /\ o.value = toks[i + 1].value
      /\ Param(n).kind = "param" /\ Param(n).value = n
  BY DEF Column, Token, Param
<1>3. /\ w \in Seq(A) /\ Len(w) = 3 /\ w[1] = toks[i] /\ w[2] = toks[i + 1] /\ w[3] = v
      /\ (i + 3) - 1 = i + 2 /\ i + 3 \in Nat /\ i < i + 3
  <2>1. Three(A, toks, i, w)
    BY <1>1, ThreeOf
  <2> HIDE DEF w
  <2> QED
    BY <2>1 DEF Three
<1>4. sql = <<c, o, Param(n)>>
  BY DEF Compared
<1> HIDE DEF c, o, v, w, n, sql
<1>5. b \in Seq(A) /\ Len(b) = 3 /\ b[1] = c /\ b[2] = o /\ b[3] = v /\ b # <<>>
  BY <1>1
<1>6. sql \in Seq(Clauses(toks)) /\ Len(sql) = 3 /\ sql[1] = c /\ sql[2] = o /\ sql[3] = Param(n)
  BY <1>1, <1>4
<1> HIDE DEF b
<1>7. v.kind = "value"
  BY DEF v
<1>8. Closed(w) /\ Lacks(w, {"and", "or"})
  <2>1. \A k \in DOMAIN w : k = 1 \/ k = 2 \/ k = 3
    BY <1>3
  <2>2. \A k \in DOMAIN w : w[k].kind \in {"ident", "op", "value"}
    BY <1>3, <1>7, <2>1
  <2> QED
    BY <1>3, <2>2, Flat
<1>9. Closed(b) /\ Lacks(b, {"and", "or"})
  <2>1. \A k \in DOMAIN b : k = 1 \/ k = 2 \/ k = 3
    BY <1>5
  <2>2. \A k \in DOMAIN b : b[k].kind \in {"ident", "op", "value"}
    BY <1>2, <1>5, <1>7, <2>1
  <2> QED
    BY <1>5, <2>2, Flat
<1>10. Test(w) = Test(b)
  <2>1. DOMAIN w = 1..3 /\ DOMAIN b = 1..3 /\ \A k \in 1..3 : k = 1 \/ k = 2 \/ k = 3
    BY <1>3, <1>5
  <2>2. Test(w) = [k \in 1..3 |-> Sense(w[k])]
    BY <1>3, <1>7, <2>1 DEF Test
  <2>3. Test(b) = [k \in 1..3 |-> Sense(b[k])]
    BY <1>5, <1>7, <2>1 DEF Test
  <2>4. \A k \in 1..3 : Sense(w[k]) = Sense(b[k])
    BY <1>2, <1>3, <1>5, <2>1 DEF Sense
  <2> QED
    BY <2>2, <2>3, <2>4
<1> DEFINE args2 == Append(args, v)
<1>11. /\ args2 \in Seq(ToSet(toks)) /\ Lengthens(args2, args)
       /\ \A more : Lengthens(more, args2) => more[n] = v
  BY <1>1, OneMoreArgument DEF n
<1> HIDE DEF args2
<1>12. ASSUME NEW more, Lengthens(more, args2) PROVE Bound(sql, more) = b
  <2>1. more[n] = v
    BY <1>11, <1>12
  <2>2. DOMAIN sql = 1..3 /\ DOMAIN b = 1..3 /\ \A k \in 1..3 : k = 1 \/ k = 2 \/ k = 3
    BY <1>5, <1>6
  <2>3. Bound(sql, more) = [k \in 1..3 |-> IF sql[k].kind = "param" THEN more[sql[k].value] ELSE sql[k]]
    BY <2>2 DEF Bound
  <2>4. \A k \in 1..3 : (IF sql[k].kind = "param" THEN more[sql[k].value] ELSE sql[k]) = b[k]
    BY <1>2, <1>5, <1>6, <2>1, <2>2
  <2>5. b = [k \in 1..3 |-> b[k]]
    BY <1>5, <2>2
  <2> QED
    BY <2>3, <2>4, <2>5
<1>13. w[1].kind # "lparen" /\ b[1].kind # "lparen"
  BY <1>2, <1>3, <1>5
<1>14. Means(toks, h, w, sql, args2)
  BY <1>3, <1>5, <1>6, <1>8, <1>9, <1>10, <1>12, <1>13, SameTest DEF A
<1> DEFINE p == i + 3
<1>15. p \in Nat /\ i < p /\ p - 1 = i + 2
  BY <1>3
<1> HIDE DEF p
<1>16. Carried(toks, h, {"and", "or"}, i, args, Read(sql, p, args2))
  BY <1>8, <1>11, <1>14, <1>15 DEF Carried, w
<1> QED
  BY <1>16 DEF sql, n, p, args2, v

\* A column compared with null.
LEMMA NullMeans ==
  ASSUME NEW T, NEW toks \in Seq(T), NEW passed, NEW h, Reader(Spoken(toks), passed, h),
         NEW args \in Seq(ToSet(toks)), NEW i \in Nat, i \in DOMAIN toks, i + 1 \in DOMAIN toks, i + 2 \in DOMAIN toks,
         toks[i].kind = "ident", toks[i].value \in Columns, toks[i + 1].kind = "op", toks[i + 2].kind = "null"
  PROVE  Carried(toks, h, {"and", "or"}, i, args,
                 Read(<<Column(toks[i].value), Token("is", toks[i + 1].value = Equal)>>, i + 3, args))
<1> DEFINE A == Spoken(toks)
           c == Column(toks[i].value)
           is == toks[i + 1].value = Equal
           o == Token("is", is)
           w == SubSeq(toks, i, i + 2)
           b == <<c, o>>
<1>0. is \in BOOLEAN
  OBVIOUS
<1>1. c \in A /\ o \in A /\ toks \in Seq(A) /\ c \in Clauses(toks) /\ o \in Clauses(toks)
  BY <1>0, SpokenTokens
<1>2. c.kind = "ident" /\ c.value = toks[i].value /\ o.kind = "is" /\ o.value = is
  BY DEF Column, Token
<1>3. /\ w \in Seq(A) /\ Len(w) = 3 /\ w[1] = toks[i] /\ w[2] = toks[i + 1] /\ w[3] = toks[i + 2]
      /\ (i + 3) - 1 = i + 2 /\ i + 3 \in Nat /\ i < i + 3
  <2>1. Three(A, toks, i, w)
    BY <1>1, ThreeOf
  <2> HIDE DEF w
  <2> QED
    BY <2>1 DEF Three
<1> HIDE DEF c, o, w
<1>5. b \in Seq(A) /\ Len(b) = 2 /\ b[1] = c /\ b[2] = o /\ b # <<>> /\ b \in Seq(Clauses(toks))
  BY <1>1
<1> HIDE DEF b
<1>8. Closed(w) /\ Lacks(w, {"and", "or"})
  <2>1. \A k \in DOMAIN w : k = 1 \/ k = 2 \/ k = 3
    BY <1>3
  <2>2. \A k \in DOMAIN w : w[k].kind \in {"ident", "op", "null"}
    BY <1>3, <2>1
  <2> QED
    BY <1>3, <2>2, Flat
<1>9. Closed(b) /\ Lacks(b, {"and", "or"})
  <2>1. \A k \in DOMAIN b : k = 1 \/ k = 2
    BY <1>5
  <2>2. \A k \in DOMAIN b : b[k].kind \in {"ident", "is"}
    BY <1>2, <1>5, <2>1
  <2> QED
    BY <1>5, <2>2, Flat
<1>10. Test(w) = Test(b)
  <2>2. Test(w) = <<w[1].value, "is", w[2].value = Equal>>
    BY <1>3 DEF Test
  <2>3. Test(b) = <<b[1].value, "is", b[2].value>>
    BY <1>5 DEF Test
  <2> QED
    BY <1>2, <1>3, <1>5, <2>2, <2>3 DEF is
<1>12. ASSUME NEW more PROVE Bound(b, more) = b
  <2>2. DOMAIN b = 1..2 /\ \A k \in 1..2 : k = 1 \/ k = 2
    BY <1>5
  <2>3. Bound(b, more) = [k \in 1..2 |-> IF b[k].kind = "param" THEN more[b[k].value] ELSE b[k]]
    BY <2>2 DEF Bound
  <2>4. \A k \in 1..2 : (IF b[k].kind = "param" THEN more[b[k].value] ELSE b[k]) = b[k]
    BY <1>2, <1>5, <2>2
  <2>5. b = [k \in 1..2 |-> b[k]]
    BY <1>5, <2>2
  <2> QED
    BY <2>3, <2>4, <2>5
<1>13. w[1].kind # "lparen" /\ b[1].kind # "lparen"
  BY <1>2, <1>3, <1>5
<1>14. Means(toks, h, w, b, args)
  BY <1>3, <1>5, <1>8, <1>9, <1>10, <1>12, <1>13, SameTest DEF A
<1> DEFINE p == i + 3
<1>15. p \in Nat /\ i < p /\ p - 1 = i + 2 /\ Lengthens(args, args)
  BY <1>3 DEF Lengthens
<1> HIDE DEF p
<1>16. Carried(toks, h, {"and", "or"}, i, args, Read(b, p, args))
  BY <1>8, <1>14, <1>15 DEF Carried, w
<1> QED
  BY <1>16 DEF b, c, o, p

\* Without parameters there is nothing to put in place.
LEMMA BoundFree ==
  ASSUME NEW A, NEW s \in Seq(A), \A k \in DOMAIN s : s[k].kind # "param", NEW args
  PROVE  Bound(s, args) = s
<1>1. Bound(s, args) = [k \in DOMAIN s |-> IF s[k].kind = "param" THEN args[s[k].value] ELSE s[k]]
  BY DEF Bound
<1>2. \A k \in DOMAIN s : (IF s[k].kind = "param" THEN args[s[k].value] ELSE s[k]) = s[k]
  OBVIOUS
<1>3. s = [k \in DOMAIN s |-> s[k]]
  OBVIOUS
<1> QED
  BY <1>1, <1>2, <1>3

\* An IN list: a column, IN and the list in parentheses.
InSpan(c, o, l, list, r) == <<c, o>> \o (<<l>> \o list \o <<r>>)

InSpanIs(A, c, o, l, list, r, s) ==
  /\ s \in Seq(A) /\ Len(s) = Len(list) + 4
  /\ s[1] = c /\ s[2] = o /\ s[3] = l /\ s[Len(list) + 4] = r
  /\ \A k \in 1..Len(list) : s[3 + k] = list[k]
SenseAt(c, o, l, list, r, k) ==
  IF k = 1 THEN Sense(c) ELSE IF k = 2 THEN Sense(o) ELSE IF k = 3 THEN Sense(l)
  ELSE IF k = Len(list) + 4 THEN Sense(r) ELSE Sense(list[k - 3])
TestsList(c, o, l, list, r, s) ==
  Test(s) = [k \in 1..(Len(list) + 4) |-> SenseAt(c, o, l, list, r, k)]

Items(list) == \A k \in DOMAIN list : list[k].kind \in {"value", "null", "comma"}
IsTest(A, s) ==
  s \in Seq(A) /\ s # <<>> /\ Closed(s) /\ Lacks(s, {"and", "or"}) /\ s[1].kind # "lparen"

\* What an IN list consists of,
LEMMA InSpanOf ==
  ASSUME NEW A, NEW c \in A, NEW o \in A, NEW l \in A, NEW list \in Seq(A), NEW r \in A
  PROVE  InSpanIs(A, c, o, l, list, r, InSpan(c, o, l, list, r))
  BY DEF InSpan, InSpanIs

InParts(c, o, l, list, r) == InSpan(c, o, l, list, r) = <<c, o, l>> \o list \o <<r>>

\* written in one piece,
LEMMA InSpanParts ==
  ASSUME NEW A, NEW c \in A, NEW o \in A, NEW l \in A, NEW list \in Seq(A), NEW r \in A
  PROVE  InParts(c, o, l, list, r)
  BY DEF InSpan, InParts

\* and what it tests.
LEMMA ListSpan ==
  ASSUME NEW A, NEW c \in A, NEW o \in A, NEW l \in A, NEW list \in Seq(A), NEW r \in A,
         c.kind = "ident", o.kind = "in", l.kind = "lparen", r.kind = "rparen",
         Items(list)
  PROVE  /\ IsTest(A, InSpan(c, o, l, list, r))
         /\ TestsList(c, o, l, list, r, InSpan(c, o, l, list, r))
<1> DEFINE head == <<c, o>>
           tail == <<l>> \o list \o <<r>>
           s == head \o tail
<1>1. Closed(list)
  BY Flat DEF Items
<1>2. tail \in Seq(A) /\ Closed(tail) /\ Lacks(tail, {"and", "or"})
  BY <1>1, Wrapped
<1>3. head \in Seq(A) /\ Len(head) = 2 /\ head[1] = c /\ head[2] = o /\ DOMAIN head = 1..2
  OBVIOUS
<1> HIDE DEF head, tail
<1>5. Closed(head) /\ Lacks(head, {"and", "or"})
  <2>1. \A k \in DOMAIN head : k = 1 \/ k = 2
    BY <1>3
  <2>2. \A k \in DOMAIN head : head[k].kind \in {"ident", "in"}
    BY <1>3, <2>1
  <2> QED
    BY <1>3, <2>2, Flat
<1>6. s \in Seq(A) /\ Closed(s) /\ Lacks(s, {"and", "or"})
  BY <1>2, <1>3, <1>5, Glued
<1>4. s = InSpan(c, o, l, list, r) /\ Len(list) \in Nat
  BY DEF InSpan, head, tail
<1> HIDE DEF s
<1>7. /\ Len(s) = Len(list) + 4 /\ s[1] = c /\ s[2] = o /\ s[3] = l /\ s[Len(list) + 4] = r
      /\ \A k \in 1..Len(list) : s[3 + k] = list[k]
  <2>1. InSpanIs(A, c, o, l, list, r, s)
    BY <1>4, InSpanOf
  <2> QED
    BY <2>1 DEF InSpanIs
<1>8. DOMAIN s = 1..(Len(list) + 4)
  BY <1>6, <1>7
<1>9. \A k \in 4..(Len(list) + 3) : s[k] = list[k - 3]
  <2> SUFFICES ASSUME NEW k \in 4..(Len(list) + 3) PROVE s[k] = list[k - 3]
    OBVIOUS
  <2>1. k - 3 \in 1..Len(list) /\ 3 + (k - 3) = k
    BY <1>4
  <2> QED
    BY <1>7, <2>1
<1>10. Test(s) = [k \in DOMAIN s |-> Sense(s[k])]
  <2>1. Len(s) # 2 /\ Len(s) # 3
    BY <1>4, <1>7
  <2> QED
    BY <2>1 DEF Test
<1>11. \A k \in 1..(Len(list) + 4) : Sense(s[k]) = SenseAt(c, o, l, list, r, k)
  <2> SUFFICES ASSUME NEW k \in 1..(Len(list) + 4) PROVE Sense(s[k]) = SenseAt(c, o, l, list, r, k)
    OBVIOUS
  <2>1. CASE k \in {1, 2, 3, Len(list) + 4}
    BY <1>7, <2>1 DEF SenseAt
  <2>2. CASE k \notin {1, 2, 3, Len(list) + 4}
    <3>1. k \in 4..(Len(list) + 3)
      BY <1>4, <2>2
    <3> QED
      BY <1>9, <2>2, <3>1 DEF SenseAt
  <2> QED
    BY <2>1, <2>2
<1>12. s # <<>>
  BY <1>4, <1>7
<1>13. TestsList(c, o, l, list, r, s)
  BY <1>8, <1>10, <1>11 DEF TestsList
<1>14. IsTest(A, s)
  BY <1>6, <1>7, <1>12 DEF IsTest
<1> QED
  BY <1>4, <1>13, <1>14

\* IN with a list of values.
LEMMA ListMeans ==
  ASSUME NEW T, NEW toks \in Seq(T), NEW passed, NEW h, Reader(Spoken(toks), passed, h),
         NEW args \in Seq(ToSet(toks)), NEW i \in Nat, NEW j \in DOMAIN toks, NEW x,
         IsComparison(toks, i, j), KindAt(toks, i + 1) = "in", ListAt(toks, i, j, toks[i].value, args, x)
  PROVE  Carried(toks, h, {"and", "or"}, i, args, x)
<1> DEFINE A == Spoken(toks)
           P == Clauses(toks)
           N == Len(toks)
<1>1. PICK n \in Nat : /\ n > 0 /\ j = i + 2 * n + 2
                       /\ x = Read(Listed(toks[i].value, Len(args), n), j + 1,
                                   args \o [k \in 1..n |-> toks[(i + 3) + 2 * k - 2]])
  BY DEF ListAt
<1>2. N \in Nat /\ DOMAIN toks = 1..N
  OBVIOUS
<1>3. /\ KindAt(toks, i) = "ident" /\ toks[i].value \in Columns
      /\ KindAt(toks, i + 2) = "lparen" /\ KindAt(toks, j) = "rparen"
      /\ \A k \in (i + 3)..(j - 1) :
           IF (k - i) % 2 = 1 THEN IsValue(toks[k].kind) ELSE toks[k].kind = "comma"
  BY DEF IsComparison
<1>4. /\ i \in DOMAIN toks /\ i + 1 \in DOMAIN toks /\ i + 2 \in DOMAIN toks
      /\ toks[i].kind = "ident" /\ toks[i + 1].kind = "in" /\ toks[i + 2].kind = "lparen" /\ toks[j].kind = "rparen"
  BY <1>3, KindsInside
<1> HIDE DEF N
<1> DEFINE L == 2 * n - 1
           list == SubSeq(toks, i + 3, j - 1)
           odd(k) == k % 2 = 1
           c == Column(toks[i].value)
           o == Mark("in")
           l == Mark("lparen")
           r == Mark("rparen")
           comma == Mark("comma")
           bl == [k \in 1..L |-> IF odd(k) THEN list[k] ELSE comma]
           values == [k \in 1..n |-> toks[(i + 3) + 2 * k - 2]]
           args2 == args \o values
           params == [k \in 1..L |-> IF odd(k) THEN Param(Len(args) + (k + 1) \div 2) ELSE comma]
<1>5. /\ toks \in Seq(A) /\ toks[i] \in A /\ toks[i + 1] \in A /\ toks[i + 2] \in A /\ toks[j] \in A
      /\ c \in A /\ o \in A /\ l \in A /\ r \in A /\ comma \in A
      /\ c \in P /\ o \in P /\ l \in P /\ r \in P /\ comma \in P
      /\ \A m \in Nat : Param(m) \in P
  BY <1>3, <1>4, SpokenTokens, MarksSpoken
<1>6. /\ c.kind = "ident" /\ c.value = toks[i].value /\ o.kind = "in" /\ l.kind = "lparen" /\ r.kind = "rparen"
      /\ comma.kind = "comma" /\ \A m : Param(m).kind = "param" /\ Param(m).value = m
  BY DEF Column, Mark, Token, Param
<1>7. L \in Nat /\ L > 0 /\ i + 3 \in 1..N /\ j - 1 \in 1..N /\ j = i + 3 + L /\ j \in Nat /\ i \in 1..N
  BY <1>1, <1>2, <1>4
<1>8. /\ list \in Seq(A) /\ Len(list) = L /\ DOMAIN list = 1..L
      /\ \A k \in 1..L : list[k] = toks[i + 2 + k]
  BY <1>2, <1>5, <1>7 DEF N
<1> HIDE DEF L, A, P, c, o, l, r, comma, list
\* What stands where.
<1>9. \A k \in 1..L : IF odd(k) THEN IsValue(list[k].kind) ELSE list[k].kind = "comma"
  <2> SUFFICES ASSUME NEW k \in 1..L PROVE IF odd(k) THEN IsValue(list[k].kind) ELSE list[k].kind = "comma"
    OBVIOUS
  <2>1. i + 2 + k \in (i + 3)..(j - 1) /\ k \in Int
    BY <1>7
  <2>2. ((i + 2 + k) - i) % 2 = 1 <=> k % 2 = 1
    <3>1. (i + 2 + k) - i = k + 2
      BY <2>1
    <3>2. PICK h2 \in Int : (k = 2 * h2 /\ k % 2 = 0) \/ (k = 2 * h2 + 1 /\ k % 2 = 1)
      BY <2>1, Halved
    <3>3. CASE k = 2 * h2 /\ k % 2 = 0
      <4>1. k + 2 = 2 * (h2 + 1) /\ h2 + 1 \in Int
        BY <3>3
      <4>2. (k + 2) % 2 = 0
        BY <4>1, Even
      <4> QED
        BY <3>1, <3>3, <4>2
    <3>4. CASE k = 2 * h2 + 1 /\ k % 2 = 1
      <4>1. k + 2 = 2 * (h2 + 1) + 1 /\ h2 + 1 \in Int
        BY <3>4
      <4>2. (k + 2) % 2 = 1
        BY <4>1, Even
      <4> QED
        BY <3>1, <3>4, <4>2
    <3> QED
      BY <3>2, <3>3, <3>4
  <2>3. list[k] = toks[i + 2 + k]
    BY <1>8
  <2> QED
    BY <1>3, <2>1, <2>2, <2>3
<1>10. Items(list)
  BY <1>8, <1>9 DEF IsValue, Items
<1>11. bl \in Seq(A) /\ Len(bl) = L /\ DOMAIN bl = 1..L /\ \A k \in 1..L : bl[k] = IF odd(k) THEN list[k] ELSE comma
  <2>1. \A k \in 1..L : (IF odd(k) THEN list[k] ELSE comma) \in A
    <3>1. \A k \in 1..L : list[k] \in A
      BY <1>8
    <3> QED
      BY <1>5, <3>1
  <2> HIDE DEF odd
  <2> QED
    BY <1>7, <2>1
<1>12. params \in Seq(P) /\ Len(params) = L /\ DOMAIN params = 1..L
       /\ \A k \in 1..L : params[k] = IF odd(k) THEN Param(Len(args) + (k + 1) \div 2) ELSE comma
  <2>1. \A k \in 1..L : (IF odd(k) THEN Param(Len(args) + (k + 1) \div 2) ELSE comma) \in P
    <3>1. \A k \in 1..L : Len(args) + (k + 1) \div 2 \in Nat
      BY <1>7
    <3> QED
      BY <1>5, <3>1
  <2> HIDE DEF odd
  <2> QED
    BY <1>7, <2>1
<1> DEFINE w == InSpan(toks[i], toks[i + 1], toks[i + 2], list, toks[j])
           b == InSpan(c, o, l, bl, r)
           sql == <<c, o, l>> \o params \o <<r>>
<1>13. IsTest(A, w) /\ TestsList(toks[i], toks[i + 1], toks[i + 2], list, toks[j], w)
  BY <1>4, <1>5, <1>8, <1>10, ListSpan
<1>14. Items(bl)
  BY <1>6, <1>8, <1>10, <1>11 DEF Items
<1>15. IsTest(A, b) /\ TestsList(c, o, l, bl, r, b)
  <2> HIDE DEF bl
  <2> QED
    BY <1>5, <1>6, <1>11, <1>14, ListSpan
<1>16. Test(w) = Test(b)
  <2>1. Sense(toks[i]) = Sense(c) /\ Sense(toks[i + 1]) = Sense(o) /\ Sense(toks[i + 2]) = Sense(l) /\ Sense(toks[j]) = Sense(r)
    BY <1>4, <1>6 DEF Sense
  <2>2. \A k \in 1..L : Sense(list[k]) = Sense(bl[k])
    BY <1>6, <1>9, <1>11 DEF Sense
  <2>3. \A k \in 1..(L + 4) : k \notin {1, 2, 3, L + 4} => k - 3 \in 1..L
    BY <1>7
  <2> HIDE DEF w, b, bl
  <2>4. \A k \in 1..(L + 4) : k \notin {1, 2, 3, L + 4} => Sense(list[k - 3]) = Sense(bl[k - 3])
    BY <2>2, <2>3
  <2>5. Len(bl) = L /\ Len(list) = L
    BY <1>8, <1>11
  <2>6. \A k \in 1..(L + 4) :
          SenseAt(toks[i], toks[i + 1], toks[i + 2], list, toks[j], k) = SenseAt(c, o, l, bl, r, k)
    <3> SUFFICES ASSUME NEW k \in 1..(L + 4)
                 PROVE  SenseAt(toks[i], toks[i + 1], toks[i + 2], list, toks[j], k) = SenseAt(c, o, l, bl, r, k)
      OBVIOUS
    <3>1. CASE k \in {1, 2, 3, L + 4}
      BY <2>1, <2>5, <3>1 DEF SenseAt
    <3>2. CASE k \notin {1, 2, 3, L + 4}
      BY <2>4, <2>5, <3>2 DEF SenseAt
    <3> QED
      BY <3>1, <3>2
  <2>7. Test(w) = [k \in 1..(L + 4) |-> SenseAt(toks[i], toks[i + 1], toks[i + 2], list, toks[j], k)]
    BY <1>13, <2>5 DEF TestsList
  <2>8. Test(b) = [k \in 1..(L + 4) |-> SenseAt(c, o, l, bl, r, k)]
    BY <1>15, <2>5 DEF TestsList
  <2> QED
    BY <2>6, <2>7, <2>8
\* What is bound to what.
<1>17. /\ args2 \in Seq(ToSet(toks)) /\ Lengthens(args2, args)
       /\ \A m \in 1..n : Len(args) + m \in DOMAIN args2 /\ args2[Len(args) + m] = toks[(i + 3) + 2 * m - 2]
  <2>1. \A m \in 1..n : toks[(i + 3) + 2 * m - 2] \in ToSet(toks)
    <3> SUFFICES ASSUME NEW m \in 1..n PROVE toks[(i + 3) + 2 * m - 2] \in ToSet(toks)
      OBVIOUS
    <3>1. (i + 3) + 2 * m - 2 \in DOMAIN toks
      BY <1>1, <1>2, <1>7
    <3> QED
      BY <3>1 DEF ToSet
  <2>2. values \in Seq(ToSet(toks)) /\ Len(values) = n
    BY <1>1, <2>1
  <2>3. \A m \in 1..n : values[m] = toks[(i + 3) + 2 * m - 2]
    OBVIOUS
  <2> HIDE DEF values
  <2>4. /\ args2 \in Seq(ToSet(toks)) /\ DOMAIN args = 1..Len(args) /\ Len(args) \in Nat
        /\ DOMAIN args2 = 1..(Len(args) + n)
        /\ \A k \in 1..Len(args) : args2[k] = args[k]
        /\ \A k \in 1..n : args2[Len(args) + k] = values[k]
    <3>1. Follows(ToSet(toks), args, values, args2)
      BY <2>2, FollowsOn
    <3> HIDE DEF args2
    <3> QED
      BY <2>2, <3>1 DEF Follows
  <2> HIDE DEF args2
  <2>5. Lengthens(args2, args)
    BY <2>4 DEF Lengthens
  <2>6. \A m \in 1..n : Len(args) + m \in DOMAIN args2
    BY <2>4
  <2> QED
    BY <2>3, <2>4, <2>5, <2>6
<1> HIDE DEF args2, values
<1>18. ASSUME NEW more, Lengthens(more, args2) PROVE Bound(sql, more) = b
  <2>1. \A m \in 1..n : more[Len(args) + m] = toks[(i + 3) + 2 * m - 2]
    BY <1>17, <1>18 DEF Lengthens
  <2>2. Bound(params, more) = bl
    <3>1. Bound(params, more)
            = [k \in 1..L |-> IF params[k].kind = "param" THEN more[params[k].value] ELSE params[k]]
      <4> HIDE DEF params
      <4> QED
        BY <1>12 DEF Bound
    <3>2. ASSUME NEW k \in 1..L
          PROVE  (IF params[k].kind = "param" THEN more[params[k].value] ELSE params[k])
                   = IF odd(k) THEN list[k] ELSE comma
      <4>1. params[k] = IF odd(k) THEN Param(Len(args) + (k + 1) \div 2) ELSE comma
        BY <1>12
      <4> HIDE DEF params, bl
      <4>2. CASE ~odd(k)
        BY <1>6, <4>1, <4>2
      <4>3. CASE odd(k)
        <5>1. k \in Int
          OBVIOUS
        <5>2. PICK h2 \in Int : k = 2 * h2 + 1
          <6>1. PICK h2 \in Int : (k = 2 * h2 /\ k % 2 = 0) \/ (k = 2 * h2 + 1 /\ k % 2 = 1)
            BY <5>1, Halved
          <6> QED
            BY <4>3, <6>1
        <5>3. (k + 1) \div 2 = h2 + 1 /\ h2 + 1 \in 1..n /\ (i + 3) + 2 * (h2 + 1) - 2 = i + 2 + k
          BY <1>1, <1>7, <5>2 DEF L
        <5>4. params[k].kind = "param" /\ params[k].value = Len(args) + (h2 + 1)
          BY <1>6, <4>1, <4>3, <5>3
        <5>5. more[Len(args) + (h2 + 1)] = toks[i + 2 + k]
          BY <2>1, <5>3
        <5> QED
          BY <1>8, <4>3, <5>4, <5>5
      <4> QED
        BY <4>2, <4>3
    <3> HIDE DEF params, odd
    <3> QED
      BY <3>1, <3>2
  <2> DEFINE a == <<c, o, l>>
             z == <<r>>
  <2>3. a \in Seq(A) /\ a \in Seq(P) /\ z \in Seq(A) /\ z \in Seq(P)
    BY <1>5
  <2>4. Bound(a, more) = a /\ Bound(z, more) = z
    <3>1. \A k \in DOMAIN a : a[k].kind # "param"
      <4>1. a[1] = c /\ a[2] = o /\ a[3] = l /\ \A k \in DOMAIN a : k = 1 \/ k = 2 \/ k = 3
        OBVIOUS
      <4> HIDE DEF a
      <4> QED
        BY <1>6, <4>1
    <3>2. \A k \in DOMAIN z : z[k].kind # "param"
      BY <1>6
    <3> HIDE DEF a, z
    <3> QED
      BY <2>3, <3>1, <3>2, BoundFree
  <2>5. b = a \o bl \o z /\ sql = a \o params \o z
    <3>1. sql = a \o params \o z
      OBVIOUS
    <3>2. b = a \o bl \o z
      <4>1. InSpan(c, o, l, bl, r) = <<c, o, l>> \o bl \o <<r>>
        <5> HIDE DEF bl
        <5>1. bl \in Seq(A) /\ c \in A /\ o \in A /\ l \in A /\ r \in A
          BY <1>5, <1>11
        <5>2. InParts(c, o, l, bl, r)
          BY <5>1, InSpanParts
        <5> QED
          BY <5>2 DEF InParts
      <4> QED
        BY <4>1
    <3> QED
      BY <3>1, <3>2
  <2> HIDE DEF a, z, b, sql, bl, params
  <2>9. \A y1, y2 \in Seq(P) : Bound(y1, more) \in Seq(A) /\ Bound(y2, more) \in Seq(A) =>
          Bound(y1 \o y2, more) = Bound(y1, more) \o Bound(y2, more)
    <3>1. BindsByParts(P, A, more)
      BY BoundGlued
    <3> QED
      BY <3>1 DEF BindsByParts
  <2>6. Bound(a \o params, more) = a \o bl
    BY <1>11, <1>12, <2>2, <2>3, <2>4, <2>9
  <2>7. a \o params \in Seq(P) /\ a \o bl \in Seq(A)
    BY <1>11, <1>12, <2>3
  <2>8. Bound((a \o params) \o z, more) = (a \o bl) \o z
    BY <2>3, <2>4, <2>6, <2>7, <2>9
  <2> QED
    BY <2>5, <2>8
<1>19. sql \in Seq(P) /\ sql = Listed(toks[i].value, Len(args), n)
  <2>1. sql = Listed(toks[i].value, Len(args), n)
    BY DEF Listed, c, o, l, r, comma, L
  <2> HIDE DEF params
  <2>2. sql \in Seq(P)
    BY <1>5, <1>12
  <2> QED
    BY <2>1, <2>2
<1>20. w = SubSeq(toks, i, j)
  <2> DEFINE v == SubSeq(toks, i, j)
  <2>1. j - i + 1 = L + 4 /\ L + 4 \in Nat /\ i \in Nat /\ i >= 1 /\ j \in Nat /\ i <= j /\ j <= Len(toks)
    BY <1>2, <1>7 DEF N
  <2>2. v \in Seq(A) /\ Len(v) = j - i + 1 /\ \A k \in 1..(j - i + 1) : v[k] = toks[i + k - 1]
    <3>1. Span(A, toks, i, j, v)
      BY <1>5, <2>1, SpanOf
    <3> HIDE DEF v
    <3> QED
      BY <3>1 DEF Span
  <2>3. /\ w \in Seq(A) /\ Len(w) = L + 4
        /\ w[1] = toks[i] /\ w[2] = toks[i + 1] /\ w[3] = toks[i + 2] /\ w[L + 4] = toks[j]
        /\ \A k \in 1..L : w[3 + k] = list[k]
    <3>1. InSpanIs(A, toks[i], toks[i + 1], toks[i + 2], list, toks[j], w)
      BY <1>5, <1>8, InSpanOf
    <3> QED
      BY <1>8, <3>1 DEF InSpanIs
  <2> HIDE DEF v, w
  <2>4. \A k \in 1..(L + 4) : w[k] = v[k]
    <3> SUFFICES ASSUME NEW k \in 1..(L + 4) PROVE w[k] = v[k]
      OBVIOUS
    <3>1. v[k] = toks[i + k - 1]
      BY <2>1, <2>2
    <3>2. CASE k \in {1, 2, 3, L + 4}
      <4>1. k = 1 => i + k - 1 = i
        OBVIOUS
      <4>2. k = 2 => i + k - 1 = i + 1
        OBVIOUS
      <4>3. k = 3 => i + k - 1 = i + 2
        OBVIOUS
      <4>4. k = L + 4 => i + k - 1 = j
        BY <1>7
      <4> QED
        BY <2>3, <3>1, <3>2, <4>1, <4>2, <4>3, <4>4
    <3>3. CASE k \notin {1, 2, 3, L + 4}
      <4>1. k - 3 \in 1..L /\ 3 + (k - 3) = k /\ i + 2 + (k - 3) = i + k - 1
        BY <1>7, <3>3
      <4>2. w[k] = list[k - 3] /\ list[k - 3] = toks[i + 2 + (k - 3)]
        BY <1>8, <2>3, <4>1
      <4> QED
        BY <3>1, <4>1, <4>2
    <3> QED
      BY <3>2, <3>3
  <2>5. w = v
    <3>1. w = [k \in 1..(L + 4) |-> w[k]] /\ v = [k \in 1..(L + 4) |-> v[k]]
      BY <2>1, <2>2, <2>3
    <3> QED
      BY <2>4, <3>1
  <2> QED
    BY <2>5 DEF v
<1> HIDE DEF w, b, sql, bl, params
<1>21. Means(toks, h, w, sql, args2)
  BY <1>13, <1>15, <1>16, <1>18, <1>19, SameTest DEF A, P, IsTest
<1>22. x = Read(sql, j + 1, args2)
  BY <1>1, <1>19 DEF args2, values
<1> DEFINE p == j + 1
<1>23. p - 1 = j /\ p \in Nat /\ i < p
  BY <1>7
<1> HIDE DEF p
<1>24. x = Read(sql, p, args2)
  BY <1>22 DEF p
<1> QED
  BY <1>4, <1>13, <1>17, <1>20, <1>21, <1>23, <1>24 DEF Carried, IsTest

\* Part of a filter: in parentheses, or two parts and what is between them.
LEMMA PartOf ==
  ASSUME NEW A, NEW s \in Seq(A), NEW i \in Nat, NEW j \in Nat, i >= 1, i <= j, j <= Len(s)
  PROVE  SubSeq(s, i, j) \in Seq(A) /\ SubSeq(s, i, j) # <<>>
<1>1. SubSeq(s, i, j) \in Seq(A) /\ Len(SubSeq(s, i, j)) = j - i + 1
  OBVIOUS
<1> DEFINE v == SubSeq(s, i, j)
<1> HIDE DEF v
<1>2. v \in Seq(A) /\ Len(v) > 0
  BY <1>1 DEF v
<1>3. v # <<>>
  BY <1>2
<1> QED
  BY <1>2, <1>3 DEF v

InTwo(s, i, p, q) == SubSeq(s, i, q) = SubSeq(s, i, p - 1) \o <<s[p]>> \o SubSeq(s, p + 1, q)
LEMMA PartsOf ==
  ASSUME NEW A, NEW s \in Seq(A), NEW i \in Nat, NEW p \in Nat, NEW q \in Nat,
         i >= 1, i <= p, p <= q, q <= Len(s)
  PROVE  InTwo(s, i, p, q)
  BY DEF InTwo

Inside(s, i, p) == SubSeq(s, i, p) = <<s[i]>> \o SubSeq(s, i + 1, p - 1) \o <<s[p]>>
LEMMA InsideOf ==
  ASSUME NEW A, NEW s \in Seq(A), NEW i \in Nat, NEW p \in Nat, i >= 1, i < p, p <= Len(s)
  PROVE  Inside(s, i, p)
  BY DEF Inside

\* A comparison that is read carries its meaning.
LEMMA ComparisonCarries ==
  ASSUME NEW T, NEW toks \in Seq(T), NEW passed, NEW h, Reader(Spoken(toks), passed, h),
         NEW args \in Seq(ToSet(toks)), NEW i \in Nat
  PROVE  Carried(toks, h, {"and", "or"}, i, args, Comparison(toks, i, args))
<1> DEFINE column == KindAt(toks, i) = "ident" /\ toks[i].value \in Columns
           second == KindAt(toks, i + 1)
           third  == KindAt(toks, i + 2)
           equality == toks[i + 1].value \in {Equal, Unequal}
           x == Comparison(toks, i, args)
<1>1. x = CASE column /\ second = "in" /\ third = "lparen" -> InList(toks, toks[i].value, i + 3, args)
            [] column /\ second = "op" /\ third = "null" -> NullTest(toks, i, args)
            [] column /\ second = "op" /\ third = "value" ->
                 Read(Compared(toks[i].value, toks[i + 1].value, Len(args) + 1),
                      i + 3, Append(args, toks[i + 2]))
            [] OTHER -> Failed
  BY DEF Comparison
<1> SUFFICES Carried(toks, h, {"and", "or"}, i, args, x)
  OBVIOUS
<1> HIDE DEF x
<1>2. x = Failed => Carried(toks, h, {"and", "or"}, i, args, x)
  BY DEF Carried
<1>3. column /\ second \in {"in", "op"} /\ third \in {"lparen", "null", "value"} =>
        /\ i \in DOMAIN toks /\ i + 1 \in DOMAIN toks /\ i + 2 \in DOMAIN toks
        /\ toks[i].kind = "ident" /\ toks[i].value \in Columns
        /\ toks[i + 1].kind = second /\ toks[i + 2].kind = third
  <2>1. column => i \in DOMAIN toks /\ toks[i].kind = "ident" /\ toks[i].value \in Columns
    BY KindsInside
  <2>2. second \in {"in", "op"} => i + 1 \in DOMAIN toks /\ toks[i + 1].kind = second
    BY KindsInside
  <2>3. third \in {"lparen", "null", "value"} => i + 2 \in DOMAIN toks /\ toks[i + 2].kind = third
    BY KindsInside
  <2> QED
    BY <2>1, <2>2, <2>3
<1>4. CASE column /\ second = "in" /\ third = "lparen"
  <2>1. x = InList(toks, toks[i].value, i + 3, args)
    BY <1>1, <1>4
  <2>2. CASE InList(toks, toks[i].value, i + 3, args) = Failed
    BY <1>2, <2>1, <2>2
  <2>3. CASE \E j \in DOMAIN toks :
               /\ IsComparison(toks, i, j)
               /\ ListAt(toks, i, j, toks[i].value, args, InList(toks, toks[i].value, i + 3, args))
    <3>1. PICK j \in DOMAIN toks :
               /\ IsComparison(toks, i, j)
               /\ ListAt(toks, i, j, toks[i].value, args, InList(toks, toks[i].value, i + 3, args))
      BY <2>3
    <3>2. Carried(toks, h, {"and", "or"}, i, args, InList(toks, toks[i].value, i + 3, args))
      BY <1>4, <3>1, ListMeans
    <3> QED
      BY <2>1, <3>2
  <2> QED
    BY <1>4, <2>2, <2>3, InListRead
<1>5. CASE column /\ second = "op" /\ third = "null"
  <2>1. x = NullTest(toks, i, args)
    BY <1>1, <1>5
  <2>2. CASE ~equality
    BY <1>2, <2>1, <2>2 DEF NullTest
  <2>3. CASE equality
    <3>1. x = Read(<<Column(toks[i].value), Token("is", toks[i + 1].value = Equal)>>, i + 3, args)
      BY <2>1, <2>3 DEF NullTest, ComparedWithNull
    <3>2. Carried(toks, h, {"and", "or"}, i, args,
                  Read(<<Column(toks[i].value), Token("is", toks[i + 1].value = Equal)>>, i + 3, args))
      BY <1>3, <1>5, NullMeans
    <3> QED
      BY <3>1, <3>2
  <2> QED
    BY <2>2, <2>3
<1>6. CASE column /\ second = "op" /\ third = "value"
  <2>1. x = Read(Compared(toks[i].value, toks[i + 1].value, Len(args) + 1), i + 3, Append(args, toks[i + 2]))
    BY <1>1, <1>6
  <2>2. Carried(toks, h, {"and", "or"}, i, args,
                Read(Compared(toks[i].value, toks[i + 1].value, Len(args) + 1), i + 3, Append(args, toks[i + 2])))
    BY <1>3, <1>6, ComparedMeans
  <2> QED
    BY <2>1, <2>2
<1>7. CASE /\ ~(column /\ second = "in" /\ third = "lparen") /\ ~(column /\ second = "op" /\ third = "null")
           /\ ~(column /\ second = "op" /\ third = "value")
  <2>1. x = Failed
    BY <1>1, <1>7
  <2> QED
    BY <1>2, <2>1
<1> QED
  BY <1>4, <1>5, <1>6, <1>7

\* What the calls of a function carry.
Carries(toks, h, kinds, f) ==
  \A i \in Nat : \A args \in Seq(ToSet(toks)) : Carried(toks, h, kinds, i, args, f[<<i, args>>])

\* parsePrimary.
LEMMA PrimariesCarry ==
  ASSUME NEW T, NEW toks \in Seq(T), NEW passed, NEW h, Reader(Spoken(toks), passed, h),
         NEW f, Carries(toks, h, {}, f)
  PROVE  Carries(toks, h, {"and", "or"}, Primaries(toks, f))
<1> SUFFICES ASSUME NEW i \in Nat, NEW args \in Seq(ToSet(toks))
             PROVE  Carried(toks, h, {"and", "or"}, i, args, Primaries(toks, f)[<<i, args>>])
  BY DEF Carries
<1> DEFINE inner == f[<<i + 1, args>>]
           x == Primaries(toks, f)[<<i, args>>]
           both == {"and", "or"}
           A == Spoken(toks)
<1>0. Len(toks) \in Nat /\ DOMAIN toks = 1..Len(toks)
  OBVIOUS
<1>1. x = CASE KindAt(toks, i) # "lparen" -> Comparison(toks, i, args)
            [] KindAt(toks, i) = "lparen" /\ inner.ok /\ KindAt(toks, inner.pos) = "rparen" ->
                 Read(inner.sql, inner.pos + 1, inner.args)
            [] OTHER -> Failed
  BY DEF Primaries, Calls
<1> HIDE DEF x
<1>2. CASE KindAt(toks, i) # "lparen"
  <2>1. x = Comparison(toks, i, args)
    BY <1>1, <1>2
  <2> QED
    BY <2>1, ComparisonCarries DEF x
<1>3. CASE KindAt(toks, i) = "lparen"
  <2>1. Carried(toks, h, {}, i + 1, args, inner)
    <3>1. i + 1 \in Nat
      OBVIOUS
    <3> QED
      BY <3>1 DEF Carries
  <2> HIDE DEF inner
  <2>2. CASE ~inner.ok \/ KindAt(toks, inner.pos) # "rparen"
    <3>1. x = Failed
      BY <1>1, <1>3, <2>2
    <3> QED
      BY <3>1 DEF Carried, x
  <2>3. CASE inner.ok /\ KindAt(toks, inner.pos) = "rparen"
    <3>1. PICK sql, p, more :
       /\ inner = Read(sql, p, more)
       /\ i + 1 \in DOMAIN toks /\ p - 1 \in DOMAIN toks /\ p \in Nat /\ i + 1 < p
       /\ more \in Seq(ToSet(toks)) /\ Lengthens(more, args)
       /\ Closed(SubSeq(toks, i + 1, p - 1)) /\ Lacks(SubSeq(toks, i + 1, p - 1), {})
       /\ Means(toks, h, SubSeq(toks, i + 1, p - 1), sql, more)
      BY <2>1, <2>3, ReadOf DEF Carried
    <3>2. inner.sql = sql /\ inner.pos = p /\ inner.args = more
      BY <3>1, ReadOf
    <3>3. x = Read(sql, p + 1, more)
      BY <1>1, <1>3, <2>3, <3>2
    <3>4. /\ i \in DOMAIN toks /\ toks[i].kind = "lparen"
          /\ p \in DOMAIN toks /\ toks[p].kind = "rparen"
      BY <1>3, <2>3, <3>1, <3>2, KindsInside
    <3>5. toks[i] \in A /\ toks[p] \in A /\ toks \in Seq(A)
      BY <3>4, SpokenTokens
    <3> DEFINE v == SubSeq(toks, i + 1, p - 1)
               w == SubSeq(toks, i, p)
    <3>14. /\ i \in Nat /\ p \in Nat /\ i + 1 \in Nat /\ p - 1 \in Nat /\ i >= 1 /\ i < p /\ p <= Len(toks)
           /\ i + 1 >= 1 /\ i + 1 <= p - 1 /\ p - 1 <= Len(toks)
      BY <1>0, <3>1, <3>4
    <3>6. v \in Seq(A) /\ v # <<>>
      BY <3>5, <3>14, PartOf
    <3>7. w = <<toks[i]>> \o v \o <<toks[p]>>
      <4>1. Inside(toks, i, p)
        BY <3>5, <3>14, InsideOf
      <4> QED
        BY <4>1 DEF Inside
    <3> HIDE DEF v, w, A
    <3>8. w \in Seq(A) /\ Closed(w) /\ Lacks(w, both)
      <4> DEFINE l == toks[i]
                 r == toks[p]
      <4>1. l \in A /\ r \in A /\ l.kind = "lparen" /\ r.kind = "rparen" /\ w = <<l>> \o v \o <<r>>
        BY <3>4, <3>5, <3>7
      <4>2. v \in Seq(A) /\ Closed(v)
        BY <3>1, <3>6 DEF v
      <4>3. "rparen" \notin both
        OBVIOUS
      <4> HIDE DEF l, r, both
      <4> QED
        BY <4>1, <4>2, <4>3, Wrapped
    <3>9. h[w] <=> h[v]
      BY <3>1, <3>4, <3>5, <3>6, <3>7, InParentheses DEF v, A
    <3>10. Means(toks, h, w, sql, more)
      BY <3>1, <3>9 DEF Means, v
    <3> DEFINE q == p + 1
    <3>11. q \in Nat /\ q - 1 = p /\ i < q
      BY <3>1
    <3> HIDE DEF q
    <3>12. x = Read(sql, q, more)
      BY <3>3 DEF q
    <3> QED
      BY <3>1, <3>4, <3>8, <3>10, <3>11, <3>12 DEF Carried, w, x
  <2> QED
    BY <2>2, <2>3
<1> QED
  BY <1>2, <1>3

\* A turn of a loop: what was read so far, an operator and an operand.
LEMMA AnotherCarries ==
  ASSUME NEW T, NEW toks \in Seq(T), NEW passed, NEW h, Reader(Spoken(toks), passed, h),
         NEW kind \in {"and", "or"}, NEW outer, NEW inner,
         kind \notin outer, outer \subseteq inner, kind \in inner,
         kind = "and" => "or" \in outer,
         NEW f, Carries(toks, h, inner, f),
         NEW i \in Nat, NEW args \in Seq(ToSet(toks)), NEW left, Carried(toks, h, outer, i, args, left)
  PROVE  Carried(toks, h, outer, i, args, Another(toks, kind, f, left))
<1> DEFINE right == f[<<left.pos + 1, left.args>>]
           x == Another(toks, kind, f, left)
           A == Spoken(toks)
<1>0. Len(toks) \in Nat /\ DOMAIN toks = 1..Len(toks)
  OBVIOUS
<1>1. x = CASE ~left.ok \/ KindAt(toks, left.pos) # kind -> left
            [] left.ok /\ KindAt(toks, left.pos) = kind /\ right.ok ->
                 Read(Pair(kind, left.sql, right.sql), right.pos, right.args)
            [] OTHER -> Failed
  BY DEF Another
<1> HIDE DEF x
<1>2. CASE ~left.ok \/ KindAt(toks, left.pos) # kind
  BY <1>1, <1>2 DEF x
<1>3. CASE left.ok /\ KindAt(toks, left.pos) = kind /\ ~right.ok
  <2>1. x = Failed
    BY <1>1, <1>3
  <2> QED
    BY <2>1 DEF Carried, x
<1>4. CASE left.ok /\ KindAt(toks, left.pos) = kind /\ right.ok
  <2>1. PICK sql1, p, args1 :
       /\ left = Read(sql1, p, args1)
       /\ i \in DOMAIN toks /\ p - 1 \in DOMAIN toks /\ p \in Nat /\ i < p
       /\ args1 \in Seq(ToSet(toks)) /\ Lengthens(args1, args)
       /\ Closed(SubSeq(toks, i, p - 1)) /\ Lacks(SubSeq(toks, i, p - 1), outer)
       /\ Means(toks, h, SubSeq(toks, i, p - 1), sql1, args1)
    BY <1>4, ReadOf DEF Carried
  <2>2. left.sql = sql1 /\ left.pos = p /\ left.args = args1
    BY <2>1, ReadOf
  <2>3. Carried(toks, h, inner, p + 1, args1, right)
    <3>1. p + 1 \in Nat
      BY <2>1
    <3> QED
      BY <2>1, <2>2, <3>1 DEF Carries
  <2> HIDE DEF right
  <2>4. PICK sql2, q, args2 :
       /\ right = Read(sql2, q, args2)
       /\ p + 1 \in DOMAIN toks /\ q - 1 \in DOMAIN toks /\ q \in Nat /\ p + 1 < q
       /\ args2 \in Seq(ToSet(toks)) /\ Lengthens(args2, args1)
       /\ Closed(SubSeq(toks, p + 1, q - 1)) /\ Lacks(SubSeq(toks, p + 1, q - 1), inner)
       /\ Means(toks, h, SubSeq(toks, p + 1, q - 1), sql2, args2)
    BY <1>4, <2>3, ReadOf DEF Carried
  <2>5. right.sql = sql2 /\ right.pos = q /\ right.args = args2
    BY <2>4, ReadOf
  <2>6. x = Read(Pair(kind, sql1, sql2), q, args2)
    BY <1>1, <1>4, <2>2, <2>5
  <2>7. p \in DOMAIN toks /\ toks[p].kind = kind
    BY <1>4, <2>1, <2>2, KindsInside
  <2>8. toks[p] \in A /\ toks \in Seq(A)
    BY <2>7, SpokenTokens
  <2> DEFINE w1 == SubSeq(toks, i, p - 1)
             w2 == SubSeq(toks, p + 1, q - 1)
             w == SubSeq(toks, i, q - 1)
             t == toks[p]
  <2>20. /\ p - 1 \in Nat /\ p + 1 \in Nat /\ q - 1 \in Nat /\ p \in Nat /\ i >= 1 /\ i <= p - 1 /\ p - 1 <= Len(toks)
         /\ p + 1 >= 1 /\ p + 1 <= q - 1 /\ q - 1 <= Len(toks) /\ i <= p /\ p <= q - 1
    BY <1>0, <2>1, <2>4, <2>7
  <2>9. w1 \in Seq(A) /\ w1 # <<>> /\ w2 \in Seq(A) /\ w2 # <<>>
    BY <2>8, <2>20, PartOf
  <2>10. w = w1 \o <<t>> \o w2
    <3>1. InTwo(toks, i, p, q - 1)
      BY <2>8, <2>20, PartsOf
    <3> QED
      BY <3>1 DEF InTwo
  <2>11. Closed(w1) /\ Closed(w2) /\ Lacks(w1, outer) /\ Lacks(w2, inner) /\ t \in A /\ t.kind = kind
    BY <2>1, <2>4, <2>7, <2>8
  <2>12. Means(toks, h, w1, sql1, args1) /\ Means(toks, h, w2, sql2, args2)
    BY <2>1, <2>4
  <2> HIDE DEF w1, w2, w, t, A
  <2>13. Lacks(w2, outer) /\ Lacks(w2, {kind}) /\ (kind = "and" => Lacks(w1, {"or"}) /\ Lacks(w2, {"or"}))
    BY <2>11 DEF Lacks
  <2>14. w \in Seq(A) /\ Closed(w) /\ Lacks(w, outer)
    BY <2>9, <2>10, <2>11, <2>13, Between
  <2>15. kind = "and" => (h[w] <=> h[w1] /\ h[w2])
    BY <2>9, <2>10, <2>11, <2>13, JoinedByAnd DEF A
  <2>16. kind = "or" => (h[w] <=> h[w1] \/ h[w2])
    BY <2>9, <2>10, <2>11, <2>13, JoinedByOr DEF A
  <2>17. Means(toks, h, w, Pair(kind, sql1, sql2), args2)
    BY <2>4, <2>12, <2>15, <2>16, PairMeans
  <2>18. Lengthens(args2, args)
    BY <2>1, <2>4 DEF Lengthens
  <2>19. i < q
    BY <2>1, <2>4
  <2> QED
    BY <2>1, <2>4, <2>6, <2>14, <2>17, <2>18, <2>19 DEF Carried, w, x
<1> QED
  BY <1>2, <1>3, <1>4

\* Fewer kinds.
LEMMA CarriedLess ==
  ASSUME NEW toks, NEW h, NEW inner, NEW outer, outer \subseteq inner, NEW i, NEW args, NEW x,
         Carried(toks, h, inner, i, args, x)
  PROVE  Carried(toks, h, outer, i, args, x)
<1>1. CASE x = Failed
  BY <1>1 DEF Carried
<1>2. CASE x # Failed
  <2>1. PICK sql, p, more :
       /\ x = Read(sql, p, more)
       /\ i \in DOMAIN toks /\ p - 1 \in DOMAIN toks /\ p \in Nat /\ i < p
       /\ more \in Seq(ToSet(toks)) /\ Lengthens(more, args)
       /\ Closed(SubSeq(toks, i, p - 1)) /\ Lacks(SubSeq(toks, i, p - 1), inner)
       /\ Means(toks, h, SubSeq(toks, i, p - 1), sql, more)
    BY <1>2 DEF Carried
  <2>2. Lacks(SubSeq(toks, i, p - 1), outer)
    BY <2>1 DEF Lacks
  <2> QED
    BY <2>1, <2>2 DEF Carried
<1> QED
  BY <1>1, <1>2

\* A loop.
LEMMA JoinedCarries ==
  ASSUME NEW T, NEW toks \in Seq(T), NEW passed, NEW h, Reader(Spoken(toks), passed, h),
         NEW kind \in {"and", "or"}, NEW outer, NEW inner,
         kind \notin outer, outer \subseteq inner, kind \in inner,
         kind = "and" => "or" \in outer,
         NEW f, Carries(toks, h, inner, f)
  PROVE  Carries(toks, h, outer, Joined(toks, kind, f))
<1> SUFFICES ASSUME NEW i \in Nat, NEW args \in Seq(ToSet(toks))
             PROVE  Carried(toks, h, outer, i, args, Joined(toks, kind, f)[<<i, args>>])
  BY DEF Carries
<1> DEFINE call == <<i, args>>
           N == Len(toks)
<1>0. N \in Nat
  OBVIOUS
<1>1. call \in Calls(toks)
  BY DEF Calls
<1>2. Carried(toks, h, inner, i, args, f[call])
  BY DEF Carries
<1> HIDE DEF call
<1>3. PICK read : /\ read[0] = f[call]
                  /\ \A n \in 1..N : read[n] = Another(toks, kind, f, read[n - 1])
                  /\ Joined(toks, kind, f)[call] = read[N]
  BY <1>1, Turning
<1> HIDE DEF N
<1> DEFINE S == {n \in Nat : n <= N => Carried(toks, h, outer, i, args, read[n])}
<1>4. 0 \in S
  BY <1>2, <1>3, CarriedLess
<1>5. ASSUME NEW n \in S PROVE n + 1 \in S
  <2> SUFFICES ASSUME n + 1 <= N PROVE Carried(toks, h, outer, i, args, read[n + 1])
    OBVIOUS
  <2>1. n \in Nat /\ n <= N /\ n + 1 \in 1..N /\ (n + 1) - 1 = n
    BY <1>0
  <2>2. read[n + 1] = Another(toks, kind, f, read[n])
    BY <1>3, <2>1
  <2>3. Carried(toks, h, outer, i, args, read[n])
    BY <2>1
  <2>4. Carried(toks, h, outer, i, args, Another(toks, kind, f, read[n]))
    BY <2>3, AnotherCarries
  <2> QED
    BY <2>2, <2>4
<1>6. S = Nat
  <2>1. S \subseteq Nat
    OBVIOUS
  <2> HIDE DEF S
  <2> QED
    BY <1>4, <1>5, <2>1, Induction
<1>7. N \in S
  <2> HIDE DEF S
  <2> QED
    BY <1>0, <1>6
<1> QED
  BY <1>0, <1>3, <1>7 DEF call

\* parseOrExpr, whatever is in its parentheses.
LEMMA LevelCarries ==
  ASSUME NEW T, NEW toks \in Seq(T), NEW passed, NEW h, Reader(Spoken(toks), passed, h),
         NEW f, Carries(toks, h, {}, f)
  PROVE  Carries(toks, h, {}, Joined(toks, "or", Conjunctions(toks, f)))
<1>1. Carries(toks, h, {"and", "or"}, Primaries(toks, f))
  BY PrimariesCarry
<1> DEFINE prims == Primaries(toks, f)
           conj == Conjunctions(toks, f)
<1>2. conj = Joined(toks, "and", prims)
  BY DEF Conjunctions
<1> HIDE DEF prims, conj
<1>3. Carries(toks, h, {"or"}, conj)
  BY <1>1, <1>2, JoinedCarries DEF prims
<1>4. Carries(toks, h, {}, Joined(toks, "or", conj))
  BY <1>3, JoinedCarries
<1> QED
  BY <1>4 DEF conj

\* An expression that is read carries its meaning, however deep it is nested.
LEMMA ExpressionsCarry ==
  ASSUME NEW T, NEW toks \in Seq(T), NEW passed, NEW h, Reader(Spoken(toks), passed, h)
  PROVE  Carries(toks, h, {}, Expressions(toks))
<1> DEFINE N == Len(toks)
<1>0. N \in Nat
  OBVIOUS
<1>1. PICK upTo : /\ upTo[0] = [call \in Calls(toks) |-> Failed]
                  /\ \A d \in 1..N : upTo[d] = Joined(toks, "or", Conjunctions(toks, upTo[d - 1]))
                  /\ Expressions(toks) = upTo[N]
  BY Nesting
<1> HIDE DEF N
<1> DEFINE S == {d \in Nat : d <= N => Carries(toks, h, {}, upTo[d])}
<1>2. 0 \in S
  <2>1. ASSUME NEW i \in Nat, NEW args \in Seq(ToSet(toks)) PROVE upTo[0][<<i, args>>] = Failed
    BY <1>1 DEF Calls
  <2>2. Carries(toks, h, {}, upTo[0])
    BY <2>1 DEF Carries, Carried
  <2> QED
    BY <2>2
<1>3. ASSUME NEW d \in S PROVE d + 1 \in S
  <2> SUFFICES ASSUME d + 1 <= N PROVE Carries(toks, h, {}, upTo[d + 1])
    OBVIOUS
  <2>1. d \in Nat /\ d <= N /\ d + 1 \in 1..N /\ (d + 1) - 1 = d
    BY <1>0
  <2>2. upTo[d + 1] = Joined(toks, "or", Conjunctions(toks, upTo[d]))
    BY <1>1, <2>1
  <2>3. Carries(toks, h, {}, upTo[d])
    BY <2>1
  <2>4. Carries(toks, h, {}, Joined(toks, "or", Conjunctions(toks, upTo[d])))
    BY <2>3, LevelCarries
  <2> QED
    BY <2>2, <2>4
<1>4. S = Nat
  <2>1. S \subseteq Nat
    OBVIOUS
  <2> HIDE DEF S
  <2> QED
    BY <1>2, <1>3, <2>1, Induction
<1>5. N \in S
  <2> HIDE DEF S
  <2> QED
    BY <1>0, <1>4
<1> QED
  BY <1>0, <1>1, <1>5

\* What a filter that is accepted means.
LEMMA ParseMeans ==
  ASSUME NEW T, NEW toks \in Seq(T), NEW passed, NEW h, Reader(Spoken(toks), passed, h), Parse(toks).ok
  PROVE  /\ Parse(toks).sql \in Seq(Clauses(toks)) /\ Parse(toks).args \in Seq(ToSet(toks))
         /\ Means(toks, h, toks, Parse(toks).sql, Parse(toks).args)
<1> DEFINE N == Len(toks)
           all == Expressions(toks)[<<1, <<>>>>]
<1>0. N \in Nat /\ DOMAIN toks = 1..N /\ 1 \in Nat /\ <<>> \in Seq(ToSet(toks))
  OBVIOUS
<1>1. Parse(toks) = all /\ all.ok /\ all.pos = N + 1
  <2>1. Parse(toks) = IF all.ok /\ all.pos = N + 1 THEN all ELSE Failed
    BY DEF Parse
  <2> HIDE DEF all, N
  <2> QED
    BY <2>1, ReadOf
<1>2. Carried(toks, h, {}, 1, <<>>, all)
  BY <1>0, ExpressionsCarry DEF Carries
<1> HIDE DEF all, N
<1>3. PICK sql, p, more :
       /\ all = Read(sql, p, more)
       /\ 1 \in DOMAIN toks /\ p - 1 \in DOMAIN toks /\ p \in Nat /\ 1 < p
       /\ more \in Seq(ToSet(toks))
       /\ Means(toks, h, SubSeq(toks, 1, p - 1), sql, more)
  BY <1>1, <1>2, ReadOf DEF Carried
<1>4. all.sql = sql /\ all.pos = p /\ all.args = more
  BY <1>3, ReadOf
<1>5. p - 1 = N
  BY <1>0, <1>1, <1>4
<1>6. SubSeq(toks, 1, N) = toks
  BY <1>0 DEF N
<1>7. sql \in Seq(Clauses(toks))
  BY <1>3 DEF Means
<1> QED
  BY <1>1, <1>3, <1>4, <1>5, <1>6, <1>7

\* SQL whose arguments are settled: more of them change nothing.
Settled(sql, args, b) == \A more : Lengthens(more, args) => Bound(sql, more) = b
Sendable(sql, args) ==
  \E P, A, C : sql \in Seq(P) /\ args \in Seq(A) /\ \E b \in Seq(C) : Settled(sql, args, b)
Shared(sql, args, v1, v2, b) ==
  Bound(sql \o <<Param(Len(args) + 1), Param(Len(args) + 2)>>, args \o <<v1, v2>>) = b \o <<v1, v2>>

\* The same arguments serve the data query, and two that follow them.
LEMMA ArgumentsShared ==
  ASSUME NEW P, NEW sql \in Seq(P), NEW A, NEW args \in Seq(A), NEW v1, NEW v2, NEW C, NEW b \in Seq(C),
         Settled(sql, args, b)
  PROVE  Shared(sql, args, v1, v2, b)
<1> DEFINE two == <<v1, v2>>
           V == A \cup {v1, v2}
           more == args \o two
           n == Len(args)
           params == <<Param(n + 1), Param(n + 2)>>
           Q == P \cup {Param(n + 1), Param(n + 2)}
           D == C \cup {v1, v2}
<1>1. /\ args \in Seq(V) /\ two \in Seq(V) /\ Len(two) = 2 /\ two[1] = v1 /\ two[2] = v2
      /\ sql \in Seq(Q) /\ params \in Seq(Q) /\ b \in Seq(D) /\ two \in Seq(D)
      /\ Len(params) = 2 /\ params[1] = Param(n + 1) /\ params[2] = Param(n + 2) /\ n \in Nat
      /\ DOMAIN params = 1..2 /\ DOMAIN args = 1..n
  OBVIOUS
<1> HIDE DEF two, params, Q, D, V
<1>2. /\ DOMAIN more = 1..(n + 2) /\ (\A k \in 1..n : more[k] = args[k])
      /\ \A k \in 1..2 : more[n + k] = two[k]
  <2>1. Follows(V, args, two, more)
    BY <1>1, FollowsOn
  <2> HIDE DEF more
  <2> QED
    BY <1>1, <2>1 DEF Follows
<1> HIDE DEF more
<1>3. more[n + 1] = v1 /\ more[n + 2] = v2
  <2>1. 1 \in 1..2 /\ 2 \in 1..2
    OBVIOUS
  <2> QED
    BY <1>1, <1>2, <2>1
<1>4. Lengthens(more, args)
  BY <1>1, <1>2 DEF Lengthens
<1>5. Bound(sql, more) = b
  BY <1>4 DEF Settled
<1>6. Bound(params, more) = two
  <2>1. Bound(params, more) = [k \in 1..2 |-> IF params[k].kind = "param" THEN more[params[k].value] ELSE params[k]]
    BY <1>1 DEF Bound
  <2>2. \A k \in 1..2 : k = 1 \/ k = 2
    OBVIOUS
  <2>3. \A k \in 1..2 : (IF params[k].kind = "param" THEN more[params[k].value] ELSE params[k]) = two[k]
    BY <1>1, <1>3, <2>2 DEF Param, Token
  <2>4. two = [k \in 1..2 |-> two[k]]
    BY <1>1
  <2> QED
    BY <2>1, <2>3, <2>4
<1>7. Bound(sql, more) \in Seq(D) /\ Bound(params, more) \in Seq(D)
  BY <1>1, <1>5, <1>6
<1>8. Bound(sql \o params, more) = Bound(sql, more) \o Bound(params, more)
  <2>1. BindsByParts(Q, D, more)
    BY BoundGlued
  <2> QED
    BY <1>1, <1>7, <2>1 DEF BindsByParts
<1> QED
  BY <1>5, <1>6, <1>8 DEF two, more, params, n, Shared

\* For any filter that is accepted: its WHERE clause, with its arguments in place, is true of
\* the rows the filter is true of, and the data query binds the same ones (toSQL, addArg and
\* parseFilter in filter.go, buildList in query.go).
THEOREM WhereClauseKeepsTheFilter ==
  ASSUME NEW T, filter \in Seq(T), 20 <= MaxInt
  PROVE  FilterKeepsItsMeaning
<1> DEFINE toks == filter
           none == toks = <<>>
           q == List(toks, 3, 10)
           ten == Token("value", 10)
           twenty == Token("value", 20)
           sql == IF none THEN <<>> ELSE Parse(toks).sql
           args == IF none THEN <<>> ELSE Parse(toks).args
           inCount == Bound(q.where, q.countArgs)
           inData  == Bound(q.where \o <<q.limit, q.offset>>, q.dataArgs)
<1>1. toks \in Seq(T)
  OBVIOUS
<1>2. FilterKeepsItsMeaning <=>
        (none \/ Parse(toks).ok =>
          /\ inData = inCount \o <<ten, twenty>>
          /\ none \/ \A passed \in SUBSET Tests(toks) : Holds(inCount, passed) <=> Holds(toks, passed))
  BY DEF FilterKeepsItsMeaning
<1> HIDE DEF toks
<1>3. PerPage(10) = 10 /\ Offset(3, 10) = 20
  <2>1. PerPage(10) = 10 /\ Page(3) = 3
    BY DEF PerPage, Page
  <2>2. Wrap(20) = 20
    BY MaxIntAssumption, WrapKeeps
  <2> QED
    BY <2>1, <2>2 DEF Offset
<1>4. /\ q.where = sql /\ q.countArgs = args /\ q.dataArgs = args \o <<ten, twenty>>
      /\ q.limit = Param(Len(args) + 1) /\ q.offset = Param(Len(args) + 2)
  BY <1>3 DEF List
<1> HIDE DEF q, ten, twenty
<1>5. ASSUME none \/ Parse(toks).ok PROVE inData = inCount \o <<ten, twenty>>
  <2>1. Sendable(sql, args)
    <3>1. CASE none
      <4>1. \A more : Bound(<<>>, more) = <<>>
        BY DEF Bound
      <4>2. Settled(<<>>, <<>>, <<>>) /\ <<>> \in Seq(T)
        BY <4>1 DEF Settled
      <4>3. Sendable(<<>>, <<>>)
        BY <4>2 DEF Sendable
      <4> QED
        BY <3>1, <4>3
    <3>2. CASE ~none
      <4>1. PICK h : Reader(Spoken(toks), {}, h)
        BY Readers
      <4>2. Means(toks, h, toks, sql, args) /\ args \in Seq(ToSet(toks))
        BY <1>1, <1>5, <3>2, <4>1, ParseMeans
      <4> HIDE DEF sql, args
      <4> QED
        BY <4>2 DEF Means, Sendable, Settled
    <3> QED
      BY <3>1, <3>2
  <2> HIDE DEF sql, args
  <2>2. PICK P, A, C : sql \in Seq(P) /\ args \in Seq(A) /\ \E b \in Seq(C) : Settled(sql, args, b)
    BY <2>1 DEF Sendable
  <2>3. PICK b \in Seq(C) : Settled(sql, args, b)
    BY <2>2
  <2>4. Shared(sql, args, ten, twenty, b)
    BY <2>2, <2>3, ArgumentsShared
  <2>5. inCount = b
    BY <1>4, <2>3 DEF Lengthens, Settled
  <2>6. inData = b \o <<ten, twenty>>
    BY <1>4, <2>4 DEF Shared
  <2> QED
    BY <2>5, <2>6
<1>6. ASSUME Parse(toks).ok, ~none, NEW passed PROVE Holds(inCount, passed) <=> Holds(toks, passed)
  <2>1. PICK h : Reader(Spoken(toks), passed, h)
    BY Readers
  <2>2. Means(toks, h, toks, sql, args)
    BY <1>1, <1>6, <2>1, ParseMeans
  <2> HIDE DEF sql, args
  <2>3. PICK b \in Seq(Spoken(toks)) :
          (h[b] <=> h[toks]) /\ \A more : Lengthens(more, args) => Bound(sql, more) = b
    BY <2>2 DEF Means
  <2>4. inCount = b
    BY <1>4, <2>3 DEF Lengthens
  <2>5. toks \in Seq(Spoken(toks))
    <3>1. toks \in Seq(ToSet(toks))
      BY <1>1 DEF ToSet
    <3>2. ToSet(toks) \subseteq Spoken(toks)
      BY DEF Spoken
    <3> QED
      BY <3>1, <3>2
  <2>6. Holds(b, passed) <=> h[b]
    BY <2>1, HoldsRead
  <2>7. Holds(toks, passed) <=> h[toks]
    BY <2>1, <2>5, HoldsRead
  <2> QED
    BY <2>3, <2>4, <2>6, <2>7
<1> QED
  BY <1>2, <1>5, <1>6
=============================================================================
