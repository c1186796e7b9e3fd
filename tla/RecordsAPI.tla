------------------------------ MODULE RecordsAPI ------------------------------
(***************************************************************************)
(* The life of one HTTP request of the record API and of the RPC endpoint  *)
(* (internal/api/handler.go, rpc.go, expand.go): how it borrows            *)
(* connections of the pool, opens the transaction that carries the         *)
(* caller's identity (withRLS, auth.SetRLSContext), runs its statement,    *)
(* reads the result, ends the transaction, answers and publishes an event. *)
(*                                                                         *)
(* Postgres and pgx are external.  What the handlers rely on is modelled:  *)
(*   - a statement outside a transaction commits by itself, after the rows *)
(*     it returns and before the end of its result; inside one it is up to *)
(*     the transaction.  Its row stays locked until then;                  *)
(*   - a COMMIT, also one that is implied, can be refused (deferred        *)
(*     constraints), and the answer to a statement can be lost;            *)
(*   - a result set that was not read to its end keeps its connection      *)
(*     busy: no other statement, COMMIT included, runs on it, and a COMMIT *)
(*     refused for that reason closes the connection, which rolls back;    *)
(*   - every call fails once the request's context is cancelled: what it   *)
(*     had already asked of the database may still happen;                 *)
(*   - set_config(..., true) and SET LOCAL end with their transaction.     *)
(*                                                                         *)
(* A request is modelled for one statement on one row; the COUNT query of  *)
(* handleList, which gives its connection back before the data query, is   *)
(* folded into that statement, and one relation is expanded.               *)
(***************************************************************************)
EXTENDS Naturals, Sequences, FiniteSets

CONSTANTS Requests,     \* the HTTP requests served
          Conns,        \* the connections of the pool (MaxConns of them)
          Rows,         \* primary keys of one table
          Kinds,        \* the kinds of request of this instance
          Faults,       \* may the database refuse a COMMIT, or its answer be lost
          NoConn, NoReq

AllKinds == {"read", "list", "create", "update", "delete",
             "rpcVoid", "rpcScalar", "rpcSet"}

ASSUME RecordsAssumption ==
  /\ Kinds \subseteq AllKinds /\ Kinds # {}
  /\ Rows # {}
  /\ NoConn \notin Conns
  /\ NoReq \notin Requests
  /\ Faults \in BOOLEAN

\* Kinds that change the database, that publish an event, that go through
\* scanRow (one row is read, the result set stays open), that may expand.
Writes     == {"create", "update", "delete", "rpcVoid", "rpcScalar", "rpcSet"}
Announced  == {"create", "update", "delete"}
OneRow     == {"read", "create", "update", "rpcScalar"}
Expandable == {"read", "list"}

Op == [kind : Kinds, claims : BOOLEAN, expand : BOOLEAN, row : Rows]

VARIABLES
  pc,         \* where each request's handler is
  op,         \* what each request asks for (arbitrary before it arrives)
  gone,       \* requests whose client disconnected (context cancelled)
  panicked,   \* requests whose handler panicked
  conn,       \* the connection of the request's main statement or transaction
  extra,      \* the second connection borrowed by fetchRelated
  result,     \* what the main statement returned: "row", "none" or "error"
  status,     \* the answer: "none" yet, "ok", "notfound" or "error"
  inTx,       \* connections with an open transaction
  busy,       \* connections with an unread result set
  ident,      \* the request whose claims the connection runs under
  writer,     \* the request whose transaction, open or implied, has written a row
  present,    \* rows that exist, as committed
  committed,  \* requests whose write is committed
  pending,    \* requests whose implied COMMIT is still to come
  refused,    \* requests whose COMMIT the database refused
  ranAs,      \* history: the identities each request's statements ran under
  events      \* events handed to the hub, in order

reqVars  == <<pc, op, gone, panicked, conn, extra, result, status>>
connVars == <<inTx, busy, ident>>
tableVars == <<present, committed, pending, refused>>
dbVars   == <<writer, tableVars>>
vars     == <<reqVars, connVars, dbVars, ranAs, events>>

PCs == {"idle", "acquire", "setrls", "exec", "scan", "expand", "fetch",
        "finish", "write", "publish", "cleanup", "end"}

TypeOK ==
  /\ pc \in [Requests -> PCs]
  /\ op \in [Requests -> Op]
  /\ gone \subseteq Requests /\ panicked \subseteq Requests
  /\ conn \in [Requests -> Conns \cup {NoConn}]
  /\ extra \in [Requests -> Conns \cup {NoConn}]
  /\ result \in [Requests -> {"none", "row", "error"}]
  /\ status \in [Requests -> {"none", "ok", "notfound", "error"}]
  /\ inTx \subseteq Conns
  /\ busy \subseteq Conns
  /\ ident \in [Conns -> Requests \cup {NoReq}]
  /\ writer \in [Rows -> Requests \cup {NoReq}]
  /\ present \subseteq Rows
  /\ committed \subseteq Requests /\ pending \subseteq Requests /\ refused \subseteq Requests
  /\ ranAs \in [Requests -> SUBSET (Requests \cup {NoReq})]
  /\ events \in Seq(Requests)

Init ==
  /\ pc = [r \in Requests |-> "idle"]
  /\ op = [r \in Requests |-> CHOOSE o \in Op : TRUE]
  /\ gone = {} /\ panicked = {}
  /\ conn = [r \in Requests |-> NoConn]
  /\ extra = [r \in Requests |-> NoConn]
  /\ result = [r \in Requests |-> "none"]
  /\ status = [r \in Requests |-> "none"]
  /\ inTx = {} /\ busy = {}
  /\ ident = [c \in Conns |-> NoReq]
  /\ writer = [k \in Rows |-> NoReq]
  /\ present \in SUBSET Rows
  /\ committed = {} /\ pending = {} /\ refused = {}
  /\ ranAs = [r \in Requests |-> {}]
  /\ events = <<>>

-----------------------------------------------------------------------------
Free(c) == \A r \in Requests : conn[r] # c /\ extra[r] # c

Goto(r, where) == pc' = [pc EXCEPT ![r] = where]
Answer(r, s) == status' = [status EXCEPT ![r] = s]

\* Mutated Release: set_config(..., false), an identity that outlives its
\* transaction.
ReleaseKeepsIdentity(r) ==
  /\ conn' = [conn EXCEPT ![r] = NoConn]
  /\ inTx' = inTx \ {conn[r]}
  /\ busy' = busy \ {conn[r]}
  /\ ident' = ident
  /\ writer' = [k \in Rows |-> IF writer[k] = r /\ r \notin pending THEN NoReq ELSE writer[k]]

\* The request's connection goes back to the pool.  A transaction still open
\* on it ends first (Commit and Rollback end it, and the pool destroys a
\* connection released in the middle of one): its identity and its row locks
\* end with it.  An implied COMMIT is not waited for.
Release(r) ==
  /\ conn' = [conn EXCEPT ![r] = NoConn]
  /\ inTx' = inTx \ {conn[r]}
  /\ busy' = busy \ {conn[r]}
  /\ ident' = [c \in Conns |-> IF c = conn[r] THEN NoReq ELSE ident[c]]
  /\ writer' = [k \in Rows |-> IF writer[k] = r /\ r \notin pending THEN NoReq ELSE writer[k]]

KeepConn == UNCHANGED <<conn, inTx, busy, ident, writer>>

\* The request's write becomes part of the committed table.
Apply(r) ==
  /\ committed' = committed \cup {r}
  /\ present' = CASE op[r].kind = "create" -> present \cup {op[r].row}
                  [] op[r].kind = "delete" -> present \ {op[r].row}
                  [] OTHER -> present

Wrote(r) == op[r].kind \in Writes /\ result[r] = "row"

-----------------------------------------------------------------------------
(***************************************************************************)
(* A request arrives and passes the handler's checks (resolveTable,        *)
(* requireWritable, requirePK, extractPK, decodeAndValidateBody), or is    *)
(* turned away by one of them before it touches the database.              *)
(***************************************************************************)
Arrive(r) ==
  /\ pc[r] = "idle"
  /\ \E o \in Op :
       /\ o.expand => o.kind \in Expandable
       /\ op' = [op EXCEPT ![r] = o]
  /\ Goto(r, "acquire")
  /\ UNCHANGED <<gone, panicked, conn, extra, result, status, connVars, dbVars, ranAs, events>>

TurnAway(r) ==
  /\ pc[r] = "idle"
  /\ Answer(r, "error")
  /\ Goto(r, "end")
  /\ UNCHANGED <<op, gone, panicked, conn, extra, result, connVars, dbVars, ranAs, events>>

\* The client disconnects: net/http cancels the request's context.
Disconnect(r) ==
  /\ pc[r] \notin {"idle", "end"} /\ r \notin gone
  /\ gone' = gone \cup {r}
  /\ UNCHANGED <<pc, op, panicked, conn, extra, result, status, connVars, dbVars, ranAs, events>>

\* withRLS: with claims, pool.Begin; without, the statement itself takes a
\* connection of the pool.
Acquire(r, c) ==
  /\ pc[r] = "acquire"
  /\ Free(c)
  /\ conn' = [conn EXCEPT ![r] = c]
  /\ inTx' = IF op[r].claims THEN inTx \cup {c} ELSE inTx
  /\ Goto(r, IF op[r].claims THEN "setrls" ELSE "exec")
  /\ UNCHANGED <<op, gone, panicked, extra, result, status, busy, ident, dbVars, ranAs, events>>

SetRLSContext(r) ==
  /\ pc[r] = "setrls"
  /\ ident' = [ident EXCEPT ![conn[r]] = r]
  /\ Goto(r, "exec")
  /\ UNCHANGED <<op, gone, panicked, conn, extra, result, status, inTx, busy, dbVars, ranAs, events>>

\* What the main statement can return.  A policy may hide any row from a
\* caller with claims; a constraint, a policy or a trigger may refuse any
\* statement; a BEFORE trigger may drop an INSERT silently.
Outcomes(r) ==
  LET o == op[r]
      there == o.row \in present
      found == IF there THEN {"row"} ELSE {}
      missed == IF there /\ ~o.claims THEN {} ELSE {"none"}
  IN {"error"} \cup
     CASE o.kind = "create" -> (IF there THEN {} ELSE {"row", "none"})
       [] o.kind \in {"read", "update", "delete"} -> found \cup missed
       [] OTHER -> {"row"}

\* Mutated Execute: withRLS returns the pool instead of its transaction.
ExecuteOutsideTx(r) ==
  /\ pc[r] = "exec"
  /\ op[r].kind \in Writes => writer[op[r].row] = NoReq
  /\ \E out \in Outcomes(r) :
       /\ result' = [result EXCEPT ![r] = out]
       /\ IF out = "row" /\ op[r].kind \in Writes
          THEN Apply(r) /\ UNCHANGED <<writer, pending, refused>>
          ELSE UNCHANGED dbVars
  /\ ranAs' = [ranAs EXCEPT ![r] = @ \cup {ident[conn[r]]}]
  /\ Goto(r, "scan")
  /\ UNCHANGED <<op, gone, panicked, conn, extra, status, connVars, events>>

\* Postgres runs the statement.  A write waits for the row's last writer.  Outside
\* a transaction the COMMIT follows by itself.
Execute(r) ==
  /\ pc[r] = "exec"
  /\ op[r].kind \in Writes => writer[op[r].row] = NoReq
  /\ \E out \in Outcomes(r) :
       /\ result' = [result EXCEPT ![r] = out]
       /\ \/ /\ out # "row" \/ op[r].kind \notin Writes
             /\ UNCHANGED dbVars
          \/ /\ out = "row" /\ op[r].kind \in Writes
             /\ writer' = [writer EXCEPT ![op[r].row] = r]
             /\ pending' = IF op[r].claims THEN pending ELSE pending \cup {r}
             /\ UNCHANGED <<present, committed, refused>>
  /\ ranAs' = [ranAs EXCEPT ![r] = @ \cup {ident[conn[r]]}]
  /\ Goto(r, "scan")
  /\ UNCHANGED <<op, gone, panicked, conn, extra, status, connVars, events>>

\* The implied COMMIT, or the database's refusal.  Exec and scanRows read as far as
\* the error; scanRow does not, and nobody asks rows.Close for it.
Settle(r) ==
  /\ r \in pending
  /\ pending' = pending \ {r}
  /\ writer' = [k \in Rows |-> IF writer[k] = r THEN NoReq ELSE writer[k]]
  /\ \/ Apply(r) /\ UNCHANGED <<result, refused>>
     \/ /\ Faults
        /\ refused' = refused \cup {r}
        /\ result' = IF op[r].kind \in OneRow THEN result ELSE [result EXCEPT ![r] = "error"]
        /\ UNCHANGED <<present, committed>>
  /\ UNCHANGED <<pc, op, gone, panicked, conn, extra, status, connVars, ranAs, events>>

\* Mutated Fail: the error return after scanRow without done(err).
FailWithoutDone(r) ==
  /\ \/ pc[r] \in {"acquire", "exec", "scan"} /\ r \in gone
     \/ pc[r] = "setrls"
     \/ pc[r] = "scan" /\ (result[r] = "error" \/ Faults)
  /\ IF pc[r] = "scan" THEN KeepConn ELSE Release(r)
  /\ Answer(r, "error")
  /\ Goto(r, "end")
  /\ UNCHANGED <<op, gone, panicked, extra, result, tableVars, ranAs, events>>

\* Every early return with an error: withRLS failed (begin, or the identity
\* could not be set), the statement failed, its result could not be read, or
\* the client went away: done(err), then the error response.  A statement that
\* ran outside a transaction may have had its effect nevertheless.
Fail(r) ==
  /\ \/ pc[r] \in {"acquire", "exec", "scan"} /\ r \in gone
     \/ pc[r] = "setrls"
     \/ pc[r] = "scan" /\ (result[r] = "error" \/ Faults)
  /\ Release(r)
  /\ Answer(r, "error")
  /\ Goto(r, "end")
  /\ UNCHANGED <<op, gone, panicked, extra, result, tableVars, ranAs, events>>

\* Exec and scanRows read the result to its end, past an implied COMMIT, as does
\* scanRow when there is no row: a connection used outside a transaction then
\* goes back to the pool.  scanRow reads one row and leaves the result set open.
Scan(r) ==
  /\ pc[r] = "scan" /\ result[r] # "error"
  /\ r \in pending => op[r].kind \in OneRow
  /\ LET unread == op[r].kind \in OneRow /\ result[r] = "row"
     IN \/ unread /\ busy' = busy \cup {conn[r]} /\ UNCHANGED <<conn, inTx, ident, writer>>
        \/ ~unread /\ op[r].claims /\ KeepConn
        \/ ~unread /\ ~op[r].claims /\ Release(r)
  /\ Goto(r, IF op[r].expand /\ result[r] = "row" THEN "expand" ELSE "finish")
  /\ UNCHANGED <<op, gone, panicked, extra, result, status, tableVars, ranAs, events>>

-----------------------------------------------------------------------------
(***************************************************************************)
(* expandRecords.  With claims the related rows are fetched on the         *)
(* transaction's connection, which refuses while it is busy; without, on a *)
(* second connection of the pool, while handleRead still holds the first.  *)
(* Errors are logged and the expansion left out.                           *)
(***************************************************************************)
ExpandInTx(r) ==
  /\ pc[r] = "expand" /\ op[r].claims
  /\ ranAs' = IF conn[r] \in busy THEN ranAs
              ELSE [ranAs EXCEPT ![r] = @ \cup {ident[conn[r]]}]
  /\ Goto(r, "finish")
  /\ UNCHANGED <<op, gone, panicked, conn, extra, result, status, connVars, dbVars, events>>

\* collectUniqueValues meets a key that Go cannot hash, before any query.  The
\* server's Recoverer answers; rows.Close is deferred, done is not: a transaction
\* stays open for ever, and so does its connection.
ExpandPanics(r) ==
  /\ pc[r] = "expand"
  /\ panicked' = panicked \cup {r}
  /\ \/ ~op[r].claims /\ Release(r)
     \/ op[r].claims /\ busy' = busy \ {conn[r]} /\ UNCHANGED <<conn, inTx, ident, writer>>
  /\ Answer(r, "error")
  /\ Goto(r, "end")
  /\ UNCHANGED <<op, gone, extra, result, tableVars, ranAs, events>>

ExpandAcquire(r, c) ==
  /\ pc[r] = "expand" /\ ~op[r].claims
  /\ Free(c)
  /\ extra' = [extra EXCEPT ![r] = c]
  /\ Goto(r, "fetch")
  /\ UNCHANGED <<op, gone, panicked, conn, result, status, connVars, dbVars, ranAs, events>>

ExpandCancelled(r) ==
  /\ pc[r] = "expand" /\ ~op[r].claims /\ r \in gone
  /\ Goto(r, "finish")
  /\ UNCHANGED <<op, gone, panicked, conn, extra, result, status, connVars, dbVars, ranAs, events>>

\* Mutated FetchRelated: the nested expansion starts before rows.Close.
FetchRelatedNests(r) ==
  /\ pc[r] = "fetch"
  /\ Goto(r, "expand")
  /\ UNCHANGED <<op, gone, panicked, conn, extra, result, status, connVars, dbVars, ranAs, events>>

FetchRelated(r) ==
  /\ pc[r] = "fetch"
  /\ ranAs' = [ranAs EXCEPT ![r] = @ \cup {ident[extra[r]]}]
  /\ extra' = [extra EXCEPT ![r] = NoConn]
  /\ Goto(r, "finish")
  /\ UNCHANGED <<op, gone, panicked, conn, result, status, connVars, dbVars, events>>

-----------------------------------------------------------------------------
Missing(r) == result[r] = "none" /\ op[r].kind \in {"read", "update", "delete"}

\* Records are written to the client; 204 and a short answer need not leave net/http's
\* buffer before the handler is over.
Writing(r) == result[r] = "row" /\ op[r].kind \notin {"delete", "rpcVoid"}

\* What follows the answer.
AfterAnswer(r) ==
  Goto(r, IF ~Missing(r) /\ op[r].kind \in Announced THEN "publish" ELSE "cleanup")

\* Mutated Respond: the not-found return of handleUpdate forgotten.
RespondAnnouncesMissing(r) ==
  /\ Answer(r, IF Missing(r) THEN "notfound" ELSE "ok")
  /\ Goto(r, IF Writing(r) THEN "write" ELSE IF op[r].kind \in Announced THEN "publish" ELSE "cleanup")

(***************************************************************************)
(* done(nil), then the answer.  The error of Commit is dropped, so both    *)
(* outcomes of the COMMIT lead to the same answer.                         *)
(***************************************************************************)
Respond(r) ==
  /\ Answer(r, IF Missing(r) THEN "notfound" ELSE "ok")
  /\ IF Writing(r) THEN Goto(r, "write") ELSE AfterAnswer(r)

NothingToCommit(r) ==
  /\ pc[r] = "finish" /\ ~op[r].claims
  /\ Respond(r)
  /\ UNCHANGED <<op, gone, panicked, conn, extra, result, connVars, dbVars, ranAs, events>>

Commit(r) ==
  /\ pc[r] = "finish" /\ op[r].claims
  /\ conn[r] \notin busy
  /\ IF Wrote(r) THEN Apply(r) ELSE UNCHANGED <<present, committed>>
  /\ Release(r)
  /\ Respond(r)
  /\ UNCHANGED <<op, gone, panicked, extra, result, pending, refused, ranAs, events>>

CommitFails(r) ==
  /\ pc[r] = "finish" /\ op[r].claims
  /\ conn[r] \in busy \/ r \in gone \/ Faults
  /\ refused' = IF conn[r] \in busy \/ r \in gone THEN refused ELSE refused \cup {r}
  /\ Release(r)
  /\ Respond(r)
  /\ UNCHANGED <<op, gone, panicked, extra, result, present, committed, pending, ranAs, events>>

\* The client has read enough of the answer, or is gone.
Deliver(r) ==
  /\ pc[r] = "write"
  /\ AfterAnswer(r)
  /\ UNCHANGED <<op, gone, panicked, conn, extra, result, status, connVars, dbVars, ranAs, events>>

\* publishEvent runs after the answer was written.
Publish(r) ==
  /\ pc[r] = "publish"
  /\ events' = Append(events, r)
  /\ Goto(r, "cleanup")
  /\ UNCHANGED <<op, gone, panicked, conn, extra, result, status, connVars, dbVars, ranAs>>

\* The deferred rows.Close reads what is left: only now a connection used outside
\* a transaction with an unread result goes back to the pool.
Cleanup(r) ==
  /\ pc[r] = "cleanup"
  /\ r \notin pending \/ r \in gone
  /\ Release(r)
  /\ Goto(r, "end")
  /\ UNCHANGED <<op, gone, panicked, extra, result, status, tableVars, ranAs, events>>

-----------------------------------------------------------------------------
Handle(r) ==
  \/ \E c \in Conns : Acquire(r, c) \/ ExpandAcquire(r, c)
  \/ SetRLSContext(r) \/ Execute(r) \/ Fail(r) \/ Scan(r)
  \/ ExpandInTx(r) \/ ExpandCancelled(r) \/ ExpandPanics(r) \/ FetchRelated(r)
  \/ NothingToCommit(r) \/ Commit(r) \/ CommitFails(r)
  \/ Publish(r) \/ Cleanup(r)

AllServed == (\A r \in Requests : pc[r] = "end") /\ UNCHANGED vars

Next ==
  \/ \E r \in Requests :
       Arrive(r) \/ TurnAway(r) \/ Disconnect(r) \/ Handle(r) \/ Deliver(r) \/ Settle(r)
  \/ AllServed

Spec == Init /\ [][Next]_vars

\* A handler's goroutine is scheduled, and the database ends what it began.  Clients
\* arrive and leave as they like, and nothing makes one read its answer that stays
\* (server.go sets no WriteTimeout): only the write to one that left fails.
FairSpec ==
  Spec /\ \A r \in Requests : /\ WF_vars(Handle(r))
                              /\ WF_vars(r \in gone /\ Deliver(r))
                              /\ WF_vars(Settle(r))

-----------------------------------------------------------------------------
(***************************************************************************)
(* Properties.                                                             *)
(***************************************************************************)
\* Whatever path a handler takes (early return, cancelled client, refused
\* COMMIT), once it is over it holds no connection, no transaction and no row
\* lock but that of a COMMIT still to come; a connection in the pool is neither
\* busy nor in a transaction nor carries anyone's identity; and no two requests
\* share a connection.  A handler that panicked in expandRecords with claims is
\* the exception: done is not deferred, and its connection is lost to the pool.
PoolHygiene ==
  /\ \A r \in Requests : pc[r] \in {"idle", "end"} =>
       /\ conn[r] = NoConn \/ (r \in panicked /\ op[r].claims)
       /\ extra[r] = NoConn
       /\ \A k \in Rows : writer[k] = r => r \in pending
  /\ \A c \in Conns : Free(c) => c \notin inTx \cup busy /\ ident[c] = NoReq
  /\ \A r, s \in Requests : r # s =>
       {conn[r], extra[r]} \cap {conn[s], extra[s]} \subseteq {NoConn}

\* Every statement of a request with claims runs under that caller's identity,
\* and no statement of a request without claims runs under anyone's, although
\* all of them share the pool's connections (withRLS, SetRLSContext).
RunsAsCaller ==
  \A r \in Requests : ranAs[r] \subseteq {IF op[r].claims THEN r ELSE NoReq}

\* A request with claims that is answered with an error has changed nothing
\* (withRLS: "rolls back on error").
ErrorLeavesNoTrace ==
  \A r \in Requests : op[r].claims /\ status[r] = "error" => r \notin committed

\* A create, update or delete is announced exactly once when it was answered with
\* success and never when it was not.  What is announced without claims is in the
\* database (unless a trigger dropped the INSERT) - a delete at once, a create or
\* an update unless the database still has to commit it or has refused to: it is
\* announced after its row, not after its COMMIT (scanRow, publishEvent).
AnnouncedOnce ==
  \A r \in Requests :
    LET times == Cardinality({i \in DOMAIN events : events[i] = r})
    IN /\ times <= 1
       /\ pc[r] = "end" /\ op[r].kind \in Announced => (times = 1 <=> status[r] = "ok")
       /\ times = 1 /\ ~op[r].claims /\ result[r] = "row" =>
            r \in committed \/ (op[r].kind \in OneRow /\ r \in pending \cup refused)

\* What handler.go:67 says of withRLS: a write with claims that is answered
\* with success, by a server whose COMMITs the database does not refuse and
\* for a client that stayed, is committed.
AcknowledgedWritesCommit ==
  \A r \in Requests :
    op[r].claims /\ status[r] = "ok" /\ Wrote(r) /\ r \notin gone => r \in committed

\* Requests that wait for a connection of the pool.
Waiting(r) ==
  \/ pc[r] = "acquire"
  \/ pc[r] = "expand" /\ ~op[r].claims

\* Connections that nobody has to give back: held by handleRead while fetchRelated
\* asks for a second one, by an answer its client does not read while rows.Close is
\* deferred, by a transaction a panic left open.
Taken(c) ==
  \E r \in Requests :
    /\ conn[r] = c
    /\ \/ pc[r] = "expand" /\ op[r].kind = "read" /\ ~op[r].claims /\ r \notin gone
       \/ pc[r] = "write" /\ op[r].kind \in OneRow /\ ~op[r].claims /\ r \notin gone
       \/ r \in panicked
PoolTaken == \A c \in Conns : Taken(c)

\* What a handler waits for: its client, a connection of the pool, the row's last writer.
Blocked(r) ==
  /\ r \notin gone
  /\ \/ pc[r] = "write"
     \/ Waiting(r) /\ \A c \in Conns : ~Free(c)
     \/ pc[r] = "exec" /\ op[r].kind \in Writes /\ writer[op[r].row] # NoReq

\* Handlers wait for each other in a circle only by way of nested reads: when no
\* handler can go on and no COMMIT is to come, every connection of the pool is
\* taken, or all there are write answers.  Row locks and transactions take no
\* part in it (withRLS, handleRead, expandManyToOne).
OnlyNestingBlocks ==
  (\A r \in Requests : pc[r] \in {"idle", "end"} \/ Blocked(r)) /\ pending = {} =>
    PoolTaken \/ \A r \in Requests : pc[r] \in {"idle", "write", "end"}

\* Every request that arrived is answered and its handler ends, whatever locks and
\* connections it has to wait for and whether or not its client stays - but for
\* answers that a client who stays does not read, and unless the pool ends up taken
\* for good.
RequestsComplete ==
  \A r \in Requests :
    <>[]PoolTaken \/ (pc[r] # "idle" ~> pc[r] = "end" \/ (pc[r] = "write" /\ r \notin gone))

=============================================================================
