--------------------------- MODULE AuthServiceProofs ---------------------------
(***************************************************************************)
(* For any number of calls, accounts and identities, with every fault: the *)
(* types of the auth service, that a refresh token which was used up is    *)
(* refused from then on, that an OAuth state lets one login in, that       *)
(* sessions implement TokenLedger, that passwords and addresses change by  *)
(* mail only, that an OAuth identity keeps its account, that what a call   *)
(* has cleared stays cleared, and that passwords and tokens are outlived   *)
(* or lost in the named races only.                                        *)
(***************************************************************************)
EXTENDS AuthService, TLAPS

\* What a call is by the statement it is at.
Phase(kind, where) ==
  /\ where = "insertUser" => kind \in {"register", "create"}
  /\ where = "readUser" => kind \in {"login", "forgot"}
  /\ where = "session" => kind \in {"register", "login", "oauth"}
  /\ where \in {"readSession", "rotate"} => kind = "refresh"
  /\ where = "deleteSession" => kind = "logout"
  /\ where = "clearResets" => kind \in {"forgot", "reset"}
  /\ where = "insertReset" => kind = "forgot"
  /\ where \in {"readReset", "setPassword", "clearSessions"} => kind = "reset"
  /\ where = "clearVerifs" => kind \in {"register", "resend", "verify"}
  /\ where = "insertVerif" => kind \in {"register", "resend"}
  /\ where = "mail" => kind \in {"register", "forgot", "resend"}
  /\ where \in {"readVerif", "markVerified"} => kind = "verify"
  /\ where = "generate" => kind = "redirect"
  /\ where \in {"validate", "exchange", "readLink", "readByEmail", "insertOAuthUser", "link"} =>
       kind = "oauth"

Phases ==
  \A c \in Calls :
    /\ Phase(op[c].kind, pc[c])
    /\ pc[c] = "idle" => found[c] = None
    /\ answer[c] # "none" => pc[c] = "end"
    /\ pc[c] \in {"readLink", "readByEmail", "insertOAuthUser", "link"} =>
         op[c].ident \in Identities

\* A row, and the token in it, come from calls that have ended, and no two rows
\* have one token.
Issued ==
  /\ \A s \in Calls : token[s] # None => pc[s] = "end" /\ pc[token[s]] = "end"
  /\ \A s, t \in Calls : token[s] = token[t] /\ token[s] # None => s = t

\* What a client presents, it was given.
Presented ==
  \A c \in Calls :
    pc[c] # "idle" /\ op[c].kind \in {"refresh", "logout", "oauth"} =>
      op[c].uses \in Calls /\ pc[op[c].uses] = "end"

\* A refresh that is about to write its session is about to use up its token, or
\* somebody else has.
Rotating ==
  \A c \in Calls : pc[c] = "rotate" =>
    token[found[c]] = op[c].uses \/ \A s \in Calls : token[s] # op[c].uses

\* The calls that a state has let in, and the states that are left.
LetIn(c) ==
  /\ op[c].kind = "oauth"
  /\ \/ pc[c] \in {"exchange", "readLink", "readByEmail", "insertOAuthUser", "link", "session"}
     \/ answer[c] = "ok"
StatesSpent ==
  /\ \A s \in states : pc[s] = "end"
  /\ \A c \in Calls : LetIn(c) =>
       op[c].uses \notin states /\ \A d \in Calls : LetIn(d) /\ op[d].uses = op[c].uses => d = c

IInv == /\ TypeOK /\ Phases /\ Issued /\ Presented /\ Rotating /\ StatesSpent
        /\ UsedTokensRefused

\* None is neither a call nor an account.
LEMMA NoneIsNothing == None \notin Calls /\ None \notin Accounts /\ Emails \subseteq Accounts
BY AuthAssumption DEF Accounts

\* The program counters, spelled out.
LEMMA Statements ==
  /\ \A k \in AllKinds : First[k] \in PCs
  /\ {"insertUser", "readUser", "readSession", "deleteSession", "readReset", "clearVerifs",
      "readVerif", "generate", "validate", "idle", "rotate", "session", "clearResets",
      "insertReset", "setPassword", "clearSessions", "insertVerif", "mail", "markVerified",
      "exchange", "readLink", "readByEmail", "insertOAuthUser", "link", "end"} \subseteq PCs
  /\ First = [register |-> "insertUser",  create |-> "insertUser",  login  |-> "readUser",
          refresh  |-> "readSession", logout |-> "deleteSession",
          forgot   |-> "readUser",    reset  |-> "readReset",
          resend   |-> "clearVerifs", verify |-> "readVerif",
          redirect |-> "generate",    oauth  |-> "validate"]
<1>1. /\ First["register"] = "insertUser" /\ First["login"] = "readUser"
      /\ First["refresh"] = "readSession" /\ First["logout"] = "deleteSession"
      /\ First["reset"] = "readReset" /\ First["resend"] = "clearVerifs"
      /\ First["verify"] = "readVerif" /\ First["redirect"] = "generate"
      /\ First["oauth"] = "validate"
  BY DEF First
<1>2. {"insertUser", "readUser", "readSession", "deleteSession", "readReset", "clearVerifs",
       "readVerif", "generate", "validate"} \subseteq {First[k] : k \in AllKinds}
  BY <1>1 DEF AllKinds
<1> QED BY <1>2 DEF PCs, First

\* The rows of each table.
LEMMA SessionRows == /\ Rows("sessions") = {s \in Calls : token[s] # None}
                     /\ Rows("resets") = resets /\ Rows("verifs") = verifs /\ Rows("states") = states
                     /\ Valid("sessions") \subseteq {s \in Calls : token[s] # None}
                     /\ Valid("states") \subseteq states
BY DEF Rows, Valid

\* Where a call begins tells its kind.
LEMMA FirstStatements ==
  \A k \in AllKinds :
    /\ First[k] \in PCs
    /\ Phase(k, First[k])
    /\ First[k] \notin {"idle", "end", "rotate", "link", "session", "exchange", "readLink",
                        "readByEmail", "insertOAuthUser", "markVerified"}
<1> SUFFICES ASSUME NEW k \in AllKinds PROVE
    /\ First[k] \in PCs
    /\ Phase(k, First[k])
    /\ First[k] \notin {"idle", "end", "rotate", "link", "session", "exchange", "readLink",
                        "readByEmail", "insertOAuthUser", "markVerified"}
  OBVIOUS
<1>1. CASE k \in {"register", "create", "login", "forgot"} BY <1>1, Statements DEF First, Phase
<1>2. CASE k \in {"refresh", "logout", "reset"} BY <1>2, Statements DEF First, Phase
<1>3. CASE k \in {"resend", "verify", "redirect", "oauth"} BY <1>3, Statements DEF First, Phase
<1> QED BY <1>1, <1>2, <1>3 DEF AllKinds

\* A call that goes on, or returns.
LEMMA Moves ==
  ASSUME TypeOK, NEW c \in Calls,
         (\E where \in PCs : Goto(c, where)) \/ \E a \in {"ok", "refused", "error", "unheard"} : Return(c, a)
  PROVE  /\ pc' \in [Calls -> PCs] /\ answer' \in [Calls -> {"none", "ok", "refused", "error", "unheard"}]
         /\ \A d \in Calls : d # c => pc'[d] = pc[d] /\ answer'[d] = answer[d]
         /\ answer'[c] # answer[c] => pc'[c] = "end"
<1>1. ASSUME NEW where \in PCs, Goto(c, where)
      PROVE  /\ pc' \in [Calls -> PCs] /\ answer' = answer
             /\ \A d \in Calls : d # c => pc'[d] = pc[d]
  BY <1>1 DEF TypeOK, Goto
<1>2. ASSUME NEW a \in {"ok", "refused", "error", "unheard"}, Return(c, a)
      PROVE  /\ pc' \in [Calls -> PCs] /\ answer' \in [Calls -> {"none", "ok", "refused", "error", "unheard"}]
             /\ \A d \in Calls : d # c => pc'[d] = pc[d] /\ answer'[d] = answer[d]
             /\ pc'[c] = "end"
  BY <1>2, Statements DEF TypeOK, Return
<1> QED BY <1>1, <1>2 DEF TypeOK

\* A call whose statement took effect without its being told.
LEMMA Unheards ==
  ASSUME NEW c \in Calls, Unheard(c)
  PROVE  \/ op[c].kind = "register" /\ pc[c] = "insertVerif" /\ Goto(c, "session")
         \/ op[c].kind = "forgot" /\ Return(c, "ok")
         \/ op[c].kind # "forgot" /\ Return(c, "unheard")
BY DEF Unheard, GiveUp

\* What the provider tells.
LEMMA Reported ==
  ASSUME TypeOK, NEW c \in Calls, Exchange(c)
  PROVE  /\ op' \in [Calls -> Op]
         /\ op'[c].kind = op[c].kind /\ op'[c].uses = op[c].uses /\ op'[c].ident \in Identities
         /\ \A d \in Calls : d # c => op'[d] = op[d]
<1>1. PICK i \in Identities :
        \E e \in Emails \cup {Placeholder(i)} : op' = [op EXCEPT ![c].ident = i, ![c].email = e]
  BY DEF Exchange
<1>2. PICK e \in Emails \cup {Placeholder(i)} : op' = [op EXCEPT ![c].ident = i, ![c].email = e]
  BY <1>1
<1>3. e \in Accounts BY DEF Accounts
<1>4. op[c] \in Op BY DEF TypeOK
<1>5. [[op[c] EXCEPT !.ident = i] EXCEPT !.email = e] \in Op BY <1>3, <1>4 DEF Op
<1>6. op' = [op EXCEPT ![c] = [[op[c] EXCEPT !.ident = i] EXCEPT !.email = e]]
  BY <1>2, <1>4 DEF TypeOK
<1>7. op'[c] = [[op[c] EXCEPT !.ident = i] EXCEPT !.email = e] BY <1>6 DEF TypeOK
<1>8. op'[c].kind = op[c].kind /\ op'[c].uses = op[c].uses /\ op'[c].ident = i
  BY <1>7, <1>4 DEF Op
<1> QED BY <1>5, <1>6, <1>8 DEF TypeOK

\* A request that arrives.
LEMMA Arrivals ==
  ASSUME TypeOK, Phases, NEW c \in Calls, Arrive(c)
  PROVE  \E o \in Op :
           /\ Presentable(o) /\ o.kind \in AllKinds
           /\ op' = [op EXCEPT ![c] = o] /\ pc' = [pc EXCEPT ![c] = First[o.kind]]
           /\ pc[c] = "idle" /\ found[c] = None /\ UNCHANGED answer
           /\ old' \in [Calls -> [Table -> SUBSET Calls]]
           /\ UNCHANGED <<found, oauth, tables, mailed, known, missed, late>>
<1>1. PICK o \in Op : /\ Presentable(o) /\ op' = [op EXCEPT ![c] = o]
                      /\ Remember(c, o.kind) /\ Goto(c, First[o.kind])
  BY DEF Arrive
<1>2. o.kind \in AllKinds BY AuthAssumption DEF Op
<1>3. old' \in [Calls -> [Table -> SUBSET Calls]]
  <2>1. [t \in Table |-> IF t \in Clears[o.kind] THEN Rows(t) ELSE {}] \in [Table -> SUBSET Calls]
    BY SessionRows DEF Table, TypeOK
  <2> QED BY <1>1, <2>1 DEF Remember, TypeOK
<1> QED BY <1>1, <1>2, <1>3 DEF Arrive, Goto, Phases, Phase

\* What an arrival changes.
LEMMA Arrived ==
  ASSUME TypeOK, Phases, NEW c \in Calls, Arrive(c)
  PROVE  /\ pc[c] = "idle" /\ found[c] = None
         /\ UNCHANGED <<answer, found, token, states>>
         /\ \A d \in Calls : d # c => op'[d] = op[d] /\ pc'[d] = pc[d]
         /\ Phase(op'[c].kind, pc'[c])
         /\ pc'[c] \notin {"idle", "end", "rotate", "link", "session", "exchange", "readLink",
                           "readByEmail", "insertOAuthUser", "markVerified"}
         /\ op'[c].kind \in {"refresh", "logout", "oauth"} =>
              op'[c].uses \in Calls /\ answer[op'[c].uses] = "ok"
<1>1. PICK o \in Op : /\ Presentable(o) /\ o.kind \in AllKinds
                      /\ op' = [op EXCEPT ![c] = o] /\ pc' = [pc EXCEPT ![c] = First[o.kind]]
                      /\ pc[c] = "idle" /\ found[c] = None /\ UNCHANGED answer
                      /\ UNCHANGED <<found, oauth, tables, mailed, known, missed, late>>
  BY Arrivals
<1>2. /\ op'[c] = o /\ pc'[c] = First[o.kind]
      /\ \A d \in Calls : d # c => op'[d] = op[d] /\ pc'[d] = pc[d]
  BY <1>1 DEF TypeOK
<1>3. o.kind \in {"refresh", "logout", "oauth"} => o.uses \in Calls /\ answer[o.uses] = "ok"
  BY <1>1 DEF Presentable, Held
<1>4. UNCHANGED <<answer, found, token, states>> BY <1>1 DEF oauth, tables
<1>5. /\ Phase(o.kind, First[o.kind])
      /\ First[o.kind] \notin {"idle", "end", "rotate", "link", "session", "exchange", "readLink",
                               "readByEmail", "insertOAuthUser", "markVerified"}
  BY <1>1, FirstStatements
<1> QED BY <1>1, <1>2, <1>3, <1>4, <1>5

\* The sessions there are after a step.
LEMMA SessionRowsNext == Rows("sessions")' = {s \in Calls : token'[s] # None}
BY DEF Rows

\* The statement of one call moves it alone.
LEMMA PhasesMove ==
  ASSUME Phases, NEW c \in Calls,
         \A d \in Calls : d # c => /\ op'[d] = op[d] /\ pc'[d] = pc[d]
                                   /\ found'[d] = found[d] /\ answer'[d] = answer[d],
         Phase(op'[c].kind, pc'[c]),
         pc'[c] = "idle" => found'[c] = None,
         answer'[c] # "none" => pc'[c] = "end",
         pc'[c] \in {"readLink", "readByEmail", "insertOAuthUser", "link"} => op'[c].ident \in Identities
  PROVE  Phases'
BY DEF Phases, Phase, Phase

\* What leaves the tokens alone leaves the refreshes under way alone.
LEMMA RotatingStays ==
  ASSUME Rotating, UNCHANGED token,
         \A c \in Calls : pc'[c] = "rotate" =>
           pc[c] = "rotate" /\ op'[c].uses = op[c].uses /\ found'[c] = found[c]
  PROVE  Rotating'
BY DEF Rotating

\* So does what only takes tokens away.
LEMMA RotatingThins ==
  ASSUME Rotating, Issued, Presented, Phases, TypeOK,
         \A s \in Calls : token'[s] \in {token[s], None},
         \A c \in Calls : pc'[c] = "rotate" => pc[c] = "rotate", UNCHANGED <<op, found>>
  PROVE  Rotating'
<1> SUFFICES ASSUME NEW c \in Calls, pc[c] = "rotate"
             PROVE  token'[found[c]] = op[c].uses \/ \A s \in Calls : token'[s] # op[c].uses
  BY DEF Rotating
<1>1. op[c].uses \in Calls /\ op[c].uses # None BY NoneIsNothing DEF Presented, Phases, Phase, Phase
<1>2. found[c] \in Calls BY DEF TypeOK
<1>3. CASE token[found[c]] = op[c].uses
  <2>1. \A s \in Calls : token[s] = op[c].uses => s = found[c] BY <1>1, <1>2, <1>3 DEF Issued
  <2> QED BY <1>1, <1>2, <2>1
<1>4. CASE \A s \in Calls : token[s] # op[c].uses
  BY <1>1, <1>4
<1> QED BY <1>3, <1>4 DEF Rotating

\* The invariant holds at the beginning.
LEMMA InitIInv == Init => IInv
<1> SUFFICES ASSUME Init PROVE IInv OBVIOUS
<1>1. /\ (CHOOSE k \in Kinds : TRUE) \in Kinds /\ (CHOOSE e \in Emails : TRUE) \in Accounts
  BY AuthAssumption, NoneIsNothing
<1>2. TypeOK
  <2>1. op \in [Calls -> Op]
    BY <1>1 DEF Init, Op
  <2> QED BY <2>1, NoneIsNothing DEF Init, TypeOK, PCs, Table
<1>3. Phases /\ Presented /\ Rotating BY DEF Init, Phases, Phase, Presented, Rotating
<1>4. Issued BY DEF Init, Issued
<1>5. StatesSpent /\ UsedTokensRefused BY DEF Init, StatesSpent, LetIn, UsedTokensRefused, Took
<1> QED BY <1>2, <1>3, <1>4, <1>5 DEF IInv

\* Every statement keeps the types.
LEMMA TypeOKKept == ASSUME IInv, [Next]_vars PROVE TypeOK'
<1> USE DEF IInv, TypeOK
<1>1. ASSUME NEW c0 \in Calls, Arrive(c0) PROVE TypeOK'
  <2>1. PICK o \in Op :
           /\ Presentable(o) /\ o.kind \in AllKinds
           /\ op' = [op EXCEPT ![c0] = o] /\ pc' = [pc EXCEPT ![c0] = First[o.kind]]
           /\ pc[c0] = "idle" /\ found[c0] = None /\ UNCHANGED answer
           /\ old' \in [Calls -> [Table -> SUBSET Calls]]
           /\ UNCHANGED <<found, oauth, tables, mailed, known, missed, late>>
    BY <1>1, Arrivals
  <2>2. pc' \in [Calls -> PCs] /\ op' \in [Calls -> Op]
    BY <2>1, FirstStatements
  <2>3. \A c \in Calls :
          /\ pc'[c] = "rotate" => found'[c] \in Calls
          /\ op'[c].kind = "oauth" => found'[c] \in Accounts \cup {None}
          /\ pc'[c] = "link" => found'[c] # None
    BY <2>1, FirstStatements
  <2> QED BY <2>1, <2>2, <2>3 DEF oauth, tables
<1>2. ASSUME NEW c0 \in Calls, InsertUser(c0) PROVE TypeOK'
  <2>1. pc' \in [Calls -> PCs] /\ answer' \in [Calls -> {"none", "ok", "refused", "error", "unheard"}]
    <3>1. \/ \E where \in {"clearVerifs", "session"} : Goto(c0, where)
          \/ \E a \in {"ok", "refused", "unheard"} : Return(c0, a)
      BY <1>2, Unheards DEF InsertUser
    <3> QED BY <3>1, Statements, Moves
  <2>2. op' \in [Calls -> Op] /\ found' \in [Calls -> Calls \cup Accounts \cup {None}]
    BY <1>2 DEF InsertUser, callVars
  <2>3. /\ password' \in [Accounts -> Calls \cup {None}] /\ verified' \subseteq Accounts
        /\ token' \in [Calls -> Calls \cup {None}]
        /\ links' \in [Identities -> Accounts \cup {None}]
    <3>1. \/ password' = [password EXCEPT ![Account(c0)] = c0]
          \/ UNCHANGED password
      BY <1>2 DEF InsertUser
    <3>2. password' \in [Accounts -> Calls \cup {None}] BY <3>1
    <3> QED BY <1>2, <3>2 DEF InsertUser, oauth
  <2>4. /\ resets' \subseteq Calls /\ verifs' \subseteq Calls /\ states' \subseteq Calls
        /\ lapsed' \subseteq Table \X Calls
        /\ mailed' \subseteq Calls /\ known' \subseteq Calls /\ unlinked' \subseteq Calls
        /\ old' \in [Calls -> [Table -> SUBSET Calls]]
        /\ missed' \subseteq Table \X Calls /\ late' \subseteq Calls
    BY <1>2 DEF InsertUser, tables, oauth, history
  <2>5. \A c \in Calls :
          /\ pc'[c] = "rotate" => found'[c] \in Calls
          /\ op'[c].kind = "oauth" => found'[c] \in Accounts \cup {None}
          /\ pc'[c] = "link" => found'[c] # None
    BY <1>2 DEF InsertUser, Goto, Return, Unheard, GiveUp, callVars
  <2> QED BY <2>1, <2>2, <2>3, <2>4, <2>5
<1>3. ASSUME NEW c0 \in Calls, ReadUser(c0) PROVE TypeOK'
  <2>1. pc' \in [Calls -> PCs] /\ answer' \in [Calls -> {"none", "ok", "refused", "error", "unheard"}]
    <3>1. \/ \E where \in {"session", "clearResets"} : Goto(c0, where)
          \/ \E a \in {"refused", "ok"} : Return(c0, a)
      BY <1>3 DEF ReadUser
    <3> QED BY <3>1, Statements, Moves
  <2>2. op' \in [Calls -> Op] /\ found' \in [Calls -> Calls \cup Accounts \cup {None}]
    BY <1>3 DEF ReadUser, callVars
  <2>3. /\ password' \in [Accounts -> Calls \cup {None}] /\ verified' \subseteq Accounts
        /\ token' \in [Calls -> Calls \cup {None}]
        /\ links' \in [Identities -> Accounts \cup {None}]
    BY <1>3 DEF ReadUser, tables, oauth
  <2>4. /\ resets' \subseteq Calls /\ verifs' \subseteq Calls /\ states' \subseteq Calls
        /\ lapsed' \subseteq Table \X Calls
        /\ mailed' \subseteq Calls /\ known' \subseteq Calls /\ unlinked' \subseteq Calls
        /\ old' \in [Calls -> [Table -> SUBSET Calls]]
        /\ missed' \subseteq Table \X Calls /\ late' \subseteq Calls
    BY <1>3 DEF ReadUser, tables, oauth, history
  <2>5. \A c \in Calls :
          /\ pc'[c] = "rotate" => found'[c] \in Calls
          /\ op'[c].kind = "oauth" => found'[c] \in Accounts \cup {None}
          /\ pc'[c] = "link" => found'[c] # None
    BY <1>3 DEF ReadUser, Goto, Return, Unheard, GiveUp, callVars
  <2> QED BY <2>1, <2>2, <2>3, <2>4, <2>5
<1>4. ASSUME NEW c0 \in Calls, InsertSession(c0) PROVE TypeOK'
  <2>1. pc' \in [Calls -> PCs] /\ answer' \in [Calls -> {"none", "ok", "refused", "error", "unheard"}]
    <3>1. \/ \E where \in PCs : Goto(c0, where)
          \/ \E a \in {"ok", "refused", "error", "unheard"} : Return(c0, a)
      BY <1>4, Statements, Unheards DEF InsertSession
    <3> QED BY <3>1, Moves
  <2>2. op' \in [Calls -> Op] /\ found' \in [Calls -> Calls \cup Accounts \cup {None}]
    BY <1>4 DEF InsertSession, callVars
  <2>3. /\ password' \in [Accounts -> Calls \cup {None}] /\ verified' \subseteq Accounts
        /\ token' \in [Calls -> Calls \cup {None}]
        /\ links' \in [Identities -> Accounts \cup {None}]
    BY <1>4 DEF InsertSession, tables, oauth
  <2>4. /\ resets' \subseteq Calls /\ verifs' \subseteq Calls /\ states' \subseteq Calls
        /\ lapsed' \subseteq Table \X Calls
        /\ mailed' \subseteq Calls /\ known' \subseteq Calls /\ unlinked' \subseteq Calls
        /\ old' \in [Calls -> [Table -> SUBSET Calls]]
        /\ missed' \subseteq Table \X Calls /\ late' \subseteq Calls
    BY <1>4 DEF InsertSession, tables, oauth, history
  <2>5. \A c \in Calls :
          /\ pc'[c] = "rotate" => found'[c] \in Calls
          /\ op'[c].kind = "oauth" => found'[c] \in Accounts \cup {None}
          /\ pc'[c] = "link" => found'[c] # None
    BY <1>4 DEF InsertSession, Goto, Return, Unheard, GiveUp, callVars
  <2> QED BY <2>1, <2>2, <2>3, <2>4, <2>5
<1>5. ASSUME NEW c0 \in Calls, ReadSession(c0) PROVE TypeOK'
  <2>1. pc' \in [Calls -> PCs] /\ answer' \in [Calls -> {"none", "ok", "refused", "error", "unheard"}]
    <3>1. \/ \E where \in {"rotate"} : Goto(c0, where)
          \/ \E a \in {"refused"} : Return(c0, a)
      BY <1>5 DEF ReadSession
    <3> QED BY <3>1, Statements, Moves
  <2>2. op' \in [Calls -> Op] /\ found' \in [Calls -> Calls \cup Accounts \cup {None}]
    <3>1. \/ \E s \in Valid("sessions") : found' = [found EXCEPT ![c0] = s]
          \/ UNCHANGED found
      BY <1>5 DEF ReadSession
    <3>2. found \in [Calls -> Calls \cup Accounts \cup {None}] /\ Valid("sessions") \subseteq Calls
          /\ UNCHANGED op
      BY <1>5, SessionRows DEF ReadSession
    <3> HIDE DEF TypeOK, IInv
    <3>3. found' \in [Calls -> Calls \cup Accounts \cup {None}] BY <3>1, <3>2
    <3> USE DEF TypeOK, IInv
    <3> QED BY <3>2, <3>3
  <2>3. /\ password' \in [Accounts -> Calls \cup {None}] /\ verified' \subseteq Accounts
        /\ token' \in [Calls -> Calls \cup {None}]
        /\ links' \in [Identities -> Accounts \cup {None}]
    BY <1>5 DEF ReadSession, tables, oauth
  <2>4. /\ resets' \subseteq Calls /\ verifs' \subseteq Calls /\ states' \subseteq Calls
        /\ lapsed' \subseteq Table \X Calls
        /\ mailed' \subseteq Calls /\ known' \subseteq Calls /\ unlinked' \subseteq Calls
        /\ old' \in [Calls -> [Table -> SUBSET Calls]]
        /\ missed' \subseteq Table \X Calls /\ late' \subseteq Calls
    BY <1>5 DEF ReadSession, tables, oauth, history
  <2>5. \A c \in Calls :
          /\ pc'[c] = "rotate" => found'[c] \in Calls
          /\ op'[c].kind = "oauth" => found'[c] \in Accounts \cup {None}
          /\ pc'[c] = "link" => found'[c] # None
    <3>1. CASE \E s \in Valid("sessions") : found' = [found EXCEPT ![c0] = s] /\ Goto(c0, "rotate")
      BY <1>5, <3>1, SessionRows, NoneIsNothing DEF ReadSession, Goto, Phases, Phase
    <3>2. CASE UNCHANGED found /\ Return(c0, "refused")
      BY <1>5, <3>2 DEF ReadSession, Return
    <3> QED BY <1>5, <3>1, <3>2 DEF ReadSession
  <2> QED BY <2>1, <2>2, <2>3, <2>4, <2>5
<1>6. ASSUME NEW c0 \in Calls, Rotate(c0) PROVE TypeOK'
  <2>1. pc' \in [Calls -> PCs] /\ answer' \in [Calls -> {"none", "ok", "refused", "error", "unheard"}]
    <3>1. \/ \E where \in PCs : Goto(c0, where)
          \/ \E a \in {"ok", "refused", "error", "unheard"} : Return(c0, a)
      BY <1>6, Statements, Unheards DEF Rotate
    <3> QED BY <3>1, Moves
  <2>2. op' \in [Calls -> Op] /\ found' \in [Calls -> Calls \cup Accounts \cup {None}]
    BY <1>6 DEF Rotate, callVars
  <2>3. /\ password' \in [Accounts -> Calls \cup {None}] /\ verified' \subseteq Accounts
        /\ token' \in [Calls -> Calls \cup {None}]
        /\ links' \in [Identities -> Accounts \cup {None}]
    <3>1. token' = [token EXCEPT ![found[c0]] = c0] \/ UNCHANGED token
      BY <1>6 DEF Rotate
    <3>2. token' \in [Calls -> Calls \cup {None}]
      <4>1. token \in [Calls -> Calls \cup {None}] OBVIOUS
      <4> HIDE DEF TypeOK, IInv
      <4> QED BY <3>1, <4>1
    <3> QED BY <1>6, <3>2 DEF Rotate, oauth
  <2>4. /\ resets' \subseteq Calls /\ verifs' \subseteq Calls /\ states' \subseteq Calls
        /\ lapsed' \subseteq Table \X Calls
        /\ mailed' \subseteq Calls /\ known' \subseteq Calls /\ unlinked' \subseteq Calls
        /\ old' \in [Calls -> [Table -> SUBSET Calls]]
        /\ missed' \subseteq Table \X Calls /\ late' \subseteq Calls
    BY <1>6 DEF Rotate, tables, oauth, history
  <2>5. \A c \in Calls :
          /\ pc'[c] = "rotate" => found'[c] \in Calls
          /\ op'[c].kind = "oauth" => found'[c] \in Accounts \cup {None}
          /\ pc'[c] = "link" => found'[c] # None
    BY <1>6 DEF Rotate, Goto, Return, Unheard, GiveUp, callVars
  <2> QED BY <2>1, <2>2, <2>3, <2>4, <2>5
<1>7. ASSUME NEW c0 \in Calls, DeleteSession(c0) PROVE TypeOK'
  <2>1. pc' \in [Calls -> PCs] /\ answer' \in [Calls -> {"none", "ok", "refused", "error", "unheard"}]
    <3>1. \/ \E where \in PCs : Goto(c0, where)
          \/ \E a \in {"ok", "refused", "error", "unheard"} : Return(c0, a)
      BY <1>7, Statements, Unheards DEF DeleteSession
    <3> QED BY <3>1, Moves
  <2>2. op' \in [Calls -> Op] /\ found' \in [Calls -> Calls \cup Accounts \cup {None}]
    BY <1>7 DEF DeleteSession, callVars
  <2>3. /\ password' \in [Accounts -> Calls \cup {None}] /\ verified' \subseteq Accounts
        /\ token' \in [Calls -> Calls \cup {None}]
        /\ links' \in [Identities -> Accounts \cup {None}]
    BY <1>7 DEF DeleteSession, tables, oauth
  <2>4. /\ resets' \subseteq Calls /\ verifs' \subseteq Calls /\ states' \subseteq Calls
        /\ lapsed' \subseteq Table \X Calls
        /\ mailed' \subseteq Calls /\ known' \subseteq Calls /\ unlinked' \subseteq Calls
        /\ old' \in [Calls -> [Table -> SUBSET Calls]]
        /\ missed' \subseteq Table \X Calls /\ late' \subseteq Calls
    BY <1>7 DEF DeleteSession, tables, oauth, history
  <2>5. \A c \in Calls :
          /\ pc'[c] = "rotate" => found'[c] \in Calls
          /\ op'[c].kind = "oauth" => found'[c] \in Accounts \cup {None}
          /\ pc'[c] = "link" => found'[c] # None
    BY <1>7 DEF DeleteSession, Goto, Return, Unheard, GiveUp, callVars
  <2> QED BY <2>1, <2>2, <2>3, <2>4, <2>5
<1>8. ASSUME NEW c0 \in Calls, ClearResets(c0) PROVE TypeOK'
  <2>1. pc' \in [Calls -> PCs] /\ answer' \in [Calls -> {"none", "ok", "refused", "error", "unheard"}]
    BY <1>8, Statements DEF ClearResets, Miss, Owned, Goto, Return, Unheard, GiveUp
  <2>2. op' \in [Calls -> Op] /\ found' \in [Calls -> Calls \cup Accounts \cup {None}]
    BY <1>8 DEF ClearResets, Miss, Owned, callVars
  <2>3. /\ password' \in [Accounts -> Calls \cup {None}] /\ verified' \subseteq Accounts
        /\ token' \in [Calls -> Calls \cup {None}]
        /\ links' \in [Identities -> Accounts \cup {None}]
    BY <1>8 DEF ClearResets, Miss, Owned, tables, oauth
  <2>4. /\ resets' \subseteq Calls /\ verifs' \subseteq Calls /\ states' \subseteq Calls
        /\ lapsed' \subseteq Table \X Calls
        /\ mailed' \subseteq Calls /\ known' \subseteq Calls /\ unlinked' \subseteq Calls
        /\ old' \in [Calls -> [Table -> SUBSET Calls]]
        /\ missed' \subseteq Table \X Calls /\ late' \subseteq Calls
    BY <1>8, NoneIsNothing, Statements, SessionRows DEF ClearResets, Miss, Owned, tables, oauth, callVars, history, Table
  <2>5. \A c \in Calls :
          /\ pc'[c] = "rotate" => found'[c] \in Calls
          /\ op'[c].kind = "oauth" => found'[c] \in Accounts \cup {None}
          /\ pc'[c] = "link" => found'[c] # None
    BY <1>8 DEF ClearResets, Miss, Owned, Goto, Return, Unheard, GiveUp, callVars
  <2> QED BY <2>1, <2>2, <2>3, <2>4, <2>5
<1>9. ASSUME NEW c0 \in Calls, InsertReset(c0) PROVE TypeOK'
  <2>1. pc' \in [Calls -> PCs] /\ answer' \in [Calls -> {"none", "ok", "refused", "error", "unheard"}]
    <3>1. \/ \E where \in PCs : Goto(c0, where)
          \/ \E a \in {"ok", "refused", "error", "unheard"} : Return(c0, a)
      BY <1>9, Statements, Unheards DEF InsertReset
    <3> QED BY <3>1, Moves
  <2>2. op' \in [Calls -> Op] /\ found' \in [Calls -> Calls \cup Accounts \cup {None}]
    BY <1>9 DEF InsertReset, callVars
  <2>3. /\ password' \in [Accounts -> Calls \cup {None}] /\ verified' \subseteq Accounts
        /\ token' \in [Calls -> Calls \cup {None}]
        /\ links' \in [Identities -> Accounts \cup {None}]
    BY <1>9 DEF InsertReset, tables, oauth
  <2>4. /\ resets' \subseteq Calls /\ verifs' \subseteq Calls /\ states' \subseteq Calls
        /\ lapsed' \subseteq Table \X Calls
        /\ mailed' \subseteq Calls /\ known' \subseteq Calls /\ unlinked' \subseteq Calls
        /\ old' \in [Calls -> [Table -> SUBSET Calls]]
        /\ missed' \subseteq Table \X Calls /\ late' \subseteq Calls
    BY <1>9 DEF InsertReset, tables, oauth, history
  <2>5. \A c \in Calls :
          /\ pc'[c] = "rotate" => found'[c] \in Calls
          /\ op'[c].kind = "oauth" => found'[c] \in Accounts \cup {None}
          /\ pc'[c] = "link" => found'[c] # None
    BY <1>9 DEF InsertReset, Goto, Return, Unheard, GiveUp, callVars
  <2> QED BY <2>1, <2>2, <2>3, <2>4, <2>5
<1>10. ASSUME NEW c0 \in Calls, ReadReset(c0) PROVE TypeOK'
  <2>1. pc' \in [Calls -> PCs] /\ answer' \in [Calls -> {"none", "ok", "refused", "error", "unheard"}]
    <3>1. \/ \E where \in {"setPassword"} : Goto(c0, where)
          \/ \E a \in {"refused"} : Return(c0, a)
      BY <1>10 DEF ReadReset
    <3> QED BY <3>1, Statements, Moves
  <2>2. op' \in [Calls -> Op] /\ found' \in [Calls -> Calls \cup Accounts \cup {None}]
    BY <1>10 DEF ReadReset, callVars
  <2>3. /\ password' \in [Accounts -> Calls \cup {None}] /\ verified' \subseteq Accounts
        /\ token' \in [Calls -> Calls \cup {None}]
        /\ links' \in [Identities -> Accounts \cup {None}]
    BY <1>10 DEF ReadReset, tables, oauth
  <2>4. /\ resets' \subseteq Calls /\ verifs' \subseteq Calls /\ states' \subseteq Calls
        /\ lapsed' \subseteq Table \X Calls
        /\ mailed' \subseteq Calls /\ known' \subseteq Calls /\ unlinked' \subseteq Calls
        /\ old' \in [Calls -> [Table -> SUBSET Calls]]
        /\ missed' \subseteq Table \X Calls /\ late' \subseteq Calls
    BY <1>10 DEF ReadReset, tables, oauth, history
  <2>5. \A c \in Calls :
          /\ pc'[c] = "rotate" => found'[c] \in Calls
          /\ op'[c].kind = "oauth" => found'[c] \in Accounts \cup {None}
          /\ pc'[c] = "link" => found'[c] # None
    BY <1>10 DEF ReadReset, Goto, Return, Unheard, GiveUp, callVars
  <2> QED BY <2>1, <2>2, <2>3, <2>4, <2>5
<1>11. ASSUME NEW c0 \in Calls, SetPassword(c0) PROVE TypeOK'
  <2>1. pc' \in [Calls -> PCs] /\ answer' \in [Calls -> {"none", "ok", "refused", "error", "unheard"}]
    <3>1. \/ \E where \in PCs : Goto(c0, where)
          \/ \E a \in {"ok", "refused", "error", "unheard"} : Return(c0, a)
      BY <1>11, Statements, Unheards DEF SetPassword
    <3> QED BY <3>1, Moves
  <2>2. op' \in [Calls -> Op] /\ found' \in [Calls -> Calls \cup Accounts \cup {None}]
    BY <1>11 DEF SetPassword, Remember, Account, callVars
  <2>3. /\ password' \in [Accounts -> Calls \cup {None}] /\ verified' \subseteq Accounts
        /\ token' \in [Calls -> Calls \cup {None}]
        /\ links' \in [Identities -> Accounts \cup {None}]
    BY <1>11 DEF SetPassword, Remember, Account, tables, oauth
  <2>4. /\ resets' \subseteq Calls /\ verifs' \subseteq Calls /\ states' \subseteq Calls
        /\ lapsed' \subseteq Table \X Calls
        /\ mailed' \subseteq Calls /\ known' \subseteq Calls /\ unlinked' \subseteq Calls
        /\ old' \in [Calls -> [Table -> SUBSET Calls]]
        /\ missed' \subseteq Table \X Calls /\ late' \subseteq Calls
    BY <1>11, NoneIsNothing, Statements, SessionRows DEF SetPassword, Remember, Account, tables, oauth, callVars, history, Table
  <2>5. \A c \in Calls :
          /\ pc'[c] = "rotate" => found'[c] \in Calls
          /\ op'[c].kind = "oauth" => found'[c] \in Accounts \cup {None}
          /\ pc'[c] = "link" => found'[c] # None
    BY <1>11 DEF SetPassword, Remember, Account, Goto, Return, Unheard, GiveUp, callVars
  <2> QED BY <2>1, <2>2, <2>3, <2>4, <2>5
<1>12. ASSUME NEW c0 \in Calls, ClearSessions(c0) PROVE TypeOK'
  <2>1. pc' \in [Calls -> PCs] /\ answer' \in [Calls -> {"none", "ok", "refused", "error", "unheard"}]
    <3>1. \/ \E where \in PCs : Goto(c0, where)
          \/ \E a \in {"ok", "refused", "error", "unheard"} : Return(c0, a)
      BY <1>12, Statements, Unheards DEF ClearSessions
    <3> QED BY <3>1, Moves
  <2>2. op' \in [Calls -> Op] /\ found' \in [Calls -> Calls \cup Accounts \cup {None}]
    BY <1>12 DEF ClearSessions, Miss, callVars
  <2>3. /\ password' \in [Accounts -> Calls \cup {None}] /\ verified' \subseteq Accounts
        /\ token' \in [Calls -> Calls \cup {None}]
        /\ links' \in [Identities -> Accounts \cup {None}]
    BY <1>12 DEF ClearSessions, Miss, tables, oauth
  <2>4. /\ resets' \subseteq Calls /\ verifs' \subseteq Calls /\ states' \subseteq Calls
        /\ lapsed' \subseteq Table \X Calls
        /\ mailed' \subseteq Calls /\ known' \subseteq Calls /\ unlinked' \subseteq Calls
        /\ old' \in [Calls -> [Table -> SUBSET Calls]]
        /\ missed' \subseteq Table \X Calls /\ late' \subseteq Calls
    BY <1>12, NoneIsNothing, Statements, SessionRows DEF ClearSessions, Miss, tables, oauth, callVars, history, Table
  <2>5. \A c \in Calls :
          /\ pc'[c] = "rotate" => found'[c] \in Calls
          /\ op'[c].kind = "oauth" => found'[c] \in Accounts \cup {None}
          /\ pc'[c] = "link" => found'[c] # None
    BY <1>12 DEF ClearSessions, Miss, Goto, Return, Unheard, GiveUp, callVars
  <2> QED BY <2>1, <2>2, <2>3, <2>4, <2>5
<1>13. ASSUME NEW c0 \in Calls, ClearVerifs(c0) PROVE TypeOK'
  <2>1. pc' \in [Calls -> PCs] /\ answer' \in [Calls -> {"none", "ok", "refused", "error", "unheard"}]
    <3>1. \/ \E where \in {"insertVerif", "session"} : Goto(c0, where)
          \/ \E a \in {"ok", "unheard"} : Return(c0, a)
      BY <1>13, Unheards DEF ClearVerifs
    <3> QED BY <3>1, Statements, Moves
  <2>2. op' \in [Calls -> Op] /\ found' \in [Calls -> Calls \cup Accounts \cup {None}]
    BY <1>13 DEF ClearVerifs, Miss, Owned, callVars
  <2>3. /\ password' \in [Accounts -> Calls \cup {None}] /\ verified' \subseteq Accounts
        /\ token' \in [Calls -> Calls \cup {None}]
        /\ links' \in [Identities -> Accounts \cup {None}]
    BY <1>13 DEF ClearVerifs, Miss, Owned, tables, oauth
  <2>4. /\ resets' \subseteq Calls /\ verifs' \subseteq Calls /\ states' \subseteq Calls
        /\ lapsed' \subseteq Table \X Calls
        /\ mailed' \subseteq Calls /\ known' \subseteq Calls /\ unlinked' \subseteq Calls
        /\ old' \in [Calls -> [Table -> SUBSET Calls]]
        /\ missed' \subseteq Table \X Calls /\ late' \subseteq Calls
    BY <1>13, NoneIsNothing, Statements, SessionRows DEF ClearVerifs, Miss, Owned, tables, oauth, callVars, history, Table
  <2>5. \A c \in Calls :
          /\ pc'[c] = "rotate" => found'[c] \in Calls
          /\ op'[c].kind = "oauth" => found'[c] \in Accounts \cup {None}
          /\ pc'[c] = "link" => found'[c] # None
    BY <1>13 DEF ClearVerifs, Miss, Owned, Goto, Return, Unheard, GiveUp, callVars
  <2> QED BY <2>1, <2>2, <2>3, <2>4, <2>5
<1>14. ASSUME NEW c0 \in Calls, InsertVerif(c0) PROVE TypeOK'
  <2>1. pc' \in [Calls -> PCs] /\ answer' \in [Calls -> {"none", "ok", "refused", "error", "unheard"}]
    <3>1. \/ \E where \in PCs : Goto(c0, where)
          \/ \E a \in {"ok", "refused", "error", "unheard"} : Return(c0, a)
      BY <1>14, Statements, Unheards DEF InsertVerif
    <3> QED BY <3>1, Moves
  <2>2. op' \in [Calls -> Op] /\ found' \in [Calls -> Calls \cup Accounts \cup {None}]
    BY <1>14 DEF InsertVerif, callVars
  <2>3. /\ password' \in [Accounts -> Calls \cup {None}] /\ verified' \subseteq Accounts
        /\ token' \in [Calls -> Calls \cup {None}]
        /\ links' \in [Identities -> Accounts \cup {None}]
    BY <1>14 DEF InsertVerif, tables, oauth
  <2>4. /\ resets' \subseteq Calls /\ verifs' \subseteq Calls /\ states' \subseteq Calls
        /\ lapsed' \subseteq Table \X Calls
        /\ mailed' \subseteq Calls /\ known' \subseteq Calls /\ unlinked' \subseteq Calls
        /\ old' \in [Calls -> [Table -> SUBSET Calls]]
        /\ missed' \subseteq Table \X Calls /\ late' \subseteq Calls
    BY <1>14 DEF InsertVerif, tables, oauth, history
  <2>5. \A c \in Calls :
          /\ pc'[c] = "rotate" => found'[c] \in Calls
          /\ op'[c].kind = "oauth" => found'[c] \in Accounts \cup {None}
          /\ pc'[c] = "link" => found'[c] # None
    BY <1>14 DEF InsertVerif, Goto, Return, Unheard, GiveUp, callVars
  <2> QED BY <2>1, <2>2, <2>3, <2>4, <2>5
<1>15. ASSUME NEW c0 \in Calls, Mail(c0) PROVE TypeOK'
  <2>1. pc' \in [Calls -> PCs] /\ answer' \in [Calls -> {"none", "ok", "refused", "error", "unheard"}]
    <3>1. \/ \E where \in {"session"} : Goto(c0, where)
          \/ \E a \in {"ok"} : Return(c0, a)
      BY <1>15 DEF Mail
    <3> QED BY <3>1, Statements, Moves
  <2>2. op' \in [Calls -> Op] /\ found' \in [Calls -> Calls \cup Accounts \cup {None}]
    BY <1>15 DEF Mail, callVars
  <2>3. /\ password' \in [Accounts -> Calls \cup {None}] /\ verified' \subseteq Accounts
        /\ token' \in [Calls -> Calls \cup {None}]
        /\ links' \in [Identities -> Accounts \cup {None}]
    BY <1>15 DEF Mail, tables, oauth
  <2>4. /\ resets' \subseteq Calls /\ verifs' \subseteq Calls /\ states' \subseteq Calls
        /\ lapsed' \subseteq Table \X Calls
        /\ mailed' \subseteq Calls /\ known' \subseteq Calls /\ unlinked' \subseteq Calls
        /\ old' \in [Calls -> [Table -> SUBSET Calls]]
        /\ missed' \subseteq Table \X Calls /\ late' \subseteq Calls
    BY <1>15 DEF Mail, tables, oauth, history
  <2>5. \A c \in Calls :
          /\ pc'[c] = "rotate" => found'[c] \in Calls
          /\ op'[c].kind = "oauth" => found'[c] \in Accounts \cup {None}
          /\ pc'[c] = "link" => found'[c] # None
    BY <1>15 DEF Mail, Goto, Return, Unheard, GiveUp, callVars
  <2> QED BY <2>1, <2>2, <2>3, <2>4, <2>5
<1>16. ASSUME NEW c0 \in Calls, ReadVerif(c0) PROVE TypeOK'
  <2>1. pc' \in [Calls -> PCs] /\ answer' \in [Calls -> {"none", "ok", "refused", "error", "unheard"}]
    <3>1. \/ \E where \in {"markVerified"} : Goto(c0, where)
          \/ \E a \in {"refused"} : Return(c0, a)
      BY <1>16 DEF ReadVerif
    <3> QED BY <3>1, Statements, Moves
  <2>2. op' \in [Calls -> Op] /\ found' \in [Calls -> Calls \cup Accounts \cup {None}]
    BY <1>16 DEF ReadVerif, callVars
  <2>3. /\ password' \in [Accounts -> Calls \cup {None}] /\ verified' \subseteq Accounts
        /\ token' \in [Calls -> Calls \cup {None}]
        /\ links' \in [Identities -> Accounts \cup {None}]
    BY <1>16 DEF ReadVerif, tables, oauth
  <2>4. /\ resets' \subseteq Calls /\ verifs' \subseteq Calls /\ states' \subseteq Calls
        /\ lapsed' \subseteq Table \X Calls
        /\ mailed' \subseteq Calls /\ known' \subseteq Calls /\ unlinked' \subseteq Calls
        /\ old' \in [Calls -> [Table -> SUBSET Calls]]
        /\ missed' \subseteq Table \X Calls /\ late' \subseteq Calls
    BY <1>16 DEF ReadVerif, tables, oauth, history
  <2>5. \A c \in Calls :
          /\ pc'[c] = "rotate" => found'[c] \in Calls
          /\ op'[c].kind = "oauth" => found'[c] \in Accounts \cup {None}
          /\ pc'[c] = "link" => found'[c] # None
    BY <1>16 DEF ReadVerif, Goto, Return, Unheard, GiveUp, callVars
  <2> QED BY <2>1, <2>2, <2>3, <2>4, <2>5
<1>17. ASSUME NEW c0 \in Calls, MarkVerified(c0) PROVE TypeOK'
  <2>1. pc' \in [Calls -> PCs] /\ answer' \in [Calls -> {"none", "ok", "refused", "error", "unheard"}]
    <3>1. \/ \E where \in PCs : Goto(c0, where)
          \/ \E a \in {"ok", "refused", "error", "unheard"} : Return(c0, a)
      BY <1>17, Statements, Unheards DEF MarkVerified
    <3> QED BY <3>1, Moves
  <2>2. op' \in [Calls -> Op] /\ found' \in [Calls -> Calls \cup Accounts \cup {None}]
    BY <1>17 DEF MarkVerified, Account, Op, callVars
  <2>3. /\ password' \in [Accounts -> Calls \cup {None}] /\ verified' \subseteq Accounts
        /\ token' \in [Calls -> Calls \cup {None}]
        /\ links' \in [Identities -> Accounts \cup {None}]
    BY <1>17, NoneIsNothing, Statements, SessionRows DEF MarkVerified, Account, Op, tables, oauth, callVars, history, Phases, Phase, Op
  <2>4. /\ resets' \subseteq Calls /\ verifs' \subseteq Calls /\ states' \subseteq Calls
        /\ lapsed' \subseteq Table \X Calls
        /\ mailed' \subseteq Calls /\ known' \subseteq Calls /\ unlinked' \subseteq Calls
        /\ old' \in [Calls -> [Table -> SUBSET Calls]]
        /\ missed' \subseteq Table \X Calls /\ late' \subseteq Calls
    BY <1>17 DEF MarkVerified, Account, Op, tables, oauth, history
  <2>5. \A c \in Calls :
          /\ pc'[c] = "rotate" => found'[c] \in Calls
          /\ op'[c].kind = "oauth" => found'[c] \in Accounts \cup {None}
          /\ pc'[c] = "link" => found'[c] # None
    BY <1>17 DEF MarkVerified, Account, Op, Goto, Return, Unheard, GiveUp, callVars
  <2> QED BY <2>1, <2>2, <2>3, <2>4, <2>5
<1>18. ASSUME NEW c0 \in Calls, Generate(c0) PROVE TypeOK'
  <2>1. pc' \in [Calls -> PCs] /\ answer' \in [Calls -> {"none", "ok", "refused", "error", "unheard"}]
    BY <1>18, Statements DEF Generate, Goto, Return, Unheard, GiveUp
  <2>2. op' \in [Calls -> Op] /\ found' \in [Calls -> Calls \cup Accounts \cup {None}]
    BY <1>18 DEF Generate, callVars
  <2>3. /\ password' \in [Accounts -> Calls \cup {None}] /\ verified' \subseteq Accounts
        /\ token' \in [Calls -> Calls \cup {None}]
        /\ links' \in [Identities -> Accounts \cup {None}]
    BY <1>18 DEF Generate, tables, oauth
  <2>4. /\ resets' \subseteq Calls /\ verifs' \subseteq Calls /\ states' \subseteq Calls
        /\ lapsed' \subseteq Table \X Calls
        /\ mailed' \subseteq Calls /\ known' \subseteq Calls /\ unlinked' \subseteq Calls
        /\ old' \in [Calls -> [Table -> SUBSET Calls]]
        /\ missed' \subseteq Table \X Calls /\ late' \subseteq Calls
    BY <1>18, NoneIsNothing, Statements, SessionRows DEF Generate, tables, oauth, callVars, history, Table
  <2>5. \A c \in Calls :
          /\ pc'[c] = "rotate" => found'[c] \in Calls
          /\ op'[c].kind = "oauth" => found'[c] \in Accounts \cup {None}
          /\ pc'[c] = "link" => found'[c] # None
    BY <1>18 DEF Generate, Goto, Return, Unheard, GiveUp, callVars
  <2> QED BY <2>1, <2>2, <2>3, <2>4, <2>5
<1>19. ASSUME NEW c0 \in Calls, Validate(c0) PROVE TypeOK'
  <2>1. pc' \in [Calls -> PCs] /\ answer' \in [Calls -> {"none", "ok", "refused", "error", "unheard"}]
    <3>1. \/ \E where \in {"exchange"} : Goto(c0, where)
          \/ \E a \in {"refused"} : Return(c0, a)
      BY <1>19 DEF Validate
    <3> QED BY <3>1, Statements, Moves
  <2>2. op' \in [Calls -> Op] /\ found' \in [Calls -> Calls \cup Accounts \cup {None}]
    BY <1>19 DEF Validate, callVars
  <2>3. /\ password' \in [Accounts -> Calls \cup {None}] /\ verified' \subseteq Accounts
        /\ token' \in [Calls -> Calls \cup {None}]
        /\ links' \in [Identities -> Accounts \cup {None}]
    BY <1>19 DEF Validate, tables, oauth
  <2>4. /\ resets' \subseteq Calls /\ verifs' \subseteq Calls /\ states' \subseteq Calls
        /\ lapsed' \subseteq Table \X Calls
        /\ mailed' \subseteq Calls /\ known' \subseteq Calls /\ unlinked' \subseteq Calls
        /\ old' \in [Calls -> [Table -> SUBSET Calls]]
        /\ missed' \subseteq Table \X Calls /\ late' \subseteq Calls
    BY <1>19 DEF Validate, tables, oauth, history
  <2>5. \A c \in Calls :
          /\ pc'[c] = "rotate" => found'[c] \in Calls
          /\ op'[c].kind = "oauth" => found'[c] \in Accounts \cup {None}
          /\ pc'[c] = "link" => found'[c] # None
    BY <1>19 DEF Validate, Goto, Return, Unheard, GiveUp, callVars
  <2> QED BY <2>1, <2>2, <2>3, <2>4, <2>5
<1>20. ASSUME NEW c0 \in Calls, Exchange(c0) PROVE TypeOK'
  <2>1. pc' \in [Calls -> PCs] /\ answer' \in [Calls -> {"none", "ok", "refused", "error", "unheard"}]
    BY <1>20, Statements DEF Exchange, Goto, Return, Unheard, GiveUp
  <2>2. op' \in [Calls -> Op] /\ found' \in [Calls -> Calls \cup Accounts \cup {None}]
    <3>1. UNCHANGED found BY <1>20 DEF Exchange
    <3> QED BY <1>20, <3>1, Reported
  <2>3. /\ password' \in [Accounts -> Calls \cup {None}] /\ verified' \subseteq Accounts
        /\ token' \in [Calls -> Calls \cup {None}]
        /\ links' \in [Identities -> Accounts \cup {None}]
    BY <1>20 DEF Exchange, tables, oauth
  <2>4. /\ resets' \subseteq Calls /\ verifs' \subseteq Calls /\ states' \subseteq Calls
        /\ lapsed' \subseteq Table \X Calls
        /\ mailed' \subseteq Calls /\ known' \subseteq Calls /\ unlinked' \subseteq Calls
        /\ old' \in [Calls -> [Table -> SUBSET Calls]]
        /\ missed' \subseteq Table \X Calls /\ late' \subseteq Calls
    BY <1>20 DEF Exchange, tables, oauth, history
  <2>5. \A c \in Calls :
          /\ pc'[c] = "rotate" => found'[c] \in Calls
          /\ op'[c].kind = "oauth" => found'[c] \in Accounts \cup {None}
          /\ pc'[c] = "link" => found'[c] # None
    <3>1. UNCHANGED found /\ Goto(c0, "readLink") BY <1>20 DEF Exchange
    <3>2. \A c \in Calls : op'[c].kind = op[c].kind BY <1>20, Reported
    <3> QED BY <3>1, <3>2 DEF Goto
  <2> QED BY <2>1, <2>2, <2>3, <2>4, <2>5
<1>21. ASSUME NEW c0 \in Calls, ReadLink(c0) PROVE TypeOK'
  <2>1. pc' \in [Calls -> PCs] /\ answer' \in [Calls -> {"none", "ok", "refused", "error", "unheard"}]
    <3>1. \/ \E where \in {"session", "readByEmail", "insertOAuthUser"} : Goto(c0, where)
      BY <1>21 DEF ReadLink
    <3> QED BY <3>1, Statements, Moves
  <2>2. op' \in [Calls -> Op] /\ found' \in [Calls -> Calls \cup Accounts \cup {None}]
    <3>1. \/ found' = [found EXCEPT ![c0] = links[op[c0].ident]] /\ links[op[c0].ident] \in Accounts
          \/ UNCHANGED found
      BY <1>21 DEF ReadLink, Phases, Phase
    <3> QED BY <1>21, <3>1 DEF ReadLink
  <2>3. /\ password' \in [Accounts -> Calls \cup {None}] /\ verified' \subseteq Accounts
        /\ token' \in [Calls -> Calls \cup {None}]
        /\ links' \in [Identities -> Accounts \cup {None}]
    BY <1>21 DEF ReadLink, tables, oauth
  <2>4. /\ resets' \subseteq Calls /\ verifs' \subseteq Calls /\ states' \subseteq Calls
        /\ lapsed' \subseteq Table \X Calls
        /\ mailed' \subseteq Calls /\ known' \subseteq Calls /\ unlinked' \subseteq Calls
        /\ old' \in [Calls -> [Table -> SUBSET Calls]]
        /\ missed' \subseteq Table \X Calls /\ late' \subseteq Calls
    BY <1>21 DEF ReadLink, tables, oauth, history
  <2>5. \A c \in Calls :
          /\ pc'[c] = "rotate" => found'[c] \in Calls
          /\ op'[c].kind = "oauth" => found'[c] \in Accounts \cup {None}
          /\ pc'[c] = "link" => found'[c] # None
    <3>1. \A c \in Calls : pc'[c] # "link" /\ pc'[c] = "rotate" => pc[c] = "rotate" /\ c # c0
      BY <1>21 DEF ReadLink, Goto
    <3>2. \A c \in Calls : pc'[c] = "link" => pc[c] = "link" /\ c # c0
      BY <1>21 DEF ReadLink, Goto
    <3>3. op' = op /\ \A c \in Calls : c # c0 => found'[c] = found[c]
      BY <1>21 DEF ReadLink
    <3>4. found'[c0] \in Accounts \cup {None}
      BY <1>21 DEF ReadLink, Phases, Phase
    <3> QED BY <3>1, <3>2, <3>3, <3>4
  <2> QED BY <2>1, <2>2, <2>3, <2>4, <2>5
<1>22. ASSUME NEW c0 \in Calls, ReadByEmail(c0) PROVE TypeOK'
  <2>1. pc' \in [Calls -> PCs] /\ answer' \in [Calls -> {"none", "ok", "refused", "error", "unheard"}]
    <3>1. \/ \E where \in {"link", "insertOAuthUser"} : Goto(c0, where)
      BY <1>22 DEF ReadByEmail
    <3> QED BY <3>1, Statements, Moves
  <2>2. op' \in [Calls -> Op] /\ found' \in [Calls -> Calls \cup Accounts \cup {None}]
    <3>1. op[c0].email \in Accounts BY DEF Op
    <3> QED BY <1>22, <3>1 DEF ReadByEmail
  <2>3. /\ password' \in [Accounts -> Calls \cup {None}] /\ verified' \subseteq Accounts
        /\ token' \in [Calls -> Calls \cup {None}]
        /\ links' \in [Identities -> Accounts \cup {None}]
    BY <1>22 DEF ReadByEmail, tables, oauth
  <2>4. /\ resets' \subseteq Calls /\ verifs' \subseteq Calls /\ states' \subseteq Calls
        /\ lapsed' \subseteq Table \X Calls
        /\ mailed' \subseteq Calls /\ known' \subseteq Calls /\ unlinked' \subseteq Calls
        /\ old' \in [Calls -> [Table -> SUBSET Calls]]
        /\ missed' \subseteq Table \X Calls /\ late' \subseteq Calls
    BY <1>22 DEF ReadByEmail, tables, oauth, history
  <2>5. \A c \in Calls :
          /\ pc'[c] = "rotate" => found'[c] \in Calls
          /\ op'[c].kind = "oauth" => found'[c] \in Accounts \cup {None}
          /\ pc'[c] = "link" => found'[c] # None
    <3>1. op[c0].email \in Accounts BY DEF Op
    <3>2. CASE found' = [found EXCEPT ![c0] = op[c0].email] /\ Goto(c0, "link")
      BY <1>22, <3>1, <3>2, NoneIsNothing DEF ReadByEmail, Goto
    <3>3. CASE UNCHANGED found /\ Goto(c0, "insertOAuthUser")
      BY <1>22, <3>3 DEF ReadByEmail, Goto
    <3> QED BY <1>22, <3>2, <3>3 DEF ReadByEmail
  <2> QED BY <2>1, <2>2, <2>3, <2>4, <2>5
<1>23. ASSUME NEW c0 \in Calls, InsertOAuthUser(c0) PROVE TypeOK'
  <2>1. pc' \in [Calls -> PCs] /\ answer' \in [Calls -> {"none", "ok", "refused", "error", "unheard"}]
    <3>1. \/ \E where \in PCs : Goto(c0, where)
          \/ \E a \in {"ok", "refused", "error", "unheard"} : Return(c0, a)
      BY <1>23, Statements, Unheards DEF InsertOAuthUser
    <3> QED BY <3>1, Moves
  <2>2. op' \in [Calls -> Op] /\ found' \in [Calls -> Calls \cup Accounts \cup {None}]
    <3>1. op[c0].email \in Accounts BY DEF Op
    <3> QED BY <1>23, <3>1 DEF InsertOAuthUser
  <2>3. /\ password' \in [Accounts -> Calls \cup {None}] /\ verified' \subseteq Accounts
        /\ token' \in [Calls -> Calls \cup {None}]
        /\ links' \in [Identities -> Accounts \cup {None}]
    BY <1>23 DEF InsertOAuthUser, tables, oauth
  <2>4. /\ resets' \subseteq Calls /\ verifs' \subseteq Calls /\ states' \subseteq Calls
        /\ lapsed' \subseteq Table \X Calls
        /\ mailed' \subseteq Calls /\ known' \subseteq Calls /\ unlinked' \subseteq Calls
        /\ old' \in [Calls -> [Table -> SUBSET Calls]]
        /\ missed' \subseteq Table \X Calls /\ late' \subseteq Calls
    BY <1>23 DEF InsertOAuthUser, tables, oauth, history
  <2>5. \A c \in Calls :
          /\ pc'[c] = "rotate" => found'[c] \in Calls
          /\ op'[c].kind = "oauth" => found'[c] \in Accounts \cup {None}
          /\ pc'[c] = "link" => found'[c] # None
    <3>1. op[c0].email \in Accounts BY DEF Op
    <3>2. /\ found' = [found EXCEPT ![c0] = op[c0].email] /\ UNCHANGED op /\ op[c0].kind = "oauth"
          /\ pc' = [pc EXCEPT ![c0] = "link"] \/ pc' = [pc EXCEPT ![c0] = "end"]
      BY <1>23, Unheards DEF InsertOAuthUser, Goto, Return, Phases, Phase
    <3>3. \A c \in Calls : c # c0 => found'[c] = found[c] /\ pc'[c] = pc[c] BY <3>2
    <3>4. found'[c0] = op[c0].email /\ pc'[c0] # "rotate" BY <3>2
    <3> QED BY <3>1, <3>2, <3>3, <3>4, NoneIsNothing
  <2> QED BY <2>1, <2>2, <2>3, <2>4, <2>5
<1>24. ASSUME NEW c0 \in Calls, Link(c0) PROVE TypeOK'
  <2>1. pc' \in [Calls -> PCs] /\ answer' \in [Calls -> {"none", "ok", "refused", "error", "unheard"}]
    <3>1. \/ \E where \in PCs : Goto(c0, where)
          \/ \E a \in {"ok", "refused", "error", "unheard"} : Return(c0, a)
      BY <1>24, Statements, Unheards DEF Link
    <3> QED BY <3>1, Moves
  <2>2. op' \in [Calls -> Op] /\ found' \in [Calls -> Calls \cup Accounts \cup {None}]
    BY <1>24 DEF Link, callVars
  <2>3. /\ password' \in [Accounts -> Calls \cup {None}] /\ verified' \subseteq Accounts
        /\ token' \in [Calls -> Calls \cup {None}]
        /\ links' \in [Identities -> Accounts \cup {None}]
    BY <1>24, NoneIsNothing, Statements, SessionRows DEF Link, tables, oauth, callVars, history, Phases, Phase, Op
  <2>4. /\ resets' \subseteq Calls /\ verifs' \subseteq Calls /\ states' \subseteq Calls
        /\ lapsed' \subseteq Table \X Calls
        /\ mailed' \subseteq Calls /\ known' \subseteq Calls /\ unlinked' \subseteq Calls
        /\ old' \in [Calls -> [Table -> SUBSET Calls]]
        /\ missed' \subseteq Table \X Calls /\ late' \subseteq Calls
    BY <1>24 DEF Link, tables, oauth, history
  <2>5. \A c \in Calls :
          /\ pc'[c] = "rotate" => found'[c] \in Calls
          /\ op'[c].kind = "oauth" => found'[c] \in Accounts \cup {None}
          /\ pc'[c] = "link" => found'[c] # None
    BY <1>24 DEF Link, Goto, Return, Unheard, GiveUp, callVars
  <2> QED BY <2>1, <2>2, <2>3, <2>4, <2>5
<1>25. ASSUME NEW c0 \in Calls, Fail(c0) PROVE TypeOK'
  <2>1. pc' \in [Calls -> PCs] /\ answer' \in [Calls -> {"none", "ok", "refused", "error", "unheard"}]
    <3>1. \/ \E where \in {"session"} : Goto(c0, where)
          \/ \E a \in {"ok", "error"} : Return(c0, a)
      BY <1>25 DEF Fail, GiveUp
    <3> QED BY <3>1, Statements, Moves
  <2>2. op' \in [Calls -> Op] /\ found' \in [Calls -> Calls \cup Accounts \cup {None}]
    BY <1>25 DEF Fail, callVars
  <2>3. /\ password' \in [Accounts -> Calls \cup {None}] /\ verified' \subseteq Accounts
        /\ token' \in [Calls -> Calls \cup {None}]
        /\ links' \in [Identities -> Accounts \cup {None}]
    BY <1>25 DEF Fail, tables, oauth
  <2>4. /\ resets' \subseteq Calls /\ verifs' \subseteq Calls /\ states' \subseteq Calls
        /\ lapsed' \subseteq Table \X Calls
        /\ mailed' \subseteq Calls /\ known' \subseteq Calls /\ unlinked' \subseteq Calls
        /\ old' \in [Calls -> [Table -> SUBSET Calls]]
        /\ missed' \subseteq Table \X Calls /\ late' \subseteq Calls
    BY <1>25 DEF Fail, tables, oauth, history
  <2>5. \A c \in Calls :
          /\ pc'[c] = "rotate" => found'[c] \in Calls
          /\ op'[c].kind = "oauth" => found'[c] \in Accounts \cup {None}
          /\ pc'[c] = "link" => found'[c] # None
    BY <1>25 DEF Fail, Goto, Return, Unheard, GiveUp, callVars
  <2> QED BY <2>1, <2>2, <2>3, <2>4, <2>5
<1>26. ASSUME Lapse PROVE TypeOK'
  <2>1. pc' \in [Calls -> PCs] /\ answer' \in [Calls -> {"none", "ok", "refused", "error", "unheard"}]
    BY <1>26 DEF Lapse, callVars
  <2>2. op' \in [Calls -> Op] /\ found' \in [Calls -> Calls \cup Accounts \cup {None}]
    BY <1>26 DEF Lapse, Valid, Rows, callVars
  <2>3. /\ password' \in [Accounts -> Calls \cup {None}] /\ verified' \subseteq Accounts
        /\ token' \in [Calls -> Calls \cup {None}]
        /\ links' \in [Identities -> Accounts \cup {None}]
    BY <1>26 DEF Lapse, Valid, Rows, tables, oauth
  <2>4. /\ resets' \subseteq Calls /\ verifs' \subseteq Calls /\ states' \subseteq Calls
        /\ lapsed' \subseteq Table \X Calls
        /\ mailed' \subseteq Calls /\ known' \subseteq Calls /\ unlinked' \subseteq Calls
        /\ old' \in [Calls -> [Table -> SUBSET Calls]]
        /\ missed' \subseteq Table \X Calls /\ late' \subseteq Calls
    BY <1>26, NoneIsNothing, Statements, SessionRows DEF Lapse, Valid, Rows, tables, oauth, callVars, history, Table
  <2>5. \A c \in Calls :
          /\ pc'[c] = "rotate" => found'[c] \in Calls
          /\ op'[c].kind = "oauth" => found'[c] \in Accounts \cup {None}
          /\ pc'[c] = "link" => found'[c] # None
    BY <1>26 DEF Lapse, Valid, Rows, Goto, Return, Unheard, GiveUp, callVars
  <2> QED BY <2>1, <2>2, <2>3, <2>4, <2>5
<1>27. ASSUME Crash PROVE TypeOK'
  <2>1. pc' \in [Calls -> PCs] /\ answer' \in [Calls -> {"none", "ok", "refused", "error", "unheard"}]
    <3>1. pc' \in [Calls -> PCs] BY <1>27, Statements DEF Crash
    <3>2. answer' \in [Calls -> {"none", "ok", "refused", "error", "unheard"}] BY <1>27 DEF Crash
    <3> QED BY <3>1, <3>2
  <2>2. op' \in [Calls -> Op] /\ found' \in [Calls -> Calls \cup Accounts \cup {None}]
    BY <1>27 DEF Crash, Running, callVars
  <2>3. /\ password' \in [Accounts -> Calls \cup {None}] /\ verified' \subseteq Accounts
        /\ token' \in [Calls -> Calls \cup {None}]
        /\ links' \in [Identities -> Accounts \cup {None}]
    BY <1>27 DEF Crash, Running, tables, oauth
  <2>4. /\ resets' \subseteq Calls /\ verifs' \subseteq Calls /\ states' \subseteq Calls
        /\ lapsed' \subseteq Table \X Calls
        /\ mailed' \subseteq Calls /\ known' \subseteq Calls /\ unlinked' \subseteq Calls
        /\ old' \in [Calls -> [Table -> SUBSET Calls]]
        /\ missed' \subseteq Table \X Calls /\ late' \subseteq Calls
    BY <1>27 DEF Crash, Running, tables, oauth, history
  <2>5. \A c \in Calls :
          /\ pc'[c] = "rotate" => found'[c] \in Calls
          /\ op'[c].kind = "oauth" => found'[c] \in Accounts \cup {None}
          /\ pc'[c] = "link" => found'[c] # None
    BY <1>27 DEF Crash, Running, Goto, Return, Unheard, GiveUp, callVars
  <2> QED BY <2>1, <2>2, <2>3, <2>4, <2>5
<1>28. CASE UNCHANGED vars
  BY <1>28 DEF vars, tables, oauth, callVars, history, TypeOK, Rows, Op
<1> QED
  BY <1>1, <1>2, <1>3, <1>4, <1>5, <1>6, <1>7, <1>8, <1>9, <1>10, <1>11, <1>12, <1>13, <1>14, <1>15, <1>16, <1>17, <1>18, <1>19, <1>20, <1>21, <1>22, <1>23, <1>24, <1>25, <1>26, <1>27, <1>28 DEF Next, Step

\* Every statement leads to one of its own kind of call.
LEMMA PhasesKept == ASSUME IInv, [Next]_vars PROVE Phases'
<1> USE DEF IInv, TypeOK
<1>1. ASSUME NEW c0 \in Calls, Arrive(c0) PROVE Phases'
  BY Arrived, PhasesMove, <1>1 DEF Phases, Phase
<1>2. ASSUME NEW c0 \in Calls, InsertUser(c0) PROVE Phases'
  BY <1>2, NoneIsNothing DEF InsertUser, Goto, Return, Unheard, GiveUp, tables, oauth, callVars, history, Phases, Phase
<1>3. ASSUME NEW c0 \in Calls, ReadUser(c0) PROVE Phases'
  BY <1>3, NoneIsNothing DEF ReadUser, Goto, Return, Unheard, GiveUp, tables, oauth, callVars, history, Phases, Phase
<1>4. ASSUME NEW c0 \in Calls, InsertSession(c0) PROVE Phases'
  BY <1>4, NoneIsNothing DEF InsertSession, Goto, Return, Unheard, GiveUp, tables, oauth, callVars, history, Phases, Phase
<1>5. ASSUME NEW c0 \in Calls, ReadSession(c0) PROVE Phases'
  BY <1>5, NoneIsNothing, SessionRows DEF ReadSession, Goto, Return, Unheard, GiveUp, tables, oauth, callVars, history, Phases, Phase
<1>6. ASSUME NEW c0 \in Calls, Rotate(c0) PROVE Phases'
  BY <1>6, NoneIsNothing DEF Rotate, Goto, Return, Unheard, GiveUp, tables, oauth, callVars, history, Phases, Phase
<1>7. ASSUME NEW c0 \in Calls, DeleteSession(c0) PROVE Phases'
  BY <1>7, NoneIsNothing DEF DeleteSession, Goto, Return, Unheard, GiveUp, tables, oauth, callVars, history, Phases, Phase
<1>8. ASSUME NEW c0 \in Calls, ClearResets(c0) PROVE Phases'
  BY <1>8, NoneIsNothing DEF ClearResets, Miss, Owned, Goto, Return, Unheard, GiveUp, tables, oauth, callVars, history, Phases, Phase
<1>9. ASSUME NEW c0 \in Calls, InsertReset(c0) PROVE Phases'
  BY <1>9, NoneIsNothing DEF InsertReset, Goto, Return, Unheard, GiveUp, tables, oauth, callVars, history, Phases, Phase
<1>10. ASSUME NEW c0 \in Calls, ReadReset(c0) PROVE Phases'
  BY <1>10, NoneIsNothing DEF ReadReset, Goto, Return, Unheard, GiveUp, tables, oauth, callVars, history, Phases, Phase
<1>11. ASSUME NEW c0 \in Calls, SetPassword(c0) PROVE Phases'
  BY <1>11, NoneIsNothing DEF SetPassword, Remember, Account, Goto, Return, Unheard, GiveUp, tables, oauth, callVars, history, Phases, Phase
<1>12. ASSUME NEW c0 \in Calls, ClearSessions(c0) PROVE Phases'
  BY <1>12, NoneIsNothing DEF ClearSessions, Miss, Goto, Return, Unheard, GiveUp, tables, oauth, callVars, history, Phases, Phase
<1>13. ASSUME NEW c0 \in Calls, ClearVerifs(c0) PROVE Phases'
  BY <1>13, NoneIsNothing DEF ClearVerifs, Miss, Owned, Goto, Return, Unheard, GiveUp, tables, oauth, callVars, history, Phases, Phase
<1>14. ASSUME NEW c0 \in Calls, InsertVerif(c0) PROVE Phases'
  BY <1>14, NoneIsNothing DEF InsertVerif, Goto, Return, Unheard, GiveUp, tables, oauth, callVars, history, Phases, Phase
<1>15. ASSUME NEW c0 \in Calls, Mail(c0) PROVE Phases'
  BY <1>15, NoneIsNothing DEF Mail, Goto, Return, Unheard, GiveUp, tables, oauth, callVars, history, Phases, Phase
<1>16. ASSUME NEW c0 \in Calls, ReadVerif(c0) PROVE Phases'
  BY <1>16, NoneIsNothing DEF ReadVerif, Goto, Return, Unheard, GiveUp, tables, oauth, callVars, history, Phases, Phase
<1>17. ASSUME NEW c0 \in Calls, MarkVerified(c0) PROVE Phases'
  BY <1>17, NoneIsNothing DEF MarkVerified, Account, Op, Goto, Return, Unheard, GiveUp, tables, oauth, callVars, history, Phases, Phase
<1>18. ASSUME NEW c0 \in Calls, Generate(c0) PROVE Phases'
  BY <1>18, NoneIsNothing, SessionRows DEF Generate, Goto, Return, Unheard, GiveUp, tables, oauth, callVars, history, Phases, Phase
<1>19. ASSUME NEW c0 \in Calls, Validate(c0) PROVE Phases'
  BY <1>19, NoneIsNothing, SessionRows DEF Validate, Goto, Return, Unheard, GiveUp, tables, oauth, callVars, history, Phases, Phase
<1>20. ASSUME NEW c0 \in Calls, Exchange(c0) PROVE Phases'
  BY <1>20, NoneIsNothing DEF Exchange, Goto, Return, Unheard, GiveUp, tables, oauth, callVars, history, Phases, Phase
<1>21. ASSUME NEW c0 \in Calls, ReadLink(c0) PROVE Phases'
  BY <1>21, NoneIsNothing DEF ReadLink, Goto, Return, Unheard, GiveUp, tables, oauth, callVars, history, Phases, Phase
<1>22. ASSUME NEW c0 \in Calls, ReadByEmail(c0) PROVE Phases'
  <2>1. /\ UNCHANGED <<op, answer>> /\ pc[c0] = "readByEmail"
        /\ \A c \in Calls : c # c0 => found'[c] = found[c]
        /\ \/ pc' = [pc EXCEPT ![c0] = "link"] \/ pc' = [pc EXCEPT ![c0] = "insertOAuthUser"]
    BY <1>22 DEF ReadByEmail, Goto
  <2>2. Phase(op[c0].kind, "link") /\ Phase(op[c0].kind, "insertOAuthUser") /\ answer[c0] = "none"
        /\ op[c0].ident \in Identities
    BY <2>1 DEF Phases, Phase
  <2>3. pc'[c0] \in {"link", "insertOAuthUser"} /\ \A c \in Calls : c # c0 => pc'[c] = pc[c]
    BY <2>1
  <2>4. Phase(op'[c0].kind, pc'[c0]) BY <2>1, <2>2, <2>3
  <2> QED BY <2>1, <2>2, <2>3, <2>4, PhasesMove
<1>23. ASSUME NEW c0 \in Calls, InsertOAuthUser(c0) PROVE Phases'
  <2>1. /\ UNCHANGED op /\ pc[c0] = "insertOAuthUser"
        /\ \A c \in Calls : c # c0 => found'[c] = found[c]
        /\ (pc' = [pc EXCEPT ![c0] = "link"] /\ UNCHANGED answer) \/ Return(c0, "unheard")
    BY <1>23, Unheards DEF InsertOAuthUser, Goto, Phases, Phase
  <2>2. /\ Phase(op[c0].kind, "link") /\ Phase(op[c0].kind, "end") /\ answer[c0] = "none"
        /\ op[c0].ident \in Identities
    BY <2>1 DEF Phases, Phase
  <2>3. CASE Return(c0, "unheard")
    <3>1. \A c \in Calls : c # c0 => pc'[c] = pc[c] /\ answer'[c] = answer[c] BY <2>3 DEF Return
    <3>2. pc'[c0] = "end" BY <2>3 DEF Return
    <3> QED BY <2>1, <2>2, <3>1, <3>2, PhasesMove
  <2>4. CASE pc' = [pc EXCEPT ![c0] = "link"] /\ UNCHANGED answer
    BY <2>1, <2>2, <2>4, PhasesMove
  <2> QED BY <2>1, <2>3, <2>4
<1>24. ASSUME NEW c0 \in Calls, Link(c0) PROVE Phases'
  BY <1>24, NoneIsNothing DEF Link, Goto, Return, Unheard, GiveUp, tables, oauth, callVars, history, Phases, Phase
<1>25. ASSUME NEW c0 \in Calls, Fail(c0) PROVE Phases'
  BY <1>25, NoneIsNothing DEF Fail, Goto, Return, Unheard, GiveUp, tables, oauth, callVars, history, Phases, Phase
<1>26. ASSUME Lapse PROVE Phases'
  BY <1>26, NoneIsNothing DEF Lapse, Valid, Rows, Goto, Return, Unheard, GiveUp, tables, oauth, callVars, history, Phases, Phase
<1>27. ASSUME Crash PROVE Phases'
  BY <1>27, NoneIsNothing DEF Crash, Running, Goto, Return, Unheard, GiveUp, tables, oauth, callVars, history, Phases, Phase
<1>28. CASE UNCHANGED vars
  BY <1>28 DEF vars, tables, oauth, callVars, history, Phases, Phase
<1> QED
  BY <1>1, <1>2, <1>3, <1>4, <1>5, <1>6, <1>7, <1>8, <1>9, <1>10, <1>11, <1>12, <1>13, <1>14, <1>15, <1>16, <1>17, <1>18, <1>19, <1>20, <1>21, <1>22, <1>23, <1>24, <1>25, <1>26, <1>27, <1>28 DEF Next, Step

\* Tokens stay those of calls that have ended, each in one session.
LEMMA IssuedKept == ASSUME IInv, [Next]_vars PROVE Issued'
<1> USE DEF IInv, TypeOK
<1>1. ASSUME NEW c0 \in Calls, Arrive(c0) PROVE Issued'
  BY <1>1, NoneIsNothing DEF Arrive, Presentable, Held, First, Op, AllKinds, Goto, Return, Unheard, GiveUp, tables, oauth, callVars, history, Issued, Phases, Phase
<1>2. ASSUME NEW c0 \in Calls, InsertUser(c0) PROVE Issued'
  BY <1>2, NoneIsNothing DEF InsertUser, Goto, Return, Unheard, GiveUp, tables, oauth, callVars, history, Issued, Phases, Phase
<1>3. ASSUME NEW c0 \in Calls, ReadUser(c0) PROVE Issued'
  BY <1>3, NoneIsNothing DEF ReadUser, Goto, Return, Unheard, GiveUp, tables, oauth, callVars, history, Issued, Phases, Phase
<1>4. ASSUME NEW c0 \in Calls, InsertSession(c0) PROVE Issued'
  BY <1>4, NoneIsNothing DEF InsertSession, Goto, Return, Unheard, GiveUp, tables, oauth, callVars, history, Issued, Phases, Phase
<1>5. ASSUME NEW c0 \in Calls, ReadSession(c0) PROVE Issued'
  BY <1>5, NoneIsNothing, SessionRows DEF ReadSession, Goto, Return, Unheard, GiveUp, tables, oauth, callVars, history, Issued, Phases, Phase
<1>6. ASSUME NEW c0 \in Calls, Rotate(c0) PROVE Issued'
  <2>1. /\ pc[c0] = "rotate" /\ pc' = [pc EXCEPT ![c0] = "end"]
        /\ \/ token[found[c0]] # None /\ token' = [token EXCEPT ![found[c0]] = c0]
           \/ UNCHANGED token
    BY <1>6, Unheards DEF Rotate, Return, Phases, Phase
  <2>2. \A s \in Calls : token[s] # c0 BY <2>1, NoneIsNothing DEF Issued
  <2>3. found[c0] \in Calls BY <2>1
  <2>4. \A s \in Calls : pc[s] = "end" => pc'[s] = "end" BY <2>1
  <2>5. pc'[c0] = "end" BY <2>1
  <2>6. CASE token[found[c0]] # None /\ token' = [token EXCEPT ![found[c0]] = c0]
    <3>1. \A s \in Calls : token'[s] = IF s = found[c0] THEN c0 ELSE token[s] BY <2>6
    <3>2. pc[found[c0]] = "end" BY <2>3, <2>6 DEF Issued
    <3>3. Issued /\ \A s \in Calls : token[s] \in Calls \cup {None} OBVIOUS
    <3> HIDE DEF TypeOK, IInv
    <3>4. \A s \in Calls : token'[s] # None => pc'[s] = "end" /\ pc'[token'[s]] = "end"
      BY <2>3, <2>4, <2>5, <3>1, <3>2, <3>3 DEF Issued
    <3>5. \A s, t \in Calls : token'[s] = token'[t] /\ token'[s] # None => s = t
      BY <2>2, <3>1, <3>3 DEF Issued
    <3> QED BY <3>4, <3>5 DEF Issued
  <2>7. CASE UNCHANGED token BY <2>4, <2>7, NoneIsNothing DEF Issued
  <2> QED BY <2>1, <2>6, <2>7
<1>7. ASSUME NEW c0 \in Calls, DeleteSession(c0) PROVE Issued'
  BY <1>7, NoneIsNothing DEF DeleteSession, Goto, Return, Unheard, GiveUp, tables, oauth, callVars, history, Issued, Phases, Phase
<1>8. ASSUME NEW c0 \in Calls, ClearResets(c0) PROVE Issued'
  BY <1>8, NoneIsNothing DEF ClearResets, Miss, Owned, Goto, Return, Unheard, GiveUp, tables, oauth, callVars, history, Issued, Phases, Phase
<1>9. ASSUME NEW c0 \in Calls, InsertReset(c0) PROVE Issued'
  BY <1>9, NoneIsNothing DEF InsertReset, Goto, Return, Unheard, GiveUp, tables, oauth, callVars, history, Issued, Phases, Phase
<1>10. ASSUME NEW c0 \in Calls, ReadReset(c0) PROVE Issued'
  BY <1>10, NoneIsNothing DEF ReadReset, Goto, Return, Unheard, GiveUp, tables, oauth, callVars, history, Issued, Phases, Phase
<1>11. ASSUME NEW c0 \in Calls, SetPassword(c0) PROVE Issued'
  BY <1>11, NoneIsNothing DEF SetPassword, Remember, Account, Goto, Return, Unheard, GiveUp, tables, oauth, callVars, history, Issued, Phases, Phase
<1>12. ASSUME NEW c0 \in Calls, ClearSessions(c0) PROVE Issued'
  BY <1>12, NoneIsNothing DEF ClearSessions, Miss, Goto, Return, Unheard, GiveUp, tables, oauth, callVars, history, Issued, Phases, Phase
<1>13. ASSUME NEW c0 \in Calls, ClearVerifs(c0) PROVE Issued'
  BY <1>13, NoneIsNothing DEF ClearVerifs, Miss, Owned, Goto, Return, Unheard, GiveUp, tables, oauth, callVars, history, Issued, Phases, Phase
<1>14. ASSUME NEW c0 \in Calls, InsertVerif(c0) PROVE Issued'
  BY <1>14, NoneIsNothing DEF InsertVerif, Goto, Return, Unheard, GiveUp, tables, oauth, callVars, history, Issued, Phases, Phase
<1>15. ASSUME NEW c0 \in Calls, Mail(c0) PROVE Issued'
  BY <1>15, NoneIsNothing DEF Mail, Goto, Return, Unheard, GiveUp, tables, oauth, callVars, history, Issued, Phases, Phase
<1>16. ASSUME NEW c0 \in Calls, ReadVerif(c0) PROVE Issued'
  BY <1>16, NoneIsNothing DEF ReadVerif, Goto, Return, Unheard, GiveUp, tables, oauth, callVars, history, Issued, Phases, Phase
<1>17. ASSUME NEW c0 \in Calls, MarkVerified(c0) PROVE Issued'
  BY <1>17, NoneIsNothing DEF MarkVerified, Account, Op, Goto, Return, Unheard, GiveUp, tables, oauth, callVars, history, Issued, Phases, Phase
<1>18. ASSUME NEW c0 \in Calls, Generate(c0) PROVE Issued'
  BY <1>18, NoneIsNothing, SessionRows DEF Generate, Goto, Return, Unheard, GiveUp, tables, oauth, callVars, history, Issued, Phases, Phase
<1>19. ASSUME NEW c0 \in Calls, Validate(c0) PROVE Issued'
  BY <1>19, NoneIsNothing, SessionRows DEF Validate, Goto, Return, Unheard, GiveUp, tables, oauth, callVars, history, Issued, Phases, Phase
<1>20. ASSUME NEW c0 \in Calls, Exchange(c0) PROVE Issued'
  BY <1>20, NoneIsNothing DEF Exchange, Goto, Return, Unheard, GiveUp, tables, oauth, callVars, history, Issued, Phases, Phase
<1>21. ASSUME NEW c0 \in Calls, ReadLink(c0) PROVE Issued'
  BY <1>21, NoneIsNothing DEF ReadLink, Goto, Return, Unheard, GiveUp, tables, oauth, callVars, history, Issued, Phases, Phase
<1>22. ASSUME NEW c0 \in Calls, ReadByEmail(c0) PROVE Issued'
  BY <1>22, NoneIsNothing DEF ReadByEmail, Goto, Return, Unheard, GiveUp, tables, oauth, callVars, history, Issued, Phases, Phase
<1>23. ASSUME NEW c0 \in Calls, InsertOAuthUser(c0) PROVE Issued'
  BY <1>23, NoneIsNothing DEF InsertOAuthUser, Goto, Return, Unheard, GiveUp, tables, oauth, callVars, history, Issued, Phases, Phase
<1>24. ASSUME NEW c0 \in Calls, Link(c0) PROVE Issued'
  BY <1>24, NoneIsNothing DEF Link, Goto, Return, Unheard, GiveUp, tables, oauth, callVars, history, Issued, Phases, Phase
<1>25. ASSUME NEW c0 \in Calls, Fail(c0) PROVE Issued'
  BY <1>25, NoneIsNothing DEF Fail, Goto, Return, Unheard, GiveUp, tables, oauth, callVars, history, Issued, Phases, Phase
<1>26. ASSUME Lapse PROVE Issued'
  BY <1>26, NoneIsNothing DEF Lapse, Valid, Rows, Goto, Return, Unheard, GiveUp, tables, oauth, callVars, history, Issued, Phases, Phase
<1>27. ASSUME Crash PROVE Issued'
  BY <1>27, NoneIsNothing DEF Crash, Running, Goto, Return, Unheard, GiveUp, tables, oauth, callVars, history, Issued, Phases, Phase
<1>28. CASE UNCHANGED vars
  BY <1>28 DEF vars, tables, oauth, callVars, history, Issued, Phases, Phase
<1> QED
  BY <1>1, <1>2, <1>3, <1>4, <1>5, <1>6, <1>7, <1>8, <1>9, <1>10, <1>11, <1>12, <1>13, <1>14, <1>15, <1>16, <1>17, <1>18, <1>19, <1>20, <1>21, <1>22, <1>23, <1>24, <1>25, <1>26, <1>27, <1>28 DEF Next, Step

\* Clients go on presenting what they were given.
LEMMA PresentedKept == ASSUME IInv, [Next]_vars PROVE Presented'
<1> USE DEF IInv, TypeOK
<1>1. ASSUME NEW c0 \in Calls, Arrive(c0) PROVE Presented'
  <2>1. /\ \A d \in Calls : d # c0 => op'[d] = op[d] /\ pc'[d] = pc[d]
        /\ pc[c0] = "idle"
        /\ op'[c0].kind \in {"refresh", "logout", "oauth"} =>
             op'[c0].uses \in Calls /\ answer[op'[c0].uses] = "ok"
    BY Arrived, <1>1
  <2>2. \A d \in Calls : answer[d] = "ok" => pc[d] = "end" BY DEF Phases, Phase
  <2> HIDE DEF TypeOK, IInv
  <2>3. \A d \in Calls : pc[d] = "end" => pc'[d] = "end" BY <2>1
  <2>4. Presented BY DEF IInv
  <2> QED BY <2>1, <2>2, <2>3, <2>4 DEF Presented
<1>2. ASSUME NEW c0 \in Calls, InsertUser(c0) PROVE Presented'
  BY <1>2, NoneIsNothing DEF InsertUser, Goto, Return, Unheard, GiveUp, tables, oauth, callVars, history, Presented, Phases, Phase
<1>3. ASSUME NEW c0 \in Calls, ReadUser(c0) PROVE Presented'
  BY <1>3, NoneIsNothing DEF ReadUser, Goto, Return, Unheard, GiveUp, tables, oauth, callVars, history, Presented, Phases, Phase
<1>4. ASSUME NEW c0 \in Calls, InsertSession(c0) PROVE Presented'
  BY <1>4, NoneIsNothing DEF InsertSession, Goto, Return, Unheard, GiveUp, tables, oauth, callVars, history, Presented, Phases, Phase
<1>5. ASSUME NEW c0 \in Calls, ReadSession(c0) PROVE Presented'
  BY <1>5, NoneIsNothing, SessionRows DEF ReadSession, Goto, Return, Unheard, GiveUp, tables, oauth, callVars, history, Presented, Phases, Phase
<1>6. ASSUME NEW c0 \in Calls, Rotate(c0) PROVE Presented'
  BY <1>6, NoneIsNothing DEF Rotate, Goto, Return, Unheard, GiveUp, tables, oauth, callVars, history, Presented, Phases, Phase
<1>7. ASSUME NEW c0 \in Calls, DeleteSession(c0) PROVE Presented'
  BY <1>7, NoneIsNothing DEF DeleteSession, Goto, Return, Unheard, GiveUp, tables, oauth, callVars, history, Presented, Phases, Phase
<1>8. ASSUME NEW c0 \in Calls, ClearResets(c0) PROVE Presented'
  BY <1>8, NoneIsNothing DEF ClearResets, Miss, Owned, Goto, Return, Unheard, GiveUp, tables, oauth, callVars, history, Presented, Phases, Phase
<1>9. ASSUME NEW c0 \in Calls, InsertReset(c0) PROVE Presented'
  BY <1>9, NoneIsNothing DEF InsertReset, Goto, Return, Unheard, GiveUp, tables, oauth, callVars, history, Presented, Phases, Phase
<1>10. ASSUME NEW c0 \in Calls, ReadReset(c0) PROVE Presented'
  BY <1>10, NoneIsNothing DEF ReadReset, Goto, Return, Unheard, GiveUp, tables, oauth, callVars, history, Presented, Phases, Phase
<1>11. ASSUME NEW c0 \in Calls, SetPassword(c0) PROVE Presented'
  BY <1>11, NoneIsNothing DEF SetPassword, Remember, Account, Goto, Return, Unheard, GiveUp, tables, oauth, callVars, history, Presented, Phases, Phase
<1>12. ASSUME NEW c0 \in Calls, ClearSessions(c0) PROVE Presented'
  BY <1>12, NoneIsNothing DEF ClearSessions, Miss, Goto, Return, Unheard, GiveUp, tables, oauth, callVars, history, Presented, Phases, Phase
<1>13. ASSUME NEW c0 \in Calls, ClearVerifs(c0) PROVE Presented'
  BY <1>13, NoneIsNothing DEF ClearVerifs, Miss, Owned, Goto, Return, Unheard, GiveUp, tables, oauth, callVars, history, Presented, Phases, Phase
<1>14. ASSUME NEW c0 \in Calls, InsertVerif(c0) PROVE Presented'
  BY <1>14, NoneIsNothing DEF InsertVerif, Goto, Return, Unheard, GiveUp, tables, oauth, callVars, history, Presented, Phases, Phase
<1>15. ASSUME NEW c0 \in Calls, Mail(c0) PROVE Presented'
  BY <1>15, NoneIsNothing DEF Mail, Goto, Return, Unheard, GiveUp, tables, oauth, callVars, history, Presented, Phases, Phase
<1>16. ASSUME NEW c0 \in Calls, ReadVerif(c0) PROVE Presented'
  BY <1>16, NoneIsNothing DEF ReadVerif, Goto, Return, Unheard, GiveUp, tables, oauth, callVars, history, Presented, Phases, Phase
<1>17. ASSUME NEW c0 \in Calls, MarkVerified(c0) PROVE Presented'
  BY <1>17, NoneIsNothing DEF MarkVerified, Account, Op, Goto, Return, Unheard, GiveUp, tables, oauth, callVars, history, Presented, Phases, Phase
<1>18. ASSUME NEW c0 \in Calls, Generate(c0) PROVE Presented'
  BY <1>18, NoneIsNothing, SessionRows DEF Generate, Goto, Return, Unheard, GiveUp, tables, oauth, callVars, history, Presented, Phases, Phase
<1>19. ASSUME NEW c0 \in Calls, Validate(c0) PROVE Presented'
  BY <1>19, NoneIsNothing, SessionRows DEF Validate, Goto, Return, Unheard, GiveUp, tables, oauth, callVars, history, Presented, Phases, Phase
<1>20. ASSUME NEW c0 \in Calls, Exchange(c0) PROVE Presented'
  BY <1>20, NoneIsNothing DEF Exchange, Goto, Return, Unheard, GiveUp, tables, oauth, callVars, history, Presented, Phases, Phase
<1>21. ASSUME NEW c0 \in Calls, ReadLink(c0) PROVE Presented'
  BY <1>21, NoneIsNothing DEF ReadLink, Goto, Return, Unheard, GiveUp, tables, oauth, callVars, history, Presented, Phases, Phase
<1>22. ASSUME NEW c0 \in Calls, ReadByEmail(c0) PROVE Presented'
  BY <1>22, NoneIsNothing DEF ReadByEmail, Goto, Return, Unheard, GiveUp, tables, oauth, callVars, history, Presented, Phases, Phase
<1>23. ASSUME NEW c0 \in Calls, InsertOAuthUser(c0) PROVE Presented'
  BY <1>23, NoneIsNothing DEF InsertOAuthUser, Goto, Return, Unheard, GiveUp, tables, oauth, callVars, history, Presented, Phases, Phase
<1>24. ASSUME NEW c0 \in Calls, Link(c0) PROVE Presented'
  BY <1>24, NoneIsNothing DEF Link, Goto, Return, Unheard, GiveUp, tables, oauth, callVars, history, Presented, Phases, Phase
<1>25. ASSUME NEW c0 \in Calls, Fail(c0) PROVE Presented'
  BY <1>25, NoneIsNothing DEF Fail, Goto, Return, Unheard, GiveUp, tables, oauth, callVars, history, Presented, Phases, Phase
<1>26. ASSUME Lapse PROVE Presented'
  BY <1>26, NoneIsNothing DEF Lapse, Valid, Rows, Goto, Return, Unheard, GiveUp, tables, oauth, callVars, history, Presented, Phases, Phase
<1>27. ASSUME Crash PROVE Presented'
  BY <1>27, NoneIsNothing DEF Crash, Running, Goto, Return, Unheard, GiveUp, tables, oauth, callVars, history, Presented, Phases, Phase
<1>28. CASE UNCHANGED vars
  BY <1>28 DEF vars, tables, oauth, callVars, history, Presented, Phases, Phase
<1> QED
  BY <1>1, <1>2, <1>3, <1>4, <1>5, <1>6, <1>7, <1>8, <1>9, <1>10, <1>11, <1>12, <1>13, <1>14, <1>15, <1>16, <1>17, <1>18, <1>19, <1>20, <1>21, <1>22, <1>23, <1>24, <1>25, <1>26, <1>27, <1>28 DEF Next, Step

\* A refresh under way finds its token in its session or nowhere.
LEMMA RotatingKept == ASSUME IInv, [Next]_vars PROVE Rotating'
<1> USE DEF IInv, TypeOK
<1>1. ASSUME NEW c0 \in Calls, Arrive(c0) PROVE Rotating'
  BY Arrived, RotatingStays, <1>1
<1>2. ASSUME NEW c0 \in Calls, InsertUser(c0) PROVE Rotating'
  <2>1. \/ \E where \in {"clearVerifs", "session"} : Goto(c0, where)
        \/ \E a \in {"ok", "refused", "error", "unheard"} : Return(c0, a)
    BY <1>2, Unheards DEF InsertUser
  <2>2. \A c \in Calls : pc'[c] = "rotate" => pc[c] = "rotate" /\ c # c0
    BY <2>1 DEF Goto, Return
  <2>3. UNCHANGED <<op, token>> /\ \A c \in Calls : c # c0 => found'[c] = found[c]
    BY <1>2 DEF InsertUser, tables
  <2> QED BY <2>2, <2>3, RotatingStays
<1>3. ASSUME NEW c0 \in Calls, ReadUser(c0) PROVE Rotating'
  <2>1. \/ \E where \in {"session", "clearResets"} : Goto(c0, where)
        \/ \E a \in {"ok", "refused", "error", "unheard"} : Return(c0, a)
    BY <1>3 DEF ReadUser
  <2>2. \A c \in Calls : pc'[c] = "rotate" => pc[c] = "rotate" /\ c # c0
    BY <2>1 DEF Goto, Return
  <2>3. UNCHANGED <<op, token>> /\ \A c \in Calls : c # c0 => found'[c] = found[c]
    BY <1>3 DEF ReadUser, tables
  <2> QED BY <2>2, <2>3, RotatingStays
<1>4. ASSUME NEW c0 \in Calls, InsertSession(c0) PROVE Rotating'
  <2>1. /\ UNCHANGED <<op, found>> /\ token' = [token EXCEPT ![c0] = c0] /\ pc[c0] = "session"
        /\ \A c \in Calls : pc'[c] = "rotate" => pc[c] = "rotate"
    BY <1>4, Unheards DEF InsertSession, Goto, Return, oauth
  <2>2. token[c0] = None BY <2>1 DEF Issued
  <2> SUFFICES ASSUME NEW c \in Calls, pc[c] = "rotate"
               PROVE  \/ token'[found[c]] = op[c].uses
                      \/ \A s \in Calls : token'[s] # op[c].uses
    BY <2>1 DEF Rotating
  <2>3. op[c].uses \in Calls /\ pc[op[c].uses] = "end" /\ found[c] \in Calls
    BY DEF Presented, Phases, Phase
  <2>4. op[c].uses # c0 BY <2>1, <2>3
  <2>5. \A s \in Calls : token'[s] = IF s = c0 THEN c0 ELSE token[s] BY <2>1
  <2> QED BY <2>2, <2>3, <2>4, <2>5, NoneIsNothing DEF Rotating
<1>5. ASSUME NEW c0 \in Calls, ReadSession(c0) PROVE Rotating'
  <2>1. CASE \E s \in {r \in Valid("sessions") : token[r] = op[c0].uses} :
               found' = [found EXCEPT ![c0] = s] /\ Goto(c0, "rotate")
    <3>1. PICK s \in Calls : token[s] = op[c0].uses /\ found' = [found EXCEPT ![c0] = s] /\ Goto(c0, "rotate")
      BY <2>1, SessionRows
    <3>2. found'[c0] = s /\ \A c \in Calls : c # c0 => found'[c] = found[c] /\ pc'[c] = pc[c]
      BY <3>1 DEF Goto
    <3>3. UNCHANGED <<op, token>> BY <1>5 DEF ReadSession, tables
    <3>4. Rotating OBVIOUS
    <3> HIDE DEF TypeOK, IInv
    <3> QED BY <3>1, <3>2, <3>3, <3>4 DEF Rotating
  <2>2. CASE Return(c0, "refused") /\ UNCHANGED found
    <3>1. UNCHANGED <<op, token>> BY <1>5 DEF ReadSession, tables
    <3> QED BY <2>2, <3>1, RotatingStays DEF Return
  <2> QED BY <1>5, <2>1, <2>2 DEF ReadSession
<1>6. ASSUME NEW c0 \in Calls, Rotate(c0) PROVE Rotating'
  <2>1. /\ UNCHANGED <<op, found>> /\ pc[c0] = "rotate"
        /\ token' = [token EXCEPT ![found[c0]] = c0] \/ UNCHANGED token
        /\ \A c \in Calls : pc'[c] = "rotate" => pc[c] = "rotate"
    BY <1>6, Unheards DEF Rotate, Goto, Return
  <2>2. CASE UNCHANGED token BY <2>1, <2>2, RotatingStays
  <2>3. CASE token' = [token EXCEPT ![found[c0]] = c0]
    <3> SUFFICES ASSUME NEW c \in Calls, pc[c] = "rotate"
                 PROVE  \/ token'[found[c]] = op[c].uses
                        \/ \A s \in Calls : token'[s] # op[c].uses
      BY <2>1 DEF Rotating
    <3>1. op[c].uses \in Calls /\ pc[op[c].uses] = "end" /\ found[c] \in Calls /\ found[c0] \in Calls
      BY <2>1 DEF Presented, Phases, Phase
    <3>2. op[c].uses # c0 /\ op[c].uses # None BY <2>1, <3>1, NoneIsNothing
    <3>3. \A s \in Calls : token'[s] = IF s = found[c0] THEN c0 ELSE token[s] BY <2>3
    <3>4. \A s, t \in Calls : token[s] = token[t] /\ token[s] # None => s = t BY DEF Issued
    <3>5. token[found[c]] = op[c].uses \/ \A s \in Calls : token[s] # op[c].uses BY DEF Rotating
    <3> HIDE DEF TypeOK, IInv
    <3> QED BY <3>1, <3>2, <3>3, <3>4, <3>5
  <2> QED BY <2>1, <2>2, <2>3
<1>7. ASSUME NEW c0 \in Calls, DeleteSession(c0) PROVE Rotating'
  <2>1. /\ UNCHANGED <<op, found>>
        /\ \A s \in Calls : token'[s] \in {token[s], None}
        /\ \A c \in Calls : pc'[c] = "rotate" => pc[c] = "rotate"
    BY <1>7, Unheards DEF DeleteSession, Goto, Return, oauth
  <2> QED BY <2>1, RotatingThins
<1>8. ASSUME NEW c0 \in Calls, ClearResets(c0) PROVE Rotating'
  <2>1. \E where \in {"insertReset", "clearSessions"} : Goto(c0, where)
    BY <1>8 DEF ClearResets
  <2>2. \A c \in Calls : pc'[c] = "rotate" => pc[c] = "rotate" /\ c # c0
    BY <2>1 DEF Goto, Return
  <2>3. UNCHANGED <<op, token>> /\ \A c \in Calls : c # c0 => found'[c] = found[c]
    BY <1>8 DEF ClearResets, tables
  <2> QED BY <2>2, <2>3, RotatingStays
<1>9. ASSUME NEW c0 \in Calls, InsertReset(c0) PROVE Rotating'
  <2>1. \/ \E where \in {"mail", "session"} : Goto(c0, where)
        \/ \E a \in {"ok", "unheard"} : Return(c0, a)
    BY <1>9, Unheards DEF InsertReset
  <2>2. \A c \in Calls : pc'[c] = "rotate" => pc[c] = "rotate" /\ c # c0
    BY <2>1 DEF Goto, Return
  <2>3. UNCHANGED <<op, token>> /\ \A c \in Calls : c # c0 => found'[c] = found[c]
    BY <1>9 DEF InsertReset, tables
  <2> QED BY <2>2, <2>3, RotatingStays
<1>10. ASSUME NEW c0 \in Calls, ReadReset(c0) PROVE Rotating'
  <2>1. \/ \E where \in {"setPassword"} : Goto(c0, where)
        \/ \E a \in {"ok", "refused", "error", "unheard"} : Return(c0, a)
    BY <1>10 DEF ReadReset
  <2>2. \A c \in Calls : pc'[c] = "rotate" => pc[c] = "rotate" /\ c # c0
    BY <2>1 DEF Goto, Return
  <2>3. UNCHANGED <<op, token>> /\ \A c \in Calls : c # c0 => found'[c] = found[c]
    BY <1>10 DEF ReadReset, tables
  <2> QED BY <2>2, <2>3, RotatingStays
<1>11. ASSUME NEW c0 \in Calls, SetPassword(c0) PROVE Rotating'
  <2>1. \/ \E where \in {"clearResets", "session"} : Goto(c0, where)
        \/ \E a \in {"ok", "unheard"} : Return(c0, a)
    BY <1>11, Unheards DEF SetPassword
  <2>2. \A c \in Calls : pc'[c] = "rotate" => pc[c] = "rotate" /\ c # c0
    BY <2>1 DEF Goto, Return
  <2>3. UNCHANGED <<op, token>> /\ \A c \in Calls : c # c0 => found'[c] = found[c]
    BY <1>11 DEF SetPassword, tables
  <2> QED BY <2>2, <2>3, RotatingStays
<1>12. ASSUME NEW c0 \in Calls, ClearSessions(c0) PROVE Rotating'
  <2>1. /\ UNCHANGED <<op, found>>
        /\ \A s \in Calls : token'[s] \in {token[s], None}
        /\ \A c \in Calls : pc'[c] = "rotate" => pc[c] = "rotate"
    BY <1>12, Unheards DEF ClearSessions, Goto, Return, oauth
  <2> QED BY <2>1, RotatingThins
<1>13. ASSUME NEW c0 \in Calls, ClearVerifs(c0) PROVE Rotating'
  <2>1. \/ \E where \in {"insertVerif", "session"} : Goto(c0, where)
        \/ \E a \in {"ok", "refused", "error", "unheard"} : Return(c0, a)
    BY <1>13, Unheards DEF ClearVerifs
  <2>2. \A c \in Calls : pc'[c] = "rotate" => pc[c] = "rotate" /\ c # c0
    BY <2>1 DEF Goto, Return
  <2>3. UNCHANGED <<op, token>> /\ \A c \in Calls : c # c0 => found'[c] = found[c]
    BY <1>13 DEF ClearVerifs, tables
  <2> QED BY <2>2, <2>3, RotatingStays
<1>14. ASSUME NEW c0 \in Calls, InsertVerif(c0) PROVE Rotating'
  <2>1. \/ \E where \in {"mail", "session"} : Goto(c0, where)
        \/ \E a \in {"ok", "unheard"} : Return(c0, a)
    BY <1>14, Unheards DEF InsertVerif
  <2>2. \A c \in Calls : pc'[c] = "rotate" => pc[c] = "rotate" /\ c # c0
    BY <2>1 DEF Goto, Return
  <2>3. UNCHANGED <<op, token>> /\ \A c \in Calls : c # c0 => found'[c] = found[c]
    BY <1>14 DEF InsertVerif, tables
  <2> QED BY <2>2, <2>3, RotatingStays
<1>15. ASSUME NEW c0 \in Calls, Mail(c0) PROVE Rotating'
  <2>1. \/ \E where \in {"session"} : Goto(c0, where)
        \/ \E a \in {"ok", "refused", "error", "unheard"} : Return(c0, a)
    BY <1>15 DEF Mail
  <2>2. \A c \in Calls : pc'[c] = "rotate" => pc[c] = "rotate" /\ c # c0
    BY <2>1 DEF Goto, Return
  <2>3. UNCHANGED <<op, token>> /\ \A c \in Calls : c # c0 => found'[c] = found[c]
    BY <1>15 DEF Mail, tables
  <2> QED BY <2>2, <2>3, RotatingStays
<1>16. ASSUME NEW c0 \in Calls, ReadVerif(c0) PROVE Rotating'
  <2>1. \/ \E where \in {"markVerified"} : Goto(c0, where)
        \/ \E a \in {"ok", "refused", "error", "unheard"} : Return(c0, a)
    BY <1>16 DEF ReadVerif
  <2>2. \A c \in Calls : pc'[c] = "rotate" => pc[c] = "rotate" /\ c # c0
    BY <2>1 DEF Goto, Return
  <2>3. UNCHANGED <<op, token>> /\ \A c \in Calls : c # c0 => found'[c] = found[c]
    BY <1>16 DEF ReadVerif, tables
  <2> QED BY <2>2, <2>3, RotatingStays
<1>17. ASSUME NEW c0 \in Calls, MarkVerified(c0) PROVE Rotating'
  <2>1. \/ \E where \in {"clearVerifs", "session"} : Goto(c0, where)
        \/ \E a \in {"ok", "unheard"} : Return(c0, a)
    BY <1>17, Unheards DEF MarkVerified
  <2>2. \A c \in Calls : pc'[c] = "rotate" => pc[c] = "rotate" /\ c # c0
    BY <2>1 DEF Goto, Return
  <2>3. UNCHANGED <<op, token>> /\ \A c \in Calls : c # c0 => found'[c] = found[c]
    BY <1>17 DEF MarkVerified, tables
  <2> QED BY <2>2, <2>3, RotatingStays
<1>18. ASSUME NEW c0 \in Calls, Generate(c0) PROVE Rotating'
  <2>1. \E a \in {"ok", "refused", "error", "unheard"} : Return(c0, a)
    BY <1>18 DEF Generate
  <2>2. \A c \in Calls : pc'[c] = "rotate" => pc[c] = "rotate" /\ c # c0
    BY <2>1 DEF Goto, Return
  <2>3. UNCHANGED <<op, token>> /\ \A c \in Calls : c # c0 => found'[c] = found[c]
    BY <1>18 DEF Generate, tables
  <2> QED BY <2>2, <2>3, RotatingStays
<1>19. ASSUME NEW c0 \in Calls, Validate(c0) PROVE Rotating'
  <2>1. \/ \E where \in {"exchange"} : Goto(c0, where)
        \/ \E a \in {"ok", "refused", "error", "unheard"} : Return(c0, a)
    BY <1>19 DEF Validate
  <2>2. \A c \in Calls : pc'[c] = "rotate" => pc[c] = "rotate" /\ c # c0
    BY <2>1 DEF Goto, Return
  <2>3. UNCHANGED <<op, token>> /\ \A c \in Calls : c # c0 => found'[c] = found[c]
    BY <1>19 DEF Validate, tables
  <2> QED BY <2>2, <2>3, RotatingStays
<1>20. ASSUME NEW c0 \in Calls, Exchange(c0) PROVE Rotating'
  <2>1. UNCHANGED <<found, token>> /\ Goto(c0, "readLink") BY <1>20 DEF Exchange, tables
  <2>2. \A c \in Calls : op'[c].uses = op[c].uses BY <1>20, Reported
  <2> QED BY <2>1, <2>2, RotatingStays DEF Goto
<1>21. ASSUME NEW c0 \in Calls, ReadLink(c0) PROVE Rotating'
  <2>1. \E where \in {"session", "readByEmail", "insertOAuthUser"} : Goto(c0, where)
    BY <1>21 DEF ReadLink
  <2>2. \A c \in Calls : pc'[c] = "rotate" => pc[c] = "rotate" /\ c # c0
    BY <2>1 DEF Goto, Return
  <2>3. UNCHANGED <<op, token>> /\ \A c \in Calls : c # c0 => found'[c] = found[c]
    BY <1>21 DEF ReadLink, tables
  <2> QED BY <2>2, <2>3, RotatingStays
<1>22. ASSUME NEW c0 \in Calls, ReadByEmail(c0) PROVE Rotating'
  <2>1. \E where \in {"link", "insertOAuthUser"} : Goto(c0, where)
    BY <1>22 DEF ReadByEmail
  <2>2. \A c \in Calls : pc'[c] = "rotate" => pc[c] = "rotate" /\ c # c0
    BY <2>1 DEF Goto, Return
  <2>3. UNCHANGED <<op, token>> /\ \A c \in Calls : c # c0 => found'[c] = found[c]
    BY <1>22 DEF ReadByEmail, tables
  <2> QED BY <2>2, <2>3, RotatingStays
<1>23. ASSUME NEW c0 \in Calls, InsertOAuthUser(c0) PROVE Rotating'
  <2>1. \/ \E where \in {"link", "session"} : Goto(c0, where)
        \/ \E a \in {"ok", "unheard"} : Return(c0, a)
    BY <1>23, Unheards DEF InsertOAuthUser
  <2>2. \A c \in Calls : pc'[c] = "rotate" => pc[c] = "rotate" /\ c # c0
    BY <2>1 DEF Goto, Return
  <2>3. UNCHANGED <<op, token>> /\ \A c \in Calls : c # c0 => found'[c] = found[c]
    BY <1>23 DEF InsertOAuthUser, tables
  <2> QED BY <2>2, <2>3, RotatingStays
<1>24. ASSUME NEW c0 \in Calls, Link(c0) PROVE Rotating'
  <2>1. \/ \E where \in {"session", "session"} : Goto(c0, where)
        \/ \E a \in {"ok", "unheard"} : Return(c0, a)
    BY <1>24, Unheards DEF Link
  <2>2. \A c \in Calls : pc'[c] = "rotate" => pc[c] = "rotate" /\ c # c0
    BY <2>1 DEF Goto, Return
  <2>3. UNCHANGED <<op, token>> /\ \A c \in Calls : c # c0 => found'[c] = found[c]
    BY <1>24 DEF Link, tables
  <2> QED BY <2>2, <2>3, RotatingStays
<1>25. ASSUME NEW c0 \in Calls, Fail(c0) PROVE Rotating'
  <2>1. \/ \E where \in {"session"} : Goto(c0, where)
        \/ \E a \in {"ok", "refused", "error", "unheard"} : Return(c0, a)
    BY <1>25 DEF Fail, GiveUp
  <2>2. \A c \in Calls : pc'[c] = "rotate" => pc[c] = "rotate" /\ c # c0
    BY <2>1 DEF Goto, Return
  <2>3. UNCHANGED <<op, token>> /\ \A c \in Calls : c # c0 => found'[c] = found[c]
    BY <1>25 DEF Fail, tables
  <2> QED BY <2>2, <2>3, RotatingStays
<1>26. ASSUME Lapse PROVE Rotating'
  BY <1>26, NoneIsNothing DEF Lapse, Valid, Rows, Goto, Return, Unheard, GiveUp, tables, oauth, callVars, history, Rotating, Issued, Presented, Phases, Phase
<1>27. ASSUME Crash PROVE Rotating'
  BY <1>27, NoneIsNothing DEF Crash, Running, Goto, Return, Unheard, GiveUp, tables, oauth, callVars, history, Rotating, Issued, Presented, Phases, Phase
<1>28. CASE UNCHANGED vars
  BY <1>28 DEF vars, tables, oauth, callVars, history, Rotating, Issued, Presented, Phases, Phase
<1> QED
  BY <1>1, <1>2, <1>3, <1>4, <1>5, <1>6, <1>7, <1>8, <1>9, <1>10, <1>11, <1>12, <1>13, <1>14, <1>15, <1>16, <1>17, <1>18, <1>19, <1>20, <1>21, <1>22, <1>23, <1>24, <1>25, <1>26, <1>27, <1>28 DEF Next, Step

\* A state that has let somebody in is not in the store again.
LEMMA StatesSpentKept == ASSUME IInv, [Next]_vars PROVE StatesSpent'
<1> USE DEF IInv, TypeOK
<1>1. ASSUME NEW c0 \in Calls, Arrive(c0) PROVE StatesSpent'
  BY <1>1, NoneIsNothing DEF Arrive, Presentable, Held, First, Op, AllKinds, Goto, Return, Unheard, GiveUp, tables, oauth, callVars, history, StatesSpent, Presented, Phases, Phase, LetIn
<1>2. ASSUME NEW c0 \in Calls, InsertUser(c0) PROVE StatesSpent'
  BY <1>2, NoneIsNothing DEF InsertUser, Goto, Return, Unheard, GiveUp, tables, oauth, callVars, history, StatesSpent, Presented, Phases, Phase, LetIn, Held
<1>3. ASSUME NEW c0 \in Calls, ReadUser(c0) PROVE StatesSpent'
  BY <1>3, NoneIsNothing DEF ReadUser, Goto, Return, Unheard, GiveUp, tables, oauth, callVars, history, StatesSpent, Presented, Phases, Phase, LetIn, Held
<1>4. ASSUME NEW c0 \in Calls, InsertSession(c0) PROVE StatesSpent'
  BY <1>4, NoneIsNothing DEF InsertSession, Goto, Return, Unheard, GiveUp, tables, oauth, callVars, history, StatesSpent, Presented, Phases, Phase, LetIn, Held
<1>5. ASSUME NEW c0 \in Calls, ReadSession(c0) PROVE StatesSpent'
  BY <1>5, NoneIsNothing, SessionRows DEF ReadSession, Goto, Return, Unheard, GiveUp, tables, oauth, callVars, history, StatesSpent, Presented, Phases, Phase, LetIn, Held
<1>6. ASSUME NEW c0 \in Calls, Rotate(c0) PROVE StatesSpent'
  BY <1>6, NoneIsNothing DEF Rotate, Goto, Return, Unheard, GiveUp, tables, oauth, callVars, history, StatesSpent, Presented, Phases, Phase, LetIn, Held
<1>7. ASSUME NEW c0 \in Calls, DeleteSession(c0) PROVE StatesSpent'
  BY <1>7, NoneIsNothing DEF DeleteSession, Goto, Return, Unheard, GiveUp, tables, oauth, callVars, history, StatesSpent, Presented, Phases, Phase, LetIn, Held
<1>8. ASSUME NEW c0 \in Calls, ClearResets(c0) PROVE StatesSpent'
  BY <1>8, NoneIsNothing DEF ClearResets, Miss, Owned, Goto, Return, Unheard, GiveUp, tables, oauth, callVars, history, StatesSpent, Presented, Phases, Phase, LetIn, Held
<1>9. ASSUME NEW c0 \in Calls, InsertReset(c0) PROVE StatesSpent'
  BY <1>9, NoneIsNothing DEF InsertReset, Goto, Return, Unheard, GiveUp, tables, oauth, callVars, history, StatesSpent, Presented, Phases, Phase, LetIn, Held
<1>10. ASSUME NEW c0 \in Calls, ReadReset(c0) PROVE StatesSpent'
  BY <1>10, NoneIsNothing DEF ReadReset, Goto, Return, Unheard, GiveUp, tables, oauth, callVars, history, StatesSpent, Presented, Phases, Phase, LetIn, Held
<1>11. ASSUME NEW c0 \in Calls, SetPassword(c0) PROVE StatesSpent'
  BY <1>11, NoneIsNothing DEF SetPassword, Remember, Account, Goto, Return, Unheard, GiveUp, tables, oauth, callVars, history, StatesSpent, Presented, Phases, Phase, LetIn, Held
<1>12. ASSUME NEW c0 \in Calls, ClearSessions(c0) PROVE StatesSpent'
  BY <1>12, NoneIsNothing DEF ClearSessions, Miss, Goto, Return, Unheard, GiveUp, tables, oauth, callVars, history, StatesSpent, Presented, Phases, Phase, LetIn, Held
<1>13. ASSUME NEW c0 \in Calls, ClearVerifs(c0) PROVE StatesSpent'
  BY <1>13, NoneIsNothing DEF ClearVerifs, Miss, Owned, Goto, Return, Unheard, GiveUp, tables, oauth, callVars, history, StatesSpent, Presented, Phases, Phase, LetIn, Held
<1>14. ASSUME NEW c0 \in Calls, InsertVerif(c0) PROVE StatesSpent'
  BY <1>14, NoneIsNothing DEF InsertVerif, Goto, Return, Unheard, GiveUp, tables, oauth, callVars, history, StatesSpent, Presented, Phases, Phase, LetIn, Held
<1>15. ASSUME NEW c0 \in Calls, Mail(c0) PROVE StatesSpent'
  BY <1>15, NoneIsNothing DEF Mail, Goto, Return, Unheard, GiveUp, tables, oauth, callVars, history, StatesSpent, Presented, Phases, Phase, LetIn, Held
<1>16. ASSUME NEW c0 \in Calls, ReadVerif(c0) PROVE StatesSpent'
  BY <1>16, NoneIsNothing DEF ReadVerif, Goto, Return, Unheard, GiveUp, tables, oauth, callVars, history, StatesSpent, Presented, Phases, Phase, LetIn, Held
<1>17. ASSUME NEW c0 \in Calls, MarkVerified(c0) PROVE StatesSpent'
  BY <1>17, NoneIsNothing DEF MarkVerified, Account, Op, Goto, Return, Unheard, GiveUp, tables, oauth, callVars, history, StatesSpent, Presented, Phases, Phase, LetIn, Held
<1>18. ASSUME NEW c0 \in Calls, Generate(c0) PROVE StatesSpent'
  <2>1. /\ UNCHANGED op /\ pc[c0] = "generate" /\ pc' = [pc EXCEPT ![c0] = "end"]
        /\ answer' = [answer EXCEPT ![c0] = "ok"] /\ states' \subseteq states \cup {c0}
    BY <1>18, SessionRows DEF Generate, Return
  <2>2. op[c0].kind = "redirect" BY <2>1 DEF Phases, Phase
  <2>3. \A c \in Calls : LetIn(c)' => LetIn(c) /\ c # c0 BY <2>1, <2>2 DEF LetIn
  <2>4. \A c \in Calls : LetIn(c) => op[c].uses # c0
    BY <2>1 DEF LetIn, Presented, Phases, Phase
  <2>5. StatesSpent OBVIOUS
  <2>6. \A s \in states' : pc'[s] = "end" BY <2>1 DEF StatesSpent
  <2> HIDE DEF TypeOK, IInv
  <2> QED BY <2>1, <2>3, <2>4, <2>5, <2>6 DEF StatesSpent
<1>19. ASSUME NEW c0 \in Calls, Validate(c0) PROVE StatesSpent'
  BY <1>19, NoneIsNothing, SessionRows DEF Validate, Goto, Return, Unheard, GiveUp, tables, oauth, callVars, history, StatesSpent, Presented, Phases, Phase, LetIn, Held
<1>20. ASSUME NEW c0 \in Calls, Exchange(c0) PROVE StatesSpent'
  BY <1>20, NoneIsNothing DEF Exchange, Goto, Return, Unheard, GiveUp, tables, oauth, callVars, history, StatesSpent, Presented, Phases, Phase, LetIn, Held
<1>21. ASSUME NEW c0 \in Calls, ReadLink(c0) PROVE StatesSpent'
  BY <1>21, NoneIsNothing DEF ReadLink, Goto, Return, Unheard, GiveUp, tables, oauth, callVars, history, StatesSpent, Presented, Phases, Phase, LetIn, Held
<1>22. ASSUME NEW c0 \in Calls, ReadByEmail(c0) PROVE StatesSpent'
  BY <1>22, NoneIsNothing DEF ReadByEmail, Goto, Return, Unheard, GiveUp, tables, oauth, callVars, history, StatesSpent, Presented, Phases, Phase, LetIn, Held
<1>23. ASSUME NEW c0 \in Calls, InsertOAuthUser(c0) PROVE StatesSpent'
  BY <1>23, NoneIsNothing DEF InsertOAuthUser, Goto, Return, Unheard, GiveUp, tables, oauth, callVars, history, StatesSpent, Presented, Phases, Phase, LetIn, Held
<1>24. ASSUME NEW c0 \in Calls, Link(c0) PROVE StatesSpent'
  BY <1>24, NoneIsNothing DEF Link, Goto, Return, Unheard, GiveUp, tables, oauth, callVars, history, StatesSpent, Presented, Phases, Phase, LetIn, Held
<1>25. ASSUME NEW c0 \in Calls, Fail(c0) PROVE StatesSpent'
  BY <1>25, NoneIsNothing DEF Fail, Goto, Return, Unheard, GiveUp, tables, oauth, callVars, history, StatesSpent, Presented, Phases, Phase, LetIn, Held
<1>26. ASSUME Lapse PROVE StatesSpent'
  BY <1>26, NoneIsNothing DEF Lapse, Valid, Rows, Goto, Return, Unheard, GiveUp, tables, oauth, callVars, history, StatesSpent, Presented, Phases, Phase, LetIn, Held
<1>27. ASSUME Crash PROVE StatesSpent'
  BY <1>27, NoneIsNothing DEF Crash, Running, Goto, Return, Unheard, GiveUp, tables, oauth, callVars, history, StatesSpent, Presented, Phases, Phase, LetIn, Held
<1>28. CASE UNCHANGED vars
  BY <1>28 DEF vars, tables, oauth, callVars, history, StatesSpent, Presented, Phases, Phase, LetIn, Held
<1> QED
  BY <1>1, <1>2, <1>3, <1>4, <1>5, <1>6, <1>7, <1>8, <1>9, <1>10, <1>11, <1>12, <1>13, <1>14, <1>15, <1>16, <1>17, <1>18, <1>19, <1>20, <1>21, <1>22, <1>23, <1>24, <1>25, <1>26, <1>27, <1>28 DEF Next, Step

\* A token that was used up does not come back.
LEMMA UsedTokensRefusedKept == ASSUME IInv, [Next]_vars PROVE UsedTokensRefused'
<1> USE DEF IInv, TypeOK
<1>1. ASSUME NEW c0 \in Calls, Arrive(c0) PROVE UsedTokensRefused'
  <2>1. UNCHANGED <<answer, token>> /\ answer[c0] = "none"
        /\ \A d \in Calls : d # c0 => op'[d] = op[d]
    BY Arrived, <1>1 DEF Phases, Phase
  <2>2. \A c \in Calls : Took(c, {"refresh", "logout"})' => Took(c, {"refresh", "logout"}) /\ c # c0
    BY <2>1 DEF Took
  <2>3. UsedTokensRefused OBVIOUS
  <2> HIDE DEF TypeOK, IInv
  <2> QED BY <2>1, <2>2, <2>3, SessionRows, SessionRowsNext DEF UsedTokensRefused
<1>2. ASSUME NEW c0 \in Calls, InsertUser(c0) PROVE UsedTokensRefused'
  BY <1>2, NoneIsNothing, SessionRows, SessionRowsNext DEF InsertUser, Goto, Return, Unheard, GiveUp, tables, oauth, callVars, history, UsedTokensRefused, Rotating, Issued, Presented, Phases, Phase, Took
<1>3. ASSUME NEW c0 \in Calls, ReadUser(c0) PROVE UsedTokensRefused'
  BY <1>3, NoneIsNothing, SessionRows, SessionRowsNext DEF ReadUser, Goto, Return, Unheard, GiveUp, tables, oauth, callVars, history, UsedTokensRefused, Rotating, Issued, Presented, Phases, Phase, Took
<1>4. ASSUME NEW c0 \in Calls, InsertSession(c0) PROVE UsedTokensRefused'
  <2>1. /\ UNCHANGED op /\ token' = [token EXCEPT ![c0] = c0] /\ pc[c0] = "session"
        /\ \A c \in Calls : c # c0 => answer'[c] = answer[c]
    BY <1>4, Unheards DEF InsertSession, Goto, Return
  <2>2. op[c0].kind \notin {"refresh", "logout"} BY <2>1 DEF Phases, Phase
  <2>3. \A c \in Calls : Took(c, {"refresh", "logout"}) => op[c].uses # c0
    BY <2>1 DEF Took, Presented, Phases, Phase
  <2>4. \A c \in Calls : Took(c, {"refresh", "logout"})' => Took(c, {"refresh", "logout"})
    BY <2>1, <2>2 DEF Took
  <2>5. \A s \in Calls : token'[s] = IF s = c0 THEN c0 ELSE token[s] BY <2>1
  <2>6. UsedTokensRefused OBVIOUS
  <2> HIDE DEF TypeOK, IInv
  <2> QED BY <2>1, <2>3, <2>4, <2>5, <2>6, SessionRows, SessionRowsNext DEF UsedTokensRefused
<1>5. ASSUME NEW c0 \in Calls, ReadSession(c0) PROVE UsedTokensRefused'
  BY <1>5, NoneIsNothing, SessionRows, SessionRows, SessionRowsNext DEF ReadSession, Goto, Return, Unheard, GiveUp, tables, oauth, callVars, history, UsedTokensRefused, Rotating, Issued, Presented, Phases, Phase, Took
<1>6. ASSUME NEW c0 \in Calls, Rotate(c0) PROVE UsedTokensRefused'
  <2>1. /\ UNCHANGED op /\ pc[c0] = "rotate"
        /\ \A c \in Calls : c # c0 => answer'[c] = answer[c]
        /\ \/ token[found[c0]] # None /\ token' = [token EXCEPT ![found[c0]] = c0]
           \/ token[found[c0]] = None /\ UNCHANGED token
    BY <1>6, Unheards DEF Rotate, Return, Phases, Phase
  <2>2. /\ op[c0].uses \in Calls /\ op[c0].uses # c0 /\ found[c0] \in Calls
        /\ op[c0].kind = "refresh"
    BY <2>1 DEF Presented, Phases, Phase
  <2>3. \A c \in Calls : Took(c, {"refresh", "logout"}) => op[c].uses # c0
    BY <2>1 DEF Took, Presented, Phases, Phase
  <2>4. \A c \in Calls : Took(c, {"refresh", "logout"})' => Took(c, {"refresh", "logout"}) \/ c = c0
    BY <2>1 DEF Took
  <2>5. \A s \in Calls : token'[s] # None => token'[s] = c0 \/ (token'[s] = token[s] /\ s # found[c0])
    BY <2>1, <2>2
  <2>6. \A s \in Calls : token[s] = op[c0].uses => s = found[c0]
    <3>1. token[found[c0]] = op[c0].uses \/ \A s \in Calls : token[s] # op[c0].uses
      BY <2>1 DEF Rotating
    <3>2. \A s, t \in Calls : token[s] = token[t] /\ token[s] # None => s = t BY DEF Issued
    <3> QED BY <2>2, <3>1, <3>2, NoneIsNothing
  <2>7. UsedTokensRefused OBVIOUS
  <2> HIDE DEF TypeOK, IInv
  <2> QED BY <2>1, <2>2, <2>3, <2>4, <2>5, <2>6, <2>7, SessionRows, SessionRowsNext
          DEF UsedTokensRefused
<1>7. ASSUME NEW c0 \in Calls, DeleteSession(c0) PROVE UsedTokensRefused'
  BY <1>7, NoneIsNothing, SessionRows, SessionRowsNext DEF DeleteSession, Goto, Return, Unheard, GiveUp, tables, oauth, callVars, history, UsedTokensRefused, Rotating, Issued, Presented, Phases, Phase, Took
<1>8. ASSUME NEW c0 \in Calls, ClearResets(c0) PROVE UsedTokensRefused'
  BY <1>8, NoneIsNothing, SessionRows, SessionRowsNext DEF ClearResets, Miss, Owned, Goto, Return, Unheard, GiveUp, tables, oauth, callVars, history, UsedTokensRefused, Rotating, Issued, Presented, Phases, Phase, Took
<1>9. ASSUME NEW c0 \in Calls, InsertReset(c0) PROVE UsedTokensRefused'
  BY <1>9, NoneIsNothing, SessionRows, SessionRowsNext DEF InsertReset, Goto, Return, Unheard, GiveUp, tables, oauth, callVars, history, UsedTokensRefused, Rotating, Issued, Presented, Phases, Phase, Took
<1>10. ASSUME NEW c0 \in Calls, ReadReset(c0) PROVE UsedTokensRefused'
  BY <1>10, NoneIsNothing, SessionRows, SessionRowsNext DEF ReadReset, Goto, Return, Unheard, GiveUp, tables, oauth, callVars, history, UsedTokensRefused, Rotating, Issued, Presented, Phases, Phase, Took
<1>11. ASSUME NEW c0 \in Calls, SetPassword(c0) PROVE UsedTokensRefused'
  BY <1>11, NoneIsNothing, SessionRows, SessionRowsNext DEF SetPassword, Remember, Account, Goto, Return, Unheard, GiveUp, tables, oauth, callVars, history, UsedTokensRefused, Rotating, Issued, Presented, Phases, Phase, Took
<1>12. ASSUME NEW c0 \in Calls, ClearSessions(c0) PROVE UsedTokensRefused'
  <2>1. /\ UNCHANGED op /\ op[c0].kind = "reset"
        /\ \A s \in Calls : token'[s] \in {token[s], None}
        /\ \A c \in Calls : c # c0 => answer'[c] = answer[c]
    BY <1>12, Unheards DEF ClearSessions, Return, Phases, Phase
  <2>2. \A c \in Calls : Took(c, {"refresh", "logout"})' => Took(c, {"refresh", "logout"})
    BY <2>1 DEF Took
  <2>3. UsedTokensRefused OBVIOUS
  <2> HIDE DEF TypeOK, IInv
  <2> QED BY <2>1, <2>2, <2>3, SessionRows, SessionRowsNext DEF UsedTokensRefused
<1>13. ASSUME NEW c0 \in Calls, ClearVerifs(c0) PROVE UsedTokensRefused'
  <2>1. /\ UNCHANGED <<op, token>> /\ op[c0].kind \in {"register", "resend", "verify"}
        /\ \A c \in Calls : c # c0 => answer'[c] = answer[c]
    BY <1>13, Unheards DEF ClearVerifs, Goto, Return, Phases, Phase
  <2>2. \A c \in Calls : Took(c, {"refresh", "logout"})' => Took(c, {"refresh", "logout"})
    BY <2>1 DEF Took
  <2>3. UsedTokensRefused OBVIOUS
  <2> HIDE DEF TypeOK, IInv
  <2> QED BY <2>1, <2>2, <2>3, SessionRows, SessionRowsNext DEF UsedTokensRefused
<1>14. ASSUME NEW c0 \in Calls, InsertVerif(c0) PROVE UsedTokensRefused'
  BY <1>14, NoneIsNothing, SessionRows, SessionRowsNext DEF InsertVerif, Goto, Return, Unheard, GiveUp, tables, oauth, callVars, history, UsedTokensRefused, Rotating, Issued, Presented, Phases, Phase, Took
<1>15. ASSUME NEW c0 \in Calls, Mail(c0) PROVE UsedTokensRefused'
  BY <1>15, NoneIsNothing, SessionRows, SessionRowsNext DEF Mail, Goto, Return, Unheard, GiveUp, tables, oauth, callVars, history, UsedTokensRefused, Rotating, Issued, Presented, Phases, Phase, Took
<1>16. ASSUME NEW c0 \in Calls, ReadVerif(c0) PROVE UsedTokensRefused'
  BY <1>16, NoneIsNothing, SessionRows, SessionRowsNext DEF ReadVerif, Goto, Return, Unheard, GiveUp, tables, oauth, callVars, history, UsedTokensRefused, Rotating, Issued, Presented, Phases, Phase, Took
<1>17. ASSUME NEW c0 \in Calls, MarkVerified(c0) PROVE UsedTokensRefused'
  BY <1>17, NoneIsNothing, SessionRows, SessionRowsNext DEF MarkVerified, Account, Op, Goto, Return, Unheard, GiveUp, tables, oauth, callVars, history, UsedTokensRefused, Rotating, Issued, Presented, Phases, Phase, Took
<1>18. ASSUME NEW c0 \in Calls, Generate(c0) PROVE UsedTokensRefused'
  BY <1>18, NoneIsNothing, SessionRows, SessionRows, SessionRowsNext DEF Generate, Goto, Return, Unheard, GiveUp, tables, oauth, callVars, history, UsedTokensRefused, Rotating, Issued, Presented, Phases, Phase, Took
<1>19. ASSUME NEW c0 \in Calls, Validate(c0) PROVE UsedTokensRefused'
  BY <1>19, NoneIsNothing, SessionRows, SessionRows, SessionRowsNext DEF Validate, Goto, Return, Unheard, GiveUp, tables, oauth, callVars, history, UsedTokensRefused, Rotating, Issued, Presented, Phases, Phase, Took
<1>20. ASSUME NEW c0 \in Calls, Exchange(c0) PROVE UsedTokensRefused'
  BY <1>20, NoneIsNothing, SessionRows, SessionRowsNext DEF Exchange, Goto, Return, Unheard, GiveUp, tables, oauth, callVars, history, UsedTokensRefused, Rotating, Issued, Presented, Phases, Phase, Took
<1>21. ASSUME NEW c0 \in Calls, ReadLink(c0) PROVE UsedTokensRefused'
  BY <1>21, NoneIsNothing, SessionRows, SessionRowsNext DEF ReadLink, Goto, Return, Unheard, GiveUp, tables, oauth, callVars, history, UsedTokensRefused, Rotating, Issued, Presented, Phases, Phase, Took
<1>22. ASSUME NEW c0 \in Calls, ReadByEmail(c0) PROVE UsedTokensRefused'
  BY <1>22, NoneIsNothing, SessionRows, SessionRowsNext DEF ReadByEmail, Goto, Return, Unheard, GiveUp, tables, oauth, callVars, history, UsedTokensRefused, Rotating, Issued, Presented, Phases, Phase, Took
<1>23. ASSUME NEW c0 \in Calls, InsertOAuthUser(c0) PROVE UsedTokensRefused'
  BY <1>23, NoneIsNothing, SessionRows, SessionRowsNext DEF InsertOAuthUser, Goto, Return, Unheard, GiveUp, tables, oauth, callVars, history, UsedTokensRefused, Rotating, Issued, Presented, Phases, Phase, Took
<1>24. ASSUME NEW c0 \in Calls, Link(c0) PROVE UsedTokensRefused'
  BY <1>24, NoneIsNothing, SessionRows, SessionRowsNext DEF Link, Goto, Return, Unheard, GiveUp, tables, oauth, callVars, history, UsedTokensRefused, Rotating, Issued, Presented, Phases, Phase, Took
<1>25. ASSUME NEW c0 \in Calls, Fail(c0) PROVE UsedTokensRefused'
  BY <1>25, NoneIsNothing, SessionRows, SessionRowsNext DEF Fail, Goto, Return, Unheard, GiveUp, tables, oauth, callVars, history, UsedTokensRefused, Rotating, Issued, Presented, Phases, Phase, Took
<1>26. ASSUME Lapse PROVE UsedTokensRefused'
  BY <1>26, NoneIsNothing, SessionRows, SessionRowsNext DEF Lapse, Valid, Rows, Goto, Return, Unheard, GiveUp, tables, oauth, callVars, history, UsedTokensRefused, Rotating, Issued, Presented, Phases, Phase, Took
<1>27. ASSUME Crash PROVE UsedTokensRefused'
  BY <1>27, NoneIsNothing, SessionRows, SessionRowsNext DEF Crash, Running, Goto, Return, Unheard, GiveUp, tables, oauth, callVars, history, UsedTokensRefused, Rotating, Issued, Presented, Phases, Phase, Took
<1>28. CASE UNCHANGED vars
  BY <1>28 DEF vars, tables, oauth, callVars, history, UsedTokensRefused, Rotating, Issued, Presented, Phases, Phase, Took, Rows, Op
<1> QED
  BY <1>1, <1>2, <1>3, <1>4, <1>5, <1>6, <1>7, <1>8, <1>9, <1>10, <1>11, <1>12, <1>13, <1>14, <1>15, <1>16, <1>17, <1>18, <1>19, <1>20, <1>21, <1>22, <1>23, <1>24, <1>25, <1>26, <1>27, <1>28 DEF Next, Step

\* Every step keeps the invariant.
LEMMA NextIInv == IInv /\ [Next]_vars => IInv'
BY TypeOKKept, PhasesKept, IssuedKept, PresentedKept, RotatingKept, StatesSpentKept,
   UsedTokensRefusedKept DEF IInv

\* The inductive invariant of the auth service.
THEOREM AuthInvariant == Spec => []IInv
BY InitIInv, NextIInv, PTL DEF Spec

\* The types of the calls, the tables and the state store.
THEOREM AuthTypes == Spec => []TypeOK
<1>1. IInv => TypeOK BY DEF IInv
<1> QED BY <1>1, AuthInvariant, PTL

\* However refreshes, logouts, resets, failed statements and crashes interleave, a
\* refresh token that was refreshed or logged out with success is never accepted again.
THEOREM UsedTokensStayRefused == Spec => []UsedTokensRefused
<1>1. IInv => UsedTokensRefused BY DEF IInv
<1> QED BY <1>1, AuthInvariant, PTL

\* Two OAuth logins never rest on one redirect, whatever callbacks race.
THEOREM StatesAdmitOne == Spec => []StateUsedOnce
<1>1. IInv => StateUsedOnce
  BY DEF IInv, StatesSpent, LetIn, StateUsedOnce, Served
<1> QED BY <1>1, AuthInvariant, PTL

-----------------------------------------------------------------------------
(***************************************************************************)
(* The sessions are a token ledger.                                        *)
(***************************************************************************)
\* Only calls that have ended have had a token or a row that could expire.
LInv ==
  /\ \A c \in known : pc[c] = "end"
  /\ \A s \in Calls : <<"sessions", s>> \in lapsed => pc[s] = "end"

Accepted == {token[s] : s \in Valid("sessions")}

\* The sessions whose token is accepted.
LEMMA ValidSessions ==
  /\ Valid("sessions") = {s \in Calls : token[s] # None /\ <<"sessions", s>> \notin lapsed}
  /\ Valid("sessions")' = {s \in Calls : token'[s] # None /\ <<"sessions", s>> \notin lapsed'}
BY DEF Valid, Rows

\* A call that has ended does nothing more.
LEMMA EndStays ==
  ASSUME TypeOK, [Next]_vars
  PROVE  \A c \in Calls : pc[c] = "end" => pc'[c] = "end"
<1> USE DEF Goto, Return, Unheard, GiveUp
<1>1. ASSUME NEW c \in Calls, pc[c] # "end", \E where : pc' = [pc EXCEPT ![c] = where]
      PROVE  \A d \in Calls : pc[d] = "end" => pc'[d] = "end"
  BY <1>1 DEF TypeOK
<1>2. ASSUME NEW c \in Calls, Arrive(c) \/ Fail(c)
      PROVE  pc[c] # "end" /\ \E where : pc' = [pc EXCEPT ![c] = where]
  BY <1>2 DEF Arrive, Fail
<1>3. ASSUME NEW c \in Calls,
             \/ InsertUser(c) \/ ReadUser(c) \/ InsertSession(c)
             \/ ReadSession(c) \/ Rotate(c) \/ DeleteSession(c)
             \/ ClearResets(c) \/ InsertReset(c) \/ ReadReset(c) \/ SetPassword(c) \/ ClearSessions(c)
      PROVE  pc[c] # "end" /\ \E where : pc' = [pc EXCEPT ![c] = where]
  BY <1>3 DEF InsertUser, ReadUser, InsertSession, ReadSession, Rotate, DeleteSession, ClearResets,
     InsertReset, ReadReset, SetPassword, ClearSessions
<1>4. ASSUME NEW c \in Calls,
             \/ ClearVerifs(c) \/ InsertVerif(c) \/ Mail(c) \/ ReadVerif(c) \/ MarkVerified(c)
             \/ Generate(c) \/ Validate(c) \/ Exchange(c)
             \/ ReadLink(c) \/ ReadByEmail(c) \/ InsertOAuthUser(c) \/ Link(c)
      PROVE  pc[c] # "end" /\ \E where : pc' = [pc EXCEPT ![c] = where]
  BY <1>4 DEF ClearVerifs, InsertVerif, Mail, ReadVerif, MarkVerified, Generate, Validate, Exchange,
     ReadLink, ReadByEmail, InsertOAuthUser, Link
<1>5. CASE Lapse \/ UNCHANGED vars BY <1>5 DEF Lapse, callVars, vars
<1>6. CASE Crash BY <1>6 DEF Crash, Running, TypeOK
<1> QED BY <1>1, <1>2, <1>3, <1>4, <1>5, <1>6 DEF Next, Step

\* Steps that leave the sessions alone.
LEMMA OthersLeaveSessions ==
  ASSUME NEW c \in Calls,
         \/ Arrive(c) \/ Fail(c) \/ InsertUser(c) \/ ReadUser(c) \/ ReadSession(c)
         \/ ClearResets(c) \/ InsertReset(c) \/ ReadReset(c) \/ SetPassword(c)
         \/ ClearVerifs(c) \/ InsertVerif(c) \/ Mail(c) \/ ReadVerif(c) \/ MarkVerified(c)
         \/ Generate(c) \/ Validate(c) \/ Exchange(c)
         \/ ReadLink(c) \/ ReadByEmail(c) \/ InsertOAuthUser(c) \/ Link(c)
  PROVE  UNCHANGED <<token, lapsed, known>>
<1>1. CASE \/ Arrive(c) \/ Fail(c) \/ InsertUser(c) \/ ReadUser(c) \/ ReadSession(c)
           \/ ClearResets(c) \/ InsertReset(c) \/ ReadReset(c) \/ SetPassword(c)
  BY <1>1 DEF Arrive, Fail, InsertUser, ReadUser, ReadSession, ClearResets, InsertReset, ReadReset,
     SetPassword, tables
<1>2. CASE \/ ClearVerifs(c) \/ InsertVerif(c) \/ Mail(c) \/ ReadVerif(c) \/ MarkVerified(c)
           \/ Generate(c) \/ Validate(c) \/ Exchange(c)
           \/ ReadLink(c) \/ ReadByEmail(c) \/ InsertOAuthUser(c) \/ Link(c)
  BY <1>2 DEF ClearVerifs, InsertVerif, Mail, ReadVerif, MarkVerified, Generate, Validate, Exchange,
     ReadLink, ReadByEmail, InsertOAuthUser, Link, tables
<1> QED BY <1>1, <1>2

\* A login, or a registration, issues its token.
LEMMA InsertIssues ==
  ASSUME IInv, LInv, NEW c \in Calls, InsertSession(c)
  PROVE  Ledger!Issue(c)
<1>1. /\ pc[c] = "session" /\ token' = [token EXCEPT ![c] = c] /\ lapsed' = lapsed
      /\ known' = known \cup {c} /\ token \in [Calls -> Calls \cup {None}]
  BY DEF InsertSession, IInv, TypeOK
<1>2. c \notin known /\ <<"sessions", c>> \notin lapsed /\ token[c] = None
  BY <1>1 DEF LInv, IInv, Issued
<1>3. Valid("sessions")' = Valid("sessions") \cup {c} /\ c \notin Valid("sessions")
  BY <1>1, <1>2, ValidSessions, NoneIsNothing
<1>4. \A s \in Valid("sessions") : token'[s] = token[s]
  BY <1>1, <1>3, ValidSessions
<1>5. {token[s] : s \in Valid("sessions")}' = {token[s] : s \in Valid("sessions")} \cup {c}
  BY <1>1, <1>3, <1>4
<1> QED BY <1>1, <1>2, <1>5 DEF Ledger!Issue

\* A refresh replaces the token of its session; one whose session expired meanwhile
\* brings it back under a new token; one whose session is gone does nothing.
LEMMA RotateReplaces ==
  ASSUME IInv, LInv, NEW c \in Calls, Rotate(c)
  PROVE  \/ Ledger!Issue(c) \/ \E t \in Calls : Ledger!Replace(t, c)
         \/ UNCHANGED <<token, lapsed, known>>
<1> DEFINE f == found[c]
<1>1. CASE token[f] = None BY <1>1 DEF Rotate
<1>2. CASE token[f] # None
  <2>1. /\ pc[c] = "rotate" /\ f \in Calls /\ token' = [token EXCEPT ![f] = c]
        /\ lapsed' = lapsed \ {<<"sessions", f>>} /\ known' = known \cup {c}
        /\ token \in [Calls -> Calls \cup {None}]
    BY <1>2 DEF Rotate, IInv, TypeOK
  <2>2. c \notin known BY <2>1 DEF LInv
  <2>3. \A s \in Calls : token'[s] = IF s = f THEN c ELSE token[s]
    BY <2>1
  <2>4. \A s \in Calls : <<"sessions", s>> \in lapsed' <=> s # f /\ <<"sessions", s>> \in lapsed
    BY <2>1
  <2> HIDE DEF f
  <2>5. \A s : s \in Valid("sessions")' <=> s = f \/ s \in Valid("sessions")
    BY <2>1, <2>3, <2>4, ValidSessions, NoneIsNothing
  <2>6. \A s \in Valid("sessions") : s # f => token'[s] = token[s] /\ token[s] # token[f]
    BY <1>2, <2>1, <2>3, ValidSessions DEF IInv, Issued, f
  <2>7. CASE f \in Valid("sessions")
    <3>1. {token[s] : s \in Valid("sessions")}'
            = ({token[s] : s \in Valid("sessions")} \ {token[f]}) \cup {c}
      <4>1. \A s \in Valid("sessions") : s \in Calls BY ValidSessions
      <4> QED BY <2>1, <2>3, <2>5, <2>6, <2>7, <4>1
    <3>2. token[f] \in {token[s] : s \in Valid("sessions")} /\ token[f] \in Calls
      BY <1>2, <2>1, <2>7 DEF f
    <3>3. Ledger!Replace(token[f], c) BY <2>1, <2>2, <3>1, <3>2 DEF Ledger!Replace
    <3> QED BY <3>2, <3>3
  <2>8. CASE f \notin Valid("sessions")
    <3>1. {token[s] : s \in Valid("sessions")}' = {token[s] : s \in Valid("sessions")} \cup {c}
      <4>1. \A s \in Valid("sessions") : s \in Calls /\ s # f BY <2>8, ValidSessions
      <4> QED BY <2>1, <2>3, <2>5, <2>6, <4>1
    <3>2. Ledger!Issue(c) BY <2>1, <2>2, <3>1 DEF Ledger!Issue
    <3> QED BY <3>2
  <2> QED BY <2>7, <2>8
<1> QED BY <1>1, <1>2

\* Fewer sessions, or fewer valid ones: tokens are revoked.
LEMMA FewerAccepted ==
  ASSUME known' = known, lapsed \subseteq lapsed',
         \A s \in Calls : token'[s] = token[s] \/ token'[s] = None
  PROVE  Ledger!Revoke
<1>1. \A s \in Valid("sessions")' : s \in Valid("sessions") /\ token'[s] = token[s]
  BY ValidSessions
<1>2. {token[s] : s \in Valid("sessions")}' \subseteq {token[s] : s \in Valid("sessions")}
  BY <1>1
<1> QED BY <1>2 DEF Ledger!Revoke

\* Tokens that are known, or have lapsed, are of calls that have ended.
LEMMA LInvKept == ASSUME IInv, LInv, [Next]_vars PROVE LInv'
<1>1. \A c \in Calls : pc[c] = "end" => pc'[c] = "end" BY EndStays DEF IInv
<1>2. known \subseteq Calls BY DEF IInv, TypeOK
<1>3. ASSUME known' = known, lapsed' = lapsed PROVE LInv'
  BY <1>1, <1>2, <1>3 DEF LInv
<1>4. ASSUME NEW c \in Calls, InsertSession(c) \/ Rotate(c) PROVE LInv'
  <2>1. /\ known' \subseteq known \cup {c} /\ lapsed' \subseteq lapsed
        /\ pc' = [pc EXCEPT ![c] = "end"] /\ pc \in [Calls -> PCs]
    BY <1>4, Unheards DEF InsertSession, Rotate, Return, IInv, TypeOK, Phases, Phase
  <2> QED BY <1>1, <1>2, <2>1 DEF LInv
<1>5. ASSUME NEW c \in Calls, DeleteSession(c) \/ ClearSessions(c) PROVE LInv'
  BY <1>3, <1>5 DEF DeleteSession, ClearSessions
<1>6. CASE Lapse
  <2>1. PICK t \in Table : \E r \in Valid(t) : lapsed' = lapsed \cup {<<t, r>>}
    BY <1>6 DEF Lapse
  <2>2. PICK r \in Valid(t) : lapsed' = lapsed \cup {<<t, r>>} BY <2>1
  <2>3. t = "sessions" => r \in Calls /\ pc[r] = "end"
    BY <2>2, ValidSessions DEF IInv, Issued
  <2>4. known' = known BY <1>6 DEF Lapse
  <2>5. \A s \in Calls : <<"sessions", s>> \in lapsed' =>
          <<"sessions", s>> \in lapsed \/ (t = "sessions" /\ r = s)
    BY <2>2
  <2> QED BY <1>1, <1>2, <2>3, <2>4, <2>5 DEF LInv
<1>7. CASE Crash \/ UNCHANGED vars BY <1>3, <1>7 DEF Crash, vars, tables
<1> QED BY <1>3, <1>4, <1>5, <1>6, <1>7, OthersLeaveSessions DEF Next, Step

\* Every step is one of the ledger, or leaves it alone.
LEMMA LedgerStep ==
  ASSUME IInv, LInv, [Next]_vars
  PROVE  [Ledger!LedgerNext]_<<Accepted, known>>
<1> USE DEF Accepted
<1>1. ASSUME UNCHANGED <<token, lapsed, known>> PROVE UNCHANGED <<Accepted, known>>
  BY <1>1, ValidSessions
<1>2. ASSUME NEW c \in Calls, InsertSession(c) PROVE Ledger!LedgerNext
  BY <1>2, InsertIssues DEF Ledger!LedgerNext
<1>3. ASSUME NEW c \in Calls, Rotate(c) PROVE [Ledger!LedgerNext]_<<Accepted, known>>
  BY <1>1, <1>3, RotateReplaces DEF Ledger!LedgerNext
<1>4. ASSUME NEW c \in Calls, DeleteSession(c) \/ ClearSessions(c) PROVE Ledger!LedgerNext
  <2>1. /\ known' = known /\ lapsed' = lapsed /\ token \in [Calls -> Calls \cup {None}]
        /\ \A s \in Calls : token'[s] = token[s] \/ token'[s] = None
    BY <1>4 DEF DeleteSession, ClearSessions, IInv, TypeOK
  <2> QED BY <2>1, FewerAccepted DEF Ledger!LedgerNext
<1>5. CASE Lapse
  <2>1. known' = known /\ token' = token /\ lapsed \subseteq lapsed' BY <1>5 DEF Lapse
  <2> QED BY <2>1, FewerAccepted DEF Ledger!LedgerNext
<1>6. CASE Crash \/ UNCHANGED vars BY <1>1, <1>6 DEF Crash, vars, tables
<1> QED BY <1>1, <1>2, <1>3, <1>4, <1>5, <1>6, OthersLeaveSessions DEF Next, Step

\* Refresh tokens live once: the tables, statements, faults and races of the auth
\* service implement a ledger in which a token that was replaced, revoked or has
\* expired never comes back.
THEOREM SessionsAreTokenLedger == Spec => IsTokenLedger
<1>1. Init => LInv /\ Ledger!LedgerInit
  <2> SUFFICES ASSUME Init PROVE LInv /\ Ledger!LedgerInit OBVIOUS
  <2>1. known = {} /\ lapsed = {} /\ \A s \in Calls : token[s] = None BY DEF Init
  <2>2. Valid("sessions") = {} BY <2>1, ValidSessions
  <2>3. {token[s] : s \in Valid("sessions")} = {} BY <2>2
  <2> QED BY <2>1, <2>3 DEF LInv, Ledger!LedgerInit
<1>2. IInv /\ LInv /\ [Next]_vars => LInv' /\ [Ledger!LedgerNext]_<<Accepted, known>>
  BY LInvKept, LedgerStep
<1> QED BY <1>1, <1>2, AuthInvariant, PTL DEF Spec, IsTokenLedger, Ledger!LedgerSpec, Accepted

-----------------------------------------------------------------------------
(***************************************************************************)
(* Mail and OAuth identities.                                              *)
(***************************************************************************)
\* Tokens are mailed by calls that say so, and a call that presents a mailed token
\* is about the account the token was mailed to.
MailedFor(kinds, c) ==
  op[c].uses \in mailed /\ op[op[c].uses].kind \in kinds /\ op[op[c].uses].email = op[c].email
MInv ==
  /\ \A c \in mailed : pc[c] # "idle" /\ op[c].kind \in {"register", "forgot", "resend"}
  /\ \A c \in Calls : pc[c] # "idle" =>
       /\ op[c].kind = "reset" => MailedFor({"forgot"}, c)
       /\ op[c].kind = "verify" => MailedFor({"register", "resend"}, c)

\* What an OAuth login knows of the link of its identity.
Kept(c) ==
  op[c].kind = "oauth" =>
    /\ pc[c] \in {"readByEmail", "insertOAuthUser", "link"} => c \in unlinked
    /\ pc[c] = "link" => found[c] = op[c].email
    /\ pc[c] = "session" =>
         /\ op[c].ident \in Identities /\ links[op[c].ident] # None
         /\ \/ found[c] = links[op[c].ident]
            \/ c \in unlinked /\ links[op[c].ident] # op[c].email
KInv == \A c \in Calls : Kept(c)

\* Once it has arrived, what a call asks for stays, but for what the provider tells.
LEMMA OpStays ==
  ASSUME TypeOK, Phases, [Next]_vars
  PROVE  \A c \in Calls : pc[c] # "idle" =>
           /\ pc'[c] # "idle" /\ op'[c].kind = op[c].kind /\ op'[c].uses = op[c].uses
           /\ op[c].kind # "oauth" => op'[c] = op[c]
<1> USE DEF Goto, Return, Unheard, GiveUp
<1>1. ASSUME NEW c \in Calls, op' = op, \E where : where # "idle" /\ pc' = [pc EXCEPT ![c] = where]
      PROVE  \A d \in Calls : pc[d] # "idle" => pc'[d] # "idle" /\ op'[d] = op[d]
  BY <1>1 DEF TypeOK
<1>2. ASSUME NEW c \in Calls,
             \/ Fail(c) \/ InsertUser(c) \/ ReadUser(c) \/ InsertSession(c)
             \/ ReadSession(c) \/ Rotate(c) \/ DeleteSession(c)
             \/ ClearResets(c) \/ InsertReset(c) \/ ReadReset(c) \/ SetPassword(c) \/ ClearSessions(c)
      PROVE  op' = op /\ \E where : where # "idle" /\ pc' = [pc EXCEPT ![c] = where]
  BY <1>2 DEF Fail, InsertUser, ReadUser, InsertSession, ReadSession, Rotate, DeleteSession,
     ClearResets, InsertReset, ReadReset, SetPassword, ClearSessions
<1>3. ASSUME NEW c \in Calls,
             \/ ClearVerifs(c) \/ InsertVerif(c) \/ Mail(c) \/ ReadVerif(c) \/ MarkVerified(c)
             \/ Generate(c) \/ Validate(c)
             \/ ReadLink(c) \/ ReadByEmail(c) \/ InsertOAuthUser(c) \/ Link(c)
      PROVE  op' = op /\ \E where : where # "idle" /\ pc' = [pc EXCEPT ![c] = where]
  BY <1>3 DEF ClearVerifs, InsertVerif, Mail, ReadVerif, MarkVerified, Generate, Validate,
     ReadLink, ReadByEmail, InsertOAuthUser, Link
<1>4. ASSUME NEW c \in Calls, Exchange(c)
      PROVE  \A d \in Calls : pc[d] # "idle" =>
               /\ pc'[d] # "idle" /\ op'[d].kind = op[d].kind /\ op'[d].uses = op[d].uses
               /\ op[d].kind # "oauth" => op'[d] = op[d]
  <2>1. pc[c] = "exchange" /\ pc' = [pc EXCEPT ![c] = "readLink"] BY <1>4 DEF Exchange
  <2>2. op[c].kind = "oauth" BY <2>1 DEF Phases, Phase
  <2> QED BY <1>4, <2>1, <2>2, Reported DEF TypeOK
<1>5. ASSUME NEW c \in Calls, Arrive(c)
      PROVE  \A d \in Calls : pc[d] # "idle" => pc'[d] # "idle" /\ op'[d] = op[d]
  BY <1>5, Arrived
<1>6. CASE Lapse \/ UNCHANGED vars BY <1>6 DEF Lapse, callVars, vars
<1>7. CASE Crash BY <1>7 DEF Crash, TypeOK
<1> QED BY <1>1, <1>2, <1>3, <1>4, <1>5, <1>6, <1>7 DEF Next, Step

\* Only Mail mails, and only its own call's token.
LEMMA OnlyMailMails ==
  ASSUME Phases, [Next]_vars
  PROVE  /\ mailed \subseteq mailed'
         /\ \A c \in mailed' \ mailed :
              c \in Calls /\ pc[c] # "idle" /\ op[c].kind \in {"register", "forgot", "resend"}
<1>1. ASSUME NEW c \in Calls,
             \/ Arrive(c) \/ Fail(c) \/ InsertUser(c) \/ ReadUser(c) \/ InsertSession(c)
             \/ ReadSession(c) \/ Rotate(c) \/ DeleteSession(c)
             \/ ClearResets(c) \/ InsertReset(c) \/ ReadReset(c) \/ SetPassword(c) \/ ClearSessions(c)
      PROVE  mailed' = mailed
  BY <1>1 DEF Arrive, Fail, InsertUser, ReadUser, InsertSession, ReadSession, Rotate, DeleteSession,
     ClearResets, InsertReset, ReadReset, SetPassword, ClearSessions
<1>2. ASSUME NEW c \in Calls,
             \/ ClearVerifs(c) \/ InsertVerif(c) \/ ReadVerif(c) \/ MarkVerified(c)
             \/ Generate(c) \/ Validate(c) \/ Exchange(c)
             \/ ReadLink(c) \/ ReadByEmail(c) \/ InsertOAuthUser(c) \/ Link(c)
      PROVE  mailed' = mailed
  BY <1>2 DEF ClearVerifs, InsertVerif, ReadVerif, MarkVerified, Generate, Validate, Exchange,
     ReadLink, ReadByEmail, InsertOAuthUser, Link
<1>3. ASSUME NEW c \in Calls, Mail(c)
      PROVE  /\ mailed' = mailed \/ mailed' = mailed \cup {c}
             /\ pc[c] # "idle" /\ op[c].kind \in {"register", "forgot", "resend"}
  BY <1>3 DEF Mail, Phases, Phase
<1>4. CASE Lapse \/ Crash \/ UNCHANGED vars BY <1>4 DEF Lapse, Crash, vars
<1> QED BY <1>1, <1>2, <1>3, <1>4 DEF Next, Step

\* A call that presents a mailed token arrives for the account it was mailed to.
LEMMA ArrivesForItsMail ==
  ASSUME TypeOK, Phases, MInv, NEW c \in Calls, Arrive(c)
  PROVE  /\ op'[c].kind = "reset" => MailedFor({"forgot"}, c)'
         /\ op'[c].kind = "verify" => MailedFor({"register", "resend"}, c)'
<1>1. PICK o \in Op : /\ Presentable(o) /\ op' = [op EXCEPT ![c] = o] /\ pc[c] = "idle"
                      /\ mailed' = mailed
  BY Arrivals
<1>2. op'[c] = o /\ \A d \in Calls : d # c => op'[d] = op[d] BY <1>1 DEF TypeOK
<1>3. c \notin mailed /\ mailed \subseteq Calls BY <1>1 DEF MInv, TypeOK
<1>4. ASSUME o.kind = "reset" PROVE MailedFor({"forgot"}, c)'
  <2>1. o.uses \in Mailed({"forgot"}) /\ Account(o.uses) = o.email BY <1>1, <1>4 DEF Presentable
  <2>2. o.uses \in mailed /\ op[o.uses].kind = "forgot" /\ op[o.uses].email = o.email
    BY <2>1 DEF Mailed, Account
  <2> QED BY <1>1, <1>2, <1>3, <2>2 DEF MailedFor
<1>5. ASSUME o.kind = "verify" PROVE MailedFor({"register", "resend"}, c)'
  <2>1. o.uses \in Mailed({"register", "resend"}) /\ Account(o.uses) = o.email
    BY <1>1, <1>5 DEF Presentable
  <2>2. /\ o.uses \in mailed /\ op[o.uses].kind \in {"register", "resend"}
        /\ op[o.uses].email = o.email
    BY <2>1 DEF Mailed, Account
  <2> QED BY <1>1, <1>2, <1>3, <2>2 DEF MailedFor
<1> QED BY <1>2, <1>4, <1>5

\* Nothing but its arrival begins a call.
LEMMA OnlyArrivalsBegin ==
  ASSUME TypeOK, [Next]_vars, NEW c \in Calls, pc[c] = "idle", pc'[c] # "idle"
  PROVE  Arrive(c)
<1> USE DEF Goto, Return, Unheard, GiveUp
<1>1. ASSUME NEW d \in Calls, d # c, pc'[c] # pc[c], pc[d] # "idle" \/ Arrive(d),
             \E where : pc' = [pc EXCEPT ![d] = where]
      PROVE FALSE
  BY <1>1 DEF TypeOK
<1>2. ASSUME NEW d \in Calls, Step(d) \/ Fail(d) \/ Arrive(d) PROVE
        (pc[d] # "idle" \/ Arrive(d)) /\ \E where : pc' = [pc EXCEPT ![d] = where]
  <2>1. CASE \/ Arrive(d) \/ Fail(d) \/ InsertUser(d) \/ ReadUser(d) \/ InsertSession(d)
             \/ ReadSession(d) \/ Rotate(d) \/ DeleteSession(d) \/ ClearResets(d)
             \/ InsertReset(d) \/ ReadReset(d) \/ SetPassword(d) \/ ClearSessions(d)
    BY <2>1 DEF Arrive, Fail, InsertUser, ReadUser, InsertSession, ReadSession, Rotate,
       DeleteSession, ClearResets, InsertReset, ReadReset, SetPassword, ClearSessions
  <2>2. CASE \/ ClearVerifs(d) \/ InsertVerif(d) \/ Mail(d) \/ ReadVerif(d) \/ MarkVerified(d)
             \/ Generate(d) \/ Validate(d) \/ Exchange(d)
             \/ ReadLink(d) \/ ReadByEmail(d) \/ InsertOAuthUser(d) \/ Link(d)
    BY <2>2 DEF ClearVerifs, InsertVerif, Mail, ReadVerif, MarkVerified, Generate, Validate,
       Exchange, ReadLink, ReadByEmail, InsertOAuthUser, Link
  <2> QED BY <1>2, <2>1, <2>2 DEF Step
<1>3. ~(Lapse \/ Crash \/ UNCHANGED vars)
  BY DEF Lapse, Crash, Running, callVars, vars, TypeOK
<1> QED BY <1>1, <1>2, <1>3 DEF Next

\* Mailed tokens stay those of calls that mail.
LEMMA MInvKept == ASSUME IInv, MInv, [Next]_vars PROVE MInv'
<1>1. TypeOK /\ Phases /\ mailed \subseteq Calls BY DEF IInv, TypeOK
<1>2. \A c \in Calls : pc[c] # "idle" =>
        /\ pc'[c] # "idle" /\ op'[c].kind = op[c].kind /\ op'[c].uses = op[c].uses
        /\ op[c].kind # "oauth" => op'[c] = op[c]
  BY <1>1, OpStays
<1>3. /\ mailed \subseteq mailed'
      /\ \A c \in mailed' \ mailed :
           c \in Calls /\ pc[c] # "idle" /\ op[c].kind \in {"register", "forgot", "resend"}
  BY <1>1, OnlyMailMails
<1>4. \A c \in mailed : c \in Calls /\ op'[c] = op[c] BY <1>1, <1>2 DEF MInv
<1>5. \A c \in mailed' : pc'[c] # "idle" /\ op'[c].kind \in {"register", "forgot", "resend"}
  BY <1>1, <1>2, <1>3 DEF MInv
<1>6. ASSUME NEW c \in Calls, pc[c] # "idle"
      PROVE  /\ op'[c].kind = "reset" => MailedFor({"forgot"}, c)'
             /\ op'[c].kind = "verify" => MailedFor({"register", "resend"}, c)'
  <2>1. CASE op[c].kind \in {"reset", "verify"}
    <3>1. op'[c] = op[c] /\ op[c].uses \in mailed /\ op'[op[c].uses] = op[op[c].uses]
      BY <1>2, <1>4, <1>6, <2>1 DEF MInv, MailedFor
    <3> QED BY <1>3, <1>6, <3>1 DEF MInv, MailedFor
  <2>2. CASE op[c].kind \notin {"reset", "verify"} BY <1>2, <1>6, <2>2
  <2> QED BY <2>1, <2>2
<1>7. \A c \in Calls : pc[c] = "idle" /\ pc'[c] # "idle" => Arrive(c) BY <1>1, OnlyArrivalsBegin
<1>8. \A c \in Calls : pc'[c] # "idle" =>
        /\ op'[c].kind = "reset" => MailedFor({"forgot"}, c)'
        /\ op'[c].kind = "verify" => MailedFor({"register", "resend"}, c)'
  BY <1>1, <1>6, <1>7, ArrivesForItsMail
<1> QED BY <1>5, <1>8 DEF MInv, MailedFor

\* Only a reset with a mailed token replaces a password, only a verification with
\* one verifies an address.
LEMMA WhoChanges ==
  ASSUME TypeOK, [Next]_vars, NEW e \in Accounts
  PROVE  /\ password[e] # None /\ password'[e] # password[e] =>
              \E c \in Calls : SetPassword(c) /\ Account(c) = e
         /\ e \in verified' \ verified => \E c \in Calls : MarkVerified(c) /\ Account(c) = e
<1>1. ASSUME NEW c \in Calls,
             \/ Arrive(c) \/ Fail(c) \/ ReadUser(c) \/ InsertSession(c)
             \/ ReadSession(c) \/ Rotate(c) \/ DeleteSession(c)
             \/ ClearResets(c) \/ InsertReset(c) \/ ReadReset(c) \/ ClearSessions(c)
      PROVE  password' = password /\ verified' = verified
  BY <1>1 DEF Arrive, Fail, ReadUser, InsertSession, ReadSession, Rotate, DeleteSession,
     ClearResets, InsertReset, ReadReset, ClearSessions, tables
<1>2. ASSUME NEW c \in Calls,
             \/ ClearVerifs(c) \/ InsertVerif(c) \/ Mail(c) \/ ReadVerif(c)
             \/ Generate(c) \/ Validate(c) \/ Exchange(c)
             \/ ReadLink(c) \/ ReadByEmail(c) \/ Link(c)
      PROVE  password' = password /\ verified' = verified
  BY <1>2 DEF ClearVerifs, InsertVerif, Mail, ReadVerif, Generate, Validate, Exchange,
     ReadLink, ReadByEmail, Link, tables
<1>3. ASSUME NEW c \in Calls, InsertUser(c) \/ InsertOAuthUser(c)
      PROVE  verified' = verified /\ (password[e] # None => password'[e] = password[e])
  BY <1>3 DEF InsertUser, InsertOAuthUser, TypeOK
<1>4. ASSUME NEW c \in Calls, SetPassword(c)
      PROVE  verified' = verified /\ (password'[e] # password[e] => Account(c) = e)
  BY <1>4 DEF SetPassword, TypeOK
<1>5. ASSUME NEW c \in Calls, MarkVerified(c)
      PROVE  password' = password /\ verified' = verified \cup {Account(c)}
  BY <1>5 DEF MarkVerified
<1>6. CASE Lapse \/ Crash \/ UNCHANGED vars
  BY <1>6 DEF Lapse, Crash, vars, tables
<1> QED BY <1>1, <1>2, <1>3, <1>4, <1>5, <1>6 DEF Next, Step

\* Only who reads an account's mail changes its password or verifies its address.
THEOREM MailIsNeeded == Spec => MailProvesOwnership
<1>1. Init => MInv BY DEF Init, MInv
<1>2. ASSUME IInv, MInv, [Next]_vars, NEW e \in Accounts
      PROVE  LET Proves(c, kinds) == op[c].uses \in Mailed(kinds) /\ Account(op[c].uses) = e
             IN /\ password[e] # None /\ password'[e] # password[e] =>
                     \E c \in Calls : pc[c] = "setPassword" /\ Proves(c, {"forgot"})
                /\ e \in verified' \ verified =>
                     \E c \in Calls : pc[c] = "markVerified" /\ Proves(c, {"register", "resend"})
  <2>1. ASSUME NEW c \in Calls, SetPassword(c), Account(c) = e
        PROVE  /\ pc[c] = "setPassword"
               /\ op[c].uses \in Mailed({"forgot"}) /\ Account(op[c].uses) = e
    <3>1. pc[c] = "setPassword" /\ op[c].kind = "reset"
      BY <1>2, <2>1 DEF SetPassword, IInv, Phases, Phase
    <3>2. MailedFor({"forgot"}, c) BY <1>2, <3>1 DEF MInv
    <3> QED BY <2>1, <3>1, <3>2 DEF MailedFor, Mailed, Account
  <2>2. ASSUME NEW c \in Calls, MarkVerified(c), Account(c) = e
        PROVE  /\ pc[c] = "markVerified"
               /\ op[c].uses \in Mailed({"register", "resend"}) /\ Account(op[c].uses) = e
    <3>1. pc[c] = "markVerified" /\ op[c].kind = "verify"
      BY <1>2, <2>2 DEF MarkVerified, IInv, Phases, Phase
    <3>2. MailedFor({"register", "resend"}, c) BY <1>2, <3>1 DEF MInv
    <3>3. op[op[c].uses].kind # "oauth" BY <3>2 DEF MailedFor
    <3> QED BY <2>2, <3>1, <3>2, <3>3 DEF MailedFor, Mailed, Account
  <2> QED BY <1>2, <2>1, <2>2, WhoChanges DEF IInv
<1>3. IInv /\ MInv /\ [Next]_vars =>
        [\A e \in Accounts :
           LET Proves(c, kinds) == op[c].uses \in Mailed(kinds) /\ Account(op[c].uses) = e
           IN /\ password[e] # None /\ password'[e] # password[e] =>
                   \E c \in Calls : pc[c] = "setPassword" /\ Proves(c, {"forgot"})
              /\ e \in verified' \ verified =>
                   \E c \in Calls : pc[c] = "markVerified" /\ Proves(c, {"register", "resend"})]_vars
  BY <1>2
<1>4. IInv /\ MInv /\ [Next]_vars => MInv' BY MInvKept
<1> QED BY <1>1, <1>3, <1>4, AuthInvariant, PTL DEF Spec, MailProvesOwnership

-----------------------------------------------------------------------------
\* Links are only added, and only a look-up that found none is remembered.
LEMMA LinksStay ==
  ASSUME TypeOK, [Next]_vars
  PROVE  /\ \A i \in Identities : links[i] # None => links'[i] = links[i]
         /\ unlinked \subseteq unlinked'
<1>1. ASSUME NEW c \in Calls,
             \/ Arrive(c) \/ Fail(c) \/ InsertUser(c) \/ ReadUser(c) \/ InsertSession(c)
             \/ ReadSession(c) \/ Rotate(c) \/ DeleteSession(c)
             \/ ClearResets(c) \/ InsertReset(c) \/ ReadReset(c) \/ SetPassword(c) \/ ClearSessions(c)
      PROVE  links' = links /\ unlinked' = unlinked
  BY <1>1 DEF Arrive, Fail, InsertUser, ReadUser, InsertSession, ReadSession, Rotate, DeleteSession,
     ClearResets, InsertReset, ReadReset, SetPassword, ClearSessions, oauth
<1>2. ASSUME NEW c \in Calls,
             \/ ClearVerifs(c) \/ InsertVerif(c) \/ Mail(c) \/ ReadVerif(c) \/ MarkVerified(c)
             \/ Generate(c) \/ Validate(c) \/ Exchange(c)
             \/ ReadLink(c) \/ ReadByEmail(c) \/ InsertOAuthUser(c)
      PROVE  links' = links /\ unlinked \subseteq unlinked'
  BY <1>2 DEF ClearVerifs, InsertVerif, Mail, ReadVerif, MarkVerified, Generate, Validate, Exchange,
     ReadLink, ReadByEmail, InsertOAuthUser, oauth
<1>3. ASSUME NEW c \in Calls, Link(c)
      PROVE  /\ \A i \in Identities : links[i] # None => links'[i] = links[i]
             /\ unlinked' = unlinked
  BY <1>3 DEF Link, TypeOK
<1>4. CASE Lapse \/ Crash \/ UNCHANGED vars
  BY <1>4 DEF Lapse, Crash, vars, oauth
<1> QED BY <1>1, <1>2, <1>3, <1>4 DEF Next, Step

\* A step of one call changes nothing for the logins of others.
LEMMA OthersKept ==
  ASSUME IInv, KInv, [Next]_vars, NEW c \in Calls, Kept(c)',
         \A d \in Calls : d # c => op'[d] = op[d] /\ pc'[d] = pc[d] /\ found'[d] = found[d]
  PROVE  KInv'
<1>1. /\ \A i \in Identities : links[i] # None => links'[i] = links[i]
      /\ unlinked \subseteq unlinked'
  BY LinksStay DEF IInv
<1>2. ASSUME NEW d \in Calls, d # c PROVE Kept(d)'
  <2>1. Kept(d) BY DEF KInv
  <2>2. op'[d] = op[d] /\ pc'[d] = pc[d] /\ found'[d] = found[d] BY <1>2
  <2> QED BY <1>1, <2>1, <2>2 DEF Kept
<1> QED BY <1>2 DEF KInv

\* What a login knows of its link stays true.
LEMMA KInvKept == ASSUME IInv, KInv, [Next]_vars PROVE KInv'
<1>1. /\ TypeOK /\ Phases /\ pc \in [Calls -> PCs] /\ op \in [Calls -> Op]
      /\ found \in [Calls -> Calls \cup Accounts \cup {None}]
      /\ links \in [Identities -> Accounts \cup {None}]
  BY DEF IInv, TypeOK
<1> USE DEF Goto, Return, Unheard, GiveUp
<1>2. ASSUME NEW c \in Calls, op' = op, found' = found,
             \E where : pc' = [pc EXCEPT ![c] = where]
                        /\ (op[c].kind # "oauth" \/ where \notin {"readByEmail", "insertOAuthUser", "link", "session"})
      PROVE  KInv'
  <2>1. \A d \in Calls : d # c => op'[d] = op[d] /\ pc'[d] = pc[d] /\ found'[d] = found[d]
    BY <1>1, <1>2
  <2>2. Kept(c)' BY <1>1, <1>2 DEF Kept
  <2> QED BY <2>1, <2>2, OthersKept
<1>3. ASSUME NEW c \in Calls, Arrive(c) PROVE KInv'
  <2>1. \A d \in Calls : d # c => op'[d] = op[d] /\ pc'[d] = pc[d] /\ found'[d] = found[d]
    BY <1>1, <1>3, Arrived
  <2>2. Kept(c)' BY <1>1, <1>3, Arrived DEF Kept
  <2> QED BY <2>1, <2>2, OthersKept
<1>4. ASSUME NEW c \in Calls,
             \/ Fail(c) \/ InsertUser(c) \/ ReadUser(c) \/ InsertSession(c)
             \/ Rotate(c) \/ DeleteSession(c)
             \/ ClearResets(c) \/ InsertReset(c) \/ ReadReset(c) \/ SetPassword(c) \/ ClearSessions(c)
      PROVE  KInv'
  <2>1. /\ op' = op /\ found' = found
        /\ \E where : pc' = [pc EXCEPT ![c] = where]
                      /\ (op[c].kind # "oauth" \/ where \notin {"readByEmail", "insertOAuthUser", "link", "session"})
    BY <1>1, <1>4 DEF Fail, InsertUser, ReadUser, InsertSession, Rotate, DeleteSession,
       ClearResets, InsertReset, ReadReset, SetPassword, ClearSessions, Phases, Phase
  <2> QED BY <1>2, <2>1
<1>5. ASSUME NEW c \in Calls,
             \/ ClearVerifs(c) \/ InsertVerif(c) \/ Mail(c) \/ ReadVerif(c) \/ MarkVerified(c)
             \/ Generate(c) \/ Validate(c)
      PROVE  KInv'
  <2>1. /\ op' = op /\ found' = found
        /\ \E where : pc' = [pc EXCEPT ![c] = where]
                      /\ (op[c].kind # "oauth" \/ where \notin {"readByEmail", "insertOAuthUser", "link", "session"})
    BY <1>1, <1>5 DEF ClearVerifs, InsertVerif, Mail, ReadVerif, MarkVerified, Generate, Validate,
       Phases, Phase
  <2> QED BY <1>2, <2>1
<1>6. ASSUME NEW c \in Calls, ReadSession(c) PROVE KInv'
  <2>1. /\ op' = op /\ op[c].kind = "refresh"
        /\ \A d \in Calls : d # c => pc'[d] = pc[d] /\ found'[d] = found[d]
    BY <1>1, <1>6 DEF ReadSession, Phases, Phase
  <2>2. Kept(c)' BY <2>1 DEF Kept
  <2> QED BY <2>1, <2>2, OthersKept
<1>7. ASSUME NEW c \in Calls, Exchange(c) PROVE KInv'
  <2>1. pc' = [pc EXCEPT ![c] = "readLink"] /\ found' = found BY <1>7 DEF Exchange
  <2>2. Kept(c)' BY <1>1, <2>1 DEF Kept
  <2>3. \A d \in Calls : d # c => op'[d] = op[d] /\ pc'[d] = pc[d] /\ found'[d] = found[d]
    BY <1>1, <1>7, <2>1, Reported
  <2> QED BY <2>2, <2>3, OthersKept
<1>8. ASSUME NEW c \in Calls, ReadLink(c) PROVE KInv'
  <2>1. /\ op' = op /\ links' = links
        /\ \/ /\ links[op[c].ident] # None /\ found' = [found EXCEPT ![c] = links[op[c].ident]]
              /\ pc' = [pc EXCEPT ![c] = "session"]
           \/ /\ found' = found /\ unlinked' = unlinked \cup {c}
              /\ \E where \in {"readByEmail", "insertOAuthUser"} : pc' = [pc EXCEPT ![c] = where]
    BY <1>8 DEF ReadLink
  <2>2. op[c].ident \in Identities BY <1>1, <1>8 DEF ReadLink, Phases
  <2>3. Kept(c)' BY <1>1, <2>1, <2>2 DEF Kept
  <2>4. \A d \in Calls : d # c => op'[d] = op[d] /\ pc'[d] = pc[d] /\ found'[d] = found[d]
    BY <1>1, <2>1
  <2> QED BY <2>3, <2>4, OthersKept
<1>9. ASSUME NEW c \in Calls, ReadByEmail(c) \/ InsertOAuthUser(c) PROVE KInv'
  <2>1. /\ op' = op /\ unlinked' = unlinked /\ op[c].kind = "oauth"
        /\ pc[c] \in {"readByEmail", "insertOAuthUser"}
        /\ \/ /\ found' = [found EXCEPT ![c] = op[c].email]
              /\ pc' = [pc EXCEPT ![c] = "link"] \/ pc' = [pc EXCEPT ![c] = "end"]
           \/ found' = found /\ pc' = [pc EXCEPT ![c] = "insertOAuthUser"]
    BY <1>1, <1>9, Unheards DEF ReadByEmail, InsertOAuthUser, oauth, Phases, Phase
  <2>2. c \in unlinked BY <2>1 DEF KInv, Kept
  <2>3. Kept(c)' BY <1>1, <2>1, <2>2 DEF Kept
  <2>4. \A d \in Calls : d # c => op'[d] = op[d] /\ pc'[d] = pc[d] /\ found'[d] = found[d]
    BY <1>1, <2>1
  <2> QED BY <2>3, <2>4, OthersKept
<1>10. ASSUME NEW c \in Calls, Link(c) PROVE KInv'
  <2> DEFINE i == op[c].ident
  <2>1. /\ op' = op /\ found' = found /\ unlinked' = unlinked /\ pc[c] = "link"
        /\ links' = [links EXCEPT ![i] = IF links[i] = None THEN found[c] ELSE links[i]]
        /\ pc' = [pc EXCEPT ![c] = "session"] \/ pc' = [pc EXCEPT ![c] = "end"]
    BY <1>1, <1>10, Unheards DEF Link, Phases, Phase
  <2>2. i \in Identities /\ found[c] # None /\ op[c].kind = "oauth"
    BY <1>1, <2>1 DEF Phases, Phase, TypeOK
  <2>3. c \in unlinked /\ found[c] = op[c].email BY <2>1, <2>2 DEF KInv, Kept
  <2>4. links'[i] = IF links[i] = None THEN found[c] ELSE links[i] BY <1>1, <2>1, <2>2
  <2>5. Kept(c)'
    <3> HIDE DEF i
    <3>1. op'[c].ident = i /\ pc'[c] \in {"session", "end"} BY <1>1, <2>1 DEF i
    <3> QED BY <2>1, <2>2, <2>3, <2>4, <3>1 DEF Kept
  <2>6. \A d \in Calls : d # c => op'[d] = op[d] /\ pc'[d] = pc[d] /\ found'[d] = found[d]
    BY <1>1, <2>1
  <2> QED BY <2>5, <2>6, OthersKept
<1>11. CASE Lapse \/ UNCHANGED vars
  BY <1>11 DEF Lapse, vars, callVars, oauth, KInv, Kept
<1>12. CASE Crash
  BY <1>1, <1>12 DEF Crash, Running, KInv, Kept
<1> QED BY <1>3, <1>4, <1>5, <1>6, <1>7, <1>8, <1>9, <1>10, <1>11, <1>12 DEF Next, Step

\* An OAuth login ends with the row of its session.
LEMMA OAuthAnswers ==
  ASSUME IInv, [Next]_vars, NEW c \in Calls,
         answer[c] # answer'[c], answer'[c] = "ok", op[c].kind = "oauth"
  PROVE  pc[c] = "session"
<1>1. TypeOK /\ Phases /\ answer \in [Calls -> {"none", "ok", "refused", "error", "unheard"}]
  BY DEF IInv, TypeOK
<1> USE DEF Goto, Return, Unheard, GiveUp
<1>2. ASSUME NEW d \in Calls, d # c, answer' = answer \/ \E a : answer' = [answer EXCEPT ![d] = a]
      PROVE FALSE
  BY <1>1, <1>2
<1>3. ASSUME NEW d \in Calls, Arrive(d) \/ Fail(d) \/ Step(d)
      PROVE  /\ answer' = answer \/ \E a : answer' = [answer EXCEPT ![d] = a]
             /\ d = c => pc[c] = "session"
  <2>1. CASE \/ Arrive(d) \/ Fail(d) \/ InsertUser(d) \/ ReadUser(d) \/ InsertSession(d)
             \/ ReadSession(d) \/ Rotate(d) \/ DeleteSession(d) \/ ClearResets(d)
             \/ InsertReset(d) \/ ReadReset(d) \/ SetPassword(d) \/ ClearSessions(d)
    BY <1>1, <2>1 DEF Arrive, Fail, InsertUser, ReadUser, InsertSession, ReadSession, Rotate,
       DeleteSession, ClearResets, InsertReset, ReadReset, SetPassword, ClearSessions, Phases, Phase
  <2>2. CASE \/ ClearVerifs(d) \/ InsertVerif(d) \/ Mail(d) \/ ReadVerif(d) \/ MarkVerified(d)
             \/ Generate(d) \/ Validate(d) \/ Exchange(d)
             \/ ReadLink(d) \/ ReadByEmail(d) \/ InsertOAuthUser(d) \/ Link(d)
    BY <1>1, <2>2 DEF ClearVerifs, InsertVerif, Mail, ReadVerif, MarkVerified, Generate, Validate,
       Exchange, ReadLink, ReadByEmail, InsertOAuthUser, Link, Phases, Phase
  <2> QED BY <1>3, <2>1, <2>2 DEF Step
<1>4. ~(Lapse \/ Crash \/ UNCHANGED vars)
  BY <1>1 DEF Lapse, Crash, callVars, vars
<1> QED BY <1>2, <1>3, <1>4 DEF Next

\* An OAuth identity keeps its account, but for first logins that race and are told
\* different emails.
THEOREM IdentitiesKeepAccounts == Spec => IdentityKeepsAccount
<1>1. Init => KInv BY DEF Init, KInv, Kept
<1>2. ASSUME IInv, KInv, [Next]_vars
      PROVE  /\ \A i \in Identities : links[i] # None => links'[i] = links[i]
             /\ \A c \in Calls : answer[c] # answer'[c] /\ answer'[c] = "ok" /\ op[c].kind = "oauth" =>
                  LET linked == links[op[c].ident]
                  IN /\ linked # None
                     /\ Account(c) = linked \/ (c \in unlinked /\ linked # op[c].email)
  <2>1. ASSUME NEW c \in Calls, answer[c] # answer'[c], answer'[c] = "ok", op[c].kind = "oauth"
        PROVE  /\ links[op[c].ident] # None
               /\ \/ Account(c) = links[op[c].ident]
                  \/ c \in unlinked /\ links[op[c].ident] # op[c].email
    <3>1. pc[c] = "session" BY <1>2, <2>1, OAuthAnswers
    <3> QED BY <1>2, <2>1, <3>1 DEF KInv, Kept, Account
  <2> QED BY <1>2, <2>1, LinksStay DEF IInv
<1>3. IInv /\ KInv /\ [Next]_vars =>
        [/\ \A i \in Identities : links[i] # None => links'[i] = links[i]
         /\ \A c \in Calls : answer[c] # answer'[c] /\ answer'[c] = "ok" /\ op[c].kind = "oauth" =>
              LET linked == links[op[c].ident]
              IN /\ linked # None
                 /\ Account(c) = linked \/ (c \in unlinked /\ linked # op[c].email)]_vars
  BY <1>2
<1>4. IInv /\ KInv /\ [Next]_vars => KInv' BY KInvKept
<1> QED BY <1>1, <1>3, <1>4, AuthInvariant, PTL DEF Spec, IdentityKeepsAccount

-----------------------------------------------------------------------------
(***************************************************************************)
(* What was cleared, lost or replaced stays so.                            *)
(***************************************************************************)
\* A call that has inserted its row keeps its request and what it has found.
Past(t) == IF t = "sessions" THEN {"end"} ELSE {"mail", "session", "end"}
LEMMA Settled ==
  ASSUME TypeOK, Phases, [Next]_vars, NEW c \in Calls
  PROVE  /\ \A t : pc[c] \in Past(t) => pc'[c] \in Past(t) /\ op'[c] = op[c] /\ found'[c] = found[c]
         /\ pc[c] = "end" => answer'[c] = answer[c]
         /\ pc[c] \notin {"idle", "setPassword"} => old'[c] = old[c]
<1> USE DEF Goto, Return, Unheard, GiveUp
<1>1. /\ pc \in [Calls -> PCs] /\ answer \in [Calls -> {"none", "ok", "refused", "error", "unheard"}]
      /\ op \in [Calls -> Op] /\ found \in [Calls -> Calls \cup Accounts \cup {None}]
      /\ old \in [Calls -> [Table -> SUBSET Calls]]
  BY DEF TypeOK
<1>2. ASSUME NEW d \in Calls,
             \/ Fail(d) \/ InsertUser(d) \/ ReadUser(d) \/ InsertSession(d)
             \/ Rotate(d) \/ DeleteSession(d) \/ ClearResets(d) \/ InsertReset(d)
             \/ ReadReset(d) \/ ClearSessions(d)
      PROVE  /\ op' = op /\ found' = found /\ old' = old /\ pc[d] # "end"
             /\ \/ \E a : pc' = [pc EXCEPT ![d] = "end"] /\ answer' = [answer EXCEPT ![d] = a]
                \/ \E where : /\ pc' = [pc EXCEPT ![d] = where] /\ answer' = answer
                              /\ pc[d] # "mail" /\ pc[d] # "session"
  BY <1>2 DEF Fail, InsertUser, ReadUser, InsertSession, Rotate, DeleteSession, ClearResets,
     InsertReset, ReadReset, ClearSessions, Phases, Phase, history
<1>3. ASSUME NEW d \in Calls,
             \/ ClearVerifs(d) \/ InsertVerif(d) \/ Mail(d) \/ ReadVerif(d) \/ MarkVerified(d)
             \/ Generate(d) \/ Validate(d) \/ Link(d)
      PROVE  /\ op' = op /\ found' = found /\ old' = old /\ pc[d] # "end"
             /\ \/ \E a : pc' = [pc EXCEPT ![d] = "end"] /\ answer' = [answer EXCEPT ![d] = a]
                \/ \E where : /\ pc' = [pc EXCEPT ![d] = where] /\ answer' = answer
                              /\ (pc[d] # "mail" \/ where = "session") /\ pc[d] # "session"
  BY <1>3 DEF ClearVerifs, InsertVerif, Mail, ReadVerif, MarkVerified, Generate, Validate, Link,
     history
<1>4. ASSUME NEW d \in Calls, op' = op, found' = found, old' = old, pc[d] # "end",
             \/ \E a : pc' = [pc EXCEPT ![d] = "end"] /\ answer' = [answer EXCEPT ![d] = a]
             \/ \E where : /\ pc' = [pc EXCEPT ![d] = where] /\ answer' = answer
                           /\ (pc[d] # "mail" \/ where = "session") /\ pc[d] # "session"
      PROVE  /\ \A t : pc[c] \in Past(t) => pc'[c] \in Past(t) /\ op'[c] = op[c] /\ found'[c] = found[c]
             /\ pc[c] = "end" => answer'[c] = answer[c]
             /\ pc[c] \notin {"idle", "setPassword"} => old'[c] = old[c]
  BY <1>1, <1>4 DEF Past
<1>5. ASSUME NEW d \in Calls, ReadSession(d) \/ ReadLink(d) \/ ReadByEmail(d) \/ InsertOAuthUser(d)
      PROVE  /\ op' = op /\ old' = old /\ pc[d] \notin {"mail", "session", "end"}
             /\ \A e \in Calls : e # d => pc'[e] = pc[e] /\ answer'[e] = answer[e] /\ found'[e] = found[e]
  BY <1>1, <1>5 DEF ReadSession, ReadLink, ReadByEmail, InsertOAuthUser, history
<1>6. ASSUME NEW d \in Calls, Exchange(d)
      PROVE  /\ old' = old /\ pc[d] \notin {"mail", "session", "end"} /\ answer' = answer /\ found' = found
             /\ \A e \in Calls : e # d => pc'[e] = pc[e] /\ op'[e] = op[e]
  BY <1>1, <1>6, Reported DEF Exchange, history
<1>7. ASSUME NEW d \in Calls, Arrive(d) \/ SetPassword(d)
      PROVE  /\ pc[d] \in {"idle", "setPassword"} /\ found' = found
             /\ \A e \in Calls : e # d => /\ pc'[e] = pc[e] /\ op'[e] = op[e] /\ old'[e] = old[e]
                                         /\ answer'[e] = answer[e]
  BY <1>1, <1>7, Arrived DEF Arrive, SetPassword, Remember
<1>8. CASE Lapse \/ UNCHANGED vars BY <1>8 DEF Lapse, callVars, history, vars
<1>9. CASE Crash BY <1>1, <1>9 DEF Crash, Running, history, Past
<1> QED BY <1>2, <1>3, <1>4, <1>5, <1>6, <1>7, <1>8, <1>9 DEF Next, Step, Past

\* So its account stays the same.
LEMMA AccountStays ==
  ASSUME TypeOK, Phases, [Next]_vars, NEW c \in Calls,
         \/ pc[c] \in {"mail", "session", "end"}
         \/ pc[c] # "idle" /\ op[c].kind # "oauth"
  PROVE  /\ Account(c)' = Account(c) /\ op'[c] = op[c] /\ pc'[c] # "idle"
<1>1. CASE pc[c] \in {"mail", "session", "end"}
  <2>1. pc[c] \in Past("verifs") BY <1>1 DEF Past
  <2> QED BY <2>1, Settled DEF Account, Past
<1>2. CASE pc[c] # "idle" /\ op[c].kind # "oauth" BY <1>2, OpStays DEF Account
<1> QED BY <1>1, <1>2

\* Rows are of calls past their INSERT, and no call comes there twice.
DbTables == {"sessions", "resets", "verifs"}
OldRows ==
  \A t \in DbTables :
    /\ \A r \in Rows(t) : r \in Calls /\ pc[r] \in Past(t)
    /\ \A c \in Calls : \A r \in old[c][t] : r \in Calls /\ pc[r] \in Past(t)

\* The tables a call has been through with its DELETE.
HasCleared(c, t) ==
  \/ op[c].kind = "reset" /\ t = "sessions" /\ answer[c] = "ok"
  \/ op[c].kind = "reset" /\ t = "resets" /\ (pc[c] = "clearSessions" \/ answer[c] = "ok")
  \/ op[c].kind = "forgot" /\ t = "resets" /\ (pc[c] \in {"insertReset", "mail"} \/ c \in mailed)
  \/ op[c].kind = "verify" /\ t = "verifs" /\ answer[c] = "ok"
  \/ op[c].kind = "resend" /\ t = "verifs" /\ (pc[c] \in {"insertVerif", "mail"} \/ c \in mailed)
IsGone(c, t) ==
  <<t, c>> \in missed \/ \A r \in old[c][t] \cap Rows(t) : Account(r) # Account(c)
Deletes == \A c \in Calls, t \in DbTables : HasCleared(c, t) => IsGone(c, t)

\* The rows of the tables that calls clear, before and after a step.
LEMMA RowsOf ==
  /\ Rows("sessions") = {s \in Calls : token[s] # None}
  /\ Rows("sessions")' = {s \in Calls : token'[s] # None}
  /\ Rows("resets") = resets /\ Rows("resets")' = resets'
  /\ Rows("verifs") = verifs /\ Rows("verifs")' = verifs'
BY DEF Rows

\* A row that is new is that of the call whose INSERT this is.
LEMMA NewRows ==
  ASSUME IInv, [Next]_vars, NEW t \in DbTables, NEW r \in Rows(t)'
  PROVE  r \in Rows(t) \/ (r \in Calls /\ pc[r] \notin Past(t) /\ pc'[r] \in Past(t))
<1> USE RowsOf DEF Goto, Return, Unheard, GiveUp, Past
<1>1. /\ pc \in [Calls -> PCs] /\ token \in [Calls -> Calls \cup {None}]
      /\ resets \subseteq Calls /\ verifs \subseteq Calls
      /\ \A c \in Calls : pc[c] = "rotate" => found[c] \in Calls
  BY DEF IInv, TypeOK
<1>2. CASE UNCHANGED <<token, resets, verifs>>
  BY <1>2 DEF DbTables
<1>3. ASSUME NEW c \in Calls, DeleteSession(c) \/ ClearSessions(c) \/ ClearResets(c) \/ ClearVerifs(c)
             \/ Rotate(c)
      PROVE  r \in Rows(t)
  <2>1. /\ resets' \subseteq resets /\ verifs' \subseteq verifs
        /\ \A s \in Calls : token[s] = None => token'[s] = None
    BY <1>1, <1>3 DEF DeleteSession, ClearSessions, ClearResets, ClearVerifs, Rotate
  <2> QED BY <2>1 DEF DbTables
<1>4. ASSUME NEW c \in Calls, InsertSession(c) \/ InsertReset(c) \/ InsertVerif(c)
      PROVE  r \in Rows(t) \/ (r \in Calls /\ pc[r] \notin Past(t) /\ pc'[r] \in Past(t))
  <2>1. CASE t = "sessions" BY <1>1, <1>4, <2>1 DEF InsertSession, InsertReset, InsertVerif
  <2>2. CASE t = "resets" BY <1>1, <1>4, <2>2 DEF InsertSession, InsertReset, InsertVerif
  <2>3. CASE t = "verifs" BY <1>1, <1>4, <2>3 DEF InsertSession, InsertReset, InsertVerif
  <2> QED BY <2>1, <2>2, <2>3 DEF DbTables
<1>5. ASSUME NEW c \in Calls,
             \/ Arrive(c) \/ Fail(c) \/ InsertUser(c) \/ ReadUser(c) \/ ReadSession(c)
             \/ ReadReset(c) \/ SetPassword(c) \/ Mail(c) \/ ReadVerif(c) \/ MarkVerified(c)
             \/ Generate(c) \/ Validate(c) \/ Exchange(c)
             \/ ReadLink(c) \/ ReadByEmail(c) \/ InsertOAuthUser(c) \/ Link(c)
      PROVE  UNCHANGED <<token, resets, verifs>>
  BY <1>5 DEF Arrive, Fail, InsertUser, ReadUser, ReadSession, ReadReset, SetPassword, Mail,
     ReadVerif, MarkVerified, Generate, Validate, Exchange, ReadLink, ReadByEmail,
     InsertOAuthUser, Link, tables
<1>6. CASE Lapse \/ Crash \/ UNCHANGED vars
  BY <1>2, <1>6 DEF Lapse, Crash, vars, tables
<1> QED BY <1>2, <1>3, <1>4, <1>5, <1>6 DEF Next, Step

\* What a call remembers when it begins, or sets the password, are rows there are.
LEMMA Remembered ==
  ASSUME TypeOK, Phases, [Next]_vars, NEW c \in Calls, NEW t \in DbTables, NEW r \in old'[c][t]
  PROVE  r \in old[c][t] \/ r \in Rows(t)
<1>1. t \in Table /\ old \in [Calls -> [Table -> SUBSET Calls]] BY DEF DbTables, Table, TypeOK
<1>2. ASSUME NEW d \in Calls, NEW k, Remember(d, k) PROVE r \in old[c][t] \/ r \in Rows(t)
  BY <1>1, <1>2 DEF Remember
<1>3. CASE \E d \in Calls : Arrive(d) \/ SetPassword(d)
  BY <1>2, <1>3 DEF Arrive, SetPassword
<1>4. CASE old' = old BY <1>4
<1>5. ASSUME NEW d \in Calls,
             \/ Fail(d) \/ InsertUser(d) \/ ReadUser(d) \/ InsertSession(d)
             \/ ReadSession(d) \/ Rotate(d) \/ DeleteSession(d)
             \/ ClearResets(d) \/ InsertReset(d) \/ ReadReset(d) \/ ClearSessions(d)
      PROVE  old' = old
  BY <1>5 DEF Fail, InsertUser, ReadUser, InsertSession, ReadSession, Rotate, DeleteSession,
     ClearResets, InsertReset, ReadReset, ClearSessions, history
<1>6. ASSUME NEW d \in Calls,
             \/ ClearVerifs(d) \/ InsertVerif(d) \/ Mail(d) \/ ReadVerif(d) \/ MarkVerified(d)
             \/ Generate(d) \/ Validate(d) \/ Exchange(d)
             \/ ReadLink(d) \/ ReadByEmail(d) \/ InsertOAuthUser(d) \/ Link(d)
      PROVE  old' = old
  BY <1>6 DEF ClearVerifs, InsertVerif, Mail, ReadVerif, MarkVerified, Generate, Validate, Exchange,
     ReadLink, ReadByEmail, InsertOAuthUser, Link, history
<1>7. CASE Lapse \/ Crash \/ UNCHANGED vars BY <1>4, <1>7 DEF Lapse, Crash, vars, history
<1> QED BY <1>3, <1>4, <1>5, <1>6, <1>7 DEF Next, Step

\* Rows, and rows remembered, stay those of calls past their INSERT.
LEMMA OldRowsKept == ASSUME IInv, OldRows, [Next]_vars PROVE OldRows'
<1>1. TypeOK /\ Phases BY DEF IInv
<1>2. \A c \in Calls : \A t : pc[c] \in Past(t) => pc'[c] \in Past(t) BY <1>1, Settled
<1>3. \A t \in DbTables : \A r \in Rows(t)' : r \in Calls /\ pc'[r] \in Past(t)
  BY <1>2, NewRows DEF OldRows
<1>4. \A t \in DbTables : \A c \in Calls : \A r \in old'[c][t] : r \in Calls /\ pc'[r] \in Past(t)
  BY <1>1, <1>2, Remembered DEF OldRows
<1>5. \A t : Past(t)' = Past(t) BY DEF Past
<1> QED BY <1>3, <1>4, <1>5 DEF OldRows

\* A DELETE that failed is not forgotten.
LEMMA MissedStays == ASSUME [Next]_vars PROVE missed \subseteq missed'
<1>1. ASSUME NEW d \in Calls, ClearResets(d) \/ ClearVerifs(d) \/ ClearSessions(d)
      PROVE  missed \subseteq missed'
  BY <1>1 DEF ClearResets, ClearVerifs, ClearSessions, Miss
<1>2. ASSUME NEW d \in Calls,
             \/ Arrive(d) \/ Fail(d) \/ InsertUser(d) \/ ReadUser(d) \/ InsertSession(d)
             \/ ReadSession(d) \/ Rotate(d) \/ DeleteSession(d)
             \/ InsertReset(d) \/ ReadReset(d) \/ SetPassword(d)
      PROVE  missed' = missed
  BY <1>2 DEF Arrive, Fail, InsertUser, ReadUser, InsertSession, ReadSession, Rotate,
     DeleteSession, InsertReset, ReadReset, SetPassword, history
<1>3. ASSUME NEW d \in Calls,
             \/ InsertVerif(d) \/ Mail(d) \/ ReadVerif(d) \/ MarkVerified(d)
             \/ Generate(d) \/ Validate(d) \/ Exchange(d)
             \/ ReadLink(d) \/ ReadByEmail(d) \/ InsertOAuthUser(d) \/ Link(d)
      PROVE  missed' = missed
  BY <1>3 DEF InsertVerif, Mail, ReadVerif, MarkVerified, Generate, Validate, Exchange,
     ReadLink, ReadByEmail, InsertOAuthUser, Link, history
<1>4. CASE Lapse \/ Crash \/ UNCHANGED vars BY <1>4 DEF Lapse, Crash, vars, history
<1> QED BY <1>1, <1>2, <1>3, <1>4 DEF Next, Step

\* Once gone, gone for good.
LEMMA GoneStays ==
  ASSUME IInv, MInv, OldRows, [Next]_vars,
         NEW c \in Calls, NEW t \in DbTables, HasCleared(c, t), IsGone(c, t)
  PROVE  IsGone(c, t)'
<1>1. TypeOK /\ Phases BY DEF IInv
<1>2. pc[c] \notin {"idle", "setPassword"} /\ op[c].kind # "oauth"
  BY <1>1 DEF HasCleared, Phases, Phase, MInv
<1>3. old'[c] = old[c] /\ Account(c)' = Account(c)
  BY <1>1, <1>2, Settled, AccountStays
<1>4. missed \subseteq missed' BY MissedStays
<1>5. ASSUME NEW r \in old[c][t] \cap Rows(t)' PROVE r \in Rows(t) /\ Account(r)' = Account(r)
  <2>1. r \in Calls /\ pc[r] \in Past(t) BY DEF OldRows
  <2>2. pc[r] \in {"mail", "session", "end"} BY <2>1 DEF Past
  <2> QED BY <1>1, <2>1, <2>2, NewRows, AccountStays
<1> QED BY <1>3, <1>4, <1>5 DEF IsGone

\* A DELETE takes away what is there, or it fails unnoticed.
LEMMA DeleteClears ==
  ASSUME IInv, NEW c \in Calls, NEW t \in DbTables,
         \/ t = "resets" /\ ClearResets(c)
         \/ t = "sessions" /\ ClearSessions(c)
         \/ t = "verifs" /\ ClearVerifs(c)
  PROVE  IsGone(c, t)'
<1>1. /\ op' = op /\ found' = found /\ old' = old
  BY DEF ClearResets, ClearSessions, ClearVerifs
<1>2. \A r : Account(r)' = Account(r) BY <1>1 DEF Account
<1>3. \/ missed' = missed \cup {<<t, c>>}
      \/ \A r \in Rows(t)' : Account(r) # Account(c)
  <2>1. CASE t = "resets" BY <2>1, RowsOf DEF ClearResets, Miss, Owned
  <2>2. CASE t = "verifs" BY <2>2, RowsOf DEF ClearVerifs, Miss, Owned
  <2>3. CASE t = "sessions" BY <2>3, RowsOf DEF ClearSessions, Miss
  <2> QED BY <2>1, <2>2, <2>3 DEF DbTables
<1> QED BY <1>1, <1>2, <1>3 DEF IsGone

\* Nobody else's step, and no other statement, makes a call one that has cleared.
LEMMA WhoClears ==
  ASSUME IInv, MInv, [Next]_vars, NEW c \in Calls, NEW t \in DbTables, HasCleared(c, t)'
  PROVE  \/ HasCleared(c, t)
         \/ t = "resets" /\ ClearResets(c)
         \/ t = "sessions" /\ ClearSessions(c)
         \/ t = "verifs" /\ ClearVerifs(c)
<1> USE DEF Goto, Return, Unheard, GiveUp
<1>1. /\ TypeOK /\ Phases /\ pc \in [Calls -> PCs] /\ op \in [Calls -> Op] /\ mailed \subseteq Calls
      /\ answer \in [Calls -> {"none", "ok", "refused", "error", "unheard"}]
  BY DEF IInv, TypeOK
<1>2. ASSUME NEW d \in Calls, d # c, op'[c] = op[c], pc'[c] = pc[c], answer'[c] = answer[c],
             c \in mailed' => c \in mailed
      PROVE  HasCleared(c, t)
  BY <1>2 DEF HasCleared
<1>3. ASSUME NEW d \in Calls, d # c, Arrive(d) \/ Fail(d) \/ Step(d)
      PROVE  HasCleared(c, t)
  <2>1. CASE Arrive(d)
    BY <1>1, <1>2, <1>3, <2>1, Arrived DEF Arrive
  <2>2. CASE Exchange(d)
    BY <1>1, <1>2, <1>3, <2>2, Reported DEF Exchange
  <2>3. CASE \/ Fail(d) \/ InsertUser(d) \/ ReadUser(d) \/ InsertSession(d)
             \/ ReadSession(d) \/ Rotate(d) \/ DeleteSession(d) \/ ClearResets(d)
             \/ InsertReset(d) \/ ReadReset(d) \/ SetPassword(d) \/ ClearSessions(d)
    BY <1>1, <1>2, <1>3, <2>3 DEF Fail, InsertUser, ReadUser, InsertSession, ReadSession, Rotate,
       DeleteSession, ClearResets, InsertReset, ReadReset, SetPassword, ClearSessions
  <2>4. CASE \/ ClearVerifs(d) \/ InsertVerif(d) \/ Mail(d) \/ ReadVerif(d) \/ MarkVerified(d)
             \/ Generate(d) \/ Validate(d)
             \/ ReadLink(d) \/ ReadByEmail(d) \/ InsertOAuthUser(d) \/ Link(d)
    BY <1>1, <1>2, <1>3, <2>4 DEF ClearVerifs, InsertVerif, Mail, ReadVerif, MarkVerified,
       Generate, Validate, ReadLink, ReadByEmail, InsertOAuthUser, Link
  <2> QED BY <1>3, <2>1, <2>2, <2>3, <2>4 DEF Step
<1>4. ASSUME Arrive(c) PROVE HasCleared(c, t)
  <2>1. /\ pc[c] = "idle" /\ answer'[c] = "none" /\ mailed' = mailed /\ c \notin mailed
    BY <1>1, <1>4, Arrived DEF Arrive, Phases, MInv
  <2>2. pc'[c] \notin {"clearSessions", "insertReset", "mail", "insertVerif"}
    <3>1. PICK o \in Op : o.kind \in AllKinds /\ pc' = [pc EXCEPT ![c] = First[o.kind]]
      BY <1>1, <1>4, Arrivals
    <3>2. \A k \in AllKinds : First[k] \notin {"clearSessions", "insertReset", "mail", "insertVerif"}
      BY Statements DEF AllKinds
    <3> QED BY <1>1, <3>1, <3>2
  <2> QED BY <2>1, <2>2 DEF HasCleared
<1>5. ASSUME Fail(c) PROVE HasCleared(c, t)
  BY <1>1, <1>5 DEF Fail, HasCleared, Phases, Phase
<1>6. ASSUME \/ InsertUser(c) \/ ReadUser(c) \/ InsertSession(c) \/ ReadSession(c) \/ Rotate(c)
             \/ DeleteSession(c) \/ InsertReset(c) \/ ReadReset(c) \/ SetPassword(c)
      PROVE  HasCleared(c, t)
  BY <1>1, <1>6 DEF InsertUser, ReadUser, InsertSession, ReadSession, Rotate,
     DeleteSession, InsertReset, ReadReset, SetPassword, HasCleared, Phases, Phase
<1>7. ASSUME \/ InsertVerif(c) \/ Mail(c) \/ ReadVerif(c) \/ MarkVerified(c)
             \/ Generate(c) \/ Validate(c)
             \/ ReadLink(c) \/ ReadByEmail(c) \/ InsertOAuthUser(c) \/ Link(c)
      PROVE  HasCleared(c, t)
  BY <1>1, <1>7 DEF InsertVerif, Mail, ReadVerif, MarkVerified, Generate, Validate,
     ReadLink, ReadByEmail, InsertOAuthUser, Link, HasCleared, Phases, Phase
<1>8. ASSUME Exchange(c) PROVE HasCleared(c, t)
  <2>1. op[c].kind = "oauth" /\ op'[c].kind = "oauth"
    BY <1>1, <1>8, Reported DEF Exchange, Phases, Phase
  <2> QED BY <2>1 DEF HasCleared
<1>9. ASSUME ClearResets(c) \/ ClearSessions(c) \/ ClearVerifs(c)
      PROVE  \/ HasCleared(c, t)
             \/ t = "resets" /\ ClearResets(c)
             \/ t = "sessions" /\ ClearSessions(c)
             \/ t = "verifs" /\ ClearVerifs(c)
  BY <1>1, <1>9 DEF ClearResets, ClearSessions, ClearVerifs, HasCleared, Phases, Phase
<1>10. CASE Lapse \/ UNCHANGED vars BY <1>10 DEF Lapse, vars, callVars, HasCleared
<1>11. CASE Crash BY <1>1, <1>11 DEF Crash, Running, HasCleared
<1> QED BY <1>3, <1>4, <1>5, <1>6, <1>7, <1>8, <1>9, <1>10, <1>11 DEF Next, Step

\* What a call has cleared stays cleared.
LEMMA DeletesKept == ASSUME IInv, MInv, OldRows, Deletes, [Next]_vars PROVE Deletes'
<1>1. ASSUME NEW c \in Calls, NEW t \in DbTables, HasCleared(c, t)' PROVE IsGone(c, t)'
  <2>1. CASE HasCleared(c, t) BY <2>1, GoneStays DEF Deletes
  <2>2. CASE ~HasCleared(c, t) BY <1>1, <2>2, WhoClears, DeleteClears
  <2> QED BY <2>1, <2>2
<1> QED BY <1>1 DEF Deletes, DbTables

\* What a call says it has cleared never comes back, whoever inserts rows meanwhile,
\* unless the DELETE failed.
THEOREM ClearedStaysGone == Spec => []ClearedIsGone
<1>1. Init => MInv BY DEF Init, MInv
<1>2. Init => OldRows /\ Deletes
  <2> SUFFICES ASSUME Init PROVE OldRows /\ Deletes OBVIOUS
  <2>1. \A t \in DbTables : Rows(t) = {} /\ \A c \in Calls : old[c][t] = {}
    BY RowsOf DEF Init, DbTables, Table
  <2>2. \A c \in Calls : answer[c] = "none" /\ pc[c] = "idle" /\ c \notin mailed BY DEF Init
  <2> QED BY <2>1, <2>2 DEF OldRows, Deletes, HasCleared
<1>3. IInv /\ MInv /\ OldRows /\ Deletes /\ [Next]_vars => MInv' /\ OldRows' /\ Deletes'
  BY MInvKept, OldRowsKept, DeletesKept
<1>4. Deletes => ClearedIsGone
  <2> SUFFICES ASSUME Deletes, NEW c \in Calls
               PROVE  LET Gone(t) == <<t, c>> \in missed \/ Owned(c, old[c][t]) \cap Rows(t) = {}
                      IN /\ Served(c, {"reset"}) => Gone("sessions")
                         /\ Served(c, {"reset"}) \/ c \in Mailed({"forgot"}) => Gone("resets")
                         /\ Served(c, {"verify"}) \/ c \in Mailed({"resend"}) => Gone("verifs")
    BY DEF ClearedIsGone
  <2>1. \A t \in DbTables : IsGone(c, t) => <<t, c>> \in missed \/ Owned(c, old[c][t]) \cap Rows(t) = {}
    BY DEF IsGone, Owned
  <2>2. /\ Served(c, {"reset"}) => HasCleared(c, "sessions")
        /\ Served(c, {"reset"}) \/ c \in Mailed({"forgot"}) => HasCleared(c, "resets")
        /\ Served(c, {"verify"}) \/ c \in Mailed({"resend"}) => HasCleared(c, "verifs")
    BY DEF Served, Mailed, HasCleared
  <2> QED BY <2>1, <2>2 DEF Deletes, DbTables
<1> QED BY <1>1, <1>2, <1>3, <1>4, AuthInvariant, PTL DEF Spec

\* A statement moves its own call, which has begun.
LEMMA StepsMoveOne ==
  ASSUME TypeOK, Phases, NEW c \in Calls, Arrive(c) \/ Step(c) \/ Fail(c), NEW d \in Calls, d # c
  PROVE  pc'[d] = pc[d] /\ answer'[d] = answer[d]
<1> USE DEF Goto, Return, Unheard, GiveUp, TypeOK
<1>1. CASE Arrive(c) BY <1>1, Arrived
<1>2. CASE \/ Fail(c) \/ InsertUser(c) \/ ReadUser(c) \/ InsertSession(c)
           \/ ReadSession(c) \/ Rotate(c) \/ DeleteSession(c) \/ ClearResets(c)
           \/ InsertReset(c) \/ ReadReset(c) \/ SetPassword(c) \/ ClearSessions(c)
  BY <1>2 DEF Fail, InsertUser, ReadUser, InsertSession, ReadSession, Rotate,
     DeleteSession, ClearResets, InsertReset, ReadReset, SetPassword, ClearSessions
<1>3. CASE \/ ClearVerifs(c) \/ InsertVerif(c) \/ Mail(c) \/ ReadVerif(c) \/ MarkVerified(c)
           \/ Generate(c) \/ Validate(c) \/ Exchange(c)
           \/ ReadLink(c) \/ ReadByEmail(c) \/ InsertOAuthUser(c) \/ Link(c)
  BY <1>3 DEF ClearVerifs, InsertVerif, Mail, ReadVerif, MarkVerified,
     Generate, Validate, Exchange, ReadLink, ReadByEmail, InsertOAuthUser, Link
<1> QED BY <1>1, <1>2, <1>3 DEF Step

\* A reset at its DELETEs executes them.
LEMMA StepsAt ==
  ASSUME NEW c \in Calls, pc[c] \in {"clearResets", "clearSessions"}, Arrive(c) \/ Fail(c) \/ Step(c)
  PROVE  ClearSessions(c) \/ ClearResets(c)
BY DEF Arrive, Fail, Step, InsertUser, ReadUser, InsertSession, ReadSession, Rotate,
   DeleteSession, InsertReset, ReadReset, SetPassword, ClearVerifs, InsertVerif, Mail, ReadVerif,
   MarkVerified, Generate, Validate, Exchange, ReadLink, ReadByEmail, InsertOAuthUser, Link

\* Who was late is not forgotten.
LEMMA LateStays == ASSUME [Next]_vars PROVE late \subseteq late'
<1>1. ASSUME NEW d \in Calls, SetPassword(d) PROVE late \subseteq late'
  BY <1>1 DEF SetPassword
<1>2. ASSUME NEW d \in Calls,
             \/ Arrive(d) \/ Fail(d) \/ InsertUser(d) \/ ReadUser(d) \/ InsertSession(d)
             \/ ReadSession(d) \/ Rotate(d) \/ DeleteSession(d) \/ ClearResets(d)
             \/ InsertReset(d) \/ ReadReset(d) \/ ClearSessions(d)
      PROVE  late' = late
  BY <1>2 DEF Arrive, Fail, InsertUser, ReadUser, InsertSession, ReadSession, Rotate,
     DeleteSession, ClearResets, InsertReset, ReadReset, ClearSessions, history
<1>3. ASSUME NEW d \in Calls,
             \/ ClearVerifs(d) \/ InsertVerif(d) \/ Mail(d) \/ ReadVerif(d) \/ MarkVerified(d)
             \/ Generate(d) \/ Validate(d) \/ Exchange(d)
             \/ ReadLink(d) \/ ReadByEmail(d) \/ InsertOAuthUser(d) \/ Link(d)
      PROVE  late' = late
  BY <1>3 DEF ClearVerifs, InsertVerif, Mail, ReadVerif, MarkVerified, Generate, Validate, Exchange,
     ReadLink, ReadByEmail, InsertOAuthUser, Link, history
<1>4. CASE Lapse \/ Crash \/ UNCHANGED vars BY <1>4 DEF Lapse, Crash, vars, history
<1> QED BY <1>1, <1>2, <1>3, <1>4 DEF Next, Step

\* A refresh that has read its session holds on to it.
LEMMA RotateHolds ==
  ASSUME TypeOK, Phases, [Next]_vars, NEW c \in Calls, pc[c] = "rotate", pc'[c] = "rotate"
  PROVE  op'[c] = op[c] /\ found'[c] = found[c]
<1>1. op[c].kind = "refresh" BY DEF Phases, Phase
<1>2. op'[c] = op[c] BY <1>1, OpStays
<1>3. /\ pc \in [Calls -> PCs] /\ found \in [Calls -> Calls \cup Accounts \cup {None}]
  BY DEF TypeOK
<1>4. ASSUME NEW d \in Calls, ReadSession(d) \/ ReadLink(d) \/ ReadByEmail(d) \/ InsertOAuthUser(d)
      PROVE  found'[c] = found[c]
  BY <1>3, <1>4 DEF ReadSession, ReadLink, ReadByEmail, InsertOAuthUser
<1>5. ASSUME NEW d \in Calls,
             \/ Arrive(d) \/ Fail(d) \/ InsertUser(d) \/ ReadUser(d) \/ InsertSession(d)
             \/ Rotate(d) \/ DeleteSession(d)
             \/ ClearResets(d) \/ InsertReset(d) \/ ReadReset(d) \/ SetPassword(d) \/ ClearSessions(d)
      PROVE  found' = found
  BY <1>5 DEF Arrive, Fail, InsertUser, ReadUser, InsertSession, Rotate, DeleteSession,
     ClearResets, InsertReset, ReadReset, SetPassword, ClearSessions
<1>6. ASSUME NEW d \in Calls,
             \/ ClearVerifs(d) \/ InsertVerif(d) \/ Mail(d) \/ ReadVerif(d) \/ MarkVerified(d)
             \/ Generate(d) \/ Validate(d) \/ Exchange(d) \/ Link(d)
      PROVE  found' = found
  BY <1>6 DEF ClearVerifs, InsertVerif, Mail, ReadVerif, MarkVerified, Generate, Validate,
     Exchange, Link
<1>7. CASE Lapse \/ Crash \/ UNCHANGED vars BY <1>7 DEF Lapse, Crash, vars, callVars
<1> QED BY <1>2, <1>4, <1>5, <1>6, <1>7 DEF Next, Step

-----------------------------------------------------------------------------
(***************************************************************************)
(* Passwords that were replaced.                                           *)
(***************************************************************************)
\* The session of a login, or a registration, whose password was replaced is known to
\* be late, or is among those that a reset has still to delete, has failed to delete
\* or did not get to.
Owed(s) ==
  \E d \in Calls :
    /\ op[d].kind = "reset" /\ s \in old[d]["sessions"] /\ Account(d) = Account(s)
    /\ \/ pc[d] \in {"clearResets", "clearSessions"}
       \/ pc[d] = "end" /\ (answer[d] # "ok" \/ <<"sessions", d>> \in missed)
Used(s) == IF op[s].kind = "login" THEN op[s].uses ELSE s
LoggedIn(s) == Entering(s) \/ (op[s].kind \in {"login", "register"} /\ token[s] # None)
PInv ==
  \A s \in Calls : LoggedIn(s) =>
    /\ Used(s) # None
    /\ Used(s) # password[Account(s)] => s \in late \/ (token[s] # None /\ Owed(s))

\* Who is logged in was so before, or has just checked or inserted the password.
LEMMA LogsIn ==
  ASSUME IInv, [Next]_vars, NEW s \in Calls, LoggedIn(s)'
  PROVE  /\ op'[s] = op[s] /\ Account(s)' = Account(s)
         /\ token[s] # None => token'[s] # None
         /\ LoggedIn(s) \/ (password'[Account(s)] = Used(s) /\ Used(s) # None)
<1>1. /\ TypeOK /\ Phases /\ pc \in [Calls -> PCs] /\ token \in [Calls -> Calls \cup {None}]
      /\ op \in [Calls -> Op] /\ password \in [Accounts -> Calls \cup {None}]
      /\ \A c \in Calls : /\ pc[c] = "rotate" => found[c] \in Calls
                          /\ token[c] # None => pc[c] = "end"
  BY DEF IInv, TypeOK, Issued
<1>2. \/ LoggedIn(s)
      \/ /\ password'[Account(s)] = Used(s) /\ Used(s) # None /\ op' = op /\ found' = found
         /\ token' = token
  <2> USE DEF Goto, Return
  <2>1. ASSUME NEW c \in Calls, ReadUser(c)
        PROVE  \/ LoggedIn(s)
               \/ /\ password'[Account(s)] = Used(s) /\ Used(s) # None
                  /\ op' = op /\ found' = found /\ token' = token
    <3>1. op' = op /\ found' = found /\ token' = token /\ password' = password
      BY <2>1 DEF ReadUser, tables
    <3>2. CASE Entering(s) BY <3>2 DEF LoggedIn
    <3>3. CASE ~Entering(s) /\ Entering(s)'
      BY <1>1, <2>1, <3>1, <3>3 DEF ReadUser, Entering, Used
    <3> QED BY <3>1, <3>2, <3>3 DEF LoggedIn
  <2>2. ASSUME NEW c \in Calls, InsertUser(c)
        PROVE  \/ LoggedIn(s)
               \/ /\ password'[Account(s)] = Used(s) /\ Used(s) # None
                  /\ op' = op /\ found' = found /\ token' = token
    <3>1. /\ op' = op /\ found' = found /\ token' = token /\ pc[c] = "insertUser"
          /\ op[c].kind \in {"register", "create"} /\ op[c] \in Op
      BY <1>1, <2>2 DEF InsertUser, Phases, Phase
    <3>2. CASE ~Entering(s) /\ Entering(s)'
      <4>1. s = c /\ op[c].kind = "register" /\ pc'[c] = "clearVerifs"
        BY <1>1, <2>2, <3>1, <3>2, Unheards DEF InsertUser, Entering
      <4>2. password' = [password EXCEPT ![Account(c)] = c]
        BY <1>1, <2>2, <4>1 DEF InsertUser
      <4>3. Account(c) \in Accounts BY <3>1 DEF Account, Op
      <4> QED BY <1>1, <3>1, <4>1, <4>2, <4>3, NoneIsNothing DEF Used
    <3> QED BY <3>1, <3>2 DEF LoggedIn
  <2>3. ASSUME NEW c \in Calls, InsertSession(c) PROVE LoggedIn(s)
    <3>1. /\ op' = op /\ pc[c] = "session" /\ token' = [token EXCEPT ![c] = c]
          /\ \A d \in Calls : d # c => pc'[d] = pc[d]
          /\ pc'[c] = "end"
      BY <1>1, <2>3, Unheards DEF InsertSession
    <3>2. s = c \/ token'[s] = token[s] BY <1>1, <3>1
    <3> QED BY <1>1, <3>1, <3>2 DEF LoggedIn, Entering
  <2>4. ASSUME NEW c \in Calls,
               \/ ReadSession(c) \/ Rotate(c) \/ DeleteSession(c) \/ ClearResets(c)
               \/ InsertReset(c) \/ ReadReset(c) \/ SetPassword(c) \/ ClearSessions(c)
        PROVE  LoggedIn(s)
    <3>1. /\ op' = op /\ op[c].kind \notin {"login", "register"}
          /\ \A d \in Calls : d # c => pc'[d] = pc[d]
      BY <1>1, <2>4, Unheards DEF ReadSession, Rotate, DeleteSession,
         ClearResets, InsertReset, ReadReset, SetPassword, ClearSessions, Phases, Phase
    <3>2. token[s] = None => token'[s] = None
      BY <1>1, <2>4 DEF ReadSession, Rotate, DeleteSession,
         ClearResets, InsertReset, ReadReset, SetPassword, ClearSessions, tables
    <3> QED BY <3>1, <3>2 DEF LoggedIn, Entering
  <2>5. ASSUME NEW c \in Calls,
               \/ Fail(c) \/ ClearVerifs(c) \/ InsertVerif(c) \/ Mail(c) \/ ReadVerif(c)
               \/ MarkVerified(c) \/ Generate(c) \/ Validate(c)
               \/ ReadLink(c) \/ ReadByEmail(c) \/ InsertOAuthUser(c) \/ Link(c)
        PROVE  LoggedIn(s)
    <3>1. op' = op /\ token' = token
      BY <2>5 DEF Fail, ClearVerifs, InsertVerif, Mail, ReadVerif, MarkVerified, Generate, Validate,
         ReadLink, ReadByEmail, InsertOAuthUser, Link, tables
    <3>2. \A d \in Calls : d # c => pc'[d] = pc[d]
      BY <1>1, <2>5, Unheards DEF Fail, GiveUp, ClearVerifs, InsertVerif, Mail, ReadVerif, MarkVerified,
         Generate, Validate, ReadLink, ReadByEmail, InsertOAuthUser, Link
    <3>3. CASE \/ Fail(c) \/ ClearVerifs(c) \/ InsertVerif(c) \/ Mail(c)
      <4>1. Entering(c)' => Entering(c)
        BY <1>1, <3>1, <3>3, Unheards DEF Fail, GiveUp, ClearVerifs, InsertVerif, Mail, Entering, Phases, Phase
      <4> QED BY <3>1, <3>2, <4>1 DEF LoggedIn, Entering
    <3>4. CASE \/ ReadVerif(c) \/ MarkVerified(c) \/ Generate(c) \/ Validate(c)
               \/ ReadLink(c) \/ ReadByEmail(c) \/ InsertOAuthUser(c) \/ Link(c)
      <4>1. op[c].kind \notin {"login", "register"}
        BY <1>1, <3>4 DEF ReadVerif, MarkVerified, Generate, Validate, ReadLink, ReadByEmail,
           InsertOAuthUser, Link, Phases, Phase
      <4> QED BY <3>1, <3>2, <4>1 DEF LoggedIn, Entering
    <3> QED BY <2>5, <3>3, <3>4
  <2>6. ASSUME NEW c \in Calls, Exchange(c) PROVE LoggedIn(s)
    <3>1. /\ op[c].kind = "oauth" /\ op'[c].kind = "oauth" /\ token' = token
          /\ \A d \in Calls : d # c => op'[d] = op[d] /\ pc'[d] = pc[d]
      BY <1>1, <2>6, Reported DEF Exchange, Phases, Phase, tables
    <3> QED BY <3>1 DEF LoggedIn, Entering
  <2>7. ASSUME NEW c \in Calls, Arrive(c) PROVE LoggedIn(s)
    <3>1. token[c] = None BY <1>1, <2>7 DEF Arrive
    <3>2. UNCHANGED token /\ \A d \in Calls : d # c => op'[d] = op[d] /\ pc'[d] = pc[d]
      BY <1>1, <2>7, Arrived
    <3>3. PICK o \in Op : o.kind \in AllKinds /\ op' = [op EXCEPT ![c] = o] /\ pc' = [pc EXCEPT ![c] = First[o.kind]]
      BY <1>1, <2>7, Arrivals
    <3>4. op'[c].kind = o.kind /\ pc'[c] = First[o.kind] BY <1>1, <3>3
    <3>5. ~Entering(c)' BY <3>3, <3>4 DEF Entering, First
    <3> QED BY <3>1, <3>2, <3>5 DEF LoggedIn, Entering
  <2>8. CASE Lapse \/ UNCHANGED vars BY <2>8 DEF Lapse, callVars, vars, tables, LoggedIn, Entering
  <2>9. CASE Crash BY <1>1, <2>9 DEF Crash, Running, tables, LoggedIn, Entering
  <2> QED BY <2>1, <2>2, <2>3, <2>4, <2>5, <2>6, <2>7, <2>8, <2>9 DEF Next, Step
<1>3. CASE LoggedIn(s)
  <2>1. pc[s] # "idle" /\ op[s].kind # "oauth" BY <1>1, <1>3 DEF LoggedIn, Entering
  <2>2. token[s] # None => pc'[s] = "end" BY <1>1, Settled DEF Past
  <2>3. op'[s] = op[s] /\ Account(s)' = Account(s) BY <1>1, <2>1, AccountStays
  <2> QED BY <1>3, <2>2, <2>3 DEF LoggedIn, Entering
<1>4. CASE ~LoggedIn(s)
  <2>1. op' = op /\ found' = found /\ token' = token BY <1>2, <1>4
  <2> QED BY <1>2, <1>4, <2>1 DEF Account
<1> QED BY <1>3, <1>4

\* Who replaces the password of somebody who is logged in, remembers them.
LEMMA WhoReplaces ==
  ASSUME IInv, [Next]_vars, NEW s \in Calls, LoggedIn(s),
         password[Account(s)] # None, password'[Account(s)] # password[Account(s)]
  PROVE  \E d \in Calls :
           /\ op'[d].kind = "reset" /\ Account(d)' = Account(s)
           /\ pc'[d] = "clearResets" \/ (pc'[d] = "end" /\ answer'[d] = "unheard")
           /\ s \in late' \/ (token[s] # None /\ s \in old'[d]["sessions"])
<1>1. /\ TypeOK /\ Phases /\ op[s] \in Op /\ op[s].kind \in {"login", "register"}
      /\ answer \in [Calls -> {"none", "ok", "refused", "error", "unheard"}]
  BY DEF IInv, TypeOK, LoggedIn, Entering
<1>2. Account(s) \in Accounts BY <1>1 DEF Account, Op
<1>3. PICK d \in Calls : SetPassword(d) /\ Account(d) = Account(s)
  BY <1>1, <1>2, WhoChanges
<1>4. /\ pc[d] = "setPassword" /\ op' = op /\ found' = found
      /\ Goto(d, "clearResets") \/ Unheard(d)
      /\ Remember(d, "reset") /\ pc \in [Calls -> PCs] /\ old \in [Calls -> [Table -> SUBSET Calls]]
      /\ late' = late \cup {e \in Calls : Entering(e) /\ Account(e) = Account(d)}
  BY <1>1, <1>3 DEF SetPassword, TypeOK
<1>5. op[d].kind = "reset" BY <1>1, <1>4 DEF Phases, Phase
<1>6. pc'[d] = "clearResets" \/ (pc'[d] = "end" /\ answer'[d] = "unheard")
  BY <1>1, <1>4, <1>5, Unheards DEF Goto, Return
<1>7. "sessions" \in Table /\ "sessions" \in Clears["reset"] BY DEF Table, Clears
<1>8. old'[d]["sessions"] = Rows("sessions") BY <1>4, <1>7 DEF Remember
<1>9. Entering(s) => s \in late' BY <1>1, <1>3, <1>4
<1>10. token[s] # None => s \in old'[d]["sessions"] BY <1>8, RowsOf
<1>11. Account(d)' = Account(s) BY <1>3, <1>4 DEF Account
<1> QED BY <1>4, <1>5, <1>6, <1>9, <1>10, <1>11 DEF LoggedIn

\* A reset goes on owing a session until its DELETE.
LEMMA OwedStays ==
  ASSUME IInv, [Next]_vars, NEW s \in Calls, LoggedIn(s)', token[s] # None, Owed(s)
  PROVE  Owed(s)'
<1>1. /\ TypeOK /\ Phases /\ pc \in [Calls -> PCs] /\ token \in [Calls -> Calls \cup {None}]
      /\ answer \in [Calls -> {"none", "ok", "refused", "error", "unheard"}]
  BY DEF IInv, TypeOK
<1>2. PICK d \in Calls :
        /\ op[d].kind = "reset" /\ s \in old[d]["sessions"] /\ Account(d) = Account(s)
        /\ \/ pc[d] \in {"clearResets", "clearSessions"}
           \/ pc[d] = "end" /\ (answer[d] # "ok" \/ <<"sessions", d>> \in missed)
  BY DEF Owed
<1>3. /\ op'[d] = op[d] /\ Account(d)' = Account(d) /\ old'[d] = old[d]
      /\ pc[d] = "end" => pc'[d] = "end" /\ answer'[d] = answer[d]
  BY <1>1, <1>2, AccountStays, Settled DEF Past
<1>4. Account(s)' = Account(s) BY LogsIn
<1>5. CASE pc[d] = "end"
  <2>1. missed \subseteq missed' BY MissedStays
  <2> QED BY <1>2, <1>3, <1>4, <1>5, <2>1 DEF Owed
<1>6. CASE pc[d] \in {"clearResets", "clearSessions"}
  <2>1. \/ pc'[d] \in {"clearResets", "clearSessions"}
        \/ pc'[d] = "end" /\ (answer'[d] # "ok" \/ <<"sessions", d>> \in missed')
    <3> USE DEF Goto, Return, Unheard, GiveUp
    <3>1. ASSUME ClearSessions(d), token' = [e \in Calls |-> IF Account(e) = Account(d) THEN None ELSE token[e]]
          PROVE FALSE
      BY <1>1, <1>2, <3>1, LogsIn DEF ClearSessions
    <3>2. CASE ClearSessions(d) BY <1>1, <3>1, <3>2 DEF ClearSessions, Miss
    <3>3. CASE ClearResets(d) BY <1>1, <1>2, <3>3 DEF ClearResets
    <3>4. ASSUME NEW c \in Calls, c # d, pc'[d] # pc[d] PROVE ~(Arrive(c) \/ Step(c) \/ Fail(c))
      BY <1>1, <3>4, StepsMoveOne
    <3>5. CASE Crash BY <1>1, <1>6, <3>5 DEF Crash, Running
    <3>6. CASE Lapse \/ UNCHANGED vars BY <1>6, <3>6 DEF Lapse, callVars, vars
    <3>7. ASSUME Arrive(d) \/ Fail(d) \/ Step(d) PROVE ClearSessions(d) \/ ClearResets(d)
      BY <1>6, <3>7, StepsAt
    <3> QED BY <1>6, <3>2, <3>3, <3>4, <3>5, <3>6, <3>7 DEF Next
  <2> QED BY <1>2, <1>3, <1>4, <2>1 DEF Owed
<1> QED BY <1>2, <1>5, <1>6

\* Nobody stays logged in with a password that was replaced, but as PInv says.
LEMMA PInvKept == ASSUME IInv, PInv, [Next]_vars PROVE PInv'
<1> SUFFICES ASSUME NEW s \in Calls, LoggedIn(s)'
             PROVE  /\ Used(s)' # None
                    /\ Used(s)' # password'[Account(s)'] =>
                         s \in late' \/ (token'[s] # None /\ Owed(s)')
  BY DEF PInv
<1>1. /\ op'[s] = op[s] /\ Account(s)' = Account(s) /\ (token[s] # None => token'[s] # None)
      /\ LoggedIn(s) \/ (password'[Account(s)] = Used(s) /\ Used(s) # None)
      /\ Used(s)' = Used(s)
  BY LogsIn DEF Used
<1>2. CASE ~LoggedIn(s) BY <1>1, <1>2
<1>3. CASE LoggedIn(s)
  <2>1. Used(s) # None BY <1>3 DEF PInv
  <2>2. late \subseteq late' BY LateStays
  <2>3. CASE Used(s) # password[Account(s)]
    BY <1>1, <1>3, <2>1, <2>2, <2>3, OwedStays DEF PInv
  <2>4. CASE Used(s) = password[Account(s)] /\ password'[Account(s)] # password[Account(s)]
    <3>1. PICK d \in Calls :
            /\ op'[d].kind = "reset" /\ Account(d)' = Account(s)
            /\ pc'[d] = "clearResets" \/ (pc'[d] = "end" /\ answer'[d] = "unheard")
            /\ s \in late' \/ (token[s] # None /\ s \in old'[d]["sessions"])
      BY <1>3, <2>1, <2>4, WhoReplaces
    <3>2. CASE s \in late' BY <1>1, <2>1, <3>2
    <3>3. CASE s \in old'[d]["sessions"] /\ token[s] # None
      BY <1>1, <2>1, <3>1, <3>3 DEF Owed
    <3> QED BY <3>1, <3>2, <3>3
  <2>5. CASE Used(s) = password[Account(s)] /\ password'[Account(s)] = password[Account(s)]
    BY <1>1, <2>1, <2>5
  <2> QED BY <2>3, <2>4, <2>5
<1> QED BY <1>2, <1>3

\* A password that was replaced keeps no session open, but for logins, registrations
\* and resets that race, and resets that were cut short.
THEOREM OldPasswordsLeaveNoSession == Spec => []OldPasswordsKeepNoSession
<1>1. Init => PInv BY DEF Init, PInv, LoggedIn, Entering
<1>2. IInv /\ PInv /\ [Next]_vars => PInv' BY PInvKept
<1>3. IInv /\ PInv => OldPasswordsKeepNoSession
  <2> SUFFICES ASSUME IInv, PInv, NEW s \in Rows("sessions"),
                      op[s].kind \in {"login", "register"}, Used(s) # password[Account(s)],
                      s \notin late
               PROVE  \E d \in Calls : /\ op[d].kind = "reset" /\ s \in old[d]["sessions"]
                                       /\ answer[d] # "ok" \/ <<"sessions", d>> \in missed
    BY DEF OldPasswordsKeepNoSession, Used
  <2>1. Owed(s) BY RowsOf DEF PInv, LoggedIn
  <2> QED BY <2>1 DEF Owed, IInv, Phases
<1> QED BY <1>1, <1>2, <1>3, AuthInvariant, PTL DEF Spec

-----------------------------------------------------------------------------
(***************************************************************************)
(* Tokens that were lost.                                                  *)
(***************************************************************************)
\* How a token that a client holds may have been lost.
SessionOf(c) == IF op[c].kind = "refresh" THEN found[c] ELSE c
Refreshed(d, s) == Took(d, {"refresh"}) /\ found[d] = s
Raced(s) == \E d, e \in Calls :
              d # e /\ op[d].uses = op[e].uses /\ Refreshed(d, s) /\ Refreshed(e, s)
LoggedOut(t) == \E d \in Calls : Took(d, {"logout"}) /\ op[d].uses = t
UsedUp(t) == \E d \in Calls : Took(d, {"refresh", "logout"}) /\ op[d].uses = t
Reset(a) == \E d \in Calls : Took(d, {"reset"}) /\ Account(d) = a
Excused(c) == \/ UsedUp(c) \/ Reset(Account(c)) \/ Raced(SessionOf(c))
              \/ op[c].kind = "refresh" /\ LoggedOut(op[c].uses)

\* The token of a session is its own client's, told to the client or not.
Given == {c \in Calls : Took(c, {"register", "login", "refresh", "oauth"})}
Owner == \A s \in Calls : token[s] # None =>
           /\ token[s] \in Given /\ SessionOf(token[s]) = s /\ Account(token[s]) = Account(s)
ForOwner == \A c \in Calls : op[c].kind = "refresh" /\ pc[c] # "idle" =>
              Account(op[c].uses) = op[c].email

\* A refresh under way that finds another token in its session has been overtaken.
Overtaken(c) ==
  \/ Raced(found[c])
  \/ \E e \in Calls : Refreshed(e, found[c]) /\ op[e].uses = op[c].uses
  \/ token[found[c]] = None /\ (LoggedOut(op[c].uses) \/ Reset(op[c].email))
Overtakes ==
  \A c \in Calls : pc[c] = "rotate" =>
    /\ pc[found[c]] = "end" /\ Account(found[c]) = op[c].email
    /\ token[found[c]] # op[c].uses => Overtaken(c)

Keeps == \A c \in Calls : c \in Held =>
           /\ SessionOf(c) \in Calls /\ pc[SessionOf(c)] = "end"
           /\ token[SessionOf(c)] # c => Excused(c)
TInv == Owner /\ ForOwner /\ Overtakes /\ Keeps

\* What has been answered is not taken back.
LEMMA Remains ==
  ASSUME TypeOK, Phases, [Next]_vars
  PROVE  /\ \A c \in Calls : answer[c] \in {"ok", "unheard"} =>
              /\ answer'[c] = answer[c] /\ op'[c] = op[c] /\ found'[c] = found[c]
              /\ Account(c)' = Account(c) /\ SessionOf(c)' = SessionOf(c)
              /\ pc[c] = "end" /\ pc'[c] = "end"
         /\ \A s : Raced(s) => Raced(s)'
         /\ \A t : LoggedOut(t) => LoggedOut(t)'
         /\ \A t : UsedUp(t) => UsedUp(t)'
         /\ \A a : Reset(a) => Reset(a)'
         /\ \A s, t : (\E e \in Calls : Refreshed(e, s) /\ op[e].uses = t) =>
                      (\E e \in Calls : Refreshed(e, s)' /\ op'[e].uses = t)
<1>1. \A c \in Calls : answer[c] \in {"ok", "unheard"} =>
        /\ answer'[c] = answer[c] /\ op'[c] = op[c] /\ found'[c] = found[c]
        /\ Account(c)' = Account(c) /\ SessionOf(c)' = SessionOf(c)
        /\ pc[c] = "end" /\ pc'[c] = "end"
  <2> SUFFICES ASSUME NEW c \in Calls, answer[c] \in {"ok", "unheard"}
               PROVE  /\ answer'[c] = answer[c] /\ op'[c] = op[c] /\ found'[c] = found[c]
                      /\ Account(c)' = Account(c) /\ SessionOf(c)' = SessionOf(c)
                      /\ pc[c] = "end" /\ pc'[c] = "end"
    OBVIOUS
  <2>1. pc[c] = "end" BY DEF Phases
  <2>2. pc[c] \in Past("sessions") BY <2>1 DEF Past
  <2>3. answer'[c] = answer[c] /\ op'[c] = op[c] /\ found'[c] = found[c] /\ pc'[c] \in Past("sessions")
    BY <2>1, <2>2, Settled
  <2> QED BY <2>1, <2>3 DEF Account, SessionOf, Past
<1>2. /\ \A s : Raced(s) => Raced(s)'
      /\ \A s, t : (\E e \in Calls : Refreshed(e, s) /\ op[e].uses = t) =>
                   (\E e \in Calls : Refreshed(e, s)' /\ op'[e].uses = t)
  BY <1>1 DEF Raced, Refreshed, Took
<1>3. \A t : (LoggedOut(t) => LoggedOut(t)') /\ (UsedUp(t) => UsedUp(t)')
  BY <1>1 DEF LoggedOut, UsedUp, Took
<1>4. \A a : Reset(a) => Reset(a)' BY <1>1 DEF Reset, Took
<1> QED BY <1>1, <1>2, <1>3, <1>4

\* A token that was lost for a reason was lost for that reason ever after.
LEMMA ExcusedRemains ==
  ASSUME TypeOK, Phases, [Next]_vars, NEW c \in Calls, answer[c] = "ok", Excused(c)
  PROVE  Excused(c)'
BY Remains DEF Excused

\* A refresh that was overtaken stays so.
LEMMA OvertakenRemains ==
  ASSUME TypeOK, Phases, [Next]_vars, NEW c \in Calls, Overtaken(c), op'[c] = op[c], found'[c] = found[c],
         token[found[c]] = None => token'[found[c]] = None
  PROVE  Overtaken(c)'
BY Remains DEF Overtaken

\* A refresh goes on presenting the token of its account.
LEMMA ForOwnerKept ==
  ASSUME IInv, ForOwner, [Next]_vars PROVE ForOwner'
<1>1. TypeOK /\ Phases BY DEF IInv
<1>2. ASSUME NEW c \in Calls, pc[c] # "idle", op[c].kind = "refresh"
      PROVE  Account(op[c].uses)' = op'[c].email
  <2>1. op'[c] = op[c] BY <1>1, <1>2, OpStays
  <2>2. PICK u \in Calls : u = op[c].uses /\ pc[u] = "end" BY <1>2 DEF IInv, Presented
  <2>3. Account(u)' = Account(u) BY <1>1, <2>2, AccountStays
  <2>4. Account(u) = op[c].email BY <1>2, <2>2 DEF ForOwner
  <2> QED BY <2>1, <2>2, <2>3, <2>4 DEF Account
<1>3. ASSUME NEW c \in Calls, Arrive(c), op'[c].kind = "refresh"
      PROVE  Account(op[c].uses)' = op'[c].email
  <2>1. PICK o \in Op : Presentable(o) /\ op' = [op EXCEPT ![c] = o] BY <1>1, <1>3, Arrivals
  <2>2. op'[c] = o BY <1>1, <2>1 DEF TypeOK
  <2>3. o.uses \in Held /\ Account(o.uses) = o.email BY <1>3, <2>1, <2>2 DEF Presentable
  <2>4. PICK u \in Calls : u = o.uses /\ answer[u] = "ok" BY <2>3 DEF Held
  <2>5. Account(u)' = Account(u) BY <1>1, <2>4, Remains
  <2> QED BY <2>2, <2>3, <2>4, <2>5 DEF Account
<1>4. ASSUME NEW c \in Calls, op[c].kind # "refresh", pc[c] # "idle" PROVE op'[c].kind # "refresh"
  BY <1>1, <1>4, OpStays
<1>5. \A c \in Calls : pc[c] = "idle" /\ pc'[c] # "idle" => Arrive(c)
  BY <1>1, OnlyArrivalsBegin
<1> QED BY <1>2, <1>3, <1>4, <1>5 DEF ForOwner

\* Where the session of a call keeps its token, what is known of the call stays.
Owns(s) == token[s] # None =>
  token[s] \in Given /\ SessionOf(token[s]) = s /\ Account(token[s]) = Account(s)
Follows(c) ==
  /\ pc[found[c]] = "end" /\ Account(found[c]) = op[c].email
  /\ token[found[c]] # op[c].uses => Overtaken(c)
Keep(c) ==
  /\ SessionOf(c) \in Calls /\ pc[SessionOf(c)] = "end"
  /\ token[SessionOf(c)] # c => Excused(c)

\* The parts of the invariant, call by call.
LEMMA Unfold ==
  /\ Owner <=> \A s \in Calls : Owns(s)
  /\ Overtakes <=> \A c \in Calls : pc[c] = "rotate" => Follows(c)
  /\ Keeps <=> \A c \in Calls : c \in Held => Keep(c)
  /\ Owner' <=> \A s \in Calls : Owns(s)'
  /\ Overtakes' <=> \A c \in Calls : pc'[c] = "rotate" => Follows(c)'
  /\ Keeps' <=> \A c \in Calls : c \in Held' => Keep(c)'
BY DEF Owner, Overtakes, Keeps, Owns, Follows, Keep

\* What a client holds it goes on holding.
LEMMA HeldStays ==
  ASSUME TypeOK, Phases, [Next]_vars, NEW c \in Held
  PROVE  c \in Calls /\ c \in Held' /\ SessionOf(c)' = SessionOf(c) /\ Account(c)' = Account(c)
         /\ op'[c] = op[c] /\ answer[c] = "ok" /\ pc[c] = "end"
BY Remains DEF Held

\* And a token that was given stays that of its session.
LEMMA GivenStays ==
  ASSUME TypeOK, Phases, [Next]_vars, NEW c \in Given
  PROVE  c \in Given' /\ SessionOf(c)' = SessionOf(c) /\ Account(c)' = Account(c)
BY Remains DEF Given, Took

\* A call that has ended keeps its account.
LEMMA EndedStays ==
  ASSUME TypeOK, Phases, [Next]_vars, NEW s \in Calls, pc[s] = "end"
  PROVE  pc'[s] = "end" /\ Account(s)' = Account(s)
BY AccountStays, EndStays

\* A session that keeps its token keeps its owner.
LEMMA OwnsStays ==
  ASSUME IInv, TInv, [Next]_vars, NEW s \in Calls, token'[s] = token[s]
  PROVE  Owns(s)'
<1>1. TypeOK /\ Phases /\ Owns(s) BY Unfold DEF IInv, TInv
<1>2. CASE token[s] = None BY <1>2 DEF Owns
<1>3. CASE token[s] # None
  <2>1. pc[s] = "end" BY <1>3 DEF IInv, Issued
  <2>2. token[s] \in Given /\ SessionOf(token[s]) = s /\ Account(token[s]) = Account(s)
    BY <1>1, <1>3 DEF Owns
  <2> QED BY <1>1, <2>1, <2>2, GivenStays, EndedStays DEF Owns
<1> QED BY <1>2, <1>3

\* A refresh whose session keeps its token is where it was.
LEMMA FollowsStays ==
  ASSUME IInv, TInv, [Next]_vars, NEW c \in Calls, pc[c] = "rotate", pc'[c] = "rotate",
         token'[found[c]] = token[found[c]]
  PROVE  Follows(c)'
<1>1. TypeOK /\ Phases /\ Follows(c) BY Unfold DEF IInv, TInv
<1>2. op'[c] = op[c] /\ found'[c] = found[c] BY <1>1, RotateHolds
<1>3. PICK s \in Calls : s = found[c] BY <1>1 DEF TypeOK
<1>5. pc'[s] = "end" /\ Account(s)' = op[c].email
  BY <1>1, <1>3, EndedStays DEF Follows
<1>4. Overtaken(c) => Overtaken(c)' BY <1>1, <1>2, OvertakenRemains
<1>6. Account(found[c])' = Account(s)' BY <1>2, <1>3 DEF Account
<1> QED BY <1>1, <1>2, <1>3, <1>4, <1>5, <1>6 DEF Follows

\* So is a client whose token is left alone.
LEMMA KeepStays ==
  ASSUME IInv, TInv, [Next]_vars, NEW c \in Held,
         token'[SessionOf(c)] = token[SessionOf(c)] \/ token[SessionOf(c)] # c
  PROVE  Keep(c)'
<1>1. TypeOK /\ Phases /\ c \in Calls /\ Keep(c) BY Unfold DEF IInv, TInv, Held
<1>2. SessionOf(c)' = SessionOf(c) /\ answer[c] = "ok" BY <1>1, HeldStays
<1>3. pc'[SessionOf(c)] = "end" BY <1>1, EndedStays DEF Keep
<1>4. Excused(c) => Excused(c)' BY <1>1, <1>2, ExcusedRemains
<1> QED BY <1>1, <1>2, <1>3, <1>4 DEF Keep

\* Steps that leave tokens, answers and refreshes alone.
LEMMA OthersKeepTokens ==
  ASSUME IInv, TInv, [Next]_vars, token' = token, \A c \in Held' : c \in Held,
         \A c \in Calls : pc'[c] = "rotate" => pc[c] = "rotate"
  PROVE  Owner' /\ Overtakes' /\ Keeps'
BY Unfold, OwnsStays, FollowsStays, KeepStays

\* A refresh found its session by the token it presents.
LEMMA ReadKeepsTokens ==
  ASSUME IInv, TInv, NEW c \in Calls, ReadSession(c)
  PROVE  Owner' /\ Overtakes' /\ Keeps'
<1>1. /\ TypeOK /\ Phases /\ [Next]_vars /\ pc[c] = "readSession" /\ op' = op /\ token' = token
      /\ pc \in [Calls -> PCs] /\ answer \in [Calls -> {"none", "ok", "refused", "error", "unheard"}]
      /\ found \in [Calls -> Calls \cup Accounts \cup {None}]
  BY DEF IInv, TypeOK, Step, Next, ReadSession, tables
<1>2. CASE pc' = [pc EXCEPT ![c] = "end"] /\ answer' = [answer EXCEPT ![c] = "refused"]
  <2>1. (\A d \in Held' : d \in Held) /\ \A d \in Calls : pc'[d] = "rotate" => pc[d] = "rotate"
    BY <1>1, <1>2 DEF Held
  <2> QED BY <1>1, <2>1, OthersKeepTokens
<1>3. ASSUME NEW s \in Valid("sessions"), token[s] = op[c].uses,
             found' = [found EXCEPT ![c] = s], pc' = [pc EXCEPT ![c] = "rotate"], answer' = answer
      PROVE  Owner' /\ Overtakes' /\ Keeps'
  <2>1. s \in Calls /\ token[s] # None /\ op[c].kind = "refresh"
    BY <1>1, ValidSessions DEF Phases, Phase
  <2>2. pc[s] = "end" /\ Account(s) = Account(op[c].uses) /\ Account(op[c].uses) = op[c].email
    BY <1>1, <1>3, <2>1 DEF TInv, Owner, ForOwner, IInv, Issued
  <2>3. pc'[s] = "end" /\ Account(s)' = Account(s) BY <1>1, <2>1, <2>2, EndedStays
  <2>4. found'[c] = s BY <1>1, <1>3
  <2>5. Account(found[c])' = Account(s)' BY <2>4 DEF Account
  <2>6. Follows(c)' BY <1>1, <1>3, <2>2, <2>3, <2>4, <2>5 DEF Follows
  <2>7. \A d \in Held' : d \in Held BY <1>1, <1>3 DEF Held
  <2>8. \A d \in Calls : d # c => pc'[d] = pc[d] BY <1>1, <1>3
  <2> QED BY <1>1, <2>6, <2>7, <2>8, Unfold, OwnsStays, FollowsStays, KeepStays
<1> QED BY <1>2, <1>3 DEF ReadSession, Goto, Return, Unheard, GiveUp

\* A new session has the token of its call, which is about to be answered.
LEMMA InsertKeepsTokens ==
  ASSUME IInv, TInv, NEW c \in Calls, InsertSession(c)
  PROVE  Owner' /\ Overtakes' /\ Keeps'
<1>1. /\ TypeOK /\ Phases /\ [Next]_vars /\ pc[c] = "session" /\ op' = op
      /\ token' = [token EXCEPT ![c] = c] /\ pc' = [pc EXCEPT ![c] = "end"]
      /\ \E a \in {"ok", "unheard"} : answer' = [answer EXCEPT ![c] = a]
      /\ op[c].kind \in {"register", "login", "oauth"}
      /\ pc \in [Calls -> PCs] /\ answer \in [Calls -> {"none", "ok", "refused", "error", "unheard"}]
      /\ token \in [Calls -> Calls \cup {None}]
      /\ \A d \in Calls : pc[d] = "rotate" => found[d] \in Calls
  BY Unheards DEF IInv, TypeOK, Step, Next, InsertSession, Goto, Return, Phases, Phase
<1>2. c \in Given' /\ SessionOf(c)' = c /\ token'[c] = c /\ pc'[c] = "end"
      /\ \A d \in Held' : d # c => d \in Held
  BY <1>1 DEF Given, Took, Held, SessionOf
<1>3. Owns(c)' /\ Keep(c)' BY <1>1, <1>2 DEF Owns, Keep
<1>4. \A s \in Calls : s # c => token'[s] = token[s] BY <1>1
<1>5. \A d \in Calls : pc'[d] = "rotate" => pc[d] = "rotate" /\ found[d] # c /\ found[d] \in Calls
  BY <1>1, Unfold DEF TInv, Follows
<1>6. \A d \in Held : SessionOf(d) # c /\ SessionOf(d) \in Calls
  BY <1>1, Unfold DEF TInv, Keep, Held
<1> QED BY <1>1, <1>2, <1>3, <1>4, <1>5, <1>6, Unfold, OwnsStays, FollowsStays, KeepStays DEF Held

\* A refresh that writes its token uses the one before up, or overtakes it; one whose
\* session is gone gets a token that is lost at once.
LEMMA RotateKeepsTokens ==
  ASSUME IInv, TInv, NEW c \in Calls, Rotate(c)
  PROVE  Owner' /\ Overtakes' /\ Keeps'
<1>1. /\ TypeOK /\ Phases /\ [Next]_vars /\ pc[c] = "rotate" /\ op' = op /\ found' = found
      /\ pc' = [pc EXCEPT ![c] = "end"]
      /\ \E a \in {"ok", "unheard"} : answer' = [answer EXCEPT ![c] = a]
      /\ op[c].kind = "refresh" /\ answer[c] = "none"
      /\ pc \in [Calls -> PCs] /\ answer \in [Calls -> {"none", "ok", "refused", "error", "unheard"}]
      /\ token \in [Calls -> Calls \cup {None}]
      /\ \A d \in Calls : pc[d] = "rotate" => found[d] \in Calls
  BY Unheards DEF IInv, TypeOK, Step, Next, Rotate, Return, Phases, Phase
<1>2. PICK f \in Calls : f = found[c] BY <1>1
<1>3. Follows(c) BY <1>1, Unfold DEF TInv
<1>4. /\ c \in Given' /\ SessionOf(c)' = f /\ Refreshed(c, f)'
      /\ \A d \in Held' : d # c => d \in Held
  BY <1>1, <1>2 DEF Given, Took, Held, SessionOf, Refreshed
<1>5. pc'[f] = "end" /\ Account(f)' = Account(c)' /\ Account(c)' = Account(c)
  BY <1>1, <1>2, <1>3, EndedStays DEF Follows, Account
<1>6. \A d \in Calls : pc'[d] = "rotate" => pc[d] = "rotate" /\ d # c BY <1>1
\* Whoever has overtaken the refresh has raced it, or used its session up.
<1>7. token[f] # op[c].uses =>
        \/ Raced(f)'
        \/ token[f] = None /\ (LoggedOut(op[c].uses)' \/ Reset(op[c].email)')
  <2> SUFFICES ASSUME Overtaken(c)
               PROVE  \/ Raced(f)'
                      \/ token[f] = None /\ (LoggedOut(op[c].uses)' \/ Reset(op[c].email)')
    BY <1>2, <1>3 DEF Follows
  <2>1. CASE Raced(f) BY <1>1, <2>1, Remains
  <2>2. ASSUME NEW e \in Calls, Refreshed(e, f), op[e].uses = op[c].uses PROVE Raced(f)'
    <3>1. e # c /\ Refreshed(e, f)' BY <1>1, <2>2, Remains DEF Refreshed, Took
    <3> QED BY <1>1, <1>4, <2>2, <3>1 DEF Raced
  <2>3. CASE token[f] = None /\ LoggedOut(op[c].uses)
    <3>1. PICK u : u = op[c].uses OBVIOUS
    <3>2. LoggedOut(u)' BY <1>1, <2>3, <3>1, Remains
    <3> QED BY <1>1, <2>3, <3>1, <3>2 DEF LoggedOut
  <2>4. CASE token[f] = None /\ Reset(op[c].email)
    <3>1. PICK a : a = op[c].email OBVIOUS
    <3>2. Reset(a)' BY <1>1, <2>4, <3>1, Remains
    <3> QED BY <1>1, <2>4, <3>1, <3>2 DEF Reset
  <2> QED BY <1>2, <2>1, <2>2, <2>3, <2>4 DEF Overtaken
<1>8. CASE token[f] = None
  <2>1. token' = token BY <1>2, <1>8 DEF Rotate
  <2>2. op[c].uses \in Calls BY <1>1 DEF IInv, Presented
  <2>3. Raced(f)' \/ LoggedOut(op[c].uses)' \/ Reset(op[c].email)'
    BY <1>7, <1>8, <2>2, NoneIsNothing
  <2>4. Excused(c)'
    BY <1>1, <1>4, <2>3 DEF Excused, Account
  <2>5. Keep(c)' BY <1>4, <1>5, <2>4 DEF Keep
  <2> QED BY <1>1, <1>4, <1>6, <2>1, <2>5, Unfold, OwnsStays, FollowsStays, KeepStays
<1>9. CASE token[f] # None
  <2>1. token' = [token EXCEPT ![f] = c] BY <1>2, <1>9 DEF Rotate
  <2>2. token'[f] = c /\ \A s \in Calls : s # f => token'[s] = token[s] BY <1>1, <2>1
  <2>3. Owns(f)' BY <1>4, <1>5, <2>2 DEF Owns
  <2>4. Keep(c)' BY <1>4, <1>5, <2>2 DEF Keep
  <2>5. ASSUME NEW d \in Calls, d # c, pc[d] = "rotate", pc'[d] = "rotate", found[d] = f PROVE Follows(d)'
    <3>1. Follows(d) BY <2>5, Unfold DEF TInv
    <3>2. Account(f) = op[d].email BY <2>5, <3>1 DEF Follows
    <3>3. Account(found[d])' = op'[d].email
      BY <1>1, <1>2, <1>3, <1>5, <2>5, <3>2, EndedStays DEF Account, Follows
    <3>4. Raced(f)' \/ \E e \in Calls : Refreshed(e, f)' /\ op'[e].uses = op'[d].uses
      <4>1. CASE token[f] # op[c].uses BY <1>7, <1>9, <4>1
      <4>2. CASE token[f] = op[c].uses /\ op[c].uses = op[d].uses BY <1>1, <1>4, <4>2
      <4>3. CASE token[f] = op[c].uses /\ op[c].uses # op[d].uses
        <5>1. Overtaken(d) BY <2>5, <3>1, <4>3 DEF Follows
        <5>2. Raced(f) \/ \E e \in Calls : Refreshed(e, f) /\ op[e].uses = op[d].uses
          BY <1>9, <2>5, <5>1 DEF Overtaken
        <5>3. PICK t : t = op[d].uses OBVIOUS
        <5>4. (\E e \in Calls : Refreshed(e, f) /\ op[e].uses = t) =>
              (\E e \in Calls : Refreshed(e, f)' /\ op'[e].uses = t)
          <6>1. TypeOK /\ Phases /\ [Next]_vars BY <1>1
          <6> QED BY <6>1, Remains, Zenon
        <5>5. Raced(f) => Raced(f)' BY <1>1, Remains
        <5> QED BY <1>1, <5>2, <5>3, <5>4, <5>5
      <4> QED BY <4>1, <4>2, <4>3
    <3>5. Overtaken(d)' BY <1>1, <2>5, <3>4 DEF Overtaken
    <3> QED BY <1>1, <1>5, <2>5, <3>3, <3>5 DEF Follows
  <2>6. ASSUME NEW d \in Calls, pc'[d] = "rotate" PROVE Follows(d)'
    <3>1. d # c /\ pc[d] = "rotate" /\ found[d] \in Calls BY <1>1, <1>6, <2>6
    <3>2. CASE found[d] = f BY <2>5, <2>6, <3>1, <3>2
    <3>3. CASE found[d] # f BY <1>1, <2>2, <2>6, <3>1, <3>3, FollowsStays
    <3> QED BY <3>2, <3>3
  <2>7. ASSUME NEW d \in Held, d # c PROVE Keep(d)'
    <3>1. d \in Calls /\ Keep(d) /\ SessionOf(d) \in Calls BY Unfold DEF TInv, Held, Keep
    <3>2. CASE SessionOf(d) # f \/ token[f] # d
      BY <1>1, <2>2, <3>1, <3>2, KeepStays
    <3>3. CASE SessionOf(d) = f /\ token[f] = d
      <4>1. CASE op[c].uses = d
        <5>1. UsedUp(d)' BY <1>1, <1>4, <4>1 DEF UsedUp, Refreshed, Took
        <5> QED BY <1>1, <1>5, <3>3, <5>1, HeldStays DEF Keep, Excused
      <4>2. CASE op[c].uses # d
        <5>1. Raced(f)' BY <1>7, <1>9, <3>3, <4>2
        <5> QED BY <1>1, <1>5, <3>3, <5>1, HeldStays DEF Keep, Excused
      <4> QED BY <4>1, <4>2
    <3> QED BY <3>2, <3>3
  <2>8. \A s \in Calls : Owns(s)' BY <1>1, <2>2, <2>3, OwnsStays
  <2>9. \A d \in Calls : d \in Held' => Keep(d)' BY <1>4, <2>4, <2>7
  <2> QED BY <2>6, <2>8, <2>9, Unfold
<1> QED BY <1>8, <1>9

\* What takes tokens away, for a reason.
LEMMA RemovalKeepsTokens ==
  ASSUME IInv, TInv, [Next]_vars, op' = op, found' = found,
         \A s \in Calls : token'[s] = token[s] \/ token'[s] = None,
         \A d \in Held' : d \in Held,
         \A d \in Calls : pc'[d] = "rotate" => pc[d] = "rotate",
         \A s, t \in Calls : token'[s] # token[s] /\ token[s] = t => UsedUp(t)' \/ Reset(Account(s))',
         \A s, d \in Calls : token'[s] # token[s] /\ token[s] = op[d].uses =>
           LoggedOut(op[d].uses)' \/ Reset(Account(s))'
  PROVE  Owner' /\ Overtakes' /\ Keeps'
<1>1. TypeOK /\ Phases BY DEF IInv
<1>2. ASSUME NEW s \in Calls PROVE Owns(s)'
  <2>1. CASE token'[s] = token[s] BY <2>1, OwnsStays
  <2>2. CASE token'[s] = None BY <2>2 DEF Owns
  <2> QED BY <2>1, <2>2
<1>3. ASSUME NEW d \in Calls, pc'[d] = "rotate" PROVE Follows(d)'
  <2>1. PICK f \in Calls : f = found[d] BY <1>3 DEF IInv, TypeOK
  <2>2. CASE token'[f] = token[f] BY <1>3, <2>1, <2>2, FollowsStays
  <2>3. CASE token'[f] # token[f]
    <3>1. pc[d] = "rotate" /\ Follows(d) BY <1>3, Unfold DEF TInv
    <3>2. token'[f] = None /\ token[f] # None BY <2>3
    <3>3. pc'[f] = "end" /\ Account(f)' = Account(f) /\ Account(f) = op[d].email
      BY <1>1, <2>1, <3>1, EndedStays DEF Follows
    <3>4. Overtaken(d)'
      <4>1. CASE token[f] = op[d].uses
        <5>1. LoggedOut(op[d].uses)' \/ Reset(op[d].email)'
          BY <2>3, <3>3, <4>1 DEF Reset
        <5> QED BY <2>1, <3>2, <5>1 DEF Overtaken
      <4>2. CASE token[f] # op[d].uses
        <5>1. Overtaken(d) BY <2>1, <3>1, <4>2 DEF Follows
        <5> QED BY <1>1, <2>1, <3>2, <5>1, OvertakenRemains
      <4> QED BY <4>1, <4>2
    <3> QED BY <2>1, <3>3, <3>4 DEF Follows, Account
  <2> QED BY <2>2, <2>3
<1>4. ASSUME NEW d \in Held PROVE Keep(d)'
  <2>1. d \in Calls /\ Keep(d) BY Unfold DEF TInv, Held
  <2>2. PICK s \in Calls : s = SessionOf(d) BY <2>1 DEF Keep
  <2>3. CASE token'[s] = token[s] \/ token[s] # d BY <2>2, <2>3, KeepStays
  <2>4. CASE token'[s] # token[s] /\ token[s] = d
    <3>1. Owns(s) BY <2>4, Unfold DEF TInv
    <3>2. Account(d) = Account(s) BY <2>1, <2>4, <3>1, NoneIsNothing DEF Owns
    <3>3. UsedUp(d)' \/ Reset(Account(s))' BY <2>1, <2>4
    <3>4. Account(d)' = Account(s)' BY <3>2 DEF Account
    <3>6. Excused(d)' BY <3>3, <3>4 DEF Excused, Reset
    <3>5. pc[s] = "end" BY <2>1, <2>2 DEF Keep
    <3> QED BY <1>1, <2>1, <2>2, <3>5, <3>6, HeldStays, EndedStays DEF Keep
  <2> QED BY <2>3, <2>4
<1> QED BY <1>2, <1>3, <1>4, Unfold

\* A logout uses its token up, a reset cuts off the account.
LEMMA DeleteKeepsTokens ==
  ASSUME IInv, TInv, NEW c \in Calls, DeleteSession(c) \/ ClearSessions(c)
  PROVE  Owner' /\ Overtakes' /\ Keeps'
<1>1. /\ TypeOK /\ Phases /\ [Next]_vars /\ op' = op /\ found' = found
      /\ pc' = [pc EXCEPT ![c] = "end"]
      /\ \E a \in {"ok", "unheard"} : answer' = [answer EXCEPT ![c] = a]
      /\ op[c].kind = (IF DeleteSession(c) THEN "logout" ELSE "reset")
      /\ pc \in [Calls -> PCs] /\ answer \in [Calls -> {"none", "ok", "refused", "error", "unheard"}]
      /\ token \in [Calls -> Calls \cup {None}]
  BY Unheards DEF IInv, TypeOK, Step, Next, DeleteSession, ClearSessions, Return, Phases, Phase
<1>2. /\ \A d \in Held' : d \in Held
      /\ \A d \in Calls : pc'[d] = "rotate" => pc[d] = "rotate"
  BY <1>1 DEF Held
<1>3. CASE DeleteSession(c)
  <2>1. token' = [s \in Calls |-> IF token[s] = op[c].uses THEN None ELSE token[s]]
    BY <1>3 DEF DeleteSession
  <2>2. Took(c, {"logout", "refresh"})' /\ Took(c, {"logout"})'
    BY <1>1, <1>3 DEF Took
  <2>3. \A s, t \in Calls : token'[s] # token[s] /\ token[s] = t => UsedUp(t)'
    BY <1>1, <2>1, <2>2 DEF UsedUp, Took
  <2>4. \A s, d \in Calls : token'[s] # token[s] /\ token[s] = op[d].uses => LoggedOut(op[d].uses)'
    BY <1>1, <2>1, <2>2 DEF LoggedOut
  <2>5. \A s \in Calls : token'[s] = token[s] \/ token'[s] = None BY <1>1, <2>1
  <2> QED BY <1>1, <1>2, <2>3, <2>4, <2>5, RemovalKeepsTokens
<1>4. CASE ClearSessions(c) /\ ~DeleteSession(c)
  <2>1. \/ token' = token
        \/ token' = [s \in Calls |-> IF Account(s) = Account(c) THEN None ELSE token[s]]
    BY <1>4 DEF ClearSessions
  <2>2. Took(c, {"reset"})' BY <1>1, <1>4 DEF Took
  <2>3. \A s \in Calls : token'[s] # token[s] => Reset(Account(s))'
    BY <1>1, <2>1, <2>2 DEF Reset, Account
  <2>4. \A s \in Calls : token'[s] = token[s] \/ token'[s] = None BY <1>1, <2>1
  <2> QED BY <1>1, <1>2, <2>3, <2>4, RemovalKeepsTokens
<1> QED BY <1>3, <1>4

\* Every step keeps track of why tokens are lost.
LEMMA TInvKept == ASSUME IInv, TInv, [Next]_vars PROVE TInv'
<1> USE DEF Goto, Return, Unheard, GiveUp
<1>1. /\ TypeOK /\ Phases /\ pc \in [Calls -> PCs]
      /\ answer \in [Calls -> {"none", "ok", "refused", "error", "unheard"}]
  BY DEF IInv, TypeOK
<1>2. ASSUME NEW c \in Calls,
             \/ Fail(c) \/ InsertUser(c) \/ ReadUser(c)
             \/ ClearResets(c) \/ InsertReset(c) \/ ReadReset(c) \/ SetPassword(c)
      PROVE  /\ token' = token /\ \A d \in Held' : d \in Held
             /\ \A d \in Calls : pc'[d] = "rotate" => pc[d] = "rotate"
  BY <1>1, <1>2 DEF Fail, InsertUser, ReadUser, ClearResets, InsertReset, ReadReset, SetPassword,
     Held, tables, Phases, Phase
<1>3. ASSUME NEW c \in Calls,
             \/ ClearVerifs(c) \/ InsertVerif(c) \/ Mail(c) \/ ReadVerif(c) \/ MarkVerified(c)
             \/ Generate(c) \/ Validate(c)
             \/ ReadLink(c) \/ ReadByEmail(c) \/ InsertOAuthUser(c) \/ Link(c)
      PROVE  /\ token' = token /\ \A d \in Held' : d \in Held
             /\ \A d \in Calls : pc'[d] = "rotate" => pc[d] = "rotate"
  BY <1>1, <1>3 DEF ClearVerifs, InsertVerif, Mail, ReadVerif, MarkVerified, Generate, Validate,
     ReadLink, ReadByEmail, InsertOAuthUser, Link, Held, tables, Phases, Phase
<1>4. ASSUME NEW c \in Calls, Arrive(c) \/ Exchange(c)
      PROVE  /\ token' = token /\ \A d \in Held' : d \in Held
             /\ \A d \in Calls : pc'[d] = "rotate" => pc[d] = "rotate"
  <2>1. token' = token /\ answer' = answer /\ pc'[c] # "rotate" /\ pc[c] # "end"
        /\ \A d \in Calls : d # c => pc'[d] = pc[d] /\ op'[d] = op[d]
    <3>1. CASE Arrive(c) BY <1>1, <3>1, Arrived
    <3>2. CASE Exchange(c) BY <1>1, <3>2, Reported DEF Exchange, tables
    <3> QED BY <1>4, <3>1, <3>2
  <2>2. answer[c] # "ok" BY <1>1, <2>1 DEF Phases
  <2> QED BY <2>1, <2>2 DEF Held
<1>5. CASE Lapse \/ Crash \/ UNCHANGED vars
  <2>1. /\ token' = token /\ \A d \in Held' : d \in Held
        /\ \A d \in Calls : pc'[d] = "rotate" => pc[d] = "rotate"
    BY <1>1, <1>5 DEF Lapse, Crash, Running, vars, callVars, tables, Held
  <2> QED BY <2>1, OthersKeepTokens, ForOwnerKept DEF TInv
<1>6. ForOwner' BY ForOwnerKept DEF TInv
<1> QED BY <1>2, <1>3, <1>4, <1>5, <1>6, OthersKeepTokens, ReadKeepsTokens, InsertKeepsTokens,
          RotateKeepsTokens, DeleteKeepsTokens DEF Next, Step, TInv

\* A refresh token stays usable until a call uses it up, told to its client or not, but
\* in a session on which two calls raced with one token.
THEOREM TokensAreLostToRaces == Spec => []TokensLostToRacesOnly
<1>1. Init => TInv
  <2> SUFFICES ASSUME Init PROVE TInv OBVIOUS
  <2>1. Held = {} /\ \A c \in Calls : pc[c] = "idle" /\ token[c] = None BY DEF Init, Held
  <2> QED BY <2>1 DEF TInv, Owner, ForOwner, Overtakes, Keeps
<1>2. IInv /\ TInv /\ [Next]_vars => TInv' BY TInvKept
<1>3. TInv => TokensLostToRacesOnly
  <2> SUFFICES ASSUME TInv, NEW c \in Held, \A s \in Rows("sessions") : token[s] # c
               PROVE  \/ UsedUp(c) \/ Reset(Account(c)) \/ Raced(SessionOf(c))
                      \/ /\ op[c].kind = "refresh"
                         /\ \E d \in Calls \ {c} : Took(d, {"logout"}) /\ op[d].uses = op[c].uses
    BY DEF TokensLostToRacesOnly, UsedUp, Reset, Raced, Refreshed, SessionOf, Took
  <2>1. c \in Calls /\ SessionOf(c) \in Calls /\ (token[SessionOf(c)] # c => Excused(c))
    BY DEF TInv, Keeps, Held
  <2>2. token[SessionOf(c)] # c BY <2>1, RowsOf, NoneIsNothing
  <2>3. Excused(c) BY <2>1, <2>2
  <2> QED BY <2>3 DEF Excused, LoggedOut, Held, Took
<1> QED BY <1>1, <1>2, <1>3, AuthInvariant, PTL DEF Spec
=============================================================================
