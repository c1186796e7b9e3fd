------------------------------ MODULE AuthService ------------------------------
(***************************************************************************)
(* The auth service (internal/auth/auth.go, oauth.go): the accounts,       *)
(* sessions, password resets, email verifications and linked OAuth         *)
(* identities in the database, the OAuth states in memory, and the calls   *)
(* that read and write them.  No call uses a transaction, so every         *)
(* statement is a step of its own and calls interleave between any two.    *)
(*                                                                         *)
(* A random token, and a password, is named by the call that made or chose *)
(* it; a row of a table by the call that inserted it.  An account is named *)
(* by its email: the unique index admits one, and nothing deletes it.      *)
(* Hashes are one-to-one.  The access token, which no table knows, is not  *)
(* modelled.  Nobody registers under an OAuth placeholder address.         *)
(***************************************************************************)
EXTENDS Naturals, FiniteSets

CONSTANTS Calls,      \* the requests served
          Emails,
          Identities, \* users of an OAuth provider: provider and provider_user_id
          Kinds,      \* the kinds of call of this instance
          Faults,     \* what may fail: statements whose error is "checked", those whose
                      \* error is "dropped", and the process: "crash"
          MaxFaults,  \* bound: calls that fail, and DELETEs that fail unnoticed
          MaxLapses,  \* bound: rows whose expires_at passes
          None

AllKinds == {"register", "create", "login", "refresh", "logout",
             "forgot", "reset", "resend", "verify", "redirect", "oauth"}

\* The email of an account that an identity without one gets.
Placeholder(i) == <<"oauth.local", i>>
Accounts == Emails \cup {Placeholder(i) : i \in Identities}

ASSUME AuthAssumption ==
  /\ None \notin Calls
  /\ Kinds \subseteq AllKinds /\ Kinds # {} /\ Emails # {}
  /\ None \notin Accounts
  /\ Faults \subseteq {"checked", "dropped", "crash"} /\ MaxFaults \in Nat /\ MaxLapses \in Nat

\* What a call asks for: the email of the account, the call that made the token,
\* or chose the password, the client presents, and the identity it logs in with.
Op == [kind : Kinds, email : Accounts, uses : Calls \cup {None},
       ident : Identities \cup {None}]

VARIABLES
  pc,        \* the next statement of each call
  op,        \* what each call asks for (arbitrary before it arrives)
  found,     \* what a call has read: a refresh its session, an OAuth login its account
  answer,    \* "none" yet, "ok", "refused" or "error"; "unheard" if the call ended
             \* without success although its last statement took effect
  password,  \* each account's password, None if there is no account
  verified,  \* accounts whose email is verified
  token,     \* _ayb_sessions: the refresh token of each row, None if there is none
  resets,    \* _ayb_password_resets
  verifs,    \* _ayb_email_verifications
  links,     \* _ayb_oauth_accounts: the account of each identity, or None
  states,    \* OAuthStateStore: the states handed out and not presented
  lapsed,    \* rows, and states, whose time has passed
  mailed,    \* calls whose token was mailed to the account's address
  known,     \* history: refresh tokens that were ever in the table
  old,       \* history: of what a call clears, the rows there were when it began, or set
             \* the password
  missed,    \* history: tables and the calls whose DELETE from them failed unnoticed
  late,      \* history: logins that had checked the password, and registrations that
             \* had inserted it, when a reset replaced it
  unlinked   \* history: OAuth logins that found no link

callVars == <<pc, op, found, answer>>
oauth    == <<links, states, unlinked>>
tables   == <<password, verified, token, resets, verifs, lapsed>>
history  == <<old, missed, late>>
vars     == <<callVars, oauth, tables, mailed, known, history>>

\* Where a call of each kind begins.
First == [register |-> "insertUser",  create |-> "insertUser",  login  |-> "readUser",
          refresh  |-> "readSession", logout |-> "deleteSession",
          forgot   |-> "readUser",    reset  |-> "readReset",
          resend   |-> "clearVerifs", verify |-> "readVerif",
          redirect |-> "generate",    oauth  |-> "validate"]

PCs == {First[k] : k \in AllKinds} \cup
       {"idle", "rotate", "session", "clearResets", "insertReset", "setPassword",
        "clearSessions", "insertVerif", "mail", "markVerified",
        "exchange", "readLink", "readByEmail", "insertOAuthUser", "link", "end"}

Table == {"sessions", "resets", "verifs", "states"}
Rows(t) == CASE t = "sessions" -> {s \in Calls : token[s] # None}
             [] t = "resets"   -> resets
             [] t = "verifs"   -> verifs
             [] t = "states"   -> states

TypeOK ==
  /\ pc \in [Calls -> PCs]
  /\ op \in [Calls -> Op]
  /\ found \in [Calls -> Calls \cup Accounts \cup {None}]
  /\ \A c \in Calls : /\ pc[c] = "rotate" => found[c] \in Calls
                      /\ op[c].kind = "oauth" => found[c] \in Accounts \cup {None}
                      /\ pc[c] = "link" => found[c] # None
  /\ answer \in [Calls -> {"none", "ok", "refused", "error", "unheard"}]
  /\ password \in [Accounts -> Calls \cup {None}]
  /\ verified \subseteq Accounts
  /\ token \in [Calls -> Calls \cup {None}]
  /\ resets \subseteq Calls /\ verifs \subseteq Calls /\ states \subseteq Calls
  /\ links \in [Identities -> Accounts \cup {None}]
  /\ lapsed \subseteq Table \X Calls
  /\ mailed \subseteq Calls /\ known \subseteq Calls /\ unlinked \subseteq Calls
  /\ old \in [Calls -> [Table -> SUBSET Calls]]
  /\ missed \subseteq Table \X Calls /\ late \subseteq Calls

Init ==
  /\ pc = [c \in Calls |-> "idle"]
  /\ op = [c \in Calls |-> [kind |-> CHOOSE k \in Kinds : TRUE,
                            email |-> CHOOSE e \in Emails : TRUE, uses |-> None,
                            ident |-> None]]
  /\ found = [c \in Calls |-> None]
  /\ answer = [c \in Calls |-> "none"]
  /\ password = [a \in Accounts |-> None]
  /\ verified = {}
  /\ token = [c \in Calls |-> None]
  /\ resets = {} /\ verifs = {} /\ states = {} /\ lapsed = {}
  /\ links = [i \in Identities |-> None] /\ unlinked = {}
  /\ mailed = {} /\ known = {}
  /\ old = [c \in Calls |-> [t \in Table |-> {}]]
  /\ missed = {} /\ late = {}

-----------------------------------------------------------------------------
Goto(c, where) == pc' = [pc EXCEPT ![c] = where] /\ UNCHANGED answer
Return(c, a) == pc' = [pc EXCEPT ![c] = "end"] /\ answer' = [answer EXCEPT ![c] = a]

MayFail(fault) ==
  /\ fault \in Faults
  /\ Cardinality({c \in Calls : answer[c] \in {"error", "unheard"}}) + Cardinality(missed) < MaxFaults

\* The error of a statement is returned, except that Register only logs that of its
\* verification email, and handlePasswordReset answers 200 whatever happened.
GiveUp(c, a) ==
  \/ op[c].kind = "register" /\ pc[c] = "insertVerif" /\ Goto(c, "session")
  \/ op[c].kind = "forgot" /\ Return(c, "ok")
  \/ op[c].kind # "forgot" /\ ~(op[c].kind = "register" /\ pc[c] = "insertVerif") /\ Return(c, a)

\* A statement took effect, and the call or its client does not learn it: the
\* connection to PostgreSQL broke, the client left, which cancels the statement, or
\* the process died before it answered.
Unheard(c) == MayFail("checked") /\ GiveUp(c, "unheard")

\* What a call of each kind says it clears.
Clears == [register |-> {}, create |-> {}, login |-> {}, refresh |-> {}, logout |-> {},
           forgot |-> {"resets"}, reset |-> {"sessions", "resets"},
           resend |-> {"verifs"}, verify |-> {"verifs"}, redirect |-> {}, oauth |-> {}]
Remember(c, kind) ==
  old' = [old EXCEPT ![c] = [t \in Table |-> IF t \in Clears[kind] THEN Rows(t) ELSE {}]]

\* The account a call is about, and the rows of a table that belong to it.
Account(c) == IF op[c].kind = "oauth" THEN found[c] ELSE op[c].email
Owned(c, rows) == {r \in rows : Account(r) = Account(c)}

\* Rows that a SELECT with expires_at > NOW() returns.
Valid(t) == {r \in Rows(t) : <<t, r>> \notin lapsed}

\* What clients can know: the tokens of their answers and mails, and the
\* passwords they chose.
Held == {c \in Calls : answer[c] = "ok" /\ op[c].kind \in {"register", "login", "refresh", "oauth"}}
Chosen == {c \in Calls : pc[c] # "idle" /\ op[c].kind \in {"register", "create", "reset"}}
Mailed(kinds) == {c \in mailed : op[c].kind \in kinds}

Presentable(o) ==
  LET Uses(calls) == o.uses \in calls /\ Account(o.uses) = o.email
  IN /\ o.ident = None
     /\ o.kind \in {"register", "create", "login", "forgot", "redirect", "oauth"} => o.email \in Emails
     /\ CASE o.kind \in {"register", "create", "forgot", "redirect"} -> o.uses = None
          [] o.kind = "login" -> o.uses \in Chosen
          [] o.kind \in {"refresh", "logout", "resend"} -> Uses(Held)
          [] o.kind = "reset" -> Uses(Mailed({"forgot"}))
          [] o.kind = "verify" -> Uses(Mailed({"register", "resend"}))
          [] o.kind = "oauth" ->
               o.uses \in {c \in Calls : answer[c] = "ok" /\ op[c].kind = "redirect"}

\* A request arrives and its body is valid.
Arrive(c) ==
  /\ pc[c] = "idle"
  /\ \E o \in Op :
       /\ Presentable(o)
       /\ op' = [op EXCEPT ![c] = o]
       /\ Remember(c, o.kind)
       /\ Goto(c, First[o.kind])
  /\ UNCHANGED <<found, oauth, tables, mailed, known, missed, late>>

\* A row's expires_at passes.
Lapse ==
  /\ Cardinality(lapsed) < MaxLapses
  /\ \E t \in Table : \E r \in Valid(t) : lapsed' = lapsed \cup {<<t, r>>}
  /\ UNCHANGED <<callVars, oauth, password, verified, token, resets, verifs, mailed, known, history>>

-----------------------------------------------------------------------------
(***************************************************************************)
(* Register, CreateUser (ayb admin create), Login and createSession.       *)
(***************************************************************************)
\* Mutated InsertUser: an upsert.
InsertUserUpserts(c) ==
  /\ pc[c] = "insertUser"
  /\ password' = [password EXCEPT ![Account(c)] = c]
  /\ Goto(c, "clearVerifs")
  /\ UNCHANGED <<op, found, oauth, verified, token, resets, verifs, lapsed, mailed, known, history>>

InsertUser(c) ==
  /\ pc[c] = "insertUser"
  /\ \/ /\ password[Account(c)] = None
        /\ password' = [password EXCEPT ![Account(c)] = c]
        /\ \/ IF op[c].kind = "create" THEN Return(c, "ok") ELSE Goto(c, "clearVerifs")
           \/ Unheard(c)
     \/ /\ password[Account(c)] # None
        /\ Return(c, "refused")
        /\ UNCHANGED password
  /\ UNCHANGED <<op, found, oauth, verified, token, resets, verifs, lapsed, mailed, known, history>>

\* Login checks the password; RequestPasswordReset hides that there is no account.
ReadUser(c) ==
  /\ pc[c] = "readUser"
  /\ LET stored == password[Account(c)]
     IN \/ op[c].kind = "login" /\ stored # None /\ stored = op[c].uses /\ Goto(c, "session")
        \/ op[c].kind = "login" /\ stored # op[c].uses /\ Return(c, "refused")
        \/ op[c].kind = "forgot" /\ stored # None /\ Goto(c, "clearResets")
        \/ op[c].kind = "forgot" /\ stored = None /\ Return(c, "ok")
  /\ UNCHANGED <<op, found, oauth, tables, mailed, known, history>>

InsertSession(c) ==
  /\ pc[c] = "session"
  /\ token' = [token EXCEPT ![c] = c]
  /\ known' = known \cup {c}
  /\ Return(c, "ok") \/ Unheard(c)
  /\ UNCHANGED <<op, found, oauth, password, verified, resets, verifs, lapsed, mailed, history>>

-----------------------------------------------------------------------------
(***************************************************************************)
(* RefreshToken and Logout.                                                *)
(***************************************************************************)
\* The session of the token, and its user, whom nothing deletes.
ReadSession(c) ==
  /\ pc[c] = "readSession"
  /\ LET match == {s \in Valid("sessions") : token[s] = op[c].uses}
     IN \/ \E s \in match : found' = [found EXCEPT ![c] = s] /\ Goto(c, "rotate")
        \/ match = {} /\ Return(c, "refused") /\ UNCHANGED found
  /\ UNCHANGED <<op, oauth, tables, mailed, known, history>>

\* Mutated Rotate: the session is inserted again if it is gone.
RotateUpserts(c) ==
  /\ pc[c] = "rotate"
  /\ token' = [token EXCEPT ![found[c]] = c]
  /\ lapsed' = lapsed \ {<<"sessions", found[c]>>}
  /\ known' = known \cup {c}
  /\ Return(c, "ok")
  /\ UNCHANGED <<op, found, oauth, password, verified, resets, verifs, mailed, history>>

\* Mutated Rotate: the session is extended under the token presented.
RotateExtends(c) ==
  /\ pc[c] = "rotate"
  /\ IF token[found[c]] # None
     THEN /\ token' = [token EXCEPT ![found[c]] = op[c].uses]
          /\ lapsed' = lapsed \ {<<"sessions", found[c]>>}
     ELSE UNCHANGED <<token, lapsed>>
  /\ Return(c, "ok")
  /\ UNCHANGED <<op, found, oauth, password, verified, resets, verifs, mailed, known, history>>

\* UPDATE ... WHERE id = the session read before, which may be gone by now: no
\* row is updated then, and the call returns its new token all the same.
Rotate(c) ==
  /\ pc[c] = "rotate"
  /\ \/ /\ token[found[c]] # None
        /\ token' = [token EXCEPT ![found[c]] = c]
        /\ lapsed' = lapsed \ {<<"sessions", found[c]>>}
        /\ known' = known \cup {c}
     \/ /\ token[found[c]] = None
        /\ UNCHANGED <<token, lapsed, known>>
  /\ Return(c, "ok") \/ Unheard(c)
  /\ UNCHANGED <<op, found, oauth, password, verified, resets, verifs, mailed, history>>

\* Mutated DeleteSession: all sessions of the account.
DeleteSessionEverywhere(c) ==
  /\ pc[c] = "deleteSession"
  /\ token' = [s \in Calls |-> IF Account(s) = Account(c) THEN None ELSE token[s]]
  /\ Return(c, "ok")
  /\ UNCHANGED <<op, found, oauth, password, verified, resets, verifs, lapsed, mailed, known, history>>

\* DELETE ... WHERE token_hash: the session only while the token is its current one.
DeleteSession(c) ==
  /\ pc[c] = "deleteSession"
  /\ token' = [s \in Calls |-> IF token[s] = op[c].uses THEN None ELSE token[s]]
  /\ Return(c, "ok") \/ Unheard(c)
  /\ UNCHANGED <<op, found, oauth, password, verified, resets, verifs, lapsed, mailed, known, history>>

-----------------------------------------------------------------------------
(***************************************************************************)
(* RequestPasswordReset and ConfirmPasswordReset.                          *)
(***************************************************************************)
\* A DELETE whose error is dropped: it fails, and the call goes on.  One that has
\* nothing to delete makes no difference.
Miss(c, t) ==
  /\ MayFail("dropped") /\ Owned(c, Rows(t)) # {}
  /\ missed' = missed \cup {<<t, c>>}

ClearResets(c) ==
  /\ pc[c] = "clearResets"
  /\ \/ resets' = resets \ Owned(c, resets) /\ UNCHANGED missed
     \/ Miss(c, "resets") /\ UNCHANGED resets
  /\ Goto(c, IF op[c].kind = "forgot" THEN "insertReset" ELSE "clearSessions")
  /\ UNCHANGED <<op, found, oauth, password, verified, token, verifs, lapsed, mailed, known, old, late>>

InsertReset(c) ==
  /\ pc[c] = "insertReset"
  /\ resets' = resets \cup {c}
  /\ Goto(c, "mail") \/ Unheard(c)
  /\ UNCHANGED <<op, found, oauth, password, verified, token, verifs, lapsed, mailed, known, history>>

ReadReset(c) ==
  /\ pc[c] = "readReset"
  /\ IF op[c].uses \in Valid("resets") THEN Goto(c, "setPassword") ELSE Return(c, "refused")
  /\ UNCHANGED <<op, found, oauth, tables, mailed, known, history>>

\* Logins that have checked their password, and registrations that have inserted
\* theirs, and have no session yet.
Entering(d) ==
  \/ op[d].kind = "login" /\ pc[d] = "session"
  \/ op[d].kind = "register" /\ pc[d] \in {"clearVerifs", "insertVerif", "mail", "session"}

SetPassword(c) ==
  /\ pc[c] = "setPassword"
  /\ password' = [password EXCEPT ![Account(c)] = c]
  /\ Remember(c, "reset")
  /\ late' = late \cup {d \in Calls : Entering(d) /\ Account(d) = Account(c)}
  /\ Goto(c, "clearResets") \/ Unheard(c)
  /\ UNCHANGED <<op, found, oauth, verified, token, resets, verifs, lapsed, mailed, known, missed>>

\* Mutated ClearSessions: sessions that have expired are enough.
ClearSessionsLapsed(c) ==
  /\ pc[c] = "clearSessions"
  /\ token' = [s \in Calls |-> IF Account(s) = Account(c) /\ <<"sessions", s>> \in lapsed
                               THEN None ELSE token[s]]
  /\ Return(c, "ok")
  /\ UNCHANGED <<op, found, oauth, password, verified, resets, verifs, lapsed, mailed, known, history>>

ClearSessions(c) ==
  /\ pc[c] = "clearSessions"
  /\ \/ /\ token' = [s \in Calls |-> IF Account(s) = Account(c) THEN None ELSE token[s]]
        /\ UNCHANGED missed
        /\ Return(c, "ok") \/ Unheard(c)
     \/ Miss(c, "sessions") /\ UNCHANGED token /\ Return(c, "ok")
  /\ UNCHANGED <<op, found, oauth, password, verified, resets, verifs, lapsed, mailed, known, old, late>>

-----------------------------------------------------------------------------
(***************************************************************************)
(* SendVerificationEmail, within Register too, and ConfirmEmail.           *)
(***************************************************************************)
ClearVerifs(c) ==
  /\ pc[c] = "clearVerifs"
  /\ \/ verifs' = verifs \ Owned(c, verifs) /\ UNCHANGED missed
     \/ Miss(c, "verifs") /\ UNCHANGED verifs
  /\ \/ op[c].kind = "verify" /\ (Return(c, "ok") \/ Unheard(c))
     \/ op[c].kind # "verify" /\ Goto(c, "insertVerif")
  /\ UNCHANGED <<op, found, oauth, password, verified, token, resets, lapsed, mailed, known, old, late>>

InsertVerif(c) ==
  /\ pc[c] = "insertVerif"
  /\ verifs' = verifs \cup {c}
  /\ Goto(c, "mail") \/ Unheard(c)
  /\ UNCHANGED <<op, found, oauth, password, verified, token, resets, lapsed, mailed, known, history>>

\* The mail is sent or is not: a failure is only logged.  At a placeholder
\* address nobody reads it.
Mail(c) ==
  /\ pc[c] = "mail"
  /\ \/ Account(c) \in Emails /\ mailed' = mailed \cup {c}
     \/ UNCHANGED mailed
  /\ IF op[c].kind = "register" THEN Goto(c, "session") ELSE Return(c, "ok")
  /\ UNCHANGED <<op, found, oauth, tables, known, history>>

ReadVerif(c) ==
  /\ pc[c] = "readVerif"
  /\ IF op[c].uses \in Valid("verifs") THEN Goto(c, "markVerified") ELSE Return(c, "refused")
  /\ UNCHANGED <<op, found, oauth, tables, mailed, known, history>>

MarkVerified(c) ==
  /\ pc[c] = "markVerified"
  /\ verified' = verified \cup {Account(c)}
  /\ Goto(c, "clearVerifs") \/ Unheard(c)
  /\ UNCHANGED <<op, found, oauth, password, token, resets, verifs, lapsed, mailed, known, history>>

-----------------------------------------------------------------------------
(***************************************************************************)
(* The OAuth handlers, the state store and OAuthLogin.                     *)
(***************************************************************************)
\* handleOAuthRedirect: a new state; those whose time has passed are pruned.
Generate(c) ==
  /\ pc[c] = "generate"
  /\ states' = Valid("states") \cup {c}
  /\ Return(c, "ok")
  /\ UNCHANGED <<op, found, links, unlinked, tables, mailed, known, history>>

\* Mutated Validate: the state is not consumed.
ValidateKeeps(c) ==
  /\ pc[c] = "validate"
  /\ IF op[c].uses \in Valid("states") THEN Goto(c, "exchange") ELSE Return(c, "refused")
  /\ UNCHANGED <<op, found, oauth, tables, mailed, known, history>>

Validate(c) ==
  /\ pc[c] = "validate"
  /\ states' = states \ {op[c].uses}
  /\ IF op[c].uses \in Valid("states") THEN Goto(c, "exchange") ELSE Return(c, "refused")
  /\ UNCHANGED <<op, found, links, unlinked, tables, mailed, known, history>>

\* The provider tells who it is, and an email or none: of an identity that has one
\* too, when the request for its addresses fails.
Exchange(c) ==
  /\ pc[c] = "exchange"
  /\ \E i \in Identities : \E e \in Emails \cup {Placeholder(i)} :
       op' = [op EXCEPT ![c].ident = i, ![c].email = e]
  /\ Goto(c, "readLink")
  /\ UNCHANGED <<found, oauth, tables, mailed, known, history>>

\* Mutated ReadLink: the link is looked up with the email reported now.
ReadLinkByEmail(c) ==
  /\ pc[c] = "readLink"
  /\ LET linked == links[op[c].ident]
     IN IF linked = op[c].email
        THEN /\ found' = [found EXCEPT ![c] = linked]
             /\ Goto(c, "session")
             /\ UNCHANGED unlinked
        ELSE /\ unlinked' = IF linked = None THEN unlinked \cup {c} ELSE unlinked
             /\ Goto(c, IF op[c].email \in Emails THEN "readByEmail" ELSE "insertOAuthUser")
             /\ UNCHANGED found
  /\ UNCHANGED <<op, links, states, tables, mailed, known, history>>

\* "Existing link - login as that user", whom nothing deletes.
ReadLink(c) ==
  /\ pc[c] = "readLink"
  /\ LET linked == links[op[c].ident]
     IN \/ /\ linked # None
           /\ found' = [found EXCEPT ![c] = linked]
           /\ Goto(c, "session")
           /\ UNCHANGED unlinked
        \/ /\ linked = None
           /\ unlinked' = unlinked \cup {c}
           /\ Goto(c, IF op[c].email \in Emails THEN "readByEmail" ELSE "insertOAuthUser")
           /\ UNCHANGED found
  /\ UNCHANGED <<op, links, states, tables, mailed, known, history>>

ReadByEmail(c) ==
  /\ pc[c] = "readByEmail"
  /\ \/ /\ password[op[c].email] # None
        /\ found' = [found EXCEPT ![c] = op[c].email]
        /\ Goto(c, "link")
     \/ /\ password[op[c].email] = None
        /\ Goto(c, "insertOAuthUser")
        /\ UNCHANGED found
  /\ UNCHANGED <<op, oauth, tables, mailed, known, history>>

\* A new account with a password that nobody knows; if there is one by now, the
\* INSERT conflicts and the account there is, is read instead.
InsertOAuthUser(c) ==
  /\ pc[c] = "insertOAuthUser"
  /\ found' = [found EXCEPT ![c] = op[c].email]
  /\ password' = [password EXCEPT ![op[c].email] = IF @ = None THEN c ELSE @]
  /\ Goto(c, "link") \/ Unheard(c)
  /\ UNCHANGED <<op, oauth, verified, token, resets, verifs, lapsed, mailed, known, history>>

\* ON CONFLICT DO NOTHING: the login goes on as the account it has found.
Link(c) ==
  /\ pc[c] = "link"
  /\ links' = [links EXCEPT ![op[c].ident] = IF @ = None THEN found[c] ELSE @]
  /\ Goto(c, "session") \/ Unheard(c)
  /\ UNCHANGED <<op, found, states, unlinked, tables, mailed, known, history>>

\* A statement whose error is looked at fails, and changes nothing.
Fail(c) ==
  /\ MayFail("checked")
  /\ pc[c] \notin {"idle", "clearResets", "clearSessions", "clearVerifs", "mail",
                   "generate", "validate", "end"}
  /\ GiveUp(c, "error")
  /\ UNCHANGED <<op, found, oauth, tables, mailed, known, history>>

\* The process dies and is started again: the tables stay, the calls it was
\* serving end where they are, and nobody can present a state of before.
Running(c) == pc[c] \notin {"idle", "end"}
Crash ==
  /\ MayFail("crash")
  /\ \E c \in Calls : Running(c)
  /\ pc' = [c \in Calls |-> IF Running(c) THEN "end" ELSE pc[c]]
  /\ answer' = [c \in Calls |-> IF Running(c) THEN "error" ELSE answer[c]]
  /\ states' = {}
  /\ UNCHANGED <<op, found, links, unlinked, tables, mailed, known, history>>

-----------------------------------------------------------------------------
Step(c) ==
  \/ InsertUser(c) \/ ReadUser(c) \/ InsertSession(c)
  \/ ReadSession(c) \/ Rotate(c) \/ DeleteSession(c)
  \/ ClearResets(c) \/ InsertReset(c) \/ ReadReset(c) \/ SetPassword(c) \/ ClearSessions(c)
  \/ ClearVerifs(c) \/ InsertVerif(c) \/ Mail(c) \/ ReadVerif(c) \/ MarkVerified(c)
  \/ Generate(c) \/ Validate(c) \/ Exchange(c)
  \/ ReadLink(c) \/ ReadByEmail(c) \/ InsertOAuthUser(c) \/ Link(c)

Next == Lapse \/ Crash \/ \E c \in Calls : Arrive(c) \/ Step(c) \/ Fail(c)

Spec == Init /\ [][Next]_vars

-----------------------------------------------------------------------------
(***************************************************************************)
(* Properties.                                                             *)
(***************************************************************************)
Served(c, kinds) == answer[c] = "ok" /\ op[c].kind \in kinds

\* Calls of which a write is in the tables, told to their client or not.
Took(c, kinds) == answer[c] \in {"ok", "unheard"} /\ op[c].kind \in kinds

\* Refresh tokens live once: however logins, refreshes, logouts, resets and
\* expiry interleave, a refresh replaces at most one accepted token by its own,
\* and a token that was replaced, revoked or has expired never comes back.
Ledger == INSTANCE TokenLedger WITH
  Tokens <- Calls, accepted <- {token[s] : s \in Valid("sessions")}
IsTokenLedger == Ledger!LedgerSpec

\* A refresh token that was refreshed or logged out, with success or by a statement
\* whose answer was lost, is refused from then on, whatever else was done with it
\* at the same time.
UsedTokensRefused ==
  \A c \in Calls : Took(c, {"refresh", "logout"}) =>
    \A s \in Rows("sessions") : token[s] # op[c].uses

\* A refresh token that a client was given stays usable until a call uses it up -
\* refreshes it, logs out with it, or resets the account's password - also a call
\* that was cut off after its UPDATE or DELETE and answered with an error, or not at
\* all: its client is then logged out without a new token.  The one exception is a
\* session on which two calls presented the same token, both reading it before
\* either wrote: the row keeps the token of one refresh, or goes with a logout, and
\* the client of the other refresh is logged out.
TokensLostToRacesOnly ==
  LET Session(c) == IF op[c].kind = "refresh" THEN found[c] ELSE c
      Raced(s) == \E d, e \in Calls :
                    /\ d # e /\ op[d].uses = op[e].uses
                    /\ \A f \in {d, e} : Took(f, {"refresh"}) /\ found[f] = s
      UsedUp(t) == \E d \in Calls : Took(d, {"refresh", "logout"}) /\ op[d].uses = t
      Cut(c) == \E d \in Calls : Took(d, {"reset"}) /\ Account(d) = Account(c)
      Gone(c) == \A s \in Rows("sessions") : token[s] # c
  IN \A c \in Held : Gone(c) => UsedUp(c) \/ Cut(c) \/ Raced(Session(c))
                                \/ (op[c].kind = "refresh" /\ \E d \in Calls \ {c} :
                                      Took(d, {"logout"}) /\ op[d].uses = op[c].uses)

\* A password that was replaced keeps no session open, neither of a login with it nor
\* of the registration that chose it, except for a login that had checked it before
\* the reset, or a registration that had inserted it (its account is there, with a
\* session still to come), and that inserted its session after the reset's DELETE;
\* and for a reset that did not get to that DELETE, was not heard to, or whose
\* DELETE failed.
OldPasswordsKeepNoSession ==
  LET Used(s) == IF op[s].kind = "login" THEN op[s].uses ELSE s
  IN \A s \in Rows("sessions") :
       op[s].kind \in {"login", "register"} /\ Used(s) # password[Account(s)] =>
         \/ s \in late
         \/ \E d \in Calls : /\ op[d].kind = "reset" /\ s \in old[d]["sessions"]
                             /\ answer[d] # "ok" \/ <<"sessions", d>> \in missed

\* What a call says it has cleared stays cleared: after a password reset none
\* of the account's sessions and reset tokens that were there when the password
\* was set, with a new reset token in the mail no older one, and likewise for
\* verification tokens (auth.go: "Invalidate all existing sessions (force
\* re-login)", "Delete any existing reset tokens for this user" and its like) -
\* unless the DELETE failed, which the call does not say.
ClearedIsGone ==
  \A c \in Calls :
    LET Gone(t) == <<t, c>> \in missed \/ Owned(c, old[c][t]) \cap Rows(t) = {}
    IN /\ Served(c, {"reset"}) => Gone("sessions")
       /\ Served(c, {"reset"}) \/ c \in Mailed({"forgot"}) => Gone("resets")
       /\ Served(c, {"verify"}) \/ c \in Mailed({"resend"}) => Gone("verifs")

\* Only who reads the account's mail changes an existing password or verifies
\* an address: each such step belongs to a call that presents a token mailed to
\* that address, never to a registration that races with another one.
MailProvesOwnership ==
  [][\A e \in Accounts :
       LET Proves(c, kinds) == op[c].uses \in Mailed(kinds) /\ Account(op[c].uses) = e
       IN /\ password[e] # None /\ password'[e] # password[e] =>
               \E c \in Calls : pc[c] = "setPassword" /\ Proves(c, {"forgot"})
          /\ e \in verified' \ verified =>
               \E c \in Calls : pc[c] = "markVerified" /\ Proves(c, {"register", "resend"})]_vars

\* An OAuth identity keeps its account, whatever email its provider reports from
\* time to time and whoever registers that email meanwhile.  The one exception are
\* first logins that race and are told different emails: the link that is stored
\* first stays, and the other login ends at the account of its own email.
IdentityKeepsAccount ==
  [][/\ \A i \in Identities : links[i] # None => links'[i] = links[i]
     /\ \A c \in Calls : answer[c] # answer'[c] /\ answer'[c] = "ok" /\ op[c].kind = "oauth" =>
          LET linked == links[op[c].ident]
          IN /\ linked # None
             /\ Account(c) = linked \/ (c \in unlinked /\ linked # op[c].email)]_vars

\* A state lets one callback in: two logins never rest on the same redirect, also
\* when callbacks with one state race (oauth.go: "one-time use").
StateUsedOnce ==
  \A c, d \in Calls :
    c # d /\ Served(c, {"oauth"}) /\ Served(d, {"oauth"}) => op[c].uses # op[d].uses

=============================================================================
