------------------------------ MODULE TokenLedger ------------------------------
(***************************************************************************)
(* What the auth service promises about refresh tokens, without its tables *)
(* and statements: a token is accepted from the moment it is issued until  *)
(* it is replaced, revoked or expires, and never again after that.         *)
(***************************************************************************)
CONSTANT Tokens

VARIABLES accepted,  \* tokens that are accepted now
          known      \* tokens that were ever accepted

LedgerInit == accepted = {} /\ known = {}

\* A login, or a refresh that began before its session expired.
Issue(t) ==
  /\ t \notin known
  /\ accepted' = accepted \cup {t}
  /\ known' = known \cup {t}

\* A refresh.
Replace(t, u) ==
  /\ t \in accepted /\ u \notin known
  /\ accepted' = (accepted \ {t}) \cup {u}
  /\ known' = known \cup {u}

\* A logout, a password reset or the passing of time.
Revoke ==
  /\ accepted' \subseteq accepted
  /\ UNCHANGED known

LedgerNext ==
  \/ \E t \in Tokens : Issue(t) \/ \E u \in Tokens : Replace(t, u)
  \/ Revoke

LedgerSpec == LedgerInit /\ [][LedgerNext]_<<accepted, known>>
=============================================================================
