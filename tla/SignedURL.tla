----------------------------- MODULE SignedURL -----------------------------
(***************************************************************************)
(* Signed URLs: how long one lives (handleSign in                          *)
(* internal/storage/handler.go) and when it is honoured (SignURL and       *)
(* ValidateSignedURL in internal/storage/storage.go).                      *)
(*                                                                         *)
(* Durations and instants are counted in nanoseconds, Second of them in a  *)
(* second; the signature itself is taken to be unforgeable.                *)
(***************************************************************************)
EXTENDS MachineInts

CONSTANTS Second,  \* nanoseconds
          Hour,    \* the default, in seconds
          Week     \* the most that is granted, in seconds

VARIABLE signing  \* a request: the instant, and the lifetime asked for in seconds

ASSUME DurationsAssumption == Second \in Nat \ {0} /\ Week \in Nat /\ Hour \in 1..Week

\* A week of nanoseconds fits the width, as 7 * 24 * 3600 * 10^9 fits 64 bits.
ASSUME WidthAssumption == Week * Second <= MaxInt

\* Mutated Lifetime: the limit is checked before the default is put in.
Unlimited(expiresIn) ==
  LET expiry == Wrap(expiresIn * Second)
  IN IF expiry <= 0 THEN Hour * Second ELSE expiry

\* The lifetime of the URL, or -1 when the request is refused.
Lifetime(expiresIn) ==
  LET expiry == Wrap(expiresIn * Second)
  IN CASE expiry <= 0            -> Hour * Second
       [] expiry > Week * Second -> -1
       [] OTHER                  -> expiry

\* The second at which a URL signed at an instant runs out.
Expiration(signed, expiresIn) == (signed + Lifetime(expiresIn)) \div Second

\* Mutated Honoured: the second it names is the first one without it.
HonouredBefore(at, exp) == at \div Second < exp
Honoured(at, exp) == at \div Second <= exp

Signings == [signed : Nat, expiresIn : Int]

(***************************************************************************)
(* A signed URL is honoured as long as was asked for, and at most one      *)
(* second longer; nothing asked for counts as an hour, and a request past  *)
(* the longest lifetime gets no URL - unless its nanoseconds wrapped, when *)
(* it gets one of another lifetime, no longer than the longest             *)
(* (handleSign, SignURL, ValidateSignedURL).                               *)
(***************************************************************************)
URLLivesAsAsked ==
  LET asked == IF signing.expiresIn <= 0 THEN Hour ELSE signing.expiresIn
      wraps == Wrap(signing.expiresIn * Second) # signing.expiresIn * Second
      granted == Lifetime(signing.expiresIn) >= 0
      Lives(s) == Honoured(signing.signed + s * Second, Expiration(signing.signed, signing.expiresIn))
  IN /\ ~wraps => (granted <=> asked <= Week)
     /\ ~wraps /\ granted => Lives(asked) /\ ~Lives(asked + 1)
     /\ granted => ~Lives(Week + 1)
=============================================================================
