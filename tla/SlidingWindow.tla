---------------------------- MODULE SlidingWindow ----------------------------
(***************************************************************************)
(* What the rate limiter promises (internal/auth/ratelimit.go): an address *)
(* is let in exactly when fewer than Limit of its requests were let in     *)
(* during the last Window, judged by a limiter that never forgets.         *)
(***************************************************************************)
EXTENDS Integers, Sequences, FiniteSets

CONSTANTS IPs, Limit, Window

VARIABLES now,      \* the clock
          granted,  \* of each address, when its requests were let in
          refused   \* of each address, when a request was turned away last, or -1

Recent(ip) == {i \in DOMAIN granted[ip] : granted[ip][i] > now - Window}

WindowInit ==
  /\ now = 0
  /\ granted = [ip \in IPs |-> <<>>]
  /\ refused = [ip \in IPs |-> -1]

LetIn(ip) ==
  /\ Cardinality(Recent(ip)) < Limit
  /\ granted' = [granted EXCEPT ![ip] = Append(@, now)]
  /\ UNCHANGED <<now, refused>>

TurnAway(ip) ==
  /\ Cardinality(Recent(ip)) >= Limit
  /\ refused' = [refused EXCEPT ![ip] = now]
  /\ UNCHANGED <<now, granted>>

TimePasses == now' \in Nat /\ now' > now /\ UNCHANGED <<granted, refused>>

WindowNext == TimePasses \/ \E ip \in IPs : LetIn(ip) \/ TurnAway(ip)

WindowSpec == WindowInit /\ [][WindowNext]_<<now, granted, refused>>
=============================================================================
