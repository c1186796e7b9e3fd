----------------------------- MODULE RateLimiter -----------------------------
(***************************************************************************)
(* The rate limiter of the auth routes (internal/auth/ratelimit.go, made   *)
(* by server.New): per address, the times of the requests it let in during *)
(* the last window, and a goroutine that forgets addresses that no longer  *)
(* ask.  Allow and a pass of the goroutine hold the mutex from their       *)
(* reading of the clock to their end, so each is one step; the clock is    *)
(* the monotonic one and jumps ahead by any amount between two steps.      *)
(*                                                                         *)
(* A time stamp is named by the number of the request that left it: the    *)
(* i-th of its address to be let in, at granted[ip][i].                    *)
(***************************************************************************)
EXTENDS Integers, Sequences, FiniteSets

CONSTANTS IPs,      \* client addresses, as clientIP tells them
          Limit,    \* requests let in per window
          Window,
          MaxTime   \* bound: the last time the clock shows

ASSUME LimiterAssumption ==
  /\ Limit \in Nat \ {0} /\ Window \in Nat \ {0} /\ MaxTime \in Nat

VARIABLES
  now,
  visitors,  \* addresses with an entry in the map
  stamps,    \* the time stamps of an entry
  tick,      \* when the goroutine's ticker fires next
  stopped,   \* whether Stop was called
  cleaning,  \* whether the goroutine runs
  granted,   \* history: of each address, when its requests were let in
  refused    \* history: of each address, when one was turned away last, or -1

vars == <<now, visitors, stamps, tick, stopped, cleaning, granted, refused>>

TypeOK ==
  /\ now \in Nat
  /\ visitors \subseteq IPs
  /\ granted \in [IPs -> Seq(Nat)]
  /\ stamps \in [IPs -> SUBSET Nat]
  /\ \A ip \in IPs : /\ stamps[ip] \subseteq DOMAIN granted[ip]
                     /\ ip \notin visitors => stamps[ip] = {}
  /\ tick \in Nat
  /\ stopped \in BOOLEAN /\ cleaning \in BOOLEAN
  /\ refused \in [IPs -> Nat \cup {-1}]

\* NewRateLimiter.
Init ==
  /\ now = 0
  /\ visitors = {} /\ stamps = [ip \in IPs |-> {}]
  /\ tick = Window /\ stopped = FALSE /\ cleaning = TRUE
  /\ granted = [ip \in IPs |-> <<>>]
  /\ refused = [ip \in IPs |-> -1]

Advance ==
  /\ now' \in (now + 1)..MaxTime
  /\ UNCHANGED <<visitors, stamps, tick, stopped, cleaning, granted, refused>>

\* Mutated Valid: a request made exactly one window ago still counts.
ValidWithBoundary(ip) == {i \in stamps[ip] : granted[ip][i] >= now - Window}

\* pruneTimestamps: what is left of an entry, the stamps After the cutoff.
Valid(ip) == {i \in stamps[ip] : granted[ip][i] > now - Window}

\* Mutated Allow: the limit itself does not refuse.
AllowOneMore(ip) ==
  /\ visitors' = visitors \cup {ip}
  /\ IF Cardinality(Valid(ip)) > Limit
     THEN /\ stamps' = [stamps EXCEPT ![ip] = Valid(ip)]
          /\ refused' = [refused EXCEPT ![ip] = now]
          /\ UNCHANGED granted
     ELSE /\ stamps' = [stamps EXCEPT ![ip] = Valid(ip) \cup {Len(granted[ip]) + 1}]
          /\ granted' = [granted EXCEPT ![ip] = Append(@, now)]
          /\ UNCHANGED refused
  /\ UNCHANGED <<now, tick, stopped, cleaning>>

\* A request, through Middleware: refused with 429, and then it leaves no stamp.
Allow(ip) ==
  /\ visitors' = visitors \cup {ip}
  /\ IF Cardinality(Valid(ip)) >= Limit
     THEN /\ stamps' = [stamps EXCEPT ![ip] = Valid(ip)]
          /\ refused' = [refused EXCEPT ![ip] = now]
          /\ UNCHANGED granted
     ELSE /\ stamps' = [stamps EXCEPT ![ip] = Valid(ip) \cup {Len(granted[ip]) + 1}]
          /\ granted' = [granted EXCEPT ![ip] = Append(@, now)]
          /\ UNCHANGED refused
  /\ UNCHANGED <<now, tick, stopped, cleaning>>

\* Mutated Cleanup: an entry goes, whatever is left of it.
CleanupForgetsAll ==
  /\ cleaning /\ now >= tick
  /\ stamps' = [ip \in IPs |-> {}] /\ visitors' = {}
  /\ tick' \in {t \in (now + 1)..(now + Window) : t % Window = 0}
  /\ UNCHANGED <<now, stopped, cleaning, granted, refused>>

\* A pass of the goroutine, at a tick it may take late: ticks missed are dropped.
Cleanup ==
  /\ cleaning /\ now >= tick
  /\ stamps' = [ip \in IPs |-> Valid(ip)]
  /\ visitors' = {ip \in visitors : Valid(ip) # {}}
  /\ tick' \in {t \in (now + 1)..(now + Window) : t % Window = 0}
  /\ UNCHANGED <<now, stopped, cleaning, granted, refused>>

\* Shutdown of the server; requests in flight are still judged.
Stop ==
  /\ ~stopped /\ stopped' = TRUE
  /\ UNCHANGED <<now, visitors, stamps, tick, cleaning, granted, refused>>

CleanupEnds ==
  /\ stopped /\ cleaning /\ cleaning' = FALSE
  /\ UNCHANGED <<now, visitors, stamps, tick, stopped, granted, refused>>

Next == Advance \/ Cleanup \/ Stop \/ CleanupEnds \/ \E ip \in IPs : Allow(ip)

Spec == Init /\ [][Next]_vars

-----------------------------------------------------------------------------
\* Wherever a window is laid, at most Limit requests of an address are let in
\* during it, although stamps are dropped by every request and entries are deleted
\* by the goroutine: of Limit + 1 in a row the last comes a window after the first.
LimitInEveryWindow ==
  \A ip \in IPs : \A i \in DOMAIN granted[ip] :
    i + Limit \in DOMAIN granted[ip] =>
      granted[ip][i + Limit] - granted[ip][i] >= Window

\* Pruning and deleting never show: every request is judged as by a limiter that
\* remembers all it let in, so that none is refused that the limit allows either,
\* also at the edge of a window and after the server began to shut down.
Promise == INSTANCE SlidingWindow
IsSlidingWindow == Promise!WindowSpec

=============================================================================
