-------------------------- MODULE RateLimiterProofs --------------------------
(***************************************************************************)
(* For any addresses, limit and window: the rate limiter judges as one     *)
(* that never forgets, and lets in at most Limit requests per window.      *)
(***************************************************************************)
EXTENDS RateLimiter, FiniteSetTheorems, TLAPS

\* What is forgotten, or was never kept, is a window old.
OldForgotten ==
  \A ip \in IPs : \A i \in DOMAIN granted[ip] :
    i \notin stamps[ip] => granted[ip][i] <= now - Window

\* Requests are numbered in the order of the clock.
InOrder ==
  \A ip \in IPs : \A i, j \in DOMAIN granted[ip] :
    /\ granted[ip][i] <= now
    /\ i <= j => granted[ip][i] <= granted[ip][j]

IInv == TypeOK /\ OldForgotten /\ InOrder /\ LimitInEveryWindow

\* The stamps that survive a pruning are those of all requests let in that are
\* younger than a window (pruneTimestamps).
LEMMA ValidIsRecent ==
  ASSUME IInv, NEW ip \in IPs
  PROVE  Valid(ip) = Promise!Recent(ip)
<1>1. \A i \in DOMAIN granted[ip] : granted[ip][i] \in Int /\ now - Window \in Int
  BY LimiterAssumption DEF IInv, TypeOK
<1> QED BY <1>1 DEF IInv, TypeOK, OldForgotten, Valid, Promise!Recent

\* Both modules count with the same operator.
LEMMA SameCardinality == \A S : Promise!Cardinality(S) = Cardinality(S)
BY DEF Cardinality, Promise!Cardinality

\* The request one Limit before the next one is a window old if the next is let in.
LEMMA LimitBack ==
  ASSUME IInv, NEW ip \in IPs, NEW i \in DOMAIN granted[ip],
         i + Limit = Len(granted[ip]) + 1,
         ~(Cardinality(Valid(ip)) >= Limit)
  PROVE  now - granted[ip][i] >= Window
<1> DEFINE n == Len(granted[ip])
<1>1. n \in Nat /\ i \in 1..n /\ DOMAIN granted[ip] = 1..n /\ Limit \in Nat \ {0}
      /\ Window \in Nat /\ now \in Nat /\ granted[ip] \in Seq(Nat)
  BY LimiterAssumption DEF IInv, TypeOK
<1>2. SUFFICES ASSUME granted[ip][i] > now - Window PROVE FALSE
  BY <1>1
<1>3. \A j \in i..n : granted[ip][j] > now - Window
  <2>1. \A j \in 1..n : granted[ip][j] \in Nat
    BY <1>1
  <2>2. \A j \in i..n : j \in DOMAIN granted[ip] /\ granted[ip][i] <= granted[ip][j]
    BY <1>1 DEF IInv, InOrder
  <2> HIDE DEF n
  <2> TAKE j \in i..n
  <2>3. j \in 1..n
    BY <1>1
  <2>4. /\ granted[ip][i] \in Nat /\ granted[ip][j] \in Nat /\ now - Window \in Int
        /\ granted[ip][i] <= granted[ip][j]
    BY <1>1, <2>1, <2>2, <2>3
  <2> QED BY <2>4, <1>2
<1>4. i..n \subseteq Valid(ip)
  BY <1>1, <1>3, ValidIsRecent DEF Promise!Recent
<1>5. Valid(ip) \subseteq 1..n
  BY <1>1, ValidIsRecent DEF Promise!Recent
<1>6. IsFiniteSet(Valid(ip))
  <2>1. IsFiniteSet(1..n)
    <3>1. 1 \in Int /\ n \in Int BY <1>1
    <3> HIDE DEF n
    <3> QED BY <3>1, FS_Interval
  <2> QED BY <2>1, <1>5, FS_Subset
<1>7. Cardinality(i..n) = Limit
  <2>1. i \in Int /\ n \in Int /\ i <= n /\ n - i + 1 = Limit BY <1>1
  <2>2. Cardinality(i..n) = IF i > n THEN 0 ELSE n - i + 1
    <3> HIDE DEF n
    <3> QED BY <2>1, FS_Interval
  <2> QED BY <2>1, <2>2
<1>8. Cardinality(i..n) <= Cardinality(Valid(ip))
  BY <1>4, <1>6, FS_Subset
<1>9. Cardinality(Valid(ip)) \in Nat BY <1>6, FS_CardinalityType
<1> QED BY <1>1, <1>7, <1>8, <1>9

\* A limiter that was just made.
LEMMA InitIInv == Init => IInv
<1> SUFFICES ASSUME Init PROVE IInv OBVIOUS
<1>0. \A ip \in IPs : granted[ip] = <<>> /\ DOMAIN granted[ip] = {}
  BY DEF Init
<1>1. TypeOK
  <2>1. granted \in [IPs -> Seq(Nat)] BY DEF Init
  <2>2. stamps \in [IPs -> SUBSET Nat] BY DEF Init
  <2>3. refused \in [IPs -> Nat \cup {-1}] BY DEF Init
  <2> QED BY <1>0, <2>1, <2>2, <2>3, LimiterAssumption DEF Init, TypeOK
<1>2. OldForgotten /\ InOrder /\ LimitInEveryWindow
  BY <1>0 DEF OldForgotten, InOrder, LimitInEveryWindow
<1> QED BY <1>1, <1>2 DEF IInv

\* A request that is let in keeps the limit (Allow).
LEMMA AllowIInv ==
  ASSUME IInv, NEW ip \in IPs, Allow(ip)
  PROVE  IInv'
<1> DEFINE n == Len(granted[ip])
<1>0. /\ Limit \in Nat \ {0} /\ Window \in Nat \ {0} /\ now \in Nat
      /\ granted \in [IPs -> Seq(Nat)] /\ stamps \in [IPs -> SUBSET Nat]
      /\ n \in Nat /\ DOMAIN granted[ip] = 1..n
      /\ Valid(ip) \subseteq stamps[ip] /\ stamps[ip] \subseteq 1..n
  BY LimiterAssumption DEF IInv, TypeOK, Valid
<1>1. CASE Cardinality(Valid(ip)) >= Limit
  <2>0. /\ visitors' = visitors \cup {ip} /\ stamps' = [stamps EXCEPT ![ip] = Valid(ip)]
        /\ refused' = [refused EXCEPT ![ip] = now]
        /\ UNCHANGED <<granted, now, tick, stopped, cleaning>>
    BY <1>1 DEF Allow
  <2>1. TypeOK'
    BY <1>0, <2>0 DEF IInv, TypeOK
  <2>2. OldForgotten'
    <3>1. ASSUME NEW a \in IPs, NEW i \in DOMAIN granted[a], i \notin stamps'[a]
          PROVE  granted[a][i] <= now - Window
      <4>1. granted[a][i] \in Nat BY <1>0
      <4>2. CASE a # ip BY <1>0, <2>0, <3>1, <4>2 DEF IInv, OldForgotten
      <4>3. CASE a = ip BY <1>0, <2>0, <3>1, <4>1, <4>3 DEF IInv, OldForgotten, Valid
      <4> QED BY <4>2, <4>3
    <3> QED BY <3>1, <2>0 DEF OldForgotten
  <2>3. InOrder' /\ LimitInEveryWindow'
    BY <2>0 DEF IInv, InOrder, LimitInEveryWindow
  <2> QED BY <2>1, <2>2, <2>3 DEF IInv
<1>2. CASE ~(Cardinality(Valid(ip)) >= Limit)
  <2>0. /\ visitors' = visitors \cup {ip}
        /\ stamps' = [stamps EXCEPT ![ip] = Valid(ip) \cup {n + 1}]
        /\ granted' = [granted EXCEPT ![ip] = Append(@, now)]
        /\ UNCHANGED <<refused, now, tick, stopped, cleaning>>
    BY <1>2 DEF Allow
  <2>g. /\ granted' \in [IPs -> Seq(Nat)]
        /\ granted'[ip] = Append(granted[ip], now)
        /\ DOMAIN granted'[ip] = 1..(n + 1)
        /\ granted'[ip][n + 1] = now
        /\ \A i \in 1..n : granted'[ip][i] = granted[ip][i]
        /\ \A a \in IPs : a # ip => granted'[a] = granted[a]
    BY <1>0, <2>0
  <2>s. /\ stamps' \in [IPs -> SUBSET Nat]
        /\ stamps'[ip] = Valid(ip) \cup {n + 1}
        /\ \A a \in IPs : a # ip => stamps'[a] = stamps[a]
    BY <1>0, <2>0
  <2>1. TypeOK'
    <3>1. \A a \in IPs : /\ stamps'[a] \subseteq DOMAIN granted'[a]
                         /\ a \notin visitors' => stamps'[a] = {}
      BY <1>0, <2>0, <2>g, <2>s DEF IInv, TypeOK
    <3> QED BY <3>1, <2>0, <2>g, <2>s DEF IInv, TypeOK
  <2>2. OldForgotten'
    <3>1. ASSUME NEW a \in IPs, NEW i \in DOMAIN granted'[a], i \notin stamps'[a]
          PROVE  granted'[a][i] <= now - Window
      <4>1. CASE a # ip BY <2>g, <2>s, <3>1, <4>1 DEF IInv, OldForgotten
      <4>2. CASE a = ip
        <5>1. i \in 1..n /\ granted'[a][i] = granted[ip][i] /\ granted[ip][i] \in Nat
          BY <1>0, <2>g, <2>s, <3>1, <4>2
        <5> QED BY <1>0, <2>s, <3>1, <4>2, <5>1 DEF IInv, OldForgotten, Valid
      <4> QED BY <4>1, <4>2
    <3> QED BY <3>1, <2>0 DEF OldForgotten
  <2>3. InOrder'
    <3>1. ASSUME NEW a \in IPs, NEW i \in DOMAIN granted'[a], NEW j \in DOMAIN granted'[a]
          PROVE  granted'[a][i] <= now /\ (i <= j => granted'[a][i] <= granted'[a][j])
      <4>1. CASE a # ip BY <2>g, <3>1, <4>1 DEF IInv, InOrder
      <4>2. CASE a = ip
        <5>1. i \in 1..(n + 1) /\ j \in 1..(n + 1) BY <2>g, <4>2
        <5>2. \A k \in 1..n : granted[ip][k] <= now BY <1>0 DEF IInv, InOrder
        <5>3. \A k, l \in 1..n : k <= l => granted[ip][k] <= granted[ip][l]
          BY <1>0 DEF IInv, InOrder
        <5>4. \A k \in 1..n : granted[ip][k] \in Nat BY <1>0
        <5>5. CASE i = n + 1
          <6>1. i <= j => j = n + 1 BY <1>0, <5>1, <5>5
          <6> QED BY <1>0, <2>g, <4>2, <5>5, <6>1
        <5>6. CASE i # n + 1
          <6>1. i \in 1..n BY <1>0, <5>1, <5>6
          <6>2. CASE j = n + 1 BY <1>0, <2>g, <4>2, <5>2, <6>1, <6>2
          <6>3. CASE j # n + 1
            <7>1. j \in 1..n BY <1>0, <5>1, <6>3
            <7> QED BY <2>g, <4>2, <5>2, <5>3, <6>1, <7>1
          <6> QED BY <6>2, <6>3
        <5> QED BY <5>5, <5>6
      <4> QED BY <4>1, <4>2
    <3> QED BY <3>1, <2>0 DEF InOrder
  <2>4. LimitInEveryWindow'
    <3>1. ASSUME NEW a \in IPs, NEW i \in DOMAIN granted'[a], i + Limit \in DOMAIN granted'[a]
          PROVE  granted'[a][i + Limit] - granted'[a][i] >= Window
      <4>1. CASE a # ip BY <2>g, <3>1, <4>1 DEF IInv, LimitInEveryWindow
      <4>2. CASE a = ip
        <5>1. i \in 1..n /\ i + Limit \in 1..(n + 1) BY <1>0, <2>g, <3>1, <4>2
        <5>2. CASE i + Limit = n + 1
          BY <1>0, <1>2, <2>g, <4>2, <5>1, <5>2, LimitBack
        <5>3. CASE i + Limit # n + 1
          <6>1. i + Limit \in 1..n BY <1>0, <5>1, <5>3
          <6> QED BY <1>0, <2>g, <4>2, <5>1, <6>1 DEF IInv, LimitInEveryWindow
        <5> QED BY <5>2, <5>3
      <4> QED BY <4>1, <4>2
    <3> QED BY <3>1, <2>0 DEF LimitInEveryWindow
  <2> QED BY <2>1, <2>2, <2>3, <2>4 DEF IInv
<1> QED BY <1>1, <1>2

\* No step lets a forgotten request count, nor one too many in.
LEMMA NextIInv == IInv /\ [Next]_vars => IInv'
<1> SUFFICES ASSUME IInv, [Next]_vars PROVE IInv' OBVIOUS
<1>0. /\ Window \in Nat \ {0} /\ now \in Nat /\ granted \in [IPs -> Seq(Nat)]
      /\ stamps \in [IPs -> SUBSET Nat] /\ MaxTime \in Nat
  BY LimiterAssumption DEF IInv, TypeOK
<1>1. CASE Advance
  <2>1. now' \in Nat /\ now' > now
    BY <1>0, <1>1 DEF Advance
  <2>2. \A ip \in IPs : \A i \in DOMAIN granted[ip] : granted[ip][i] \in Nat
    BY <1>0
  <2>3. TypeOK' BY <1>1, <2>1 DEF IInv, TypeOK, Advance
  <2>4. OldForgotten'
    BY <1>0, <1>1, <2>1, <2>2 DEF IInv, OldForgotten, Advance
  <2>5. InOrder' BY <1>0, <1>1, <2>1, <2>2 DEF IInv, InOrder, Advance
  <2>6. LimitInEveryWindow' BY <1>1 DEF IInv, LimitInEveryWindow, Advance
  <2> QED BY <2>3, <2>4, <2>5, <2>6 DEF IInv
<1>2. CASE Cleanup
  <2>1. TypeOK'
    <3>1. tick' \in Nat
      <4>1. tick' \in (now + 1)..(now + Window) BY <1>2 DEF Cleanup
      <4> QED BY <1>0, <4>1
    <3> QED BY <1>0, <1>2, <3>1 DEF IInv, TypeOK, Cleanup, Valid
  <2>2. OldForgotten'
    BY <1>0, <1>2 DEF IInv, OldForgotten, Cleanup, Valid
  <2>3. InOrder' /\ LimitInEveryWindow'
    BY <1>2 DEF IInv, InOrder, LimitInEveryWindow, Cleanup
  <2> QED BY <2>1, <2>2, <2>3 DEF IInv
<1>3. CASE \E ip \in IPs : Allow(ip)
  BY <1>3, AllowIInv
<1>4. CASE Stop \/ CleanupEnds \/ UNCHANGED vars
  BY <1>4 DEF Stop, CleanupEnds, vars, IInv, TypeOK, OldForgotten, InOrder, LimitInEveryWindow
<1> QED BY <1>1, <1>2, <1>3, <1>4 DEF Next

\* The inductive invariant holds in every state of the limiter.
THEOREM LimiterInvariant == Spec => []IInv
BY InitIInv, NextIInv, PTL DEF Spec

\* At most Limit requests of an address in every window (Allow, cleanup), for
\* every limit, window and number of addresses.
THEOREM WindowsHoldTheLimit == Spec => []LimitInEveryWindow
<1>1. IInv => LimitInEveryWindow BY DEF IInv
<1> QED BY <1>1, LimiterInvariant, PTL

\* What the limiter keeps has the shape the code relies on: an address without an
\* entry has no stamps.
THEOREM LimiterTypes == Spec => []TypeOK
<1>1. IInv => TypeOK BY DEF IInv
<1> QED BY <1>1, LimiterInvariant, PTL

\* The limiter implements the one that never forgets: each Allow is its verdict,
\* and what the goroutine does is invisible.
THEOREM LimiterRefines == Spec => IsSlidingWindow
<1>1. Init => Promise!WindowInit
  BY DEF Init, Promise!WindowInit
<1>2. IInv /\ [Next]_vars => [Promise!WindowNext]_<<now, granted, refused>>
  <2> SUFFICES ASSUME IInv, [Next]_vars
               PROVE  [Promise!WindowNext]_<<now, granted, refused>>
    OBVIOUS
  <2>1. CASE Advance
    <3>1. now \in Nat /\ MaxTime \in Nat BY LimiterAssumption DEF IInv, TypeOK
    <3>2. now' \in Nat /\ now' > now BY <2>1, <3>1 DEF Advance
    <3> QED BY <2>1, <3>2 DEF Advance, Promise!WindowNext, Promise!TimePasses
  <2>2. ASSUME NEW ip \in IPs, Allow(ip)
        PROVE  Promise!WindowNext
    <3>1. Valid(ip) = Promise!Recent(ip) BY ValidIsRecent
    <3>2. CASE Cardinality(Valid(ip)) >= Limit
      <4>1. Promise!TurnAway(ip)
        BY <2>2, <3>1, <3>2, SameCardinality DEF Allow, Promise!TurnAway
      <4> QED BY <4>1 DEF Promise!WindowNext
    <3>3. CASE ~(Cardinality(Valid(ip)) >= Limit)
      <4>0. IsFiniteSet(Valid(ip))
        <5>1. stamps[ip] \subseteq 1..Len(granted[ip]) /\ Len(granted[ip]) \in Nat
          BY DEF IInv, TypeOK
        <5>2. IsFiniteSet(1..Len(granted[ip])) BY <5>1, FS_Interval
        <5> QED BY <5>1, <5>2, FS_Subset DEF Valid
      <4>1. Cardinality(Valid(ip)) < Limit
        BY <3>3, <4>0, FS_CardinalityType, LimiterAssumption
      <4>2. Promise!LetIn(ip)
        BY <2>2, <3>1, <3>3, <4>1, SameCardinality DEF Allow, Promise!LetIn
      <4> QED BY <4>2 DEF Promise!WindowNext
    <3> QED BY <3>2, <3>3
  <2>3. CASE Cleanup \/ Stop \/ CleanupEnds \/ UNCHANGED vars
    BY <2>3 DEF Cleanup, Stop, CleanupEnds, vars
  <2> QED BY <2>1, <2>2, <2>3 DEF Next
<1> QED BY <1>1, <1>2, LimiterInvariant, PTL DEF Spec, IsSlidingWindow, Promise!WindowSpec

=============================================================================
