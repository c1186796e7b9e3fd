------------------------------- MODULE EventFeed -------------------------------
(***************************************************************************)
(* What the realtime hub promises a subscriber, without its locks, maps    *)
(* and channels: a lossy feed.  Publishers announce numbered events; a     *)
(* subscriber is handed some of those announced on the tables it asked     *)
(* for, each at most once and each publisher's in the order announced.     *)
(***************************************************************************)
EXTENDS Naturals, Sequences

CONSTANT Subscribers

\* An event is a record with the fields from (its publisher), n and table.

VARIABLES announced,  \* every event announced so far
          wants,      \* the tables each subscriber asked for
          got         \* the events each subscriber was handed, in order

feedVars == <<announced, wants, got>>

FeedInit ==
  /\ announced = {}
  /\ wants = [s \in Subscribers |-> {}]
  /\ got = [s \in Subscribers |-> <<>>]

Announce(e) ==
  /\ \A a \in announced : a.from = e.from => a.n < e.n
  /\ announced' = announced \cup {e}
  /\ UNCHANGED <<wants, got>>

Ask(s, tables) ==
  /\ wants[s] = {} /\ got[s] = <<>>
  /\ wants' = [wants EXCEPT ![s] = tables]
  /\ UNCHANGED <<announced, got>>

Hand(s, e) ==
  /\ e \in announced /\ e.table \in wants[s]
  /\ \A i \in DOMAIN got[s] : got[s][i].from = e.from => got[s][i].n < e.n
  /\ got' = [got EXCEPT ![s] = Append(@, e)]
  /\ UNCHANGED <<announced, wants>>

FeedNext ==
  \/ \E e \in announced' \ announced : Announce(e)
  \/ \E s \in Subscribers : Ask(s, wants'[s])
  \/ \E s \in Subscribers, e \in announced : Hand(s, e)

FeedSpec == FeedInit /\ [][FeedNext]_feedVars
=============================================================================
