------------------------------ MODULE RealtimeHub ------------------------------
(***************************************************************************)
(* The realtime hub (internal/realtime/hub.go) and the SSE handlers that   *)
(* subscribe to it (internal/realtime/handler.go): a map of clients under  *)
(* a read-write mutex, one bounded channel per client, publishers that     *)
(* send without blocking while they hold the read lock, sessions that      *)
(* leave and a Close that disconnects everyone.                            *)
(*                                                                         *)
(* A write-locked section (Subscribe's insertion, Unsubscribe, Close) is   *)
(* one step, enabled when no publisher holds the read lock; Publish takes  *)
(* one step per client, so that publishers, receivers and the taking of    *)
(* identifiers interleave.  A session that has taken an event is in        *)
(* "write" until the visibility query and the write to its client are over: *)
(* no deadline ends that write (server.go sets no WriteTimeout), only the  *)
(* client, by reading or by leaving.                                       *)
(***************************************************************************)
EXTENDS Naturals, Sequences, FiniteSets

CONSTANTS Sessions,     \* SSE connections, each served by one ServeHTTP
          Publishers,   \* handlers that publish
          Tables, Actions,
          Buffer,       \* eventBufferSize
          MaxEvents,    \* bound: events per publisher
          MaxCloses,    \* bound: calls of Close
          NoSession

ASSUME HubAssumption ==
  /\ IsFiniteSet(Sessions) /\ NoSession \notin Sessions
  /\ Buffer \in Nat \ {0} /\ MaxEvents \in Nat /\ MaxCloses \in Nat

VARIABLES
  nextID,     \* the hub's atomic counter
  clients,    \* the hub's map: client identifier -> session
  id,         \* each session's client identifier, 0 before it has one
  pc,         \* where each session is
  wants,      \* the tables a session subscribes to
  chan,       \* each session's event channel
  closed,     \* sessions whose channel is closed
  gone,       \* sessions whose client disconnected
  got,        \* the events written to each client, the last perhaps still being written
  lost,       \* history: events dropped because the client's buffer was full
  seen,       \* history: events received and not sent on (canSeeRecord)
  ppc,        \* "idle", or "sending": holds the read lock
  count,      \* events each publisher has begun to publish
  cur,        \* the event each publisher publishes (its last one when idle)
  todo,       \* client identifiers the publisher still has to visit
  announced,  \* history: every event begun
  panicked,   \* a send on, or a close of, a closed channel
  closes      \* number of calls of Close

sessionVars == <<id, pc, wants, gone, got, seen>>
pubVars == <<ppc, count, cur, todo, announced>>
vars == <<nextID, clients, sessionVars, chan, closed, lost, pubVars, panicked, closes>>

IDs == 1..Cardinality(Sessions)
Event == [from : Publishers, n : 1..MaxEvents, table : Tables, action : Actions]
Queues == {q \in Seq(Event) : Len(q) <= Buffer}
NoEvent == [from |-> NoSession, n |-> 0, table |-> NoSession, action |-> NoSession]

TypeOK ==
  /\ nextID \in 0..Cardinality(Sessions)
  /\ clients \in [IDs -> Sessions \cup {NoSession}]
  /\ id \in [Sessions -> IDs \cup {0}]
  /\ pc \in [Sessions -> {"start", "register", "stream", "write", "leave", "ended"}]
  /\ wants \in [Sessions -> SUBSET Tables]
  /\ chan \in [Sessions -> Queues]
  /\ closed \subseteq Sessions
  /\ gone \subseteq Sessions
  /\ got \in [Sessions -> Seq(Event)]
  /\ lost \in [Sessions -> SUBSET Event]
  /\ seen \in [Sessions -> SUBSET Event]
  /\ ppc \in [Publishers -> {"idle", "sending"}]
  /\ count \in [Publishers -> 0..MaxEvents]
  /\ cur \in [Publishers -> Event \cup {NoEvent}]
  /\ todo \in [Publishers -> SUBSET IDs]
  /\ announced \subseteq Event
  /\ panicked \in BOOLEAN
  /\ closes \in 0..MaxCloses

Init ==
  /\ nextID = 0
  /\ clients = [i \in IDs |-> NoSession]
  /\ id = [s \in Sessions |-> 0]
  /\ pc = [s \in Sessions |-> "start"]
  /\ wants = [s \in Sessions |-> {}]
  /\ chan = [s \in Sessions |-> <<>>]
  /\ closed = {} /\ gone = {}
  /\ got = [s \in Sessions |-> <<>>]
  /\ lost = [s \in Sessions |-> {}]
  /\ seen = [s \in Sessions |-> {}]
  /\ ppc = [p \in Publishers |-> "idle"]
  /\ count = [p \in Publishers |-> 0]
  /\ cur = [p \in Publishers |-> NoEvent]
  /\ todo = [p \in Publishers |-> {}]
  /\ announced = {}
  /\ panicked = FALSE
  /\ closes = 0

-----------------------------------------------------------------------------
\* The mutex: any number of readers or one writer.
WriteLockFree == \A p \in Publishers : ppc[p] = "idle"

Registered(s) == \E i \in IDs : clients[i] = s

(***************************************************************************)
(* ServeHTTP.                                                              *)
(***************************************************************************)
\* The request is refused: no token, an invalid one, no table or an unknown one.
Refuse(s) ==
  /\ pc[s] = "start"
  /\ pc' = [pc EXCEPT ![s] = "ended"]
  /\ UNCHANGED <<nextID, clients, id, wants, gone, got, seen, chan, closed, lost,
                 pubVars, panicked, closes>>

\* Mutated TakeID: a counter that is not atomic, whose update can be lost.
TakeIDRacy(s) ==
  /\ pc[s] = "start"
  /\ nextID' \in {nextID, nextID + 1}
  /\ id' = [id EXCEPT ![s] = nextID + 1]
  /\ \E tables \in (SUBSET Tables) \ {{}} : wants' = [wants EXCEPT ![s] = tables]
  /\ pc' = [pc EXCEPT ![s] = "register"]
  /\ UNCHANGED <<clients, gone, got, seen, chan, closed, lost, pubVars, panicked, closes>>

\* Subscribe takes an identifier from the atomic counter, outside the lock,
\* and makes the client and its channel ...
TakeID(s) ==
  /\ pc[s] = "start"
  /\ nextID' = nextID + 1
  /\ id' = [id EXCEPT ![s] = nextID + 1]
  /\ \E tables \in (SUBSET Tables) \ {{}} : wants' = [wants EXCEPT ![s] = tables]
  /\ pc' = [pc EXCEPT ![s] = "register"]
  /\ UNCHANGED <<clients, gone, got, seen, chan, closed, lost, pubVars, panicked, closes>>

\* ... then puts it into the map.  ServeHTTP greets the client.
Register(s) ==
  /\ pc[s] = "register" /\ WriteLockFree
  /\ clients' = [clients EXCEPT ![id[s]] = s]
  /\ pc' = [pc EXCEPT ![s] = "write"]
  /\ UNCHANGED <<nextID, id, wants, gone, got, seen, chan, closed, lost, pubVars,
                 panicked, closes>>

Disconnect(s) ==
  /\ pc[s] \in {"register", "stream", "write"} /\ s \notin gone
  /\ gone' = gone \cup {s}
  /\ UNCHANGED <<nextID, clients, id, pc, wants, got, seen, chan, closed, lost, pubVars,
                 panicked, closes>>

\* Mutated Receive: an event that cannot be shown yet is put back.
ReceiveRequeues(s) ==
  /\ pc[s] = "stream" /\ chan[s] # <<>>
  /\ LET e == Head(chan[s])
     IN \/ got' = [got EXCEPT ![s] = Append(@, e)] /\ chan' = [chan EXCEPT ![s] = Tail(@)]
        \/ chan' = [chan EXCEPT ![s] = Append(Tail(@), e)] /\ UNCHANGED got
  /\ pc' = [pc EXCEPT ![s] = "write"]
  /\ UNCHANGED <<nextID, clients, id, wants, gone, seen, closed, lost, pubVars, panicked,
                 closes>>

\* The loop takes the next event, to send it to the client unless canSeeRecord
\* hides it: a delete is never hidden.
Receive(s) ==
  /\ pc[s] = "stream" /\ chan[s] # <<>>
  /\ LET e == Head(chan[s])
     IN \/ got' = [got EXCEPT ![s] = Append(@, e)] /\ UNCHANGED seen
        \/ /\ e.action # "delete"
           /\ seen' = [seen EXCEPT ![s] = @ \cup {e}] /\ UNCHANGED got
  /\ chan' = [chan EXCEPT ![s] = Tail(@)]
  /\ pc' = [pc EXCEPT ![s] = "write"]
  /\ UNCHANGED <<nextID, clients, id, wants, gone, closed, lost, pubVars, panicked,
                 closes>>

\* Query and write are over: the client has read enough, or is gone.
Flush(s) ==
  /\ pc[s] = "write"
  /\ pc' = [pc EXCEPT ![s] = "stream"]
  /\ UNCHANGED <<nextID, clients, id, wants, gone, got, seen, chan, closed, lost, pubVars,
                 panicked, closes>>

\* Mutated StopStreaming: the second result of the receive ignored.
StopStreamingIgnoresClose(s) ==
  /\ pc[s] = "stream" /\ s \in gone
  /\ pc' = [pc EXCEPT ![s] = "leave"]
  /\ UNCHANGED <<nextID, clients, id, wants, gone, got, seen, chan, closed, lost, pubVars,
                 panicked, closes>>

\* The loop ends: the context is done, or the channel is closed and drained.
StopStreaming(s) ==
  /\ pc[s] = "stream"
  /\ s \in gone \/ (s \in closed /\ chan[s] = <<>>)
  /\ pc' = [pc EXCEPT ![s] = "leave"]
  /\ UNCHANGED <<nextID, clients, id, wants, gone, got, seen, chan, closed, lost, pubVars,
                 panicked, closes>>

\* The deferred Unsubscribe.
Unsubscribe(s) ==
  /\ pc[s] = "leave" /\ WriteLockFree
  /\ LET client == clients[id[s]]
     IN IF client # NoSession
        THEN /\ clients' = [clients EXCEPT ![id[s]] = NoSession]
             /\ closed' = closed \cup {client}
             /\ panicked' = (panicked \/ client \in closed)
        ELSE UNCHANGED <<clients, closed, panicked>>
  /\ pc' = [pc EXCEPT ![s] = "ended"]
  /\ UNCHANGED <<nextID, id, wants, gone, got, seen, chan, lost, pubVars, closes>>

-----------------------------------------------------------------------------
(***************************************************************************)
(* Publish.                                                                *)
(***************************************************************************)
BeginPublish(p) ==
  /\ ppc[p] = "idle" /\ count[p] < MaxEvents
  /\ ppc' = [ppc EXCEPT ![p] = "sending"]
  /\ count' = [count EXCEPT ![p] = @ + 1]
  /\ \E t \in Tables, a \in Actions :
       LET e == [from |-> p, n |-> count[p] + 1, table |-> t, action |-> a]
       IN cur' = [cur EXCEPT ![p] = e] /\ announced' = announced \cup {e}
  /\ todo' = [todo EXCEPT ![p] = {i \in IDs : clients[i] # NoSession}]
  /\ UNCHANGED <<nextID, clients, sessionVars, chan, closed, lost, panicked, closes>>

\* Mutated Visit: the first full buffer ends the loop.
VisitStopsWhenFull(p, i) ==
  /\ ppc[p] = "sending" /\ i \in todo[p]
  /\ LET s == clients[i]
         e == cur[p]
         full == e.table \in wants[s] /\ Len(chan[s]) >= Buffer
     IN /\ todo' = [todo EXCEPT ![p] = IF full THEN {} ELSE @ \ {i}]
        /\ lost' = IF full THEN [lost EXCEPT ![s] = @ \cup {e}] ELSE lost
        /\ chan' = IF full \/ e.table \notin wants[s] THEN chan
                   ELSE [chan EXCEPT ![s] = Append(@, e)]
  /\ UNCHANGED <<nextID, clients, sessionVars, closed, ppc, count, cur, announced, panicked,
                 closes>>

\* Mutated Visit: a send that waits for room.
VisitBlocks(p, i) ==
  /\ ppc[p] = "sending" /\ i \in todo[p]
  /\ LET s == clients[i]
         e == cur[p]
     IN IF e.table \notin wants[s] THEN UNCHANGED chan
        ELSE Len(chan[s]) < Buffer /\ chan' = [chan EXCEPT ![s] = Append(@, e)]
  /\ todo' = [todo EXCEPT ![p] = @ \ {i}]
  /\ UNCHANGED <<nextID, clients, sessionVars, closed, lost, ppc, count, cur, announced,
                 panicked, closes>>

\* One client of the loop: skipped if it did not ask for the table, sent to if
\* its buffer has room, otherwise the event is dropped for it.
Visit(p, i) ==
  /\ ppc[p] = "sending" /\ i \in todo[p]
  /\ todo' = [todo EXCEPT ![p] = @ \ {i}]
  /\ LET s == clients[i]
         e == cur[p]
     IN IF e.table \notin wants[s]
        THEN UNCHANGED <<chan, lost, panicked>>
        ELSE /\ panicked' = (panicked \/ s \in closed)
             /\ IF Len(chan[s]) < Buffer
                THEN chan' = [chan EXCEPT ![s] = Append(@, e)] /\ UNCHANGED lost
                ELSE lost' = [lost EXCEPT ![s] = @ \cup {e}] /\ UNCHANGED chan
  /\ UNCHANGED <<nextID, clients, sessionVars, closed, ppc, count, cur, announced, closes>>

EndPublish(p) ==
  /\ ppc[p] = "sending" /\ todo[p] = {}
  /\ ppc' = [ppc EXCEPT ![p] = "idle"]
  /\ UNCHANGED <<nextID, clients, sessionVars, chan, closed, lost, count, cur, todo,
                 announced, panicked, closes>>

\* Mutated Close: the map is not cleared.
CloseKeepsMap ==
  /\ WriteLockFree /\ closes < MaxCloses
  /\ LET current == {s \in Sessions : Registered(s)}
     IN closed' = closed \cup current /\ panicked' = (panicked \/ current \cap closed # {})
  /\ closes' = closes + 1
  /\ UNCHANGED <<nextID, clients, sessionVars, chan, lost, pubVars>>

\* Close, which does not refuse later subscribers.
Close ==
  /\ WriteLockFree /\ closes < MaxCloses
  /\ LET current == {s \in Sessions : Registered(s)}
     IN closed' = closed \cup current /\ panicked' = (panicked \/ current \cap closed # {})
  /\ clients' = [i \in IDs |-> NoSession]
  /\ closes' = closes + 1
  /\ UNCHANGED <<nextID, sessionVars, chan, lost, pubVars>>

-----------------------------------------------------------------------------
Serve(s) ==
  TakeID(s) \/ Register(s) \/ Receive(s) \/ Flush(s) \/ StopStreaming(s) \/ Unsubscribe(s)

Publish(p) == (\E i \in IDs : Visit(p, i)) \/ EndPublish(p)

Next ==
  \/ \E s \in Sessions : Serve(s) \/ Refuse(s) \/ Disconnect(s)
  \/ \E p \in Publishers : BeginPublish(p) \/ Publish(p)
  \/ Close

Spec == Init /\ [][Next]_vars

\* Goroutines that can run are run; the mutex does not starve a writer; a write
\* to a client that left fails.  Nothing makes a client read that stays.
FairSpec ==
  /\ Spec
  /\ \A s \in Sessions : /\ WF_vars(Receive(s)) /\ WF_vars(StopStreaming(s))
                         /\ WF_vars(s \in gone /\ Flush(s))
                         /\ SF_vars(Register(s)) /\ SF_vars(Unsubscribe(s))
  /\ \A p \in Publishers : WF_vars(Publish(p))
-----------------------------------------------------------------------------
(***************************************************************************)
(* Properties.                                                             *)
(***************************************************************************)
\* No interleaving of Subscribe, Unsubscribe, Publish and Close closes a
\* channel twice or sends on a closed one.
NoPanic == ~panicked

\* The map and the channels agree: a client is in the map, under its own
\* identifier, exactly as long as its channel is open, and a handler that
\* returned leaves neither an entry nor an open channel behind.
ClientsMatchChannels ==
  /\ \A i \in IDs : clients[i] # NoSession =>
       id[clients[i]] = i /\ pc[clients[i]] \in {"stream", "write", "leave"}
  /\ \A s \in Sessions : pc[s] \in {"stream", "write", "leave"} => (Registered(s) <=> s \notin closed)
  /\ \A s \in Sessions : pc[s] = "ended" /\ id[s] # 0 => s \in closed /\ ~Registered(s)

\* A slow client costs only itself, and nobody is sent what it did not ask for: of
\* the clients still registered, those on the event's table, and no others, have
\* been brought the event a publisher is done with - received it, have it queued, or
\* lost it because their own buffer was full.
SlowClientsLoseAlone ==
  \A p \in Publishers, i \in IDs :
    ppc[p] = "sending" /\ i \notin todo[p] /\ clients[i] # NoSession =>
      LET s == clients[i]
          e == cur[p]
          Holds(q) == \E j \in DOMAIN q : q[j] = e
      IN e.table \in wants[s] <=> Holds(chan[s]) \/ Holds(got[s]) \/ e \in seen[s] \cup lost[s]

\* The hub is a lossy feed: clients are sent only events that were published
\* on their tables, none twice, and each publisher's in order.
Feed == INSTANCE EventFeed WITH Subscribers <- Sessions
IsLossyFeed == Feed!FeedSpec

\* Nobody waits for somebody else's client: a publication ends whatever the clients
\* do, and a session ends whose client left.  A session whose channel Close closed
\* ends too, unless its own client stays and stops reading: then it may stay in the
\* write to it for ever (ServeHTTP; no WriteTimeout, server.go:150-153).
NobodyWaits ==
  /\ \A p \in Publishers : ppc[p] = "sending" ~> ppc[p] = "idle"
  /\ \A s \in Sessions : pc[s] \in {"stream", "write"} /\ s \in gone ~> pc[s] = "ended"
  /\ \A s \in Sessions :
       \/ <>[](pc[s] = "write")
       \/ pc[s] \in {"stream", "write"} /\ s \in closed ~> pc[s] = "ended"

=============================================================================
