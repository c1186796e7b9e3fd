--------------------------- MODULE RealtimeHubProofs ---------------------------
(***************************************************************************)
(* Proofs about RealtimeHub, for any number of sessions, publishers and    *)
(* tables and any buffer size: the hub never panics, its map and its       *)
(* channels agree, a client without room loses only its own events, who is *)
(* about to finish is not held up, and the hub implements EventFeed.       *)
(***************************************************************************)
EXTENDS RealtimeHub, FiniteSetTheorems, TLAPS

\* Identifiers come from a counter: each is given to one session.
HasID == {s \in Sessions : id[s] # 0}

UniqueIDs ==
  /\ nextID = Cardinality(HasID)
  /\ \A s \in Sessions : id[s] <= nextID
  /\ \A s, t \in Sessions : s # t /\ id[s] # 0 => id[s] # id[t]
  /\ \A s \in Sessions : pc[s] = "start" => id[s] = 0
  /\ \A s \in Sessions : pc[s] \in {"register", "stream", "write", "leave"} => id[s] # 0

\* A session that is not registered yet is neither in the map nor closed, and
\* one that is in the map is found there under its identifier.
Registration ==
  /\ \A s \in Sessions : pc[s] \in {"start", "register"} => s \notin closed
  /\ \A s \in Sessions : s \in closed => ~Registered(s)

\* What a publisher has still to visit is in the map: no writer runs meanwhile.
ReadLocked ==
  \A p \in Publishers : ppc[p] = "sending" =>
    /\ cur[p] \in Event
    /\ \A i \in todo[p] : clients[i] # NoSession

IInv ==
  /\ TypeOK /\ UniqueIDs /\ Registration /\ ClientsMatchChannels /\ ReadLocked /\ NoPanic

-----------------------------------------------------------------------------
LEMMA InitInv == Init => IInv
  <1> SUFFICES ASSUME Init PROVE IInv
    OBVIOUS
  <1>1. Cardinality(Sessions) \in Nat
    BY HubAssumption, FS_CardinalityType
  <1>2. TypeOK
    <2>1. nextID \in 0..Cardinality(Sessions) /\ closes \in 0..MaxCloses
      BY <1>1, HubAssumption DEF Init
    <2>2. count \in [Publishers -> 0..MaxEvents]
      BY HubAssumption DEF Init
    <2>3. chan \in [Sessions -> Queues] /\ got \in [Sessions -> Seq(Event)]
      BY HubAssumption DEF Init, Queues
    <2>4. cur \in [Publishers -> Event \cup {NoEvent}]
      BY DEF Init
    <2>5. QED
      BY <2>1, <2>2, <2>3, <2>4 DEF Init, TypeOK
  <1>3. HasID = {}
    BY DEF Init, HasID
  <1>4. UniqueIDs
    BY <1>3, FS_EmptySet DEF Init, UniqueIDs
  <1>5. Registration /\ ClientsMatchChannels /\ ReadLocked /\ NoPanic
    BY HubAssumption DEF Init, Registration, ClientsMatchChannels, ReadLocked, NoPanic,
       Registered, IDs
  <1>6. QED
    BY <1>2, <1>4, <1>5 DEF IInv

\* The counter never runs past the number of sessions.
LEMMA CounterBound ==
  ASSUME IInv, NEW s \in Sessions, TakeID(s)
  PROVE  /\ nextID + 1 \in IDs
         /\ nextID' = Cardinality(HasID')
  <1>1. HasID \subseteq Sessions /\ s \notin HasID
    BY DEF IInv, UniqueIDs, TakeID, HasID
  <1>2. HasID' = HasID \cup {s}
    BY DEF IInv, TypeOK, TakeID, HasID
  <1>3. IsFiniteSet(HasID) /\ Cardinality(HasID) \in Nat
    BY <1>1, HubAssumption, FS_Subset, FS_CardinalityType
  <1>4. Cardinality(HasID \cup {s}) = Cardinality(HasID) + 1
    BY <1>1, <1>3, FS_AddElement
  <1>5. Cardinality(HasID \cup {s}) <= Cardinality(Sessions)
    BY <1>1, HubAssumption, FS_Subset
  <1>6. Cardinality(Sessions) \in Nat
    BY HubAssumption, FS_CardinalityType
  <1>7. QED
    BY <1>2, <1>3, <1>4, <1>5, <1>6 DEF IInv, UniqueIDs, TakeID, IDs

\* The steps that need an argument of their own.
LEMMA TakeIDUnique ==
  ASSUME IInv, NEW s \in Sessions, TakeID(s)
  PROVE  UniqueIDs'
  <1>1. nextID' = Cardinality(HasID')
    BY CounterBound
  <1>2. Cardinality(Sessions) \in Nat
    BY HubAssumption, FS_CardinalityType
  <1>3. id \in [Sessions -> Nat] /\ nextID \in Nat
    BY <1>2 DEF IInv, TypeOK, IDs
  <1>4. /\ id' = [id EXCEPT ![s] = nextID + 1] /\ nextID' = nextID + 1
        /\ pc' = [pc EXCEPT ![s] = "register"] /\ pc[s] = "start"
    BY DEF TakeID
  <1>5. pc \in [Sessions -> {"start", "register", "stream", "write", "leave", "ended"}]
    BY DEF IInv, TypeOK
  <1>6. UniqueIDs
    BY DEF IInv
  <1>7. \A t \in Sessions : id'[t] <= nextID'
    BY <1>3, <1>4, <1>6 DEF UniqueIDs
  <1>8. \A t, u \in Sessions : t # u /\ id'[t] # 0 => id'[t] # id'[u]
    BY <1>3, <1>4, <1>6 DEF UniqueIDs
  <1>9. /\ \A t \in Sessions : pc'[t] = "start" => id'[t] = 0
        /\ \A t \in Sessions : pc'[t] \in {"register", "stream", "write", "leave"} => id'[t] # 0
    BY <1>3, <1>4, <1>5, <1>6 DEF UniqueIDs
  <1>10. QED
    BY <1>1, <1>7, <1>8, <1>9 DEF UniqueIDs

LEMMA ReceiveType ==
  ASSUME IInv, NEW s \in Sessions, Receive(s)
  PROVE  TypeOK'
  <1>1. chan[s] \in Seq(Event) /\ Len(chan[s]) <= Buffer /\ got[s] \in Seq(Event)
        /\ chan[s] # <<>>
    BY DEF IInv, TypeOK, Queues, Receive
  <1>2. Head(chan[s]) \in Event /\ Tail(chan[s]) \in Queues
    BY <1>1, HubAssumption DEF Queues
  <1>3. Append(got[s], Head(chan[s])) \in Seq(Event)
    BY <1>1, <1>2
  <1>4. got' \in [Sessions -> Seq(Event)] /\ seen' \in [Sessions -> SUBSET Event]
    <2>1. got' = got \/ got' = [got EXCEPT ![s] = Append(got[s], Head(chan[s]))]
      BY DEF Receive
    <2>2. seen' = seen \/ seen' = [seen EXCEPT ![s] = seen[s] \cup {Head(chan[s])}]
      BY DEF Receive
    <2>3. got \in [Sessions -> Seq(Event)] /\ seen \in [Sessions -> SUBSET Event]
      BY DEF IInv, TypeOK
    <2>4. got' \in [Sessions -> Seq(Event)]
      BY <1>3, <2>1, <2>3
    <2>5. seen' \in [Sessions -> SUBSET Event]
      BY <1>2, <2>2, <2>3
    <2>6. QED
      BY <2>4, <2>5
  <1>5. chan' \in [Sessions -> Queues]
    BY <1>2 DEF IInv, TypeOK, Receive
  <1>6. QED
    BY <1>4, <1>5 DEF IInv, TypeOK, Receive, pubVars

LEMMA VisitType ==
  ASSUME IInv, NEW p \in Publishers, NEW i \in IDs, Visit(p, i)
  PROVE  TypeOK'
  <1>1. clients[i] \in Sessions /\ cur[p] \in Event
    BY DEF IInv, TypeOK, Visit, ReadLocked
  <1>2. Len(chan[clients[i]]) < Buffer => Append(chan[clients[i]], cur[p]) \in Queues
    <2>1. chan[clients[i]] \in Seq(Event)
      BY <1>1 DEF IInv, TypeOK, Queues
    <2>2. QED
      BY <1>1, <2>1, HubAssumption DEF Queues
  <1>3. \/ chan' = chan
        \/ /\ Len(chan[clients[i]]) < Buffer
           /\ chan' = [chan EXCEPT ![clients[i]] = Append(chan[clients[i]], cur[p])]
    BY DEF Visit
  <1>4. chan' \in [Sessions -> Queues]
    BY <1>1, <1>2, <1>3 DEF IInv, TypeOK
  <1>5. lost' \in [Sessions -> SUBSET Event]
    <2>1. lost' = lost \/ lost' = [lost EXCEPT ![clients[i]] = lost[clients[i]] \cup {cur[p]}]
      BY DEF Visit
    <2>2. lost \in [Sessions -> SUBSET Event]
      BY DEF IInv, TypeOK
    <2>3. QED
      BY <1>1, <2>1, <2>2
  <1>6. panicked' \in BOOLEAN /\ todo' \in [Publishers -> SUBSET IDs]
    BY DEF IInv, TypeOK, Visit
  <1>7. QED
    BY <1>4, <1>5, <1>6 DEF IInv, TypeOK, Visit, sessionVars

\* Unsubscribe finds its own session in the map, or nobody.
LEMMA UnsubscribeEffect ==
  ASSUME IInv, NEW s \in Sessions, Unsubscribe(s)
  PROVE  /\ id[s] \in IDs
         /\ pc' = [pc EXCEPT ![s] = "ended"] /\ id' = id
         /\ \/ /\ clients[id[s]] = s
               /\ clients' = [clients EXCEPT ![id[s]] = NoSession]
               /\ closed' = closed \cup {s}
            \/ /\ clients[id[s]] = NoSession /\ s \in closed
               /\ clients' = clients /\ closed' = closed
  <1>1. id[s] \in IDs
    BY DEF IInv, TypeOK, UniqueIDs, Unsubscribe
  <1>2. clients[id[s]] \in Sessions \cup {NoSession}
    BY <1>1 DEF IInv, TypeOK
  <1>3. clients[id[s]] # NoSession => clients[id[s]] = s
    BY <1>1, <1>2 DEF IInv, ClientsMatchChannels, UniqueIDs, TypeOK
  <1>4. clients[id[s]] = NoSession => s \in closed
    <2>1. Registered(s) => clients[id[s]] = s
      BY HubAssumption DEF IInv, ClientsMatchChannels, Registered
    <2>2. Registered(s) <=> s \notin closed
      BY DEF IInv, ClientsMatchChannels, Unsubscribe
    <2>3. QED
      BY <2>1, <2>2, HubAssumption
  <1>5. QED
    BY <1>1, <1>3, <1>4, HubAssumption DEF Unsubscribe

LEMMA UnsubscribeType ==
  ASSUME IInv, NEW s \in Sessions, Unsubscribe(s)
  PROVE  TypeOK'
  <1>1. clients' \in [IDs -> Sessions \cup {NoSession}] /\ closed' \subseteq Sessions
    <2>1. clients \in [IDs -> Sessions \cup {NoSession}] /\ closed \subseteq Sessions
      BY DEF IInv, TypeOK
    <2>2. QED
      BY <2>1, UnsubscribeEffect
  <1>2. panicked' \in BOOLEAN
    BY DEF IInv, TypeOK, Unsubscribe
  <1>3. QED
    BY <1>1, <1>2 DEF IInv, TypeOK, Unsubscribe, pubVars

LEMMA UnsubscribeKeepsRegistration ==
  ASSUME IInv, NEW s \in Sessions, Unsubscribe(s)
  PROVE  Registration' /\ ClientsMatchChannels'
  <1>1. /\ clients \in [IDs -> Sessions \cup {NoSession}] /\ NoSession \notin Sessions
        /\ pc \in [Sessions -> {"start", "register", "stream", "write", "leave", "ended"}]
        /\ closed \subseteq Sessions
    BY HubAssumption DEF IInv, TypeOK
  <1>2. ClientsMatchChannels /\ Registration
    BY DEF IInv
  <1>3. pc[s] = "leave"
    BY DEF Unsubscribe
  <1>4. /\ s \in closed' /\ pc'[s] = "ended" /\ ~Registered(s)'
        /\ \A t \in Sessions : t # s =>
             /\ pc'[t] = pc[t] /\ (t \in closed' <=> t \in closed)
             /\ Registered(t)' <=> Registered(t)
    <2>1. \A i \in IDs : clients[i] = s => i = id[s]
      BY <1>1, <1>2 DEF ClientsMatchChannels
    <2>2. CASE clients[id[s]] = s
      BY <1>1, <2>1, <2>2, UnsubscribeEffect DEF Registered
    <2>3. CASE clients[id[s]] = NoSession
      BY <1>1, <2>1, <2>3, UnsubscribeEffect DEF Registered
    <2>4. QED
      BY <2>2, <2>3, UnsubscribeEffect
  <1>5. Registration'
    BY <1>2, <1>3, <1>4 DEF Registration
  <1>6. \A i \in IDs : clients'[i] # NoSession =>
          clients'[i] = clients[i] /\ clients[i] \in Sessions /\ clients[i] # s
    <2>1. \A i \in IDs : clients[i] = s => i = id[s]
      BY <1>1, <1>2 DEF ClientsMatchChannels
    <2>2. QED
      BY <1>1, <2>1, UnsubscribeEffect
  <1>7. id' = id
    BY UnsubscribeEffect
  <1>8. /\ \A i \in IDs : clients'[i] # NoSession =>
             id'[clients'[i]] = i /\ pc'[clients'[i]] \in {"stream", "write", "leave"}
        /\ \A t \in Sessions : pc'[t] \in {"stream", "write", "leave"} =>
             (Registered(t)' <=> t \notin closed')
        /\ \A t \in Sessions : pc'[t] = "ended" /\ id'[t] # 0 =>
             t \in closed' /\ ~Registered(t)'
    BY <1>2, <1>4, <1>6, <1>7 DEF ClientsMatchChannels
  <1>9. QED
    BY <1>5, <1>8 DEF ClientsMatchChannels

LEMMA CloseEffect ==
  ASSUME IInv, Close
  PROVE  Registration'
  <1>1. \A s \in Sessions : ~Registered(s)'
    BY HubAssumption DEF Close, Registered
  <1>2. \A s \in Sessions : s \in closed' => s \in closed \/ Registered(s)
    BY DEF Close
  <1>3. \A s \in Sessions : pc[s] \in {"start", "register"} => ~Registered(s)
    BY HubAssumption DEF IInv, ClientsMatchChannels, Registered
  <1>4. pc' = pc
    BY DEF Close, sessionVars
  <1>5. QED
    BY <1>1, <1>2, <1>3, <1>4 DEF IInv, Registration

\* Every step keeps the types.
LEMMA TypeNext == IInv /\ [Next]_vars => TypeOK'
  <1> SUFFICES ASSUME IInv, [Next]_vars PROVE TypeOK'
    OBVIOUS
  <1> USE HubAssumption DEF IInv, TypeOK, sessionVars, pubVars
  <1>1. ASSUME NEW s \in Sessions, Refuse(s)
        PROVE TypeOK'
    BY <1>1 DEF Refuse
  <1>2. ASSUME NEW s \in Sessions, TakeID(s)
        PROVE TypeOK'
    <2>1. nextID + 1 \in IDs
      BY <1>2, CounterBound
    <2>2. Cardinality(Sessions) \in Nat
      BY FS_CardinalityType
    <2>3. nextID' \in 0..Cardinality(Sessions)
      BY <1>2, <2>1, <2>2 DEF TakeID, IDs
    <2>4. id' \in [Sessions -> IDs \cup {0}]
      BY <1>2, <2>1 DEF TakeID
    <2>5. wants' \in [Sessions -> SUBSET Tables]
      BY <1>2 DEF TakeID
    <2>6. QED
      BY <1>2, <2>3, <2>4, <2>5 DEF TakeID
  <1>3. ASSUME NEW s \in Sessions, Register(s)
        PROVE TypeOK'
    BY <1>3 DEF Register
  <1>4. ASSUME NEW s \in Sessions, Disconnect(s)
        PROVE TypeOK'
    BY <1>4 DEF Disconnect
  <1>5. ASSUME NEW s \in Sessions, Receive(s)
        PROVE TypeOK'
    BY <1>5, ReceiveType
  <1>6. ASSUME NEW s \in Sessions, StopStreaming(s) \/ Flush(s)
        PROVE TypeOK'
    BY <1>6 DEF StopStreaming, Flush
  <1>7. ASSUME NEW s \in Sessions, Unsubscribe(s)
        PROVE TypeOK'
    BY <1>7, UnsubscribeType
  <1>8. ASSUME NEW p \in Publishers, BeginPublish(p)
        PROVE TypeOK'
    <2>1. count[p] + 1 \in 1..MaxEvents
      BY <1>8 DEF BeginPublish
    <2>2. PICK t \in Tables, a \in Actions :
            LET e == [from |-> p, n |-> count[p] + 1, table |-> t, action |-> a]
            IN cur' = [cur EXCEPT ![p] = e] /\ announced' = announced \cup {e}
      BY <1>8 DEF BeginPublish
    <2>3. [from |-> p, n |-> count[p] + 1, table |-> t, action |-> a] \in Event
      BY <2>1 DEF Event
    <2>4. cur' \in [Publishers -> Event \cup {NoEvent}] /\ announced' \subseteq Event
      BY <2>2, <2>3
    <2>5. count' \in [Publishers -> 0..MaxEvents] /\ todo' \in [Publishers -> SUBSET IDs]
      BY <1>8, <2>1 DEF BeginPublish
    <2>6. QED
      BY <1>8, <2>4, <2>5 DEF BeginPublish
  <1>9. ASSUME NEW p \in Publishers, EndPublish(p)
        PROVE TypeOK'
    BY <1>9 DEF EndPublish
  <1>10. ASSUME NEW p \in Publishers, NEW i \in IDs, Visit(p, i)
        PROVE TypeOK'
    BY <1>10, VisitType
  <1>11. ASSUME Close
        PROVE TypeOK'
    BY <1>11 DEF Close
  <1>12. CASE UNCHANGED vars
    BY <1>12 DEF vars
  <1>13. QED
    BY <1>1, <1>2, <1>3, <1>4, <1>5, <1>6, <1>7, <1>8, <1>9, <1>10, <1>11, <1>12
    DEF Next, Serve, Publish

\* Only TakeID gives out an identifier, and a new one.
LEMMA UniqueIDsNext == IInv /\ [Next]_vars => UniqueIDs'
  <1> SUFFICES ASSUME IInv, [Next]_vars PROVE UniqueIDs'
    OBVIOUS
  <1> USE HubAssumption DEF IInv, TypeOK, UniqueIDs, HasID, sessionVars, pubVars
  <1>1. ASSUME NEW s \in Sessions, Refuse(s)
        PROVE UniqueIDs'
    BY <1>1 DEF Refuse
  <1>2. ASSUME NEW s \in Sessions, TakeID(s)
        PROVE UniqueIDs'
    BY <1>2, TakeIDUnique
  <1>3. ASSUME NEW s \in Sessions, Register(s)
        PROVE UniqueIDs'
    BY <1>3 DEF Register
  <1>4. ASSUME NEW s \in Sessions, Disconnect(s)
        PROVE UniqueIDs'
    BY <1>4 DEF Disconnect
  <1>5. ASSUME NEW s \in Sessions, Receive(s)
        PROVE UniqueIDs'
    BY <1>5 DEF Receive
  <1>6. ASSUME NEW s \in Sessions, StopStreaming(s) \/ Flush(s)
        PROVE UniqueIDs'
    <2>1. CASE StopStreaming(s)
      BY <2>1 DEF StopStreaming
    <2>2. CASE Flush(s)
      BY <2>2 DEF Flush
    <2>3. QED
      BY <1>6, <2>1, <2>2
  <1>7. ASSUME NEW s \in Sessions, Unsubscribe(s)
        PROVE UniqueIDs'
    BY <1>7 DEF Unsubscribe
  <1>8. ASSUME NEW p \in Publishers, BeginPublish(p)
        PROVE UniqueIDs'
    BY <1>8 DEF BeginPublish
  <1>9. ASSUME NEW p \in Publishers, EndPublish(p)
        PROVE UniqueIDs'
    BY <1>9 DEF EndPublish
  <1>10. ASSUME NEW p \in Publishers, NEW i \in IDs, Visit(p, i)
        PROVE UniqueIDs'
    BY <1>10 DEF Visit
  <1>11. ASSUME Close
        PROVE UniqueIDs'
    BY <1>11 DEF Close
  <1>12. CASE UNCHANGED vars
    BY <1>12 DEF vars
  <1>13. QED
    BY <1>1, <1>2, <1>3, <1>4, <1>5, <1>6, <1>7, <1>8, <1>9, <1>10, <1>11, <1>12
    DEF Next, Serve, Publish

\* Only registered sessions are closed, and they leave the map then.
LEMMA RegistrationNext == IInv /\ [Next]_vars => Registration'
  <1> SUFFICES ASSUME IInv, [Next]_vars PROVE Registration'
    OBVIOUS
  <1> USE HubAssumption DEF IInv, TypeOK, UniqueIDs, Registration, ClientsMatchChannels, Registered, sessionVars, pubVars
  <1>1. ASSUME NEW s \in Sessions, Refuse(s)
        PROVE Registration'
    BY <1>1 DEF Refuse
  <1>2. ASSUME NEW s \in Sessions, TakeID(s)
        PROVE Registration'
    BY <1>2 DEF TakeID
  <1>3. ASSUME NEW s \in Sessions, Register(s)
        PROVE Registration'
    BY <1>3 DEF Register
  <1>4. ASSUME NEW s \in Sessions, Disconnect(s)
        PROVE Registration'
    BY <1>4 DEF Disconnect
  <1>5. ASSUME NEW s \in Sessions, Receive(s)
        PROVE Registration'
    BY <1>5 DEF Receive
  <1>6. ASSUME NEW s \in Sessions, StopStreaming(s) \/ Flush(s)
        PROVE Registration'
    BY <1>6 DEF StopStreaming, Flush
  <1>7. ASSUME NEW s \in Sessions, Unsubscribe(s)
        PROVE Registration'
    BY <1>7, UnsubscribeKeepsRegistration
  <1>8. ASSUME NEW p \in Publishers, BeginPublish(p)
        PROVE Registration'
    BY <1>8 DEF BeginPublish
  <1>9. ASSUME NEW p \in Publishers, EndPublish(p)
        PROVE Registration'
    BY <1>9 DEF EndPublish
  <1>10. ASSUME NEW p \in Publishers, NEW i \in IDs, Visit(p, i)
        PROVE Registration'
    BY <1>10 DEF Visit
  <1>11. ASSUME Close
        PROVE Registration'
    BY <1>11, CloseEffect
  <1>12. CASE UNCHANGED vars
    BY <1>12 DEF vars
  <1>13. QED
    BY <1>1, <1>2, <1>3, <1>4, <1>5, <1>6, <1>7, <1>8, <1>9, <1>10, <1>11, <1>12
    DEF Next, Serve, Publish

\* The map and the channels change together, under the write lock.
LEMMA ClientsNext == IInv /\ [Next]_vars => ClientsMatchChannels'
  <1> SUFFICES ASSUME IInv, [Next]_vars PROVE ClientsMatchChannels'
    OBVIOUS
  <1> USE HubAssumption DEF IInv, TypeOK, UniqueIDs, Registration, ClientsMatchChannels, Registered, sessionVars, pubVars
  <1>1. ASSUME NEW s \in Sessions, Refuse(s)
        PROVE ClientsMatchChannels'
    BY <1>1 DEF Refuse
  <1>2. ASSUME NEW s \in Sessions, TakeID(s)
        PROVE ClientsMatchChannels'
    BY <1>2 DEF TakeID
  <1>3. ASSUME NEW s \in Sessions, Register(s)
        PROVE ClientsMatchChannels'
    BY <1>3 DEF Register
  <1>4. ASSUME NEW s \in Sessions, Disconnect(s)
        PROVE ClientsMatchChannels'
    BY <1>4 DEF Disconnect
  <1>5. ASSUME NEW s \in Sessions, Receive(s)
        PROVE ClientsMatchChannels'
    BY <1>5 DEF Receive
  <1>6. ASSUME NEW s \in Sessions, StopStreaming(s) \/ Flush(s)
        PROVE ClientsMatchChannels'
    <2>1. CASE StopStreaming(s)
      BY <2>1 DEF StopStreaming
    <2>2. CASE Flush(s)
      BY <2>2 DEF Flush
    <2>3. QED
      BY <1>6, <2>1, <2>2
  <1>7. ASSUME NEW s \in Sessions, Unsubscribe(s)
        PROVE ClientsMatchChannels'
    BY <1>7, UnsubscribeKeepsRegistration
  <1>8. ASSUME NEW p \in Publishers, BeginPublish(p)
        PROVE ClientsMatchChannels'
    BY <1>8 DEF BeginPublish
  <1>9. ASSUME NEW p \in Publishers, EndPublish(p)
        PROVE ClientsMatchChannels'
    BY <1>9 DEF EndPublish
  <1>10. ASSUME NEW p \in Publishers, NEW i \in IDs, Visit(p, i)
        PROVE ClientsMatchChannels'
    BY <1>10 DEF Visit
  <1>11. ASSUME Close
        PROVE ClientsMatchChannels'
    BY <1>11 DEF Close
  <1>12. CASE UNCHANGED vars
    BY <1>12 DEF vars
  <1>13. QED
    BY <1>1, <1>2, <1>3, <1>4, <1>5, <1>6, <1>7, <1>8, <1>9, <1>10, <1>11, <1>12
    DEF Next, Serve, Publish

\* The map does not change while a publisher walks it.
LEMMA ReadLockedNext == IInv /\ [Next]_vars => ReadLocked'
  <1> SUFFICES ASSUME IInv, [Next]_vars PROVE ReadLocked'
    OBVIOUS
  <1> USE HubAssumption DEF IInv, TypeOK, ReadLocked, WriteLockFree, sessionVars, pubVars
  <1>1. ASSUME NEW s \in Sessions, Refuse(s)
        PROVE ReadLocked'
    BY <1>1 DEF Refuse
  <1>2. ASSUME NEW s \in Sessions, TakeID(s)
        PROVE ReadLocked'
    BY <1>2 DEF TakeID
  <1>3. ASSUME NEW s \in Sessions, Register(s)
        PROVE ReadLocked'
    BY <1>3 DEF Register
  <1>4. ASSUME NEW s \in Sessions, Disconnect(s)
        PROVE ReadLocked'
    BY <1>4 DEF Disconnect
  <1>5. ASSUME NEW s \in Sessions, Receive(s)
        PROVE ReadLocked'
    BY <1>5 DEF Receive
  <1>6. ASSUME NEW s \in Sessions, StopStreaming(s) \/ Flush(s)
        PROVE ReadLocked'
    BY <1>6 DEF StopStreaming, Flush
  <1>7. ASSUME NEW s \in Sessions, Unsubscribe(s)
        PROVE ReadLocked'
    BY <1>7 DEF Unsubscribe
  <1>8. ASSUME NEW p \in Publishers, BeginPublish(p)
        PROVE ReadLocked'
    <2>1. cur'[p] \in Event
      <3>1. PICK t \in Tables, a \in Actions :
              cur' = [cur EXCEPT ![p] = [from |-> p, n |-> count[p] + 1,
                                         table |-> t, action |-> a]]
        BY <1>8 DEF BeginPublish
      <3>2. count[p] + 1 \in 1..MaxEvents
        BY <1>8 DEF BeginPublish
      <3>3. QED
        BY <3>1, <3>2 DEF Event
    <2>2. \A q \in Publishers : q # p => cur'[q] = cur[q]
      BY <1>8 DEF BeginPublish
    <2>3. QED
      BY <1>8, <2>1, <2>2 DEF BeginPublish
  <1>9. ASSUME NEW p \in Publishers, EndPublish(p)
        PROVE ReadLocked'
    BY <1>9 DEF EndPublish
  <1>10. ASSUME NEW p \in Publishers, NEW i \in IDs, Visit(p, i)
        PROVE ReadLocked'
    BY <1>10 DEF Visit
  <1>11. ASSUME Close
        PROVE ReadLocked'
    BY <1>11 DEF Close
  <1>12. CASE UNCHANGED vars
    BY <1>12 DEF vars
  <1>13. QED
    BY <1>1, <1>2, <1>3, <1>4, <1>5, <1>6, <1>7, <1>8, <1>9, <1>10, <1>11, <1>12
    DEF Next, Serve, Publish

\* Channels in the map are open.
LEMMA NoPanicNext == IInv /\ [Next]_vars => NoPanic'
  <1> SUFFICES ASSUME IInv, [Next]_vars PROVE NoPanic'
    OBVIOUS
  <1> USE HubAssumption DEF IInv, TypeOK, UniqueIDs, Registration, ClientsMatchChannels, ReadLocked, NoPanic, Registered, sessionVars, pubVars
  <1>1. ASSUME NEW s \in Sessions, Refuse(s)
        PROVE NoPanic'
    BY <1>1 DEF Refuse
  <1>2. ASSUME NEW s \in Sessions, TakeID(s)
        PROVE NoPanic'
    BY <1>2 DEF TakeID
  <1>3. ASSUME NEW s \in Sessions, Register(s)
        PROVE NoPanic'
    BY <1>3 DEF Register
  <1>4. ASSUME NEW s \in Sessions, Disconnect(s)
        PROVE NoPanic'
    BY <1>4 DEF Disconnect
  <1>5. ASSUME NEW s \in Sessions, Receive(s)
        PROVE NoPanic'
    BY <1>5 DEF Receive
  <1>6. ASSUME NEW s \in Sessions, StopStreaming(s) \/ Flush(s)
        PROVE NoPanic'
    BY <1>6 DEF StopStreaming, Flush
  <1>7. ASSUME NEW s \in Sessions, Unsubscribe(s)
        PROVE NoPanic'
    BY <1>7 DEF Unsubscribe
  <1>8. ASSUME NEW p \in Publishers, BeginPublish(p)
        PROVE NoPanic'
    BY <1>8 DEF BeginPublish
  <1>9. ASSUME NEW p \in Publishers, EndPublish(p)
        PROVE NoPanic'
    BY <1>9 DEF EndPublish
  <1>10. ASSUME NEW p \in Publishers, NEW i \in IDs, Visit(p, i)
        PROVE NoPanic'
    BY <1>10 DEF Visit
  <1>11. ASSUME Close
        PROVE NoPanic'
    BY <1>11 DEF Close
  <1>12. CASE UNCHANGED vars
    BY <1>12 DEF vars
  <1>13. QED
    BY <1>1, <1>2, <1>3, <1>4, <1>5, <1>6, <1>7, <1>8, <1>9, <1>10, <1>11, <1>12
    DEF Next, Serve, Publish

-----------------------------------------------------------------------------
THEOREM HubInvariant == Spec => []IInv
  <1>1. IInv /\ [Next]_vars => IInv'
    BY TypeNext, UniqueIDsNext, RegistrationNext, ClientsNext, ReadLockedNext, NoPanicNext
    DEF IInv
  <1>2. QED
    BY InitInv, <1>1, PTL DEF Spec

\* No interleaving of Subscribe, Unsubscribe, Publish and Close, however often
\* Close is called, closes a channel twice or sends on a closed one.
THEOREM HubNeverPanics == Spec => []NoPanic
  <1>1. IInv => NoPanic
    BY DEF IInv
  <1>2. QED
    BY <1>1, HubInvariant, PTL

\* A client is in the map exactly as long as its channel is open, and a handler
\* that returned leaves neither behind.
THEOREM HubLeaksNoClient == Spec => []ClientsMatchChannels
  <1>1. IInv => ClientsMatchChannels
    BY DEF IInv
  <1>2. QED
    BY <1>1, HubInvariant, PTL

\* The hub's state stays well typed; in particular no channel ever holds more
\* than eventBufferSize events.
THEOREM HubTypes == Spec => []TypeOK
  <1>1. IInv => TypeOK
    BY DEF IInv
  <1>2. QED
    BY <1>1, HubInvariant, PTL

-----------------------------------------------------------------------------
(***************************************************************************)
(* What NobodyWaits rests on, beside the scheduler's fairness: whoever is  *)
(* about to finish has ever less to do, and nobody gives it more.          *)
(***************************************************************************)
\* A publication visits the clients that were in the map when it began, each once,
\* and the map stays as it is meanwhile.
VisitsShrink(p) ==
  ppc[p] = "sending" =>
    /\ UNCHANGED clients
    /\ \/ UNCHANGED <<ppc[p], todo[p]>>
       \/ ppc'[p] = "sending" /\ \E i \in todo[p] : todo'[p] = todo[p] \ {i}
       \/ ppc'[p] = "idle" /\ todo[p] = {}

\* The channel of a session that Close, or the end of another holder of its entry,
\* closed is only drained, an event for each write, and the session only goes on
\* to its end.
ClosedDrain(s) ==
  s \in closed =>
    /\ s \in closed'
    /\ chan'[s] \in {chan[s], Tail(chan[s])}
    /\ \/ pc'[s] = pc[s]
       \/ pc[s] = "stream" /\ pc'[s] = "write" /\ chan[s] # <<>> /\ chan'[s] = Tail(chan[s])
       \/ pc[s] = "write" /\ pc'[s] = "stream"
       \/ pc[s] = "stream" /\ pc'[s] = "leave"
       \/ pc[s] = "leave" /\ pc'[s] = "ended"

\* A session whose client is gone does not come back to its events.
GoneLeave(s) == s \in gone => s \in gone' /\ (pc[s] = "leave" => pc'[s] \in {"leave", "ended"})

FinishersAdvance ==
  [][/\ \A p \in Publishers : VisitsShrink(p)
     /\ \A s \in Sessions : ClosedDrain(s) /\ GoneLeave(s)]_vars

\* However the hub's goroutines interleave: no session that subscribes, leaves or
\* is slow gives a publication more to do, and no publication puts another event
\* into a channel that is closed (Publish under the read lock, Close and Unsubscribe
\* under the write lock).
THEOREM FinishersAreNotHeldUp == Spec => FinishersAdvance
  <1> DEFINE Advance == /\ \A p \in Publishers : VisitsShrink(p)
                        /\ \A s \in Sessions : ClosedDrain(s) /\ GoneLeave(s)
  <1>1. IInv /\ [Next]_vars => Advance
    <2> SUFFICES ASSUME IInv, [Next]_vars PROVE Advance
      OBVIOUS
    <2> USE DEF VisitsShrink, ClosedDrain, GoneLeave
    <2>1. TypeOK /\ \A s \in closed : s \in Sessions /\ pc[s] \notin {"start", "register"}
      BY DEF IInv, TypeOK, Registration
    <2>2. ASSUME NEW s \in Sessions, TakeID(s) \/ Refuse(s) \/ Receive(s) \/ Flush(s) \/ StopStreaming(s)
          PROVE  Advance
      <3>1. UNCHANGED <<clients, ppc, todo, closed, gone>>
        BY <2>2 DEF TakeID, Refuse, Receive, Flush, StopStreaming, pubVars
      <3>2. \A t \in Sessions : t # s => pc'[t] = pc[t] /\ chan'[t] = chan[t]
        BY <2>1, <2>2 DEF TakeID, Refuse, Receive, Flush, StopStreaming, TypeOK
      <3>3. s \in closed => /\ chan'[s] \in {chan[s], Tail(chan[s])}
                            /\ \/ pc'[s] = pc[s]
                               \/ pc[s] = "stream" /\ pc'[s] = "leave"
                               \/ pc[s] = "write" /\ pc'[s] = "stream"
                               \/ /\ pc[s] = "stream" /\ pc'[s] = "write"
                                  /\ chan[s] # <<>> /\ chan'[s] = Tail(chan[s])
        BY <2>1, <2>2 DEF TakeID, Refuse, Receive, Flush, StopStreaming, TypeOK
      <3>4. pc[s] # "leave"
        BY <2>2 DEF TakeID, Refuse, Receive, Flush, StopStreaming
      <3>5. QED
        BY <3>1, <3>2, <3>3, <3>4, <2>1
    <2>3. ASSUME NEW s \in Sessions, Register(s) \/ Unsubscribe(s) \/ Disconnect(s) PROVE Advance
      <3>1. UNCHANGED <<chan, ppc, todo>> /\ closed \subseteq closed' /\ gone \subseteq gone'
        BY <2>3 DEF Register, Unsubscribe, Disconnect, pubVars
      <3>2. \A t \in Sessions : t # s => pc'[t] = pc[t]
        BY <2>1, <2>3 DEF Register, Unsubscribe, Disconnect, TypeOK
      <3>3. \/ pc'[s] = pc[s]
            \/ pc[s] = "register"
            \/ pc[s] = "leave" /\ pc'[s] = "ended"
        BY <2>1, <2>3 DEF Register, Unsubscribe, Disconnect, TypeOK
      <3>4. UNCHANGED clients \/ WriteLockFree
        BY <2>3 DEF Register, Unsubscribe, Disconnect
      <3>5. QED
        BY <3>1, <3>2, <3>3, <3>4, <2>1 DEF WriteLockFree
    <2>4. ASSUME NEW p \in Publishers, BeginPublish(p) \/ EndPublish(p) PROVE Advance
      <3>1. UNCHANGED <<clients, chan, pc, closed, gone>>
        BY <2>4 DEF BeginPublish, EndPublish, sessionVars
      <3>2. \A q \in Publishers : q # p => ppc'[q] = ppc[q] /\ todo'[q] = todo[q]
        BY <2>1, <2>4 DEF BeginPublish, EndPublish, TypeOK
      <3>3. ppc[p] = "sending" => ppc'[p] = "idle" /\ todo[p] = {}
        BY <2>1, <2>4 DEF BeginPublish, EndPublish, TypeOK
      <3>4. QED
        BY <3>1, <3>2, <3>3
    <2>5. ASSUME NEW p \in Publishers, NEW i \in IDs, Visit(p, i) PROVE Advance
      <3>1. UNCHANGED <<clients, pc, closed, gone, ppc>>
        BY <2>5 DEF Visit, sessionVars
      <3>2. /\ \A q \in Publishers : q # p => todo'[q] = todo[q]
            /\ todo'[p] = todo[p] \ {i} /\ i \in todo[p]
        BY <2>1, <2>5 DEF Visit, TypeOK
      <3>3. Registered(clients[i]) /\ clients[i] \in Sessions
        BY <2>1, <2>5 DEF IInv, ReadLocked, Visit, Registered, TypeOK
      <3>4. clients[i] \notin closed
        BY <3>3 DEF IInv, Registration
      <3>5. \A s \in Sessions : s # clients[i] => chan'[s] = chan[s]
        BY <2>1, <2>5 DEF Visit, TypeOK
      <3>6. QED
        BY <3>1, <3>2, <3>4, <3>5
    <2>6. CASE Close
      <3>1. UNCHANGED <<chan, pc, gone, ppc, todo>> /\ closed \subseteq closed' /\ WriteLockFree
        BY <2>6 DEF Close, sessionVars, pubVars
      <3>2. QED
        BY <3>1 DEF WriteLockFree
    <2>7. CASE UNCHANGED vars
      BY <2>7 DEF vars, sessionVars, pubVars
    <2>8. QED
      BY <2>2, <2>3, <2>4, <2>5, <2>6, <2>7 DEF Next, Serve, Publish
  <1>2. QED
    BY HubInvariant, <1>1, PTL DEF Spec, FinishersAdvance

-----------------------------------------------------------------------------
(***************************************************************************)
(* What each client is brought.                                            *)
(***************************************************************************)
Holds(q, e) == \E j \in DOMAIN q : q[j] = e
Brought(s, e) == Holds(chan[s], e) \/ Holds(got[s], e) \/ e \in seen[s] \/ e \in lost[s]

\* A publisher's events are numbered, and nothing is brought before it is begun.
Begun ==
  /\ \A p \in Publishers : ppc[p] = "sending" => cur[p].from = p /\ cur[p].n = count[p]
  /\ \A e \in announced : e.n <= count[e.from]
  /\ \A s \in Sessions, e \in Event : Brought(s, e) => e.n <= count[e.from]

\* A client a publisher has still to visit was brought only its earlier events.
Unvisited ==
  \A p \in Publishers : \A i \in todo[p] : ppc[p] = "sending" =>
    \A e \in Event : Brought(clients[i], e) /\ e.from = p => e.n < count[p]

DInv == Begun /\ Unvisited /\ SlowClientsLoseAlone

LEMMA HoldsAppend ==
  ASSUME NEW q \in Seq(Event), NEW e \in Event
  PROVE  \A x : Holds(Append(q, e), x) <=> Holds(q, x) \/ x = e
  <1>1. /\ DOMAIN Append(q, e) = 1..(Len(q) + 1) /\ DOMAIN q = 1..Len(q) /\ Len(q) \in Nat
        /\ Append(q, e)[Len(q) + 1] = e
        /\ \A j \in 1..Len(q) : Append(q, e)[j] = q[j]
    OBVIOUS
  <1>2. \A j : j \in 1..(Len(q) + 1) <=> j \in 1..Len(q) \/ j = Len(q) + 1
    BY <1>1
  <1>3. QED
    BY <1>1, <1>2 DEF Holds

LEMMA HoldsTail ==
  ASSUME NEW q \in Seq(Event), q # <<>>
  PROVE  \A x : Holds(q, x) <=> x = Head(q) \/ Holds(Tail(q), x)
  <1>1. /\ DOMAIN Tail(q) = 1..(Len(q) - 1) /\ DOMAIN q = 1..Len(q) /\ Len(q) \in Nat \ {0}
        /\ Head(q) = q[1]
        /\ \A j \in 1..(Len(q) - 1) : Tail(q)[j] = q[j + 1]
    OBVIOUS
  <1>2. \A j \in 1..Len(q) : j = 1 \/ (j - 1 \in 1..(Len(q) - 1) /\ q[j] = Tail(q)[j - 1])
    BY <1>1
  <1>3. \A j \in 1..(Len(q) - 1) : j + 1 \in 1..Len(q)
    BY <1>1
  <1>4. 1 \in 1..Len(q)
    BY <1>1
  <1>5. QED
    BY <1>1, <1>2, <1>3, <1>4 DEF Holds

\* Receive keeps what a client was brought: it leaves the channel for the client,
\* or for what canSeeRecord hid.
LEMMA ReceiveBringsNothing ==
  ASSUME IInv, NEW s \in Sessions, Receive(s)
  PROVE  \A t \in Sessions, x \in Event : Brought(t, x)' <=> Brought(t, x)
  <1>1. /\ chan[s] \in Seq(Event) /\ chan[s] # <<>> /\ got[s] \in Seq(Event)
        /\ chan \in [Sessions -> Queues] /\ got \in [Sessions -> Seq(Event)]
        /\ seen \in [Sessions -> SUBSET Event]
    BY DEF IInv, TypeOK, Queues, Receive
  <1> DEFINE e == Head(chan[s])
  <1>2. e \in Event
    BY <1>1
  <1>3. \A x : Holds(chan[s], x) <=> x = e \/ Holds(Tail(chan[s]), x)
    BY <1>1, HoldsTail
  <1>4. \A x : Holds(Append(got[s], e), x) <=> Holds(got[s], x) \/ x = e
    BY <1>1, <1>2, HoldsAppend
  <1>5. /\ chan' = [chan EXCEPT ![s] = Tail(chan[s])] /\ lost' = lost
        /\ \/ got' = [got EXCEPT ![s] = Append(got[s], e)] /\ seen' = seen
           \/ seen' = [seen EXCEPT ![s] = seen[s] \cup {e}] /\ got' = got
    BY DEF Receive
  <1> HIDE DEF e
  <1>6. ASSUME NEW t \in Sessions, NEW x \in Event PROVE Brought(t, x)' <=> Brought(t, x)
    <2>1. CASE t # s
      <3>1. chan'[t] = chan[t] /\ got'[t] = got[t] /\ seen'[t] = seen[t] /\ lost'[t] = lost[t]
        BY <1>1, <1>5, <2>1
      <3>2. QED
        BY <3>1 DEF Brought, Holds
    <2>2. CASE t = s
      <3>1. /\ chan'[s] = Tail(chan[s]) /\ lost'[s] = lost[s]
            /\ \/ got'[s] = Append(got[s], e) /\ seen'[s] = seen[s]
               \/ got'[s] = got[s] /\ seen'[s] = seen[s] \cup {e}
        BY <1>1, <1>5
      <3>2. Brought(s, x)' <=> \/ Holds(chan'[s], x) \/ Holds(got'[s], x)
                               \/ x \in seen'[s] \/ x \in lost'[s]
        BY DEF Brought, Holds
      <3>3. QED
        BY <1>3, <1>4, <2>2, <3>1, <3>2 DEF Brought
    <2>3. QED
      BY <2>1, <2>2
  <1>7. QED
    BY <1>6

\* Visit brings its event to its client, if that asked for the table.
LEMMA VisitBrings ==
  ASSUME IInv, NEW p \in Publishers, NEW i \in IDs, Visit(p, i)
  PROVE  \A t \in Sessions, x \in Event :
           Brought(t, x)' <=> \/ Brought(t, x)
                              \/ t = clients[i] /\ x = cur[p] /\ cur[p].table \in wants[t]
  <1>1. PICK s \in Sessions, e \in Event : s = clients[i] /\ e = cur[p]
    BY DEF IInv, TypeOK, Visit, ReadLocked
  <1>2. /\ chan[s] \in Seq(Event) /\ chan \in [Sessions -> Queues]
        /\ lost \in [Sessions -> SUBSET Event]
    BY <1>1 DEF IInv, TypeOK, Queues
  <1>3. \A x : Holds(Append(chan[s], e), x) <=> Holds(chan[s], x) \/ x = e
    BY <1>1, <1>2, HoldsAppend
  <1>4. /\ got' = got /\ seen' = seen
        /\ \/ e.table \notin wants[s] /\ chan' = chan /\ lost' = lost
           \/ /\ e.table \in wants[s] /\ lost' = lost
              /\ chan' = [chan EXCEPT ![s] = Append(chan[s], e)]
           \/ /\ e.table \in wants[s] /\ chan' = chan
              /\ lost' = [lost EXCEPT ![s] = lost[s] \cup {e}]
    BY <1>1 DEF Visit, sessionVars
  <1>5. ASSUME NEW t \in Sessions, NEW x \in Event
        PROVE Brought(t, x)' <=> Brought(t, x) \/ (t = s /\ x = e /\ e.table \in wants[t])
    <2>1. CASE t # s
      <3>1. chan'[t] = chan[t] /\ got'[t] = got[t] /\ seen'[t] = seen[t] /\ lost'[t] = lost[t]
        BY <1>1, <1>2, <1>4, <2>1
      <3>2. QED
        BY <2>1, <3>1 DEF Brought, Holds
    <2>2. CASE t = s
      <3>1. /\ got'[s] = got[s] /\ seen'[s] = seen[s]
            /\ \/ e.table \notin wants[s] /\ chan'[s] = chan[s] /\ lost'[s] = lost[s]
               \/ e.table \in wants[s] /\ chan'[s] = Append(chan[s], e) /\ lost'[s] = lost[s]
               \/ e.table \in wants[s] /\ chan'[s] = chan[s] /\ lost'[s] = lost[s] \cup {e}
        BY <1>1, <1>2, <1>4
      <3>2. Brought(s, x)' <=> \/ Holds(chan'[s], x) \/ Holds(got'[s], x)
                               \/ x \in seen'[s] \/ x \in lost'[s]
        BY DEF Brought, Holds
      <3>3. QED
        BY <1>3, <2>2, <3>1, <3>2 DEF Brought
    <2>3. QED
      BY <2>1, <2>2
  <1>6. QED
    BY <1>1, <1>5

LEMMA InitDelivered == Init => DInv
  <1> SUFFICES ASSUME Init PROVE DInv
    OBVIOUS
  <1>1. \A s \in Sessions, e \in Event : ~Brought(s, e)
    BY DEF Init, Brought, Holds
  <1>2. announced = {} /\ \A p \in Publishers : ppc[p] # "sending"
    BY DEF Init
  <1>3. Begun
    BY <1>1, <1>2 DEF Begun
  <1>4. Unvisited /\ SlowClientsLoseAlone
    BY <1>2 DEF Unvisited, SlowClientsLoseAlone
  <1>5. QED
    BY <1>3, <1>4 DEF DInv

\* A step that neither brings anything nor publishes keeps what was brought; while
\* somebody publishes, it leaves the map alone and the tables of those in it.
LEMMA OthersKeepDelivered ==
  ASSUME IInv, DInv,
         UNCHANGED <<ppc, count, cur, todo, announced>>,
         \A s \in Sessions, x \in Event : Brought(s, x)' <=> Brought(s, x),
         \A p \in Publishers : ppc[p] = "sending" =>
           clients' = clients /\ \A i \in IDs : clients[i] # NoSession => wants'[clients[i]] = wants[clients[i]]
  PROVE  DInv'
  <1>1. /\ clients \in [IDs -> Sessions \cup {NoSession}] /\ todo \in [Publishers -> SUBSET IDs]
        /\ announced \subseteq Event
    BY DEF IInv, TypeOK
  <1>2. Begun'
    BY <1>1 DEF DInv, Begun
  <1>3. Unvisited'
    <2> SUFFICES ASSUME NEW p \in Publishers, NEW i \in todo[p], ppc[p] = "sending",
                        NEW e \in Event, Brought(clients[i], e)', e.from = p
                 PROVE  e.n < count[p]
      BY DEF Unvisited
    <2>1. PICK s \in Sessions : s = clients[i] /\ clients' = clients
      BY <1>1 DEF IInv, ReadLocked
    <2>2. Brought(s, e)'
      BY <2>1 DEF Brought, Holds
    <2>3. Brought(s, e)
      BY <2>2
    <2>4. QED
      BY <2>1, <2>3 DEF DInv, Unvisited
  <1>4. SlowClientsLoseAlone'
    <2> SUFFICES ASSUME NEW p \in Publishers, NEW i \in IDs,
                        ppc[p] = "sending", i \notin todo[p], clients'[i] # NoSession
                 PROVE  (LET s == clients[i]
                             e == cur[p]
                             Has(q) == \E j \in DOMAIN q : q[j] = e
                         IN e.table \in wants[s]
                              <=> Has(chan[s]) \/ Has(got[s]) \/ e \in seen[s] \cup lost[s])'
      BY DEF SlowClientsLoseAlone
    <2>1. PICK s \in Sessions, e \in Event : s = clients[i] /\ e = cur[p]
      BY <1>1 DEF IInv, ReadLocked
    <2>2. /\ clients'[i] = s /\ cur'[p] = e /\ clients[i] # NoSession
          /\ wants'[s] = wants[s]
      BY <2>1
    <2>3. e.table \in wants[s] <=> Brought(s, e)
      BY <2>1, <2>2 DEF DInv, SlowClientsLoseAlone, Brought, Holds
    <2>4. Brought(s, e)' <=> Brought(s, e)
      OBVIOUS
    <2>5. e.table \in wants'[s] <=> Brought(s, e)'
      BY <2>2, <2>3, <2>4
    <2>6. QED
      BY <2>2, <2>5 DEF Brought, Holds
  <1>5. QED
    BY <1>2, <1>3, <1>4 DEF DInv

LEMMA BeginDelivered ==
  ASSUME IInv, DInv, NEW p \in Publishers, BeginPublish(p)
  PROVE  DInv'
  <1>1. /\ count \in [Publishers -> Nat] /\ todo \in [Publishers -> SUBSET IDs]
        /\ announced \subseteq Event /\ cur \in [Publishers -> Event \cup {NoEvent}]
        /\ ppc \in [Publishers -> {"idle", "sending"}]
        /\ clients \in [IDs -> Sessions \cup {NoSession}]
    BY HubAssumption DEF IInv, TypeOK
  <1>2. /\ ppc' = [ppc EXCEPT ![p] = "sending"] /\ count' = [count EXCEPT ![p] = count[p] + 1]
        /\ todo' = [todo EXCEPT ![p] = {i \in IDs : clients[i] # NoSession}]
        /\ UNCHANGED <<clients, chan, got, seen, lost, wants>>
    BY DEF BeginPublish, sessionVars
  <1>3. PICK e \in Event : /\ e.from = p /\ e.n = count[p] + 1
                           /\ cur' = [cur EXCEPT ![p] = e] /\ announced' = announced \cup {e}
    <2>1. PICK t \in Tables, a \in Actions :
            LET e == [from |-> p, n |-> count[p] + 1, table |-> t, action |-> a]
            IN cur' = [cur EXCEPT ![p] = e] /\ announced' = announced \cup {e}
      BY DEF BeginPublish
    <2>2. count[p] + 1 \in 1..MaxEvents
      BY <1>1, HubAssumption DEF BeginPublish
    <2>3. [from |-> p, n |-> count[p] + 1, table |-> t, action |-> a] \in Event
      BY <2>2 DEF Event
    <2>4. QED
      BY <2>1, <2>3
  <1>4. \A s \in Sessions, x \in Event : Brought(s, x)' <=> Brought(s, x)
    BY <1>2 DEF Brought, Holds
  <1>5. \A x \in Event : x.from \in Publishers /\ x.n \in Nat
    BY HubAssumption DEF Event
  <1>6. \A q \in Publishers : count[q] <= count'[q] /\ count'[p] = count[p] + 1
    BY <1>1, <1>2
  <1>7. Begun'
    <2>1. \A q \in Publishers : ppc'[q] = "sending" => cur'[q].from = q /\ cur'[q].n = count'[q]
      <3> TAKE q \in Publishers
      <3>1. CASE q = p
        BY <1>1, <1>2, <1>3, <3>1
      <3>2. CASE q # p
        <4>1. ppc'[q] = ppc[q] /\ cur'[q] = cur[q] /\ count'[q] = count[q]
          BY <1>1, <1>2, <1>3, <3>2
        <4>2. QED
          BY <4>1 DEF DInv, Begun
      <3>3. QED
        BY <3>1, <3>2
    <2>2. \A x \in announced' : x.n <= count'[x.from]
      <3> TAKE x \in announced'
      <3>1. CASE x = e
        BY <1>1, <1>3, <1>6, <3>1
      <3>2. CASE x \in announced
        <4>1. x.n <= count[x.from] /\ x \in Event
          BY <1>1, <3>2 DEF DInv, Begun
        <4>2. x.from \in Publishers /\ x.n \in Nat
          BY <4>1, <1>5
        <4>3. count[x.from] <= count'[x.from] /\ count[x.from] \in Nat /\ count'[x.from] \in Nat
          BY <1>1, <1>2, <1>6, <4>2
        <4>4. QED
          BY <4>1, <4>2, <4>3
      <3>3. QED
        BY <1>3, <3>1, <3>2
    <2>3. \A s \in Sessions, x \in Event : Brought(s, x)' => x.n <= count'[x.from]
      <3> TAKE s \in Sessions, x \in Event
      <3> HAVE Brought(s, x)'
      <3>1. x.n <= count[x.from]
        BY <1>4 DEF DInv, Begun
      <3>2. x.from \in Publishers /\ x.n \in Nat
        BY <1>5
      <3>3. count[x.from] <= count'[x.from] /\ count[x.from] \in Nat /\ count'[x.from] \in Nat
        BY <1>1, <1>2, <1>6, <3>2
      <3>4. QED
        BY <3>1, <3>2, <3>3
    <2>4. QED
      BY <2>1, <2>2, <2>3 DEF Begun
  <1>8. Unvisited'
    <2> SUFFICES ASSUME NEW q \in Publishers, NEW i \in todo'[q], ppc'[q] = "sending",
                        NEW x \in Event, Brought(clients[i], x)', x.from = q
                 PROVE  x.n < count'[q]
      BY DEF Unvisited
    <2>1. i \in IDs /\ clients[i] # NoSession
      BY <1>1, <1>2 DEF IInv, ReadLocked
    <2>2. PICK s \in Sessions : s = clients[i] /\ clients' = clients
      BY <1>1, <1>2, <2>1
    <2>3. Brought(s, x)
      BY <1>4, <2>2 DEF Brought, Holds
    <2>4. CASE q = p
      <3>1. x.n <= count[p]
        BY <2>3, <2>4 DEF DInv, Begun
      <3>2. QED
        BY <1>1, <1>5, <1>6, <2>4, <3>1
    <2>5. CASE q # p
      <3>1. i \in todo[q] /\ ppc[q] = "sending" /\ count'[q] = count[q]
        BY <1>1, <1>2, <2>5
      <3>2. QED
        BY <2>2, <2>3, <3>1 DEF DInv, Unvisited
    <2>6. QED
      BY <2>4, <2>5
  <1>9. SlowClientsLoseAlone'
    <2> SUFFICES ASSUME NEW q \in Publishers, NEW i \in IDs,
                        ppc'[q] = "sending", i \notin todo'[q], clients'[i] # NoSession
                 PROVE  (LET s == clients[i]
                             x == cur[q]
                             Has(r) == \E j \in DOMAIN r : r[j] = x
                         IN x.table \in wants[s]
                              <=> Has(chan[s]) \/ Has(got[s]) \/ x \in seen[s] \cup lost[s])'
      BY DEF SlowClientsLoseAlone
    <2>1. q # p /\ ppc[q] = "sending" /\ i \notin todo[q] /\ cur'[q] = cur[q]
      BY <1>1, <1>2, <1>3
    <2>2. QED
      BY <1>2, <2>1 DEF DInv, SlowClientsLoseAlone
  <1>10. QED
    BY <1>7, <1>8, <1>9 DEF DInv

LEMMA VisitDelivered ==
  ASSUME IInv, DInv, NEW p \in Publishers, NEW i \in IDs, Visit(p, i)
  PROVE  DInv'
  <1>1. PICK s \in Sessions, e \in Event : s = clients[i] /\ e = cur[p]
    BY DEF IInv, TypeOK, Visit, ReadLocked
  <1>2. /\ ppc[p] = "sending" /\ i \in todo[p] /\ todo' = [todo EXCEPT ![p] = todo[p] \ {i}]
        /\ UNCHANGED <<clients, wants, ppc, cur, count, announced>>
    BY DEF Visit, sessionVars
  <1>3. \A t \in Sessions, x \in Event :
          Brought(t, x)' <=> Brought(t, x) \/ (t = s /\ x = e /\ e.table \in wants[s])
    BY <1>1, VisitBrings
  <1>4. e.from = p /\ e.n = count[p] /\ count[p] \in Nat
    BY <1>1, <1>2, HubAssumption DEF DInv, Begun, IInv, TypeOK
  <1>5. ~Brought(s, e)
    BY <1>1, <1>2, <1>4 DEF DInv, Unvisited
  <1>6. /\ todo \in [Publishers -> SUBSET IDs] /\ clients \in [IDs -> Sessions \cup {NoSession}]
        /\ \A j \in IDs : clients[j] = s => j = i
    <2>1. s \in Sessions /\ s # NoSession
      BY <1>1, HubAssumption
    <2>2. \A j \in IDs : clients[j] # NoSession => id[clients[j]] = j
      BY DEF IInv, ClientsMatchChannels
    <2>3. QED
      BY <1>1, <2>1, <2>2 DEF IInv, TypeOK
  <1>7. Begun'
    BY <1>2, <1>3, <1>4 DEF DInv, Begun
  <1>8. Unvisited'
    <2> SUFFICES ASSUME NEW q \in Publishers, NEW j \in todo'[q], ppc[q] = "sending",
                        NEW x \in Event, Brought(clients[j], x)', x.from = q
                 PROVE  x.n < count[q]
      BY <1>2 DEF Unvisited
    <2>1. j \in todo[q] /\ j \in IDs /\ (q = p => j # i)
      BY <1>2, <1>6
    <2>2. PICK t \in Sessions : t = clients[j]
      BY <1>6, <2>1 DEF IInv, ReadLocked
    <2>3. Brought(t, x)'
      BY <1>2, <2>2 DEF Brought, Holds
    <2>4. Brought(t, x)
      BY <1>3, <1>4, <1>6, <2>1, <2>2, <2>3
    <2>5. QED
      BY <2>1, <2>2, <2>4 DEF DInv, Unvisited
  <1>9. SlowClientsLoseAlone'
    <2> SUFFICES ASSUME NEW q \in Publishers, NEW j \in IDs,
                        ppc'[q] = "sending", j \notin todo'[q], clients'[j] # NoSession
                 PROVE  (LET t == clients[j]
                             x == cur[q]
                             Has(r) == \E k \in DOMAIN r : r[k] = x
                         IN x.table \in wants[t]
                              <=> Has(chan[t]) \/ Has(got[t]) \/ x \in seen[t] \cup lost[t])'
      BY DEF SlowClientsLoseAlone
    <2>1. PICK t \in Sessions, x \in Event : t = clients[j] /\ x = cur[q]
      BY <1>2, <1>6 DEF IInv, ReadLocked
    <2>2. x.table \in wants[t] <=> Brought(t, x)'
      <3>1. CASE q = p /\ j = i
        BY <1>1, <1>3, <1>5, <2>1, <3>1
      <3>2. CASE ~(q = p /\ j = i)
        <4>1. j \notin todo[q] /\ ppc[q] = "sending" /\ clients[j] # NoSession
          BY <1>2, <1>6, <3>2
        <4>2. x.table \in wants[t] <=> Brought(t, x)
          BY <2>1, <4>1 DEF DInv, SlowClientsLoseAlone, Brought, Holds
        <4>3. ~(t = s /\ x = e)
          <5>1. t = s => j = i
            BY <1>6, <2>1
          <5>2. x.from = q
            BY <2>1, <4>1 DEF DInv, Begun
          <5>3. QED
            BY <1>4, <3>2, <5>1, <5>2
        <4>4. QED
          BY <1>3, <4>2, <4>3
      <3>3. QED
        BY <3>1, <3>2
    <2>3. clients'[j] = t /\ cur'[q] = x /\ wants'[t] = wants[t]
      BY <1>2, <2>1
    <2>4. QED
      BY <2>2, <2>3 DEF Brought, Holds
  <1>10. QED
    BY <1>7, <1>8, <1>9 DEF DInv

LEMMA DeliveredNext == IInv /\ DInv /\ [Next]_vars => DInv'
  <1> SUFFICES ASSUME IInv, DInv, [Next]_vars PROVE DInv'
    OBVIOUS
  <1>1. CASE \E p \in Publishers : BeginPublish(p)
    BY <1>1, BeginDelivered
  <1>2. CASE \E p \in Publishers, i \in IDs : Visit(p, i)
    BY <1>2, VisitDelivered
  <1>3. ASSUME NEW p \in Publishers, EndPublish(p) PROVE DInv'
    <2>1. /\ \A q \in Publishers : ppc'[q] = "sending" => ppc[q] = "sending"
          /\ UNCHANGED <<clients, wants, chan, got, seen, lost, cur, count, todo, announced>>
      BY <1>3 DEF EndPublish, sessionVars, IInv, TypeOK
    <2>2. Begun'
      BY <2>1 DEF DInv, Begun, Brought, Holds
    <2>3. Unvisited'
      BY <2>1 DEF DInv, Unvisited, Brought, Holds
    <2>4. SlowClientsLoseAlone'
      BY <2>1 DEF DInv, SlowClientsLoseAlone
    <2>5. QED
      BY <2>2, <2>3, <2>4 DEF DInv
  <1>4. ASSUME NEW s \in Sessions, TakeID(s) PROVE DInv'
    <2>1. \A i \in IDs : clients[i] # NoSession => clients[i] # s
      BY <1>4 DEF TakeID, IInv, ClientsMatchChannels
    <2>2. wants \in [Sessions -> SUBSET Tables] /\ clients \in [IDs -> Sessions \cup {NoSession}]
      BY DEF IInv, TypeOK
    <2>3. /\ UNCHANGED <<clients, chan, got, seen, lost, ppc, cur, count, todo, announced>>
          /\ \A t \in Sessions \ {s} : wants'[t] = wants[t]
      BY <1>4, <2>2 DEF TakeID, pubVars
    <2>4. \A t \in Sessions, x \in Event : Brought(t, x)' <=> Brought(t, x)
      BY <2>3 DEF Brought, Holds
    <2>5. \A i \in IDs : clients[i] # NoSession => wants'[clients[i]] = wants[clients[i]]
      BY <2>1, <2>2, <2>3
    <2>6. QED
      BY <2>3, <2>4, <2>5, OthersKeepDelivered
  <1>5. ASSUME NEW s \in Sessions, Receive(s) PROVE DInv'
    <2>1. UNCHANGED <<clients, wants, ppc, cur, count, todo, announced>>
      BY <1>5 DEF Receive, pubVars
    <2>2. QED
      BY <1>5, <2>1, ReceiveBringsNothing, OthersKeepDelivered
  <1>6. CASE \/ \E s \in Sessions : Refuse(s) \/ Register(s) \/ Flush(s) \/ StopStreaming(s) \/ Unsubscribe(s)
                                    \/ Disconnect(s)
             \/ Close \/ UNCHANGED vars
    <2>1. UNCHANGED <<wants, chan, got, seen, lost, ppc, cur, count, todo, announced>>
      BY <1>6 DEF Refuse, Register, Flush, StopStreaming, Unsubscribe, Disconnect, Close, pubVars,
         sessionVars, vars
    <2>2. \A p \in Publishers : ppc[p] = "sending" => clients' = clients
      BY <1>6 DEF Refuse, Register, Flush, StopStreaming, Unsubscribe, Disconnect, Close, pubVars,
         sessionVars, vars, WriteLockFree
    <2>3. \A t \in Sessions, x \in Event : Brought(t, x)' <=> Brought(t, x)
      BY <2>1 DEF Brought, Holds
    <2>4. QED
      BY <2>1, <2>2, <2>3, OthersKeepDelivered
  <1>7. QED
    BY <1>1, <1>2, <1>3, <1>4, <1>5, <1>6 DEF Next, Serve, Publish

\* A slow client costs only itself, and nobody is sent what it did not ask for.
THEOREM SlowClientsCostOnlyThemselves == Spec => []SlowClientsLoseAlone
  <1>1. DInv => SlowClientsLoseAlone
    BY DEF DInv
  <1>2. QED
    BY <1>1, InitDelivered, DeliveredNext, HubInvariant, PTL DEF Spec

-----------------------------------------------------------------------------
(***************************************************************************)
(* The hub is a lossy feed.                                                *)
(***************************************************************************)
\* What a client was sent or is about to be was announced on its tables; one that
\* has not asked yet has nothing.
Asked ==
  /\ \A p \in Publishers : ppc[p] = "sending" => cur[p] \in announced
  /\ \A s \in Sessions, e \in Event :
       Holds(chan[s], e) \/ Holds(got[s], e) => e \in announced /\ e.table \in wants[s]
  /\ \A s \in Sessions : pc[s] = "start" => wants[s] = {} /\ got[s] = <<>> /\ chan[s] = <<>>

\* Each publisher's events wait in order, behind those already sent.
Ordered ==
  \A s \in Sessions : \A k \in DOMAIN chan[s] :
    /\ \A j \in DOMAIN chan[s] :
         j < k /\ chan[s][j].from = chan[s][k].from => chan[s][j].n < chan[s][k].n
    /\ \A j \in DOMAIN got[s] :
         got[s][j].from = chan[s][k].from => got[s][j].n < chan[s][k].n

FInv == Asked /\ Ordered

LEMMA InitFeed == Init => FInv /\ Feed!FeedInit
  <1> SUFFICES ASSUME Init PROVE FInv /\ Feed!FeedInit
    OBVIOUS
  <1>1. /\ \A s \in Sessions : chan[s] = <<>> /\ got[s] = <<>> /\ wants[s] = {}
        /\ \A p \in Publishers : ppc[p] # "sending"
    BY DEF Init
  <1>2. Asked /\ Ordered
    BY <1>1 DEF Asked, Ordered, Holds
  <1>3. QED
    BY <1>2 DEF FInv, Init, Feed!FeedInit

LEMMA ReceiveFeeds ==
  ASSUME IInv, FInv, NEW s \in Sessions, Receive(s)
  PROVE  FInv' /\ (Feed!FeedNext \/ UNCHANGED Feed!feedVars)
  <1>1. /\ chan[s] \in Seq(Event) /\ chan[s] # <<>> /\ got[s] \in Seq(Event)
        /\ chan \in [Sessions -> Queues] /\ got \in [Sessions -> Seq(Event)]
    BY DEF IInv, TypeOK, Queues, Receive
  <1> DEFINE e == Head(chan[s])
  <1>2. /\ e \in Event /\ e = chan[s][1] /\ 1 \in DOMAIN chan[s]
        /\ DOMAIN Tail(chan[s]) = 1..(Len(chan[s]) - 1) /\ DOMAIN chan[s] = 1..Len(chan[s])
        /\ \A k \in DOMAIN Tail(chan[s]) :
             k + 1 \in DOMAIN chan[s] /\ Tail(chan[s])[k] = chan[s][k + 1] /\ k \in Nat \ {0}
        /\ Len(chan[s]) \in Nat
    BY <1>1
  <1>3. /\ chan' = [chan EXCEPT ![s] = Tail(chan[s])]
        /\ got' = [got EXCEPT ![s] = Append(got[s], e)] \/ got' = got
        /\ UNCHANGED <<announced, wants, ppc, cur>> /\ pc[s] = "stream"
        /\ pc' = [pc EXCEPT ![s] = "write"] /\ DOMAIN pc = Sessions
    BY DEF Receive, pubVars, IInv, TypeOK
  <1>4. \A x : Holds(chan[s], x) <=> x = e \/ Holds(Tail(chan[s]), x)
    BY <1>1, HoldsTail
  <1>5. \A x : Holds(Append(got[s], e), x) <=> Holds(got[s], x) \/ x = e
    BY <1>1, <1>2, HoldsAppend
  <1>6. /\ DOMAIN Append(got[s], e) = 1..(Len(got[s]) + 1) /\ DOMAIN got[s] = 1..Len(got[s])
        /\ Len(got[s]) \in Nat /\ Append(got[s], e)[Len(got[s]) + 1] = e
        /\ \A j \in DOMAIN got[s] : Append(got[s], e)[j] = got[s][j]
    BY <1>1, <1>2
  <1>7. \A j \in DOMAIN Append(got[s], e) : j \in DOMAIN got[s] \/ j = Len(got[s]) + 1
    BY <1>6
  <1> HIDE DEF e
  <1>8. /\ chan'[s] = Tail(chan[s]) /\ (got'[s] = Append(got[s], e) \/ got'[s] = got[s])
        /\ \A t \in Sessions \ {s} : chan'[t] = chan[t] /\ got'[t] = got[t]
    BY <1>1, <1>3
  <1>9. Asked'
    <2>1. \A t \in Sessions, x \in Event :
            Holds(chan'[t], x) \/ Holds(got'[t], x) => Holds(chan[t], x) \/ Holds(got[t], x)
      BY <1>4, <1>5, <1>8
    <2>2. \A t \in Sessions, x \in Event :
            Holds(chan'[t], x) \/ Holds(got'[t], x) => x \in announced' /\ x.table \in wants'[t]
      BY <1>3, <2>1 DEF FInv, Asked
    <2>3. \A t \in Sessions : pc'[t] = "start" => wants'[t] = {} /\ got'[t] = <<>> /\ chan'[t] = <<>>
      <3> TAKE t \in Sessions
      <3>1. pc'[t] = "start" => t # s
        BY <1>3
      <3>2. QED
        BY <1>3, <1>8, <3>1 DEF FInv, Asked
    <2>4. \A p \in Publishers : ppc'[p] = "sending" => cur'[p] \in announced'
      BY <1>3 DEF FInv, Asked
    <2>5. QED
      BY <2>2, <2>3, <2>4 DEF Asked, Holds
  <1>10. Ordered'
    <2>1. ASSUME NEW k \in DOMAIN Tail(chan[s])
          PROVE  /\ \A j \in DOMAIN Tail(chan[s]) :
                      j < k /\ Tail(chan[s])[j].from = Tail(chan[s])[k].from
                        => Tail(chan[s])[j].n < Tail(chan[s])[k].n
                 /\ \A j \in DOMAIN got[s] :
                      got[s][j].from = Tail(chan[s])[k].from => got[s][j].n < Tail(chan[s])[k].n
                 /\ e.from = Tail(chan[s])[k].from => e.n < Tail(chan[s])[k].n
      <3>1. k + 1 \in DOMAIN chan[s] /\ Tail(chan[s])[k] = chan[s][k + 1] /\ 1 < k + 1
        BY <1>2
      <3>2. \A j \in DOMAIN Tail(chan[s]) :
              j + 1 \in DOMAIN chan[s] /\ Tail(chan[s])[j] = chan[s][j + 1] /\ (j < k => j + 1 < k + 1)
        BY <1>2
      <3>3. QED
        BY <1>2, <3>1, <3>2 DEF FInv, Ordered
    <2>2. \A k \in DOMAIN chan'[s] :
            /\ \A j \in DOMAIN chan'[s] :
                 j < k /\ chan'[s][j].from = chan'[s][k].from => chan'[s][j].n < chan'[s][k].n
            /\ \A j \in DOMAIN got'[s] :
                 got'[s][j].from = chan'[s][k].from => got'[s][j].n < chan'[s][k].n
      BY <1>6, <1>7, <1>8, <2>1
    <2>3. ASSUME NEW t \in Sessions, NEW k \in DOMAIN chan'[t]
          PROVE  /\ \A j \in DOMAIN chan'[t] :
                      j < k /\ chan'[t][j].from = chan'[t][k].from => chan'[t][j].n < chan'[t][k].n
                 /\ \A j \in DOMAIN got'[t] :
                      got'[t][j].from = chan'[t][k].from => got'[t][j].n < chan'[t][k].n
      <3>1. CASE t = s
        BY <2>2, <3>1
      <3>2. CASE t # s
        BY <1>8, <3>2 DEF FInv, Ordered
      <3>3. QED
        BY <3>1, <3>2
    <2>4. QED
      BY <2>3 DEF Ordered
  <1>11. Feed!FeedNext \/ UNCHANGED Feed!feedVars
    <2>1. CASE got' = got
      BY <1>3, <2>1 DEF Feed!feedVars
    <2>2. CASE got' = [got EXCEPT ![s] = Append(got[s], e)]
      <3>1. e \in announced /\ e.table \in wants[s]
        BY <1>2, <1>4 DEF FInv, Asked
      <3>2. \A j \in DOMAIN got[s] : got[s][j].from = e.from => got[s][j].n < e.n
        BY <1>2 DEF FInv, Ordered
      <3>3. Feed!Hand(s, e)
        BY <1>3, <2>2, <3>1, <3>2 DEF Feed!Hand
      <3>4. QED
        BY <3>1, <3>3 DEF Feed!FeedNext
    <2>3. QED
      BY <1>3, <2>1, <2>2
  <1>12. QED
    BY <1>9, <1>10, <1>11 DEF FInv

LEMMA VisitFeeds ==
  ASSUME IInv, DInv, FInv, NEW p \in Publishers, NEW i \in IDs, Visit(p, i)
  PROVE  FInv' /\ UNCHANGED Feed!feedVars
  <1>1. PICK s \in Sessions, e \in Event : s = clients[i] /\ e = cur[p]
    BY DEF IInv, TypeOK, Visit, ReadLocked
  <1>2. /\ ppc[p] = "sending" /\ i \in todo[p]
        /\ UNCHANGED <<announced, wants, got, pc, ppc, cur>>
        /\ chan' = chan \/ (e.table \in wants[s] /\ chan' = [chan EXCEPT ![s] = Append(chan[s], e)])
    BY <1>1 DEF Visit, sessionVars
  <1>3. UNCHANGED Feed!feedVars
    BY <1>2 DEF Feed!feedVars
  <1>4. CASE chan' = chan
    BY <1>2, <1>3, <1>4 DEF FInv, Asked, Ordered, Holds
  <1>5. CASE e.table \in wants[s] /\ chan' = [chan EXCEPT ![s] = Append(chan[s], e)]
    <2>1. chan[s] \in Seq(Event) /\ chan \in [Sessions -> Queues] /\ got[s] \in Seq(Event)
      BY DEF IInv, TypeOK, Queues
    <2>2. \A x : Holds(Append(chan[s], e), x) <=> Holds(chan[s], x) \/ x = e
      BY <2>1, HoldsAppend
    <2>3. chan'[s] = Append(chan[s], e) /\ \A t \in Sessions \ {s} : chan'[t] = chan[t]
      BY <1>5, <2>1
    <2>4. pc[s] # "start" /\ e \in announced
      BY <1>1, <1>2, HubAssumption DEF IInv, ClientsMatchChannels, FInv, Asked
    <2>5. Asked'
      <3>1. \A t \in Sessions, x \in Event : Holds(chan'[t], x) \/ Holds(got[t], x) =>
              x \in announced /\ x.table \in wants[t]
        BY <1>5, <2>2, <2>3, <2>4 DEF FInv, Asked
      <3>2. \A t \in Sessions : pc[t] = "start" => wants[t] = {} /\ got[t] = <<>> /\ chan'[t] = <<>>
        BY <2>3, <2>4 DEF FInv, Asked
      <3>3. QED
        BY <1>2, <3>1, <3>2 DEF FInv, Asked, Holds
    <2>6. /\ DOMAIN chan'[s] = 1..(Len(chan[s]) + 1) /\ DOMAIN chan[s] = 1..Len(chan[s])
          /\ Len(chan[s]) \in Nat /\ chan'[s][Len(chan[s]) + 1] = e
          /\ \A j \in DOMAIN chan[s] : chan'[s][j] = chan[s][j] /\ chan[s][j] \in Event
          /\ \A j \in DOMAIN got[s] : got[s][j] \in Event
      BY <2>1, <2>3
    <2>7. \A j \in DOMAIN chan'[s] : j \in DOMAIN chan[s] \/ j = Len(chan[s]) + 1
      BY <2>6
    <2>8. /\ \A j \in DOMAIN chan[s] : chan[s][j].from = e.from => chan[s][j].n < e.n
          /\ \A j \in DOMAIN got[s] : got[s][j].from = e.from => got[s][j].n < e.n
      <3>1. e.from = p /\ e.n = count[p]
        BY <1>1, <1>2 DEF DInv, Begun
      <3>2. \A x \in Event : Brought(s, x) /\ x.from = p => x.n < count[p]
        BY <1>1, <1>2 DEF DInv, Unvisited
      <3>3. /\ \A j \in DOMAIN chan[s] : Brought(s, chan[s][j])
            /\ \A j \in DOMAIN got[s] : Brought(s, got[s][j])
        BY DEF Brought, Holds
      <3>4. QED
        BY <2>6, <3>1, <3>2, <3>3
    <2>9. Ordered'
      <3>1. ASSUME NEW k \in DOMAIN chan'[s]
            PROVE  /\ \A j \in DOMAIN chan'[s] :
                        j < k /\ chan'[s][j].from = chan'[s][k].from => chan'[s][j].n < chan'[s][k].n
                   /\ \A j \in DOMAIN got[s] :
                        got[s][j].from = chan'[s][k].from => got[s][j].n < chan'[s][k].n
        <4>1. CASE k = Len(chan[s]) + 1
          <5>1. \A j \in DOMAIN chan'[s] : j < k => j \in DOMAIN chan[s] /\ chan'[s][j] = chan[s][j]
            BY <2>6, <4>1
          <5>2. QED
            BY <2>6, <2>8, <4>1, <5>1
        <4>2. CASE k \in DOMAIN chan[s]
          <5>1. \A j \in DOMAIN chan'[s] : j < k => j \in DOMAIN chan[s] /\ chan'[s][j] = chan[s][j]
            BY <2>6, <4>2
          <5>2. QED
            BY <2>6, <4>2, <5>1 DEF FInv, Ordered
        <4>3. QED
          BY <2>7, <4>1, <4>2
      <3>2. ASSUME NEW t \in Sessions, NEW k \in DOMAIN chan'[t]
            PROVE  /\ \A j \in DOMAIN chan'[t] :
                        j < k /\ chan'[t][j].from = chan'[t][k].from => chan'[t][j].n < chan'[t][k].n
                   /\ \A j \in DOMAIN got[t] :
                        got[t][j].from = chan'[t][k].from => got[t][j].n < chan'[t][k].n
        <4>1. CASE t = s
          BY <3>1, <4>1
        <4>2. CASE t # s
          BY <2>3, <4>2 DEF FInv, Ordered
        <4>3. QED
          BY <4>1, <4>2
      <3>3. QED
        BY <1>2, <3>2 DEF Ordered
    <2>10. QED
      BY <1>3, <2>5, <2>9 DEF FInv
  <1>6. QED
    BY <1>2, <1>4, <1>5

LEMMA BeginFeeds ==
  ASSUME IInv, DInv, FInv, NEW p \in Publishers, BeginPublish(p)
  PROVE  FInv' /\ Feed!FeedNext
  <1>1. /\ count \in [Publishers -> Nat] /\ cur \in [Publishers -> Event \cup {NoEvent}]
        /\ announced \subseteq Event /\ ppc \in [Publishers -> {"idle", "sending"}]
    BY HubAssumption DEF IInv, TypeOK
  <1>2. PICK e : /\ e.from = p /\ e.n = count[p] + 1
                 /\ cur' = [cur EXCEPT ![p] = e] /\ announced' = announced \cup {e}
    <2>1. PICK t \in Tables, a \in Actions :
            LET e == [from |-> p, n |-> count[p] + 1, table |-> t, action |-> a]
            IN cur' = [cur EXCEPT ![p] = e] /\ announced' = announced \cup {e}
      BY DEF BeginPublish
    <2>2. QED
      BY <2>1
  <1>3. /\ UNCHANGED <<wants, got, chan, pc>> /\ ppc' = [ppc EXCEPT ![p] = "sending"]
    BY DEF BeginPublish, sessionVars
  <1>4. \A a \in announced : a.from = p => a.n <= count[p] /\ a.n \in Nat
    BY <1>1, HubAssumption DEF DInv, Begun, Event
  <1>5. e \notin announced /\ \A a \in announced : a.from = e.from => a.n < e.n
    BY <1>1, <1>2, <1>4
  <1>6. Feed!FeedNext
    <2>1. Feed!Announce(e) /\ e \in announced' \ announced
      BY <1>2, <1>3, <1>5 DEF Feed!Announce
    <2>2. QED
      BY <2>1 DEF Feed!FeedNext
  <1>7. Asked'
    <2>1. \A q \in Publishers : ppc'[q] = "sending" => cur'[q] \in announced'
      BY <1>1, <1>2, <1>3 DEF FInv, Asked
    <2>2. QED
      BY <1>2, <1>3, <2>1 DEF FInv, Asked, Holds
  <1>8. Ordered'
    BY <1>3 DEF FInv, Ordered
  <1>9. QED
    BY <1>6, <1>7, <1>8 DEF FInv

LEMMA FeedNextStep == IInv /\ DInv /\ FInv /\ [Next]_vars => FInv' /\ [Feed!FeedNext]_(Feed!feedVars)
  <1> SUFFICES ASSUME IInv, DInv, FInv, [Next]_vars
               PROVE  FInv' /\ [Feed!FeedNext]_(Feed!feedVars)
    OBVIOUS
  <1>1. CASE \E p \in Publishers : BeginPublish(p)
    BY <1>1, BeginFeeds
  <1>2. CASE \E p \in Publishers, i \in IDs : Visit(p, i)
    BY <1>2, VisitFeeds
  <1>3. CASE \E s \in Sessions : Receive(s)
    BY <1>3, ReceiveFeeds
  <1>4. ASSUME NEW s \in Sessions, TakeID(s) PROVE FInv' /\ Feed!FeedNext
    <2>1. /\ UNCHANGED <<announced, got, chan, ppc, cur>> /\ pc[s] = "start"
          /\ pc' = [pc EXCEPT ![s] = "register"]
          /\ \E tables : wants' = [wants EXCEPT ![s] = tables]
      BY <1>4 DEF TakeID, pubVars
    <2>2. wants \in [Sessions -> SUBSET Tables] /\ pc \in [Sessions -> {"start", "register", "stream", "write", "leave", "ended"}]
      BY DEF IInv, TypeOK
    <2>3. wants[s] = {} /\ got[s] = <<>> /\ chan[s] = <<>>
      BY <2>1 DEF FInv, Asked
    <2>4. Feed!Ask(s, wants'[s])
      BY <2>1, <2>2, <2>3 DEF Feed!Ask
    <2>5. Feed!FeedNext
      BY <2>4 DEF Feed!FeedNext
    <2>6. \A t \in Sessions \ {s} : wants'[t] = wants[t] /\ pc'[t] = pc[t]
      BY <2>1, <2>2
    <2>7. \A t \in Sessions, x \in Event :
            Holds(chan[t], x) \/ Holds(got[t], x) => x \in announced /\ x.table \in wants'[t]
      <3> TAKE t \in Sessions, x \in Event
      <3>1. CASE t = s
        BY <2>3, <3>1 DEF Holds
      <3>2. CASE t # s
        BY <2>6, <3>2 DEF FInv, Asked
      <3>3. QED
        BY <3>1, <3>2
    <2>8. \A t \in Sessions : pc'[t] = "start" => t # s
      BY <2>1, <2>2
    <2>9. \A t \in Sessions : pc'[t] = "start" => wants'[t] = {} /\ got[t] = <<>> /\ chan[t] = <<>>
      BY <2>6, <2>8 DEF FInv, Asked
    <2>10. Asked'
      BY <2>1, <2>7, <2>9 DEF FInv, Asked, Holds
    <2>11. Ordered'
      BY <2>1 DEF FInv, Ordered
    <2>12. QED
      BY <2>5, <2>10, <2>11 DEF FInv
  <1>5. CASE \/ \E s \in Sessions : Refuse(s) \/ Register(s) \/ Flush(s) \/ StopStreaming(s) \/ Unsubscribe(s)
                                    \/ Disconnect(s)
             \/ \E p \in Publishers : EndPublish(p)
             \/ Close \/ UNCHANGED vars
    <2>1. UNCHANGED <<wants, chan, got, cur, announced>>
      BY <1>5 DEF Refuse, Register, Flush, StopStreaming, Unsubscribe, Disconnect, EndPublish, Close,
         pubVars, sessionVars, vars
    <2>2. /\ \A s \in Sessions : pc'[s] = "start" => pc[s] = "start"
          /\ \A p \in Publishers : ppc'[p] = "sending" => ppc[p] = "sending"
      BY <1>5 DEF Refuse, Register, Flush, StopStreaming, Unsubscribe, Disconnect, EndPublish, Close,
         pubVars, sessionVars, vars, IInv, TypeOK
    <2>3. Asked'
      BY <2>1, <2>2 DEF FInv, Asked, Holds
    <2>4. Ordered'
      BY <2>1 DEF FInv, Ordered
    <2>5. QED
      BY <2>1, <2>3, <2>4 DEF FInv, Feed!feedVars
  <1>6. QED
    BY <1>1, <1>2, <1>3, <1>4, <1>5 DEF Next, Serve, Publish

\* The hub implements the lossy feed: whatever the interleaving, clients are sent
\* only events published on their tables, none twice, each publisher's in order.
THEOREM HubIsLossyFeed == Spec => IsLossyFeed
  <1>1. Init => Feed!FeedInit
    BY InitFeed
  <1>2. QED
    BY <1>1, InitFeed, FeedNextStep, InitDelivered, DeliveredNext, HubInvariant, PTL
    DEF Spec, IsLossyFeed, Feed!FeedSpec

=============================================================================
