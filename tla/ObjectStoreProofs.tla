--------------------------- MODULE ObjectStoreProofs ---------------------------
(***************************************************************************)
(* Proofs about ObjectStore, for any number of calls, names and crashes,   *)
(* and whatever fails: no file is left that no row names, calls that do    *)
(* not overlap agree, and which failures cost a row its file.  And about   *)
(* SignedURL, for integers of any width: how long a URL is honoured.       *)
(***************************************************************************)
EXTENDS ObjectStore, SignedURL, TLAPS

\* Calls that have put, or may still put, a file under a name and that will
\* record it or remove what the name leads to.
Owing(n) == {c \in Calls : op[c].name = n /\
                           pc[c] \in {"copy", "record", "discard", "cleanup", "remove"}}

\* A file without a row is the affair of a call in progress.
OrphansOwed ==
  \A n \in Names :
    hurt[n] \cap {"remove", "crash", "unheard"} = {} /\ path[n] # None
      => rows[n] # None \/ Owing(n) # {}

Types ==
  /\ pc \in [Calls -> PCs]
  /\ op \in [Calls -> Op]
  /\ path \in [Names -> Uploads \cup {None}]
  /\ rows \in [Names -> Uploads \cup {None}]
  /\ hurt \in [Names -> SUBSET {"put", "statement", "remove", "crash", "unheard", "recorded"}]

IInv == Types /\ OrphansOwed

(***************************************************************************)
(* What serial calls can rely on.                                          *)
(***************************************************************************)
Busy(c) == pc[c] \notin {"idle", "end"}
OneAtATime == \A c, d \in Calls : Busy(c) /\ Busy(d) /\ op[c].name = op[d].name => c = d

\* A file is reached from one name only, and written under that name only.
FilesApart ==
  /\ \A n \in Names : path[n] \in Calls => op[path[n]].name = n /\ pc[path[n]] # "idle"
  /\ \A m, n \in Names : path[m] = Old /\ path[n] = Old => m = n
  /\ \A c \in Calls : pc[c] = "copy" =>
       /\ fd[c] \in Uploads
       /\ fd[c] \in Calls => op[fd[c]].name = op[c].name /\ pc[fd[c]] # "idle"
       /\ fd[c] = Old => \A n \in Names : path[n] = Old => n = op[c].name

\* What was asked for by a call that history names does not change any more.
Named ==
  /\ \A n \in Names : latest[n] \in Calls => pc[latest[n]] # "idle"
  /\ \A c \in Calls : \A u \in expected[c] : u \in Calls => pc[u] # "idle"

Agree(n) ==
  /\ rows[n] = latest[n]
  /\ latest[n] = None => path[n] = None
  /\ latest[n] # None => path[n] # None /\ data[path[n]] = Content(latest[n])

Settled(n) == Quiet(n) /\ hurt[n] = {} => Agree(n)

\* A download that found its name unhurt agrees with the last change while it
\* is under way, and has said so when it is over.
Downloading(c) ==
  LET n == op[c].name
  IN \A u \in expected[c] :
       /\ pc[c] \in {"lookup", "open", "read"} => Agree(n) /\ u = latest[n]
       /\ pc[c] \in {"lookup", "open"} => got[c] = <<>>
       /\ pc[c] \in {"open", "read"} => meta[c] = u /\ u # None
       /\ pc[c] = "read" =>
            /\ fd[c] = path[n]
            /\ Len(got[c]) <= Size(u)
            /\ got[c] = [i \in 1..Len(got[c]) |-> u]
       /\ op[c].kind = "download" /\ answer[c] \in {"ok", "notfound"} =>
            /\ u = None => answer[c] = "notfound"
            /\ u # None => answer[c] = "ok" /\ got[c] = Content(u)

\* A change makes what it will leave, whatever it found.
Changing(c) ==
  LET n == op[c].name
  IN /\ pc[c] = "copy" =>
          path[n] = fd[c] /\ data[fd[c]] = [i \in 1..written[c] |-> c]
     /\ pc[c] = "record" => path[n] # None /\ data[path[n]] = Content(c)
     /\ pc[c] = "remove" => rows[n] = None

\* While no fault has befallen the name, only a change can part row and file.
Untouched(c) ==
  /\ pc[c] \in {"create", "deleteRow", "lookup", "open", "read"} => Agree(op[c].name)
  /\ pc[c] \notin {"discard", "cleanup"}

Facts(c) ==
  /\ Downloading(c) /\ Changing(c)
  /\ hurt[op[c].name] = {} => Untouched(c)

\* Phases belong to kinds, counters and answers to phases.
Phases ==
  \A c \in Calls :
    /\ pc[c] \in {"create", "copy", "record", "discard", "cleanup"} => op[c].kind = "upload"
    /\ pc[c] \in {"deleteRow", "remove"} => op[c].kind = "delete"
    /\ pc[c] \in {"idle", "create"} => written[c] = 0
    /\ pc[c] = "idle" => got[c] = <<>>
    /\ pc[c] # "end" => answer[c] = "none"
    /\ written[c] <= op[c].size

MoreTypes ==
  /\ written \in [Calls -> Nat]
  /\ data \in [Uploads -> Seq(Uploads \cup {None})]
  /\ got \in [Calls -> Seq(Uploads \cup {None})]
  /\ answer \in [Calls -> {"none", "ok", "notfound", "error"}]
  /\ fd \in [Calls -> Uploads \cup {None}]
  /\ meta \in [Calls -> Uploads \cup {None}]
  /\ latest \in [Names -> Uploads \cup {None}]
  /\ expected \in [Calls -> SUBSET (Uploads \cup {None})]
  /\ \A c \in Calls : pc[c] = "read" => fd[c] # None

SerialInv ==
  serial =>
    /\ OneAtATime
    /\ \A n \in Names : Settled(n)
    /\ \A c \in Calls : Facts(c)

SInv == Types /\ MoreTypes /\ Phases /\ FilesApart /\ Named /\ SerialInv

-----------------------------------------------------------------------------
LEMMA NoneIsNoUpload == None \notin Uploads
  BY StoreAssumption DEF Uploads

LEMMA OpExists == (CHOOSE o \in Op : TRUE) \in Op
  <1>1. PICK n \in Names : TRUE
    BY StoreAssumption
  <1>2. [kind |-> "upload", name |-> n, size |-> 1] \in Op
    BY StoreAssumption DEF Op, AllKinds
  <1>3. QED
    BY <1>2

LEMMA InitInv == Init => IInv
  <1> SUFFICES ASSUME Init PROVE IInv
    OBVIOUS
  <1>1. pc \in [Calls -> PCs]
    BY DEF Init, PCs
  <1>2. op \in [Calls -> Op]
    BY OpExists DEF Init
  <1>3. path \in [Names -> Uploads \cup {None}] /\ rows = path
    BY DEF Init, Uploads
  <1>4. hurt \in [Names -> SUBSET {"put", "statement", "remove", "crash", "unheard", "recorded"}]
    BY DEF Init
  <1>5. OrphansOwed
    BY <1>3 DEF OrphansOwed
  <1>6. QED
    BY <1>1, <1>2, <1>3, <1>4, <1>5 DEF IInv, Types

LEMMA TypesNext == Types /\ [Next]_vars => Types'
  <1> SUFFICES ASSUME Types, [Next]_vars PROVE Types'
    OBVIOUS
  <1> USE DEF Types, PCs, Goto, Return, callVars, disk, history
  <1>1. ASSUME NEW c \in Calls, Arrive(c) PROVE Types'
    <2>1. PICK o \in Op : op' = [op EXCEPT ![c] = o] /\ Goto(c, First[o.kind])
      BY <1>1 DEF Arrive
    <2>2. First[o.kind] \in PCs
      BY DEF Op, AllKinds, First, PCs
    <2>3. QED
      BY <1>1, <2>1, <2>2 DEF Arrive
  <1>2. ASSUME NEW c \in Calls, TurnAway(c) PROVE Types'
    BY <1>2 DEF TurnAway
  <1>3. ASSUME NEW c \in Calls, Create(c) PROVE Types'
    BY <1>3 DEF Create, Uploads
  <1>4. ASSUME NEW c \in Calls, Copy(c) \/ CopyDone(c) PROVE Types'
    BY <1>4 DEF Copy, CopyDone
  <1>5. ASSUME NEW c \in Calls, PutObject(c) \/ PutUnheard(c) PROVE Types'
    BY <1>5 DEF PutObject, PutUnheard, Uploads, Hurt
  <1>6. ASSUME NEW c \in Calls,
               PutFails(c) \/ RecordFails(c) \/ RecordUnheard(c) \/ DeleteUnheard(c)
        PROVE Types'
    BY <1>6 DEF PutFails, RecordFails, RecordUnheard, DeleteUnheard, Hurt, Uploads
  <1>7. ASSUME NEW c \in Calls, Record(c) PROVE Types'
    BY <1>7 DEF Record, Uploads, Heal
  <1>8. ASSUME NEW c \in Calls, DeleteRow(c) PROVE Types'
    BY <1>8 DEF DeleteRow
  <1>9. ASSUME NEW c \in Calls, RemoveFile(c) PROVE Types'
    BY <1>9 DEF RemoveFile, Hurt, Heal
  <1>10. ASSUME NEW c \in Calls, Lookup(c) \/ Open(c) \/ Read(c) \/ Fail(c) PROVE Types'
    BY <1>10 DEF Lookup, Open, Read, Fail
  <1>11. CASE Crash
    BY <1>11 DEF Crash
  <1>12. CASE UNCHANGED vars
    BY <1>12 DEF vars
  <1>13. QED
    BY <1>1, <1>2, <1>3, <1>4, <1>5, <1>6, <1>7, <1>8, <1>9, <1>10, <1>11, <1>12
       DEF Next, Handle, Upload

\* A step after which every call of a name that owed still owes, and no name
\* gains a file or loses a row, leaves OrphansOwed true.
LEMMA Calm ==
  ASSUME OrphansOwed,
         \A n \in Names : hurt[n] \cap {"remove", "crash", "unheard"}
                            \subseteq hurt'[n] \cap {"remove", "crash", "unheard"},
         \A n \in Names : path'[n] # None => path[n] # None,
         \A n \in Names : rows[n] # None => rows'[n] # None,
         \A n \in Names : Owing(n) \subseteq Owing(n)'
  PROVE  OrphansOwed'
  BY DEF OrphansOwed

LEMMA OrphansNext == IInv /\ [Next]_vars => OrphansOwed'
  <1> SUFFICES ASSUME IInv, [Next]_vars PROVE OrphansOwed'
    OBVIOUS
  <1> USE NoneIsNoUpload DEF IInv, Types, PCs, Op, callVars, disk, history
  <1>0. Types'
    BY TypesNext
  <1>1. ASSUME NEW c \in Calls, Arrive(c) PROVE OrphansOwed'
    <2>1. \A n \in Names : Owing(n) \subseteq Owing(n)'
      BY <1>1 DEF Arrive, Goto, Owing
    <2>2. QED
      BY <1>1, <2>1, Calm DEF Arrive
  <1>2. ASSUME NEW c \in Calls,
               TurnAway(c) \/ Copy(c) \/ CopyDone(c) \/ Lookup(c) \/ Open(c) \/ Read(c) \/ Fail(c)
        PROVE OrphansOwed'
    <2>1. \A n \in Names : Owing(n) \subseteq Owing(n)'
      BY <1>2 DEF TurnAway, Copy, CopyDone, Lookup, Open, Read, Fail, Goto, Return, Owing
    <2>2. QED
      BY <1>2, <2>1, Calm DEF TurnAway, Copy, CopyDone, Lookup, Open, Read, Fail
  <1>3. ASSUME NEW c \in Calls, Create(c) \/ PutObject(c) PROVE OrphansOwed'
    \* c itself owes for the file it makes.
    <2>0. PICK m \in Names : m = op[c].name
      OBVIOUS
    <2>1. c \in Owing(m)'
      BY <1>3, <2>0 DEF Create, PutObject, Goto, Owing
    <2>2. \A n \in Names : Owing(n) \subseteq Owing(n)'
      BY <1>3 DEF Create, PutObject, Goto, Owing
    <2>3. \A n \in Names \ {m} : path'[n] = path[n]
      BY <1>3, <2>0 DEF Create, PutObject
    <2>4. UNCHANGED <<rows, hurt>>
      BY <1>3 DEF Create, PutObject
    <2>5. QED
      BY <2>1, <2>2, <2>3, <2>4 DEF OrphansOwed
  <1>4. ASSUME NEW c \in Calls, PutFails(c) \/ RecordFails(c) \/ RecordUnheard(c)
        PROVE OrphansOwed'
    <2>1. \A n \in Names : Owing(n) \subseteq Owing(n)'
      BY <1>4 DEF PutFails, RecordFails, RecordUnheard, Goto, Return, Owing
    <2>2. \A n \in Names : hurt[n] \subseteq hurt'[n]
      BY <1>4 DEF PutFails, RecordFails, RecordUnheard, Hurt
    <2>3. \A n \in Names : rows[n] # None => rows'[n] # None
      BY <1>4 DEF PutFails, RecordFails, RecordUnheard, Uploads
    <2>4. UNCHANGED path
      BY <1>4 DEF PutFails, RecordFails, RecordUnheard
    <2>5. QED
      BY <2>1, <2>2, <2>3, <2>4, Calm
  <1>11. ASSUME NEW c \in Calls, PutUnheard(c) \/ DeleteUnheard(c) PROVE OrphansOwed'
    \* The name is marked.
    <2>0. PICK m \in Names : m = op[c].name
      OBVIOUS
    <2>1. "unheard" \in hurt'[m]
      BY <1>11, <2>0 DEF PutUnheard, DeleteUnheard, Hurt
    <2>2. \A n \in Names \ {m} :
            path'[n] = path[n] /\ rows'[n] = rows[n] /\ hurt'[n] = hurt[n]
      BY <1>11, <2>0 DEF PutUnheard, DeleteUnheard, Hurt
    <2>3. \A n \in Names \ {m} : Owing(n) \subseteq Owing(n)'
      BY <1>11, <2>0 DEF PutUnheard, DeleteUnheard, Return, Owing
    <2>4. QED
      BY <2>1, <2>2, <2>3 DEF OrphansOwed
  <1>5. ASSUME NEW c \in Calls, Record(c) PROVE OrphansOwed'
    \* The file's row is there.
    <2>1. rows'[op[c].name] # None
      BY <1>5 DEF Record, Uploads
    <2>2. \A n \in Names \ {op[c].name} :
            rows'[n] = rows[n] /\ hurt'[n] = hurt[n] /\ Owing(n) \subseteq Owing(n)'
      BY <1>5 DEF Record, Return, Heal, Owing
    <2>3. UNCHANGED path
      BY <1>5 DEF Record
    <2>4. QED
      BY <2>1, <2>2, <2>3 DEF OrphansOwed
  <1>6. ASSUME NEW c \in Calls, DeleteRow(c) PROVE OrphansOwed'
    \* Whoever deletes a row owes the removal of its file.
    <2>0. PICK m \in Names : m = op[c].name
      OBVIOUS
    <2>1. \A n \in Names : Owing(n) \subseteq Owing(n)'
      BY <1>6 DEF DeleteRow, Goto, Return, Owing
    <2>2. rows[m] # None => c \in Owing(m)'
      BY <1>6, <2>0 DEF DeleteRow, Goto, Return, Owing
    <2>3. \A n \in Names \ {m} : rows'[n] = rows[n]
      BY <1>6, <2>0 DEF DeleteRow
    <2>4. UNCHANGED <<path, hurt>>
      BY <1>6 DEF DeleteRow
    <2>5. QED
      BY <2>1, <2>2, <2>3, <2>4 DEF OrphansOwed
  <1>7. ASSUME NEW c \in Calls, RemoveFile(c) PROVE OrphansOwed'
    <2>1. path'[op[c].name] = None \/ "remove" \in hurt'[op[c].name]
      BY <1>7 DEF RemoveFile, Hurt, Heal
    <2>2. \A n \in Names \ {op[c].name} :
            path'[n] = path[n] /\ hurt'[n] = hurt[n] /\ Owing(n) \subseteq Owing(n)'
      BY <1>7 DEF RemoveFile, Hurt, Heal, Return, Owing
    <2>3. UNCHANGED rows
      BY <1>7 DEF RemoveFile
    <2>4. QED
      BY <2>1, <2>2, <2>3 DEF OrphansOwed
  <1>8. CASE Crash
    \* The server dies: a name that calls were busy with is marked.
    <2>1. UNCHANGED <<path, rows>>
      BY <1>8 DEF Crash
    <2>2. ASSUME NEW n \in Names, hurt'[n] \cap {"remove", "crash", "unheard"} = {}
          PROVE Owing(n) = {} /\ hurt'[n] = hurt[n]
      <3>1. Quiet(n) /\ hurt'[n] = hurt[n]
        BY <1>8, <2>2 DEF Crash
      <3>2. QED
        BY <3>1 DEF Quiet, Active, Owing
    <2>3. QED
      BY <2>1, <2>2 DEF OrphansOwed
  <1>9. CASE UNCHANGED vars
    BY <1>9 DEF vars, OrphansOwed, Owing
  <1>10. QED
    BY <1>1, <1>2, <1>3, <1>4, <1>5, <1>6, <1>7, <1>8, <1>9, <1>11 DEF Next, Handle, Upload

-----------------------------------------------------------------------------
\* The inductive invariant.
THEOREM StoreInvariant == Spec => []IInv
  <1>1. IInv /\ [Next]_vars => IInv'
    BY TypesNext, OrphansNext DEF IInv
  <1>2. QED
    BY InitInv, <1>1, PTL DEF Spec

\* However many calls overlap on however many names, whatever puts and
\* statements fail: once the calls on a name are over, its file has a row, but
\* for the named exceptions (Upload and DeleteObject of storage.go).
THEOREM NoOrphans == Spec => []NoOrphanFiles
  <1>1. IInv => NoOrphanFiles
    BY DEF IInv, OrphansOwed, NoOrphanFiles, Quiet, Active, Owing
  <1>2. QED
    BY StoreInvariant, <1>1, PTL
-----------------------------------------------------------------------------
(***************************************************************************)
(* Calls that wait for each other.  First the parts of SInv that hold      *)
(* whether they do or not.                                                 *)
(***************************************************************************)
LEMMA SerialInit == Init => SInv
  <1> SUFFICES ASSUME Init PROVE SInv
    OBVIOUS
  <1> USE NoneIsNoUpload
  <1>1. Types
    BY InitInv DEF IInv
  <1>2. rows \in [Names -> {Old, None}] /\ path = rows /\ latest = rows
    BY DEF Init
  <1>3. MoreTypes
    <2>1. data \in [Uploads -> Seq(Uploads \cup {None})]
      <3>1. <<Old>> \in Seq(Uploads \cup {None}) /\ <<>> \in Seq(Uploads \cup {None})
        BY DEF Uploads
      <3>2. QED
        BY <3>1 DEF Init
    <2>2. QED
      BY <1>2, <2>1 DEF MoreTypes, Init, Uploads
  <1>4. Phases
    BY <1>1 DEF Phases, Init, Types, Op
  <1>5. FilesApart /\ Named
    <2>1. \A m, n \in Names : path[m] = Old /\ path[n] = Old => m = n
      BY DEF Init, Uploads
    <2>2. Old \notin Calls /\ None \notin Calls
      BY StoreAssumption
    <2>3. \A n \in Names : path[n] \notin Calls /\ latest[n] \notin Calls
      BY <1>2, <2>2
    <2>4. QED
      BY <2>1, <2>2, <2>3 DEF FilesApart, Named, Init
  <1>6. SerialInv
    <2>1. \A n \in Names : Agree(n)
      <3> SUFFICES ASSUME NEW n \in Names PROVE Agree(n)
        OBVIOUS
      <3>1. Content(Old) = <<Old>>
        BY DEF Content, Size
      <3>2. data[Old] = <<Old>>
        BY DEF Init, Uploads
      <3>3. QED
        BY <1>2, <3>1, <3>2 DEF Agree
    <2>2. QED
      BY <2>1 DEF SerialInv, OneAtATime, Busy, Settled, Facts, Downloading, Changing,
         Untouched, Init
  <1>7. QED
    BY <1>1, <1>3, <1>4, <1>5, <1>6 DEF SInv

LEMMA WriteType ==
  ASSUME NEW S, NEW s \in Seq(S), NEW i \in Nat \ {0}, NEW u \in S, None \in S
  PROVE  WriteAt(s, i, u) \in Seq(S)
  BY DEF WriteAt

LEMMA ContentType ==
  ASSUME Types, NEW c \in Calls
  PROVE  Content(c) \in Seq(Uploads \cup {None})
  <1>1. Size(c) \in Nat
    BY StoreAssumption DEF Size, Types, Op
  <1>2. c \in Uploads \cup {None}
    BY DEF Uploads
  <1>3. QED
    BY <1>1, <1>2 DEF Content

LEMMA MoreTypesNext == SInv /\ [Next]_vars => MoreTypes'
  <1> SUFFICES ASSUME SInv, [Next]_vars PROVE MoreTypes'
    OBVIOUS
  <1> USE DEF SInv, Types, MoreTypes, Goto, Return, callVars, disk, history
  <1>1. ASSUME NEW c \in Calls, Arrive(c) PROVE MoreTypes'
    <2>1. PICK o \in Op :
            /\ Goto(c, First[o.kind])
            /\ expected' = [expected EXCEPT
                          ![c] = IF serial /\ hurt[o.name] = {} THEN {latest[o.name]} ELSE {}]
      BY <1>1 DEF Arrive
    <2>2. First[o.kind] # "read" /\ latest[o.name] \in Uploads \cup {None}
      BY DEF Op, AllKinds, First
    <2>3. (IF hurt[o.name] = {} THEN {latest[o.name]} ELSE {}) \in SUBSET (Uploads \cup {None})
      BY <2>2
    <2>4. expected' \in [Calls -> SUBSET (Uploads \cup {None})]
      BY <2>1, <2>3
    <2>5. pc' = [pc EXCEPT ![c] = First[o.kind]] /\ UNCHANGED <<written, data, got, answer, fd, meta, latest>>
      BY <1>1, <2>1 DEF Arrive
    <2>6. QED
      BY <2>2, <2>4, <2>5
  <1>2. ASSUME NEW c \in Calls, TurnAway(c) PROVE MoreTypes'
    BY <1>2 DEF TurnAway
  <1>3. ASSUME NEW c \in Calls, Create(c) PROVE MoreTypes'
    <2> DEFINE n == op[c].name
               file == IF path[n] = None THEN c ELSE path[n]
    <2>1. file \in Uploads /\ <<>> \in Seq(Uploads \cup {None})
      BY DEF Op, Uploads
    <2>2. data' = [data EXCEPT ![file] = <<>>] /\ fd' = [fd EXCEPT ![c] = file] /\ Goto(c, "copy")
      BY <1>3 DEF Create
    <2>3. UNCHANGED <<written, got, meta, latest, expected>>
      BY <1>3 DEF Create
    <2> HIDE DEF file
    <2>4. QED
      BY <2>1, <2>2, <2>3
  <1>4. ASSUME NEW c \in Calls, Copy(c) PROVE MoreTypes'
    <2>1. fd[c] \in Uploads
      BY <1>4 DEF Copy, FilesApart
    <2>2. WriteAt(data[fd[c]], written[c] + 1, c) \in Seq(Uploads \cup {None})
      <3>1. data[fd[c]] \in Seq(Uploads \cup {None}) /\ written[c] + 1 \in Nat \ {0}
        BY <2>1
      <3>2. c \in Uploads \cup {None} /\ None \in Uploads \cup {None}
        BY DEF Uploads
      <3>3. QED
        BY <3>1, <3>2, WriteType
    <2>3. QED
      BY <1>4, <2>1, <2>2 DEF Copy
  <1>5. ASSUME NEW c \in Calls, CopyDone(c) PROVE MoreTypes'
    BY <1>5 DEF CopyDone
  <1>6. ASSUME NEW c \in Calls, PutObject(c) \/ PutUnheard(c) PROVE MoreTypes'
    <2>1. data' = [data EXCEPT ![c] = Content(c)] /\ Content(c) \in Seq(Uploads \cup {None})
      BY <1>6, ContentType DEF PutObject, PutUnheard, Uploads
    <2>2. pc'[c] # "read" /\ \A d \in Calls \ {c} : pc'[d] = pc[d]
      BY <1>6 DEF PutObject, PutUnheard
    <2>3. answer' \in [Calls -> {"none", "ok", "notfound", "error"}]
      BY <1>6 DEF PutObject, PutUnheard
    <2>4. UNCHANGED <<fd, written, meta, got, latest, expected>>
      BY <1>6 DEF PutObject, PutUnheard
    <2>5. QED
      BY <2>1, <2>2, <2>3, <2>4
  <1>7. ASSUME NEW c \in Calls,
               PutFails(c) \/ RecordFails(c) \/ RecordUnheard(c) \/ DeleteUnheard(c)
        PROVE MoreTypes'
    BY <1>7 DEF PutFails, RecordFails, RecordUnheard, DeleteUnheard
  <1>8. ASSUME NEW c \in Calls, Record(c) PROVE MoreTypes'
    BY <1>8 DEF Record, Uploads
  <1>9. ASSUME NEW c \in Calls, DeleteRow(c) PROVE MoreTypes'
    BY <1>9 DEF DeleteRow
  <1>10. ASSUME NEW c \in Calls, RemoveFile(c) PROVE MoreTypes'
    <2>1. pc' = [pc EXCEPT ![c] = "end"] /\ answer' \in [Calls -> {"none", "ok", "notfound", "error"}]
      BY <1>10 DEF RemoveFile
    <2>2. latest' \in [Names -> Uploads \cup {None}]
      BY <1>10 DEF RemoveFile
    <2>3. QED
      BY <1>10, <2>1, <2>2 DEF RemoveFile
  <1>11. ASSUME NEW c \in Calls, Lookup(c) PROVE MoreTypes'
    <2>1. rows[op[c].name] \in Uploads \cup {None}
      BY DEF Op
    <2>2. QED
      BY <1>11, <2>1 DEF Lookup
  <1>12. ASSUME NEW c \in Calls, Open(c) PROVE MoreTypes'
    <2>1. path[op[c].name] \in Uploads \cup {None}
      BY DEF Op
    <2>2. QED
      BY <1>12, <2>1 DEF Open
  <1>13. ASSUME NEW c \in Calls, Read(c) PROVE MoreTypes'
    <2> DEFINE next == Len(got[c]) + 1
    <2>1. CASE next <= Len(data[fd[c]]) /\ next <= Size(meta[c])
      <3>1. got' = [got EXCEPT ![c] = Append(@, data[fd[c]][next])]
        BY <1>13, <2>1 DEF Read
      <3>2. fd[c] \in Uploads
        BY <1>13 DEF Read
      <3>3. data[fd[c]][next] \in Uploads \cup {None}
        BY <2>1, <3>2
      <3>4. got' \in [Calls -> Seq(Uploads \cup {None})]
        BY <3>1, <3>3
      <3>5. QED
        BY <1>13, <2>1, <3>4 DEF Read
    <2>2. CASE ~(next <= Len(data[fd[c]]) /\ next <= Size(meta[c]))
      BY <1>13, <2>2 DEF Read
    <2>3. QED
      BY <2>1, <2>2
  <1>14. ASSUME NEW c \in Calls, Fail(c) PROVE MoreTypes'
    BY <1>14 DEF Fail
  <1>15. CASE Crash
    BY <1>15 DEF Crash
  <1>16. CASE UNCHANGED vars
    BY <1>16 DEF vars
  <1>17. QED
    BY <1>1, <1>2, <1>3, <1>4, <1>5, <1>6, <1>7, <1>8, <1>9, <1>10, <1>11, <1>12, <1>13,
       <1>14, <1>15, <1>16 DEF Next, Handle, Upload

LEMMA PhasesNext == SInv /\ [Next]_vars => Phases'
  <1> SUFFICES ASSUME SInv, [Next]_vars, NEW d \in Calls
               PROVE (/\ pc[d] \in {"create", "copy", "record", "discard", "cleanup"}
                           => op[d].kind = "upload"
                      /\ pc[d] \in {"deleteRow", "remove"} => op[d].kind = "delete"
                      /\ pc[d] \in {"idle", "create"} => written[d] = 0
                      /\ pc[d] = "idle" => got[d] = <<>>
                      /\ pc[d] # "end" => answer[d] = "none"
                      /\ written[d] <= op[d].size)'
    BY DEF Phases
  <1> USE DEF SInv, Types, MoreTypes, Phases, Op, callVars, disk, history
  <1>1. ASSUME NEW c \in Calls, Arrive(c) PROVE Phases'
    <2>1. PICK o \in Op : op' = [op EXCEPT ![c] = o] /\ Goto(c, First[o.kind])
      BY <1>1 DEF Arrive
    <2>2. /\ First[o.kind] = "create" => o.kind = "upload"
          /\ First[o.kind] = "deleteRow" => o.kind = "delete"
          /\ First[o.kind] \in {"create", "lookup", "deleteRow"}
          /\ 0 <= o.size
      <3>1. o.kind \in AllKinds /\ o.size \in 1..MaxChunks /\ MaxChunks \in Nat
        BY StoreAssumption
      <3>2. 0 <= o.size
        BY <3>1
      <3>3. QED
        BY <3>1, <3>2 DEF AllKinds, First
    <2>3. pc[c] = "idle" /\ UNCHANGED <<written, got>>
      BY <1>1 DEF Arrive
    <2>4. QED
      BY <2>1, <2>2, <2>3 DEF Goto
  <1>2. ASSUME NEW c \in Calls, TurnAway(c) PROVE Phases'
    BY <1>2 DEF TurnAway, Return
  <1>3. ASSUME NEW c \in Calls, Create(c) \/ CopyDone(c) \/ PutObject(c) PROVE Phases'
    BY <1>3 DEF Create, CopyDone, PutObject, Goto
  <1>4. ASSUME NEW c \in Calls, Copy(c) PROVE Phases'
    BY <1>4 DEF Copy
  <1>5. ASSUME NEW c \in Calls, PutFails(c) \/ PutUnheard(c) \/ RecordFails(c) \/ RecordUnheard(c)
        PROVE Phases'
    BY <1>5 DEF PutFails, PutUnheard, RecordFails, RecordUnheard, Goto, Return
  <1>6. ASSUME NEW c \in Calls, Record(c) \/ RemoveFile(c) PROVE Phases'
    <2>1. pc' = [pc EXCEPT ![c] = "end"] /\ \A e \in Calls \ {c} : answer'[e] = answer[e]
      BY <1>6 DEF Record, RemoveFile, Return
    <2>2. UNCHANGED <<op, written, got>>
      BY <1>6 DEF Record, RemoveFile
    <2>3. QED
      BY <2>1, <2>2
  <1>7. ASSUME NEW c \in Calls, DeleteRow(c) PROVE Phases'
    BY <1>7 DEF DeleteRow, Goto, Return
  <1>8. ASSUME NEW c \in Calls, Lookup(c) \/ Open(c) \/ Fail(c) \/ DeleteUnheard(c) PROVE Phases'
    BY <1>8 DEF Lookup, Open, Fail, DeleteUnheard, Goto, Return
  <1>9. ASSUME NEW c \in Calls, Read(c) PROVE Phases'
    <2>1. UNCHANGED <<pc, answer>> \/ Return(c, "ok")
      BY <1>9 DEF Read
    <2>2. pc[c] = "read" /\ \A e \in Calls \ {c} : got'[e] = got[e]
      BY <1>9 DEF Read
    <2>3. UNCHANGED <<op, written>>
      BY <1>9 DEF Read
    <2>4. QED
      BY <2>1, <2>2, <2>3 DEF Return
  <1>10. CASE Crash
    BY <1>10 DEF Crash
  <1>11. CASE UNCHANGED vars
    BY <1>11 DEF vars
  <1>12. QED
    BY <1>1, <1>2, <1>3, <1>4, <1>5, <1>6, <1>7, <1>8, <1>9, <1>10, <1>11
       DEF Next, Handle, Upload

\* A call that has arrived stays what it is.
LEMMA OpsStay ==
  ASSUME SInv, [Next]_vars, NEW d \in Calls, pc[d] # "idle"
  PROVE  op'[d] = op[d] /\ pc'[d] # "idle"
  <1> USE DEF SInv, Types
  <1>1. ASSUME NEW c \in Calls, Arrive(c) \/ TurnAway(c) PROVE op'[d] = op[d] /\ pc'[d] # "idle"
    BY <1>1 DEF Arrive, TurnAway, Goto, Return
  <1>2. ASSUME NEW c \in Calls, Handle(c) PROVE op'[d] = op[d] /\ pc'[d] # "idle"
    BY <1>2 DEF Handle, Upload, Create, Copy, CopyDone, PutObject, PutFails, PutUnheard, Record,
       RecordFails, RecordUnheard, DeleteRow, DeleteUnheard, RemoveFile, Lookup, Open, Read, Fail,
       Goto, Return
  <1>3. CASE Crash
    BY <1>3 DEF Crash
  <1>4. CASE UNCHANGED vars
    BY <1>4 DEF vars, callVars
  <1>5. QED
    BY <1>1, <1>2, <1>3, <1>4 DEF Next

LEMMA NamedNext == SInv /\ [Next]_vars => Named'
  <1> SUFFICES ASSUME SInv, [Next]_vars PROVE Named'
    OBVIOUS
  <1> USE DEF SInv, Types, MoreTypes, Op, callVars, disk, history
  <1>1. \A d \in Calls : pc[d] # "idle" => pc'[d] # "idle"
    BY OpsStay
  <1>2. CASE UNCHANGED <<latest, expected>>
    BY <1>1, <1>2 DEF Named
  <1>3. ASSUME NEW c \in Calls, Arrive(c) PROVE Named'
    <2>1. PICK o \in Op :
            expected' = [expected EXCEPT
                          ![c] = IF serial /\ hurt[o.name] = {} THEN {latest[o.name]} ELSE {}]
      BY <1>3 DEF Arrive
    <2>2. UNCHANGED latest
      BY <1>3 DEF Arrive
    <2>3. \A d \in Calls : \A u \in expected'[d] : u \in expected[d] \/ u = latest[o.name]
      BY <2>1
    <2>4. QED
      BY <1>1, <2>2, <2>3 DEF Named
  <1>4. ASSUME NEW c \in Calls, Record(c) PROVE Named'
    BY <1>1, <1>4 DEF Record, Return, Named
  <1>5. ASSUME NEW c \in Calls, RemoveFile(c) PROVE Named'
    <2>1. \A n \in Names : latest'[n] = latest[n] \/ latest'[n] = None
      BY <1>5 DEF RemoveFile
    <2>2. UNCHANGED expected
      BY <1>5 DEF RemoveFile
    <2>3. QED
      BY <1>1, <2>1, <2>2, StoreAssumption DEF Named
  <1>6. ASSUME NEW c \in Calls,
               TurnAway(c) \/ Create(c) \/ Copy(c) \/ CopyDone(c) \/ PutObject(c) \/ PutFails(c)
               \/ PutUnheard(c) \/ RecordFails(c) \/ RecordUnheard(c) \/ DeleteRow(c)
               \/ DeleteUnheard(c) \/ Lookup(c) \/ Open(c) \/ Read(c) \/ Fail(c)
        PROVE UNCHANGED <<latest, expected>>
    BY <1>6 DEF TurnAway, Create, Copy, CopyDone, PutObject, PutFails, PutUnheard, RecordFails,
       RecordUnheard, DeleteRow, DeleteUnheard, Lookup, Open, Read, Fail
  <1>7. CASE Crash \/ UNCHANGED vars
    BY <1>2, <1>7 DEF Crash, vars
  <1>8. QED
    BY <1>2, <1>3, <1>4, <1>5, <1>6, <1>7 DEF Next, Handle, Upload

LEMMA FilesApartNext == SInv /\ [Next]_vars => FilesApart'
  <1> SUFFICES ASSUME SInv, [Next]_vars PROVE FilesApart'
    OBVIOUS
  <1> USE StoreAssumption DEF SInv, Types, MoreTypes, Op, Uploads, callVars, disk, history
  <1>1. \A d \in Calls : pc[d] # "idle" => op'[d] = op[d] /\ pc'[d] # "idle"
    BY OpsStay
  <1>2. ASSUME NEW c \in Calls, Create(c) PROVE FilesApart'
    <2> DEFINE n == op[c].name
               file == IF path[n] = None THEN c ELSE path[n]
    <2>1. /\ path' = [path EXCEPT ![n] = file] /\ fd' = [fd EXCEPT ![c] = file]
          /\ pc' = [pc EXCEPT ![c] = "copy"] /\ op' = op
          /\ pc[c] = "create"
      BY <1>2 DEF Create, Goto
    <2>2. /\ n \in Names /\ file \in Uploads
          /\ file \in Calls => op[file].name = n /\ pc'[file] # "idle"
          /\ file = Old => path[n] = Old
      BY <2>1 DEF FilesApart
    <2> HIDE DEF file
    <2>3. \A m \in Names : path'[m] = path[m] \/ (m = n /\ path'[m] = file)
      BY <2>1
    <2>4. \A m \in Names : path'[m] \in Calls => op'[path'[m]].name = m /\ pc'[path'[m]] # "idle"
      BY <1>1, <2>1, <2>2, <2>3 DEF FilesApart
    <2>5. \A m \in Names : path'[m] = Old => path[m] = Old
      BY <2>2, <2>3
    <2>6. \A l, m \in Names : path'[l] = Old /\ path'[m] = Old => l = m
      BY <2>5 DEF FilesApart
    <2>7. ASSUME NEW d \in Calls, pc'[d] = "copy"
          PROVE /\ fd'[d] \in Uploads
                /\ fd'[d] \in Calls => op'[fd'[d]].name = op'[d].name /\ pc'[fd'[d]] # "idle"
                /\ fd'[d] = Old => \A m \in Names : path'[m] = Old => m = op'[d].name
      <3>1. CASE d = c
        <4>1. fd'[d] = file /\ op'[d].name = n
          BY <2>1, <3>1
        <4>2. file = Old => \A m \in Names : path'[m] = Old => m = n
          BY <2>2, <2>5 DEF FilesApart
        <4>3. QED
          BY <1>1, <2>1, <2>2, <4>1, <4>2
      <3>2. CASE d # c
        <4>1. fd'[d] = fd[d] /\ pc[d] = "copy"
          BY <2>1, <2>7, <3>2
        <4>2. fd[d] = Old => \A m \in Names : path'[m] = Old => m = op[d].name
          BY <2>5, <4>1 DEF FilesApart
        <4>3. QED
          BY <1>1, <2>1, <4>1, <4>2 DEF FilesApart
      <3>3. QED
        BY <3>1, <3>2
    <2>8. QED
      BY <2>4, <2>6, <2>7 DEF FilesApart
  <1>3. ASSUME NEW c \in Calls, PutObject(c) \/ PutUnheard(c) PROVE FilesApart'
    <2>1. /\ path' = [path EXCEPT ![op[c].name] = c] /\ UNCHANGED <<fd, op>>
          /\ pc[c] = "create"
          /\ \E where \in {"record", "end"} : pc' = [pc EXCEPT ![c] = where]
      BY <1>3 DEF PutObject, PutUnheard, Goto, Return
    <2>2. \A m \in Names : path'[m] = path[m] \/ (m = op[c].name /\ path'[m] = c)
      BY <2>1
    <2>3. \A m \in Names : path'[m] = Old => path[m] = Old
      BY <2>2
    <2>4. \A m \in Names : path'[m] \in Calls => op'[path'[m]].name = m /\ pc'[path'[m]] # "idle"
      BY <1>1, <2>1, <2>2 DEF FilesApart
    <2>5. \A d \in Calls : pc'[d] = "copy" => pc[d] = "copy"
      BY <2>1
    <2>6. QED
      BY <1>1, <2>1, <2>3, <2>4, <2>5 DEF FilesApart
  <1>4. ASSUME NEW c \in Calls, RemoveFile(c) PROVE FilesApart'
    <2>1. /\ \A m \in Names : path'[m] = path[m] \/ path'[m] = None
          /\ UNCHANGED <<fd, op>> /\ pc' = [pc EXCEPT ![c] = "end"]
      BY <1>4 DEF RemoveFile, Return
    <2>2. \A m \in Names : path'[m] \in Calls => op'[path'[m]].name = m /\ pc'[path'[m]] # "idle"
      BY <1>1, <2>1 DEF FilesApart
    <2>3. \A d \in Calls : pc'[d] = "copy" => pc[d] = "copy"
      BY <2>1
    <2>4. \A m \in Names : path'[m] = Old => path[m] = Old
      BY <2>1
    <2>5. QED
      BY <1>1, <2>1, <2>2, <2>3, <2>4 DEF FilesApart
  <1>5. ASSUME NEW c \in Calls, Open(c) PROVE FilesApart'
    <2>1. /\ \A d \in Calls \ {c} : fd'[d] = fd[d] /\ pc'[d] = pc[d]
          /\ pc'[c] # "copy" /\ UNCHANGED <<path, op>>
      BY <1>5 DEF Open, Goto, Return
    <2>2. \A m \in Names : path'[m] \in Calls => op'[path'[m]].name = m /\ pc'[path'[m]] # "idle"
      BY <1>1, <2>1 DEF FilesApart
    <2>3. \A d \in Calls : pc'[d] = "copy" => pc[d] = "copy" /\ fd'[d] = fd[d]
      BY <2>1
    <2>4. QED
      BY <1>1, <2>1, <2>2, <2>3 DEF FilesApart
  <1>6. ASSUME NEW c \in Calls,
               TurnAway(c) \/ Copy(c) \/ CopyDone(c) \/ PutFails(c) \/ Record(c) \/ RecordFails(c)
               \/ RecordUnheard(c) \/ DeleteRow(c) \/ DeleteUnheard(c) \/ Lookup(c) \/ Read(c)
               \/ Fail(c)
        PROVE FilesApart'
    <2>1. UNCHANGED <<path, fd, op>> /\ \A d \in Calls : pc'[d] = "copy" => pc[d] = "copy"
      BY <1>6 DEF TurnAway, Copy, CopyDone, PutFails, Record, RecordFails, RecordUnheard, DeleteRow,
         DeleteUnheard, Lookup, Read, Fail, Goto, Return
    <2>2. QED
      BY <1>1, <2>1 DEF FilesApart
  <1>7. ASSUME NEW c \in Calls, Arrive(c) PROVE FilesApart'
    <2>1. PICK o \in Op : op' = [op EXCEPT ![c] = o] /\ Goto(c, First[o.kind])
      BY <1>7 DEF Arrive
    <2>2. First[o.kind] # "copy"
      BY DEF AllKinds, First
    <2>3. UNCHANGED <<path, fd>> /\ pc[c] = "idle"
      BY <1>7 DEF Arrive
    <2>4. \A d \in Calls : pc'[d] = "copy" => d # c /\ pc[d] = "copy" /\ op'[d] = op[d]
      BY <2>1, <2>2, <2>3 DEF Goto
    <2>5. QED
      BY <1>1, <2>3, <2>4 DEF FilesApart
  <1>8. CASE Crash
    <2>1. UNCHANGED <<path, fd, op>> /\ \A d \in Calls : pc'[d] # "copy"
      BY <1>8 DEF Crash
    <2>2. QED
      BY <1>1, <2>1 DEF FilesApart
  <1>9. CASE UNCHANGED vars
    BY <1>9 DEF vars, FilesApart
  <1>10. QED
    BY <1>2, <1>3, <1>4, <1>5, <1>6, <1>7, <1>8, <1>9 DEF Next, Handle, Upload

-----------------------------------------------------------------------------
(***************************************************************************)
(* SerialInv.  A step of a call c on a name n leaves alone what other      *)
(* calls and other names are about.                                        *)
(***************************************************************************)
Local(c, n) ==
  /\ \A m \in Names \ {n} :
       /\ rows'[m] = rows[m] /\ path'[m] = path[m]
       /\ latest'[m] = latest[m] /\ hurt'[m] = hurt[m]
       /\ path[m] # None => data'[path[m]] = data[path[m]]
  /\ \A d \in Calls \ {c} :
       /\ pc'[d] = pc[d] /\ op'[d] = op[d] /\ answer'[d] = answer[d] /\ fd'[d] = fd[d]
       /\ written'[d] = written[d] /\ meta'[d] = meta[d] /\ got'[d] = got[d]
       /\ expected'[d] = expected[d]

\* Whose content a call or a name is compared with does not change.
LEMMA ContentStays ==
  ASSUME SInv, [Next]_vars, NEW u \in Uploads, u \in Calls => pc[u] # "idle"
  PROVE  Size(u)' = Size(u) /\ Content(u)' = Content(u)
  <1>1. Size(u)' = Size(u)
    BY OpsStay DEF Size, Uploads
  <1>2. QED
    BY <1>1 DEF Content

LEMMA AgreeStays ==
  ASSUME SInv, [Next]_vars, NEW m \in Names,
         rows'[m] = rows[m], path'[m] = path[m], latest'[m] = latest[m],
         path[m] # None => data'[path[m]] = data[path[m]],
         Agree(m)
  PROVE  Agree(m)'
  <1>1. CASE latest[m] = None
    BY <1>1 DEF Agree
  <1>2. CASE latest[m] # None
    <2>1. latest[m] \in Uploads /\ (latest[m] \in Calls => pc[latest[m]] # "idle")
      BY <1>2 DEF SInv, MoreTypes, Named
    <2>2. Content(latest[m])' = Content(latest[m])
      BY <2>1, ContentStays DEF Content, Size
    <2>3. QED
      BY <1>2, <2>2 DEF Agree
  <1>3. QED
    BY <1>1, <1>2

LEMMA OthersKeep ==
  ASSUME SInv, [Next]_vars, serial, NEW c \in Calls, NEW n \in Names, Local(c, n),
         \A d \in Calls \ {c} : op[d].name = n => ~Busy(d),
         Busy(c) => op[c].name = n
  PROVE  /\ \A m \in Names \ {n} : Settled(m)'
         /\ \A d \in Calls \ {c} : Facts(d)'
  <1>0. Types'
    BY TypesNext DEF SInv
  <1> USE DEF SInv, Types, MoreTypes, Op
  <1>1. ASSUME NEW m \in Names \ {n} PROVE Settled(m)'
    <2> SUFFICES ASSUME Quiet(m)', hurt'[m] = {} PROVE Agree(m)'
      BY DEF Settled
    <2>1. Quiet(m)
      <3> SUFFICES ASSUME NEW d \in Calls, op[d].name = m, Busy(d) PROVE FALSE
        BY DEF Quiet, Active, Busy
      <3>1. d # c
        OBVIOUS
      <3>2. QED
        BY <3>1 DEF Local, Quiet, Active, Busy
    <2>2. Agree(m)
      BY <2>1 DEF Settled, SerialInv, Local
    <2>3. QED
      BY <2>2, AgreeStays DEF Local
  <1>2. ASSUME NEW d \in Calls \ {c} PROVE Facts(d)'
    <2> DEFINE m == op[d].name
    <2>0. m \in Names /\ m' = m
      BY DEF Local
    <2>2. Facts(d)
      BY DEF SerialInv
    <2>3. Size(d)' = Size(d) /\ Content(d)' = Content(d)
      BY DEF Local, Content, Size
    <2>4. ASSUME NEW u \in expected[d], u # None
          PROVE  Size(u)' = Size(u) /\ Content(u)' = Content(u)
      <3>1. u \in Uploads /\ (u \in Calls => pc[u] # "idle")
        BY <2>4 DEF Named
      <3>2. QED
        BY <3>1, ContentStays
    <2>5. /\ pc'[d] = pc[d] /\ op'[d] = op[d] /\ answer'[d] = answer[d] /\ fd'[d] = fd[d]
          /\ written'[d] = written[d] /\ meta'[d] = meta[d] /\ got'[d] = got[d]
          /\ expected'[d] = expected[d]
      BY DEF Local
    <2>6. CASE m = n
      <3>1. ~Busy(d)
        BY <2>6
      <3>2. Changing(d)' /\ Untouched(d)'
        BY <2>5, <3>1 DEF Busy, Changing, Untouched
      <3>3. Downloading(d)'
        BY <2>2, <2>4, <2>5, <3>1 DEF Busy, Facts, Downloading
      <3>4. QED
        BY <3>2, <3>3 DEF Facts
    <2>7. CASE m # n
      <3>1. Agree(m) => Agree(m)'
        BY <2>0, <2>7, AgreeStays DEF Local
      <3>2. /\ rows'[m] = rows[m] /\ path'[m] = path[m] /\ latest'[m] = latest[m]
            /\ path[m] # None => data'[path[m]] = data[path[m]]
            /\ hurt'[m] = hurt[m]
        BY <2>0, <2>7 DEF Local
      <3>3. Downloading(d)'
        BY <2>0, <2>2, <2>4, <2>5, <3>1, <3>2 DEF Facts, Downloading
      <3>4. Changing(d)'
        <4>1. pc[d] = "copy" => data'[fd[d]] = data[fd[d]]
          BY <2>2, <3>2, NoneIsNoUpload DEF Facts, Changing, FilesApart
        <4>2. QED
          BY <2>0, <2>2, <2>3, <2>5, <3>2, <4>1 DEF Facts, Changing
      <3>5. hurt'[m] = {} => Untouched(d)'
        BY <2>0, <2>2, <2>5, <3>1, <3>2 DEF Facts, Untouched
      <3>6. QED
        BY <2>0, <3>3, <3>4, <3>5 DEF Facts
    <2>8. QED
      BY <2>6, <2>7
  <1>3. QED
    BY <1>1, <1>2

LEMMA HandleIsLocal ==
  ASSUME SInv, NEW c \in Calls, Handle(c)
  PROVE  /\ Local(c, op[c].name) /\ Busy(c) /\ UNCHANGED <<op, serial, backend, expected>>
         /\ \A d \in Calls : Busy(d)' => Busy(d)
  <1> DEFINE n == op[c].name
  <1> USE DEF SInv, Types, MoreTypes, Op, Uploads, Goto, Return, Hurt, Heal, Busy
  <1>1. CASE Create(c)
    <2> DEFINE file == IF path[n] = None THEN c ELSE path[n]
    <2>1. /\ path' = [path EXCEPT ![n] = file] /\ data' = [data EXCEPT ![file] = <<>>]
          /\ n \in Names
      BY <1>1 DEF Create
    <2>2. \A m \in Names \ {n} : path[m] # None => path[m] # file
      BY <2>1, StoreAssumption DEF FilesApart
    <2> HIDE DEF file
    <2>3. \A m \in Names \ {n} : path'[m] = path[m] /\ (path[m] # None => data'[path[m]] = data[path[m]])
      BY <2>1, <2>2
    <2>4. QED
      BY <1>1, <2>3 DEF Create, Local, history
  <1>2. CASE Copy(c)
    <2>1. \A m \in Names \ {n} : path[m] # fd[c]
      BY <1>2, StoreAssumption DEF Copy, FilesApart
    <2>2. \A m \in Names \ {n} : path[m] # None => data'[path[m]] = data[path[m]]
      BY <1>2, <2>1 DEF Copy
    <2>3. QED
      BY <1>2, <2>2 DEF Copy, Local, history
  <1>3. CASE PutObject(c) \/ PutUnheard(c)
    <2>1. \A m \in Names \ {n} : path[m] # c
      BY <1>3 DEF PutObject, PutUnheard, FilesApart
    <2>2. \A m \in Names \ {n} :
            path'[m] = path[m] /\ (path[m] # None => data'[path[m]] = data[path[m]])
      BY <1>3, <2>1 DEF PutObject, PutUnheard
    <2>3. QED
      BY <1>3, <2>2 DEF PutObject, PutUnheard, Local, history
  <1>4. CASE CopyDone(c) \/ PutFails(c)
    BY <1>4 DEF CopyDone, PutFails, Local, history, disk
  <1>5. CASE Record(c) \/ RecordFails(c) \/ RecordUnheard(c)
    BY <1>5 DEF Record, RecordFails, RecordUnheard, Local, history, disk
  <1>6. CASE DeleteRow(c) \/ DeleteUnheard(c) \/ Fail(c)
    BY <1>6 DEF DeleteRow, DeleteUnheard, Fail, Local, history, disk
  <1>7. CASE RemoveFile(c)
    <2>1. \A m \in Names \ {n} : path'[m] = path[m] /\ latest'[m] = latest[m] /\ hurt'[m] = hurt[m]
      BY <1>7 DEF RemoveFile
    <2>2. /\ pc' = [pc EXCEPT ![c] = "end"] /\ \A d \in Calls \ {c} : answer'[d] = answer[d]
      BY <1>7 DEF RemoveFile
    <2>3. /\ UNCHANGED <<op, fd, written, meta, got, backend, serial, rows, data, expected>>
          /\ pc[c] \notin {"idle", "end"}
      BY <1>7 DEF RemoveFile
    <2>4. QED
      BY <2>1, <2>2, <2>3 DEF Local
  <1>8. CASE Lookup(c) \/ Open(c)
    BY <1>8 DEF Lookup, Open, Local, history, disk
  <1>9. CASE Read(c)
    <2>1. /\ \A d \in Calls \ {c} : pc'[d] = pc[d] /\ answer'[d] = answer[d] /\ got'[d] = got[d]
          /\ pc[c] = "read"
      BY <1>9 DEF Read
    <2>2. UNCHANGED <<op, fd, written, meta, backend, serial, rows, path, data, hurt, latest, expected>>
      BY <1>9 DEF Read, disk, history
    <2>3. QED
      BY <2>1, <2>2 DEF Local
  <1>10. QED
    BY <1>1, <1>2, <1>3, <1>4, <1>5, <1>6, <1>7, <1>8, <1>9 DEF Handle, Upload

LEMMA WriteNext ==
  ASSUME NEW u, NEW k \in Nat
  PROVE  WriteAt([i \in 1..k |-> u], k + 1, u) = [i \in 1..k + 1 |-> u]
  <1>1. Len([i \in 1..k |-> u]) = k
    OBVIOUS
  <1>2. QED
    BY <1>1 DEF WriteAt

LEMMA SizeIsNat ==
  ASSUME SInv, NEW u \in Uploads
  PROVE  Size(u) \in Nat \ {0} /\ (u \in Calls => Size(u) = op[u].size)
  BY StoreAssumption DEF Size, Uploads, SInv, Types, Op

\* What a step of a call leaves it and its name with.
LEMMA OwnStep ==
  ASSUME SInv, [Next]_vars, serial, NEW c \in Calls, Handle(c),
         NEW n \in Names, n = op[c].name
  PROVE  Settled(n)' /\ Facts(c)'
  <1>0. /\ Local(c, n) /\ UNCHANGED <<op, expected>> /\ Busy(c)
        /\ Types' /\ MoreTypes'
    BY HandleIsLocal, TypesNext, MoreTypesNext DEF SInv
  <1> DEFINE Left == hurt'[n] = {} => (Untouched(c)' /\ (~Busy(c)' => Agree(n)'))
  <1> SUFFICES Downloading(c)' /\ Changing(c)' /\ Left
    BY <1>0 DEF Settled, Facts, Quiet, Active, Busy
  <1>1. /\ Downloading(c) /\ Changing(c)
        /\ hurt[n] = {} => Untouched(c)
    BY <1>0 DEF SInv, SerialInv, Facts
  <1>2. \A u \in Uploads : (u \in Calls => pc[u] # "idle") =>
          Size(u)' = Size(u) /\ Content(u)' = Content(u)
    BY ContentStays
  <1> USE DEF Goto, Return, Busy
  <1>3. CASE Create(c)
    <2>1. op[c].kind = "upload" /\ written[c] = 0
      BY <1>3 DEF Create, SInv, Phases
    <2>2. /\ pc'[c] = "copy" /\ path'[n] = fd'[c] /\ data'[fd'[c]] = <<>> /\ written'[c] = 0
      <3> DEFINE file == IF path[n] = None THEN c ELSE path[n]
      <3>1. /\ path' = [path EXCEPT ![n] = file] /\ data' = [data EXCEPT ![file] = <<>>]
            /\ fd' = [fd EXCEPT ![c] = file] /\ pc' = [pc EXCEPT ![c] = "copy"]
            /\ written' = written
        BY <1>3 DEF Create
      <3>2. file \in Uploads
        BY DEF SInv, Types, Uploads
      <3> HIDE DEF file
      <3>3. QED
        BY <2>1, <3>1, <3>2 DEF SInv, Types, MoreTypes
    <2>3. <<>> = [i \in 1..0 |-> c]
      OBVIOUS
    <2>4. Downloading(c)'
      BY <1>0, <2>1, <2>2 DEF Downloading
    <2>5. Changing(c)' /\ Left
      BY <1>0, <2>2, <2>3 DEF Changing, Untouched
    <2>6. QED
      BY <2>4, <2>5
  <1>4. CASE Copy(c)
    <2>1. /\ op[c].kind = "upload" /\ written[c] \in Nat
          /\ fd[c] \in Uploads /\ pc[c] = "copy"
      BY <1>4 DEF Copy, SInv, Phases, MoreTypes, FilesApart
    <2>2. data[fd[c]] = [i \in 1..written[c] |-> c] /\ path[n] = fd[c]
      BY <1>1, <2>1 DEF Changing
    <2>3. data'[fd[c]] = [i \in 1..written[c] + 1 |-> c]
      <3>1. data' = [data EXCEPT ![fd[c]] = WriteAt(@, written[c] + 1, c)]
        BY <1>4 DEF Copy
      <3>2. data'[fd[c]] = WriteAt(data[fd[c]], written[c] + 1, c)
        BY <2>1, <3>1 DEF SInv, MoreTypes
      <3>3. QED
        BY <2>1, <2>2, <3>2, WriteNext
    <2>4. /\ written'[c] = written[c] + 1 /\ UNCHANGED <<pc, answer, fd, path>>
      BY <1>4 DEF Copy, SInv, MoreTypes
    <2>5. Downloading(c)'
      BY <1>0, <2>1, <2>4 DEF Downloading
    <2>6. Changing(c)' /\ Left
      BY <1>0, <2>1, <2>2, <2>3, <2>4 DEF Changing, Untouched
    <2>7. QED
      BY <2>5, <2>6
  <1>5. CASE CopyDone(c)
    <2>1. /\ op[c].kind = "upload" /\ pc[c] = "copy" /\ written[c] = op[c].size
          /\ pc'[c] = "record" /\ UNCHANGED <<path, data>>
      BY <1>5 DEF CopyDone, SInv, Phases, Types, disk
    <2>2. fd[c] \in Uploads
      BY <2>1 DEF SInv, FilesApart
    <2>3. path[n] = fd[c] /\ data[fd[c]] = Content(c)
      BY <1>1, <2>1, SizeIsNat DEF Changing, Content, Uploads
    <2>4. Content(c)' = Content(c)
      BY <1>2, <2>1 DEF Uploads
    <2>5. QED
      BY <1>0, <2>1, <2>2, <2>3, <2>4, NoneIsNoUpload DEF Downloading, Changing, Untouched
  <1>6. CASE PutObject(c)
    <2>1. /\ op[c].kind = "upload" /\ pc'[c] = "record" /\ pc[c] = "create"
          /\ path'[n] = c /\ data'[c] = Content(c)
      BY <1>6 DEF PutObject, SInv, Phases, Types, MoreTypes, Uploads
    <2>2. Content(c)' = Content(c)
      BY <1>2, <2>1 DEF Uploads
    <2>3. QED
      BY <1>0, <2>1, <2>2, NoneIsNoUpload DEF Downloading, Changing, Untouched, Uploads
  <1>7. CASE \/ PutFails(c) /\ pc[c] = "copy"
             \/ PutUnheard(c) \/ RecordFails(c) \/ RecordUnheard(c) \/ DeleteUnheard(c)
    <2>1. PICK fault : hurt' = [hurt EXCEPT ![n] = @ \cup {fault}]
      BY <1>7 DEF PutFails, PutUnheard, RecordFails, RecordUnheard, DeleteUnheard, Hurt
    <2>2. fault \in hurt'[n]
      BY <2>1 DEF SInv, Types
    <2>3. op[c].kind \in {"upload", "delete"} /\ pc'[c] \in {"end", "discard", "cleanup"}
      BY <1>7 DEF PutFails, PutUnheard, RecordFails, RecordUnheard, DeleteUnheard, SInv, Phases, Types
    <2>4. QED
      BY <1>0, <2>2, <2>3 DEF Downloading, Changing
  <1>16. CASE PutFails(c) /\ pc[c] = "create"
    \* Nothing was stored.
    <2>1. /\ op[c].kind = "upload" /\ pc'[c] = "end" /\ answer'[c] = "error"
          /\ UNCHANGED <<rows, path, data, latest, hurt>>
      BY <1>16 DEF PutFails, SInv, Phases, Types, MoreTypes, disk
    <2>2. Agree(n) => Agree(n)'
      BY <2>1, AgreeStays
    <2>3. QED
      BY <1>0, <1>1, <1>16, <2>1, <2>2 DEF Downloading, Changing, Untouched
  <1>8. CASE Record(c)
    <2>1. /\ op[c].kind = "upload" /\ pc[c] = "record" /\ pc'[c] = "end"
          /\ rows'[n] = c /\ latest'[n] = c /\ UNCHANGED <<path, data>>
      BY <1>8 DEF Record, SInv, Phases, Types, MoreTypes, disk
    <2>2. path[n] # None /\ data[path[n]] = Content(c) /\ Content(c)' = Content(c)
      BY <1>1, <1>2, <2>1 DEF Changing, Uploads
    <2>3. Agree(n)'
      <3>1. Content(latest[n])' = Content(c)
        BY <2>1, <2>2 DEF Content, Size
      <3>2. QED
        BY <2>1, <2>2, <3>1, NoneIsNoUpload DEF Agree, Uploads
    <2>4. QED
      BY <1>0, <2>1, <2>3 DEF Downloading, Changing, Untouched
  <1>9. CASE DeleteRow(c)
    <2>1. /\ op[c].kind = "delete" /\ pc[c] = "deleteRow" /\ rows'[n] = None
          /\ UNCHANGED <<path, data, latest>>
          /\ \/ rows[n] = None /\ pc'[c] = "end"
             \/ pc'[c] = "remove"
      BY <1>9 DEF DeleteRow, SInv, Phases, Types, disk, history
    <2>2. hurt[n] = {} => Agree(n)
      BY <1>1, <2>1 DEF Untouched
    <2>3. rows[n] = None /\ hurt[n] = {} => Agree(n)'
      BY <2>1, <2>2, AgreeStays
    <2>4. UNCHANGED hurt
      BY <1>9 DEF DeleteRow, history
    <2>5. QED
      BY <1>0, <2>1, <2>3, <2>4 DEF Downloading, Changing, Untouched
  <1>10. CASE RemoveFile(c)
    <2>1. /\ pc[c] \in {"remove", "cleanup", "discard"} /\ pc'[c] = "end"
          /\ op[c].kind # "download" /\ UNCHANGED rows
      BY <1>10 DEF RemoveFile, SInv, Phases, Types
    <2>2. Downloading(c)' /\ Changing(c)' /\ Untouched(c)'
      BY <1>0, <2>1 DEF Downloading, Changing, Untouched
    <2>3. CASE pc[c] = "remove"
      <3>1. rows[n] = None /\ latest'[n] = None
        BY <1>1, <1>10, <2>3 DEF RemoveFile, Changing, SInv, MoreTypes
      <3>2. hurt'[n] = {} => path'[n] = None
        BY <1>10 DEF RemoveFile, Hurt, SInv, Types
      <3>3. hurt'[n] = {} => Agree(n)'
        BY <2>1, <3>1, <3>2 DEF Agree
      <3>4. QED
        BY <2>2, <3>3
    <2>4. CASE pc[c] # "remove"
      \* A clean-up that succeeds mends nothing.
      <3>1. hurt[n] # {}
        BY <1>1, <2>1, <2>4 DEF Untouched
      <3>2. hurt[n] \subseteq hurt'[n]
        BY <1>10, <2>4 DEF RemoveFile, Hurt, SInv, Types
      <3>3. QED
        BY <2>2, <3>1, <3>2
    <2>5. QED
      BY <2>3, <2>4
  <1>11. CASE Lookup(c)
    <2>1. /\ pc[c] = "lookup" /\ meta'[c] = rows[n]
          /\ UNCHANGED <<rows, path, data, latest, got, hurt>>
          /\ rows[n] = None => pc'[c] = "end" /\ answer'[c] = "notfound"
          /\ rows[n] # None => pc'[c] = "open" /\ answer'[c] = answer[c]
      BY <1>11 DEF Lookup, SInv, Types, MoreTypes, disk, history
    <2>2. Agree(n) => Agree(n)'
      BY <2>1, AgreeStays
    <2>3. Changing(c)' /\ Left
      BY <1>0, <1>1, <2>1, <2>2 DEF Changing, Untouched
    <2>4. ASSUME NEW u \in expected[c]
          PROVE  /\ Agree(n) /\ u = latest[n] /\ rows[n] = u
                 /\ got[c] = <<>> /\ answer[c] = "none"
      BY <1>1, <2>1 DEF Downloading, Agree, SInv, Phases
    <2>5. Downloading(c)'
      BY <1>0, <2>1, <2>2, <2>4 DEF Downloading
    <2>6. QED
      BY <2>3, <2>5
  <1>12. CASE Open(c)
    <2>1. /\ pc[c] = "open" /\ UNCHANGED <<rows, path, data, latest, got, meta, hurt>>
          /\ fd'[c] = path[n] /\ pc'[c] \in {"read", "end"}
          /\ path[n] # None => pc'[c] = "read" /\ answer'[c] = answer[c]
      BY <1>12 DEF Open, SInv, Types, MoreTypes, disk, history
    <2>2. Agree(n) => Agree(n)'
      BY <2>1, AgreeStays
    <2>3. Changing(c)' /\ Left
      BY <1>0, <1>1, <2>1, <2>2 DEF Changing, Untouched
    <2>4. ASSUME NEW u \in expected[c]
          PROVE  /\ Agree(n) /\ u = latest[n] /\ u # None /\ meta[c] = u /\ path[n] # None
                 /\ got[c] = <<>> /\ answer[c] = "none"
      BY <1>1, <2>1 DEF Downloading, Agree, SInv, Phases
    <2>5. ASSUME NEW u \in expected[c] PROVE 0 <= Size(u)'
      <3>1. u \in Uploads
        BY <2>4, <2>5 DEF SInv, MoreTypes
      <3>2. Size(u)' = Size(u)
        BY <1>0 DEF Size
      <3>3. QED
        BY <3>1, <3>2, SizeIsNat
    <2>6. \A u : <<>> = [i \in 1..Len(<<>>) |-> u]
      OBVIOUS
    <2>7. Downloading(c)'
      BY <1>0, <2>1, <2>2, <2>4, <2>5, <2>6 DEF Downloading, Size
    <2>8. QED
      BY <2>3, <2>7
  <1>13. CASE Read(c)
    <2>1. /\ pc[c] = "read" /\ UNCHANGED <<rows, path, data, latest, meta, fd, hurt>>
          /\ pc'[c] \in {"read", "end"}
      BY <1>13 DEF Read, disk, history, SInv, Types
    <2>2. Agree(n) => Agree(n)'
      BY <2>1, AgreeStays
    <2>3. Changing(c)' /\ Left
      BY <1>0, <1>1, <2>1, <2>2 DEF Changing, Untouched
    <2> DEFINE k == Len(got[c])
    <2>4. k \in Nat /\ got[c] \in Seq(Uploads \cup {None})
      BY DEF SInv, MoreTypes
    <2>5. ASSUME NEW u \in expected[c]
          PROVE  /\ pc'[c] = "read" => Agree(n)' /\ u = latest'[n]
                 /\ pc'[c] = "read" => meta'[c] = u /\ u # None
                 /\ pc'[c] = "read" =>
                      /\ fd'[c] = path'[n]
                      /\ Len(got'[c]) <= Size(u)'
                      /\ got'[c] = [i \in 1..Len(got'[c]) |-> u]
                 /\ answer'[c] \in {"ok", "notfound"} =>
                      /\ u = None => answer'[c] = "notfound"
                      /\ u # None => answer'[c] = "ok" /\ got'[c] = Content(u)'
      <3>2. /\ Agree(n) /\ u = latest[n] /\ answer[c] = "none"
            /\ meta[c] = u /\ u # None /\ fd[c] = path[n]
            /\ k <= Size(u) /\ got[c] = [i \in 1..k |-> u]
        BY <1>1, <2>1 DEF Downloading, SInv, Phases
      <3>3. data[fd[c]] = Content(u) /\ Agree(n)'
        BY <2>2, <3>2 DEF Agree
      <3>4. /\ u \in Uploads /\ Size(u) \in Nat \ {0}
            /\ Size(u)' = Size(u) /\ Content(u)' = Content(u)
        <4>1. u \in Uploads
          BY <3>2 DEF SInv, MoreTypes
        <4>2. QED
          BY <1>0, <4>1, SizeIsNat DEF Size, Content
      <3>5. Len(Content(u)) = Size(u) /\ \A i \in 1..Size(u) : Content(u)[i] = u
        BY <3>4 DEF Content
      <3>6. CASE k + 1 <= Size(u)
        <4>1. got'[c] = Append(got[c], u) /\ UNCHANGED <<pc, answer>>
          <5>1. k + 1 <= Len(data[fd[c]]) /\ k + 1 <= Size(meta[c]) /\ data[fd[c]][k + 1] = u
            BY <2>4, <3>2, <3>3, <3>4, <3>5, <3>6
          <5>2. /\ got' = [got EXCEPT ![c] = Append(@, data[fd[c]][k + 1])]
                /\ UNCHANGED <<pc, answer>>
            BY <1>13, <5>1 DEF Read
          <5>3. QED
            BY <5>1, <5>2 DEF SInv, MoreTypes
        <4>2. Len(got'[c]) = k + 1 /\ got'[c] = [i \in 1..k + 1 |-> u]
          BY <2>4, <3>2, <3>4, <4>1
        <4>3. QED
          BY <2>1, <3>2, <3>3, <3>4, <3>6, <4>1, <4>2
      <3>7. CASE ~(k + 1 <= Size(u))
        <4>1. pc'[c] = "end" /\ answer'[c] = "ok" /\ got' = got
          BY <1>13, <3>2, <2>4, <3>7 DEF Read, SInv, MoreTypes, Types
        <4>2. got[c] = Content(u)
          <5>1. k = Size(u)
            BY <2>4, <3>2, <3>4, <3>7
          <5>2. QED
            BY <3>2, <5>1 DEF Content
        <4>3. QED
          BY <3>2, <3>4, <4>1, <4>2
      <3>8. QED
        BY <3>6, <3>7
    <2>6. Downloading(c)'
      <3>1. pc'[c] \notin {"lookup", "open"}
        BY <2>1
      <3>2. QED
        BY <1>0, <2>1, <2>5, <3>1 DEF Downloading
    <2>7. QED
      BY <2>3, <2>6
  <1>14. CASE Fail(c)
    <2>1. /\ pc[c] \in {"lookup", "open", "deleteRow"} /\ pc'[c] = "end" /\ answer'[c] = "error"
          /\ UNCHANGED <<rows, path, data, latest, hurt>>
      BY <1>14 DEF Fail, SInv, Types, MoreTypes, disk, history
    <2>2. Agree(n) => Agree(n)'
      BY <2>1, AgreeStays
    <2>3. QED
      BY <1>0, <1>1, <2>1, <2>2 DEF Downloading, Changing, Untouched
  <1>15. QED
    BY <1>3, <1>4, <1>5, <1>6, <1>7, <1>8, <1>9, <1>10, <1>11, <1>12, <1>13, <1>14, <1>16
       DEF Handle, Upload, PutFails

LEMMA SerialNext == SInv /\ [Next]_vars => SerialInv'
  <1> SUFFICES ASSUME SInv, [Next]_vars, serial' PROVE SerialInv'
    BY DEF SerialInv
  <1>0. serial
    BY DEF Next, Arrive, TurnAway, Handle, Upload, Create, Copy, CopyDone, PutObject, PutFails,
       PutUnheard, Record, RecordFails, RecordUnheard, DeleteRow, DeleteUnheard, RemoveFile,
       Lookup, Open, Read, Fail, Crash, vars
  <1>1. OneAtATime /\ (\A m \in Names : Settled(m)) /\ (\A d \in Calls : Facts(d))
    BY <1>0 DEF SInv, SerialInv
  <1>2. ASSUME NEW c \in Calls, Handle(c) PROVE SerialInv'
    <2>1. PICK n \in Names : n = op[c].name
      BY DEF SInv, Types, Op
    <2>2. /\ Local(c, n) /\ Busy(c) /\ UNCHANGED op
          /\ \A d \in Calls : Busy(d)' => Busy(d)
      BY <1>2, <2>1, HandleIsLocal
    <2>3. OneAtATime'
      BY <1>1, <2>2 DEF OneAtATime, Busy
    <2>4. \A d \in Calls \ {c} : op[d].name = n => ~Busy(d)
      BY <1>1, <2>1, <2>2 DEF OneAtATime
    <2>5. (\A m \in Names \ {n} : Settled(m)') /\ (\A d \in Calls \ {c} : Facts(d)')
      BY <1>0, <2>1, <2>2, <2>4, OthersKeep
    <2>6. Settled(n)' /\ Facts(c)'
      BY <1>0, <1>2, <2>1, OwnStep
    <2>7. QED
      BY <2>3, <2>5, <2>6 DEF SerialInv
  <1>3. ASSUME NEW c \in Calls, Arrive(c) PROVE SerialInv'
    <2>1. PICK o \in Op : /\ Quiet(o.name)
                          /\ op' = [op EXCEPT ![c] = o]
                          /\ expected' = [expected EXCEPT ![c] =
                               IF serial /\ hurt[o.name] = {} THEN {latest[o.name]} ELSE {}]
                          /\ Goto(c, First[o.kind])
      BY <1>0, <1>3 DEF Arrive
    <2>2. PICK n \in Names : n = o.name
      BY DEF Op
    <2>3. /\ pc[c] = "idle" /\ op'[c] = o /\ pc'[c] = First[o.kind]
          /\ expected'[c] = IF hurt[n] = {} THEN {latest[n]} ELSE {}
          /\ UNCHANGED <<answer, fd, written, meta, got, rows, path, data, hurt, latest>>
      BY <1>3, <2>1, <2>2 DEF Arrive, Goto, SInv, Types, MoreTypes, disk
    <2>4. Local(c, n)
      BY <2>1, <2>3 DEF Local, Goto
    <2>5. \A d \in Calls \ {c} : op[d].name = n => ~Busy(d)
      BY <2>1, <2>2 DEF Quiet, Active, Busy
    <2>6. (\A m \in Names \ {n} : Settled(m)') /\ (\A d \in Calls \ {c} : Facts(d)')
      BY <1>0, <2>3, <2>4, <2>5, OthersKeep DEF Busy
    <2>7. pc'[c] \in {"create", "lookup", "deleteRow"} /\ op'[c].name = n
      BY <2>2, <2>3 DEF Op, AllKinds, First
    <2>8. OneAtATime'
      BY <1>1, <2>4, <2>5, <2>7 DEF OneAtATime, Busy, Local
    <2>9. Settled(n)'
      BY <2>7 DEF Settled, Quiet, Active
    <2>10. Facts(c)'
      <3>1. hurt[n] = {} => Agree(n)
        BY <1>1, <2>1, <2>2 DEF Settled
      <3>2. hurt[n] = {} => Agree(n)'
        BY <2>3, <3>1, AgreeStays
      <3>3. got[c] = <<>> /\ answer[c] = "none"
        BY <2>3 DEF SInv, Phases
      <3>4. Downloading(c)'
        BY <2>3, <2>7, <3>2, <3>3 DEF Downloading
      <3>5. QED
        BY <2>3, <2>7, <3>2, <3>4 DEF Facts, Changing, Untouched
    <2>11. QED
      BY <2>6, <2>8, <2>9, <2>10 DEF SerialInv
  <1>4. ASSUME NEW c \in Calls, TurnAway(c) PROVE SerialInv'
    <2>1. PICK n \in Names : n = op[c].name
      BY DEF SInv, Types, Op
    <2>2. /\ pc[c] = "idle" /\ pc'[c] = "end" /\ answer'[c] = "error"
          /\ \A d \in Calls \ {c} : pc'[d] = pc[d] /\ answer'[d] = answer[d]
          /\ UNCHANGED <<op, fd, written, meta, got, rows, path, data, hurt, latest, expected>>
      BY <1>4 DEF TurnAway, Return, SInv, Types, MoreTypes, disk, history
    <2>3. \A m \in Names : Agree(m) => Agree(m)'
      BY <2>2, AgreeStays
    <2>4. OneAtATime' /\ \A m \in Names : Settled(m)'
      BY <1>1, <2>2, <2>3 DEF OneAtATime, Busy, Settled, Quiet, Active
    <2>5. ASSUME NEW d \in Calls PROVE Facts(d)'
      <3>1. CASE d = c
        BY <2>2, <3>1 DEF Facts, Downloading, Changing, Untouched
      <3>2. CASE d # c
        <4>1. op[d].name \in Names
          BY DEF SInv, Types, Op
        <4>2. Content(d)' = Content(d) /\ \A u : Size(u)' = Size(u)
          BY <2>2 DEF Content, Size
        <4>3. \A u : Content(u)' = Content(u)
          BY <2>2 DEF Content, Size
        <4>4. Facts(d)
          BY <1>1
        <4>5. QED
          BY <2>2, <2>3, <3>2, <4>1, <4>2, <4>3, <4>4
             DEF Facts, Downloading, Changing, Untouched, Content, Size
      <3>3. QED
        BY <3>1, <3>2
    <2>6. QED
      BY <2>4, <2>5 DEF SerialInv
  <1>5. CASE Crash
    <2>1. /\ \A d \in Calls : ~Busy(d)' /\ (Busy(d) => hurt'[op[d].name] # {})
          /\ \A d \in Calls : (pc[d] \in {"idle", "end"} => pc'[d] = pc[d])
          /\ \A m \in Names : hurt[m] \subseteq hurt'[m]
          /\ UNCHANGED <<op, answer, fd, written, meta, got, rows, path, data, latest, expected>>
      <3>1. \A d \in Calls : Busy(d) => ~Quiet(op[d].name)
        BY DEF Busy, Quiet, Active
      <3>2. \A d \in Calls : op[d].name \in Names
        BY DEF SInv, Types, Op
      <3>3. \A m \in Names : hurt[m] \subseteq hurt'[m] /\ (~Quiet(m) => "crash" \in hurt'[m])
        BY <1>5 DEF Crash, SInv, Types
      <3>4. QED
        BY <1>5, <3>1, <3>2, <3>3 DEF Crash, Busy, disk
    <2>2. \A m \in Names : Agree(m) => Agree(m)'
      BY <2>1, AgreeStays
    <2>3. OneAtATime'
      BY <2>1 DEF OneAtATime
    <2>4. ASSUME NEW m \in Names PROVE Settled(m)'
      <3> SUFFICES ASSUME hurt'[m] = {} PROVE Agree(m)'
        BY DEF Settled
      <3>1. Quiet(m) /\ hurt[m] = {}
        BY <2>1 DEF Quiet, Active, Busy
      <3>2. QED
        BY <1>1, <2>2, <3>1 DEF Settled
    <2>5. ASSUME NEW d \in Calls PROVE Facts(d)'
      <3>1. Downloading(d)
        BY <1>1 DEF Facts
      <3>2. ~Busy(d)' /\ \A u : Content(u)' = Content(u)
        BY <2>1 DEF Content, Size
      <3>3. QED
        BY <2>1, <3>1, <3>2 DEF Facts, Busy, Downloading, Changing, Untouched, Content, Size
    <2>6. QED
      BY <2>3, <2>4, <2>5 DEF SerialInv
  <1>6. CASE UNCHANGED vars
    <2>1. \A u : Size(u)' = Size(u) /\ Content(u)' = Content(u)
      BY <1>6 DEF vars, callVars, Content, Size
    <2>2. OneAtATime' /\ \A m \in Names : Settled(m)'
      BY <1>1, <1>6, <2>1 DEF vars, callVars, disk, history, OneAtATime, Busy, Settled, Quiet,
         Active, Agree
    <2>3. ASSUME NEW d \in Calls PROVE Facts(d)'
      <3>1. /\ pc' = pc /\ op' = op /\ answer' = answer /\ fd' = fd /\ written' = written
            /\ meta' = meta /\ got' = got /\ expected' = expected /\ hurt' = hurt
            /\ rows' = rows /\ path' = path /\ data' = data /\ latest' = latest
        BY <1>6 DEF vars, callVars, disk, history
      <3>2. Agree(op[d].name) => Agree(op[d].name)'
        BY <2>1, <3>1 DEF Agree
      <3>3. Downloading(d)'
        BY <1>1, <2>1, <3>1, <3>2 DEF Facts, Downloading
      <3>4. QED
        BY <1>1, <2>1, <3>1, <3>2, <3>3 DEF Facts, Changing, Untouched
    <2>4. QED
      BY <2>2, <2>3 DEF SerialInv
  <1>7. QED
    BY <1>2, <1>3, <1>4, <1>5, <1>6 DEF Next

THEOREM SerialInvariant == Spec => []SInv
  <1>1. SInv /\ [Next]_vars => SInv'
    BY TypesNext, MoreTypesNext, PhasesNext, FilesApartNext, NamedNext, SerialNext DEF SInv
  <1>2. QED
    BY SerialInit, <1>1, PTL DEF Spec

\* Clients that wait for each other, and whom no fault befell, find row and file
\* in agreement with the last change (Upload, DeleteObject).
THEOREM SerialCallsAgree == Spec => []SerialAgree
  <1>1. SInv => SerialAgree
    BY DEF SInv, SerialInv, SerialAgree, Settled, Agree
  <1>2. QED
    BY SerialInvariant, <1>1, PTL

\* ... and their downloads return it, whole (Download, serveFile).
THEOREM SerialDownloads == Spec => []ReadYourWrites
  <1>1. SInv => ReadYourWrites
    BY DEF SInv, SerialInv, ReadYourWrites, Facts, Downloading
  <1>2. QED
    BY SerialInvariant, <1>1, PTL

-----------------------------------------------------------------------------
(***************************************************************************)
(* How a row can lose its file (RowsHaveFiles, which the run               *)
(* storage_overwrite refutes), if calls do not overlap.                    *)
(***************************************************************************)
Excused(n) ==
  hurt[n] \cap {"statement", "recorded"} # {} \/ ("put" \in hurt[n] /\ backend = "local")
RowKept(n) == rows[n] # None /\ path[n] = None => Excused(n)

\* Who is about to remove a file under a row was told why.
Told(c) ==
  /\ pc[c] = "cleanup" => hurt[op[c].name] \cap {"statement", "recorded"} # {}
  /\ pc[c] = "discard" => "put" \in hurt[op[c].name] /\ backend = "local"
  /\ pc[c] = "copy" => backend = "local"

OnlyCleanupsLoseFiles == serial => \A n \in Names : RowKept(n)
ToldWhy == serial => \A c \in Calls : Told(c)

LEMMA LossStep ==
  ASSUME SInv, [Next]_vars, serial, NEW c \in Calls, Handle(c), NEW n \in Names, n = op[c].name,
         RowKept(n), Told(c)
  PROVE  RowKept(n)' /\ Told(c)'
  <1>0. Types' /\ op' = op /\ backend' = backend
    BY HandleIsLocal, TypesNext DEF SInv
  <1> USE DEF SInv, Types, Goto, Return, disk, history
  <1>1. CASE Create(c)
    <2> DEFINE file == IF path[n] = None THEN c ELSE path[n]
    <2>1. path' = [path EXCEPT ![n] = file] /\ pc'[c] = "copy" /\ backend = "local"
      BY <1>1 DEF Create
    <2>2. path'[n] # None
      BY <2>1, NoneIsNoUpload DEF Uploads
    <2>3. QED
      BY <1>0, <2>1, <2>2 DEF RowKept, Told
  <1>2. CASE PutObject(c) \/ PutUnheard(c)
    <2>1. path'[n] = c /\ pc'[c] \in {"record", "end"}
      BY <1>2 DEF PutObject, PutUnheard
    <2>2. QED
      BY <2>1, NoneIsNoUpload DEF RowKept, Told, Uploads
  <1>3. CASE Copy(c) \/ CopyDone(c) \/ Lookup(c) \/ Open(c) \/ Read(c) \/ Fail(c)
    <2>1. /\ pc'[c] \notin {"cleanup", "discard"} /\ (pc'[c] = "copy" => pc[c] = "copy")
          /\ UNCHANGED <<rows, path, hurt>>
      BY <1>3 DEF Copy, CopyDone, Lookup, Open, Read, Fail
    <2>2. QED
      BY <1>0, <2>1 DEF RowKept, Excused, Told
  <1>4. CASE PutFails(c) \/ RecordFails(c)
    <2>1. hurt[n] \subseteq hurt'[n] /\ UNCHANGED <<rows, path>>
      BY <1>4 DEF PutFails, RecordFails, Hurt
    <2>2. /\ pc'[c] = "cleanup" => "statement" \in hurt'[n]
          /\ pc'[c] = "discard" => "put" \in hurt'[n] /\ pc[c] = "copy"
          /\ pc'[c] # "copy"
      BY <1>4 DEF PutFails, RecordFails, Hurt
    <2>3. QED
      BY <1>0, <2>1, <2>2 DEF RowKept, Excused, Told
  <1>9. CASE RecordUnheard(c)
    <2>1. "recorded" \in hurt'[n] /\ pc'[c] = "cleanup"
      BY <1>9 DEF RecordUnheard, Hurt
    <2>2. QED
      BY <1>0, <2>1 DEF RowKept, Excused, Told
  <1>10. CASE DeleteUnheard(c)
    <2>1. rows'[n] = None /\ pc'[c] = "end"
      BY <1>10 DEF DeleteUnheard
    <2>2. QED
      BY <2>1 DEF RowKept, Told
  <1>5. CASE Record(c)
    \* What the row is about is there.
    <2>1. path[n] # None
      BY <1>5 DEF Record, SerialInv, Facts, Changing
    <2>2. UNCHANGED path /\ pc'[c] = "end"
      BY <1>5 DEF Record
    <2>3. QED
      BY <2>1, <2>2 DEF RowKept, Told
  <1>6. CASE DeleteRow(c)
    <2>1. rows'[n] = None /\ pc'[c] \in {"end", "remove"}
      BY <1>6 DEF DeleteRow
    <2>2. QED
      BY <2>1 DEF RowKept, Told
  <1>7. CASE RemoveFile(c)
    <2>1. pc[c] \in {"remove", "cleanup", "discard"} /\ pc'[c] = "end" /\ UNCHANGED rows
      BY <1>7 DEF RemoveFile
    <2>2. pc[c] = "remove" => rows[n] = None
      BY DEF SerialInv, Facts, Changing
    <2>3. pc[c] # "remove" => Excused(n) /\ hurt[n] \subseteq hurt'[n]
      BY <1>7, <2>1 DEF Told, Excused, RemoveFile, Hurt
    <2>4. QED
      BY <1>0, <2>1, <2>2, <2>3 DEF RowKept, Excused, Told
  <1>8. QED
    BY <1>1, <1>2, <1>3, <1>4, <1>5, <1>6, <1>7, <1>9, <1>10 DEF Handle, Upload

LEMMA LossNext ==
  ASSUME SInv, OnlyCleanupsLoseFiles, ToldWhy, [Next]_vars
  PROVE  (OnlyCleanupsLoseFiles /\ ToldWhy)'
  <1> SUFFICES ASSUME serial'
               PROVE  (\A n \in Names : RowKept(n)') /\ (\A c \in Calls : Told(c)')
    BY DEF OnlyCleanupsLoseFiles, ToldWhy
  <1>0. serial
    BY DEF Next, Arrive, TurnAway, Handle, Upload, Create, Copy, CopyDone, PutObject, PutFails,
       PutUnheard, Record, RecordFails, RecordUnheard, DeleteRow, DeleteUnheard, RemoveFile,
       Lookup, Open, Read, Fail, Crash, vars
  <1>1. OneAtATime /\ (\A n \in Names : RowKept(n)) /\ (\A c \in Calls : Told(c))
    BY <1>0 DEF SInv, SerialInv, OnlyCleanupsLoseFiles, ToldWhy
  <1>2. ASSUME NEW c \in Calls, Handle(c)
        PROVE  (\A n \in Names : RowKept(n)') /\ (\A d \in Calls : Told(d)')
    <2>1. PICK n \in Names : n = op[c].name
      BY DEF SInv, Types, Op
    <2>2. RowKept(n)' /\ Told(c)'
      BY <1>0, <1>1, <1>2, <2>1, LossStep
    <2>3. Local(c, n) /\ Busy(c) /\ UNCHANGED <<op, backend>>
      BY <1>2, <2>1, HandleIsLocal
    <2>4. ASSUME NEW m \in Names \ {n} PROVE RowKept(m)'
      BY <1>1, <2>3 DEF Local, RowKept, Excused
    <2>5. ASSUME NEW d \in Calls \ {c} PROVE Told(d)'
      <3>1. op[d].name \in Names /\ (Busy(d) => op[d].name # n)
        BY <1>1, <2>1, <2>3 DEF OneAtATime, SInv, Types, Op
      <3>2. pc'[d] = pc[d] /\ (Busy(d) => hurt'[op[d].name] = hurt[op[d].name])
        BY <2>3, <3>1 DEF Local
      <3>3. QED
        BY <1>1, <2>3, <3>2 DEF Told, Busy
    <2>6. QED
      BY <2>2, <2>4, <2>5
  <1>3. ASSUME NEW c \in Calls, Arrive(c) \/ TurnAway(c)
        PROVE  (\A n \in Names : RowKept(n)') /\ (\A d \in Calls : Told(d)')
    <2>1. UNCHANGED <<rows, path, hurt, backend>>
      BY <1>3 DEF Arrive, TurnAway, disk, history
    <2>2. ASSUME NEW d \in Calls
          PROVE  \/ pc'[d] \notin {"cleanup", "discard", "copy"}
                 \/ pc'[d] = pc[d] /\ op'[d] = op[d]
      <3>1. CASE Arrive(c)
        <4>1. PICK o \in Op : op' = [op EXCEPT ![c] = o] /\ Goto(c, First[o.kind])
          BY <3>1 DEF Arrive
        <4>2. First[o.kind] \in {"create", "lookup", "deleteRow"}
          BY DEF Op, AllKinds, First
        <4>3. QED
          BY <4>1, <4>2 DEF Goto, SInv, Types
      <3>2. CASE TurnAway(c)
        BY <3>2 DEF TurnAway, Return, SInv, Types
      <3>3. QED
        BY <1>3, <3>1, <3>2
    <2>3. QED
      BY <1>1, <2>1, <2>2 DEF RowKept, Excused, Told
  <1>4. CASE Crash
    <2>1. /\ UNCHANGED <<rows, path, backend>> /\ \A n \in Names : hurt[n] \subseteq hurt'[n]
          /\ \A d \in Calls : pc'[d] \in {"idle", "end"}
      BY <1>4 DEF Crash, disk, SInv, Types
    <2>2. QED
      BY <1>1, <2>1 DEF RowKept, Excused, Told
  <1>5. CASE UNCHANGED vars
    BY <1>1, <1>5 DEF vars, callVars, disk, history, RowKept, Excused, Told
  <1>6. QED
    BY <1>2, <1>3, <1>4, <1>5 DEF Next

\* The exact extent of the finding: between calls that do not overlap, a row
\* loses its file only to the clean-up of an upload over it that reported an
\* error, in its INSERT, which may have written that row, or, on the local disk,
\* in its Put; and the next upload or delete that succeeds mends the name
\* (Upload's os.Remove and backend.Delete).
THEOREM OnlyFailedUploadsLoseFiles == Spec => []OnlyCleanupsLoseFiles
  <1>1. Init => OnlyCleanupsLoseFiles /\ ToldWhy
    BY DEF Init, OnlyCleanupsLoseFiles, RowKept, ToldWhy, Told
  <1>2. SInv /\ OnlyCleanupsLoseFiles /\ ToldWhy /\ [Next]_vars
          => (OnlyCleanupsLoseFiles /\ ToldWhy)'
    BY LossNext
  <1>3. QED
    BY <1>1, <1>2, SerialInvariant, PTL DEF Spec

-----------------------------------------------------------------------------
\* What is left of the types.
Settings ==
  /\ backend \in Backends /\ serial \in Disciplines
  /\ crashes \in 0..MaxCrashes

LEMMA SettingsNext == Settings /\ [Next]_vars => Settings'
  <1> SUFFICES ASSUME Settings, [Next]_vars PROVE Settings'
    OBVIOUS
  <1> USE StoreAssumption DEF Settings
  <1>1. ASSUME NEW c \in Calls, Arrive(c) \/ TurnAway(c) \/ Handle(c) PROVE Settings'
    BY <1>1 DEF Arrive, TurnAway, Handle, Upload, Create, Copy, CopyDone, PutObject, PutFails,
       PutUnheard, Record, RecordFails, RecordUnheard, DeleteRow, DeleteUnheard, RemoveFile,
       Lookup, Open, Read, Fail
  <1>2. CASE Crash
    BY <1>2 DEF Crash
  <1>3. CASE UNCHANGED vars
    BY <1>3 DEF vars
  <1>4. QED
    BY <1>1, <1>2, <1>3 DEF Next

\* Type correctness of the store.
THEOREM StoreTypes == Spec => []TypeOK
  <1>1. Init => Settings
    BY StoreAssumption DEF Init, Settings
  <1>2. SInv /\ Settings => TypeOK
    <2> SUFFICES ASSUME SInv, Settings PROVE TypeOK
      OBVIOUS
    <2>1. written \in [Calls -> 0..MaxChunks]
      BY StoreAssumption DEF SInv, Types, MoreTypes, Phases, Op
    <2>2. \A c \in Calls : pc[c] \in {"copy", "read"} => fd[c] # None
      BY NoneIsNoUpload DEF SInv, MoreTypes, FilesApart
    <2>3. QED
      BY <2>1, <2>2 DEF SInv, Types, MoreTypes, Settings, TypeOK
  <1>3. QED
    BY <1>1, <1>2, SerialInvariant, SettingsNext, PTL DEF Spec

-----------------------------------------------------------------------------
(***************************************************************************)
(* Signed URLs.                                                            *)
(***************************************************************************)
LEMMA WrapRange ==
  ASSUME NEW n \in Int
  PROVE  Wrap(n) \in (-MaxInt - 1)..MaxInt
  BY MaxIntAssumption DEF Wrap


LEMMA Durations ==
  ASSUME NEW a \in Int, NEW b \in Int
  PROVE  /\ a * Second \in Int /\ (a + 1) * Second = a * Second + Second
         /\ a * Second <= b * Second <=> a <= b
<1>1. Second \in Nat \ {0}
  BY DurationsAssumption
<1> QED
  BY <1>1, SMT

\* The second an instant falls in.
LEMMA Ticks ==
  ASSUME NEW a \in Int, NEW b \in Int, a <= b
  PROVE  /\ a \div Second \in Int /\ a \div Second <= b \div Second
         /\ (a + Second) \div Second = a \div Second + 1
<1>1. Second \in Nat \ {0}
  BY DurationsAssumption
<1> QED
  BY <1>1, SMT

(***************************************************************************)
(* What a request is granted: the hour, what was asked for, a refusal, or  *)
(* after a wrap at most the longest (handleSign).                          *)
(***************************************************************************)
LEMMA Lifetimes ==
  ASSUME NEW e \in Int
  PROVE  /\ Lifetime(e) \in -1..(Week * Second)
         /\ e * Second \in Int /\ Hour * Second \in Nat \ {0} /\ Week * Second \in Nat \ {0}
         /\ Wrap(e * Second) = e * Second =>
              Lifetime(e) = IF e <= 0 THEN Hour * Second
                            ELSE IF e <= Week THEN e * Second ELSE -1
<1>0. /\ Second \in Nat \ {0} /\ Hour \in Nat \ {0} /\ Week \in Nat \ {0}
      /\ Hour <= Week
  BY DurationsAssumption
<1>a. e * Second \in Int /\ Hour * Second \in Int /\ Week * Second \in Int
  BY <1>0
<1>b. Hour * Second <= Week * Second
  BY <1>0, Durations
<1>c. 0 < Hour * Second
  <2>1. Hour * Second <= 0 * Second <=> Hour <= 0
    BY <1>0, Durations
  <2> QED
    BY <1>0, <1>a, <2>1
<1>1. e * Second \in Int /\ Hour * Second \in Nat \ {0} /\ Week * Second \in Nat \ {0}
      /\ Hour * Second <= Week * Second
  BY <1>a, <1>b, <1>c
<1>2. Wrap(e * Second) \in Int
  BY <1>1, WrapRange, MaxIntAssumption
<1>3. Lifetime(e) \in -1..(Week * Second)
  BY <1>1, <1>2 DEF Lifetime
<1>4. e * Second <= 0 <=> e <= 0
  <2>1. e * Second <= 0 * Second <=> e <= 0
    BY <1>0, Durations
  <2> QED
    BY <1>0, <2>1
<1>5. e * Second <= Week * Second <=> e <= Week
  BY <1>0, Durations
<1> QED
  BY <1>1, <1>3, <1>4, <1>5 DEF Lifetime

(***************************************************************************)
(* Whenever a URL is signed and whatever lifetime is asked for, it is      *)
(* honoured for that long and at most one second longer; a URL whose       *)
(* lifetime wrapped ends with the longest at the latest.                   *)
(***************************************************************************)
THEOREM URLsLiveAsAsked ==
  signing \in Signings => URLLivesAsAsked
<1> SUFFICES ASSUME signing \in Signings PROVE URLLivesAsAsked
  OBVIOUS
<1> DEFINE e == signing.expiresIn
           at == signing.signed
           asked == IF e <= 0 THEN Hour ELSE e
           life == Lifetime(e)
<1>0. /\ Second \in Nat \ {0} /\ Hour \in Nat \ {0} /\ Week \in Nat \ {0}
      /\ Hour <= Week
  BY DurationsAssumption
<1>1. /\ e \in Int /\ at \in Nat /\ asked \in Int /\ asked > 0
      /\ Second \in Nat \ {0} /\ Week \in Int /\ Hour \in Int /\ Hour <= Week
  BY <1>0 DEF Signings
<1>2. /\ life \in -1..(Week * Second)
      /\ e * Second \in Int /\ Hour * Second \in Nat \ {0} /\ Week * Second \in Nat \ {0}
      /\ Wrap(e * Second) = e * Second =>
           life = IF e <= 0 THEN Hour * Second
                  ELSE IF e <= Week THEN e * Second ELSE -1
  BY <1>1, Lifetimes
<1>3. ASSUME Wrap(e * Second) = e * Second
      PROVE  /\ life >= 0 <=> asked <= Week
             /\ life >= 0 => life = asked * Second
  <2>1. e * Second <= 0 * Second <=> e <= 0
    BY <1>1, Durations
  <2>2. e > 0 => e * Second > 0
    BY <1>1, <1>2, <2>1
  <2> QED
    BY <1>1, <1>2, <1>3, <2>2
<1>4. ASSUME NEW s \in Int, life >= 0, life <= s * Second
      PROVE  ~Honoured(at + (s + 1) * Second, Expiration(at, e))
  <2> DEFINE from == at + s * Second
  <2>1. s * Second \in Int /\ from \in Int /\ (s + 1) * Second = s * Second + Second
    BY <1>1, Durations
  <2>2. at + life \in Int /\ at + life <= from
    BY <1>1, <1>2, <1>4, <2>1
  <2>3. (at + life) \div Second \in Int /\ (at + life) \div Second <= from \div Second
    BY <1>1, <2>1, <2>2, Ticks
  <2>4. from \div Second \in Int /\ (from + Second) \div Second = from \div Second + 1
    <3>1. from <= from
      BY <2>1
    <3> QED
      BY <1>1, <2>1, <3>1, Ticks
  <2>5. at + (s + 1) * Second = from + Second
    BY <1>1, <2>1
  <2> HIDE DEF from
  <2> QED
    BY <2>3, <2>4, <2>5 DEF Honoured, Expiration
<1>5. ASSUME life >= 0, life = asked * Second
      PROVE  Honoured(at + asked * Second, Expiration(at, e))
  <2>1. at + life \in Int
    BY <1>1, <1>2, <1>5
  <2>2. (at + life) \div Second \in Int
    BY <1>1, <2>1, Ticks
  <2> QED
    BY <1>5, <2>2 DEF Honoured, Expiration
<1>6. ASSUME life >= 0 PROVE ~Honoured(at + (Week + 1) * Second, Expiration(at, e))
  BY <1>1, <1>2, <1>4, <1>6
<1>7. ASSUME life >= 0, life = asked * Second
      PROVE  ~Honoured(at + (asked + 1) * Second, Expiration(at, e))
  <2>1. life <= asked * Second
    BY <1>2, <1>7
  <2> QED
    BY <1>1, <1>4, <1>7, <2>1
<1> HIDE DEF asked, life
<1> QED
  BY <1>3, <1>5, <1>6, <1>7 DEF URLLivesAsAsked, asked, life
=============================================================================
