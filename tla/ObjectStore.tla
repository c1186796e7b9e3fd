------------------------------ MODULE ObjectStore ------------------------------
(***************************************************************************)
(* File storage (internal/storage): a file kept by a backend, on the local *)
(* disk or in S3, and its row in _ayb_storage_objects.  Upload stores the  *)
(* file and then records the row; DeleteObject deletes the row and then    *)
(* the file; Download reads the row and then the file.  Nothing ties the   *)
(* two steps of a call together, or one call to another.                   *)
(*                                                                         *)
(* The disk is modelled as far as os.Create, os.Open and os.Remove tell:   *)
(* a name leads to a file; Create empties the file a name leads to;        *)
(* whoever has a file open keeps it when its name is removed.  A file is   *)
(* named by the upload that made it, and consists of as many chunks as     *)
(* io.Copy writes, each marked with its writer.  In S3 a PUT replaces the  *)
(* object as a whole, and a reader keeps the version it opened.            *)
(*                                                                         *)
(* An error says nothing of the effect: the answer to a statement or to a  *)
(* PUT is lost with its connection, and a client that leaves cancels what  *)
(* may already be done.  Whatever reports an error here may have had all   *)
(* of its effect, or none.                                                 *)
(*                                                                         *)
(* ListObjects, and the signing and validation of URLs, change nothing and *)
(* are not modelled; serving a signed URL is a download.                   *)
(***************************************************************************)
EXTENDS Naturals, Sequences, FiniteSets

CONSTANTS Calls,       \* the requests served
          Names,       \* bucket and name of the objects
          Backends,    \* the backends of this instance, of "local" and "s3"
          Disciplines, \* TRUE: clients wait for each other's calls on a name
          Faults,      \* what may fail: "put", a file; "statement"; "remove", a file
          MaxChunks,   \* bound: the size of an upload
          MaxCrashes,  \* bound: how often the server dies
          Old,         \* the upload of an object there is at the beginning
          None

AllKinds == {"upload", "download", "delete"}

ASSUME StoreAssumption ==
  /\ Backends \subseteq {"local", "s3"} /\ Disciplines \subseteq BOOLEAN
  /\ Faults \subseteq {"put", "statement", "remove"}
  /\ MaxChunks \in Nat \ {0} /\ MaxCrashes \in Nat
  /\ Old \notin Calls /\ None \notin Calls \cup {Old}
  /\ Names # {}

Uploads == Calls \cup {Old}
Op == [kind : AllKinds, name : Names, size : 1..MaxChunks]

VARIABLES
  pc,       \* where each call is
  op,       \* what each call asks for (arbitrary before it arrives)
  answer,   \* "none" yet, "ok", "notfound" or "error"
  backend,  \* the backend the server was configured with
  serial,   \* whether clients wait for each other
  rows,     \* _ayb_storage_objects: the upload whose size and type a row records
  path,     \* the file a name leads to
  data,     \* the chunks of each file
  fd,       \* the file a call has open
  written,  \* how many chunks an upload has written
  meta,     \* the row a download has read
  got,      \* the chunks a download has sent
  crashes,  \* how often the server has died
  hurt,     \* history: the faults that befell calls on a name since its last answered change
  latest,   \* history: the upload a name's last answered change left, None if it is gone
  expected  \* history, if serial: latest of its name when a call arrived, if no fault had befallen it

callVars == <<pc, op, answer, fd, written, meta, got>>
disk     == <<path, data>>
history  == <<hurt, latest, expected>>
vars     == <<callVars, backend, serial, rows, disk, crashes, history>>

PCs == {"idle", "create", "copy", "discard", "record", "cleanup", "lookup", "open",
        "read", "deleteRow", "remove", "end"}

TypeOK ==
  /\ pc \in [Calls -> PCs]
  /\ op \in [Calls -> Op]
  /\ answer \in [Calls -> {"none", "ok", "notfound", "error"}]
  /\ backend \in Backends /\ serial \in Disciplines
  /\ rows \in [Names -> Uploads \cup {None}]
  /\ path \in [Names -> Uploads \cup {None}]
  /\ data \in [Uploads -> Seq(Uploads \cup {None})]
  /\ fd \in [Calls -> Uploads \cup {None}]
  /\ \A c \in Calls : pc[c] \in {"copy", "read"} /\ backend = "local" => fd[c] # None
  /\ written \in [Calls -> 0..MaxChunks]
  /\ meta \in [Calls -> Uploads \cup {None}]
  /\ got \in [Calls -> Seq(Uploads \cup {None})]
  /\ crashes \in 0..MaxCrashes
  /\ hurt \in [Names -> SUBSET {"put", "statement", "remove", "crash", "unheard", "recorded"}]
  /\ latest \in [Names -> Uploads \cup {None}]
  /\ expected \in [Calls -> SUBSET (Uploads \cup {None})]

Size(u) == IF u = Old THEN 1 ELSE op[u].size
Content(u) == [i \in 1..Size(u) |-> u]

\* The store is empty, or holds an object.
Init ==
  /\ pc = [c \in Calls |-> "idle"]
  /\ op = [c \in Calls |-> CHOOSE o \in Op : TRUE]
  /\ answer = [c \in Calls |-> "none"]
  /\ backend \in Backends /\ serial \in Disciplines
  /\ \E holder \in Names \cup {None} :
       rows = [n \in Names |-> IF n = holder THEN Old ELSE None]
  /\ path = rows
  /\ data = [u \in Uploads |-> IF u = Old THEN <<Old>> ELSE <<>>]
  /\ fd = [c \in Calls |-> None]
  /\ written = [c \in Calls |-> 0]
  /\ meta = [c \in Calls |-> None]
  /\ got = [c \in Calls |-> <<>>]
  /\ crashes = 0
  /\ hurt = [n \in Names |-> {}]
  /\ latest = rows
  /\ expected = [c \in Calls |-> {}]

-----------------------------------------------------------------------------
Goto(c, where) == pc' = [pc EXCEPT ![c] = where] /\ UNCHANGED answer
Return(c, a) == pc' = [pc EXCEPT ![c] = "end"] /\ answer' = [answer EXCEPT ![c] = a]
Hurt(c, fault) == hurt' = [hurt EXCEPT ![op[c].name] = @ \cup {fault}]
Heal(c) == hurt' = [hurt EXCEPT ![op[c].name] = {}]

Active(n) == {c \in Calls : op[c].name = n /\ pc[c] \notin {"idle", "end"}}
Quiet(n) == Active(n) = {}

First == [upload |-> "create", download |-> "lookup", delete |-> "deleteRow"]

\* A request arrives.
Arrive(c) ==
  /\ pc[c] = "idle"
  /\ \E o \in Op :
       /\ serial => Quiet(o.name)
       /\ op' = [op EXCEPT ![c] = o]
       /\ expected' = [expected EXCEPT ![c] = IF serial /\ hurt[o.name] = {} THEN {latest[o.name]} ELSE {}]
       /\ Goto(c, First[o.kind])
  /\ UNCHANGED <<fd, written, meta, got, backend, serial, rows, disk, crashes, hurt, latest>>

\* An upload without a file, too large, or under a bad name is turned away
\* before anything is stored (handleUpload, validateBucket, validateName).
TurnAway(c) ==
  /\ pc[c] = "idle"
  /\ Return(c, "error")
  /\ UNCHANGED <<op, fd, written, meta, got, backend, serial, rows, disk, crashes, history>>

-----------------------------------------------------------------------------
(***************************************************************************)
(* Upload: Put of the backend, then the row.                               *)
(***************************************************************************)
\* Mutated Create: os.OpenFile without O_TRUNC.
CreateKeepsOld(c) ==
  /\ pc[c] = "create" /\ backend = "local"
  /\ LET n == op[c].name
         file == IF path[n] = None THEN c ELSE path[n]
     IN /\ path' = [path EXCEPT ![n] = file]
        /\ fd' = [fd EXCEPT ![c] = file]
  /\ Goto(c, "copy")
  /\ UNCHANGED <<op, written, meta, got, backend, serial, rows, data, crashes, history>>

\* os.Create: a new file, or the one there is, emptied.
Create(c) ==
  /\ pc[c] = "create" /\ backend = "local"
  /\ LET n == op[c].name
         file == IF path[n] = None THEN c ELSE path[n]
     IN /\ path' = [path EXCEPT ![n] = file]
        /\ data' = [data EXCEPT ![file] = <<>>]
        /\ fd' = [fd EXCEPT ![c] = file]
  /\ Goto(c, "copy")
  /\ UNCHANGED <<op, written, meta, got, backend, serial, rows, crashes, history>>

\* A chunk written at position i of a file that others may have emptied
\* meanwhile: what was not written before it reads as a hole.
WriteAt(s, i, u) ==
  [j \in 1..(IF i > Len(s) THEN i ELSE Len(s)) |->
     IF j = i THEN u ELSE IF j <= Len(s) THEN s[j] ELSE None]

\* One write of io.Copy, at this upload's own position.
Copy(c) ==
  /\ pc[c] = "copy" /\ written[c] < op[c].size
  /\ data' = [data EXCEPT ![fd[c]] = WriteAt(@, written[c] + 1, c)]
  /\ written' = [written EXCEPT ![c] = @ + 1]
  /\ UNCHANGED <<pc, answer, op, fd, meta, got, backend, serial, rows, path, crashes, history>>

CopyDone(c) ==
  /\ pc[c] = "copy" /\ written[c] = op[c].size
  /\ Goto(c, "record")
  /\ UNCHANGED <<op, fd, written, meta, got, backend, serial, rows, disk, crashes, history>>

\* PutObject: the new version takes the place of the old one.
PutObject(c) ==
  /\ pc[c] = "create" /\ backend = "s3"
  /\ path' = [path EXCEPT ![op[c].name] = c]
  /\ data' = [data EXCEPT ![c] = Content(c)]
  /\ Goto(c, "record")
  /\ UNCHANGED <<op, fd, written, meta, got, backend, serial, rows, crashes, history>>

\* Put fails: with nothing stored, or with a partial file to remove.
PutFails(c) ==
  /\ "put" \in Faults
  /\ \/ pc[c] = "create" /\ Return(c, "error") /\ UNCHANGED hurt
     \/ pc[c] = "copy" /\ Goto(c, "discard") /\ Hurt(c, "put")
  /\ UNCHANGED <<op, fd, written, meta, got, backend, serial, rows, disk, crashes,
                 latest, expected>>

\* Put of S3 reports an error for an object that is stored: Upload returns it
\* and cleans nothing up.
PutUnheard(c) ==
  /\ "put" \in Faults
  /\ pc[c] = "create" /\ backend = "s3"
  /\ path' = [path EXCEPT ![op[c].name] = c]
  /\ data' = [data EXCEPT ![c] = Content(c)]
  /\ Return(c, "error")
  /\ Hurt(c, "unheard")
  /\ UNCHANGED <<op, fd, written, meta, got, backend, serial, rows, crashes, latest, expected>>

\* Mutated Record: ON CONFLICT DO NOTHING.
RecordKeepsOld(c) ==
  /\ pc[c] = "record"
  /\ rows' = [rows EXCEPT ![op[c].name] = IF @ = None THEN c ELSE @]
  /\ latest' = [latest EXCEPT ![op[c].name] = c]
  /\ Heal(c)
  /\ Return(c, "ok")
  /\ UNCHANGED <<op, fd, written, meta, got, backend, serial, disk, crashes, expected>>

\* INSERT ... ON CONFLICT DO UPDATE, and the answer.
Record(c) ==
  /\ pc[c] = "record"
  /\ rows' = [rows EXCEPT ![op[c].name] = c]
  /\ latest' = [latest EXCEPT ![op[c].name] = c]
  /\ Heal(c)
  /\ Return(c, "ok")
  /\ UNCHANGED <<op, fd, written, meta, got, backend, serial, disk, crashes, expected>>

\* Mutated RecordFails: the error is returned without cleaning up.
RecordFailsLeaves(c) ==
  /\ "statement" \in Faults
  /\ pc[c] = "record"
  /\ Return(c, "error")
  /\ Hurt(c, "statement")
  /\ UNCHANGED <<op, fd, written, meta, got, backend, serial, rows, disk, crashes,
                 latest, expected>>

RecordFails(c) ==
  /\ "statement" \in Faults
  /\ pc[c] = "record"
  /\ Goto(c, "cleanup")
  /\ Hurt(c, "statement")
  /\ UNCHANGED <<op, fd, written, meta, got, backend, serial, rows, disk, crashes,
                 latest, expected>>

\* The INSERT reports an error for a row that is written: the clean-up takes
\* the file of that row.
RecordUnheard(c) ==
  /\ "statement" \in Faults
  /\ pc[c] = "record"
  /\ rows' = [rows EXCEPT ![op[c].name] = c]
  /\ Goto(c, "cleanup")
  /\ Hurt(c, "recorded")
  /\ UNCHANGED <<op, fd, written, meta, got, backend, serial, disk, crashes, latest, expected>>

-----------------------------------------------------------------------------
(***************************************************************************)
(* DeleteObject, Download, and the end of a call.                          *)
(***************************************************************************)
\* DELETE of the row, whose absence means not found.
DeleteRow(c) ==
  /\ pc[c] = "deleteRow"
  /\ \/ rows[op[c].name] = None /\ Return(c, "notfound")
     \/ rows[op[c].name] # None /\ Goto(c, "remove")
  /\ rows' = [rows EXCEPT ![op[c].name] = None]
  /\ UNCHANGED <<op, fd, written, meta, got, backend, serial, disk, crashes, history>>

\* Delete of the backend: after the row's DELETE, after an INSERT that failed,
\* or as os.Remove of a partial file.  It takes whatever the name leads to, and
\* its error is logged or dropped.
RemoveFile(c) ==
  /\ pc[c] \in {"remove", "cleanup", "discard"}
  /\ \/ /\ path' = [path EXCEPT ![op[c].name] = None]
        /\ IF pc[c] = "remove" THEN Heal(c) ELSE UNCHANGED hurt
     \/ "remove" \in Faults /\ UNCHANGED path /\ Hurt(c, "remove")
  /\ IF pc[c] = "remove"
     THEN Return(c, "ok") /\ latest' = [latest EXCEPT ![op[c].name] = None]
     ELSE Return(c, "error") /\ UNCHANGED latest
  /\ UNCHANGED <<op, fd, written, meta, got, backend, serial, rows, data, crashes, expected>>

\* GetObject, which a download and the signing of a URL begin with.
Lookup(c) ==
  /\ pc[c] = "lookup"
  /\ meta' = [meta EXCEPT ![c] = rows[op[c].name]]
  /\ IF rows[op[c].name] = None THEN Return(c, "notfound") ELSE Goto(c, "open")
  /\ UNCHANGED <<op, fd, written, got, backend, serial, rows, disk, crashes, history>>

\* Get of the backend.
Open(c) ==
  /\ pc[c] = "open"
  /\ fd' = [fd EXCEPT ![c] = path[op[c].name]]
  /\ IF path[op[c].name] = None THEN Return(c, "notfound") ELSE Goto(c, "read")
  /\ UNCHANGED <<op, written, meta, got, backend, serial, rows, disk, crashes, history>>

\* serveFile's io.Copy: up to the end of the file, and never more than the
\* Content-Length taken from the row.
Read(c) ==
  /\ pc[c] = "read"
  /\ LET next == Len(got[c]) + 1
     IN IF next <= Len(data[fd[c]]) /\ next <= Size(meta[c])
        THEN /\ got' = [got EXCEPT ![c] = Append(@, data[fd[c]][next])]
             /\ UNCHANGED <<pc, answer>>
        ELSE Return(c, "ok") /\ UNCHANGED got
  /\ UNCHANGED <<op, fd, written, meta, backend, serial, rows, disk, crashes, history>>

\* The DELETE reports an error for a row that is gone: DeleteObject returns
\* before it removes the file.
DeleteUnheard(c) ==
  /\ "statement" \in Faults
  /\ pc[c] = "deleteRow" /\ rows[op[c].name] # None
  /\ rows' = [rows EXCEPT ![op[c].name] = None]
  /\ Return(c, "error")
  /\ Hurt(c, "unheard")
  /\ UNCHANGED <<op, fd, written, meta, got, backend, serial, disk, crashes, latest, expected>>

\* A statement fails that had no effect, or the opening of a file.
Fail(c) ==
  /\ "statement" \in Faults
  /\ pc[c] \in {"lookup", "open", "deleteRow"}
  /\ Return(c, "error")
  /\ UNCHANGED <<op, fd, written, meta, got, backend, serial, rows, disk, crashes, history>>

\* The server dies and is started again: its calls are never answered.
Crash ==
  /\ crashes < MaxCrashes
  /\ crashes' = crashes + 1
  /\ pc' = [c \in Calls |-> IF pc[c] = "idle" THEN "idle" ELSE "end"]
  /\ hurt' = [n \in Names |-> IF Quiet(n) THEN hurt[n] ELSE hurt[n] \cup {"crash"}]
  /\ UNCHANGED <<op, answer, fd, written, meta, got, backend, serial, rows, disk,
                 latest, expected>>

-----------------------------------------------------------------------------
Upload(c) ==
  \/ Create(c) \/ Copy(c) \/ CopyDone(c) \/ PutObject(c) \/ PutFails(c) \/ PutUnheard(c)
  \/ Record(c) \/ RecordFails(c) \/ RecordUnheard(c)

Handle(c) ==
  \/ Upload(c)
  \/ DeleteRow(c) \/ DeleteUnheard(c) \/ RemoveFile(c)
  \/ Lookup(c) \/ Open(c) \/ Read(c)
  \/ Fail(c)

Next == (\E c \in Calls : Arrive(c) \/ TurnAway(c) \/ Handle(c)) \/ Crash

Spec == Init /\ [][Next]_vars

-----------------------------------------------------------------------------
(***************************************************************************)
(* Properties.                                                             *)
(***************************************************************************)
\* However calls on a name overlap, and whatever puts and statements fail, no
\* file is left that no row names once they are over, with three exceptions: a
\* file that could not be removed, the file of a call the server died in, and
\* that of a DELETE or of a PUT to S3 that had its effect and reported an error
\* (Upload's clean-up; the order row before file of DeleteObject).
NoOrphanFiles ==
  \A n \in Names :
    Quiet(n) /\ hurt[n] \cap {"remove", "crash", "unheard"} = {} /\ path[n] # None
      => rows[n] # None

\* When clients wait for each other and nothing failed since the last change,
\* row and file agree with it: both gone, or the row of the last upload and a
\* file that holds exactly what it sent, nothing of an earlier and longer one.
\* Whatever had failed before, and wherever the server died, that change mended.
SerialAgree ==
  serial => \A n \in Names :
    Quiet(n) /\ hurt[n] = {} =>
      /\ rows[n] = latest[n]
      /\ latest[n] = None => path[n] = None
      /\ latest[n] # None => path[n] # None /\ data[path[n]] = Content(latest[n])

\* Then, too, a download answers what the last change before it left: all of it,
\* or not found (Download reads row and file in two steps, serveFile cuts the
\* file at the row's size).
ReadYourWrites ==
  serial => \A c \in Calls : \A u \in expected[c] :
    op[c].kind = "download" /\ answer[c] \in {"ok", "notfound"}
      => /\ u = None => answer[c] = "notfound"
         /\ u # None => answer[c] = "ok" /\ got[c] = Content(u)

\* storage.go:36, "Object represents a stored file's metadata": a row that is
\* listed has a file that can be served, once the calls on its name are over and
\* unless the removal of a file failed, the server died, or an INSERT reported
\* an error for the row it wrote.
RowsHaveFiles ==
  \A n \in Names :
    Quiet(n) /\ hurt[n] \cap {"remove", "crash", "recorded"} = {} /\ rows[n] # None
      => path[n] # None

=============================================================================
