--------------------------------- MODULE Joins --------------------------------
(***************************************************************************)
(* One step of the expand parameter (internal/api/expand.go): the related  *)
(* rows of a batch of records come in one query, and an index over them    *)
(* gives each record its own.                                              *)
(*                                                                         *)
(* A record in the answer is its row and what was attached to it: a set of *)
(* records per field, with one member when the relationship is             *)
(* many-to-one.  A value is its Go type and what the database compares.    *)
(* The rows of a table are those that the query for them finds, and are    *)
(* told apart by what they hold.  Values that Go cannot hash end the       *)
(* handler (ExpandPanics of RecordsAPI) and do not come here.              *)
(***************************************************************************)
CONSTANTS Null,
          Pointers  \* the Go types whose values hold a pointer: pgtype.Numeric

Record(row) == [row |-> row, expand |-> <<>>]

\* What a row holds in a column: nil, like NULL, in one that fields= left out.
Cell(row, col) == IF col \in DOMAIN row THEN row[col] ELSE Null

SameInSQL(u, v) == u # Null /\ v # Null /\ u.val = v.val

\* The keys of Go's maps: type and value, and no two with a pointer in them are the same.
SameInGo(u, v) == u = v /\ u.type \notin Pointers

\* What is attached takes the place of what was there under the field.
Put(rec, field, found) ==
  [rec EXCEPT !.expand = [f \in {field} \cup DOMAIN @ |-> IF f = field THEN found ELSE @[f]]]

\* Mutated Attach: the index of expandOneToMany keeps the last row of a group.
AttachKeepsOne(rel, related, rec) ==
  LET own  == Cell(rec.row, rel.cols[1])
      mine == {r \in related : own # Null /\ SameInGo(own, Cell(r.row, rel.theirs[1]))}
  IN IF mine = {} THEN rec ELSE Put(rec, rel.field, {CHOOSE r \in mine : TRUE})

\* The end of expandManyToOne and of expandOneToMany: the index of the related rows, and
\* the row (one of them) or the rows under the record's own key, if there is any.
Attach(rel, related, rec) ==
  LET own  == Cell(rec.row, rel.cols[1])
      mine == {r \in related : own # Null /\ SameInGo(own, Cell(r.row, rel.theirs[1]))}
  IN IF mine = {} THEN rec
     ELSE Put(rec, rel.field, IF rel.many THEN mine ELSE {CHOOSE r \in mine : TRUE})

\* collectUniqueValues and fetchRelated: one query for all records.
Fetch(rel, rows, records) ==
  {Record(row) : row \in {r \in rows[rel.table] :
     \E rec \in records : SameInSQL(Cell(rec.row, rel.cols[1]), Cell(r, rel.theirs[1]))}}

-----------------------------------------------------------------------------
(***************************************************************************)
(* What one step means, row by row: no batch, no index, and all columns of *)
(* the key.                                                                *)
(***************************************************************************)
\* The rows a relationship leads to from a row.
Mates(rel, rows, row) ==
  {r \in rows[rel.table] :
     \A k \in DOMAIN rel.cols : SameInSQL(Cell(row, rel.cols[k]), Cell(r, rel.theirs[k]))}

\* A record under whose field these records are, if there are any.
WithMates(rel, rec, found) ==
  IF found = {} THEN rec ELSE Put(rec, rel.field, found)

\* What the code counts on, from these rows: the key has one column; what the database
\* finds equal, Go does too; and many-to-one leads to a column without duplicates.
Joinable(rel, rows, from) ==
  /\ DOMAIN rel.cols = {1}
  /\ \A row \in from, r \in rows[rel.table] :
       LET u == Cell(row, rel.cols[1])
           v == Cell(r, rel.theirs[1])
       IN SameInSQL(u, v) => SameInGo(u, v)
  /\ ~rel.many => \A r, s \in rows[rel.table] :
                    SameInSQL(Cell(r, rel.theirs[1]), Cell(s, rel.theirs[1])) => r = s
=============================================================================
