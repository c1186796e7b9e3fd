----------------------------- MODULE Expansion -----------------------------
(***************************************************************************)
(* The expand parameter (internal/api/expand.go): along each of its paths, *)
(* relationship after relationship (ForeignKeys), and one step of Joins    *)
(* for each.                                                               *)
(***************************************************************************)
EXTENDS Joins, ForeignKeys, FiniteSets

\* A request: the tables, their rows, the table it reads, the columns of it asked for,
\* whether it reads one record with claims, the paths to expand.
VARIABLE expansion

\* expandRelation for the first name of a path: the rows it leads to are fetched, given
\* to Deeper for the rest of the path, and attached.
Follow(schema, rows, name, records, word, Deeper(_, _)) ==
  LET rels == Relationships(schema, name)
      k == FirstNamed(rels, word)
  IN IF k = 0 \/ rels[k].table \notin Cached(schema) THEN records
     ELSE LET related == Deeper(rels[k].table, Fetch(rels[k], rows, records))
          IN {Attach(rels[k], related, rec) : rec \in records}

\* Mutated ExpandRelation: a path is followed to its first name only.
ExpandShallow(schema, rows, name, records, path) ==
  Follow(schema, rows, name, records, path[1], LAMBDA table, fetched : fetched)

\* expandRelation and its call of itself: names beyond maxExpandDepth, the second, are
\* ignored.
FollowLast(schema, rows, name, records, word) ==
  Follow(schema, rows, name, records, word, LAMBDA table, fetched : fetched)
ExpandRelation(schema, rows, name, records, path) ==
  Follow(schema, rows, name, records, path[1],
         LAMBDA table, fetched :
           IF Len(path) = 1 THEN fetched ELSE FollowLast(schema, rows, table, fetched, path[2]))

\* expandRecords: one path after the other.
Expand(schema, rows, name, records, paths) ==
  LET after[n \in 0..Len(paths)] ==
        IF n = 0 THEN records
        ELSE ExpandRelation(schema, rows, name, after[n - 1], paths[n])
  IN after[Len(paths)]

\* The records an answer starts with: the rows of the table, in the columns asked for.
Part(row, fields) == [col \in fields \cap DOMAIN row |-> row[col]]
Answered(e) == {Part(row, e.fields) : row \in e.rows[e.name]}

\* What the queries of fetchRelated find: nothing when scanRow has left the transaction's
\* connection busy.
Findable(e) == IF e.alone THEN [table \in DOMAIN e.rows |-> {}] ELSE e.rows

-----------------------------------------------------------------------------
(***************************************************************************)
(* What expand means, row by row and from the foreign keys: no order of    *)
(* tables, no batch, no index.                                             *)
(***************************************************************************)
\* The field, table and rows a name stands for at a row, if there are any.
Partners(tables, rows, name, row, word) ==
  LET By(rel) == [field |-> rel.field, table |-> rel.table, rows |-> Mates(rel, rows, row)]
  IN {p \in {By(Forward(key.fk)) : key \in {k \in Away(tables, name, word) : k.fk.ref \in Names(tables)}}
            \cup {By(Backward(key.table, key.fk)) : key \in Towards(tables, name, word)} :
        p.rows # {}}

\* A row with these partners, each under its field.
WithPartners(row, found) ==
  [row |-> row,
   expand |-> [field \in {p.field : p \in found} |->
                UNION {{Record(r) : r \in p.rows} : p \in {q \in found : q.field = field}}]]

\* A row with its partners, for every field the one the last path naming it leads to.
Meaning(tables, rows, name, row, paths) ==
  LET First(n) == Partners(tables, rows, name, row, paths[n][1])
      Naming(field) == {n \in DOMAIN paths : \E p \in First(n) : p.field = field}
      LastOf(field) == CHOOSE n \in Naming(field) : \A m \in Naming(field) : m <= n
      For(field) == {p \in First(LastOf(field)) : p.field = field}
      Along(path, table, r) == IF Len(path) = 1 THEN Record(r)
                               ELSE WithPartners(r, Partners(tables, rows, table, r, path[2]))
  IN [row |-> row,
      expand |-> [field \in {p.field : p \in UNION {First(n) : n \in DOMAIN paths}} |->
                   UNION {{Along(paths[LastOf(field)], p.table, r) : r \in p.rows} :
                            p \in For(field)}]]

\* The orders in which Go can range over a map of tables.
Orders(tables) ==
  {order \in [1..Cardinality(tables) -> tables] : Tables(order) = tables}

\* All names stand for one key at most: which of several is taken is left to Go's maps.
Clear(tables, paths) ==
  \A n \in DOMAIN paths : \A k \in DOMAIN paths[n] : ~Ambiguous(tables, paths[n][k])

\* Every key has one column, and values that Go and the database compare alike.
SimpleKeys(tables, rows) ==
  \A key \in Keys(tables) : key.fk.ref \in Names(tables) =>
    /\ Joinable(Forward(key.fk), rows, rows[key.table])
    /\ Joinable(Backward(key.table, key.fk), rows, rows[key.fk.ref])

(***************************************************************************)
(* expand attaches the join: under every field a path names, exactly the   *)
(* rows the foreign key relates, to any depth up to two, and whatever the  *)
(* order of the tables; a later path through the same field replaces what  *)
(* an earlier one attached.  A column that fields= leaves out relates      *)
(* nothing.  One record read with claims gets nothing attached at all: its *)
(* connection is busy.  It holds of names that stand for one key, and of   *)
(* keys of one column (expand.go looks at the first), whose values Go's    *)
(* maps find as the database does.                                         *)
(***************************************************************************)
ExpandIsJoin ==
  LET e == expansion
      own == Answered(e)
  IN Clear(e.tables, e.paths) /\ SimpleKeys(e.tables, e.rows) =>
       \A schema \in Orders(e.tables) :
         Expand(schema, Findable(e), e.name, {Record(row) : row \in own}, e.paths)
           = IF e.alone THEN {Record(row) : row \in own}
             ELSE {Meaning(e.tables, e.rows, e.name, row, e.paths) : row \in own}
=============================================================================
