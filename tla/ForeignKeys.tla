---------------------------- MODULE ForeignKeys ----------------------------
(***************************************************************************)
(* The relationships of a table, derived from foreign keys                 *)
(* (buildRelationships in internal/schema/introspect.go), and which of     *)
(* them a name stands for (expandRelation in internal/api/expand.go).      *)
(*                                                                         *)
(* The tables of the schema cache come in an order that Go's map iteration *)
(* picks anew at every reload: a schema is a sequence of records, all of   *)
(* one PostgreSQL schema, whose name is left out of theirs:                *)
(* [name, fks], each foreign key [name, cols, ref, refCols].               *)
(***************************************************************************)
EXTENDS Integers, Sequences, SequencesExt

CONSTANT Stem  \* the columns that end in _id, and what is left without it

FieldName(cols, ref) ==
  IF Len(cols) = 1 /\ cols[1] \in DOMAIN Stem THEN Stem[cols[1]] ELSE ref

Forward(fk) ==
  [many |-> FALSE, cols |-> fk.cols, table |-> fk.ref, theirs |-> fk.refCols,
   field |-> FieldName(fk.cols, fk.ref)]
Backward(table, fk) ==
  [many |-> TRUE, cols |-> fk.refCols, table |-> table, theirs |-> fk.cols, field |-> table]

\* The relationships of a table, in the order in which they are appended.
Relationships(schema, name) ==
  LET Of(table, fk) == (IF table = name THEN <<Forward(fk)>> ELSE <<>>)
                       \o (IF fk.ref = name THEN <<Backward(table, fk)>> ELSE <<>>)
      From(table) == FlattenSeq([k \in DOMAIN table.fks |-> Of(table.name, table.fks[k])])
  IN FlattenSeq([n \in DOMAIN schema |-> From(schema[n])])

Cached(schema) == {schema[n].name : n \in DOMAIN schema}

Answers(rel, name) ==
  \/ rel.field = name
  \/ ~rel.many /\ rel.cols = <<name>>

\* The relationship a name is taken for: the first that answers to it, 0 if none does.
FirstNamed(rels, word) == SelectInSeq(rels, LAMBDA rel : Answers(rel, word))

-----------------------------------------------------------------------------
(***************************************************************************)
(* The same from the foreign keys: a set of tables, no first.              *)
(***************************************************************************)
Tables(schema) == {schema[n] : n \in DOMAIN schema}
Names(tables)  == {t.name : t \in tables}
Keys(tables) ==
  UNION {{[table |-> t.name, fk |-> t.fks[k]] : k \in DOMAIN t.fks} : t \in tables}

\* The keys a name can stand for, seen from a table: away from it and towards it.
Away(tables, name, word) ==
  {key \in Keys(tables) :
     key.table = name /\ word \in {FieldName(key.fk.cols, key.fk.ref)} \cup
                                  (IF Len(key.fk.cols) = 1 THEN {key.fk.cols[1]} ELSE {})}
Towards(tables, name, word) == {key \in Keys(tables) : key.fk.ref = name /\ key.table = word}

\* A name that stands for more than one key: which one it is, is left to the
\* order of the tables.
Ambiguous(tables, word) ==
  \E t \in tables :
    \/ \E key1, key2 \in Away(tables, t.name, word) \cup Towards(tables, t.name, word) : key1 # key2
    \/ Away(tables, t.name, word) \cap Towards(tables, t.name, word) # {}
=============================================================================
