------------------------------ MODULE MCQueries ------------------------------
(***************************************************************************)
(* The pure parts of requests over bounded inputs: filters, pages,         *)
(* expansions and signed URLs.  A state is one request; filters grow by    *)
(* pieces, the rows behind an expansion by references.                     *)
(***************************************************************************)
EXTENDS FilterSQL, SignedURL, Expansion

CONSTANTS MaxPieces,  \* the most pieces a filter is made of
          MaxLinks    \* the most references between rows

VARIABLES pieces,  \* how many the filter is made of
          links    \* the references between the rows to expand

-----------------------------------------------------------------------------
Literal(kind) == <<Mark(kind)>>
One == <<Column("a"), Token("op", "="), Token("value", "1")>>
Two == <<Column("b"), Token("op", ">"), Token("value", "2")>>
\* d is no column, nothing is less than null, IS and LIKE are no operators, and 1.2.3 is no
\* number.
Pieces ==
  { One, Two, One \o Literal("and") \o Two, Literal("lparen") \o One \o Literal("or") \o Two \o Literal("rparen"),
    <<Column("c"), Token("op", "!="), Mark("null")>>,
    <<Column("a"), Token("op", "<"), Mark("null")>>,
    <<Column("d"), Token("op", "="), Token("value", "1")>>,
    <<Column("a"), IsWord, Mark("null")>>, <<Column("a"), LikeWord, Token("value", "1")>>,
    <<Column("a"), Token("op", "="), Token("nonnumber", "1.2.3")>>,
    <<Column("b"), Mark("in"), Mark("lparen"), Token("value", "3"), Mark("comma"),
      Mark("null"), Mark("rparen")>> }
  \cup {Literal(kind) : kind \in {"and", "or", "lparen", "rparen", "value", "comma", "in"}}

\* Pages whose offset fits the width, is negative once wrapped, and is small once
\* wrapped; no sort, a sort by a key of every row, and one that ties three rows each.
\* Tied rows change places from page to page.
Ordered(l) ==
  LET Mirror(k) == LET ties == {j \in 1..l.rows : Tied(l, j, k)} IN Min(ties) + Max(ties) - k
  IN l @@ [order |-> [page \in Asked(l) |->
                        IF page % 2 = 0 THEN [k \in 1..l.rows |-> Mirror(k)] ELSE [k \in 1..l.rows |-> k]]]
MCListings ==
  {Ordered([page |-> page, perPage |-> perPage, rows |-> rows, sort |-> size # 0,
            key |-> [k \in 1..rows |-> IF size = 0 THEN 0 ELSE k \div size]]) :
     page \in (-1..4) \cup {1639, 3278, 3279, MaxInt}, perPage \in {-1, 0, 1, 7, 500, 501},
     rows \in {0, 1, 6, 7, 8, 20, 21, 40, 41}, size \in {0, 1, 3}}

ASSUME ListingAssumption == \A l \in MCListings : IsListing(l)

\* Lifetimes around zero, around the longest, and where the product wraps.
Turn == (2 * (MaxInt + 1)) \div Second
MCSignings ==
  [signed : 0..(Second - 1),
   expiresIn : (-3..(Week + 3)) \cup {MaxInt \div Second, MaxInt \div Second + 1}
               \cup (Turn..(Turn + Week + 3)) \cup {MaxInt, -MaxInt - 1}]

MCStem == [author_id |-> "author", editor_id |-> "editor", team_id |-> "team"]

Key(col, ref) == [cols |-> <<col>>, ref |-> ref, refCols |-> <<"id">>]
Author == Key("author_id", "authors")
Editor == Key("editor_id", "authors")
Team   == Key("team_id", "teams")
Lead   == Key("lead", "authors")
Table(name, keys) == [name |-> name, fks |-> keys]
\* A cycle of keys; teams missing from the cache; two keys between the same tables.
Schemas ==
  { {Table("posts", <<Author>>), Table("authors", <<Team>>), Table("teams", <<Lead>>)},
    {Table("posts", <<Author>>), Table("authors", <<Team>>)},
    {Table("posts", <<Author, Editor>>), Table("authors", <<Team>>), Table("teams", <<>>)} }

\* 0 stands for NULL.
Value(n) == IF n = 0 THEN Null ELSE [type |-> "int8", val |-> n]
References == [posts |-> {"author_id", "editor_id"}, authors |-> {"team_id"}, teams |-> {"lead"}]
\* The second team cannot be read.
Readable == [posts |-> {1, 2}, authors |-> {1, 2}, teams |-> {1}]
Cells == UNION {{t} \X Readable[t] \X References[t] : t \in DOMAIN References}
RowsOf(table, refs) ==
  {[col \in References[table] \cup {"id"} |->
      Value(CASE col = "id" -> n
              [] <<table, n, col>> \in DOMAIN refs -> refs[<<table, n, col>>]
              [] OTHER -> 0)] : n \in Readable[table]}

Paths ==
  { <<<<"author">>>>, <<<<"author_id", "team">>>>, <<<<"author", "team", "authors">>>>,
    <<<<"posts">>>>, <<<<"editor">>, <<"author">>>>, <<<<"author", "team">>, <<"author", "posts">>>>,
    <<<<"author", "teams">>>>, <<<<"team", "lead">>, <<"posts", "editor">>>>,
    <<<<"nobody">>, <<"team_id", "authors">>>>, <<<<"teams">>, <<"posts", "author">>>> }

Linking(refs) == [t \in DOMAIN References |-> RowsOf(t, refs)]
\* All columns, or not author_id.  A single record is asked for in full.
AllColumns == UNION {References[t] : t \in DOMAIN References} \cup {"id"}
MCExpansions ==
  {e \in [tables : Schemas, rows : {Linking(<<>>)}, name : {"posts", "authors"},
          fields : {AllColumns, AllColumns \ {"author_id"}}, alone : BOOLEAN, paths : Paths] :
     /\ Clear(e.tables, e.paths)
     /\ e.fields # AllColumns => ~e.alone /\ e.name = "posts"}

\* The references a schema knows of.
Referring(schema) ==
  {cell \in Cells : \E t \in schema : t.name = cell[1] /\ \E k \in DOMAIN t.fks : t.fks[k].cols = <<cell[3]>>}

-----------------------------------------------------------------------------
NoListing ==
  [page |-> 1, perPage |-> 20, rows |-> 0, sort |-> FALSE, key |-> <<>>, order |-> (1 :> <<>>)]
NoSigning == [signed |-> 0, expiresIn |-> 0]
NoExpansion ==
  [tables |-> {}, rows |-> [posts |-> {}], name |-> "posts", fields |-> {}, alone |-> FALSE, paths |-> <<>>]

Init ==
  /\ filter = <<>> /\ links = <<>>
  /\ \/ pieces = 0 /\ listing = NoListing /\ signing = NoSigning /\ expansion = NoExpansion
     \/ pieces = MaxPieces /\ listing \in MCListings /\ signing = NoSigning /\ expansion = NoExpansion
     \/ pieces = MaxPieces /\ listing = NoListing /\ signing \in MCSignings /\ expansion = NoExpansion
     \/ pieces = MaxPieces /\ listing = NoListing /\ signing = NoSigning /\ expansion \in MCExpansions

Extend ==
  /\ pieces < MaxPieces
  /\ pieces' = pieces + 1
  /\ \E piece \in Pieces : filter' = filter \o piece
  /\ UNCHANGED <<links, listing, signing, expansion>>

Refer ==
  /\ Cardinality(DOMAIN links) < MaxLinks
  /\ \E cell \in Referring(expansion.tables) \ DOMAIN links, n \in {1, 2} :
       links' = (cell :> n) @@ links
  /\ expansion' = [expansion EXCEPT !.rows = Linking(links')]
  /\ UNCHANGED <<filter, pieces, listing, signing>>

Next == Extend \/ Refer

Spec == Init /\ [][Next]_<<filter, pieces, links, listing, signing, expansion>>

=============================================================================
