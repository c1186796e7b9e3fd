-------------------------------- MODULE Pages --------------------------------
(***************************************************************************)
(* The page a list request asks for: what handleList makes of its          *)
(* parameters (internal/api/handler.go), the OFFSET and LIMIT that         *)
(* buildList sends (internal/api/query.go), and the rows that come back.   *)
(* The query has an ORDER BY only when the client asked for a sort, and    *)
(* nothing breaks its ties: the database may put tied rows in another      *)
(* order for every page.  No row is written between the queries.           *)
(***************************************************************************)
EXTENDS MachineInts

VARIABLE listing  \* a request: its parameters, the rows that match, their order per page

Page(page) == IF page < 1 THEN 1 ELSE page
PerPage(perPage) == CASE perPage < 1 -> 20 [] perPage > 500 -> 500 [] OTHER -> perPage

\* Mutated Offset: page counts from zero.
OffsetFromZero(page, perPage) == Wrap(Page(page) * PerPage(perPage))
Offset(page, perPage) == Wrap((Page(page) - 1) * PerPage(perPage))
Overflows(page, perPage) == (Page(page) - 1) * PerPage(perPage) > MaxInt

TotalPages(rows, perPage) == (rows + PerPage(perPage) - 1) \div PerPage(perPage)

\* The places of the page in the result: none when the database refuses a
\* negative offset.
OnPage(page, perPage, rows) ==
  LET first == Offset(page, perPage)
  IN IF first < 0 THEN {} ELSE {k \in 1..rows : first < k /\ k <= first + PerPage(perPage)}

\* The rows are numbered in an order the query allows, and key holds what the sort
\* compares of each.  Rows j and k may change places: no sort, or equal keys.
Tied(l, j, k) == ~l.sort \/ l.key[j] = l.key[k]

\* What the database makes of the query for one page: every row at a place of its
\* own, its own or that of a row tied with it.
Arrangements(l) ==
  {order \in [1..l.rows -> 1..l.rows] :
     /\ \A k \in 1..l.rows : \E place \in 1..l.rows : order[place] = k
     /\ \A place \in 1..l.rows : Tied(l, place, order[place])}

Asked(l) == 1..TotalPages(l.rows, l.perPage) \cup {l.page}

IsListing(l) ==
  /\ l.page \in Int /\ l.perPage \in Int /\ l.rows \in 0..MaxInt
  /\ l.sort \in BOOLEAN /\ l.key \in [1..l.rows -> Int]
  /\ \A j, k \in 1..l.rows : j < k => l.key[j] <= l.key[k]
  /\ \A page \in Asked(l) : l.order[page] \in Arrangements(l)

\* The rows that come back.
Shown(l, page) == {l.order[page][place] : place \in OnPage(page, l.perPage, l.rows)}

(***************************************************************************)
(* Pages partition the rows as far as the order of the query decides: a    *)
(* row whose ties all lie within one page is on that page and on no other, *)
(* every row is only on pages its ties reach, no page up to the number the *)
(* answer names is empty, and a page past them is - unless the offset      *)
(* wrapped, when it can show rows again.  A row tied with rows on both     *)
(* sides of a page border - any row, if no sort was asked for and the rows *)
(* fill more than a page - can be on two pages or on none (buildList,      *)
(* parseSortSQL, handleList).                                              *)
(***************************************************************************)
PagesPartitionRows ==
  LET pages == TotalPages(listing.rows, listing.perPage)
      Places(page) == OnPage(page, listing.perPage, listing.rows)
      TiesOf(k) == {j \in 1..listing.rows : Tied(listing, j, k)}
  IN /\ \A k \in 1..listing.rows, page \in 1..pages :
          TiesOf(k) \subseteq Places(page) =>
            \A other \in 1..pages : k \in Shown(listing, other) <=> other = page
     /\ \A k \in 1..listing.rows : \E page \in 1..pages :
          k \in Places(page) /\ \A other \in (1..pages) \ {page} : k \notin Places(other)
     /\ \A page \in 1..pages :
          Shown(listing, page) # {} /\ \A k \in Shown(listing, page) : TiesOf(k) \cap Places(page) # {}
     /\ listing.page > pages /\ ~Overflows(listing.page, listing.perPage)
          => Shown(listing, listing.page) = {}
=============================================================================
