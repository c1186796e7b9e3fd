------------------------------ MODULE FilterSQL ------------------------------
(***************************************************************************)
(* The queries a filter becomes part of, with their parameters (buildList  *)
(* in internal/api/query.go), and what a filter and the SQL for it mean.   *)
(***************************************************************************)
EXTENDS FilterParser, Pages, FiniteSets

-----------------------------------------------------------------------------
\* The WHERE clauses and arguments of the two queries, the filter given or not,
\* and the parameters of LIMIT and OFFSET.
List(toks, page, perPage) ==
  LET parsed == Parse(toks)
      clause == IF toks = <<>> THEN <<>> ELSE parsed.sql
      args == IF toks = <<>> THEN <<>> ELSE parsed.args
  IN [where     |-> clause,
      countArgs |-> args,
      dataArgs  |-> args \o <<Token("value", PerPage(perPage)), Token("value", Offset(page, perPage))>>,
      limit     |-> Param(Len(args) + 1),
      offset    |-> Param(Len(args) + 2)]

-----------------------------------------------------------------------------
(***************************************************************************)
(* A reader of expressions that shares nothing with the parser: it splits  *)
(* one at its last OR outside parentheses, at its last AND only when there *)
(* is no such OR.                                                          *)
(***************************************************************************)
Count(s, n, kind) == Cardinality({k \in 1..n : s[k].kind = kind})
Depth(s, n) == Count(s, n, "lparen") - Count(s, n, "rparen")
Outside(s, kind) == {k \in 2..(Len(s) - 1) : s[k].kind = kind /\ Depth(s, k) = 0}
Enclosed(s) == Len(s) > 2 /\ s[1].kind = "lparen" /\ s[Len(s)].kind = "rparen"

\* The test a comparison is, the same for a filter and for SQL with its arguments
\* in place: x = null and x != null ask whether there is a value.
Sense(tok) == IF tok.kind \in {"ident", "op", "value", "null"} THEN tok.value ELSE tok.kind
Test(s) ==
  CASE Len(s) = 3 /\ s[Len(s)].kind = "null" -> <<s[1].value, "is", s[2].value = Equal>>
    [] Len(s) = 2 -> <<s[1].value, "is", s[2].value>>
    [] OTHER -> [k \in DOMAIN s |-> Sense(s[k])]

\* Whether an expression is true of a row that passes exactly the tests given, given
\* which shorter ones are.
Truth(s, passed, holds) ==
  LET ors  == Outside(s, "or")
      ands == Outside(s, "and")
      Left(k)  == holds[SubSeq(s, 1, k - 1)]
      Right(k) == holds[SubSeq(s, k + 1, Len(s))]
  IN \/ ors # {} /\ (Left(Max(ors)) \/ Right(Max(ors)))
     \/ ors = {} /\ ands # {} /\ Left(Max(ands)) /\ Right(Max(ands))
     \/ ors \cup ands = {} /\ Enclosed(s) /\ holds[SubSeq(s, 2, Len(s) - 1)]
     \/ ors \cup ands = {} /\ ~Enclosed(s) /\ Test(s) \in passed

Holds(toks, passed) ==
  LET holds[s \in Seq(ToSet(toks))] == Truth(s, passed, holds)
  IN holds[toks]

\* The comparisons of an expression.
Tests(toks) ==
  {Test(SubSeq(toks, span[1], span[2])) :
     span \in {s \in (DOMAIN toks) \X (DOMAIN toks) : IsComparison(toks, s[1], s[2])}}

Bound(sql, args) ==
  [k \in DOMAIN sql |-> IF sql[k].kind = "param" THEN args[sql[k].value] ELSE sql[k]]

(***************************************************************************)
(* The WHERE clause, its parameters replaced by the arguments it is sent   *)
(* with, is true of the rows the filter is true of: precedence, grouping   *)
(* and the numbering of parameters survive the translation, and a value    *)
(* is tested against the column it stood beside (toSQL, addArg).  The same *)
(* arguments serve the data query, where LIMIT and OFFSET take the two     *)
(* that follow (buildList).                                                *)
(***************************************************************************)
FilterKeepsItsMeaning ==
  filter = <<>> \/ Parse(filter).ok =>
    LET q == List(filter, 3, 10)
        inCount == Bound(q.where, q.countArgs)
        inData  == Bound(q.where \o <<q.limit, q.offset>>, q.dataArgs)
    IN /\ inData = inCount \o <<Token("value", 10), Token("value", 20)>>
       /\ filter = <<>> \/ \A passed \in SUBSET Tests(filter) :
                                 (Holds(inCount, passed) <=> Holds(filter, passed))
=============================================================================
