---------------------------- MODULE FilterParser ----------------------------
(***************************************************************************)
(* The filter parameter of a list request: the recursive descent parser    *)
(* (internal/api/filter.go).                                               *)
(*                                                                         *)
(* A filter is the sequence of its tokens, each a kind and a value.  A     *)
(* call of a parser's function starts at a position, with the arguments    *)
(* collected so far; it returns a node, the position after it and the      *)
(* arguments then, or that it failed.  The functions are functions of      *)
(* their calls.  A node is the SQL that toSQL makes of it, for nothing     *)
(* else is asked of one: a sequence of the same tokens, with "param" for   *)
(* $1, $2, ... and "is" for IS NULL and IS NOT NULL.                       *)
(***************************************************************************)
EXTENDS Integers, Sequences, SequencesExt

CONSTANT Columns  \* the table's columns

VARIABLE filter  \* the tokens of the parameter

Token(kind, value) == [kind |-> kind, value |-> value]
KindAt(toks, i) == IF i \in DOMAIN toks THEN toks[i].kind ELSE "end"
\* A number that strconv refuses, such as 1.2.3, is of the kind "nonnumber": no value.
IsValue(kind) == kind \in {"value", "null"}

Calls(toks) == Nat \X Seq(ToSet(toks))
Failed == [ok |-> FALSE]
Read(sql, pos, args) == [ok |-> TRUE, sql |-> sql, pos |-> pos, args |-> args]

Param(n) == Token("param", n)
Column(name) == Token("ident", name)
Mark(kind) == Token(kind, kind)

\* toSQL of a comparison; of one with null; of IN with n values, after those collected before.
Compared(col, op, n) == <<Column(col), Token("op", op), Param(n)>>
ComparedWithNull(col, isNull) == <<Column(col), Token("is", isNull)>>
Listed(col, before, n) ==
  <<Column(col), Mark("in"), Mark("lparen")>>
  \o [k \in 1..(2 * n - 1) |-> IF k % 2 = 1 THEN Param(before + (k + 1) \div 2) ELSE Mark("comma")]
  \o <<Mark("rparen")>>

\* Mutated Pair: no parentheses around what an operator joins.
PairBare(kind, left, right) == left \o <<Mark(kind)>> \o right

\* toSQL of AND and OR.
Pair(kind, left, right) == <<Mark("lparen")>> \o left \o <<Mark(kind)>> \o right \o <<Mark("rparen")>>

\* Mutated NullTest: null is an argument like any other.
NullIsAnArgument(toks, i, args) ==
  Read(Compared(toks[i].value, toks[i + 1].value, Len(args) + 1), i + 3, Append(args, toks[i + 2]))

\* What null can be compared with.
Equal   == "="
Unequal == "!="

\* A comparison with null takes no argument.
NullTest(toks, i, args) ==
  IF toks[i + 1].value \in {Equal, Unequal}
  THEN Read(ComparedWithNull(toks[i].value, toks[i + 1].value = Equal), i + 3, args)
  ELSE Failed

\* The values of an IN list from position i on, up to the one no comma follows; null is
\* an argument here.
InList(toks, col, i, args) ==
  LET last == Min({k \in 0..Len(toks) : KindAt(toks, i + 2 * k + 1) # "comma"})
      values == [k \in 1..(last + 1) |-> toks[i + 2 * k - 2]]
  IN IF /\ \A k \in 0..last : IsValue(KindAt(toks, i + 2 * k))
        /\ KindAt(toks, i + 2 * last + 1) = "rparen"
     THEN Read(Listed(col, Len(args), last + 1), i + 2 * last + 2, args \o values)
     ELSE Failed

\* parseComparison: ~ and !~ become LIKE and NOT LIKE, one to one.
Comparison(toks, i, args) ==
  LET Begins(second, third) ==
        /\ KindAt(toks, i) = "ident" /\ toks[i].value \in Columns
        /\ KindAt(toks, i + 1) = second /\ KindAt(toks, i + 2) = third
  IN CASE Begins("in", "lparen") -> InList(toks, toks[i].value, i + 3, args)
       [] Begins("op", "null")   -> NullTest(toks, i, args)
       [] Begins("op", "value")  ->
            Read(Compared(toks[i].value, toks[i + 1].value, Len(args) + 1),
                 i + 3, Append(args, toks[i + 2]))
       [] OTHER -> Failed

\* parsePrimary, given what reads the expression in parentheses.
Primaries(toks, expression) ==
  [call \in Calls(toks) |->
    LET inner == expression[<<call[1] + 1, call[2]>>]
    IN CASE KindAt(toks, call[1]) # "lparen" -> Comparison(toks, call[1], call[2])
         [] KindAt(toks, call[1]) = "lparen" /\ inner.ok /\ KindAt(toks, inner.pos) = "rparen" ->
              Read(inner.sql, inner.pos + 1, inner.args)
         [] OTHER -> Failed]

\* A turn of the loops of parseAndExpr and parseOrExpr: if the operator follows, another
\* operand is read.
Another(toks, kind, operand, left) ==
  LET right == operand[<<left.pos + 1, left.args>>]
  IN CASE ~left.ok \/ KindAt(toks, left.pos) # kind -> left
       [] left.ok /\ KindAt(toks, left.pos) = kind /\ right.ok ->
            Read(Pair(kind, left.sql, right.sql), right.pos, right.args)
       [] OTHER -> Failed

\* An operand, and more of them as long as the operator follows.  Each turn reads a token
\* at least.
Joined(toks, kind, operand) ==
  [call \in Calls(toks) |->
    LET read[n \in 0..Len(toks)] ==
          IF n = 0 THEN operand[call] ELSE Another(toks, kind, operand, read[n - 1])
    IN read[Len(toks)]]

\* Mutated Conjunctions: no AND is read, so what follows a comparison must be an OR.
SinglePrimaries(toks, expression) == Primaries(toks, expression)

\* parseAndExpr.
Conjunctions(toks, expression) == Joined(toks, "and", Primaries(toks, expression))

\* parseOrExpr, which is parseExpression: by how deep its parentheses are nested, which
\* is less than the number of tokens.
Expressions(toks) ==
  LET upTo[depth \in 0..Len(toks)] ==
        IF depth = 0 THEN [call \in Calls(toks) |-> Failed]
        ELSE Joined(toks, "or", Conjunctions(toks, upTo[depth - 1]))
  IN upTo[Len(toks)]

\* parseFilter: everything must have been read.
Parse(toks) ==
  LET all == Expressions(toks)[<<1, <<>>>>]
  IN IF all.ok /\ all.pos = Len(toks) + 1 THEN all ELSE Failed

-----------------------------------------------------------------------------
(***************************************************************************)
(* The grammar of filters, by which tokens make an expression: no position *)
(* to stop at, no precedence.                                              *)
(***************************************************************************)
IsComparison(toks, first, last) ==
  /\ KindAt(toks, first) = "ident" /\ toks[first].value \in Columns
  /\ \/ /\ last = first + 2 /\ KindAt(toks, first + 1) = "op"
        /\ \/ KindAt(toks, last) = "value"
           \/ KindAt(toks, last) = "null" /\ toks[first + 1].value \in {Equal, Unequal}
     \/ /\ KindAt(toks, first + 1) = "in" /\ KindAt(toks, first + 2) = "lparen"
        /\ KindAt(toks, last) = "rparen"
        /\ last - first > 3 /\ (last - first) % 2 = 0
        /\ \A k \in (first + 3)..(last - 1) :
             IF (k - first) % 2 = 1 THEN IsValue(toks[k].kind) ELSE toks[k].kind = "comma"

\* What makes the tokens from first to last an expression, given which shorter ones are.
Formed(toks, formed, first, last) ==
  \/ \E k \in (first + 1)..(last - 1) :
       toks[k].kind \in {"and", "or"} /\ formed[<<first, k - 1>>] /\ formed[<<k + 1, last>>]
  \/ /\ first + 1 < last /\ toks[first].kind = "lparen" /\ toks[last].kind = "rparen"
     /\ formed[<<first + 1, last - 1>>]
  \/ IsComparison(toks, first, last)

WellFormed(toks) ==
  LET formed[span \in (DOMAIN toks) \X (DOMAIN toks)] == Formed(toks, formed, span[1], span[2])
  IN formed[<<1, Len(toks)>>]

\* What the API reference shows as filters besides (docs-site/guide/api-reference.md:63-67).
\* IS and LIKE are identifiers to the tokenizer.
IsWord   == Column("IS")
LikeWord == Column("LIKE")
IsDocumentedTest(s) ==
  /\ s[1].kind = "ident"
  /\ \/ s[2] = IsWord /\ s[3].kind = "null"
     \/ s[2] = LikeWord /\ s[3].kind = "value"

(***************************************************************************)
(* A filter is accepted exactly when it is an expression of the grammar    *)
(* the parser's comments give: nothing it skips, stops before or reads     *)
(* past (parseFilter).  That grammar is not the API reference's: a filter  *)
(* with one of the documented tests x IS NULL and x LIKE 'y' is refused.   *)
(***************************************************************************)
AcceptsItsGrammar ==
  /\ filter # <<>> => (Parse(filter).ok <=> WellFormed(filter))
  /\ \A k \in 1..(Len(filter) - 2) :
       IsDocumentedTest(SubSeq(filter, k, k + 2)) => ~Parse(filter).ok
=============================================================================
