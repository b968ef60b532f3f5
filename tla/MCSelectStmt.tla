---------------------------- MODULE MCSelectStmt ----------------------------
(***************************************************************************)
(* FROM clauses, predicates and value conversions for SelectStmt.         *)
(***************************************************************************)
EXTENDS SelectStmt

CONSTANTS noAlias, const

(* Table sources: t(a, b), u(a), t AS x, u AS x, a derived table          *)
(* (SELECT ...) AS y, and one AS z whose select list repeats a column.    *)
T == [kind |-> "table", tbl |-> "t", alias |-> noAlias, cols |-> <<"a", "b">>]
U == [kind |-> "table", tbl |-> "u", alias |-> noAlias, cols |-> <<"a">>]
TX == [T EXCEPT !.alias = "x"]
UX == [U EXCEPT !.alias = "x"]
SY == [kind |-> "stmt", tbl |-> "", alias |-> "y", cols |-> <<"c">>]
SZ == [kind |-> "stmt", tbl |-> "", alias |-> "z", cols |-> <<"c", "c">>]
J(l, r) == [kind |-> "join", left |-> l, right |-> r]

MCTrees ==
    { J(T, NoNode),                 \* FROM t
      J(T, U),                      \* t JOIN u
      J(T, T),                      \* t JOIN t
      J(T, TX),                     \* t JOIN t AS x
      J(J(T, SY), TX),              \* (t JOIN (...) AS y) JOIN t AS x
      J(U, J(SY, T)),               \* u JOIN ((...) AS y JOIN t)
      J(J(T, U), J(SY, U)),         \* (t JOIN u) JOIN ((...) AS y JOIN u)
      J(T, J(U, SZ)),               \* t JOIN (u JOIN (SELECT c, c) AS z)
      J(TX, UX) }                   \* t AS x JOIN u AS x

(* Select fields: c, q.c, c AS name, the constant 1 and COUNT(b).        *)
F(q, c) == [q |-> q, c |-> c, name |-> c, agg |-> FALSE]
As(q, c, name) == [q |-> q, c |-> c, name |-> name, agg |-> FALSE]
One == [q |-> noAlias, c |-> const, name |-> "1", agg |-> FALSE]
CountB == [q |-> noAlias, c |-> "b", name |-> "count(b)", agg |-> TRUE]
Col(c) == F(noAlias, c)

(* Select lists ResolveSelectList accepts: every unqualified name names   *)
(* one column of the FROM clause.                                         *)
MCListsOf ==
    [tr \in MCTrees |->
        CASE tr = J(T, NoNode) ->
                { <<Col("a"), Col("b")>>,                \* SELECT a, b FROM t
                  <<Col("a")>>,                          \* SELECT a FROM t
                  <<As(noAlias, "a", "b"), Col("b")>>,   \* SELECT a AS b, b FROM t
                  <<F("t", "a"), Col("b")>>,             \* SELECT t.a, b FROM t
                  <<One, Col("b")>>,                     \* SELECT 1, b FROM t
                  <<Col("a"), CountB>> }                 \* SELECT a, COUNT(b) FROM t
          [] tr = J(T, U) -> { <<F("t", "a"), Col("b"), F("u", "a")>> }
          [] tr = J(T, TX) -> { <<F("t", "b"), F("x", "a")>> }
          [] tr = J(U, J(SY, T)) -> { <<Col("b"), Col("c")>> }
          [] OTHER -> { <<Col("b")>> }]

(* Builtin calls and variables: CONCAT(c1, c2), CONCAT_WS(c1, NULL, c2);  *)
(* @u, @@autocommit (set by the session), @@GLOBAL.autocommit, @@nosuch.  *)
Fn(f, args) == [op |-> "fn", f |-> f, args |-> args]
Var(name, sys, global) == [op |-> "var", name |-> name, sys |-> sys, global |-> global]
MCExprPreds ==
    { Fn("concat", <<"c1", "c2">>), Fn("concat_ws", <<"c1", "null", "c2">>),
      Var("u", FALSE, FALSE), Var("autocommit", TRUE, FALSE),
      Var("autocommit", TRUE, TRUE), Var("nosuch", TRUE, FALSE) }
MCUserVars == "u" :> "'1'"
MCSysVars == "autocommit" :> "1"
MCSessionSys == "autocommit" :> "0"

IsP(not, truth) == [op |-> "is", e |-> "c1", not |-> not, truth |-> truth]
W(e, r) == [e |-> e, r |-> r]
Case(val, whens, else) == [op |-> "case", val |-> val, whens |-> whens, else |-> else]

MCPreds ==
    { [op |-> "none"],                                   \* no WHERE
      [op |-> "col", e |-> "c1"],                        \* WHERE c1
      IsP(FALSE, 1), IsP(TRUE, 1),                       \* c1 IS [NOT] TRUE
      IsP(FALSE, 0), IsP(TRUE, 0),                       \* c1 IS [NOT] FALSE
      Case("none", <<W("c1", "1")>>, "0"),               \* CASE WHEN c1 THEN 1 ELSE 0 END
      Case("none", <<W("c1", "0"), W("true", "c1")>>, "none"),
      Case("c1", <<W("0", "1")>>, "none"),               \* CASE c1 WHEN 0 THEN 1 END
      Case("c1", <<W("null", "1")>>, "c1") }             \* CASE c1 WHEN NULL THEN 1 ELSE c1 END
    \cup MCExprPreds
(* Column values include the Go strings 'a' and '1'.                       *)
MCVals == {"null", "0", "1", "true", "false", "bad", "'a'", "'1'"}
MCOutVals == {"1", "true"}

(* types.ToBool on the values here: numbers and bools are false at 0, a   *)
(* string is its leading number; "bad" (a value of a type ToBool does not *)
(* take) is an error.                                                     *)
MCToBool(v) == IF v = "bad" THEN ToBoolErr ELSE SQLNum(v)

(* types.ToString: a number is its digits, TRUE is "1" and FALSE "0";     *)
(* "bad" has no entry.                                                    *)
MCToString == [v \in {"0", "false"} |-> "0"] @@ [v \in {"1", "true"} |-> "1"]

(* BinaryOperation EQ: NULL when either side is NULL, an error on "bad",  *)
(* else a bool, comparing bools as 1 and 0 and strings as numbers.        *)
MCEq == [p \in (MCVals \ {"bad"}) \X (MCVals \ {"bad"}) |->
            IF "null" \in {p[1], p[2]} THEN "null"
            ELSE IF MCToBool(p[1]) = MCToBool(p[2]) THEN "true" ELSE "false"]
=============================================================================
