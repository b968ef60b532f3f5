------------------------------ MODULE Aggregate ------------------------------
(***************************************************************************)
(* The aggregate builtins of expression/expressions/builtin_groupby.go    *)
(* over one group: the driver calls the function once per row of the      *)
(* group with the row's arguments, then once with ExprAggDone set; for an *)
(* empty group it calls it once with ExprEvalArgAggEmpty set.  ctx[fn] is *)
(* acc, the aggregateDistinct temp table is seen.                         *)
(*                                                                         *)
(* A value is a record [k, n]: its Go type (int, decimal, float, a        *)
(* numeric string, a non-numeric string) and its number.  Nil is SQL      *)
(* NULL and also "ctx[fn] not set".                                       *)
(***************************************************************************)
EXTENDS Integers, Sequences, SequencesExt, FiniteSets

CONSTANTS
    Values,       \* non-NULL argument values
    Nil,
    Sep,          \* the "," GROUP_CONCAT writes between rows
    MaxRows,
    MaxArgs,      \* arguments of COUNT(DISTINCT ...) and GROUP_CONCAT
    Homogeneous   \* every row's first argument has one Go type

Funcs == {"count", "sum", "avg", "max", "min", "group_concat"}

(* Only GROUP_CONCAT and COUNT(DISTINCT ...) take several arguments.      *)
ArgCounts(f, d) ==
    IF f = "group_concat" \/ (f = "count" /\ d) THEN 1..MaxArgs ELSE {1}

VARIABLES
    fn,         \* the aggregate function
    distinct,   \* c.Distinct
    group,      \* the argument tuples, one per row
    pos,        \* next row to call the function on
    acc,        \* ctx[fn]
    seen,       \* the aggregateDistinct temp table: argument tuples stored
    pc,         \* rows, result, err, panic
    result      \* the value the Done (or empty) call returned

vars == <<fn, distinct, group, pos, acc, seen, pc, result>>

Arg == Values \cup {Nil}

Init ==
    /\ fn \in Funcs
    /\ distinct \in BOOLEAN
    /\ \E a \in ArgCounts(fn, distinct), n \in 0..MaxRows :
          group \in {g \in [1..n -> [1..a -> Arg]] :
                        Homogeneous => \A r, s \in 1..n :
                            g[r][1] # Nil /\ g[s][1] # Nil => g[r][1].k = g[s][1].k}
    /\ pos = 1 /\ acc = Nil /\ seen = {} /\ pc = "rows" /\ result = Nil

(* createDistinct: a temp table only for these functions with DISTINCT.   *)
HasTemp == distinct /\ fn \in {"count", "sum", "avg", "group_concat"}

(* isDistinct(args...): TRUE when the tuple is new, and it is then stored. *)
IsDistinct(args) == ~HasTemp \/ args \notin seen
Store(args) == seen' = IF HasTemp THEN seen \cup {args} ELSE seen

(* The numbers calculateSum adds: ints and decimals as decimals, floats   *)
(* and strings through ToFloat64, which fails on a non-numeric string.    *)
SumKind(v) == IF v.k \in {"int", "dec"} THEN "dec" ELSE "float"

(* calculateSum(sum, v): the new sum, or kind "err", or kind "panic" when  *)
(* the assertion data.(float64) or data.(mysql.Decimal) fails.            *)
CalculateSum(s, v) ==
    CASE v.k = "bad" -> [k |-> "err", n |-> 0]
      [] s = Nil -> [k |-> SumKind(v), n |-> v.n]
      [] s.k = SumKind(v) -> [k |-> s.k, n |-> s.n + v.n]
      [] OTHER -> [k |-> "panic", n |-> 0]
Failed(s) == s.k \in {"err", "panic"}

Row == group[pos]
Step(acc2) == /\ acc' = acc2 /\ pos' = pos + 1 /\ UNCHANGED <<pc, result>>
Skip == /\ pos' = pos + 1 /\ UNCHANGED <<acc, seen, pc, result>>
Fail(s) == /\ pc' = s.k /\ UNCHANGED <<acc, pos, result>>

(* builtinCount on a row: count it when args[0] is not NULL and the tuple *)
(* is distinct.                                                           *)
CountRow ==
    /\ fn = "count"
    /\ \/ /\ Row[1] # Nil /\ IsDistinct(Row)
          /\ Store(Row) /\ Step(IF acc = Nil THEN 1 ELSE acc + 1)
       \/ /\ Row[1] # Nil /\ ~IsDistinct(Row) /\ Skip
       \/ /\ Row[1] = Nil /\ Step(IF acc = Nil THEN 0 ELSE acc)
          /\ UNCHANGED seen

SumRowNoDistinct ==
    /\ fn = "sum"
    /\ \/ /\ Row[1] = Nil /\ Skip
       \/ /\ Row[1] # Nil
          /\ LET s == CalculateSum(acc, Row[1]) IN
             /\ IF Failed(s) THEN Fail(s) ELSE Step(s)
             /\ UNCHANGED seen

(* builtinSum on a row: skip NULL and repeated tuples, add the rest.      *)
SumRow ==
    /\ fn = "sum"
    /\ \/ /\ Row[1] = Nil /\ Skip
       \/ /\ Row[1] # Nil /\ ~IsDistinct(Row) /\ Skip
       \/ /\ Row[1] # Nil /\ IsDistinct(Row) /\ Store(Row)
          /\ LET s == CalculateSum(acc, Row[1]) IN
             IF Failed(s) THEN Fail(s) ELSE Step(s)

(* builtinAvg on a row: as SUM, and count the rows added.                 *)
AvgRow ==
    /\ fn = "avg"
    /\ \/ /\ Row[1] = Nil /\ Skip
       \/ /\ Row[1] # Nil /\ ~IsDistinct(Row) /\ Skip
       \/ /\ Row[1] # Nil /\ IsDistinct(Row) /\ Store(Row)
          /\ LET d == IF acc = Nil THEN [sum |-> Nil, n |-> 0] ELSE acc
                 s == CalculateSum(d.sum, Row[1])
             IN  IF Failed(s) THEN Fail(s)
                 ELSE Step([sum |-> s, n |-> d.n + 1])

(* builtinMax and builtinMin on a row: keep the larger (smaller) value by *)
(* types.Compare, the first one on a tie.                                 *)
MaxMinRow ==
    /\ fn \in {"max", "min"}
    /\ \/ /\ Row[1] = Nil /\ Skip
       \/ /\ Row[1] # Nil
          /\ Step(IF acc = Nil \/ (fn = "max" /\ acc.n < Row[1].n)
                               \/ (fn = "min" /\ acc.n > Row[1].n)
                  THEN Row[1] ELSE acc)
          /\ UNCHANGED seen

(* builtinGroupConcat on a row: the distinct check first, then no change  *)
(* if any argument is NULL, else the old string, a comma, and the         *)
(* arguments' text.                                                       *)
GroupConcatRow ==
    /\ fn = "group_concat"
    /\ \/ /\ ~IsDistinct(Row) /\ Skip
       \/ /\ IsDistinct(Row) /\ Store(Row)
          /\ \/ /\ \E j \in DOMAIN Row : Row[j] = Nil
                /\ pos' = pos + 1 /\ UNCHANGED <<acc, pc, result>>
             \/ /\ \A j \in DOMAIN Row : Row[j] # Nil
                /\ Step((IF acc = Nil THEN <<>> ELSE acc \o <<Sep>>) \o Row)

RowCall ==
    /\ pc = "rows" /\ pos <= Len(group)
    /\ (CountRow \/ SumRow \/ AvgRow \/ MaxMinRow \/ GroupConcatRow)
    /\ UNCHANGED <<fn, distinct, group>>

(* aggregateDistinct.clear: drop the temp table and create an empty one. *)
Clear == seen' = {}

(* The result each function returns on the ExprAggDone call.  COUNT       *)
(* asserts ctx[fn].(int64); MAX, MIN and SUM return ctx[fn], or nil when  *)
(* it is unset; GROUP_CONCAT the string, or nil.                          *)
CountDone == acc
MaxMinDone == acc
SumDone == acc
GroupConcatDone == acc
(* AVG returns nil when no row was added, else divides the sum by the     *)
(* rows added (the quotient is kept as a pair: Decimal.Div's rounding is  *)
(* not modelled).                                                         *)
AvgDone == IF acc = Nil THEN Nil
           ELSE [k |-> acc.sum.k, num |-> acc.sum.n, den |-> acc.n]
DoneResult ==
    CASE fn = "count" -> CountDone
      [] fn = "avg" -> AvgDone
      [] fn = "sum" -> SumDone
      [] fn \in {"max", "min"} -> MaxMinDone
      [] OTHER -> GroupConcatDone

(* The ExprAggDone call: clear the temp table and return the result.      *)
DoneCall ==
    /\ pc = "rows" /\ pos > Len(group) /\ Len(group) > 0
    /\ result' = DoneResult
    /\ Clear
    /\ pc' = "result"
    /\ UNCHANGED <<fn, distinct, group, pos, acc>>

(* The result each function returns on the ExprEvalArgAggEmpty call:      *)
(* COUNT int64(0), AVG, SUM, MAX and MIN a nil v, GROUP_CONCAT nil, nil.   *)
CountEmpty == 0
AvgEmpty == Nil
SumEmpty == Nil
MaxMinEmpty == Nil
GroupConcatEmpty == Nil
EmptyResult ==
    CASE fn = "count" -> CountEmpty
      [] fn = "avg" -> AvgEmpty
      [] fn = "sum" -> SumEmpty
      [] fn \in {"max", "min"} -> MaxMinEmpty
      [] OTHER -> GroupConcatEmpty

(* The ExprEvalArgAggEmpty call, made instead of the row and Done calls   *)
(* for a group with no rows; it is checked before anything else.          *)
EmptyCall ==
    /\ pc = "rows" /\ Len(group) = 0
    /\ result' = EmptyResult
    /\ pc' = "result"
    /\ UNCHANGED <<fn, distinct, group, pos, acc, seen>>

Next == RowCall \/ DoneCall \/ EmptyCall

Spec == Init /\ [][Next]_vars

-----------------------------------------------------------------------------
(* The MySQL definitions (the page builtin_groupby.go cites).             *)

(* Rows that take part: no argument NULL; with DISTINCT, the first of     *)
(* each equal tuple.                                                      *)
NonNull == SelectSeq(group, LAMBDA r : \A j \in DOMAIN r : r[j] # Nil)
FirstOccurrences(s) ==
    SelectSeq([j \in DOMAIN s |-> <<j, s[j]>>],
              LAMBDA p : \A l \in 1..p[1] - 1 : s[l] # p[2])
Taken == IF distinct THEN [j \in DOMAIN FirstOccurrences(NonNull) |-> FirstOccurrences(NonNull)[j][2]]
         ELSE NonNull
Firsts == [j \in DOMAIN Taken |-> Taken[j][1]]

SumOf(s) == FoldLeft(LAMBDA a, v : a + v.n, 0, s)
SQLSum == IF Taken = <<>> THEN Nil
          ELSE [k |-> SumKind(Firsts[1]), n |-> SumOf(Firsts)]
SQLCount == Len(Taken)
Extreme(better(_, _)) ==
    CHOOSE v \in ToSet(Firsts) : \A w \in ToSet(Firsts) : ~better(w.n, v.n)
SQLResult ==
    CASE fn = "count" -> SQLCount
      [] fn = "sum" -> SQLSum
      [] fn = "avg" -> IF Taken = <<>> THEN Nil
                       ELSE [k |-> SQLSum.k, num |-> SQLSum.n, den |-> SQLCount]
      [] fn = "max" -> IF Taken = <<>> THEN Nil ELSE Extreme(LAMBDA a, b : a > b)
      [] fn = "min" -> IF Taken = <<>> THEN Nil ELSE Extreme(LAMBDA a, b : a < b)
      [] OTHER -> IF Taken = <<>> THEN Nil
                  ELSE FoldLeft(LAMBDA a, r : IF a = <<>> THEN r ELSE a \o <<Sep>> \o r,
                                <<>>, Taken)

(* Equal as SQL values: MAX/MIN compare by number (which of equal values  *)
(* is returned is not defined).                                           *)
SameValue(x, y) ==
    IF fn \in {"max", "min"} /\ x # Nil /\ y # Nil THEN x.n = y.n ELSE x = y

(* AggregateCorrect: a group whose calls all returned without error ends  *)
(* with the MySQL result of the aggregate over the group.                 *)
AggregateCorrect == pc = "result" => SameValue(result, SQLResult)
=============================================================================
