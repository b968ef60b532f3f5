------------------------------ MODULE SelectStmt ------------------------------
(***************************************************************************)
(* A SELECT ... FROM ... WHERE statement, run one or more times as a      *)
(* prepared statement.  SelectStmt.Plan (stmt/stmts/select.go) builds the  *)
(* FROM plan through JoinRset.Plan (rset/rsets/join.go) and puts a        *)
(* FilterDefaultPlan (plan/plans/where.go) and a SelectFinalPlan           *)
(* (plan/plans/final.go) over it.  Each run of the plan streams the source *)
(* rows through the filter, whose predicate is a column, an IS [NOT]      *)
(* TRUE/FALSE test (expressions/istruth.go), a CASE expression            *)
(* (expressions/case.go), a string builtin (expressions/builtin_string.go) *)
(* or a variable (expressions/variable.go), and through the final          *)
(* projection to the client.                                               *)
(*                                                                         *)
(* A FROM clause is a join tree: a node [kind |-> "join", left, right],   *)
(* where right may be [kind |-> "none"] (a lone table), and leaves         *)
(* [kind |-> "table" or "stmt", tbl, alias, cols].  A SQL value is a       *)
(* string: "null", "0", "1", "true", "false" (a Go bool), "u0", "u1" (the *)
(* uint8 the final plan writes for a bool), "bad" (a value ToBool         *)
(* rejects), and Go strings, written "'" \o s \o "'" (so "'a'" is the    *)
(* string a).  A row has two columns.                                     *)
(***************************************************************************)
EXTENDS Integers, Sequences, SequencesExt, FiniteSets

CONSTANTS
    Trees,      \* FROM clauses
    NoAlias,    \* TableSource.Name == ""
    Preds,      \* WHERE predicates (see EvalPred); [op |-> "none"] is no WHERE
    Vals,       \* values a row column may hold
    OutVals,    \* values of the second column
    ToBoolOf(_), \* types.ToBool: 0, 1, or ToBoolErr where it returns an error
    EqOf,       \* BinaryOperation EQ: a function on the pairs it compares
    ToStringOf, \* types.ToString: a function on the values, not Go strings, it converts
    UserVars,   \* the session's user variables: name -> value
    SysVars,    \* variable.SysVars: name -> global value
    SessionSys, \* the session's own system variable values: name -> value
    ListsOf,    \* select lists (s.Fields) ResolveSelectList accepts, per FROM clause
    Const,      \* a constant select field, e.g. the 1 of SELECT 1
    MaxRows,    \* rows a run of the source produces
    MaxRuns     \* executions of the prepared statement

NoNode == [kind |-> "none"]

-----------------------------------------------------------------------------
(* Building the FROM plan.  A result is [err, names, fields]: names is    *)
(* r.tableNames, a field is <<table name, column>>.                       *)
Ok(names, fields) == [err |-> FALSE, names |-> names, fields |-> fields]
Err == [err |-> TRUE, names |-> {}, fields |-> <<>>]

BuildSourcePlanIgnoreAlias(t, names) ==
    LET tag == IF t.alias # NoAlias THEN t.alias ELSE t.tbl
    IN  CASE t.kind = "table" /\ t.tbl \in names -> Err
          [] ~IsInjective(t.cols) -> Err
          [] OTHER -> Ok(IF t.kind = "table" THEN names \cup {t.tbl} ELSE names,
                         [j \in DOMAIN t.cols |-> <<tag, t.cols[j]>>])

(* buildSourcePlan: a table source without AS registers its table name    *)
(* and fails when the name is already there; every source fails on a      *)
(* column name it has twice; its fields take the AS name when there is one. *)
BuildSourcePlan(t, names) ==
    LET unnamed == t.kind = "table" /\ t.alias = NoAlias
        tag == IF t.alias # NoAlias THEN t.alias ELSE t.tbl
    IN  CASE unnamed /\ t.tbl \in names -> Err
          [] ~IsInjective(t.cols) -> Err
          [] OTHER -> Ok(IF unnamed THEN names \cup {t.tbl} ELSE names,
                         [j \in DOMAIN t.cols |-> <<tag, t.cols[j]>>])

(* buildPlan: a nested JoinRset becomes an empty JoinPlan filled in later, *)
(* a missing right side has no fields.                                    *)
BuildPlan(n, names) ==
    IF n.kind \in {"join", "none"} THEN Ok(names, <<>>) ELSE BuildSourcePlan(n, names)

(* buildJoinPlan(p, s): build both sides, then recurse into a nested left *)
(* join, then into a nested right join; the fields are the left side's    *)
(* followed by the right side's.  tableNames is shared by the whole walk. *)
RECURSIVE BuildJoinPlan(_, _)
BuildJoinPlan(s, names) ==
    LET l == BuildPlan(s.left, names)
        r == BuildPlan(s.right, l.names)
        lj == IF s.left.kind = "join" THEN BuildJoinPlan(s.left, r.names)
              ELSE Ok(r.names, l.fields)
        rj == IF s.right.kind = "join" THEN BuildJoinPlan(s.right, lj.names)
              ELSE Ok(lj.names, r.fields)
    IN  CASE l.err \/ r.err -> Err
          [] lj.err -> Err
          [] rj.err -> Err
          [] OTHER -> Ok(rj.names, lj.fields \o rj.fields)

(* JoinRset.Plan: a fresh tableNames for each planning.                   *)
JoinPlanOf(tree) == BuildJoinPlan(tree, {})

-----------------------------------------------------------------------------
(* The select-fields plan.  A select field is [q, c, name, agg]: the     *)
(* column c of the source named q (NoAlias when unqualified), or the      *)
(* constant Const; name is the field's output name; agg tells that its    *)
(* expression contains an aggregate function (ContainAggregateFunc).      *)

(* GetAggFields and HasAggFields: the positions of the aggregate fields,  *)
(* and whether there is one.                                              *)
GetAggFields(fl) == {j \in DOMAIN fl : fl[j].agg}
HasAggFields(fl) == GetAggFields(fl) # {}

(* Ident.L, the lower-case text of the identifier: "c" or "q.c".          *)
IdentL(f) == IF f.q = NoAlias THEN f.c ELSE f.q \o "." \o f.c

SelectFieldsPlanNoLenCheck(fl, srcFields, srcIsTable) ==
    IF \A j \in DOMAIN fl : /\ fl[j].c # Const
                            /\ IdentL(fl[j]) = srcFields[j][2]
                            /\ fl[j].name = srcFields[j][2]
    THEN "src"
    ELSE IF srcIsTable /\ \A j \in DOMAIN fl : fl[j].c = Const THEN "nilsrc"
    ELSE "fields"

(* SelectFieldsRset.Plan: when the select list has one identifier per     *)
(* source field, each with the field's name as its text and as its       *)
(* output name, the source plan is used as it is ("src"); else a          *)
(* SelectFieldsDefaultPlan projects it ("fields"), over a TableNilPlan     *)
(* ("nilsrc") when the source is a table plan and every field a constant. *)
SelectFieldsPlan(fl, srcFields, srcIsTable) ==
    IF /\ Len(fl) = Len(srcFields)
       /\ \A j \in DOMAIN fl : /\ fl[j].c # Const
                               /\ IdentL(fl[j]) = srcFields[j][2]
                               /\ fl[j].name = srcFields[j][2]
    THEN "src"
    ELSE IF srcIsTable /\ \A j \in DOMAIN fl : fl[j].c = Const THEN "nilsrc"
    ELSE "fields"

-----------------------------------------------------------------------------
(* Evaluating the WHERE predicate on a row.  A result is [ok, v].  An     *)
(* operand is "c1" or "c2" (a column) or a literal value.                 *)
Val(v) == [ok |-> TRUE, v |-> v]
EvalErr == [ok |-> FALSE, v |-> "null"]
Bool(b) == IF b THEN "true" ELSE "false"
ToBoolErr == -1
ToBoolFails(v) == ToBoolOf(v) = ToBoolErr
EqFails(a, b) == <<a, b>> \notin DOMAIN EqOf
Opnd(x, row) == CASE x = "c1" -> row[1] [] x = "c2" -> row[2] [] OTHER -> x

EvalIsTruthNullFalse(p, row) ==
    LET val == Opnd(p.e, row) IN
    CASE val = "null" -> Val("false")
      [] ToBoolFails(val) -> EvalErr
      [] ~p.not -> Val(Bool(ToBoolOf(val) = p.truth))
      [] OTHER -> Val(Bool(ToBoolOf(val) # p.truth))

(* IsTruth.Eval: NULL IS [NOT] TRUE/FALSE is is.Not; else ToBool of the   *)
(* value compared with is.True, negated by is.Not.                        *)
EvalIsTruth(p, row) ==
    LET val == Opnd(p.e, row) IN
    CASE val = "null" -> Val(Bool(p.not))
      [] ToBoolFails(val) -> EvalErr
      [] ~p.not -> Val(Bool(ToBoolOf(val) = p.truth))
      [] OTHER -> Val(Bool(ToBoolOf(val) # p.truth))

(* WhenClause.evalAndCheck: target = w.Expr by BinaryOperation EQ; NULL   *)
(* or false is no match; a match evaluates w.Result.                      *)
EvalAndCheck(target, w, row) ==
    LET e == Opnd(w.e, row) IN
    CASE EqFails(target, e) -> [st |-> "err"]
      [] EqOf[<<target, e>>] = "null" -> [st |-> "nomatch"]
      [] ToBoolFails(EqOf[<<target, e>>]) -> [st |-> "err"]
      [] ToBoolOf(EqOf[<<target, e>>]) = 0 -> [st |-> "nomatch"]
      [] OTHER -> [st |-> "match", v |-> Opnd(w.r, row)]

(* FunctionCase.Eval: the target is f.Value, or true for a searched CASE; *)
(* the first matching WHEN gives the result, else ELSE, else NULL.        *)
CaseTarget(p, row) == IF p.val = "none" THEN "true" ELSE Opnd(p.val, row)
RECURSIVE EvalWhens(_, _, _)
EvalWhens(p, row, k) ==
    IF k > Len(p.whens)
    THEN Val(IF p.else = "none" THEN "null" ELSE Opnd(p.else, row))
    ELSE LET c == EvalAndCheck(CaseTarget(p, row), p.whens[k], row) IN
         CASE c.st = "err" -> EvalErr
           [] c.st = "match" -> Val(c.v)
           [] OTHER -> EvalWhens(p, row, k + 1)
EvalCase(p, row) == EvalWhens(p, row, 1)

(* Go strings as values.                                                  *)
IsGoStr(v) == Len(v) >= 2 /\ SubSeq(v, 1, 1) = "'"
Body(v) == SubSeq(v, 2, Len(v) - 1)
GoStr(s) == "'" \o s \o "'"
JoinStr(parts, sep) ==
    IF parts = <<>> THEN "" ELSE FoldLeft(LAMBDA acc, x : acc \o sep \o x, Head(parts), Tail(parts))

(* types.ToString: a Go string is itself; it fails on a value ToStringOf *)
(* has no entry for.                                                      *)
ToStr(v) == CASE IsGoStr(v) -> [ok |-> TRUE, s |-> Body(v)]
              [] v \in DOMAIN ToStringOf -> [ok |-> TRUE, s |-> ToStringOf[v]]
              [] OTHER -> [ok |-> FALSE, s |-> ""]

(* builtinConcat: left to right, a NULL argument ends the call with NULL  *)
(* and a ToString error ends it with the error.                           *)
RECURSIVE ConcatFrom(_, _)
ConcatFrom(as, acc) ==
    IF as = <<>> THEN Val(GoStr(acc))
    ELSE CASE Head(as) = "null" -> Val("null")
           [] ~ToStr(Head(as)).ok -> EvalErr
           [] OTHER -> ConcatFrom(Tail(as), acc \o ToStr(Head(as)).s)
BuiltinConcat(as) == ConcatFrom(as, "")

(* builtinConcatWS: a NULL separator (args[0]) gives NULL; a NULL later   *)
(* argument is skipped; the others are joined with the separator.         *)
RECURSIVE ConcatWSFrom(_, _, _)
ConcatWSFrom(as, parts, sep) ==
    IF as = <<>> THEN Val(GoStr(JoinStr(parts, sep)))
    ELSE CASE Head(as) = "null" -> ConcatWSFrom(Tail(as), parts, sep)
           [] ~ToStr(Head(as)).ok -> EvalErr
           [] OTHER -> ConcatWSFrom(Tail(as), Append(parts, ToStr(Head(as)).s), sep)
BuiltinConcatWS(as) ==
    CASE Head(as) = "null" -> Val("null")
      [] ~ToStr(Head(as)).ok -> EvalErr
      [] OTHER -> ConcatWSFrom(Tail(as), <<>>, ToStr(Head(as)).s)

(* Variable.Eval: a user variable's value, NULL when unset; an unknown    *)
(* system variable is an error; @@name is the session's value when the    *)
(* session has one, else (and @@GLOBAL.name always) the global value.     *)
EvalVariable(p) ==
    CASE ~p.sys -> Val(IF p.name \in DOMAIN UserVars THEN UserVars[p.name] ELSE "null")
      [] p.name \notin DOMAIN SysVars -> EvalErr
      [] ~p.global /\ p.name \in DOMAIN SessionSys -> Val(SessionSys[p.name])
      [] OTHER -> Val(SysVars[p.name])

(* A builtin call on the row's values.                                   *)
EvalBuiltin(p, row) ==
    LET as == [j \in DOMAIN p.args |-> Opnd(p.args[j], row)] IN
    IF p.f = "concat" THEN BuiltinConcat(as) ELSE BuiltinConcatWS(as)

(* r.Expr.Eval(ctx, m) for the predicates modelled.                       *)
EvalPred(p, row) ==
    CASE p.op = "col" -> Val(Opnd(p.e, row))
      [] p.op = "is" -> EvalIsTruth(p, row)
      [] p.op = "fn" -> EvalBuiltin(p, row)
      [] p.op = "var" -> EvalVariable(p)
      [] OTHER -> EvalCase(p, row)

-----------------------------------------------------------------------------
VARIABLES
    from,       \* s.From
    fields,     \* s.Fields
    pred,       \* s.Where.Expr
    hidden,     \* SelectList.HiddenFieldOffset: columns the client sees
    pc,         \* plan, ready, rows, done, failed, planerr, groupby
    fromPlan,   \* the FROM plan's result
    fieldsPlan, \* the plan SelectFieldsRset.Plan picked: none, src, fields, nilsrc
    run,        \* executions of the plan so far
    src,        \* the rows the source produces in this run
    pos,        \* next source row
    out,        \* rows the client received in this run
    infered,    \* SelectFinalPlan.infered
    info,       \* the row the result field info was last inferred from
    stopped     \* the client returned more = false

vars == <<from, fields, pred, hidden, pc, fromPlan, fieldsPlan, run, src, pos, out,
          infered, info, stopped>>

Init ==
    /\ from \in Trees
    /\ fields \in ListsOf[from]
    /\ pred \in Preds
    /\ hidden \in {1, 2}
    /\ pc = "plan"
    /\ fromPlan = Err
    /\ fieldsPlan = "none"
    /\ run = 0 /\ src = <<>> /\ pos = 1 /\ out = <<>>
    /\ infered = FALSE /\ info = <<>> /\ stopped = FALSE

(* SelectStmt.Plan: the FROM plan first; its error is the statement's.    *)
(* Without GROUP BY or aggregate fields the select fields are planned     *)
(* over it; JoinRset.Plan returns a JoinPlan, so the source is never a    *)
(* table plan.  With an aggregate field a GroupByRset plan is built: that *)
(* code is not in the repository and the model stops there ("groupby").  *)
(* The WHERE, lock and final plans cannot fail here.                      *)
PlanFrom ==
    /\ pc = "plan"
    /\ fromPlan' = JoinPlanOf(from)
    /\ CASE fromPlan'.err -> pc' = "planerr" /\ UNCHANGED fieldsPlan
         [] HasAggFields(fields) -> pc' = "groupby" /\ UNCHANGED fieldsPlan
         [] OTHER -> /\ pc' = "ready"
                     /\ fieldsPlan' = SelectFieldsPlan(fields, fromPlan'.fields, FALSE)
    /\ UNCHANGED <<from, fields, pred, hidden, run, src, pos, out, infered, info, stopped>>

RowsOf == UNION {[1..n -> Vals \X OutVals] : n \in 0..MaxRows}

StartDoNoReset ==
    /\ \/ pc = "ready"
       \/ pc \in {"done", "failed"} /\ run < MaxRuns
    /\ run' = run + 1
    /\ src' \in RowsOf
    /\ pc' = "rows" /\ pos' = 1 /\ out' = <<>> /\ stopped' = FALSE
    /\ UNCHANGED <<from, fields, pred, hidden, fromPlan, fieldsPlan, infered, info>>

(* SelectFinalPlan.Do, on the first execution of the plan or a later one: *)
(* infered is reset, then the source is run; its rows may differ from one *)
(* execution to the next.                                                 *)
StartDo ==
    /\ \/ pc = "ready"
       \/ pc \in {"done", "failed"} /\ run < MaxRuns
    /\ run' = run + 1
    /\ src' \in RowsOf
    /\ pc' = "rows" /\ pos' = 1 /\ out' = <<>> /\ stopped' = FALSE
    /\ infered' = FALSE
    /\ UNCHANGED <<from, fields, pred, hidden, fromPlan, fieldsPlan, info>>

(* The columns the client sees: in[0:HiddenFieldOffset], a bool as uint8. *)
Project(row) ==
    [j \in 1..hidden |-> CASE row[j] = "true" -> "u1"
                           [] row[j] = "false" -> "u0"
                           [] OTHER -> row[j]]

(* SelectFinalPlan.Do's callback: project the row, infer the result      *)
(* field info from it when not yet infered, and call the client's f,      *)
(* which asks for more rows or stops.                                     *)
FinalRow(row) ==
    /\ out' = Append(out, Project(row))
    /\ IF infered THEN UNCHANGED <<infered, info>>
       ELSE infered' = TRUE /\ info' = Project(row)
    /\ \/ pos' = pos + 1 /\ UNCHANGED <<pc, stopped>>
       \/ pc' = "done" /\ stopped' = TRUE /\ UNCHANGED pos

Skip == pos' = pos + 1 /\ UNCHANGED <<pc, out, infered, info, stopped>>
Fail == pc' = "failed" /\ UNCHANGED <<pos, out, infered, info, stopped>>

(* FilterDefaultPlan.Do's callback: an evaluation error ends the run; a   *)
(* NULL or false predicate skips the row; ToBool may fail on the value.   *)
FilterRow(row) ==
    LET e == EvalPred(pred, row) IN
    \/ ~e.ok /\ Fail
    \/ e.ok /\ e.v = "null" /\ Skip
    \/ e.ok /\ e.v # "null" /\ ToBoolFails(e.v) /\ Fail
    \/ e.ok /\ e.v # "null" /\ ~ToBoolFails(e.v) /\ ToBoolOf(e.v) = 0 /\ Skip
    \/ e.ok /\ e.v # "null" /\ ~ToBoolFails(e.v) /\ ToBoolOf(e.v) = 1 /\ FinalRow(row)

(* The source hands its next row up the chain: through the filter when    *)
(* the statement has a WHERE, else straight to the final plan.            *)
SourceRow ==
    /\ pc = "rows" /\ pos <= Len(src)
    /\ IF pred.op = "none" THEN FinalRow(src[pos]) ELSE FilterRow(src[pos])
    /\ UNCHANGED <<from, fields, pred, hidden, fromPlan, fieldsPlan, run, src>>

(* The source's Do returns after its last row.                            *)
SourceEnd ==
    /\ pc = "rows" /\ pos > Len(src)
    /\ pc' = "done"
    /\ UNCHANGED <<from, fields, pred, hidden, fromPlan, fieldsPlan, run, src, pos, out,
                   infered, info, stopped>>

Next == PlanFrom \/ StartDo \/ SourceRow \/ SourceEnd

Spec == Init /\ [][Next]_vars

-----------------------------------------------------------------------------
(* The FROM clause by MySQL's rules: its table sources left to right;     *)
(* each must have a name (its AS name, else its table name) no other     *)
(* source has, and no column twice.                                       *)
RECURSIVE JoinLeaves(_)
JoinLeaves(t) ==
    CASE t.kind = "join" -> JoinLeaves(t.left) \o JoinLeaves(t.right)
      [] t.kind = "none" -> <<>>
      [] OTHER -> <<t>>

SourceName(t) == IF t.alias # NoAlias THEN t.alias ELSE t.tbl
SQLFromOK ==
    LET ls == JoinLeaves(from) IN
    /\ \A j \in DOMAIN ls : IsInjective(ls[j].cols)
    /\ IsInjective([j \in DOMAIN ls |-> SourceName(ls[j])])
SQLFromFields ==
    FoldLeft(LAMBDA acc, t : acc \o [j \in DOMAIN t.cols |-> <<SourceName(t), t.cols[j]>>],
             <<>>, JoinLeaves(from))

(* PlanFromSound: planning fails only for a FROM clause MySQL rejects, and *)
(* a FROM plan that was built has the columns of every table source, left *)
(* to right, each under its source's name, however the joins nest.        *)
PlanFromSound ==
    pc # "plan" =>
        /\ fromPlan.err => ~SQLFromOK
        /\ ~fromPlan.err => fromPlan.fields = SQLFromFields

(* The columns a select field names by MySQL's rules: those called c, of  *)
(* the source named q when it is qualified.                               *)
SQLColumns(f, sf) == {j \in DOMAIN sf : sf[j][2] = f.c /\ (f.q = NoAlias \/ sf[j][1] = f.q)}

(* FieldsPlanSound: the select-fields plan hands the source rows to the    *)
(* final plan unprojected only when the select list is the source's       *)
(* columns, each once, in order and under the column's own name, so that  *)
(* skipping the projection changes neither the values nor the names the   *)
(* client sees.                                                           *)
FieldsPlanSound ==
    fieldsPlan = "src" =>
        /\ Len(fields) = Len(fromPlan.fields)
        /\ \A j \in DOMAIN fields :
              /\ fields[j].c # Const
              /\ SQLColumns(fields[j], fromPlan.fields) = {j}
              /\ fields[j].name = fromPlan.fields[j][2]

-----------------------------------------------------------------------------
(* The WHERE clause by MySQL's rules: TRUE is 1, FALSE 0, a string is the *)
(* number its leading digits spell (0 when there are none); a row is kept *)
(* when the predicate is true, that is, not NULL and not 0.               *)
RECURSIVE LeadNonZero(_)
LeadNonZero(s) ==
    LET c == SubSeq(s, 1, 1) IN
    CASE s = "" -> FALSE
      [] c = "0" -> LeadNonZero(SubSeq(s, 2, Len(s)))
      [] c \in {"1", "2", "3", "4", "5", "6", "7", "8", "9"} -> TRUE
      [] OTHER -> FALSE
SQLNum(v) == IF v = "true" \/ LeadNonZero(IF IsGoStr(v) THEN Body(v) ELSE v) THEN 1 ELSE 0
SQLTrue(v) == v # "null" /\ SQLNum(v) = 1
SQLFalse(v) == v # "null" /\ SQLNum(v) = 0

(* CASE: the result of the first WHEN whose condition is true (searched) *)
(* or whose value equals the CASE value (simple; NULL equals nothing).    *)
SQLCase(p, row) ==
    LET t == Opnd(p.val, row)
        Hit(w) == LET e == Opnd(w.e, row) IN
                  IF p.val = "none" THEN SQLTrue(e)
                  ELSE t # "null" /\ e # "null" /\ SQLNum(t) = SQLNum(e)
        hits == {k \in DOMAIN p.whens : Hit(p.whens[k])}
    IN  IF hits # {} THEN Opnd(p.whens[Min(hits)].r, row)
        ELSE IF p.else = "none" THEN "null" ELSE Opnd(p.else, row)

(* The string functions by MySQL's manual: NULL when an argument is NULL  *)
(* (CONCAT_WS: when the separator is; NULL arguments after it are        *)
(* skipped), over the arguments' string forms, TRUE being '1'.             *)
SQLStr(v) == CASE IsGoStr(v) -> Body(v) [] v = "true" -> "1" [] v = "false" -> "0" [] OTHER -> v
SQLBuiltin(p, row) ==
    LET as == [j \in DOMAIN p.args |-> Opnd(p.args[j], row)]
        strs == [j \in DOMAIN as |-> SQLStr(as[j])]
        nonNull == SelectSeq(Tail(as), LAMBDA v : v # "null")
    IN  CASE p.f = "concat_ws" ->
               IF as[1] = "null" THEN "null"
               ELSE GoStr(JoinStr([j \in DOMAIN nonNull |-> SQLStr(nonNull[j])], strs[1]))
          [] "null" \in Range(as) -> "null"
          [] OTHER -> GoStr(FoldLeft(LAMBDA acc, x : acc \o x, "", strs))

(* A variable by MySQL's manual: an unset user variable is NULL; an      *)
(* unknown system variable is an error, which keeps no row; a session     *)
(* starts with the global values, so @@name is the global value unless    *)
(* the session set its own.                                               *)
SQLVariable(p) ==
    CASE ~p.sys -> IF p.name \in DOMAIN UserVars THEN UserVars[p.name] ELSE "null"
      [] p.name \notin DOMAIN SysVars -> "null"
      [] p.global \/ p.name \notin DOMAIN SessionSys -> SysVars[p.name]
      [] OTHER -> SessionSys[p.name]

SQLPred(p, row) ==
    CASE p.op = "none" -> "true"
      [] p.op = "fn" -> SQLBuiltin(p, row)
      [] p.op = "var" -> SQLVariable(p)
      [] p.op = "col" -> Opnd(p.e, row)
      [] p.op = "is" -> LET x == Opnd(p.e, row) IN
                        Bool((IF p.truth = 1 THEN SQLTrue(x) ELSE SQLFalse(x)) # p.not)
      [] OTHER -> SQLCase(p, row)

(* The rows the client should get from the given source rows.            *)
SQLOut(rows) == LET kept == SelectSeq(rows, LAMBDA r : SQLTrue(SQLPred(pred, r)))
                IN  [j \in DOMAIN kept |-> Project(kept[j])]

(* A statement MySQL also rejects on this row: an unknown system          *)
(* variable, or a value of a type with no SQL counterpart ("bad", which   *)
(* ToBool, EQ and ToString reject).                                       *)
SQLFails(p, row) ==
    IF p.op = "var" THEN p.sys /\ p.name \notin DOMAIN SysVars ELSE "bad" \in Range(row)

(* ClientGetsMatchingRows: in every run the client has been handed, in    *)
(* order, exactly the source rows before the current one whose WHERE      *)
(* predicate MySQL finds true (NULL IS NOT TRUE included, a NULL CASE     *)
(* value matching no WHEN, CONCAT of a bool being '1'), the current one   *)
(* too when the client stopped on it; and a run fails only on a row that  *)
(* MySQL rejects as well, never on one it would evaluate.                 *)
ClientGetsMatchingRows ==
    /\ pc \in {"rows", "failed"} \/ (pc = "done" /\ ~stopped) =>
           out = SQLOut(SubSeq(src, 1, pos - 1))
    /\ pc = "done" /\ stopped => out = SQLOut(SubSeq(src, 1, pos))
    /\ pc = "failed" => SQLFails(pred, src[pos])

(* InferredFromFirstRow: once this run has sent a row, the result field  *)
(* info is the one inferred from this run's first row, not from a row of  *)
(* an earlier execution of the prepared statement.                        *)
InferredFromFirstRow == out # <<>> => info = out[1]
=============================================================================
