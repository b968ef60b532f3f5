------------------------------ MODULE UnionPlan ------------------------------
(***************************************************************************)
(* plans.UnionPlan.Do (plan/plans/union.go): evaluate the SELECTs of a     *)
(* UNION from left to right into a list of rows, using a temp table of    *)
(* the rows seen to drop duplicates on DISTINCT steps, then hand the rows *)
(* to the caller's callback.  A row is abstracted to one value; the       *)
(* column count of each SELECT is kept apart.  Rows of the later SELECTs  *)
(* are cast to the first SELECT's column types: Cast maps a value to the  *)
(* value it casts to, or to CastErr.                                      *)
(***************************************************************************)
EXTENDS Integers, Sequences, SequencesExt, Bags

CONSTANTS
    FirstVals,  \* values the first SELECT produces (already of its types)
    Vals,       \* values the later SELECTs produce
    Cast,       \* [Vals -> FirstVals \cup {CastErr}]: Col.CastValue
    CastErr,
    Arities,    \* column counts a later SELECT may have
    MaxSrcs,    \* number of SELECTs
    MaxRows     \* rows per SELECT

VARIABLES
    srcs,       \* srcs[k]: the rows SELECT k produces
    arity,      \* arity[k]: len(src.GetFields())
    distincts,  \* distincts[i]: the i-th UNION is DISTINCT (between k=i and i+1)
    pc,         \* plan, planerr, start, first, later, next, emit, done
    i,          \* the loop index over distincts: the later SELECT i + 1 is being
                \* evaluated, or the last one evaluated
    pos,        \* next row of the current SELECT, or of rows while emitting
    temp,       \* the temp table: set of rows stored
    rows,       \* the final result: <<[v, step]>>; step 0 is the first SELECT
    out,        \* rows handed to the callback f
    ret,        \* Do's return value once done: "nil" or "err"
    failed,     \* some callback returned an error
    stopped     \* f returned more = false

vars == <<srcs, arity, distincts, pc, i, pos, temp, rows, out, ret, failed, stopped>>
input == <<srcs, arity, distincts>>

RowsOf(S) == UNION {[1..n -> S] : n \in 0..MaxRows}

(* A UnionStmt of two or more SELECTs, as the parser builds it.           *)
Init ==
    /\ \E n \in 2..MaxSrcs :
        \E first \in RowsOf(FirstVals), rest \in [1..n - 1 -> RowsOf(Vals)] :
          /\ srcs = <<first>> \o rest
          /\ arity \in {a \in [1..n -> Arities] : a[1] = 1}
          /\ distincts \in [1..n - 1 -> BOOLEAN]
    /\ pc = "plan" /\ i = 0 /\ pos = 1
    /\ temp = {} /\ rows = <<>> /\ out = <<>>
    /\ ret = "none" /\ failed = FALSE /\ stopped = FALSE

(* UnionStmt.Exec runs UnionStmt.Plan: each SELECT's Plan in turn; the   *)
(* first one that fails ends Exec with its error and no UnionPlan is      *)
(* built.  Otherwise UnionRset.Plan wraps the plans and Distincts into a  *)
(* UnionPlan, and the recordset later calls its Do.                       *)
UnionStmtPlan ==
    /\ pc = "plan"
    /\ pc' \in {"start", "planerr"}
    /\ UNCHANGED <<input, i, pos, temp, rows, out, ret, failed, stopped>>

(* Do's start: with SELECTs to evaluate, create the temp table (a fresh,  *)
(* empty memkv table; CreateTemp and the deferred Drop do not fail).      *)
DoStart ==
    /\ pc = "start"
    /\ Len(srcs) > 0
    /\ temp' = {}
    /\ pc' = "first"
    /\ UNCHANGED <<input, i, pos, rows, out, ret, failed, stopped>>

(* The SELECT being evaluated: 1 while pc = "first", i + 1 after.        *)
Cur == IF pc = "first" THEN 1 ELSE i + 1

(* The callback on a row of the first SELECT: append it, store it.        *)
FirstRow ==
    /\ pc = "first" /\ pos <= Len(srcs[1])
    /\ rows' = Append(rows, [v |-> srcs[1][pos], step |-> 0])
    /\ temp' = temp \cup {srcs[1][pos]}
    /\ pos' = pos + 1
    /\ UNCHANGED <<input, pc, i, out, ret, failed, stopped>>

LaterRowStoreOnlyDistinct ==
    /\ pc = "later" /\ pos <= Len(srcs[i + 1])
    /\ LET c == Cast[srcs[i + 1][pos]] IN
       \/ /\ c = CastErr
          /\ pc' = "next" /\ failed' = TRUE
          /\ UNCHANGED <<i, pos, temp, rows>>
       \/ /\ c # CastErr /\ distincts[i] /\ c \in temp
          /\ pos' = pos + 1
          /\ UNCHANGED <<pc, i, temp, rows, failed>>
       \/ /\ c # CastErr /\ ~(distincts[i] /\ c \in temp)
          /\ rows' = Append(rows, [v |-> c, step |-> i])
          /\ temp' = IF distincts[i] THEN temp \cup {c} ELSE temp
          /\ pos' = pos + 1
          /\ UNCHANGED <<pc, i, failed>>
    /\ UNCHANGED <<input, out, ret, stopped>>

(* The callback on a row of a later SELECT: cast it; on a DISTINCT step   *)
(* drop it when the temp table has it; else append and store it.  A cast  *)
(* error makes the callback return it, which ends src.Do; the error src.Do *)
(* returns is not looked at.                                              *)
LaterRow ==
    /\ pc = "later" /\ pos <= Len(srcs[i + 1])
    /\ LET c == Cast[srcs[i + 1][pos]] IN
       \/ /\ c = CastErr
          /\ pc' = "next" /\ failed' = TRUE
          /\ UNCHANGED <<i, pos, temp, rows>>
       \/ /\ c # CastErr /\ distincts[i] /\ c \in temp
          /\ pos' = pos + 1
          /\ UNCHANGED <<pc, i, temp, rows, failed>>
       \/ /\ c # CastErr /\ ~(distincts[i] /\ c \in temp)
          /\ rows' = Append(rows, [v |-> c, step |-> i])
          /\ temp' = temp \cup {c}
          /\ pos' = pos + 1
          /\ UNCHANGED <<pc, i, failed>>
    /\ UNCHANGED <<input, out, ret, stopped>>

(* src.Do returns after its last row.                                     *)
SrcDone ==
    /\ pc \in {"first", "later"} /\ pos > Len(srcs[Cur])
    /\ pc' = "next"
    /\ UNCHANGED <<input, i, pos, temp, rows, out, ret, failed, stopped>>

NextSourceSkipLast ==
    /\ pc = "next"
    /\ \/ /\ i + 1 >= Len(distincts)
          /\ pc' = "emit" /\ pos' = 1
          /\ UNCHANGED <<i, ret>>
       \/ /\ i + 1 < Len(distincts) /\ arity[i + 2] # arity[1]
          /\ pc' = "done" /\ ret' = "err"
          /\ UNCHANGED <<i, pos>>
       \/ /\ i + 1 < Len(distincts) /\ arity[i + 2] = arity[1]
          /\ pc' = "later" /\ pos' = 1 /\ i' = i + 1
          /\ UNCHANGED ret
    /\ UNCHANGED <<input, temp, rows, out, failed, stopped>>

(* The head of the loop over p.Distincts: past the last SELECT go on to   *)
(* emit; a SELECT with another column count makes Do return an error.    *)
NextSource ==
    /\ pc = "next"
    /\ \/ /\ i + 1 > Len(distincts)
          /\ pc' = "emit" /\ pos' = 1
          /\ UNCHANGED <<i, ret>>
       \/ /\ i + 1 <= Len(distincts) /\ arity[i + 2] # arity[1]
          /\ pc' = "done" /\ ret' = "err"
          /\ UNCHANGED <<i, pos>>
       \/ /\ i + 1 <= Len(distincts) /\ arity[i + 2] = arity[1]
          /\ pc' = "later" /\ pos' = 1 /\ i' = i + 1
          /\ UNCHANGED ret
    /\ UNCHANGED <<input, temp, rows, out, failed, stopped>>

(* The final loop: f(nil, row) for each row until it returns more = false *)
(* or an error; Do returns nil either way.                                *)
Emit ==
    /\ pc = "emit"
    /\ \/ /\ pos <= Len(rows)
          /\ out' = Append(out, rows[pos].v)
          /\ \/ /\ pos' = pos + 1
                /\ UNCHANGED <<pc, ret, failed, stopped>>
             \/ /\ pc' = "done" /\ ret' = "nil" /\ stopped' = TRUE
                /\ UNCHANGED <<pos, failed>>
             \/ /\ pc' = "done" /\ ret' = "nil" /\ failed' = TRUE
                /\ UNCHANGED <<pos, stopped>>
       \/ /\ pos > Len(rows)
          /\ pc' = "done" /\ ret' = "nil"
          /\ UNCHANGED <<pos, out, failed, stopped>>
    /\ UNCHANGED <<input, i, temp, rows>>

Next == UnionStmtPlan \/ DoStart \/ FirstRow \/ LaterRow \/ SrcDone \/ NextSource \/ Emit

Spec == Init /\ [][Next]_vars

-----------------------------------------------------------------------------
(* The SELECT results as the union sees them: later ones cast.            *)
Cast1(k, v) == IF k = 1 THEN v ELSE Cast[v]
Src(k) == [j \in DOMAIN srcs[k] |-> Cast1(k, srcs[k][j])]

(* MySQL's UNION (the page UnionStmt cites): a DISTINCT union removes     *)
(* duplicates from everything to its left, overriding ALL unions there;   *)
(* the SELECTs after the last DISTINCT union add their rows as they are.  *)
LastDistinct == IF \E j \in DOMAIN distincts : distincts[j]
                THEN CHOOSE j \in DOMAIN distincts :
                        distincts[j] /\ \A l \in DOMAIN distincts : distincts[l] => l <= j
                ELSE 0
Cat(ks) == FoldLeft(LAMBDA acc, k : acc \o Src(k), <<>>, ks)
SetBag(S) == [x \in S |-> 1]
SQLUnion ==
    LET head == Cat([j \in 1..LastDistinct + 1 |-> j])
        tail == Cat([j \in 1..(Len(srcs) - LastDistinct - 1) |-> LastDistinct + 1 + j])
    IN  (IF LastDistinct = 0 THEN ToBag(head) ELSE SetBag(ToSet(head))) (+) ToBag(tail)

(* Do finished normally: no callback failed and f took every row.         *)
Complete == pc = "done" /\ ret = "nil" /\ ~failed /\ ~stopped

(* DistinctStepAddsNew: a row a DISTINCT step adds equals no row listed   *)
(* before it, whether that row came from the first SELECT, an ALL step or *)
(* a DISTINCT step (the temp table must hold every row listed).           *)
DistinctStepAddsNew ==
    \A b \in DOMAIN rows :
        rows[b].step > 0 /\ distincts[rows[b].step] =>
            \A a \in 1..b - 1 : rows[a].v # rows[b].v

(* NothingLost: a complete Do hands f every value some SELECT produced.   *)
NothingLost ==
    Complete => ToSet(out) = UNION {ToSet(Src(k)) : k \in DOMAIN srcs}

(* MatchesSQL: a complete Do hands f the rows MySQL's UNION returns.      *)
MatchesSQL == Complete => ToBag(out) = SQLUnion
=============================================================================
