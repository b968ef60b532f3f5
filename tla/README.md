# TLA+ models of alloydb

This directory holds TLA+ models of alloydb. It covers two areas:

- the transactional key-value core: transactions, the merge iterator and prefix scans;
- the parts of the SQL layer that keep state across rows or steps: `UNION`, the aggregate
  builtins, and the SELECT plan with its WHERE filter and final projection.

Each model is written from the Go source under `src/`. Some parts of the core are called by
that source but are not in this repository snapshot:

- the `Store` (`store/localstore/kv.go`);
- the `UnionStore` (`kv/union_store.go`).

Those parts are modelled from `spec.md` and marked `spec_modelled` in `PROJECT.json`.
`PROJECT.json` also maps each definition to the lines it translates, and lists the hazards and
the runs.

## 1. The system

### Components and the state they keep

| Component | Source | State | Operations |
|---|---|---|---|
| Transaction `dbTxn` | `store/localstore/txn.go` | `valid`, `tID`, `snapshotVals` (the read set), the embedded UnionStore | `Get`, `Set`, `Delete`, `Inc`, `LockKeys`, `Seek`, `Commit` (`doCommit` then `close`), `Rollback`, `markOrigin` |
| Store (not in src) | spec §4.5 | tID counter, lock table (key to tID) | `Begin`, `tryConditionLockKey`, `unLockKeys`, `writeBatch` |
| UnionStore (not in src) | spec §4.3 | dirty overlay, snapshot | `Get`, `Set`, `Delete`, `Seek`, `Close` |
| UnionIter | `kv/union_iter.go` | the two sub-iterators, `dirtyValid`, `snapshotValid`, `curIsDirty`, `isValid` | `newUnionIter`, `updateCur`, `Next`, `Key`, `Value`, `Close` |
| Engine adapter | `store/localstore/goleveldb/goleveldb.go` | leveldb, snapshots, batches | `Get`, `GetSnapshot`, snapshot `Get`/iterators, batch `Commit` |
| Prefix scans | `util/prefix_helper.go` | an iterator while a scan runs | `ScanMetaWithPrefix`, `DelKeyWithPrefix` |
| UNION plan | `plan/plans/union.go`, `rset/rsets/union.go`, `stmt/stmts/union.go` | a temp table of rows seen, the result list | `UnionPlan.Do`; `UnionStmt.Plan` and `UnionRset.Plan` build its input |
| Aggregates | `expression/expressions/builtin_groupby.go` | `ctx[fn]` across the rows of a group, the DISTINCT temp table | `count`, `sum`, `avg`, `max`, `min`, `group_concat`, `isDistinct`, `clear` |
| SELECT plan | `stmt/stmts/select.go`, `rset/rsets/join.go`, `rset/rsets/fields.go`, `rset/rsets/helper.go`, `plan/plans/where.go`, `plan/plans/final.go` | `SelectFinalPlan.infered` across executions | plan building, the row filter, the final projection |
| WHERE expressions | `expression/expressions/istruth.go`, `case.go`, `ident.go`, `builtin_string.go`, `variable.go` | the session's user and system variables (read only) | `IS [NOT] TRUE/FALSE`, `CASE`, identifiers, `LENGTH`, `CONCAT`, `CONCAT_WS`, `@var`, `@@[GLOBAL.]var` |

### How the components interact

**Transactions.** A caller (the SQL layer, `meta.GenID`, the autoid allocator) calls
`Store.Begin`. Then it calls `Get`/`Set`/`Delete`/`Inc`/`LockKeys`/`Seek` on its `dbTxn`, and
ends with `Commit` or `Rollback`.

- The `dbTxn` writes into its UnionStore's dirty overlay. It reads through the overlay to the
  engine snapshot taken at `Begin`.
- `markOrigin` records a key's snapshot value in `snapshotVals`. Only `Inc` and `LockKeys`
  call it.
- `Commit` locks and validates every key of `snapshotVals` in the Store's shared lock table,
  one `tryConditionLockKey` at a time. It writes the overlay in one engine batch. A deferred
  loop then releases the locks listed in `keysLocked`.
- Several transactions run at once. They share only the engine contents and the lock table.

**Scans.** `Seek` builds a `UnionIter` over a dirty iterator and a snapshot iterator.
`ScanMetaWithPrefix` and `DelKeyWithPrefix` walk it.

**UNION.** `UnionPlan.Do` runs each SELECT's plan in turn. It gathers the rows into a list,
using a memkv temp table to drop duplicates on DISTINCT steps. Then it hands the list to the
caller's callback.

**Aggregates.** An aggregate builtin is called by a group-by driver (not in the repository).
The driver calls it once per row, then once with `ExprAggDone`, or once with
`ExprEvalArgAggEmpty` for an empty group.

**SELECT.** `SelectStmt.Plan` builds the plan chain for `SELECT ... FROM ... WHERE`:

1. `JoinRset.Plan` builds the FROM plan;
2. `SelectFieldsRset.Plan` either keeps the source plan or adds a projection;
3. `FilterDefaultPlan` filters the rows;
4. `SelectFinalPlan` projects each row for the client.

Each execution of the plan streams rows through that chain.

## 2. Modules

| Module | Models |
|---|---|
| `KVTxn` | `dbTxn` with the Store, UnionStore and engine calls it makes: `Begin`, `Get`, `Set`, `Delete`, `LockKeys`, `Inc`, `Rollback`, and the commit protocol step by step |
| `MCKVTxn` | model values and client symmetry for `KVTxn` |
| `MergedView` | abstract specification of what a UnionIter promises: a cursor over the logical view |
| `UnionIter` | `newUnionIter`, `updateCur` (a RECURSIVE operator), `Next`, `Close`, `Key`/`Value`; refines `MergedView` |
| `MCUnionIter` | all overlays and snapshots over 4 keys |
| `PrefixScan` | the rest of `dbTxn.Seek`, `ScanMetaWithPrefix` and `DelKeyWithPrefix` over byte-string keys; the iterator is an `INSTANCE` of `UnionIter` |
| `MCPrefixScan` | key spaces and prefixes |
| `UnionPlan` | `UnionPlan.Do` with the temp table's creation, checked against MySQL's UNION |
| `MCUnionPlan` | values and casts |
| `Aggregate` | each row call, the Done call and the empty-group call of the six aggregates, with the DISTINCT temp table and `calculateSum`'s Go types, checked against SQL definitions |
| `MCAggregate` | argument values of several Go types |
| `SelectStmt` | `SelectStmt.Plan` (JoinRset's recursive plan build, the aggregate switch, SelectFieldsRset's plan choice) and repeated executions of the filter and final plans, with `IS TRUTH`, `CASE`, string-builtin and variable predicates |
| `MCSelectStmt` | FROM clauses, select lists, predicates, variables, and `ToBool`, `ToString` and `EQ` |

### KVTxn: how state and actions match the code

**Variables.**

- `db` is the engine contents. `lockOwner` is the Store lock table, where 0 means unlocked.
  `lastTID` is the tID counter.
- Each client has the following variables:
  - `pc`: `idle` (no valid transaction), `active`, `locking` (doCommit's lock loop), or
    `unlocking` (doCommit returned and its deferred unlock loop is still to run);
  - `tid`;
  - `snap`: the snapshot;
  - `dirty`: the overlay, where `Tomb` is the empty delete marker;
  - `readSet`: `snapshotVals`;
  - `toLock`: the read-set keys the lock loop has not tried yet;
  - `keysLocked`.
- History variables:
  - `got`: the keys a client read with `Get` in its current transaction;
  - `incs`: the ids `Inc` returned;
  - `issued`: those ids of transactions whose batch was written.
- The integer n stands for the decimal string `Inc` writes. `DataVals` are non-numeric
  payloads, so `Inc` on such a key takes the `ParseInt` error path.

**Actions.**

- `Get` reads overlay-then-snapshot (`UnionGet`, through the engine's `SnapshotGet`) and
  changes no code state. It only adds the key to `got`.
- `EngineGet` and `GetSnapshot` are the engine adapter's reads used by `Begin` and
  `tryConditionLockKey`.
- An empty `Set` is refused with no change, so it is not an action.

**Caller discipline.** `LockBeforeWrite` means `Set`/`Delete` only on keys that `LockKeys` or
`Inc` has marked. `kv_safety` assumes it. `kv_get_then_write` drops it.

### PrefixScan

- A key is a byte string (a tuple of small numbers), and `BytesCompare` is `bytes.Compare`.
  The ranks of the keys in that order are the keys of the `UnionIter` instance.
- `Init` is the state just after `UnionStore.Seek(EncodeKey(prefix))`.
- `Seek` is the rest of `dbTxn.Seek`. It has four outcomes:
  - an invalid iterator is replaced by an empty one;
  - the empty key's `[:1]` panics. Whether it panics depends on escape analysis, so it is a
    nondeterministic outcome;
  - the first byte matches `hasPrefix(prefix)`, and the iterator is replaced;
  - the real iterator is returned.
- `emptyIter` records a replacement. `leaked` records that the replaced iterator was never
  closed.
- `ScanMetaStep` and `DelKeyStep` are one turn of each loop. The caller's filter may stop the
  scan. `DeleteCollected` is the delete loop. `CloseIter` is the deferred `Close`.

### UnionPlan

- `srcs[k]` are the rows SELECT k produces, and `arity[k]` is its column count. `distincts`
  holds the UNION kinds.
- `UnionStmtPlan` is `UnionStmt.Exec` planning each SELECT (`UnionStmt.Plan`). It either
  fails (`pc = "planerr"`, Exec returns the error) or builds the plan (`pc = "start"`).
- `DoStart` creates the temp table. `FirstRow` and `LaterRow` are the callbacks on a row.
  `LaterRow` does the cast, the DISTINCT check and the store.
- `SrcDone` is a SELECT's `Do` returning. `NextSource` is the loop head, with its
  column-count check. `Emit` is the final callback loop.
- A row is one value. `Cast` maps each value to what `CastValue` yields, or to `CastErr`.

### Aggregate

- `acc` is `ctx[fn]` and `seen` is the DISTINCT temp table.
- `RowCall` dispatches to the per-function row step: `CountRow`, `SumRow`, `AvgRow`,
  `MaxMinRow` or `GroupConcatRow`.
- `DoneCall` returns the function's result (`DoneResult`) and clears the temp table.
- `EmptyCall` returns the empty-group result.
- A value is a record of its Go type and number. `CalculateSum` follows `calculateSum`'s type
  switch, including its error and panic outcomes.

### SelectStmt

**Input state.** `from` is a join tree, `fields` a select list, `pred` the WHERE predicate and
`hidden` the `HiddenFieldOffset`.

**Planning.** `PlanFrom` is `SelectStmt.Plan`. It does three things:

1. It builds the FROM plan with the RECURSIVE `BuildJoinPlan`: duplicate table names are
   rejected, and fields are listed left to right.
2. It stops at `groupby` when `HasAggFields` holds.
3. It picks the select-fields plan (`SelectFieldsPlan`).

`JoinRset.Plan` always returns a `JoinPlan`, so the table-source branch of
`SelectFieldsRset.Plan` (`TableNilPlan`) is unreachable from a SELECT. The model passes `FALSE`
for it.

**Execution.**

- `StartDo` is `SelectFinalPlan.Do` on each execution. It resets `infered` and runs the source
  with fresh rows.
- `SourceRow` passes a row through `FilterRow`, when there is a WHERE, and then `FinalRow`.
- `SourceEnd` is the source's `Do` returning.
- `EvalPred` evaluates a column, `IsTruth.Eval`, `FunctionCase.Eval`, a string builtin or
  `Variable.Eval`.

**Expressions.** A Go string is the value `"'" \o s \o "'"`. The builtins of
`builtin_string.go` that agree with MySQL on every value the run uses are operators with the
same type switch and order of checks:

- `BuiltinConcat` and `BuiltinConcatWS`: RECURSIVE walks over the arguments. The first NULL
  or `ToString` error ends the walk. `CONCAT_WS` skips a NULL after the separator.
- `EvalVariable`: user variables, the session's system variables, and the global ones.

The MySQL reference (`SQLBuiltin`, `SQLVariable`) is written from MySQL's manual. It reads a
string as the number its leading digits spell (`LeadNonZero`).

## 3. Runs

| Run | Config | Checks | Expect |
|---|---|---|---|
| `kv_safety` | `MCKVTxn.cfg` | `TypeOK`, `IdsUnique`, `ValidatedReadsCurrentAtWrite` | pass |
| `kv_lock_leak` | `MCKVTxnLockLeak.cfg` | `NoLockOutlivesCommit` | violation |
| `kv_get_then_write` | `MCKVTxnBlindWrite.cfg` | `ReadWriteConflictDetected` | violation |
| `union_iter` | `MCUnionIter.cfg` | `MergedSpec` (refinement of `MergedView`), `ScanEnds` | pass |
| `prefix_scan` | `MCPrefixScan.cfg` | `ScanSound`, `LoopComplete`, `DelRemovesPrefix` | pass |
| `prefix_one_byte` | `MCPrefixScanShort.cfg` | `ScanComplete` | violation |
| `seek_iter_leak` | `MCPrefixScanLeak.cfg` | `NoIteratorLeak` | violation |
| `union_plan` | `MCUnionPlan.cfg` | `DistinctStepAddsNew`, `NothingLost` | pass |
| `union_sql` | `MCUnionPlanSQL.cfg` | `MatchesSQL` | violation |
| `aggregate` | `MCAggregate.cfg` | `AggregateCorrect` | pass |
| `aggregate_multi_arg` | `MCAggregateMultiArg.cfg` | `AggregateCorrect` | violation |
| `select_stmt` | `MCSelectStmt.cfg` | `PlanFromSound`, `ClientGetsMatchingRows`, `InferredFromFirstRow`, `FieldsPlanSound` | pass |

### What the runs show

**`kv_safety`.** It assumes callers lock before they write, and checks two things:

- commits never hand out an `Inc` id twice (`IdsUnique`);
- every validated key is unchanged when the batch is written
  (`ValidatedReadsCurrentAtWrite`).

**`kv_lock_leak`.** This is a divergence at `txn.go:185-191`. The spec's `tryConditionLockKey`
takes the lock and then compares values. On a mismatch it returns Conflict with the lock still
held. `doCommit` appends a key to `keysLocked` only after a successful call, so that lock is
never released.

**`kv_get_then_write`.** `Get` (`txn.go:114`) and `Set` do not call `markOrigin`. As a result,
a transaction that reads k, sets k and commits overwrites a write to k that another
transaction committed after its snapshot. Spec §8 says it fails with Conflict.

**`union_iter`.** Over every overlay, snapshot and seek key on 4 keys, the iterator refines
`MergedView`: exactly the logical view, ascending, with the right values. A full scan ends.

**`prefix_scan`.** It covers the empty, one-byte and two-byte prefixes.

- A scan never visits a key outside the prefix, twice or out of order (`ScanSound`).
- When `Seek` keeps its iterator, the scan visits every prefix key (`LoopComplete`).
- `DelKeyWithPrefix` leaves no key with the prefix (`DelRemovesPrefix`).

**`prefix_one_byte`.** `Seek` applies `fnKeyCmp` to the first byte only. With a one-byte
prefix, it returns an empty iterator exactly when a matching key exists.

**`seek_iter_leak`.** When `Seek` replaces the iterator, the one `UnionStore.Seek` built is
never closed.

**`union_plan`.** A row that a DISTINCT step adds repeats no row before it, including rows of
the first SELECT and of ALL steps. A complete `Do` loses no value.

**`union_sql`.** The code keeps duplicates of the first SELECT, and of ALL steps left of a
DISTINCT one. MySQL's UNION removes them.

**`aggregate`.** Over groups of one Go type, each function, with and without DISTINCT, returns
the SQL result. NULLs are ignored.

**`aggregate_multi_arg`.** `builtinCount` tests only `args[0]` for NULL, so
`COUNT(DISTINCT a, b)` counts rows whose b is NULL.

**`select_stmt`.** The statement is run twice as a prepared statement.

- The FROM plan is rejected exactly when two sources share a name. Otherwise its fields are
  the sources' columns in order (`PlanFromSound`).
- The projection is skipped only for a select list that names exactly the source's columns,
  in order and under their own names (`FieldsPlanSound`).
- The client gets exactly the rows whose predicate is SQL-true, projected
  (`ClientGetsMatchingRows`). The predicates include `CONCAT`, `CONCAT_WS` and variables,
  and they are compared with MySQL's manual. A run that stops or fails has sent exactly the
  matching rows before that point. It may fail only on a row MySQL rejects too: a value of a
  type `ToBool` and `ToString` reject, or an unknown system variable.
- The result field info comes from the current execution's first row
  (`InferredFromFirstRow`).

## 4. Bounds

**KVTxn.**

- 2 clients, since two concurrent transactions is the least that can conflict.
- 3 transactions (`MaxTxns`): the third lets a client retry after a conflict, which is how the
  leaked lock bites.
- One counter key, one data key and one payload; `Inc` step 1 and counter values up to 2
  (`MaxCounter`).
- Clients are symmetric, and tIDs are numbers.
- `kv_safety` reaches about 4.2 million distinct states in about a minute.

**UnionIter.** Every overlay (value, tombstone or absent per key), every snapshot over 4 keys,
and every seek key. That is 5184 inputs, and they cover each branch of `updateCur` in every
order.

**PrefixScan.** Six keys of zero to three bytes are placed around the prefixes: the empty key,
a key before the prefix, the prefix itself, a longer key under it, and keys after it. Every
overlay and snapshot over them is an initial state. One prefix lies past every key.

**UnionPlan.**

- 2 or 3 SELECTs of up to 2 rows each, with column counts 1 or 2.
- The values include one that casts to another (`strOne` to `one`) and one that fails to cast.
- All DISTINCT/ALL combinations are checked.

**Aggregate.**

- Groups of up to 3 rows over int, float, numeric-string and non-numeric values, with NULL.
- The multi-argument run uses up to 2 rows of 2 arguments.

**SelectStmt.**

- 9 FROM clauses: lone tables, joins, self-joins with and without aliases, nested derived
  tables, and a derived table with a repeated column.
- Select lists:
  - for `FROM t`, six lists: the columns in order, a prefix of them, a renamed column, a
    qualified name, a constant and an aggregate;
  - for the other clauses, lists that ResolveSelectList accepts.
- 17 predicates: 10 `IS`/`CASE`/column predicates, 2 builtin calls and 4 variables (a user
  variable, a system variable the session set, its `@@GLOBAL.` form and an unknown one).
- Column values: NULL, 0, 1, TRUE, FALSE, a value `ToBool` rejects, and the strings `'a'`
  and `'1'`. `'1'` is the numeric string that is true, and `CONCAT(c1, c2)` of TRUE is `'11'`.
- Up to 2 rows per execution, and 2 executions. The run reaches about 1.5 million distinct
  states in about 70 s.

## 5. Fairness

- **KVTxn:** no fairness. Callers may stop at any time. `CHECK_DEADLOCK FALSE` is set because a state where every client has stopped
  calling is a real state.
- **UnionIter:** weak fairness on `Next` stands for a caller that scans to the end, as
  `DelKeyWithPrefix` does. `Close` is left unfair.
- **Other modules:** no fairness. Their runs check invariants and action properties. A
  finished call is a final state, so deadlock is not checked.

## 6. Not modelled

- **ShowPlan's callback result** (`plan/plans/show.go`): `Do` ignores the `more`/`err` that
  the row callback returns and keeps sending rows. The rows come from `infoschema`, which is
  not in `src`. The hazard is listed without a run.

- **Codec** (`util/codec`, not in `src`): pure key formatting. The scans are modelled over
  byte strings, whose order the codec is said to preserve.
- **Operations on a closed transaction.** Each one returns an error and changes nothing.
- **Crashes.** The lock table is in memory and the engine batch is atomic. No step between them
  persists anything else.
- **`types.ToBool`, `types.ToString` and the `EQ` BinaryOperation.** They are not in the
  repository. They are constants of `SelectStmt`, given MySQL's meaning on the values used.
- **ResolveSelectList, the GroupBy/Having/OrderBy/Limit/Distinct plans and the projection
  plan's `Do`.** They are not in the repository. Only select lists that ResolveSelectList
  accepts are enumerated.
  - Whether an unqualified name that two joined tables share is rejected is therefore unknown.
  - `SelectFieldsRset.Plan`'s name-only shortcut (`fields.go:47`) would treat such a name as
    the source column.
- **`DistinctRset`, `USE`, `ALTER TABLE`:** plan constructors and calls into DDL code that is
  not in the repository.
- **Time builtins, `CONVERT`, `DEFAULT`.** The time builtins delegate to the `mysql` time
  package, and `CONVERT` to iconv; neither is in the repository. `DEFAULT` reads the
  insert's argument map. - **`LENGTH`, `LEFT`, `REPEAT`.** They fail or differ from MySQL on arguments that are not Go
  strings, so the strict `select_stmt` run cannot include them; a violation run of their own
  would need a run slot. `CONCAT`, `CONCAT_WS` and variables are modelled (see SelectStmt).
  These differences from MySQL are listed as hazards:
  - `LEFT(NULL, n)` returns an error;
  - `REPEAT(NULL, n)` returns the text `<nil>`, and `REPEAT(TRUE, n)` repeats `true`;
  - `REPEAT(s, '2')` returns the empty string;
  - `LENGTH` of a number returns an error;
  - `CONVERT` of a non-string returns NULL.
- **SHOW and information_schema output (`show.go`, `info.go`), error texts (`mysqldef`), and
  `util/mock`:** formatting and test scaffolding.
