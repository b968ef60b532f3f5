-------------------------------- MODULE KVTxn --------------------------------
(***************************************************************************)
(* Optimistic transactions of the local store (store/localstore/txn.go),  *)
(* together with the parts of the Store (tID counter, lock table, engine  *)
(* handle) and of the UnionStore (dirty overlay over a snapshot) that a   *)
(* dbTxn calls.  Several clients each drive one transaction at a time;    *)
(* the only shared state is the engine contents and the lock table.       *)
(*                                                                         *)
(* A stored value is non-empty: an integer n stands for the decimal       *)
(* string strconv.FormatInt(n, 10) that Inc writes, a member of DataVals  *)
(* for a non-numeric payload given to Set.  Tomb is the empty value the   *)
(* overlay keeps for a deleted key; NoVal is "not found" (nil).           *)
(***************************************************************************)
EXTENDS Integers, FiniteSets

CONSTANTS
    Clients,          \* callers, each using one dbTxn at a time
    CounterKeys,      \* keys only used through Inc and LockKeys (id allocators)
    DataKeys,         \* keys also written with Set and Delete
    DataVals,         \* non-empty, non-numeric payloads passed to Set
    Steps,            \* steps passed to Inc (the allocator rejects 0)
    MaxCounter,       \* bound: largest value an Inc may produce
    MaxTxns,          \* bound: number of transactions Store.Begin may issue
    LockBeforeWrite,  \* caller discipline: Set/Delete only keys in the read set
    NoVal, Tomb, NotMarked

ASSUME /\ CounterKeys \cap DataKeys = {}
       /\ Steps \subseteq 1..MaxCounter
       /\ MaxTxns \in Nat \ {0}
       /\ LockBeforeWrite \in BOOLEAN

Keys == CounterKeys \cup DataKeys
Vals == (1..MaxCounter) \cup DataVals
NoOwner == 0                 \* tIDs start at 1; 0 marks an unlocked key
TIDs == 1..MaxTxns

VARIABLES
    db,          \* engine contents: key -> value or NoVal
    lockOwner,   \* Store lock table: key -> owning tID or NoOwner
    lastTID,     \* Store tID counter
    pc,          \* per client: idle (no valid txn), active, locking, unlocking
    tid,         \* per client: tID of its transaction
    snap,        \* per client: engine snapshot taken at Begin
    dirty,       \* per client: UnionStore dirty overlay, key -> value, Tomb or NoVal
    readSet,     \* per client: dbTxn.snapshotVals, key -> value, NoVal or NotMarked
    toLock,      \* per client: read-set keys doCommit has not tried to lock yet
    keysLocked,  \* per client: doCommit's keysLocked list
    incs,        \* history: <<key, id>> returned by Inc on a counter key in the current txn
    issued,      \* history: <<key, id, tID>> returned by Inc in committed txns
    got          \* history: per client, keys read with Get in its current txn

vars == <<db, lockOwner, lastTID, pc, tid, snap, dirty, readSet,
          toLock, keysLocked, incs, issued, got>>

TypeOK ==
    /\ db \in [Keys -> Vals \cup {NoVal}]
    /\ lockOwner \in [Keys -> TIDs \cup {NoOwner}]
    /\ lastTID \in 0..MaxTxns
    /\ pc \in [Clients -> {"idle", "active", "locking", "unlocking"}]
    /\ tid \in [Clients -> 0..MaxTxns]
    /\ snap \in [Clients -> [Keys -> Vals \cup {NoVal}]]
    /\ dirty \in [Clients -> [Keys -> Vals \cup {Tomb, NoVal}]]
    /\ readSet \in [Clients -> [Keys -> Vals \cup {NoVal, NotMarked}]]
    /\ toLock \in [Clients -> SUBSET Keys]
    /\ keysLocked \in [Clients -> SUBSET Keys]
    /\ incs \in [Clients -> SUBSET (CounterKeys \X (1..MaxCounter))]
    /\ issued \subseteq CounterKeys \X (1..MaxCounter) \X TIDs
    /\ got \in [Clients -> SUBSET Keys]

EmptyOverlay == [k \in Keys |-> NoVal]
EmptyReadSet == [k \in Keys |-> NotMarked]

Init ==
    /\ db = [k \in Keys |-> NoVal]
    /\ lockOwner = [k \in Keys |-> NoOwner]
    /\ lastTID = 0
    /\ pc = [c \in Clients |-> "idle"]
    /\ tid = [c \in Clients |-> 0]
    /\ snap = [c \in Clients |-> [k \in Keys |-> NoVal]]
    /\ dirty = [c \in Clients |-> EmptyOverlay]
    /\ readSet = [c \in Clients |-> EmptyReadSet]
    /\ toLock = [c \in Clients |-> {}]
    /\ keysLocked = [c \in Clients |-> {}]
    /\ incs = [c \in Clients |-> {}]
    /\ issued = {}
    /\ got = [c \in Clients |-> {}]

-----------------------------------------------------------------------------
(* The engine adapter's reads: db.Get on the live contents and            *)
(* snapshot.Get on a snapshot, each mapping leveldb.ErrNotFound to nil,   *)
(* and db.GetSnapshot, a copy of the contents at this point.              *)
EngineGet(k) == db[k]
SnapshotGet(c, k) == snap[c][k]
GetSnapshot == db

(* UnionStore.Get: the overlay first (a tombstone is not-found), else the  *)
(* snapshot.                                                               *)
UnionGet(c, k) ==
    IF dirty[c][k] = NoVal THEN SnapshotGet(c, k)
    ELSE IF dirty[c][k] = Tomb THEN NoVal
    ELSE dirty[c][k]

(* markOrigin: the first touch of k records its snapshot value.           *)
MarkOrigin(c, k) ==
    IF readSet[c][k] = NotMarked
    THEN [readSet[c] EXCEPT ![k] = SnapshotGet(c, k)]
    ELSE readSet[c]

(* The keys doCommit validates: the domain of snapshotVals.               *)
ReadKeys(c) == {k \in Keys : readSet[c][k] # NotMarked}

ApplyBatchPutAll(c) ==
    [k \in Keys |-> IF dirty[c][k] = NoVal THEN db[k] ELSE dirty[c][k]]

(* The dirty overlay staged into one batch (tombstone => Delete, else Put) *)
(* and applied by the engine in a single write.                           *)
ApplyBatch(c) ==
    [k \in Keys |-> IF dirty[c][k] = NoVal THEN db[k]
                    ELSE IF dirty[c][k] = Tomb THEN NoVal
                    ELSE dirty[c][k]]

(* Store.tryConditionLockKey: take the lock if it is free or ours, then   *)
(* compare the current value with the expected one.  A lock held by       *)
(* another tID, or a mismatch, is a conflict; a lock taken stays taken.   *)
TryConditionLockKeyNoOwnerCheck(t, k, expected) ==
    [owner |-> [lockOwner EXCEPT ![k] = t],
     ok    |-> db[k] = expected]

TryConditionLockKey(t, k, expected) ==
    LET free == lockOwner[k] \in {NoOwner, t}
    IN  [owner |-> IF free THEN [lockOwner EXCEPT ![k] = t] ELSE lockOwner,
         ok    |-> free /\ EngineGet(k) = expected]

-----------------------------------------------------------------------------
(* Store.Begin: a fresh tID, a snapshot of the engine, an empty overlay.   *)
Begin(c) ==
    /\ pc[c] = "idle"
    /\ lastTID < MaxTxns
    /\ lastTID' = lastTID + 1
    /\ tid' = [tid EXCEPT ![c] = lastTID + 1]
    /\ snap' = [snap EXCEPT ![c] = GetSnapshot]
    /\ pc' = [pc EXCEPT ![c] = "active"]
    /\ UNCHANGED <<db, lockOwner, dirty, readSet, toLock, keysLocked, incs, issued, got>>

(* Writes are allowed on a key the caller has marked, or on any key when  *)
(* callers do not follow the lock-before-write discipline.               *)
MayWrite(c, k) == ~LockBeforeWrite \/ readSet[c][k] # NotMarked

(* dbTxn.Set with a non-empty value (an empty one is refused unchanged).  *)
Set(c, k, v) ==
    /\ pc[c] = "active"
    /\ MayWrite(c, k)
    /\ dirty' = [dirty EXCEPT ![c][k] = v]
    /\ UNCHANGED <<db, lockOwner, lastTID, pc, tid, snap, readSet, toLock,
                   keysLocked, incs, issued, got>>

(* dbTxn.Delete: a tombstone in the overlay, whether or not k exists.      *)
Delete(c, k) ==
    /\ pc[c] = "active"
    /\ MayWrite(c, k)
    /\ dirty' = [dirty EXCEPT ![c][k] = Tomb]
    /\ UNCHANGED <<db, lockOwner, lastTID, pc, tid, snap, readSet, toLock,
                   keysLocked, incs, issued, got>>

(* dbTxn.Get: read k through the UnionStore (not-found and the empty     *)
(* value are ErrNotExist).  It does not call markOrigin, so k joins no    *)
(* read set; got records that the caller saw its value.                  *)
Get(c, k) ==
    /\ pc[c] = "active"
    /\ got' = [got EXCEPT ![c] = @ \cup {k}]
    /\ UNCHANGED <<db, lockOwner, lastTID, pc, tid, snap, dirty, readSet, toLock,
                   keysLocked, incs, issued>>

(* dbTxn.LockKeys: markOrigin on every key, no other effect.              *)
LockKeys(c, ks) ==
    /\ pc[c] = "active"
    /\ readSet' = [readSet EXCEPT ![c] =
                     [k \in Keys |-> IF k \in ks /\ @[k] = NotMarked
                                     THEN SnapshotGet(c, k) ELSE @[k]]]
    /\ UNCHANGED <<db, lockOwner, lastTID, pc, tid, snap, dirty, toLock,
                   keysLocked, incs, issued, got>>

(* The read-modify-write of Inc once the read set is settled: absent =>   *)
(* write step; a number => write number + step; anything else => the     *)
(* parse error, with nothing written.                                     *)
IncWrite(c, k, step, rs) ==
    LET val == UnionGet(c, k)
        new == IF val = NoVal THEN step ELSE val + step
    IN  \/ /\ val \notin DataVals
           /\ new <= MaxCounter
           /\ dirty' = [dirty EXCEPT ![c][k] = new]
           /\ incs' = [incs EXCEPT ![c] =
                          IF k \in CounterKeys THEN @ \cup {<<k, new>>} ELSE @]
           /\ readSet' = [readSet EXCEPT ![c] = rs]
        \/ /\ val \in DataVals
           /\ readSet' = [readSet EXCEPT ![c] = rs]
           /\ UNCHANGED <<dirty, incs>>

IncNoMark(c, k, step) ==
    /\ pc[c] = "active"
    /\ IncWrite(c, k, step, readSet[c])
    /\ UNCHANGED <<db, lockOwner, lastTID, pc, tid, snap, toLock, keysLocked, issued, got>>

(* dbTxn.Inc: markOrigin(k) first, then read through the UnionStore.      *)
Inc(c, k, step) ==
    /\ pc[c] = "active"
    /\ IncWrite(c, k, step, MarkOrigin(c, k))
    /\ UNCHANGED <<db, lockOwner, lastTID, pc, tid, snap, toLock, keysLocked, issued, got>>

(* dbTxn.close, shared by Commit (deferred) and Rollback: the UnionStore  *)
(* drops its overlay and releases its snapshot.                           *)
Close(c) ==
    /\ pc' = [pc EXCEPT ![c] = "idle"]
    /\ snap' = [snap EXCEPT ![c] = [k \in Keys |-> NoVal]]
    /\ dirty' = [dirty EXCEPT ![c] = EmptyOverlay]
    /\ readSet' = [readSet EXCEPT ![c] = EmptyReadSet]
    /\ incs' = [incs EXCEPT ![c] = {}]
    /\ got' = [got EXCEPT ![c] = {}]

(* dbTxn.Rollback on a valid transaction: close, no engine I/O.           *)
Rollback(c) ==
    /\ pc[c] = "active"
    /\ Close(c)
    /\ UNCHANGED <<db, lockOwner, lastTID, tid, toLock, keysLocked, issued>>

(* dbTxn.Commit on a valid transaction enters doCommit, which will try to *)
(* lock every key of snapshotVals, in Go's map order (any order).         *)
CommitStart(c) ==
    /\ pc[c] = "active"
    /\ pc' = [pc EXCEPT ![c] = "locking"]
    /\ toLock' = [toLock EXCEPT ![c] = ReadKeys(c)]
    /\ keysLocked' = [keysLocked EXCEPT ![c] = {}]
    /\ UNCHANGED <<db, lockOwner, lastTID, tid, snap, dirty, readSet, incs, issued, got>>

CommitLockKeyIgnoreErr(c, k) ==
    /\ pc[c] = "locking"
    /\ k \in toLock[c]
    /\ lockOwner' = TryConditionLockKey(tid[c], k, readSet[c][k]).owner
    /\ toLock' = [toLock EXCEPT ![c] = @ \ {k}]
    /\ keysLocked' = [keysLocked EXCEPT ![c] = @ \cup {k}]
    /\ UNCHANGED <<db, lastTID, pc, tid, snap, dirty, readSet, incs, issued, got>>

(* One iteration of doCommit's lock loop.  On success the key joins       *)
(* keysLocked; on a conflict doCommit returns, and only keysLocked is     *)
(* released by the deferred unlock loop.                                  *)
CommitLockKey(c, k) ==
    /\ pc[c] = "locking"
    /\ k \in toLock[c]
    /\ LET r == TryConditionLockKey(tid[c], k, readSet[c][k])
       IN  /\ lockOwner' = r.owner
           /\ toLock' = [toLock EXCEPT ![c] = @ \ {k}]
           /\ IF r.ok
              THEN /\ keysLocked' = [keysLocked EXCEPT ![c] = @ \cup {k}]
                   /\ UNCHANGED pc
              ELSE /\ pc' = [pc EXCEPT ![c] = "unlocking"]
                   /\ UNCHANGED keysLocked
    /\ UNCHANGED <<db, lastTID, tid, snap, dirty, readSet, incs, issued, got>>

(* All read-set keys validated: the overlay is written in one batch.      *)
CommitWrite(c) ==
    /\ pc[c] = "locking"
    /\ toLock[c] = {}
    /\ db' = ApplyBatch(c)
    /\ issued' = issued \cup {<<x[1], x[2], tid[c]>> : x \in incs[c]}
    /\ pc' = [pc EXCEPT ![c] = "unlocking"]
    /\ UNCHANGED <<lockOwner, lastTID, tid, snap, dirty, readSet, toLock,
                   keysLocked, incs, got>>

(* The engine write fails (I/O error): the batch is not applied.          *)
CommitWriteFail(c) ==
    /\ pc[c] = "locking"
    /\ toLock[c] = {}
    /\ pc' = [pc EXCEPT ![c] = "unlocking"]
    /\ UNCHANGED <<db, lockOwner, lastTID, tid, snap, dirty, readSet, toLock,
                   keysLocked, incs, issued, got>>

(* Store.unLockKeys for one key of keysLocked (doCommit's deferred loop). *)
UnLockKeysKeep(c, k) ==
    /\ pc[c] = "unlocking"
    /\ k \in keysLocked[c]
    /\ lockOwner' = [lockOwner EXCEPT ![k] = NoOwner]
    /\ UNCHANGED <<db, lastTID, pc, tid, snap, dirty, readSet, toLock,
                   keysLocked, incs, issued, got>>

UnLockKeys(c, k) ==
    /\ pc[c] = "unlocking"
    /\ k \in keysLocked[c]
    /\ lockOwner' = [lockOwner EXCEPT ![k] = NoOwner]
    /\ keysLocked' = [keysLocked EXCEPT ![c] = @ \ {k}]
    /\ UNCHANGED <<db, lastTID, pc, tid, snap, dirty, readSet, toLock, incs, issued, got>>

(* Commit's deferred close once doCommit has returned.                    *)
CommitClose(c) ==
    /\ pc[c] = "unlocking"
    /\ keysLocked[c] = {}
    /\ Close(c)
    /\ toLock' = [toLock EXCEPT ![c] = {}]
    /\ UNCHANGED <<db, lockOwner, lastTID, tid, keysLocked, issued>>

-----------------------------------------------------------------------------
(* The steps of Commit after it is called: they run without waiting.      *)
CommitStep(c) ==
    \/ \E k \in Keys : CommitLockKey(c, k)
    \/ CommitWrite(c)
    \/ CommitWriteFail(c)
    \/ \E k \in Keys : UnLockKeys(c, k)
    \/ CommitClose(c)

(* The calls a caller may make on its transaction.                        *)
ClientCall(c) ==
    \/ Begin(c)
    \/ \E k \in DataKeys, v \in DataVals : Set(c, k, v)
    \/ \E k \in DataKeys : Delete(c, k)
    \/ \E k \in DataKeys : Get(c, k)
    \/ \E ks \in SUBSET Keys \ {{}} : LockKeys(c, ks)
    \/ \E k \in Keys, s \in Steps : Inc(c, k, s)
    \/ Rollback(c)
    \/ CommitStart(c)

Next == \E c \in Clients : ClientCall(c) \/ CommitStep(c)

Spec == Init /\ [][Next]_vars

-----------------------------------------------------------------------------
(* IdsUnique: Inc hands out counter values as ids (meta.GenID, the autoid *)
(* allocator).  No id of a counter key is returned by two transactions    *)
(* that both commit; this needs Inc's markOrigin and doCommit's locked    *)
(* validation to stop concurrent increments of the same counter.          *)
IdsUnique ==
    \A x, y \in issued :
        (x[1] = y[1] /\ x[2] = y[2]) => x[3] = y[3]

(* ValidatedReadsCurrentAtWrite: when doCommit writes its batch, every     *)
(* key of its read set still holds the value recorded by markOrigin, i.e. *)
(* nobody committed a change to it between validation and the write.     *)
ValidatedReadsCurrentAtWrite ==
    [][\A c \in Clients :
         CommitWrite(c) => \A k \in ReadKeys(c) : db[k] = readSet[c][k]]_vars

(* ReadWriteConflictDetected: the conflict scenario of the spec (8).  A  *)
(* transaction whose batch is written overwrites no key that it read,     *)
(* with Get or LockKeys, and that another transaction committed after its *)
(* snapshot: such a commit must fail with Conflict.                      *)
ReadWriteConflictDetected ==
    [][\A c \in Clients :
         CommitWrite(c) =>
            \A k \in Keys :
               (dirty[c][k] # NoVal /\ (k \in got[c] \/ readSet[c][k] # NotMarked))
                  => db[k] = snap[c][k]]_vars

(* NoLockOutlivesCommit: a key is locked only by a transaction that is in *)
(* the middle of its commit (spec invariant 5; doCommit's deferred loop  *)
(* is meant to release what the attempt locked).                          *)
NoLockOutlivesCommit ==
    \A k \in Keys : lockOwner[k] # NoOwner =>
        \E c \in Clients : tid[c] = lockOwner[k] /\ pc[c] \in {"locking", "unlocking"}
=============================================================================
