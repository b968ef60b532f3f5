------------------------------ MODULE UnionIter ------------------------------
(***************************************************************************)
(* kv.UnionIter (kv/union_iter.go): one ascending iterator over a dirty    *)
(* overlay iterator and a snapshot iterator.  Keys are 1..N in encoded    *)
(* byte order (bytes.Compare of codec-encoded keys); a sub-iterator is    *)
(* its current key, End once Next has run past its last entry.  The      *)
(* overlay holds values or Tomb (the empty delete marker); the snapshot   *)
(* never holds an empty value.                                            *)
(***************************************************************************)
EXTENDS Integers

CONSTANTS
    N,          \* number of keys
    DVals,      \* values written in the overlay
    SVals,      \* values stored in the snapshot
    Tomb, NoVal

ASSUME N \in Nat \ {0}

End == N + 1
Ks == 1..N

VARIABLES
    dirty,      \* overlay contents: key -> value, Tomb or NoVal (absent)
    snapshot,   \* snapshot contents: key -> value or NoVal
    start,      \* seek key both sub-iterators were positioned at
    dk,         \* dirtyIt's current key (dirtyValid <=> dk # End)
    sk,         \* snapshotIt's current key (snapshotValid <=> sk # End)
    curIsDirty,
    isValid,
    closed      \* Close has released both sub-iterators

vars == <<dirty, snapshot, start, dk, sk, curIsDirty, isValid, closed>>

(* A sub-iterator moved to its first entry at or after x.                 *)
FirstFrom(m, x) ==
    LET ks == {k \in x..N : m[k] # NoVal}
    IN  IF ks = {} THEN End ELSE CHOOSE k \in ks : \A j \in ks : k <= j

(* dirtyNext and snapshotNext.                                            *)
DirtyNext(d) == FirstFrom(dirty, d + 1)
SnapshotNext(s) == FirstFrom(snapshot, s + 1)

RECURSIVE UpdateCurNoShadow(_, _, _)
UpdateCurNoShadow(d, s, cur) ==
    LET stop(v) == [dk |-> d, sk |-> s, curIsDirty |-> cur, isValid |-> v]
        tomb == d # End /\ dirty[d] = Tomb
    IN  CASE d = End /\ s = End -> stop(FALSE)
          [] d = End -> [stop(TRUE) EXCEPT !.curIsDirty = FALSE]
          [] s = End /\ tomb -> UpdateCurNoShadow(DirtyNext(d), s, TRUE)
          [] s = End -> [stop(TRUE) EXCEPT !.curIsDirty = TRUE]
          [] d = s /\ tomb -> UpdateCurNoShadow(DirtyNext(d), SnapshotNext(s), cur)
          [] d = s -> [stop(TRUE) EXCEPT !.curIsDirty = TRUE]
          [] d > s -> [stop(TRUE) EXCEPT !.curIsDirty = FALSE]
          [] d < s /\ tomb -> UpdateCurNoShadow(DirtyNext(d), s, cur)
          [] OTHER -> [stop(TRUE) EXCEPT !.curIsDirty = TRUE]

(* updateCur: the positioning loop, one recursion per iteration.  The     *)
(* result is the sub-iterator positions, curIsDirty and isValid.          *)
RECURSIVE UpdateCur(_, _, _)
UpdateCur(d, s, cur) ==
    LET stop(v) == [dk |-> d, sk |-> s, curIsDirty |-> cur, isValid |-> v]
        tomb == d # End /\ dirty[d] = Tomb
    IN  CASE d = End /\ s = End -> stop(FALSE)
          [] d = End -> [stop(TRUE) EXCEPT !.curIsDirty = FALSE]
          [] s = End /\ tomb -> UpdateCur(DirtyNext(d), s, TRUE)
          [] s = End -> [stop(TRUE) EXCEPT !.curIsDirty = TRUE]
          [] d = s /\ tomb -> UpdateCur(DirtyNext(d), SnapshotNext(s), cur)
          [] d = s -> [dk |-> d, sk |-> SnapshotNext(s), curIsDirty |-> TRUE,
                       isValid |-> TRUE]
          [] d > s -> [stop(TRUE) EXCEPT !.curIsDirty = FALSE]
          [] d < s /\ tomb -> UpdateCur(DirtyNext(d), s, cur)
          [] OTHER -> [stop(TRUE) EXCEPT !.curIsDirty = TRUE]

Apply(r) ==
    /\ dk' = r.dk
    /\ sk' = r.sk
    /\ curIsDirty' = r.curIsDirty
    /\ isValid' = r.isValid

(* newUnionIter over sub-iterators seeked to start: the dirty iterator    *)
(* needs one Next to reach its first entry, the snapshot one is already   *)
(* positioned; then updateCur.                                            *)
Init ==
    /\ dirty \in [Ks -> DVals \cup {Tomb, NoVal}]
    /\ snapshot \in [Ks -> SVals \cup {NoVal}]
    /\ start \in Ks
    /\ closed = FALSE
    /\ LET r == UpdateCur(FirstFrom(dirty, start), FirstFrom(snapshot, start), FALSE)
       IN  /\ dk = r.dk
           /\ sk = r.sk
           /\ curIsDirty = r.curIsDirty
           /\ isValid = r.isValid

(* Next: advance the source of the current entry, then updateCur.  Callers *)
(* (ScanMetaWithPrefix, DelKeyWithPrefix) call it only while Valid().     *)
NextWrongSource ==
    /\ isValid /\ ~closed
    /\ IF curIsDirty
       THEN Apply(UpdateCur(dk, SnapshotNext(sk), curIsDirty))
       ELSE Apply(UpdateCur(DirtyNext(dk), sk, curIsDirty))
    /\ UNCHANGED <<dirty, snapshot, start, closed>>

Next ==
    /\ isValid /\ ~closed
    /\ IF curIsDirty
       THEN Apply(UpdateCur(DirtyNext(dk), sk, curIsDirty))
       ELSE Apply(UpdateCur(dk, SnapshotNext(sk), curIsDirty))
    /\ UNCHANGED <<dirty, snapshot, start, closed>>

(* Close releases both sub-iterators; a second Close does nothing.        *)
Close ==
    /\ ~closed
    /\ closed' = TRUE
    /\ UNCHANGED <<dirty, snapshot, start, dk, sk, curIsDirty, isValid>>

(* Key() and Value(): read from the source named by curIsDirty.           *)
CurKey == IF curIsDirty THEN dk ELSE sk
CurValue == IF curIsDirty THEN dirty[dk] ELSE snapshot[sk]

Step == Next \/ Close

(* A scan that does not stop early (DelKeyWithPrefix loops until the      *)
(* iterator is invalid) keeps calling Next while it is valid.             *)
Spec == Init /\ [][Step]_vars /\ WF_vars(Next)

-----------------------------------------------------------------------------
(* MergedSpec: the iterator refines MergedView.  What Key()/Value() show  *)
(* while Valid() is the next key of the logical view with its logical     *)
(* value: no tombstoned key, no shadowed snapshot entry, no key twice, no *)
(* key skipped, ascending.                                                *)
View == INSTANCE MergedView WITH
            cur <- IF isValid THEN CurKey ELSE End,
            val <- IF isValid THEN CurValue ELSE NoVal

MergedSpec == View!Spec

(* ScanEnds: every positioning makes progress, so a caller that keeps     *)
(* calling Next while Valid() reaches the end of the view.                *)
ScanEnds == <>(~isValid \/ closed)
=============================================================================
