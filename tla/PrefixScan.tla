------------------------------ MODULE PrefixScan ------------------------------
(***************************************************************************)
(* One prefix scan through a transaction: util.ScanMetaWithPrefix or      *)
(* util.DelKeyWithPrefix calling dbTxn.Seek(prefix, hasPrefix(prefix)),   *)
(* then walking the UnionIter it returns.  Keys are byte strings (tuples  *)
(* of small numbers), ordered by bytes.Compare; the encoded key order is  *)
(* the same because the codec is order preserving.  The iterator itself  *)
(* is the UnionIter module over the keys' ranks.                          *)
(***************************************************************************)
EXTENDS Integers, Sequences, SequencesExt

CONSTANTS
    KeySpace,   \* user keys that may be stored (byte strings)
    ScanPrefixes,   \* prefixes a caller scans
    DVals,      \* values in the overlay
    SVals,      \* values in the snapshot
    Tomb, NoVal

(* bytes.Compare                                                          *)
RECURSIVE BytesCompare(_, _)
BytesCompare(a, b) ==
    CASE a = <<>> /\ b = <<>> -> 0
      [] a = <<>> -> -1
      [] b = <<>> -> 1
      [] Head(a) < Head(b) -> -1
      [] Head(a) > Head(b) -> 1
      [] OTHER -> BytesCompare(Tail(a), Tail(b))

BytesLess(a, b) == BytesCompare(a, b) < 0

Sorted == SetToSortSeq(KeySpace, BytesLess)
N == Len(Sorted)
KeyOf(i) == Sorted[i]

VARIABLES
    dirty, snapshot, start, dk, sk, curIsDirty, isValid, closed,  \* the UnionIter
    op,         \* "scan" (ScanMetaWithPrefix) or "del" (DelKeyWithPrefix)
    prefix,
    pc,         \* seek, loop, delete, close, done, panic
    visited,    \* keys handed to the filter, or collected for deletion
    stopped,    \* the filter returned false
    emptyIter,  \* Seek returned a fresh &kv.UnionIter{} instead of its iterator
    leaked      \* the iterator Seek built was never closed

vars == <<dirty, snapshot, start, dk, sk, curIsDirty, isValid, closed,
          op, prefix, pc, visited, stopped, emptyIter, leaked>>
scanVars == <<op, prefix, visited, stopped, emptyIter, leaked>>

UI == INSTANCE UnionIter

(* hasPrefix(prefix), the fnKeyCmp passed to Seek.                        *)
HasPrefix(k) == IsPrefix(prefix, k)

(* UnionStore.Seek(EncodeKey(prefix)): both sub-iterators start at the    *)
(* first key >= prefix; newUnionIter positions the union iterator.        *)
SeekStart(p) ==
    LET ge == {i \in 1..N : ~BytesLess(KeyOf(i), p)}
    IN  IF ge = {} THEN N + 1 ELSE CHOOSE i \in ge : \A j \in ge : i <= j

Init ==
    /\ dirty \in [1..N -> DVals \cup {Tomb, NoVal}]
    /\ snapshot \in [1..N -> SVals \cup {NoVal}]
    /\ prefix \in ScanPrefixes
    /\ op \in {"scan", "del"}
    /\ start = SeekStart(prefix)
    /\ LET r == UI!UpdateCur(UI!FirstFrom(dirty, start),
                             UI!FirstFrom(snapshot, start), FALSE)
       IN  /\ dk = r.dk /\ sk = r.sk
           /\ curIsDirty = r.curIsDirty /\ isValid = r.isValid
    /\ closed = FALSE
    /\ pc = "seek"
    /\ visited = <<>>
    /\ stopped = FALSE
    /\ emptyIter = FALSE
    /\ leaked = FALSE

(* The slice Seek hands to fnKeyCmp: []byte(iter.Key())[:1].  For an     *)
(* empty key the conversion either allocated a zero-capacity slice, and   *)
(* [:1] panics, or used a stack buffer, and [:1] is one zero byte; which  *)
(* one depends on the compiler's escape analysis.                         *)
FirstByte(k) == IF k = <<>> THEN <<0>> ELSE <<Head(k)>>

(* dbTxn.Seek after UnionStore.Seek: an invalid iterator, or one whose    *)
(* first byte makes fnKeyCmp true, is replaced by an empty UnionIter; the *)
(* replaced iterator is not closed.                                       *)
Seek ==
    /\ pc = "seek"
    /\ \/ /\ ~isValid
          /\ emptyIter' = TRUE /\ leaked' = TRUE
          /\ pc' = "loop"
       \/ /\ isValid /\ KeyOf(UI!CurKey) = <<>>
          /\ pc' = "panic"
          /\ UNCHANGED <<emptyIter, leaked>>
       \/ /\ isValid /\ HasPrefix(FirstByte(KeyOf(UI!CurKey)))
          /\ emptyIter' = TRUE /\ leaked' = TRUE
          /\ pc' = "loop"
       \/ /\ isValid /\ ~HasPrefix(FirstByte(KeyOf(UI!CurKey)))
          /\ pc' = "loop"
          /\ UNCHANGED <<emptyIter, leaked>>
    /\ UNCHANGED <<dirty, snapshot, start, dk, sk, curIsDirty, isValid, closed,
                   op, prefix, visited, stopped>>

InPrefixStrict == ~emptyIter /\ isValid /\ IsStrictPrefix(prefix, KeyOf(UI!CurKey))

(* The iterator the caller holds is valid and on a key with the prefix:   *)
(* iter.Valid() && strings.HasPrefix(iter.Key(), prefix).                 *)
InPrefix == ~emptyIter /\ isValid /\ HasPrefix(KeyOf(UI!CurKey))

ScanMetaStepNoPrefixCheck ==
    /\ pc = "loop" /\ op = "scan"
    /\ \/ /\ ~emptyIter /\ isValid
          /\ visited' = Append(visited, KeyOf(UI!CurKey))
          /\ \/ /\ UI!Next
                /\ UNCHANGED <<pc, stopped>>
             \/ /\ stopped' = TRUE /\ pc' = "close"
                /\ UNCHANGED <<dk, sk, curIsDirty, isValid>>
       \/ /\ ~(~emptyIter /\ isValid)
          /\ pc' = "close"
          /\ UNCHANGED <<visited, stopped, dk, sk, curIsDirty, isValid>>
    /\ UNCHANGED <<dirty, snapshot, start, closed, op, prefix, emptyIter, leaked>>

(* One turn of ScanMetaWithPrefix's loop.  The caller's filter may stop   *)
(* the scan at any entry.                                                 *)
ScanMetaStep ==
    /\ pc = "loop" /\ op = "scan"
    /\ \/ /\ InPrefix
          /\ visited' = Append(visited, KeyOf(UI!CurKey))
          /\ \/ /\ UI!Next
                /\ UNCHANGED <<pc, stopped>>
             \/ /\ stopped' = TRUE /\ pc' = "close"
                /\ UNCHANGED <<dk, sk, curIsDirty, isValid>>
       \/ /\ ~InPrefix
          /\ pc' = "close"
          /\ UNCHANGED <<visited, stopped, dk, sk, curIsDirty, isValid>>
    /\ UNCHANGED <<dirty, snapshot, start, closed, op, prefix, emptyIter, leaked>>

(* One turn of DelKeyWithPrefix's collecting loop.                        *)
DelKeyStep ==
    /\ pc = "loop" /\ op = "del"
    /\ \/ /\ InPrefix
          /\ visited' = Append(visited, KeyOf(UI!CurKey))
          /\ UI!Next
          /\ UNCHANGED pc
       \/ /\ ~InPrefix
          /\ pc' = "delete"
          /\ UNCHANGED <<visited, dk, sk, curIsDirty, isValid>>
    /\ UNCHANGED <<dirty, snapshot, start, closed, op, prefix, stopped, emptyIter, leaked>>

DeleteCollectedButLast ==
    /\ pc = "delete"
    /\ dirty' = [i \in 1..N |-> IF KeyOf(i) \in ToSet(Front(visited)) THEN Tomb ELSE dirty[i]]
    /\ pc' = "close"
    /\ UNCHANGED <<snapshot, start, dk, sk, curIsDirty, isValid, closed, scanVars>>

(* DelKeyWithPrefix's second loop: txn.Delete of every collected key, a   *)
(* tombstone in the overlay.                                              *)
DeleteCollected ==
    /\ pc = "delete"
    /\ dirty' = [i \in 1..N |-> IF KeyOf(i) \in ToSet(visited) THEN Tomb ELSE dirty[i]]
    /\ pc' = "close"
    /\ UNCHANGED <<snapshot, start, dk, sk, curIsDirty, isValid, closed, scanVars>>

(* The deferred iter.Close(): it closes the iterator the caller holds,    *)
(* which is the empty one when Seek replaced it.                          *)
CloseIter ==
    /\ pc = "close"
    /\ closed' = ~emptyIter
    /\ pc' = "done"
    /\ UNCHANGED <<dirty, snapshot, start, dk, sk, curIsDirty, isValid, scanVars>>

Next == Seek \/ ScanMetaStep \/ DelKeyStep \/ DeleteCollected \/ CloseIter

Spec == Init /\ [][Next]_vars

-----------------------------------------------------------------------------
(* The keys of the transaction's logical view that start with the prefix, *)
(* ascending.                                                             *)
Logical(i) == UI!View!Logical(i)
PrefixKeys ==
    SelectSeq([i \in 1..N |-> KeyOf(i)],
              LAMBDA k : HasPrefix(k) /\ \E i \in 1..N : KeyOf(i) = k /\ Logical(i) # NoVal)

(* The loop has ended and nothing has been deleted yet.                   *)
LoopEnded == pc = "delete" \/ (pc \in {"close", "done"} /\ op = "scan")

(* ScanSound: whatever prefix is scanned, the keys the loop visited are   *)
(* an initial run of the prefix keys of the view, in order: no key        *)
(* outside the prefix, none twice, none out of order, none skipped        *)
(* before the last one visited.                                           *)
ScanSound == LoopEnded => IsPrefix(visited, PrefixKeys)

(* ScanComplete: a scan the filter did not stop visits every prefix key  *)
(* of the transaction's view.                                             *)
ScanComplete == (LoopEnded /\ ~stopped) => visited = PrefixKeys

(* LoopComplete: when Seek handed back the iterator it built, a scan the  *)
(* filter did not stop visits every prefix key of the transaction's view: *)
(* the loop and the iterator lose nothing whatever the prefix.            *)
LoopComplete == (LoopEnded /\ ~stopped /\ ~emptyIter) => visited = PrefixKeys

(* DelRemovesPrefix: after DelKeyWithPrefix, when Seek handed back the    *)
(* iterator it built, no key with the prefix is left in the view.         *)
DelRemovesPrefix ==
    (op = "del" /\ pc = "done" /\ ~emptyIter) =>
        \A i \in 1..N : HasPrefix(KeyOf(i)) => Logical(i) = NoVal

(* NoIteratorLeak: a finished scan has released the iterator Seek built. *)
NoIteratorLeak == pc = "done" => ~leaked

=============================================================================
