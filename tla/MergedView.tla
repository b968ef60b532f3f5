------------------------------ MODULE MergedView ------------------------------
(***************************************************************************)
(* What a UnionIter promises: starting at the seek key, it presents, in   *)
(* ascending key order, exactly the keys of the transaction's logical     *)
(* view (the dirty overlay shadowing the snapshot, tombstones removing    *)
(* keys), each with its logical value.  Keys are 1..N in encoded byte     *)
(* order; End (= N + 1) means "past the last key".                        *)
(***************************************************************************)
EXTENDS Integers

CONSTANTS N, Tomb, NoVal

VARIABLES dirty, snapshot, start, cur, val

End == N + 1

(* The logical value of k: overlay first, a tombstone hides the key.      *)
Logical(k) ==
    IF dirty[k] = NoVal THEN snapshot[k]
    ELSE IF dirty[k] = Tomb THEN NoVal
    ELSE dirty[k]

(* The first key >= x of the logical view, or End.                        *)
FirstLiveFrom(x) ==
    LET live == {k \in x..N : Logical(k) # NoVal}
    IN  IF live = {} THEN End ELSE CHOOSE k \in live : \A j \in live : k <= j

ValueAt(k) == IF k = End THEN NoVal ELSE Logical(k)

Init ==
    /\ cur = FirstLiveFrom(start)
    /\ val = ValueAt(cur)

Advance ==
    /\ cur # End
    /\ cur' = FirstLiveFrom(cur + 1)
    /\ val' = ValueAt(cur')
    /\ UNCHANGED <<dirty, snapshot, start>>

Spec == Init /\ [][Advance]_<<dirty, snapshot, start, cur, val>>
=============================================================================
