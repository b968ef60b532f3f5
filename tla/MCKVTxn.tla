------------------------------- MODULE MCKVTxn -------------------------------
(* Model values and bounds for checking KVTxn with TLC.                   *)
EXTENDS KVTxn, TLC

CONSTANTS c1, c2, kc, kd, d1

MCClients == {c1, c2}
MCCounterKeys == {kc}
MCDataKeys == {kd}
MCDataVals == {d1}
MCSteps == {1}

(* Clients are interchangeable: permuting them maps behaviours to         *)
(* behaviours (tIDs are numbers, not client names).                        *)
MCSymmetry == Permutations(MCClients)

=============================================================================
