----------------------------- MODULE MCUnionIter -----------------------------
(* Every overlay and snapshot over N keys, every seek key.                *)
EXTENDS UnionIter

CONSTANTS dv, sv

MCDVals == {dv}
MCSVals == {sv}
=============================================================================
