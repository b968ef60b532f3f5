---------------------------- MODULE MCUnionPlan ----------------------------
EXTENDS UnionPlan, TLC

CONSTANTS one, two, strOne, junk, castErr

(* The first SELECT yields ints; a later one also yields the string '1'   *)
(* (cast to the int 1) and a string no int cast accepts.                  *)
MCFirstVals == {one, two}
MCVals == {one, two, strOne, junk}
MCCast == (one :> one) @@ (two :> two) @@ (strOne :> one) @@ (junk :> castErr)
=============================================================================
