---------------------------- MODULE MCAggregate ----------------------------
EXTENDS Aggregate

CONSTANTS nil, sep

V(kind, num) == [k |-> kind, n |-> num]

(* Two ints, a float, a numeric string and a string ToFloat64 rejects.   *)
MCValues == {V("int", 1), V("int", 2), V("float", 1), V("str", 2), V("bad", 0)}
=============================================================================
