---------------------------- MODULE MCPrefixScan ----------------------------
EXTENDS PrefixScan

CONSTANTS dv, sv

MCDVals == {dv}
MCSVals == {sv}

(* Keys of one, two and three bytes around the prefixes scanned: a key    *)
(* before the prefix, keys under it (the prefix itself and a longer one), *)
(* keys after it.                                                         *)
MCKeySpace == {<<1>>, <<1, 1>>, <<1, 1, 2>>, <<1, 2>>, <<2>>}

(* Multi-byte prefixes, as the meta and record prefixes are: one with     *)
(* matching keys, one past every key.                                     *)
MCPrefixesLong == {<<1, 1>>, <<2, 1>>}

(* A one-byte prefix.                                                     *)
MCPrefixesShort == {<<1>>}

(* Every kind of prefix: empty (over the empty key), one byte, two bytes *)
(* with keys under it, two bytes past every key.                          *)
MCKeySpaceAll == {<<>>, <<1>>, <<1, 1>>, <<1, 1, 2>>, <<1, 2>>, <<2>>}
MCPrefixesAll == {<<>>, <<1>>, <<1, 1>>, <<2, 1>>}
=============================================================================
