---------------------------- MODULE MCAssetLocks ----------------------------
(* Model checking of AssetLocks: two calls of two sessions, which take the *)
(* same assets in opposite orders.                                         *)
EXTENDS AssetLocks, TLC

CONSTANTS c1, c2, o1, o2, a1, a2

Serving == [c \in Calls |-> IF c = c1 THEN o1 ELSE o2]
Named == [c \in Calls |-> IF c = c1 THEN <<a1, a2>> ELSE <<a2, a1>>]
=============================================================================
