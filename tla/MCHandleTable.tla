--------------------------- MODULE MCHandleTable ---------------------------
(* The handle table with one well-behaved client, and with two.            *)
EXTENDS HandleTable, TLC

CONSTANTS c1, c2, o1, o2, o3

OneConn == {c1}
TwoConns == {c1, c2}
TwoPids == {1, 2}
Blocks == {o1, o2, o3}
FreshPages == {"htEmpty"}

BlockSymmetry == Permutations(Blocks)
=============================================================================
