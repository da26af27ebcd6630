--------------------------- MODULE MCMemoryAccess ---------------------------
(* MemoryAccess for TLC, with a second process that is being debugged.     *)
EXTENDS MemoryAccess

CONSTANTS r1, p1, p2

OneReader == {r1}
TwoProcs == {p1, p2}
=============================================================================
