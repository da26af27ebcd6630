----------------------------- MODULE MCDebugger -----------------------------
(* Instances of Debugger for TLC.                                          *)
EXTENDS Debugger

CONSTANT c1

OneClient == {c1}
NoClient == {}
NoThread == {}
AllTids == Tids
LastTid == {NThreads}

NoCommands == {}
EventsAndSuspends == EventCommands \cup SuspendCommands
NoSuspend == ThreadCommands \cup MemoryCommands
Set == {"SetBreakpoint"}
Remove == {"RemoveBreakpoint"}
=============================================================================
