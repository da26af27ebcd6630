--------------------------- MODULE MCUnresponsive ---------------------------
(***************************************************************************)
(* What goes on although something does not do its part, for TLC: the      *)
(* debugger of ceserver with a thread that never takes its SIGSTOP, and    *)
(* the pointer scan of CE with a full disk, a worker that fails, a worker  *)
(* that is removed, one that is added, or a user who stops it and resumes  *)
(* it later.  The two share no state, and "part" says which one moves.     *)
(* The scan meets one of these incidents at most (a worker that is removed *)
(* may be replaced); it ends where a path was worked out a second time     *)
(* ("Repeated"), and resumes only from a file that has all that is left.   *)
(***************************************************************************)
EXTENDS Debugger, PathQueue

CONSTANT c1

OneClient == {c1}
NoThread == {}
AllTids == Tids
SomePaths == {<<>>, <<1>>, <<2>>, <<1, 1>>}

VARIABLE part

unresponsiveVars == <<part, vars, pqVars>>

UnresponsiveInit ==
    /\ part \in {"debugger", "pointers"} /\ Init /\ PQ_Init
    /\ part = "debugger" => Present = PQ_Workers

Repeated == \E p \in PQ_Paths : scanned[p] > 1

PQStep ==
    /\ ~Repeated /\ PQ_Next /\ whole'
    /\ LET meets == pqCount'.full + pqCount'.errors + pqCount'.stops
       IN  meets + pqCount'.changes <= 1 /\ (pqCount'.added => meets = 0)

\* A scan may end, and the bounds stop it
ScanStops == (ScanOver \/ Repeated) /\ UNCHANGED pqVars

UnresponsiveNext ==
    /\ UNCHANGED part
    /\ \/ part = "debugger" /\ Next /\ UNCHANGED pqVars
       \/ part = "pointers" /\ (PQStep \/ ScanStops) /\ UNCHANGED vars

\* FairSpec and PQ_Spec, each in its part
UnresponsiveSpec ==
    /\ UnresponsiveInit /\ [][UnresponsiveNext]_unresponsiveVars
    /\ WF_vars(part = "debugger" /\ StartDebug) /\ WF_vars(part = "debugger" /\ DebuggerThread)
    /\ SF_vars(part = "debugger" /\ OwnWait) /\ SF_vars(part = "debugger" /\ OwnContinue)
    /\ \A t \in Tids \ Unresponsive : WF_vars(part = "debugger" /\ TraceeSigstop(t))
    /\ \A c \in Clients : /\ SF_vars(part = "debugger" /\ Serve(c))
                          /\ WF_vars(part = "debugger" /\ ClientReturn(c))
    /\ \A w \in PQ_Workers : SF_pqVars(part = "pointers" /\ ~Repeated /\ ScannerStep(w))
    /\ WF_pqVars(part = "pointers" /\ ~Repeated /\ ControllerStep)
    /\ WF_pqVars(part = "pointers" /\ ~Repeated /\ DiskFreed)

\* A forwarded command is answered although the thread does not stop, and a pointer scan
\* ends, whatever it meets, to the point where it repeats itself.
GoesOnRegardless ==
    /\ EveryCallAnswered
    /\ []<>(part = "debugger" \/ ScanOver \/ Repeated)
=============================================================================
