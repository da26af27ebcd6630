----------------------------- MODULE MCWindows -----------------------------
(***************************************************************************)
(* What CE runs on Windows around a target, for TLC: the VEH debugger and  *)
(* the speedhack inside it; the driver's debugger handshake, its           *)
(* virtualised debug registers and its trace recorder; and the lock and    *)
(* the allocator of DBVM.  They share no state (the allocator takes the    *)
(* lock around each step that is one action), so a behaviour of the whole  *)
(* is one of each, and exploring one part at a time reaches every state of *)
(* every part.  "part" says which one moves.  The VEH debugger is there    *)
(* three times: it attaches again, threads end, or the no-break list is    *)
(* edited.  Two parts end where the code has gone wrong: the speedhack   *)
(* once an overlapping unlock has spoilt the count of its lock             *)
(* ("disturbed"), the allocator once it has skipped memory or left a       *)
(* descriptor unset.                                                       *)
(***************************************************************************)
EXTENDS VEHDebugger, Speedhack, KernelDebugger, GlobalDebug, Ultimap2,
        CriticalSection, MemoryManager

CONSTANTS t1, t2, x1, x2, p1, p2, p3, a1, a2, g1, s1

TwoThreads == {t1, t2}
GameAndSetter == {g1, s1}
Game == {g1}
Setters == {s1}
TwoContexts == {x1, x2}
TwoCpus == {p1, p2}
ThreeCpus == {p1, p2, p3}
TwoAddresses == {a1, a2}
MaxNesting == 2

VARIABLE part

driverVars == <<kdVars, gdVars, umVars, csVars, mmVars>>
targetVars == <<vdVars, shVars>>
windowsVars == <<part, targetVars, driverVars>>

VDParts == {"attach", "threads", "list"}

WindowsInit ==
    /\ part \in VDParts \cup {"speedhack", "debugger", "registers", "recorder", "lock", "memory"}
    /\ VD_Init /\ SH_Init /\ KD_Init /\ GD_Init /\ UM_Init /\ CS_Init /\ MM_Init
    /\ part # "threads" => alive = VD_Threads
    /\ part # "debugger" => context = [t \in Threads |-> x1]
    /\ part # "recorder" => saveToFile

VDStep ==
    /\ VD_Next
    /\ part # "attach" => ce'.session <= 1
    /\ part # "threads" => alive' = alive
    /\ part # "list" => vdCount'.listOps = 0
    /\ part = "list" => vdCount'.exceptions <= 1

TargetNext ==
    \/ part \in VDParts /\ VDStep /\ UNCHANGED shVars
    \/ part = "speedhack" /\ ~disturbed /\ SH_Next /\ UNCHANGED vdVars

DriverNext ==
    \/ part = "debugger" /\ KD_Next /\ UNCHANGED <<gdVars, umVars, csVars, mmVars>>
    \/ part = "registers" /\ GD_Next /\ UNCHANGED <<kdVars, umVars, csVars, mmVars>>
    \/ part = "recorder" /\ UM_Next /\ UNCHANGED <<kdVars, gdVars, csVars, mmVars>>
    \/ /\ part = "lock" /\ CS_Next /\ \A p \in CS_Cpus : nest'[p] <= MaxNesting
       /\ UNCHANGED <<kdVars, gdVars, umVars, mmVars>>
    \/ /\ part = "memory" /\ ~skipped /\ ~unset /\ MM_Next
       /\ UNCHANGED <<kdVars, gdVars, umVars, csVars>>

WindowsNext ==
    /\ UNCHANGED part
    /\ \/ TargetNext /\ UNCHANGED driverVars
       \/ DriverNext /\ UNCHANGED targetVars

WindowsSpec ==
    /\ WindowsInit /\ [][WindowsNext]_windowsVars
    /\ \A a \in Actors : WF_vdVars(part \in VDParts /\ VD_HandlerStep(a))
    /\ WF_vdVars(part \in VDParts /\ PollerStep)
    /\ WF_vdVars(part \in VDParts /\ InitStep)
    /\ WF_vdVars(part \in VDParts /\ CEStep)
    /\ \A t \in SL_Threads : WF_shVars(part = "speedhack" /\ ~disturbed /\ ThreadGoesOn(t))
    /\ \A t \in Threads : WF_kdVars(part = "debugger" /\ HandlerStep(t))
    /\ WF_kdVars(part = "debugger" /\ ClientStep)
    /\ \A c \in UM_Cpus :
          /\ WF_umVars(part = "recorder" /\ (PMI(c) \/ SwitchToPABuffer(c)))
          /\ WF_umVars(part = "recorder" /\ WriterStep(c))
          /\ WF_umVars(part = "recorder" /\ WorkerStep(c))
    /\ WF_umVars(part = "recorder" /\ SuspendThread)
    /\ WF_umVars(part = "recorder" /\ BufferWriterStep)
    /\ WF_umVars(part = "recorder" /\ GuiStep)

\* The types of all the parts' states
WindowsTypesOK ==
    VD_TypeOK /\ SH_TypeOK /\ KD_TypeOK /\ GD_TypeOK /\ UM_TypeOK /\ CS_TypeOK /\ MM_TypeOK

\* Nobody waits for ever: a report to the VEH debugger is answered, a hooked clock
\* returns, a thread that broke runs again, a target suspended for its trace resumes,
\* and DisableUltimap2 returns.
EveryWaitEnds ==
    /\ EveryReportAnswered /\ SpeedhackReturns /\ BreakEnds
    /\ TargetResumes /\ DisableEnds
=============================================================================
