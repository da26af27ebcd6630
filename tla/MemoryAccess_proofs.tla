----------------------- MODULE MemoryAccess_proofs -----------------------
(***************************************************************************)
(* Proofs about the memory access of ceserver (MemoryAccess): no stop of a *)
(* thread is lost between the readers of memory and the debugger.          *)
(***************************************************************************)
EXTENDS MemoryAccess, TLAPS

(***************************************************************************)
(* MemoryAccess, with one process: readers and the debugger share it, and  *)
(* wait() cannot return the stop of another one.                           *)
(***************************************************************************)
Main == mainTask(Debugged)

Attached == {"wait", "move", "detach"}

\* Where readers and the debugger are, and how far StartDebug has got
MA_Places ==
    /\ memorymutex \in Threads \cup {Nobody}
    /\ reached \in [Threads -> {"idle", "debug", "lock", "attach", "wait", "move", "detach",
                                "unlock", "debugging", "event"}]
    /\ \A r \in Readers : reached[r] \notin {"debugging", "event"}
    /\ reached[D] \in {"idle", "lock", "attach", "debugging", "event"}
    /\ reached[D] \in {"idle", "lock", "attach"} => i <= NTasks
    /\ reached[D] \in {"debugging", "event"} => i = NTasks + 1

\* Who traces a task: the debugger those it has got to, a reader the main task while it
\* is attached; and what a task that nobody traces, or that a reader traces, looks like
MA_Traced ==
    /\ \A t \in Task : kt[t].tracer = D <=> t[2] < i
    /\ \A r \in Readers, t \in Task :
          kt[t].tracer = r <=> t = Main /\ reached[r] \in Attached
    /\ \A t \in Task : kt[t].tracer = Nobody =>
          kt[t].st = "run" /\ ~kt[t].new /\ ~kt[t].pend
    /\ \A r \in Readers :
          /\ reached[r] = "wait" =>
                \/ kt[Main].st = "run" /\ ~kt[Main].new
                \/ kt[Main].st = "stop" /\ kt[Main].new /\ ~kt[Main].pend
          /\ reached[r] \in {"move", "detach"} =>
                pid[r] = Main /\ kt[Main].st = "stop" /\ ~kt[Main].new /\ ~kt[Main].pend

MA_Safe == MA_Places /\ MA_Traced

MA_Inv == MA_TypeOK /\ MA_Safe

\* No task of the debugged process has a tracer yet
LEMMA MA_InitInv == Procs = {Debugged} /\ MA_Init => MA_Inv
  BY MemoryAssumption DEF MA_Init, MA_Inv, MA_TypeOK, MA_Safe, MA_Places, MA_Traced, Main, Attached,
       mainTask, Task, Threads, D, Nobody

\* A task of the one process is known by its number
LEMMA MA_Tasks ==
    ASSUME Procs = {Debugged}
    PROVE  /\ Main \in Task /\ Main[2] = 1
           /\ \A t \in Task : t[2] \in 1 .. NTasks /\ t[1] = Debugged
           /\ \A t, u \in Task : t[2] = u[2] => t = u
           /\ \A j \in 1 .. NTasks : <<Debugged, j>> \in Task /\ <<Debugged, j>>[2] = j
           /\ \A p \in Procs : mainTask(p) = Main
  BY MemoryAssumption DEF Main, mainTask, Task

TaskStates == [tracer : Threads \cup {Nobody}, st : {"run", "stop"}, new : BOOLEAN, pend : BOOLEAN]

\* What the record of a task may become
LEMMA MA_TaskUpdate ==
    ASSUME NEW k \in TaskStates, NEW x \in Threads \cup {Nobody}, NEW s \in {"run", "stop"},
           NEW n \in BOOLEAN, NEW p \in BOOLEAN
    PROVE  /\ [k EXCEPT !.st = s, !.pend = p, !.new = n] \in TaskStates
           /\ [k EXCEPT !.st = s, !.new = n] \in TaskStates
           /\ [k EXCEPT !.new = n] \in TaskStates
           /\ [k EXCEPT !.st = s] \in TaskStates
           /\ [k EXCEPT !.tracer = x, !.pend = p] \in TaskStates
           /\ [k EXCEPT !.tracer = x, !.st = s] \in TaskStates
  BY Zenon DEF TaskStates

\* The types, through every step
LEMMA MA_TypeStep ==
    ASSUME MA_TypeOK, MA_Places, MA_Next
    PROVE  MA_TypeOK'
<1> USE MemoryAssumption DEF MA_TypeOK, MA_Places, MA_goto, Threads, D, Nobody
<1>k. kt \in [Task -> TaskStates]
  BY DEF TaskStates
<1>t. kt' \in [Task -> TaskStates]
  <2>u. ASSUME NEW t \in Task, NEW s \in TaskStates
        PROVE  [kt EXCEPT ![t] = s] \in [Task -> TaskStates]
    BY <1>k
  <2>1. ASSUME NEW t \in Task, TaskStops(t) PROVE kt' \in [Task -> TaskStates]
    <3> DEFINE b == (kt[t].tracer # Nobody)
               s == [kt[t] EXCEPT !.st = "stop", !.pend = FALSE, !.new = b]
    <3>1. b \in BOOLEAN
      OBVIOUS
    <3>2. kt' = [kt EXCEPT ![t] = s]
      BY <1>k, <2>1 DEF TaskStops
    <3> HIDE DEF b
    <3>3. s \in TaskStates
      BY Zenon, <1>k, <3>1, MA_TaskUpdate
    <3> QED BY <2>u, <3>2, <3>3
  <2>2. ASSUME NEW t \in Task, TaskHits(t) PROVE kt' \in [Task -> TaskStates]
    <3>1. [kt[t] EXCEPT !.st = "stop", !.new = TRUE] \in TaskStates
      BY Zenon, <1>k, MA_TaskUpdate
    <3>2. kt' = [kt EXCEPT ![t] = [kt[t] EXCEPT !.st = "stop", !.new = TRUE]]
      BY Zenon, <1>k, <2>2 DEF TaskHits
    <3> QED BY <2>u, <3>1, <3>2
  <2>3. ASSUME NEW x \in Threads, waitAny(x) PROVE kt' \in [Task -> TaskStates]
    <3>1. PICK t \in Task : kt' = [kt EXCEPT ![t] = [kt[t] EXCEPT !.new = FALSE]]
      BY Zenon, <2>3 DEF waitAny
    <3>2. [kt[t] EXCEPT !.new = FALSE] \in TaskStates
      BY Zenon, <1>k, MA_TaskUpdate
    <3> QED BY <2>u, <3>1, <3>2
  <2>a. ASSUME NEW x \in Threads, NEW t \in Task
        PROVE  ptraceAttach(x, t) \in [Task -> TaskStates]
    <3>1. [kt[t] EXCEPT !.tracer = x, !.pend = TRUE] \in TaskStates
      BY Zenon, <1>k, MA_TaskUpdate
    <3>2. ptraceAttach(x, t) = [kt EXCEPT ![t] = [kt[t] EXCEPT !.tracer = x, !.pend = TRUE]]
      BY Zenon, <1>k DEF ptraceAttach
    <3> QED BY <2>u, <3>1, <3>2
  <2>4. ASSUME NEW r \in Readers, Attach(r) PROVE kt' \in [Task -> TaskStates]
    <3>1. mainTask(proc[r]) \in Task
      BY DEF mainTask, Task
    <3> QED BY <1>k, <2>4, <2>a, <3>1 DEF Attach
  <2>5. ASSUME NEW r \in Readers, Detach(r) PROVE kt' \in [Task -> TaskStates]
    <3>1. [kt[pid[r]] EXCEPT !.tracer = Nobody, !.st = "run"] \in TaskStates
      BY Zenon, <1>k, MA_TaskUpdate
    <3> QED BY Zenon, <2>5, <1>k, <2>u, <3>1 DEF Detach
  <2>6. CASE StartDebug_Attach
    <3>1. <<Debugged, i>> \in Task
      BY <2>6 DEF StartDebug_Attach, Task
    <3> QED BY <1>k, <2>6, <2>a, <3>1 DEF StartDebug_Attach
  <2>7. CASE ContinueFromDebugEvent
    <3>1. [kt[pid[D]] EXCEPT !.st = "run"] \in TaskStates
      BY Zenon, <1>k, MA_TaskUpdate
    <3> QED BY <2>7, <1>k, <2>u, <3>1 DEF ContinueFromDebugEvent
  <2>8. CASE UNCHANGED kt
    BY <2>8, <1>k
  <2> QED BY Zenon, MA_Next, <2>1, <2>2, <2>3, <2>4, <2>5, <2>6, <2>7, <2>8
          DEF MA_Next, Kernel, Debugger, Reader, Call, ReturnFromDebugger, LockMemory, Wait, Move,
              MA_Unlock, StartDebug, StartDebug_Lock, WaitForDebugEvent
<1> HIDE DEF MA_TypeOK
<1> DEFINE Rest == /\ isDebugged' \in [Procs -> BOOLEAN] /\ hits' \in 0 .. MaxHits
                   /\ proc' \in [Readers -> Procs] /\ pid' \in [Threads -> Task]
                   /\ i' \in 1 .. NTasks + 1
                   /\ \A x \in Threads : memorymutex' = x <=>
                         reached'[x] \in {"attach", "wait", "move", "detach", "unlock"}
<1> SUFFICES Rest
  BY <1>t DEF MA_TypeOK, TaskStates
<1> USE DEF MA_TypeOK
<1>1. ASSUME NEW t \in Task, TaskStops(t) PROVE Rest
  BY <1>1 DEF TaskStops
<1>2. ASSUME NEW t \in Task, TaskHits(t) PROVE Rest
  BY <1>2 DEF TaskHits
<1>3. ASSUME NEW r \in Readers, Call(r) PROVE Rest
  BY <1>3 DEF Call
<1>4. ASSUME NEW r \in Readers, Reader(r) PROVE Rest
  <2>1. CASE ReturnFromDebugger(r)
    BY <2>1 DEF ReturnFromDebugger
  <2>2. CASE LockMemory(r)
    BY <2>2 DEF LockMemory, MA_Lock
  <2>3. CASE Attach(r)
    BY <2>3 DEF Attach
  <2>4. CASE Wait(r)
    BY <2>4 DEF Wait, waitAny
  <2>5. CASE Move(r)
    BY <2>5 DEF Move
  <2>6. CASE Detach(r)
    BY <2>6 DEF Detach
  <2>7. CASE MA_Unlock(r)
    BY <2>7 DEF MA_Unlock
  <2> QED BY <1>4, <2>1, <2>2, <2>3, <2>4, <2>5, <2>6, <2>7 DEF Reader
<1>5. CASE StartDebug
  BY <1>5 DEF StartDebug
<1>6. CASE StartDebug_Lock
  BY <1>6 DEF StartDebug_Lock, MA_Lock
<1>7. CASE StartDebug_Attach
  <2>1. isDebugged' \in [Procs -> BOOLEAN]
    BY <1>7, Zenon DEF StartDebug_Attach
  <2> QED BY <1>7, <2>1 DEF StartDebug_Attach
<1>8. CASE WaitForDebugEvent
  BY <1>8 DEF WaitForDebugEvent, waitAny
<1>9. CASE ContinueFromDebugEvent
  BY <1>9 DEF ContinueFromDebugEvent
<1> QED BY MA_Next, <1>1, <1>2, <1>3, <1>4, <1>5, <1>6, <1>7, <1>8, <1>9
        DEF MA_Next, Kernel, Debugger

\* What they say of each other, with one process
LEMMA MA_SafeStep ==
    ASSUME Procs = {Debugged}, MA_TypeOK, MA_Safe, MA_Next
    PROVE  MA_Safe'
<1> USE MemoryAssumption DEF MA_Safe, MA_TypeOK, MA_Places, MA_Traced, MA_goto, Threads, D, Nobody,
        Attached
<1>0. /\ Main \in Task /\ Main[2] = 1
      /\ \A t \in Task : t[2] \in 1 .. NTasks /\ t[1] = Debugged
      /\ \A t, u \in Task : t[2] = u[2] => t = u
      /\ \A j \in 1 .. NTasks : <<Debugged, j>> \in Task /\ <<Debugged, j>>[2] = j
      /\ \A p \in Procs : mainTask(p) = Main
  BY MA_Tasks
<1> USE <1>0
<1>1. ASSUME NEW t \in Task, TaskStops(t) PROVE MA_Safe'
  BY <1>1 DEF TaskStops
<1>2. ASSUME NEW t \in Task, TaskHits(t) PROVE MA_Safe'
  BY <1>2 DEF TaskHits
<1>3. ASSUME NEW r \in Readers, Call(r) PROVE MA_Safe'
  BY <1>3 DEF Call
<1>4. ASSUME NEW r \in Readers, Reader(r) PROVE MA_Safe'
  <2>1. CASE ReturnFromDebugger(r)
    BY <2>1 DEF ReturnFromDebugger
  <2>2. CASE LockMemory(r)
    BY <2>2 DEF LockMemory, MA_Lock
  <2>3. CASE Attach(r)
    BY SMTT(30), <2>3 DEF Attach, ptraceAttach, attachable
  <2>4. CASE Wait(r)
    BY <2>4 DEF Wait, waitAny
  <2>5. CASE Move(r)
    BY <2>5 DEF Move
  <2>6. CASE Detach(r)
    BY <2>6 DEF Detach, ptraceable
  <2>7. CASE MA_Unlock(r)
    BY <2>7 DEF MA_Unlock
  <2> QED BY Zenon, <1>4, <2>1, <2>2, <2>3, <2>4, <2>5, <2>6, <2>7 DEF Reader
<1>5. CASE StartDebug
  BY <1>5 DEF StartDebug
<1>6. CASE StartDebug_Lock
  BY <1>6 DEF StartDebug_Lock, MA_Lock
<1>7. CASE StartDebug_Attach
  BY <1>7 DEF StartDebug_Attach, ptraceAttach, attachable
<1>8. CASE WaitForDebugEvent
  BY <1>8 DEF WaitForDebugEvent, waitAny
<1>9. CASE ContinueFromDebugEvent
  BY <1>9 DEF ContinueFromDebugEvent, ptraceable
<1> QED BY Zenon, MA_Next, <1>1, <1>2, <1>3, <1>4, <1>5, <1>6, <1>7, <1>8, <1>9
        DEF MA_Next, Kernel, Debugger

\* Every step of the memory accesses and of the debugger keeps the invariant
LEMMA MA_Step ==
    ASSUME Procs = {Debugged}, MA_Inv, [MA_Next]_maVars
    PROVE  MA_Inv'
<1>1. CASE MA_Next
  BY <1>1, MA_TypeStep, MA_SafeStep DEF MA_Inv, MA_Safe
<1>2. CASE UNCHANGED maVars
  BY <1>2 DEF maVars, MA_Inv, MA_TypeOK, MA_Safe, MA_Places, MA_Traced
<1> QED BY <1>1, <1>2

\* With one process, whatever the number of readers, threads and breakpoint hits:
\* ReadProcessMemory and WriteProcessMemory (api.c:2445) take their own stops only, and
\* StartDebug (api.c:306) gets every thread.
THEOREM MA_NobodyLosesAStop ==
    ASSUME Procs = {Debugged}
    PROVE  MA_Spec => []NobodyLosesAStop
<1>1. MA_Init => MA_Inv
  BY MA_InitInv
<1>2. MA_Inv /\ [MA_Next]_maVars => MA_Inv'
  BY MA_Step
<1>3. MA_Inv => NobodyLosesAStop
  <2> SUFFICES ASSUME MA_Inv PROVE NobodyLosesAStop
    OBVIOUS
  <2> USE MA_Tasks, MemoryAssumption DEF MA_Inv, MA_Safe, MA_TypeOK, MA_Places, MA_Traced, Attached
  <2>1. MovedWhileStopped
    BY DEF MovedWhileStopped, ptraceable
  <2>2. LeftAlone
    BY Zenon DEF LeftAlone, Threads, D, Nobody
  <2>3. NoThreadMissed
    BY DEF NoThreadMissed, Threads, D
  <2> QED BY <2>1, <2>2, <2>3 DEF NobodyLosesAStop
<1> QED BY <1>1, <1>2, <1>3, PTL DEF MA_Spec

=============================================================================
