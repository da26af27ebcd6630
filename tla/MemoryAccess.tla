---------------------------- MODULE MemoryAccess ----------------------------
(***************************************************************************)
(* ReadProcessMemory and WriteProcessMemory on a process that is not       *)
(* debugged (ceserver/api.c), against StartDebug and the debugger's wait.  *)
(*                                                                         *)
(* The calling thread attaches to the process, wait()s for its stop, moves *)
(* the bytes and detaches, under memorymutex; StartDebug takes the mutex   *)
(* for every thread it attaches to.  But wait() and the debugger's         *)
(* waitpid(-1) collect the stop of any task that any thread of the server  *)
(* traces.                                                                 *)
(***************************************************************************)
EXTENDS Naturals

CONSTANTS
    Readers,    \* connection threads that read and write memory
    Procs,
    Debugged,   \* the process the debugger thread debugs
    NTasks,     \* threads of each process; task 1 has the process's id
    MaxHits     \* bound on the breakpoint hits

ASSUME MemoryAssumption ==
    /\ Debugged \in Procs /\ NTasks \in Nat \ {0} /\ MaxHits \in Nat
    /\ {"debugger", "nobody"} \cap Readers = {}

D == "debugger"
Nobody == "nobody"
Threads == Readers \cup {D}

Task == Procs \X (1 .. NTasks)
mainTask(p) == <<p, 1>>

VARIABLES
    kt,             \* the kernel's view of each task
    hits,
    memorymutex,    \* the thread that holds it
    isDebugged,     \* p->isDebugged
    reached,        \* where each thread is in the code below
    proc,           \* the process a reader was called for
    pid,            \* the task whose stop wait() returned
    i               \* the task StartDebug is at

maVars == <<kt, hits, memorymutex, isDebugged, reached, proc, pid, i>>

MA_Init ==
    /\ kt = [t \in Task |-> [tracer |-> Nobody, st |-> "run", new |-> FALSE, pend |-> FALSE]]
    /\ hits = 0
    /\ memorymutex = Nobody
    /\ isDebugged = [p \in Procs |-> FALSE]
    /\ reached = [t \in Threads |-> "idle"]
    /\ proc = [r \in Readers |-> Debugged]
    /\ pid = [t \in Threads |-> mainTask(Debugged)]
    /\ i = 1

MA_goto(t, label) == reached' = [reached EXCEPT ![t] = label]
-----------------------------------------------------------------------------
(* The kernel.                                                             *)

\* The SIGSTOP of PTRACE_ATTACH is delivered.
TaskStops(t) ==
    /\ kt[t].st = "run" /\ kt[t].pend
    /\ kt' = [kt EXCEPT ![t].st = "stop", ![t].pend = FALSE, ![t].new = (kt[t].tracer # Nobody)]
    /\ UNCHANGED <<hits, memorymutex, isDebugged, reached, proc, pid, i>>

\* A debugged task hits a breakpoint.
TaskHits(t) ==
    /\ kt[t].st = "run" /\ kt[t].tracer = D /\ hits < MaxHits
    /\ kt' = [kt EXCEPT ![t].st = "stop", ![t].new = TRUE]
    /\ hits' = hits + 1
    /\ UNCHANGED <<memorymutex, isDebugged, reached, proc, pid, i>>

\* PTRACE_ATTACH fails for a task that is traced already.
attachable(t) == kt[t].tracer = Nobody

ptraceAttach(x, t) == [kt EXCEPT ![t].tracer = x, ![t].pend = TRUE]

\* The other requests need a stopped task that the caller itself traces.
ptraceable(x, t) == kt[t].tracer = x /\ kt[t].st = "stop"

\* wait() and waitpid(-1) by thread x: one stop, of any traced task.
waitAny(x) ==
    \E t \in Task :
       /\ kt[t].new
       /\ kt' = [kt EXCEPT ![t].new = FALSE]
       /\ pid' = [pid EXCEPT ![x] = t]
-----------------------------------------------------------------------------
(* ReadProcessMemory and WriteProcessMemory.                               *)

\* The call with a valid handle; for a debugged process it becomes a call of
\* the debugger (module Debugger), which returns in its own time.
Call(r) ==
    /\ reached[r] = "idle"
    /\ \E p \in Procs : /\ proc' = [proc EXCEPT ![r] = p]
                        /\ MA_goto(r, IF isDebugged[p] THEN "debug" ELSE "lock")
    /\ UNCHANGED <<kt, hits, memorymutex, isDebugged, pid, i>>

ReturnFromDebugger(r) ==
    /\ reached[r] = "debug"
    /\ MA_goto(r, "idle")
    /\ UNCHANGED <<kt, hits, memorymutex, isDebugged, proc, pid, i>>

\* Mutant: the mutex is not waited for.
MA_Lock_nowait(x, from, to) ==
    /\ reached[x] = from
    /\ memorymutex' = x
    /\ MA_goto(x, to)

MA_Lock(x, from, to) ==
    /\ reached[x] = from /\ memorymutex = Nobody
    /\ memorymutex' = x
    /\ MA_goto(x, to)

LockMemory(r) ==
    /\ MA_Lock(r, "lock", "attach")
    /\ UNCHANGED <<kt, hits, isDebugged, proc, pid, i>>

Attach(r) ==
    /\ reached[r] = "attach"
    /\ LET t == mainTask(proc[r])
       IN  \/ attachable(t) /\ kt' = ptraceAttach(r, t) /\ MA_goto(r, "wait")
           \/ ~attachable(t) /\ MA_goto(r, "unlock") /\ UNCHANGED kt
    /\ UNCHANGED <<hits, memorymutex, isDebugged, proc, pid, i>>

Wait(r) ==
    /\ reached[r] = "wait"
    /\ waitAny(r)
    /\ MA_goto(r, "move")
    /\ UNCHANGED <<hits, memorymutex, isDebugged, proc, i>>

\* The bytes are read through /proc/pid/mem, or written with POKEDATA on the
\* task that wait() returned.
Move(r) ==
    /\ reached[r] = "move"
    /\ MA_goto(r, "detach")
    /\ UNCHANGED <<kt, hits, memorymutex, isDebugged, proc, pid, i>>

Detach(r) ==
    /\ reached[r] = "detach"
    /\ kt' = IF ptraceable(r, pid[r])
             THEN [kt EXCEPT ![pid[r]].tracer = Nobody, ![pid[r]].st = "run"] ELSE kt
    /\ MA_goto(r, "unlock")
    /\ UNCHANGED <<hits, memorymutex, isDebugged, proc, pid, i>>

MA_Unlock(r) ==
    /\ reached[r] = "unlock"
    /\ memorymutex' = Nobody
    /\ MA_goto(r, "idle")
    /\ UNCHANGED <<kt, hits, isDebugged, proc, pid, i>>
-----------------------------------------------------------------------------
(* StartDebug, task by task, and the debugger's event loop.                *)

\* The client asks for the debugger.
StartDebug ==
    /\ reached[D] = "idle"
    /\ MA_goto(D, "lock")
    /\ UNCHANGED <<kt, hits, memorymutex, isDebugged, proc, pid, i>>

StartDebug_Lock ==
    /\ MA_Lock(D, "lock", "attach")
    /\ UNCHANGED <<kt, hits, isDebugged, proc, pid, i>>

StartDebug_Attach ==
    /\ reached[D] = "attach"
    /\ LET t == <<Debugged, i>>
       IN  \/ /\ attachable(t)
              /\ kt' = ptraceAttach(D, t)
              /\ isDebugged' = [isDebugged EXCEPT ![Debugged] = TRUE]
           \/ ~attachable(t) /\ UNCHANGED <<kt, isDebugged>>
    /\ memorymutex' = Nobody
    /\ i' = i + 1
    /\ MA_goto(D, IF i < NTasks THEN "lock" ELSE "debugging")
    /\ UNCHANGED <<hits, proc, pid>>

WaitForDebugEvent ==
    /\ reached[D] = "debugging" /\ isDebugged[Debugged]
    /\ waitAny(D)
    /\ MA_goto(D, "event")
    /\ UNCHANGED <<hits, memorymutex, isDebugged, proc, i>>

\* An event of a task that is not in the thread list is dropped.
ContinueFromDebugEvent ==
    /\ reached[D] = "event"
    /\ kt' = IF pid[D][1] = Debugged /\ ptraceable(D, pid[D])
             THEN [kt EXCEPT ![pid[D]].st = "run"] ELSE kt
    /\ MA_goto(D, "debugging")
    /\ UNCHANGED <<hits, memorymutex, isDebugged, proc, pid, i>>
-----------------------------------------------------------------------------
Kernel == \E t \in Task : TaskStops(t) \/ TaskHits(t)

Reader(r) == \/ ReturnFromDebugger(r)
             \/ LockMemory(r) \/ Attach(r) \/ Wait(r) \/ Move(r) \/ Detach(r) \/ MA_Unlock(r)

Debugger == \/ StartDebug_Lock \/ StartDebug_Attach
            \/ WaitForDebugEvent \/ ContinueFromDebugEvent

MA_Next == Kernel \/ (\E r \in Readers : Call(r) \/ Reader(r)) \/ StartDebug \/ Debugger

MA_Spec == MA_Init /\ [][MA_Next]_maVars

\* Signals are delivered, a thread inside a call runs on, and the mutex goes
\* to everyone who waits for it in the end.
MA_Fairness ==
    /\ \A t \in Task : WF_maVars(TaskStops(t))
    /\ \A r \in Readers : WF_maVars(Reader(r)) /\ SF_maVars(LockMemory(r))
    /\ WF_maVars(Debugger) /\ SF_maVars(StartDebug_Lock)
-----------------------------------------------------------------------------
\* The variables have their types, and the mutex belongs to the thread that
\* is between its lock and its unlock.
MA_TypeOK ==
    /\ kt \in [Task -> [tracer : Threads \cup {Nobody}, st : {"run", "stop"},
                        new : BOOLEAN, pend : BOOLEAN]]
    /\ isDebugged \in [Procs -> BOOLEAN] /\ hits \in 0 .. MaxHits
    /\ proc \in [Readers -> Procs] /\ pid \in [Threads -> Task] /\ i \in 1 .. NTasks + 1
    /\ \A x \in Threads :
          memorymutex = x <=> reached[x] \in {"attach", "wait", "move", "detach", "unlock"}

\* While the bytes are moved, the process a reader was called for is stopped
\* and traced by it: POKEDATA works, and the bytes read do not change.
MovedWhileStopped ==
    \A r \in Readers : reached[r] \in {"move", "detach"} =>
       pid[r] = mainTask(proc[r]) /\ ptraceable(r, pid[r])

\* "keep in mind that this routine can get called by multiple threads at the
\* same time" (api.c:2445): with nobody inside, no process is left traced by
\* a reader, or stopped without a tracer.
LeftAlone ==
    memorymutex = Nobody => \A t \in Task :
       /\ kt[t].tracer \notin Readers
       /\ kt[t].tracer = Nobody => kt[t].st = "run" /\ ~kt[t].pend

\* "so there's no ptrace_attach busy when attaching after opening and reading
\* memory" (api.c:306): a reader never makes the debugger miss a thread.
NoThreadMissed ==
    reached[D] \in {"debugging", "event"} => \A j \in 1 .. NTasks : kt[<<Debugged, j>>].tracer = D

\* A read or write that has been called returns, and so does StartDebug,
\* though all of them wait for one mutex and one of its holders for a signal.
CallsReturn ==
    /\ \A r \in Readers : []<>(reached[r] = "idle")
    /\ []<>(reached[D] \notin {"lock", "attach"})

\* Readers and the debugger share ptrace and wait() without taking each other's stops:
\* bytes are moved on a stopped process, nobody is left attached or stopped by a read,
\* and StartDebug gets every thread.
NobodyLosesAStop == MovedWhileStopped /\ LeftAlone /\ NoThreadMissed
=============================================================================
