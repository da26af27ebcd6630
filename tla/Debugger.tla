------------------------------ MODULE Debugger ------------------------------
(***************************************************************************)
(* The ptrace debugger of ceserver (ceserver/api.c, x86-64): the debugger  *)
(* thread, the traced threads, and what the server records about them.     *)
(*                                                                         *)
(* One thread executes every debugger command.  A command that needs a     *)
(* running thread stopped sends it SIGSTOP and waits for it, up to ten     *)
(* times 100 ms, and while it waits it executes a forwarded command inside *)
(* the wait (CheckForAndDispatchCommand).  Commands therefore interleave   *)
(* on one stack, as well as with the kernel.                               *)
(*                                                                         *)
(* Forwarded calls are those of ForwardedCalls, which DebugChannel         *)
(* implements.  The semaphore is left out: a wait may look for events at   *)
(* any time, which allows every wake-up the semaphore does.                *)
(***************************************************************************)
EXTENDS Integers, Sequences, FiniteSets

CONSTANTS
    NThreads,       \* threads of the debugged process; thread 1 is its pid
    Clients,        \* connections whose commands are forwarded
    Direct,         \* commands the debugger connection itself sends
    Forwarded,      \* commands the other connections send
    Early,          \* may commands come before the create events are handled?
    SuspendReported, \* may the debugger client suspend a thread before it continues it?
    Unresponsive,   \* threads that may outlast ten waits of 100 ms
    MayExit,        \* threads that may exit
    MaxStops,       \* bound on breakpoint hits and signals
    MaxSuspends     \* bound on the suspend count of a thread

Tids == 1 .. NThreads
pid == 1
AllThreads == -1    \* the tid that means every thread
NoTid == 0

ThreadCommands == {"SetBreakpoint", "RemoveBreakpoint", "GetThreadContext"}
MemoryCommands == {"ReadProcessMemory", "WriteProcessMemory"}
SuspendCommands == {"SuspendThread", "ResumeThread"}
EventCommands == {"WaitForDebugEvent", "ContinueFromDebugEvent"}

ASSUME DebuggerAssumption ==
    /\ NThreads \in Nat \ {0}
    /\ Direct \subseteq ThreadCommands \cup MemoryCommands \cup SuspendCommands \cup EventCommands
    /\ Forwarded \subseteq ThreadCommands \cup MemoryCommands \cup SuspendCommands
    /\ Early \in BOOLEAN /\ SuspendReported \in BOOLEAN
    /\ Unresponsive \subseteq Tids /\ MayExit \subseteq Tids
    /\ MaxStops \in Nat /\ MaxSuspends \in Nat

VARIABLES
    kt,             \* the kernel's view of each thread
    killed,         \* a SIGSTOP sent to the whole process is pending
    stops,          \* breakpoint hits and signals so far
    threadlist,     \* p->threadlist: thread ids in order
    td,             \* p->threadlist: the data of each thread
    debugEventQueue,
    debuggedThreadEvent,
    dr,             \* the breakpoint registers: does each thread have it set
    stack,          \* the commands in execution, innermost first
    reported,       \* the event the debugger client has yet to continue from
    call,           \* ForwardedCalls
    cmd,            \* the command in each client's call
    crashed         \* the server dereferenced a NULL pointer

kernelVars == <<kt, killed, stops>>
callVars == <<call, cmd>>
vars == <<kernelVars, threadlist, td, debugEventQueue, debuggedThreadEvent, dr,
          stack, reported, callVars, crashed>>

FC == INSTANCE ForwardedCalls

ev(t, e) == [threadid |-> t, debugevent |-> e]
NoEvent == ev(NoTid, "none")
Uninitialized == ev(NoTid, "garbage")   \* a DebugEvent nobody has written to

Signals == {"SIGTRAP", "SIGSTOP", "signal"}
Virtual == {"create process", "create thread"}   \* debugevent < 0
Event == [threadid : {NoTid} \cup Tids,
          debugevent : Signals \cup Virtual \cup {"none", "garbage"}]

Command == [op : ThreadCommands \cup MemoryCommands \cup SuspendCommands \cup EventCommands,
            tid : Tids \cup {NoTid, AllThreads}]
NoCommand == [op |-> "none", tid |-> NoTid]

Init ==
    /\ kt = [t \in Tids |-> [st |-> "run", sig |-> "signal", new |-> FALSE, pend |-> FALSE]]
    /\ killed = FALSE
    /\ stops = 0
    /\ threadlist = <<>>
    /\ td = [t \in Tids |-> [isPaused |-> FALSE, suspendCount |-> 0,
                             suspendedDevent |-> NoEvent]]
    /\ debugEventQueue = <<>>
    /\ debuggedThreadEvent = NoEvent
    /\ dr = [t \in Tids |-> FALSE]
    /\ stack = <<>>
    /\ reported = NoEvent
    /\ FC!Init
    /\ cmd = [c \in Clients |-> NoCommand]
    /\ crashed = FALSE
-----------------------------------------------------------------------------
(* The kernel: signals, stops, waitpid and ptrace.                         *)

stopped(t) == t \in Tids /\ kt[t].st = "stop"

\* A running thread hits a breakpoint, finishes a single step, or gets a
\* signal: it stops, and its tracer can wait for it.
TraceeStop(t) ==
    /\ threadlist # <<>>
    /\ kt[t].st = "run" /\ stops < MaxStops
    /\ \E s \in {"SIGTRAP", "signal"} :
          kt' = [kt EXCEPT ![t].st = "stop", ![t].sig = s, ![t].new = TRUE]
    /\ stops' = stops + 1
    /\ UNCHANGED <<killed, threadlist, td, debugEventQueue, debuggedThreadEvent, dr,
                   stack, reported, callVars, crashed>>

\* A running thread takes a pending SIGSTOP, its own first.
TraceeSigstop(t) ==
    /\ kt[t].st = "run" /\ (kt[t].pend \/ killed)
    /\ kt' = [kt EXCEPT ![t] = [st |-> "stop", sig |-> "SIGSTOP", new |-> TRUE, pend |-> FALSE]]
    /\ killed' = (killed /\ kt[t].pend)
    /\ UNCHANGED <<stops, threadlist, td, debugEventQueue, debuggedThreadEvent, dr,
                   stack, reported, callVars, crashed>>

TraceeExit(t) ==
    /\ threadlist # <<>>
    /\ t \in MayExit /\ kt[t].st = "run"
    /\ kt' = [kt EXCEPT ![t].st = "dead", ![t].new = TRUE]
    /\ UNCHANGED <<killed, stops, threadlist, td, debugEventQueue, debuggedThreadEvent, dr,
                   stack, reported, callVars, crashed>>

tkill(t, k) == IF k[t].st = "dead" THEN k ELSE [k EXCEPT ![t].pend = TRUE]

\* PTRACE_CONT and PTRACE_SINGLESTEP: they fail unless the thread is stopped.
ptraceCont(t, k) == IF t \in Tids /\ k[t].st = "stop"
                    THEN [k EXCEPT ![t].st = "run", ![t].new = FALSE] ELSE k

\* Mutant: the state of the thread is taken for the signal.
GetStopSignalFromThread_state(t) == IF stopped(t) THEN kt[t].st ELSE "create thread"

GetStopSignalFromThread(t) == IF stopped(t) THEN kt[t].sig ELSE "create thread"
-----------------------------------------------------------------------------
(* The server's records.                                                   *)

inList(t) == \E i \in 1 .. Len(threadlist) : threadlist[i] = t

\* Mutant: the test of isPaused is inverted.
FindPausedThread_inverted ==
    LET running == {i \in 1 .. Len(threadlist) : ~td[threadlist[i]].isPaused}
    IN  IF running = {} THEN NoTid
        ELSE threadlist[CHOOSE i \in running : \A j \in running : i <= j]

FindPausedThread ==
    LET paused == {i \in 1 .. Len(threadlist) : td[threadlist[i]].isPaused}
    IN  IF paused = {} THEN NoTid
        ELSE threadlist[CHOOSE i \in paused : \A j \in paused : i <= j]

\* The place in the queue of the first event of thread t, or of any thread.
queuedAt(t) == {i \in 1 .. Len(debugEventQueue) :
                  /\ t = AllThreads \/ debugEventQueue[i].threadid = t
                  /\ \A j \in 1 .. (i - 1) :
                        t # AllThreads /\ debugEventQueue[j].threadid # t}

\* Mutant: the event found stays in the queue.
withoutIndex_kept(s, i) == s

withoutIndex(s, i) == SubSeq(s, 1, i - 1) \o SubSeq(s, i + 1, Len(s))

\* Mutant: the event is not added.
AddDebugEventToQueue_lost(e) == debugEventQueue

AddDebugEventToQueue(e) == Append(debugEventQueue, e)

\* Mutant: the flag is never cleared.
setPaused_once(t, b, data) == IF inList(t) THEN [data EXCEPT ![t].isPaused = TRUE] ELSE data

setPaused(t, b, data) == IF inList(t) THEN [data EXCEPT ![t].isPaused = b] ELSE data
-----------------------------------------------------------------------------
(* The stack of commands.                                                  *)

frame(who, op, t) ==
    [from |-> who, op |-> op, tid |-> t, i |-> 1, pc |-> "entry",
     was |-> FALSE, wtid |-> NoTid, de |-> Uninitialized, ok |-> FALSE]

top == stack[1]
setTop(f) == stack' = <<f>> \o Tail(stack)

\* The thread the top command is working on: the i-th of the list when the
\* command is for all threads.
target == IF top.tid = AllThreads THEN threadlist[top.i] ELSE top.tid

\* Mutant: the answer is not sent.
return_silent ==
    /\ stack' = Tail(stack)
    /\ UNCHANGED callVars

\* The top command returns, and its answer goes where the command came from.
return ==
    /\ stack' = Tail(stack)
    /\ IF top.from \in Clients THEN FC!Answer(top.from) ELSE UNCHANGED call
    /\ UNCHANGED cmd

\* The command is done with one thread: the next one, or return.
nextThread ==
    IF top.tid = AllThreads /\ top.i < Len(threadlist)
    THEN /\ setTop([frame(top.from, top.op, top.tid) EXCEPT !.i = top.i + 1])
         /\ UNCHANGED callVars
    ELSE return

at(p) == ~crashed /\ stack # <<>> /\ top.pc = p

\* What WaitForDebugEventNative's caller does when it returns TRUE with event
\* e; data is td with the thread of e marked as paused.
gotEvent(e, data) ==
    CASE top.op \in ThreadCommands \cup MemoryCommands ->
            /\ setTop([top EXCEPT !.pc = "act", !.de = e, !.wtid = e.threadid])
            /\ td' = data
            /\ UNCHANGED <<debuggedThreadEvent, reported, callVars>>
      [] top.op = "SuspendThread" ->
            /\ td' = [data EXCEPT ![top.tid].suspendedDevent = e,
                                  ![top.tid].suspendCount = @ + 1]
            /\ return
            /\ UNCHANGED <<debuggedThreadEvent, reported>>
      [] top.op = "WaitForDebugEvent" ->
            /\ debuggedThreadEvent' = e
            /\ reported' = e
            /\ td' = data
            /\ return

\* waitpid() collects the stop or the exit of thread t.
collect(t, k) ==
    /\ k[t].new
    /\ kt' = [k EXCEPT ![t].new = FALSE]
    /\ gotEvent(ev(t, GetStopSignalFromThread(t)), setPaused(t, TRUE, td))

\* tkill(tid, SIGSTOP), then the waitpid(tid, WNOHANG) that
\* WaitForDebugEventNative starts with.
tkillAndWait(t) ==
    \/ collect(t, tkill(t, kt))
    \/ /\ ~kt[t].new
       /\ kt' = tkill(t, kt)
       /\ setTop([top EXCEPT !.pc = "wait"])
       /\ UNCHANGED <<td, debuggedThreadEvent, reported, callVars>>
-----------------------------------------------------------------------------
(* Where commands come from.                                               *)

\* Both create events of a thread are handled before a command names it.
attached == Early \/ \A i \in 1 .. Len(debugEventQueue) : debugEventQueue[i].debugevent \notin Virtual

tidsOf(op) == CASE op \in {"SetBreakpoint", "RemoveBreakpoint"} -> Tids \cup {AllThreads}
                [] op = "GetThreadContext" -> Tids
                [] op = "SuspendThread" -> {t \in Tids : inList(t) /\ td[t].suspendCount < MaxSuspends}
                [] op = "ResumeThread" -> {t \in Tids : inList(t)}
                [] op \in MemoryCommands -> {NoTid}

StartDebug ==
    /\ threadlist = <<>>
    /\ threadlist' = [i \in Tids |-> i]
    /\ kt' = [t \in Tids |-> [kt[t] EXCEPT !.pend = TRUE]]
    /\ debugEventQueue' = <<ev(pid, "create process")>> \o [i \in Tids |-> ev(i, "create thread")]
    /\ UNCHANGED <<killed, stops, td, debuggedThreadEvent, dr, stack, reported, callVars, crashed>>

\* Bound on the queue: when no thread is left, every write adds an event.
MaxQueue == NThreads + 1

\* Another connection calls the API and has its command forwarded.
ClientCall(c) ==
    /\ threadlist # <<>> /\ attached /\ Len(debugEventQueue) <= MaxQueue
    /\ FC!Issue(c)
    /\ \E op \in Forwarded : \E t \in tidsOf(op) :
          cmd' = [cmd EXCEPT ![c] = [op |-> op, tid |-> t]]
    /\ UNCHANGED <<kernelVars, threadlist, td, debugEventQueue, debuggedThreadEvent, dr,
                   stack, reported, crashed>>

ClientReturn(c) ==
    /\ FC!Return(c)
    /\ cmd' = [cmd EXCEPT ![c] = NoCommand]
    /\ UNCHANGED <<kernelVars, threadlist, td, debugEventQueue, debuggedThreadEvent, dr,
                   stack, reported, crashed>>

\* The debugger thread takes up a forwarded command: in its select() loop, or
\* inside the wait of the command it is executing.
Serve(c) ==
    /\ ~crashed
    /\ stack = <<>> \/ at("wait")
    /\ FC!Serve(c)
    /\ LET outer == IF stack = <<>> THEN <<>> ELSE <<[top EXCEPT !.pc = "check"]>>
       IN  stack' = <<frame(c, cmd[c].op, cmd[c].tid)>> \o outer
    /\ UNCHANGED <<kernelVars, threadlist, td, debugEventQueue, debuggedThreadEvent, dr,
                   reported, cmd, crashed>>

begin(op, t) ==
    /\ ~crashed /\ stack = <<>> /\ threadlist # <<>>
    /\ op \in Direct
    /\ stack' = <<frame(NoTid, op, t)>>
    /\ UNCHANGED <<kernelVars, threadlist, td, debugEventQueue, debuggedThreadEvent, dr,
                   reported, callVars, crashed>>

\* The debugger client waits for an event once it has continued from the last
\* one, and continues the thread the event was reported for.
OwnWait == reported = NoEvent /\ begin("WaitForDebugEvent", NoTid)

OwnContinue == reported # NoEvent /\ begin("ContinueFromDebugEvent", reported.threadid)

OwnCommand ==
    /\ attached
    /\ \E op \in Direct \ EventCommands : \E t \in tidsOf(op) :
          /\ SuspendReported \/ op # "SuspendThread" \/ reported.threadid # t
          /\ begin(op, t)
-----------------------------------------------------------------------------
(* SetBreakpoint, RemoveBreakpoint, GetThreadContext.                      *)

\* The thread is paused: the command uses the registers of thread w.
whenPaused(w) ==
    /\ inList(target) /\ td[target].isPaused
    /\ setTop([top EXCEPT !.pc = "act", !.was = TRUE, !.wtid = w])
    /\ UNCHANGED <<kt, td, debuggedThreadEvent, reported, callVars, crashed>>

\* The thread is running: it is stopped first.
whenRunning ==
    /\ inList(target) /\ ~td[target].isPaused
    /\ tkillAndWait(target)
    /\ UNCHANGED crashed

\* The thread is not in the list.
invalidTid ==
    /\ ~inList(target)
    /\ nextThread
    /\ UNCHANGED <<kt, td, debuggedThreadEvent, reported, crashed>>

SetBreakpoint ==
    /\ at("entry") /\ top.op = "SetBreakpoint"
    /\ whenPaused(FindPausedThread) \/ whenRunning \/ invalidTid
    /\ UNCHANGED <<killed, stops, threadlist, debugEventQueue, dr>>

\* td->isPaused is read before td is tested.
RemoveBreakpoint ==
    /\ at("entry") /\ top.op = "RemoveBreakpoint"
    /\ \/ whenPaused(debuggedThreadEvent.threadid)
       \/ whenRunning
       \/ /\ ~inList(target)
          /\ crashed' = TRUE
          /\ UNCHANGED <<kt, td, debuggedThreadEvent, stack, reported, callVars>>
    /\ UNCHANGED <<killed, stops, threadlist, debugEventQueue, dr>>

GetThreadContext ==
    /\ at("entry") /\ top.op = "GetThreadContext"
    /\ whenPaused(top.tid) \/ whenRunning \/ invalidTid
    /\ UNCHANGED <<killed, stops, threadlist, debugEventQueue, dr>>

\* The command reads or writes registers, which works on a stopped thread; d
\* is what becomes of the breakpoint registers then.
access(op, d) ==
    /\ at("act") /\ top.op = op
    /\ setTop([top EXCEPT !.pc = "resume", !.ok = stopped(top.wtid)])
    /\ dr' = IF stopped(top.wtid) THEN d ELSE dr
    /\ UNCHANGED <<kernelVars, threadlist, td, debugEventQueue, debuggedThreadEvent,
                   reported, callVars, crashed>>

SetBreakpoint_Poke == access("SetBreakpoint", [dr EXCEPT ![top.wtid] = TRUE])

RemoveBreakpoint_Poke == access("RemoveBreakpoint", [dr EXCEPT ![top.wtid] = FALSE])

GetThreadContext_Regs == access("GetThreadContext", dr)

\* The outcomes of reading a DebugEvent that may be uninitialised.
read(e, t) == IF e # Uninitialized THEN {e}
              ELSE {ev(x, s) : x \in {NoTid, t}, s \in {"SIGSTOP", "signal"}}

\* Mutant: the thread is let go whatever stopped it.
bySigstop_always(e) == TRUE

\* Was it the command's own SIGSTOP that stopped the thread?
bySigstop(e) == e.debugevent = "SIGSTOP"

\* A thread the command stopped itself is let go (thread w of e gets
\* PTRACE_CONT, t is marked as running), unless something other than the
\* SIGSTOP stopped it: then its event is left to WaitForDebugEvent.
letGo(e, w, t) ==
    \/ /\ ~bySigstop(e)
       /\ debugEventQueue' = AddDebugEventToQueue(e)
       /\ td' = setPaused(t, TRUE, td)
       /\ UNCHANGED kt
    \/ /\ bySigstop(e)
       /\ kt' = ptraceCont(w, kt)
       /\ td' = setPaused(t, FALSE, td)
       /\ UNCHANGED debugEventQueue

finished ==
    /\ nextThread
    /\ UNCHANGED <<killed, stops, threadlist, debuggedThreadEvent, dr, reported, crashed>>

wasPaused == top.was /\ UNCHANGED <<kt, td, debugEventQueue>>

SetBreakpoint_Resume ==
    /\ at("resume") /\ top.op = "SetBreakpoint"
    /\ wasPaused \/ (~top.was /\ \E e \in read(top.de, target) : letGo(e, top.wtid, target))
    /\ finished

RemoveBreakpoint_Resume ==
    /\ at("resume") /\ top.op = "RemoveBreakpoint"
    /\ wasPaused \/ (~top.was /\ \E e \in read(top.de, target) : letGo(e, top.wtid, target))
    /\ finished

\* PTRACE_CONT comes second in a conjunction: not when the registers could
\* not be read.
GetThreadContext_Resume ==
    /\ at("resume") /\ top.op = "GetThreadContext"
    /\ \/ wasPaused
       \/ /\ ~top.was
          /\ \E e \in read(top.de, target) :
                letGo(e, IF top.ok THEN e.threadid ELSE NoTid, target)
    /\ finished
-----------------------------------------------------------------------------
(* ReadProcessMemoryDebug, WriteProcessMemoryDebug.                        *)

\* With no thread paused, the process gets a SIGSTOP and the debugger thread
\* waits for whichever thread stops first, without serving anyone.
stopAny ==
    /\ IF FindPausedThread # NoTid
       THEN /\ setTop([top EXCEPT !.pc = "act", !.was = TRUE, !.wtid = FindPausedThread])
            /\ UNCHANGED killed
       ELSE /\ setTop([top EXCEPT !.pc = "block"])
            /\ killed' = TRUE
    /\ UNCHANGED <<kt, stops, threadlist, td, debugEventQueue, debuggedThreadEvent, dr,
                   reported, callVars, crashed>>

ReadProcessMemoryDebug == at("entry") /\ top.op = "ReadProcessMemory" /\ stopAny

WriteProcessMemoryDebug == at("entry") /\ top.op = "WriteProcessMemory" /\ stopAny

\* The wait without a time limit in WaitForDebugEventNative.
InfiniteWait ==
    /\ at("block")
    /\ \E t \in Tids : collect(t, kt)
    /\ UNCHANGED <<killed, stops, threadlist, debugEventQueue, dr, crashed>>

\* waitpid() fails, as no thread is left: reading ends, writing goes on.
InfiniteWait_Fails ==
    /\ at("block")
    /\ \A t \in Tids : kt[t].st = "dead" /\ ~kt[t].new
    /\ IF top.op = "ReadProcessMemory"
       THEN return
       ELSE setTop([top EXCEPT !.pc = "act"]) /\ UNCHANGED callVars
    /\ UNCHANGED <<kernelVars, threadlist, td, debugEventQueue, debuggedThreadEvent, dr,
                   reported, crashed>>

transfer(op, success) ==
    /\ at("act") /\ top.op = op
    /\ setTop([top EXCEPT !.pc = "resume", !.ok = success])
    /\ UNCHANGED <<kernelVars, threadlist, td, debugEventQueue, debuggedThreadEvent, dr,
                   reported, callVars, crashed>>

\* Through /proc/pid/mem.
ReadProcessMemoryDebug_Read == \E b \in BOOLEAN : transfer("ReadProcessMemory", b)

\* PTRACE_POKEDATA works on the thread whose id is the pid.
WriteProcessMemoryDebug_Poke == transfer("WriteProcessMemory", stopped(pid))

ReadProcessMemoryDebug_Resume ==
    /\ at("resume") /\ top.op = "ReadProcessMemory"
    /\ wasPaused \/ (~top.was /\ letGo(top.de, top.de.threadid, top.de.threadid))
    /\ finished

WriteProcessMemoryDebug_Resume ==
    /\ at("resume") /\ top.op = "WriteProcessMemory"
    /\ \/ wasPaused
       \/ ~top.was /\ \E e \in read(top.de, NoTid) : letGo(e, e.threadid, e.threadid)
    /\ finished
-----------------------------------------------------------------------------
(* SuspendThread, ResumeThread.                                            *)

\* The thread is stopped already: its event is kept with the thread.
SuspendPaused ==
    /\ at("entry") /\ top.op = "SuspendThread" /\ td[top.tid].isPaused
    /\ LET t == top.tid
           kept(e) == td' = [td EXCEPT ![t].suspendedDevent = e, ![t].suspendCount = @ + 1]
       IN  \/ /\ td[t].suspendCount > 0
              /\ td' = [td EXCEPT ![t].suspendCount = @ + 1]
              /\ return
              /\ UNCHANGED <<debugEventQueue, crashed>>
           \/ /\ td[t].suspendCount = 0 /\ debuggedThreadEvent.threadid = t
              /\ kept(debuggedThreadEvent)
              /\ return
              /\ UNCHANGED <<debugEventQueue, crashed>>
           \/ /\ td[t].suspendCount = 0 /\ debuggedThreadEvent.threadid # t
              /\ \E i \in queuedAt(t) :
                    /\ kept(debugEventQueue[i])
                    /\ debugEventQueue' = withoutIndex(debugEventQueue, i)
              /\ return
              /\ UNCHANGED crashed
           \/ /\ td[t].suspendCount = 0 /\ debuggedThreadEvent.threadid # t
              /\ queuedAt(t) = {}               \* the event found is dereferenced
              /\ crashed' = TRUE
              /\ UNCHANGED <<td, debugEventQueue, stack, callVars>>
    /\ UNCHANGED <<kernelVars, threadlist, debuggedThreadEvent, dr, reported>>

SuspendRunning ==
    /\ at("entry") /\ top.op = "SuspendThread" /\ ~td[top.tid].isPaused
    /\ tkillAndWait(top.tid)
    /\ UNCHANGED <<killed, stops, threadlist, debugEventQueue, dr, crashed>>

\* Mutant: the thread is continued whatever is left of its suspend count.
ResumeThread_early ==
    /\ at("entry") /\ top.op = "ResumeThread"
    /\ LET t == top.tid
       IN  IF td[t].isPaused /\ td[t].suspendCount > 0
           THEN /\ kt' = ptraceCont(td[t].suspendedDevent.threadid, kt)
                /\ td' = [td EXCEPT ![t].suspendCount = @ - 1, ![t].isPaused = FALSE]
           ELSE UNCHANGED <<kt, td>>
    /\ return
    /\ UNCHANGED <<killed, stops, threadlist, debugEventQueue, debuggedThreadEvent, dr,
                   reported, crashed>>

ResumeThread ==
    /\ at("entry") /\ top.op = "ResumeThread"
    /\ LET t == top.tid
           lowered == [td EXCEPT ![t].suspendCount = @ - 1]
       IN  \/ /\ ~td[t].isPaused \/ td[t].suspendCount = 0
              /\ UNCHANGED <<kt, td, debugEventQueue>>
           \/ /\ td[t].isPaused /\ td[t].suspendCount > 1
              /\ td' = lowered
              /\ UNCHANGED <<kt, debugEventQueue>>
           \/ /\ td[t].isPaused /\ td[t].suspendCount = 1
              /\ bySigstop(td[t].suspendedDevent)
              /\ kt' = ptraceCont(td[t].suspendedDevent.threadid, kt)
              /\ td' = [lowered EXCEPT ![t].isPaused = FALSE]
              /\ UNCHANGED debugEventQueue
           \/ /\ td[t].isPaused /\ td[t].suspendCount = 1
              /\ ~bySigstop(td[t].suspendedDevent)
              /\ td' = lowered
              /\ debugEventQueue' = AddDebugEventToQueue(td[t].suspendedDevent)
              /\ UNCHANGED kt
    /\ return
    /\ UNCHANGED <<killed, stops, threadlist, debuggedThreadEvent, dr, reported, crashed>>
-----------------------------------------------------------------------------
(* WaitForDebugEvent, ContinueFromDebugEvent.                              *)

\* An event the client has not continued from is reported again; otherwise
\* the first queued event is.
WaitQueued ==
    /\ at("entry") /\ top.op = "WaitForDebugEvent"
    /\ \/ /\ debuggedThreadEvent.threadid # NoTid
          /\ UNCHANGED <<debuggedThreadEvent, debugEventQueue>>
       \/ /\ debuggedThreadEvent.threadid = NoTid /\ debugEventQueue # <<>>
          /\ debuggedThreadEvent' = Head(debugEventQueue)
          /\ debugEventQueue' = Tail(debugEventQueue)
    /\ reported' = debuggedThreadEvent'
    /\ return
    /\ UNCHANGED <<kernelVars, threadlist, td, dr, crashed>>

WaitNative ==
    /\ at("entry") /\ top.op = "WaitForDebugEvent"
    /\ debuggedThreadEvent.threadid = NoTid /\ debugEventQueue = <<>>
    /\ \/ \E t \in Tids : collect(t, kt)
       \/ /\ \A t \in Tids : ~kt[t].new
          /\ setTop([top EXCEPT !.pc = "wait"])
          /\ UNCHANGED <<kt, td, debuggedThreadEvent, reported, callVars>>
    /\ UNCHANGED <<killed, stops, threadlist, debugEventQueue, dr, crashed>>

RemoveThreadFromProcess(t) == threadlist' = SelectSeq(threadlist, LAMBDA x : x # t)

\* Mutant: the test of the result is inverted.
continueOrRemove_inverted(t) ==
    /\ kt' = ptraceCont(t, kt)
    /\ RemoveThreadFromProcess(t)

\* PTRACE_CONT fails when the thread has been killed since its signal was read.
continueOrRemove(t) ==
    \/ /\ kt' = ptraceCont(t, kt)
       /\ UNCHANGED threadlist
    \/ /\ t \in MayExit
       /\ kt' = [kt EXCEPT ![t].st = "dead", ![t].new = TRUE]
       /\ RemoveThreadFromProcess(t)

ContinueFromDebugEvent ==
    /\ at("entry") /\ top.op = "ContinueFromDebugEvent"
    /\ LET t == top.tid
           cleared == debuggedThreadEvent' = [debuggedThreadEvent EXCEPT !.threadid = NoTid]
       IN  \/ /\ debuggedThreadEvent.debugevent \in Virtual
              /\ debuggedThreadEvent' = NoEvent
              /\ UNCHANGED <<kt, td, threadlist>>
           \/ /\ debuggedThreadEvent.debugevent \notin Virtual /\ ~inList(t)
              /\ cleared
              /\ UNCHANGED <<kt, td, threadlist>>
           \/ /\ debuggedThreadEvent.debugevent \notin Virtual /\ inList(t)
              /\ td[t].suspendCount > 0 \/ ~stopped(t)
              /\ UNCHANGED <<kt, td, threadlist, debuggedThreadEvent>>
           \/ /\ debuggedThreadEvent.debugevent \notin Virtual /\ inList(t)
              /\ td[t].suspendCount = 0 /\ stopped(t)
              /\ continueOrRemove(t)
              /\ td' = [td EXCEPT ![t].isPaused = FALSE]
              /\ cleared
    /\ reported' = NoEvent
    /\ return
    /\ UNCHANGED <<killed, stops, debugEventQueue, dr, crashed>>
-----------------------------------------------------------------------------
(* WaitForDebugEventNative: the timed wait.                                *)

awaited == IF top.op = "WaitForDebugEvent" THEN AllThreads ELSE target

\* An event another command has queued is taken out of the queue.
TakeQueued ==
    /\ at("wait") \/ at("check")
    /\ \E i \in queuedAt(awaited) :
         LET t == debugEventQueue[i].threadid
         IN  /\ debugEventQueue' = withoutIndex(debugEventQueue, i)
             /\ IF t = NoTid
                THEN /\ setTop([top EXCEPT !.pc = "wait"])
                     /\ UNCHANGED <<td, debuggedThreadEvent, reported, callVars>>
                ELSE gotEvent(ev(t, GetStopSignalFromThread(t)), setPaused(t, TRUE, td))
    /\ UNCHANGED <<kernelVars, threadlist, dr, crashed>>

\* Otherwise waitpid() may have an event.
WaitPid ==
    /\ at("wait") \/ at("check")
    /\ queuedAt(awaited) = {}
    /\ \E t \in Tids : (awaited = AllThreads \/ awaited = t) /\ collect(t, kt)
    /\ UNCHANGED <<killed, stops, threadlist, debugEventQueue, dr, crashed>>

WaitOn ==
    /\ at("check")
    /\ queuedAt(awaited) = {}
    /\ \A t \in Tids : (awaited = AllThreads \/ awaited = t) => ~kt[t].new
    /\ setTop([top EXCEPT !.pc = "wait"])
    /\ UNCHANGED <<kernelVars, threadlist, td, debugEventQueue, debuggedThreadEvent, dr,
                   reported, callVars, crashed>>

\* Mutant: the tries are not counted.
gaveUp_never(t) == td[t].isPaused

gaveUp(t) == td[t].isPaused \/ t \in Unresponsive

\* The wait times out.  The command sends SIGSTOP again, unless the thread
\* was paused by a command dispatched inside the wait, or this was the tenth
\* time: then the command goes on without an event.
Timeout ==
    /\ at("wait")
    /\ \/ /\ top.op = "WaitForDebugEvent"
          /\ return
          /\ UNCHANGED <<kt, td, debuggedThreadEvent, reported>>
       \/ /\ top.op = "SuspendThread" /\ td[target].isPaused
          /\ td' = [td EXCEPT ![target].suspendCount = @ + 1]
          /\ return
          /\ UNCHANGED <<kt, debuggedThreadEvent, reported>>
       \/ /\ top.op # "WaitForDebugEvent" /\ ~td[target].isPaused
          /\ tkillAndWait(target)
       \/ /\ top.op \in ThreadCommands
          /\ gaveUp(target)
          /\ \E x \in IF top.op = "RemoveBreakpoint" THEN {NoTid, target} ELSE {target} :
                setTop([top EXCEPT !.pc = "act", !.wtid = x])
          /\ UNCHANGED <<kt, td, debuggedThreadEvent, reported, callVars>>
    /\ UNCHANGED <<killed, stops, threadlist, debugEventQueue, dr, crashed>>
-----------------------------------------------------------------------------
Tracee == \E t \in Tids : TraceeStop(t) \/ TraceeSigstop(t) \/ TraceeExit(t)

Client == \E c \in Clients : ClientCall(c) \/ ClientReturn(c)

OwnClient == StartDebug \/ OwnWait \/ OwnContinue \/ OwnCommand

DebuggerThread ==
    \/ \E c \in Clients : Serve(c)
    \/ SetBreakpoint \/ SetBreakpoint_Poke \/ SetBreakpoint_Resume
    \/ RemoveBreakpoint \/ RemoveBreakpoint_Poke \/ RemoveBreakpoint_Resume
    \/ GetThreadContext \/ GetThreadContext_Regs \/ GetThreadContext_Resume
    \/ ReadProcessMemoryDebug \/ ReadProcessMemoryDebug_Read \/ ReadProcessMemoryDebug_Resume
    \/ WriteProcessMemoryDebug \/ WriteProcessMemoryDebug_Poke \/ WriteProcessMemoryDebug_Resume
    \/ InfiniteWait \/ InfiniteWait_Fails
    \/ SuspendPaused \/ SuspendRunning \/ ResumeThread
    \/ WaitQueued \/ WaitNative \/ ContinueFromDebugEvent
    \/ TakeQueued \/ WaitPid \/ WaitOn \/ Timeout

Next == Tracee \/ Client \/ OwnClient \/ DebuggerThread

Spec == Init /\ [][Next]_vars

\* The debugger thread and the clients go on, a pending SIGSTOP is delivered
\* in the end, and select() keeps neither the debugger client nor a forwarded
\* command waiting for ever.
FairSpec ==
    /\ Spec
    /\ WF_vars(StartDebug) /\ WF_vars(DebuggerThread)
    /\ SF_vars(OwnWait) /\ SF_vars(OwnContinue)
    /\ \A t \in Tids \ Unresponsive : WF_vars(TraceeSigstop(t))
    /\ \A c \in Clients : SF_vars(Serve(c)) /\ WF_vars(ClientReturn(c))
-----------------------------------------------------------------------------
\* The variables of the debugger and of the traced process have their types.
TypeOK ==
    /\ kt \in [Tids -> [st : {"run", "stop", "dead"}, sig : Signals, new : BOOLEAN, pend : BOOLEAN]]
    /\ killed \in BOOLEAN /\ stops \in 0 .. MaxStops
    /\ threadlist \in Seq(Tids)
    /\ td \in [Tids -> [isPaused : BOOLEAN, suspendCount : Nat, suspendedDevent : Event]]
    /\ debugEventQueue \in Seq(Event)
    /\ debuggedThreadEvent \in Event
    /\ dr \in [Tids -> BOOLEAN]
    /\ reported \in Event
    /\ cmd \in [Clients -> Command \cup {NoCommand}]

\* The isPaused flag is the truth about every living thread: it is set exactly
\* while the thread is stopped and waitpid() has said so.  Every command
\* decides by this flag whether to stop a thread, and whether to let it go.
PausedIsStopped ==
    \A t \in Tids : inList(t) /\ kt[t].st # "dead" =>
       (td[t].isPaused <=> stopped(t) /\ ~kt[t].new)

real(e, t) == e.threadid = t /\ e.debugevent \notin Virtual

\* The places that hold an event of thread t.
held(t) ==
    {<<"queue", i>> : i \in {j \in 1 .. Len(debugEventQueue) : real(debugEventQueue[j], t)}}
    \cup {<<"frame", i>> : i \in {j \in 1 .. Len(stack) :
             /\ stack[j].pc \in {"act", "resume"} /\ ~stack[j].was
             /\ stack[j].de.threadid = t}}
    \cup (IF real(debuggedThreadEvent, t) THEN {<<"current", 0>>} ELSE {})
    \cup (IF td[t].suspendCount > 0 THEN {<<"suspended", 0>>} ELSE {})

\* The stop of a thread is held in exactly one place once waitpid() has
\* returned it: the queue, the current event, the command that stopped the
\* thread, or the suspended thread.  Held nowhere, the thread would stay
\* stopped for ever; held twice, it would be continued twice.
EventHeldOnce ==
    \A t \in Tids : stopped(t) => Cardinality(held(t)) = IF kt[t].new THEN 0 ELSE 1

\* A thread that WaitForDebugEvent has reported stopped is stopped until the
\* client continues it, whatever the other connections do meanwhile.
ReportedIsStopped ==
    reported # NoEvent /\ reported.debugevent \notin Virtual => stopped(reported.threadid)

\* A thread that a breakpoint or a signal stopped runs again only when the
\* client it was reported to calls ContinueFromDebugEvent: no command that
\* stops and resumes threads for its own ends lets it go.
OnlyTheClientContinues ==
    [][\A t \in Tids : stopped(t) /\ kt[t].sig # "SIGSTOP" /\ kt'[t].st = "run" =>
          at("entry") /\ top.op = "ContinueFromDebugEvent" /\ reported.threadid = t]_vars

\* SetBreakpoint and GetThreadContext touch the registers of a thread that is
\* stopped ("the thread is paused, so fetch the data", api.c:1140).
AccessOnStopped ==
    at("act") /\ top.op \in {"SetBreakpoint", "GetThreadContext"} => stopped(top.wtid)

\* A thread with a suspend count never runs; all that can still happen to it
\* is that it is killed.
SuspendedStaysStopped ==
    \A t \in Tids : inList(t) /\ td[t].suspendCount > 0 => kt[t].st # "run"

\* No command dereferences a NULL thread or a NULL event.  It holds while no thread
\* exits (CrashesOnTheDead says what is left of it when threads do).
NoCrash == ~crashed

\* RemoveBreakpoint finds the thread it is asked for in the list (api.c:897), and
\* SuspendThread finds the event of a paused thread that is not suspended (api.c:1282),
\* whatever other commands took, queued or removed meanwhile: only for a thread that has
\* died can one of them dereference NULL.
CrashesOnTheDead == crashed => kt[target].st = "dead"

\* A breakpoint hit is reported to the client in the end, whichever command
\* was running when it happened and collected it, unless the thread is killed.
EveryHitReported ==
    \A t \in Tids : stopped(t) /\ kt[t].sig = "SIGTRAP"
                    ~> reported = ev(t, "SIGTRAP") \/ kt[t].st = "dead"

\* A forwarded command is answered, also when the thread it is about does not
\* stop for ten times 100 ms.
EveryCallAnswered == \A c \in Clients : call[c] = "pending" ~> call[c] = "answered"

\* "returns TRUE if the breakpoint was set" (api.c:414): a SetBreakpoint that
\* succeeds has set the breakpoint in the thread it was asked for.
SetOnTarget ==
    at("resume") /\ top.op = "SetBreakpoint" /\ top.ok => dr[target]

\* "continueFromDebugEvent will see it is suspended, and as a result, NOT
\* continue it, but store the debug event into the thread" (api.c:1245): once
\* the client has continued a suspended thread, its event is not the current
\* one any more.
StoredInThread ==
    \A t \in Tids : td[t].suspendCount > 0 /\ reported = NoEvent => ~real(debuggedThreadEvent, t)
=============================================================================
