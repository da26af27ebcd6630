--------------------------- MODULE KernelDebugger ---------------------------
(***************************************************************************)
(* The kernel-mode debugger of the Windows driver, without global debug:   *)
(* the interrupt-1 handler that stops a thread of the debugged process and *)
(* hands it to user mode (DBKKernel/debugger.c), the device controls that  *)
(* answer it (DBKKernel/IOPLDispatcher.c) and the loop of Cheat Engine's   *)
(* debugger thread that issues them (KernelDebuggerInterface.pas,          *)
(* debughelper.pas).                                                       *)
(*                                                                         *)
(* Three synchronisation (auto-reset) events tie them together: CanBreak   *)
(* lets one thread at a time publish its stack, WaitForDebugEvent tells    *)
(* user mode, WaitForContinue lets the thread go on.                       *)
(***************************************************************************)
EXTENDS Naturals, FiniteSets

CONSTANTS
  Threads,        \* threads of the debugged process
  Contexts,       \* values of a thread's registers, debug registers included
  NoThread,       \* LastStackPointer = NULL
  KD_MaxBreaks,   \* bound: debug exceptions raised
  KD_MaxInjected, \* bound: thread events the poller injects
  KD_MaxStarts    \* bound: times debugging is started

ASSUME KDAssumption ==
  /\ NoThread \notin Threads /\ Contexts # {}
  /\ KD_MaxBreaks \in Nat /\ KD_MaxInjected \in Nat /\ KD_MaxStarts \in Nat

VARIABLES
  canBreak,          \* debugger_event_CanBreak is signalled
  waitForDebugEvent, \* debugger_event_WaitForDebugEvent is signalled
  waitForContinue,   \* debugger_event_WaitForContinue is signalled
  lastStackPointer,  \* the thread whose stack is published, or NoThread
  lastThreadID,
  handledLastEvent,
  isDebugging,
  int1,              \* interrupt 1 goes to interrupt1_asmentry
  kpc,               \* where each thread is in interrupt1_handler
  context,           \* the registers each thread runs with
  saved,             \* the stack and debug registers saved by interrupt1_centry
  handled,           \* what the handler returned for the thread's last exception
  client,            \* TKernelDebugInterface and the debugger thread using it
  kernelDebugStarted,\* the unit variable of dbk32/debug.pas
  told,              \* history: the context and verdict the client sent a thread
  budget             \* what is left of the bounds

kdVars == <<canBreak, waitForDebugEvent, waitForContinue, lastStackPointer,
            lastThreadID, handledLastEvent, isDebugging, int1, kpc, context,
            saved, handled, client, kernelDebugStarted, told, budget>>

events == <<canBreak, waitForDebugEvent, waitForContinue>>
published == <<lastStackPointer, lastThreadID, handledLastEvent>>
session == <<isDebugging, int1, kernelDebugStarted>>
threadState == <<kpc, context, saved, handled>>

\* What interrupt1_handler returns: the exception is swallowed or goes to Windows.
Verdicts == {"handled", "windows"}

NoOrder == [context |-> CHOOSE c \in Contexts : TRUE, verdict |-> "none"]

ThreadSteps == {"run", "canbreak", "publish", "notify", "stopped", "woken",
                "release", "restore"}

ClientSteps == {"off", "loop", "waiting", "received", "paused", "continue"}

(***************************************************************************)
(* A debug exception reaches the handler.  With interrupts disabled in the *)
(* interrupted code, or above passive level, it is swallowed at once; with *)
(* debugging off, or interrupt 1 not redirected, Windows gets it.          *)
(***************************************************************************)
Raise(t) ==
  /\ kpc[t] = "run"
  /\ budget.breaks > 0
  /\ budget' = [budget EXCEPT !.breaks = @ - 1]

PassToWindows(t) ==
  /\ Raise(t)
  /\ ~(int1 /\ isDebugging)
  /\ handled' = [handled EXCEPT ![t] = "windows"]
  /\ UNCHANGED <<events, published, session, kpc, context, saved, client, told>>

SwallowBreak(t) ==
  /\ Raise(t)
  /\ int1 /\ isDebugging
  /\ handled' = [handled EXCEPT ![t] = "handled"]
  /\ UNCHANGED <<events, published, session, kpc, context, saved, client, told>>

\* The registers are saved, the debug registers cleared, interrupts enabled.
EnterHandler(t) ==
  /\ Raise(t)
  /\ int1 /\ isDebugging
  /\ saved' = [saved EXCEPT ![t] = context[t]]
  /\ kpc' = [kpc EXCEPT ![t] = "canbreak"]
  /\ told' = [told EXCEPT ![t] = NoOrder]
  /\ UNCHANGED <<events, published, session, context, handled, client>>

(***************************************************************************)
(* breakpointHandler_kernel                                                *)
(***************************************************************************)
WaitCanBreak(t) ==
  /\ kpc[t] = "canbreak"
  /\ canBreak
  /\ canBreak' = FALSE
  /\ kpc' = [kpc EXCEPT ![t] = "publish"]
  /\ UNCHANGED <<waitForDebugEvent, waitForContinue, published, session,
                 context, saved, handled, client, told, budget>>

PublishStack(t) ==
  /\ kpc[t] = "publish"
  /\ lastStackPointer' = t
  /\ lastThreadID' = t
  /\ kpc' = [kpc EXCEPT ![t] = "notify"]
  /\ UNCHANGED <<events, handledLastEvent, session, context, saved, handled,
                 client, told, budget>>

NotifyUsermode(t) ==
  /\ kpc[t] = "notify"
  /\ waitForDebugEvent' = TRUE
  /\ kpc' = [kpc EXCEPT ![t] = "stopped"]
  /\ UNCHANGED <<canBreak, waitForContinue, published, session, context, saved,
                 handled, client, told, budget>>

WaitForContinue(t) ==
  /\ kpc[t] = "stopped"
  /\ waitForContinue
  /\ waitForContinue' = FALSE
  /\ kpc' = [kpc EXCEPT ![t] = "woken"]
  /\ UNCHANGED <<canBreak, waitForDebugEvent, published, session, context,
                 saved, handled, client, told, budget>>

TakeVerdict(t) ==
  /\ kpc[t] = "woken"
  /\ handled' = [handled EXCEPT ![t] = handledLastEvent]
  /\ lastStackPointer' = NoThread
  /\ kpc' = [kpc EXCEPT ![t] = "release"]
  /\ UNCHANGED <<events, lastThreadID, handledLastEvent, session, context,
                 saved, client, told, budget>>

ReleaseCanBreak(t) ==
  /\ kpc[t] = "release"
  /\ canBreak' = TRUE
  /\ kpc' = [kpc EXCEPT ![t] = "restore"]
  /\ UNCHANGED <<waitForDebugEvent, waitForContinue, published, session,
                 context, saved, handled, client, told, budget>>

\* The thread leaves the handler with the registers left in its frame.
LeaveHandler(t) ==
  /\ kpc[t] = "restore"
  /\ context' = [context EXCEPT ![t] = saved[t]]
  /\ kpc' = [kpc EXCEPT ![t] = "run"]
  /\ UNCHANGED <<events, published, session, saved, handled, client, told, budget>>

(***************************************************************************)
(* The device controls.  GETDEBUGGERSTATE and SETDEBUGGERSTATE fail while  *)
(* no stack is published.                                                  *)
(***************************************************************************)
GetDebuggerState(cs) ==
  IF lastStackPointer = NoThread
  THEN [cs EXCEPT !.thread = lastThreadID]
  ELSE [thread |-> lastThreadID, context |-> saved[lastStackPointer]]

SetDebuggerState(c) ==
  saved' = IF lastStackPointer = NoThread THEN saved
           ELSE [saved EXCEPT ![lastStackPointer] = c]

ContinueDebugEvent(v) ==
  /\ handledLastEvent' = v
  /\ waitForContinue' = TRUE

(***************************************************************************)
(* TDebuggerthread.Execute over TKernelDebugInterface.  injected counts    *)
(* the thread events TThreadPoller queued.                                 *)
(***************************************************************************)
PollerInjects ==
  /\ client.pc # "off"
  /\ budget.injected > 0
  /\ budget' = [budget EXCEPT !.injected = @ - 1]
  /\ client' = [client EXCEPT !.injected = @ + 1]
  /\ UNCHANGED <<events, published, session, threadState, told>>

\* Mutant: needsToContinue stays what the last wait made it.
WaitInjected_stale ==
  /\ client.pc = "loop"
  /\ client.injected > 0
  /\ client' = [client EXCEPT !.pc = "paused", !.injected = @ - 1]
  /\ UNCHANGED <<events, published, session, threadState, told, budget>>

\* WaitForDebugEvent: an injected event goes first; nothing is paused by it.
WaitInjected ==
  /\ client.pc = "loop"
  /\ client.injected > 0
  /\ client' = [client EXCEPT !.pc = "paused", !.injected = @ - 1,
                              !.needsToContinue = FALSE]
  /\ UNCHANGED <<events, published, session, threadState, told, budget>>

WaitDriver ==
  /\ client.pc = "loop"
  /\ client.injected = 0
  /\ client' = [client EXCEPT !.pc = "waiting", !.needsToContinue = TRUE]
  /\ UNCHANGED <<events, published, session, threadState, told, budget>>

WaitSignalled ==
  /\ client.pc = "waiting"
  /\ waitForDebugEvent
  /\ waitForDebugEvent' = FALSE
  /\ client' = [client EXCEPT !.pc = "received"]
  /\ UNCHANGED <<canBreak, waitForContinue, published, session, threadState,
                 told, budget>>

WaitTimedOut ==
  /\ client.pc = "waiting"
  /\ ~waitForDebugEvent
  /\ client' = [client EXCEPT !.pc = "loop"]
  /\ UNCHANGED <<events, published, session, threadState, told, budget>>

FetchState ==
  /\ client.pc = "received"
  /\ client' = [client EXCEPT !.pc = "paused", !.state = GetDebuggerState(@)]
  /\ UNCHANGED <<events, published, session, threadState, told, budget>>

\* SetThreadContext of the thread the event is about.
EditContext(c) ==
  /\ client.pc = "paused"
  /\ client.needsToContinue
  /\ c # client.state.context
  /\ client' = [client EXCEPT !.state.context = c]
  /\ SetDebuggerState(c)
  /\ UNCHANGED <<events, published, session, kpc, context, handled, told, budget>>

\* ContinueDebugEvent: the state is written back, then the thread let go.
WriteBack ==
  /\ client.pc = "paused"
  /\ IF client.needsToContinue
     THEN SetDebuggerState(client.state.context)
     ELSE saved' = saved
  /\ client' = [client EXCEPT !.pc = IF client.needsToContinue
                                   THEN "continue" ELSE "loop"]
  /\ UNCHANGED <<events, published, session, kpc, context, handled, told, budget>>

Continue(v) ==
  /\ client.pc = "continue"
  /\ ContinueDebugEvent(v)
  /\ client' = [client EXCEPT !.pc = "loop", !.needsToContinue = FALSE]
  /\ told' = [told EXCEPT ![client.state.thread] =
                 [context |-> client.state.context, verdict |-> v]]
  /\ UNCHANGED <<canBreak, waitForDebugEvent, lastStackPointer, lastThreadID,
                 session, threadState, budget>>

\* A new interface object; its create-process event stands for the injected ones.
NewClient ==
  [pc |-> "loop", needsToContinue |-> FALSE, injected |-> 1,
   state |-> [thread |-> NoThread, context |-> CHOOSE c \in Contexts : TRUE]]

\* DBKDebug_StartDebugging: interrupts are hooked only if the unit did not do it.
StartDebugging ==
  /\ client.pc = "off"
  /\ budget.starts > 0
  /\ budget' = [budget EXCEPT !.starts = @ - 1]
  /\ int1' = IF kernelDebugStarted THEN int1 ELSE TRUE
  /\ kernelDebugStarted' = TRUE
  /\ isDebugging' = TRUE
  /\ client' = NewClient
  /\ UNCHANGED <<events, published, threadState, told>>

\* The debugger thread has left its loop; debugger_stopDebugging unhooks.
StopDebugging ==
  /\ client.pc = "loop"
  /\ isDebugging' = FALSE
  /\ int1' = FALSE
  /\ client' = [client EXCEPT !.pc = "off"]
  /\ UNCHANGED <<events, published, kernelDebugStarted, threadState, told, budget>>

KD_Init ==
  /\ canBreak = TRUE /\ waitForDebugEvent = FALSE /\ waitForContinue = FALSE
  /\ lastStackPointer = NoThread /\ lastThreadID = NoThread
  /\ handledLastEvent = "windows"
  /\ isDebugging = FALSE /\ int1 = FALSE /\ kernelDebugStarted = FALSE
  /\ kpc = [t \in Threads |-> "run"]
  /\ \E c \in Contexts : context = [t \in Threads |-> c]
  /\ saved = context
  /\ handled = [t \in Threads |-> "windows"]
  /\ client = [NewClient EXCEPT !.pc = "off", !.injected = 0]
  /\ told = [t \in Threads |-> NoOrder]
  /\ budget = [breaks |-> KD_MaxBreaks, injected |-> KD_MaxInjected,
               starts |-> KD_MaxStarts]

HandlerStep(t) ==
  \/ WaitCanBreak(t) \/ PublishStack(t) \/ NotifyUsermode(t)
  \/ WaitForContinue(t) \/ TakeVerdict(t) \/ ReleaseCanBreak(t)
  \/ LeaveHandler(t)

ClientStep ==
  \/ WaitInjected \/ WaitDriver \/ WaitSignalled \/ WaitTimedOut
  \/ FetchState \/ WriteBack \/ \E v \in Verdicts : Continue(v)

KD_Next ==
  \/ \E t \in Threads :
       PassToWindows(t) \/ SwallowBreak(t) \/ EnterHandler(t) \/ HandlerStep(t)
  \/ PollerInjects
  \/ ClientStep
  \/ \E c \in Contexts : EditContext(c)
  \/ StartDebugging
  \/ StopDebugging

KD_Spec == KD_Init /\ [][KD_Next]_kdVars

(***************************************************************************)
(* Properties                                                              *)
(***************************************************************************)

\* The events, the published stack and the client keep their types.
KD_TypeOK ==
  /\ canBreak \in BOOLEAN /\ waitForDebugEvent \in BOOLEAN
  /\ waitForContinue \in BOOLEAN
  /\ lastStackPointer \in Threads \cup {NoThread}
  /\ lastThreadID \in Threads \cup {NoThread}
  /\ handledLastEvent \in Verdicts
  /\ isDebugging \in BOOLEAN /\ int1 \in BOOLEAN /\ kernelDebugStarted \in BOOLEAN
  /\ kpc \in [Threads -> ThreadSteps]
  /\ context \in [Threads -> Contexts] /\ saved \in [Threads -> Contexts]
  /\ handled \in [Threads -> Verdicts]
  /\ client \in [pc : ClientSteps, needsToContinue : BOOLEAN, injected : Nat,
                  state : [thread : Threads \cup {NoThread}, context : Contexts]]
  /\ told \in [Threads -> [context : Contexts, verdict : Verdicts \cup {"none"}]]
  /\ budget \in [breaks : Nat, injected : Nat, starts : Nat]

\* Between the wait for CanBreak and its release ("block other threads from
\* breaking until this one has been handled").
Holding == {"publish", "notify", "stopped", "woken", "release"}

\* One thread at a time holds the right to break, and CanBreak is signalled
\* exactly when none does: it is never lost and never given twice.
OneBreaks ==
  /\ \A t, u \in Threads : kpc[t] \in Holding /\ kpc[u] \in Holding => t = u
  /\ canBreak <=> \A t \in Threads : kpc[t] \notin Holding

\* The thread an event is about stays published and stopped from the moment
\* WaitForDebugEvent reports it until ContinueDebugEvent: the state the client
\* fetches and writes is that thread's, and the state calls cannot fail.
ReportedIsStopped ==
  client.needsToContinue /\ client.pc \in {"received", "paused", "continue"} =>
    /\ lastStackPointer # NoThread
    /\ kpc[lastStackPointer] = "stopped"
    /\ client.pc # "received" => client.state.thread = lastStackPointer

\* A continue is pending only for a stopped thread whose event the client
\* answered: answering an injected event, or one already answered, never lets
\* the next thread to break run on unseen.
ContinueIsAwaited ==
  waitForContinue =>
    \E t \in Threads : kpc[t] = "stopped" /\ told[t].verdict # "none"

\* A thread leaves the handler with the registers and the verdict the client
\* sent for this exception, whatever other threads broke or were continued.
ResumesAsTold ==
  [][\A t \in Threads :
       kpc[t] = "restore" /\ kpc'[t] = "run" =>
         context'[t] = told[t].context /\ handled[t] = told[t].verdict]_kdVars

\* A thread that broke runs again, unless the debugger is stopped.
BreakEnds ==
  \A t \in Threads : []<>(kpc[t] = "run" \/ client.pc = "off")

\* startDebugging is to be called "AFTER the interrupts are hooked": while a
\* process is debugged its debug exceptions reach the handler.  It does not hold,
\* and no run checks it: a second start finds KernelDebugStarted set, hooks
\* nothing, and debugs with the interrupts that stopDebugging has unhooked.
HookedWhileDebugging == isDebugging => int1

\* Threads that break together stay apart in the handler, which has one stack pointer
\* and one verdict for all: one is published at a time, the client reads, edits and
\* continues that one, and each resumes as it was told.
BreaksKeptApart ==
  /\ [](OneBreaks /\ ReportedIsStopped /\ ContinueIsAwaited)
  /\ ResumesAsTold
=============================================================================
