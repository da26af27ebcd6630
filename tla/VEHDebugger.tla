---------------------------- MODULE VEHDebugger ----------------------------
(***************************************************************************)
(* The VEH debugger: a DLL in the target whose exception handler publishes *)
(* each exception in shared memory and waits for Cheat Engine's answer     *)
(* (VEHDebug/DebugHandler.pas, init.pas, threadpoll.pas), and the debugger *)
(* interface that answers (VEHDebugger.pas).                               *)
(*                                                                         *)
(* Everyone who has something to report goes through InternalHandler: the  *)
(* threads that raise exceptions, the thread that initialises the DLL and  *)
(* the poller that looks for new and ended threads.  HandlerCS, a          *)
(* recursive critical section, lets one of them report at a time.  Each    *)
(* attachment has shared memory and events of its own.                     *)
(***************************************************************************)
EXTENDS Integers, Sequences, FiniteSets

CONSTANTS
    VD_Threads,       \* threads of the target
    RealContext,      \* TPOLL_TCREATEREALCONTEXT: create events carry a context
    ListMax,          \* highest index of NoBreakList (63)
    VD_MaxExceptions, \* bound: exceptions raised
    VD_MaxAttach,     \* bound: times Cheat Engine attaches
    VD_MaxListOps     \* bound: changes of the no-break list

ASSUME VDAssumption ==
    /\ IsFiniteSet(VD_Threads) /\ {"init", "poller", "nobody"} \cap VD_Threads = {}
    /\ RealContext \in BOOLEAN
    /\ ListMax \in Nat
    /\ VD_MaxExceptions \in Nat /\ VD_MaxAttach \in Nat /\ VD_MaxListOps \in Nat

Actors == VD_Threads \cup {"init", "poller"}
Nobody == "nobody"

VARIABLES
    alive,         \* threads that exist
    suspended,     \* threads the poller has suspended
    registered,    \* the vectored exception handler is installed
    view,          \* VEHSharedMem: the attachment the DLL has mapped, 0 = none
    overtaken,     \* history: a report was on its way to the memory when view last changed
    shm,           \* the shared memory of each attachment, with its two events
    handlerCS,     \* HandlerCS: owner and depth
    emergency,     \* the event "emergency"
    ih,            \* where each actor is in InternalHandler
    initializer,   \* where InitializeVEH is, and the threads still to be sent
    poller,        \* the thread poller: threadlist, and the differences to report
    unloading,     \* a thread is on its way to UnloadVEH
    ce,            \* Cheat Engine: debugger thread, attachment, event, no-break list
    vdCount        \* what has been used of the bounds

vdVars == <<alive, suspended, registered, view, overtaken, shm, handlerCS, emergency, ih,
            initializer, poller, unloading, ce, vdCount>>
target == <<alive, suspended, registered>>
mapping == <<view, overtaken>>
memory == <<mapping, shm>>
handlers == <<handlerCS, emergency, ih>>
dll == <<initializer, poller, unloading>>

Sessions == 1 .. VD_MaxAttach

\* The memory after ZeroMemory in DebugActiveProcess
ZeroMemory == [tid |-> Nobody, code |-> "none", hasDebugEvent |-> FALSE,
               hasHandled |-> FALSE, size |-> 0, list |-> <<>>]

Out == [at |-> "out", tid |-> Nobody, code |-> "none", session |-> 0]

-----------------------------------------------------------------------------
\* Actor a calls InternalHandler to report "code" about thread t
Call(a, t, code) == [at |-> "enter", tid |-> t, code |-> code, session |-> 0]

\* HandlerCS.Enter and HandlerCS.Leave of a recursive critical section
MayEnter(a) == handlerCS.owner \in {Nobody, a} /\ a \notin suspended
VD_Entered(a) == [owner |-> a, depth |-> handlerCS.depth + 1]
Left == IF handlerCS.depth = 1 THEN [owner |-> Nobody, depth |-> 0]
                               ELSE [handlerCS EXCEPT !.depth = @ - 1]

HandlerEnter(a) ==
    /\ ih[a].at = "enter" /\ MayEnter(a)
    /\ handlerCS' = VD_Entered(a)
    /\ ih' = [ih EXCEPT ![a].at = "record"]
    /\ UNCHANGED <<target, memory, emergency, dll, ce, vdCount>>

\* One of the stores of InternalHandler, from one of its statements to the next.  Every
\* one of them reads VEHSharedMem again.
Stores(a, from, to) ==
    /\ ih[a].at = from /\ a \notin suspended
    /\ ih' = [ih EXCEPT ![a].at = to]
    /\ UNCHANGED <<target, mapping, handlerCS, emergency, dll, ce, vdCount>>

\* The exception record and the context
StoreRecord(a) ==
    /\ Stores(a, "record", "thread")
    /\ shm' = [shm EXCEPT ![view].code = ih[a].code]

\* ProcessID and ThreadID
StoreThread(a) ==
    /\ Stores(a, "thread", "event")
    /\ shm' = [shm EXCEPT ![view].tid = ih[a].tid]

\* SetEvent(VEHSharedMem.HasDebugEvent)
SignalEvent(a) ==
    /\ Stores(a, "event", "handle")
    /\ shm' = [shm EXCEPT ![view].hasDebugEvent = TRUE]

\* eventhandles[0] := VEHSharedMem.HasHandledDebugEvent
TakeHandle(a) ==
    /\ ih[a].at = "handle" /\ a \notin suspended
    /\ ih' = [ih EXCEPT ![a].at = "wait", ![a].session = view]
    /\ UNCHANGED <<target, memory, handlerCS, emergency, dll, ce, vdCount>>

\* The answer is there, or else everybody is told to get out
HandlerReturn(a) ==
    LET s == ih[a].session IN
    /\ ih[a].at = "wait" /\ a \notin suspended
    /\ \/ shm[s].hasHandled /\ shm' = [shm EXCEPT ![s].hasHandled = FALSE]
       \/ ~shm[s].hasHandled /\ emergency /\ UNCHANGED shm
    /\ handlerCS' = Left
    /\ ih' = [ih EXCEPT ![a] = Out]
    /\ suspended' = IF a = "poller" THEN suspended \ {ih[a].tid} ELSE suspended
    /\ UNCHANGED <<alive, registered, mapping, emergency, dll, ce, vdCount>>

VD_HandlerStep(a) ==
    \/ HandlerEnter(a) \/ StoreRecord(a) \/ StoreThread(a) \/ SignalEvent(a)
    \/ TakeHandle(a) \/ HandlerReturn(a)

-----------------------------------------------------------------------------
\* Handler: is the thread on the no-break list of the shared memory?
OnNoBreakList(t) ==
    \E i \in 1 .. shm[view].size : i <= Len(shm[view].list) /\ shm[view].list[i] = t

CanRaise(t) ==
    /\ t \in alive \ suspended /\ registered /\ ih[t].at = "out"
    /\ vdCount.exceptions < VD_MaxExceptions
    /\ vdCount' = [vdCount EXCEPT !.exceptions = @ + 1]

\* A single step of a thread that is not to break: back with the resume flag
SkipBreak(t) ==
    /\ CanRaise(t) /\ OnNoBreakList(t)
    /\ UNCHANGED <<target, memory, handlers, dll, ce>>

\* Any other single step
RaiseStep(t) ==
    /\ CanRaise(t) /\ ~OnNoBreakList(t)
    /\ ih' = [ih EXCEPT ![t] = Call(t, t, "step")]
    /\ UNCHANGED <<target, memory, handlerCS, emergency, dll, ce>>

\* Another exception, which the list does not hold back
RaiseOther(t) ==
    /\ CanRaise(t)
    /\ ih' = [ih EXCEPT ![t] = Call(t, t, "exception")]
    /\ UNCHANGED <<target, memory, handlerCS, emergency, dll, ce>>

ThreadStarts(t) ==
    /\ t \notin alive /\ vdCount.ended = 0
    /\ alive' = alive \cup {t}
    /\ UNCHANGED <<suspended, registered, memory, handlers, dll, ce, vdCount>>

ThreadEnds(t) ==
    /\ t \in alive \ suspended /\ ih[t].at = "out" /\ vdCount.ended = 0
    /\ alive' = alive \ {t}
    /\ vdCount' = [vdCount EXCEPT !.ended = 1]
    /\ UNCHANGED <<suspended, registered, memory, handlers, dll, ce>>

-----------------------------------------------------------------------------
\* TThreadPoller.execute: the list to compare with is taken when it starts to run
NoPoller == [at |-> "none", known |-> {}, creates |-> {}, ends |-> {}]

PollerStarts ==
    /\ poller.at = "created"
    /\ poller' = [poller EXCEPT !.at = "loop", !.known = alive]
    /\ UNCHANGED <<target, memory, handlers, initializer, unloading, ce, vdCount>>

PollerIdle ==
    /\ poller.at = "loop" /\ ih["poller"].at = "out"
    /\ poller.creates = {} /\ poller.ends = {}

\* UpdateList: the new list, and what it has more and less than the old one
UpdateList ==
    /\ PollerIdle /\ alive # poller.known
    /\ poller' = [poller EXCEPT !.known = alive, !.creates = alive \ poller.known,
                                !.ends = poller.known \ alive]
    /\ UNCHANGED <<target, memory, handlers, initializer, unloading, ce, vdCount>>

\* CreateThreadEvent: on request the thread is suspended until it is answered
CreateThreadEvent(t) ==
    /\ t \in poller.creates /\ ih["poller"].at = "out"
    /\ poller' = [poller EXCEPT !.creates = @ \ {t}]
    /\ ih' = [ih EXCEPT !["poller"] = Call("poller", t, "create thread")]
    /\ suspended' = IF RealContext THEN suspended \cup ({t} \cap alive) ELSE suspended
    /\ UNCHANGED <<alive, registered, memory, handlerCS, emergency, initializer,
                   unloading, ce, vdCount>>

DestroyThreadEvent(t) ==
    /\ t \in poller.ends /\ poller.creates = {} /\ ih["poller"].at = "out"
    /\ poller' = [poller EXCEPT !.ends = @ \ {t}]
    /\ ih' = [ih EXCEPT !["poller"] = Call("poller", t, "exit thread")]
    /\ UNCHANGED <<target, memory, handlerCS, emergency, initializer, unloading, ce,
                   vdCount>>

-----------------------------------------------------------------------------
\* InitializeVEH, from one of its statements to the next
InitGoes(from, to) ==
    initializer.at = from /\ initializer' = [initializer EXCEPT !.at = to]

\* UnloadVEH; testandfixcs_start
InitUnload ==
    /\ InitGoes("start", "join")
    /\ registered' = FALSE
    /\ emergency' = TRUE
    /\ UNCHANGED <<alive, suspended, memory, handlerCS, ih, poller, unloading, ce, vdCount>>

\* ThreadPoller.Terminate and WaitFor
InitJoin ==
    /\ InitGoes("join", "fix") /\ (PollerIdle \/ poller.at # "loop")
    /\ poller' = NoPoller
    /\ UNCHANGED <<target, memory, handlers, unloading, ce, vdCount>>

\* testandfixcs_final: in and out of HandlerCS, then "emergency" is reset
InitFix ==
    /\ InitGoes("fix", "map") /\ MayEnter("init")
    /\ emergency' = FALSE
    /\ UNCHANGED <<target, memory, handlerCS, ih, poller, unloading, ce, vdCount>>

\* A report that has stored something and has not taken its handle yet
Storing(a) == ih[a].at \in {"thread", "event", "handle"}

\* MapViewOfFile, outside HandlerCS
InitMap ==
    /\ InitGoes("map", "hold")
    /\ view' = ce.session
    /\ overtaken' = \E a \in Actors : Storing(a)
    /\ UNCHANGED <<target, shm, handlers, poller, unloading, ce, vdCount>>

\* Mutant: HandlerCS is not entered while the threads are sent.
InitHold_open ==
    /\ initializer.at = "hold"
    /\ registered' = TRUE
    /\ initializer' = [at |-> "process", todo |-> alive]
    /\ UNCHANGED <<alive, suspended, memory, handlers, poller, unloading, ce, vdCount>>

\* HandlerCS.Enter, AddVectoredExceptionHandler, and the snapshot of the threads
InitHold ==
    /\ initializer.at = "hold" /\ MayEnter("init")
    /\ handlerCS' = VD_Entered("init")
    /\ registered' = TRUE
    /\ initializer' = [at |-> "process", todo |-> alive]
    /\ UNCHANGED <<alive, suspended, memory, emergency, ih, poller, unloading, ce, vdCount>>

\* The next thread of the snapshot: the first stands for the process
InitSend(t) ==
    /\ initializer.at \in {"process", "threads"} /\ ih["init"].at = "out"
    /\ t \in initializer.todo
    /\ ih' = [ih EXCEPT !["init"] = Call("init", t,
                IF initializer.at = "process" THEN "create process" ELSE "create thread")]
    /\ initializer' = [at |-> "threads", todo |-> initializer.todo \ {t}]
    /\ UNCHANGED <<target, memory, handlerCS, emergency, poller, unloading, ce, vdCount>>

\* All sent: the poller starts, and a made-up breakpoint tells of the attachment
InitAttached ==
    /\ InitGoes("threads", "attached") /\ initializer.todo = {} /\ ih["init"].at = "out"
    /\ poller' = [NoPoller EXCEPT !.at = "created"]
    /\ ih' = [ih EXCEPT !["init"] = Call("init", "init", "breakpoint")]
    /\ UNCHANGED <<target, memory, handlerCS, emergency, unloading, ce, vdCount>>

\* Mutant: InitializeVEH returns inside HandlerCS.
InitRelease_inside ==
    /\ InitGoes("attached", "none") /\ ih["init"].at = "out"
    /\ UNCHANGED <<target, memory, handlers, poller, unloading, ce, vdCount>>

InitRelease ==
    /\ InitGoes("attached", "none") /\ ih["init"].at = "out"
    /\ handlerCS' = Left
    /\ UNCHANGED <<target, memory, emergency, ih, poller, unloading, ce, vdCount>>

InitStep ==
    \/ InitUnload \/ InitJoin \/ InitFix \/ InitMap \/ InitHold
    \/ \E t \in VD_Threads : InitSend(t)
    \/ InitAttached \/ InitRelease

-----------------------------------------------------------------------------
\* DebugActiveProcess: new memory and events, and InitializeVEH in the target
DebugActiveProcess ==
    /\ ce.at = "off" /\ initializer.at = "none" /\ ce.session < VD_MaxAttach
    /\ ce' = [ce EXCEPT !.at = "loop", !.session = @ + 1, !.seen = {},
                        !.noBreakList = <<>>, !.syncing = FALSE]
    /\ initializer' = [at |-> "start", todo |-> {}]
    /\ UNCHANGED <<target, memory, handlers, poller, unloading, vdCount>>

\* WaitForDebugEvent
WaitForDebugEvent ==
    LET s == ce.session IN
    /\ ce.at = "loop" /\ shm[s].hasDebugEvent
    /\ shm' = [shm EXCEPT ![s].hasDebugEvent = FALSE]
    /\ ce' = [ce EXCEPT !.at = "event", !.tid = shm[s].tid, !.code = shm[s].code,
                        !.seen = @ \cup {shm[s].code}]
    /\ UNCHANGED <<target, mapping, handlers, dll, vdCount>>

\* ContinueDebugEvent
VD_ContinueDebugEvent ==
    /\ ce.at = "event"
    /\ shm' = [shm EXCEPT ![ce.session].hasHandled = TRUE]
    /\ ce' = [ce EXCEPT !.at = "loop"]
    /\ UNCHANGED <<target, mapping, handlers, dll, vdCount>>

\* DebugActiveProcessStop starts UnloadVEH in the target.  (The user is taken to
\* stop only once the attachment is complete.)
DebugActiveProcessStop ==
    /\ ce.at = "loop" /\ initializer.at = "none"
    /\ ce' = [ce EXCEPT !.at = "off"]
    /\ unloading' = TRUE
    /\ UNCHANGED <<target, memory, handlers, initializer, poller, vdCount>>

UnloadVEH ==
    /\ unloading
    /\ unloading' = FALSE
    /\ registered' = FALSE
    /\ UNCHANGED <<alive, suspended, memory, handlers, initializer, poller, ce, vdCount>>

-----------------------------------------------------------------------------
\* AddToNoBreakList and RemoveFromNoBreakList change Cheat Engine's own list ...
ListOp(list) ==
    /\ ce.at # "off" /\ ~ce.syncing /\ vdCount.listOps < VD_MaxListOps
    /\ ce' = [ce EXCEPT !.noBreakList = list, !.syncing = TRUE]
    /\ vdCount' = [vdCount EXCEPT !.listOps = @ + 1]
    /\ UNCHANGED <<target, memory, handlers, dll>>

AddToNoBreakList(t) ==
    /\ \A i \in 1 .. Len(ce.noBreakList) : ce.noBreakList[i] # t
    /\ ListOp(Append(ce.noBreakList, t))

RemoveFromNoBreakList(t) ==
    \E i \in 1 .. Len(ce.noBreakList) :
       /\ ce.noBreakList[i] = t
       /\ ListOp([j \in 1 .. Len(ce.noBreakList) - 1 |->
                    ce.noBreakList[IF j < i THEN j ELSE j + 1]])

Least(a, b) == IF a < b THEN a ELSE b

\* ... and SynchronizeNoBreakList copies it: the entries, over what was there ...
SyncEntries(list, old) ==
    LET n == Least(ListMax, Len(list) - 1) + 1 IN
    SubSeq(list, 1, n) \o SubSeq(old, n + 1, Len(old))

\* Mutant: one entry too many is counted.
SyncSize_long(list) == Least(ListMax, Len(list)) + 1

\* ... and then the size, for which it takes the last index
SyncSize(list) == Least(ListMax, Len(list) - 1)

SynchronizeNoBreakList ==
    LET m == shm[ce.session]
        entries == SyncEntries(ce.noBreakList, m.list)
    IN  /\ ce.syncing
        /\ \/ /\ m.list # entries
              /\ shm' = [shm EXCEPT ![ce.session].list = entries]
              /\ UNCHANGED ce
           \/ /\ m.list = entries
              /\ shm' = [shm EXCEPT ![ce.session].size = SyncSize(ce.noBreakList)]
              /\ ce' = [ce EXCEPT !.syncing = FALSE]
        /\ UNCHANGED <<target, mapping, handlers, dll, vdCount>>
-----------------------------------------------------------------------------
VD_Init ==
    /\ alive \in SUBSET VD_Threads \ {{}}
    /\ suspended = {}
    /\ registered = FALSE
    /\ view = 0 /\ overtaken = FALSE
    /\ shm = [i \in Sessions |-> ZeroMemory]
    /\ handlerCS = [owner |-> Nobody, depth |-> 0]
    /\ emergency = FALSE
    /\ ih = [a \in Actors |-> Out]
    /\ initializer = [at |-> "none", todo |-> {}]
    /\ poller = NoPoller
    /\ unloading = FALSE
    /\ ce = [at |-> "off", session |-> 0, tid |-> Nobody, code |-> "none",
             seen |-> {}, noBreakList |-> <<>>, syncing |-> FALSE]
    /\ vdCount = [exceptions |-> 0, ended |-> 0, listOps |-> 0]

PollerStep ==
    \/ PollerStarts \/ UpdateList
    \/ \E t \in VD_Threads : CreateThreadEvent(t) \/ DestroyThreadEvent(t)
CEStep == WaitForDebugEvent \/ VD_ContinueDebugEvent

VD_Next ==
    \/ \E a \in Actors : VD_HandlerStep(a)
    \/ \E t \in VD_Threads :
          \/ SkipBreak(t) \/ RaiseStep(t) \/ RaiseOther(t)
          \/ ThreadStarts(t) \/ ThreadEnds(t)
          \/ AddToNoBreakList(t) \/ RemoveFromNoBreakList(t)
    \/ PollerStep \/ InitStep \/ CEStep
    \/ DebugActiveProcess \/ DebugActiveProcessStop \/ UnloadVEH
    \/ SynchronizeNoBreakList

VD_Spec == VD_Init /\ [][VD_Next]_vdVars

-----------------------------------------------------------------------------
Codes == {"none", "step", "exception", "breakpoint", "create process",
          "create thread", "exit thread"}
Tids == Actors \cup {Nobody}

\* The DLL's and the interface's state is of the declared types
VD_TypeOK ==
    /\ alive \subseteq VD_Threads /\ suspended \subseteq VD_Threads
    /\ registered \in BOOLEAN /\ emergency \in BOOLEAN /\ overtaken \in BOOLEAN
    /\ view \in 0 .. VD_MaxAttach
    /\ \A i \in Sessions :
          shm[i].tid \in Tids /\ shm[i].code \in Codes /\ Len(shm[i].list) <= ListMax + 1
    /\ handlerCS.owner \in Tids /\ handlerCS.depth \in 0 .. 2
    /\ \A a \in Actors : ih[a].at \in {"out", "enter", "record", "thread", "event", "handle", "wait"}

\* Actor a, inside HandlerCS, waits for the answer of attachment s, or is about to
Awaits(a, s) ==
    /\ handlerCS.owner = a
    /\ \/ ih[a].at = "handle" /\ view = s
       \/ ih[a].at = "wait" /\ ih[a].session = s

\* Between WaitForDebugEvent and ContinueDebugEvent the shared memory belongs to
\* the event Cheat Engine handles: whoever reported it still holds HandlerCS and
\* waits (or is about to), so the record and the context that are read and written there
\* are that thread's.
EventIsHeld ==
    ce.at = "event" /\ ~overtaken =>
        \E a \in Actors :
            /\ Awaits(a, ce.session)
            /\ ih[a].tid = ce.tid /\ ih[a].code = ce.code
            /\ shm[ce.session].tid = ce.tid /\ shm[ce.session].code = ce.code

\* An answer is only ever there for somebody waiting: it cannot be taken for the
\* answer to the next event.
AnswerIsAwaited ==
    ce.session > 0 /\ ~overtaken /\ shm[ce.session].hasHandled =>
        \E a \in Actors : Awaits(a, ce.session)

\* "do not handle any external exception while the threadlist is sent to ce": in
\* the first attachment nothing is seen before the creation of the process.  (In a
\* later one, a thread that was still waiting for HandlerCS may be.)
CreateProcessFirst ==
    ce.session = 1 /\ ce.seen # {} => "create process" \in ce.seen

\* A thread is kept from breaking only while Cheat Engine has it on its list.
SkippedIsListed ==
    \A t \in VD_Threads :
        registered /\ view = ce.session /\ ~ce.syncing /\ OnNoBreakList(t) =>
            \E i \in 1 .. Len(ce.noBreakList) : ce.noBreakList[i] = t

\* NoBreakListSize is the "number of entries in the nobreaklist"
\* (VEHDebugSharedMem.pas): every thread on the list is kept from breaking.
\* It does not hold, and no run checks it: SynchronizeNoBreakList stores the last
\* index as the size, and the reader stops one entry early.
ListedIsSkipped ==
    \A i \in 1 .. Len(ce.noBreakList) :
        view = ce.session /\ ~ce.syncing /\ i <= ListMax + 1 =>
            OnNoBreakList(ce.noBreakList[i])

\* Whoever has something to report to the first attachment gets an answer, unless
\* Cheat Engine stops.  (In a later one a thread that was waiting for HandlerCS may
\* report to the memory of the earlier one, which nobody answers any more.)
EveryReportAnswered ==
    \A a \in Actors : []<>(ih[a].at = "out" \/ ce.at = "off" \/ ce.session # 1)

\* Reports of the target's threads, of the initialisation and of the poller stay apart
\* in the one shared memory: an event belongs to who waits for its answer, no answer is
\* left for the next event, and the creation of the process comes first.  For the first
\* attachment that is always so; for a later one only if no thread was storing a report
\* when InitializeVEH replaced VEHSharedMem, which HandlerCS does not prevent.
ReportsKeptApart ==
    /\ view <= 1 => ~overtaken
    /\ EventIsHeld /\ AnswerIsAwaited /\ CreateProcessFirst

\* Not true: a thread that waited for HandlerCS while InitializeVEH passed through it may
\* store a part of its report in the memory of the earlier attachment and the rest in the
\* new one, and Cheat Engine gets an event with another record.
ReportsStayWhole ==
    ce.at = "event" =>
        \E a \in Actors : ih[a].tid = ce.tid /\ ih[a].code = ce.code
=============================================================================
