-------------------------- MODULE Debugger_proofs --------------------------
(***************************************************************************)
(* Proofs about the ptrace debugger of ceserver (Debugger): for any number *)
(* of threads, clients and stops, what is recorded about a thread is what  *)
(* the kernel has done to it, and every stop has one holder.  The          *)
(* inductive invariant is DB_Inv of DebuggerStops_proofs.                  *)
(***************************************************************************)
EXTENDS DebuggerStops_proofs

\* WaitForDebugEvent reports the first event of the queue
LEMMA DB_WaitQueued ==
    ASSUME DB_Inv, Setting, WaitQueued
    PROVE  DB_Inv' /\ StayStopped
<1>1. /\ DB_Types /\ DB_Start /\ DB_Stack /\ DB_Calls /\ DB_Current /\ Core /\ ~crashed
      /\ stack # <<>> /\ top.pc = "entry" /\ top.op = "WaitForDebugEvent"
  BY Zenon DEF DB_Inv, at, WaitQueued
<1>2. debuggedThreadEvent.threadid = NoTid /\ reported = NoEvent
  BY <1>1, DB_Tids, DB_Events, ZenonT(40) DEF DB_Stack, Founded, DB_Current
<1>3. /\ debugEventQueue # <<>> /\ debuggedThreadEvent' = Head(debugEventQueue)
      /\ debugEventQueue' = Tail(debugEventQueue) /\ reported' = debuggedThreadEvent' /\ return
      /\ UNCHANGED <<kt, killed, stops, threadlist, td, dr, crashed>>
  BY <1>2, Zenon DEF WaitQueued, kernelVars
<1>4. /\ stack' \in Seq(Frames) /\ DB_Stack' /\ heldEvent' = NoEvent /\ Calling
      /\ heldEvent = NoEvent /\ DB_Start' /\ ~crashed'
  BY <1>1, <1>3, DB_OwnReturn, Zenon DEF EventCommands
<1>5. debugEventQueue \in Seq(Event)
  BY <1>1, Zenon DEF DB_Types
<1>6. /\ 1 \in 1 .. Len(debugEventQueue) /\ Lacks(debugEventQueue', debugEventQueue, 1)
      /\ debuggedThreadEvent' = debugEventQueue[1]
  BY <1>3, <1>5, DB_Taken, Zenon
<1>7. PICK e \in Event : e = debugEventQueue[1]
  BY <1>5, <1>6, DB_ElementOf, Zenon
<1>8. /\ debugEventQueue' \in Seq(Event) /\ Within /\ Once(debugEventQueue')
      /\ \A x \in Tids : Has(debugEventQueue', x) <=> Has(debugEventQueue, x) /\ ~real(e, x)
      /\ NoVirtual => NoVirtual'
  BY <1>1, <1>6, <1>7, DB_TakeOut, Zenon
<1>9. Right(e, kt) /\ e.threadid \in Tids /\ e.threadid # NoTid /\ NoEvent.threadid = NoTid
  BY <1>1, <1>6, <1>7, DB_Events, DB_Tids, ZenonT(40) DEF Core, DB_Queue, Right
<1>10. debuggedThreadEvent' = e /\ reported' = e
  BY <1>3, <1>6, <1>7, Zenon
<1>11. \A x \in Tids : ~real(debuggedThreadEvent, x)
  BY <1>2, DB_Tids, Zenon DEF real
<1>12. DB_Types' /\ DB_Calls' /\ DB_Current'
  BY <1>1, <1>3, <1>4, <1>8, <1>9, <1>10, DB_Undisturbed, Zenon DEF DB_Types, Calling,
     DB_Current
<1>13. StayStopped
  BY <1>3, Zenon DEF StayStopped, stopped
<1>14. CASE e.debugevent \in Virtual
  <2>1. \A x \in Tids : ~real(e, x)
    BY <1>14, Zenon DEF real
  <2>2. \A x \in Tids : Same(x)
    BY <1>3, <1>4, <1>8, <1>10, <1>11, <2>1, Zenon DEF Same
  <2>3. Core'
    BY <1>1, <1>8, <2>2, DB_Still, Zenon
  <2> QED BY <1>4, <1>12, <1>13, <2>3, Zenon DEF DB_Inv
<1>15. CASE e.debugevent \notin Virtual
  <2>1. PICK t \in Tids : t = e.threadid
    BY <1>9, Zenon
  <2>2. /\ real(e, t) /\ Taken(t) /\ ~isCurrent(t) /\ ~isSuspended(t) /\ td[t].isPaused
        /\ e = ev(t, kt[t].sig)
    BY <1>1, <1>6, <1>7, <1>15, <2>1, DB_Queued, Zenon
  <2>3. \A x \in Tids \ {t} : Same(x)
    BY <1>3, <1>4, <1>8, <1>10, <1>11, <2>1, Zenon DEF Same, real
  <2>4. ~inFrame(t)' /\ isCurrent(t)' /\ ~isSuspended(t)' /\ ~inQueue(t)'
    BY ZenonT(40), <1>3, <1>4, <1>8, <1>9, <1>10, <2>1, <2>2 DEF inFrame, inQueue, isCurrent, isSuspended
  <2>5. DB_Held(t)' /\ DB_Signal(t)'
    BY <1>3, <1>10, <2>2, <2>4, Zenon DEF DB_Held, DB_Signal, Taken
  <2>6. Core'
    BY <1>1, <1>3, <1>8, <2>3, <2>5, DB_Moved, Zenon
  <2> QED BY <1>4, <1>12, <1>13, <2>6, Zenon DEF DB_Inv
<1> QED BY <1>14, <1>15, Zenon

\* A command begins to wait, or waits on
LEMMA DB_Waits ==
    ASSUME DB_Inv, stack # <<>>, top.pc \in {"entry", "wait", "check"}, NoVirtual,
           top.op \in ThreadCommands \cup {"SuspendThread", "WaitForDebugEvent"},
           top.op # "WaitForDebugEvent" =>
              ~real(debuggedThreadEvent, aim(top)) /\ td[aim(top)].suspendCount = 0 /\ ~td[aim(top)].isPaused,
           setTop([top EXCEPT !.pc = "wait"]),
           UNCHANGED <<kt, killed, stops, threadlist, td, debugEventQueue, debuggedThreadEvent, dr,
                       reported, callVars, crashed>>
    PROVE  DB_Inv' /\ StayStopped
<1>1. DB_Types /\ DB_Start /\ DB_Stack
  BY Zenon DEF DB_Inv
<1>2. top \in Frames /\ Shape(top) /\ Founded(top)
  BY <1>1, DB_Target, Zenon DEF DB_Stack
<1>3. PICK f : f = [top EXCEPT !.pc = "wait"]
  BY Zenon
<1>4. Reaches(f, top, "wait")
  BY Zenon, <1>2, <1>3, DB_FrameUpdate
<1>5. aim(f) = aim(top) /\ f.op = top.op /\ f.tid = top.tid /\ f.pc = "wait" /\ ~f.was /\ Alike(f, top)
  BY <1>2, <1>4, Zenon DEF Reaches, Alike, aim, Shape
<1>6. Shape(f)
  BY <1>2, <1>5, Zenon DEF Shape, ThreadCommands, MemoryCommands, SuspendCommands
<1>7. Founded(f)
  BY <1>2, <1>5, Zenon DEF Founded, ThreadCommands
<1>8. Acting(f)
  BY <1>5, Zenon DEF Acting
<1>9. heldEvent = IF f.pc \in {"act", "resume"} /\ ~f.was THEN f.de ELSE NoEvent
  BY <1>5, Zenon DEF heldEvent
<1>10. setTop(f) /\ Untouched /\ killed' \in BOOLEAN /\ dr' \in [Tids -> BOOLEAN]
  BY <1>1, <1>3, Zenon DEF Untouched, DB_Types
<1> QED BY <1>5, <1>6, <1>7, <1>8, <1>9, <1>10, DB_GoesOn, Zenon

\* WaitForDebugEvent asks the kernel
LEMMA DB_WaitNative ==
    ASSUME DB_Inv, Setting, WaitNative
    PROVE  DB_Inv' /\ StayStopped
<1>1. /\ DB_Types /\ DB_Start /\ DB_Stack
      /\ stack # <<>> /\ top.pc = "entry" /\ top.op = "WaitForDebugEvent" /\ debugEventQueue = <<>>
      /\ UNCHANGED <<killed, stops, threadlist, debugEventQueue, dr, crashed>>
  BY Zenon DEF DB_Inv, at, WaitNative
<1>2. top.op \notin ThreadCommands \cup SuspendCommands
  BY <1>1, Zenon DEF ThreadCommands, SuspendCommands
<1>3. CASE \E t \in Tids : collect(t, kt)
  <2>1. PICK t \in Tids : collect(t, kt)
    BY <1>3, Zenon
  <2>2. Signalled(kt, kt, t)
    BY <1>1, Zenon DEF Signalled, Rest, DB_Types
  <2> QED BY <1>1, <1>2, <2>1, <2>2, DB_Collect, Zenon
<1>4. CASE /\ setTop([top EXCEPT !.pc = "wait"])
           /\ UNCHANGED <<kt, td, debuggedThreadEvent, reported, callVars>>
  <2>1. NoVirtual
    BY <1>1, SMTT(30) DEF NoVirtual, Plain
  <2> QED BY <1>1, <1>4, <2>1, DB_Waits, Zenon
<1> QED BY <1>3, <1>4, Zenon DEF WaitNative

\* ContinueFromDebugEvent: the thread goes on, and there is no current event
LEMMA DB_Continue ==
    ASSUME DB_Inv, Setting, ContinueFromDebugEvent
    PROVE  DB_Inv' /\ \A x \in Tids : stopped(x) /\ kt'[x].st = "run" => reported.threadid = x
<1>1. /\ DB_Types /\ DB_Start /\ DB_Stack /\ DB_Calls /\ DB_Current /\ Core /\ ~crashed
      /\ stack # <<>> /\ top.pc = "entry" /\ top.op = "ContinueFromDebugEvent"
  BY Zenon DEF DB_Inv, at, ContinueFromDebugEvent
<1>2. /\ reported = debuggedThreadEvent /\ reported.threadid \in Tids /\ top.tid = reported.threadid
  BY <1>1, Zenon DEF DB_Stack, Founded, DB_Current
<1>3. PICK t \in Tids : t = top.tid
  BY <1>2, Zenon
<1>4. inList(t) /\ NoEvent.threadid = NoTid /\ NoEvent \in Event
  BY <1>1, DB_Target, DB_Events, Zenon
<1>5. reported' = NoEvent /\ return /\ UNCHANGED <<killed, stops, debugEventQueue, dr, crashed>>
  BY Zenon DEF ContinueFromDebugEvent
<1>6. MayExit = {}
  BY Zenon DEF Setting
<1>7. NoVirtual => NoVirtual'
  BY <1>5, Zenon DEF NoVirtual
<1>8. debugEventQueue' \in Seq(Event) /\ Once(debugEventQueue') /\ Within
  BY <1>1, <1>5, Zenon DEF DB_Types, Core, DB_Queue, Within
<1>9. ASSUME threadlist' = threadlist
      PROVE  /\ stack' \in Seq(Frames) /\ DB_Stack' /\ heldEvent' = NoEvent /\ Calling
             /\ heldEvent = NoEvent /\ DB_Start' /\ ~crashed'
  BY <1>1, <1>5, <1>9, DB_OwnReturn, Zenon DEF EventCommands
<1>10. CASE /\ debuggedThreadEvent.debugevent \in Virtual /\ debuggedThreadEvent' = NoEvent
            /\ UNCHANGED <<kt, td, threadlist>>
  <2>1. \A x \in Tids : ~real(debuggedThreadEvent, x) /\ ~real(debuggedThreadEvent', x)
    BY <1>4, <1>10, DB_Tids, Zenon DEF real
  <2>2. \A x \in Tids : Same(x)
    BY <1>5, <1>9, <1>10, <2>1, Zenon DEF Same
  <2>3. Core'
    BY <1>1, <1>8, <2>2, DB_Still, Zenon
  <2>4. DB_Types' /\ DB_Calls' /\ DB_Current'
    BY <1>1, <1>4, <1>5, <1>7, <1>8, <1>9, <1>10, DB_Undisturbed, Zenon DEF DB_Types, Calling,
       DB_Current
  <2>5. \A x \in Tids : stopped(x) => kt'[x].st # "run"
    BY <1>10, Zenon DEF stopped
  <2> QED BY <1>9, <1>10, <2>3, <2>4, <2>5, Zenon DEF DB_Inv
<1>11. ASSUME debuggedThreadEvent.debugevent \notin Virtual
       PROVE  /\ DB_Held(t) /\ Taken(t) /\ isCurrent(t) /\ ~isSuspended(t) /\ ~inQueue(t)
              /\ stopped(t) /\ kt[t].st = "stop" /\ td[t].suspendCount = 0
  <2>1. isCurrent(t)
    BY <1>2, <1>3, <1>11, Zenon DEF isCurrent, real
  <2>2. td[t].suspendCount \in Nat
    BY <1>1, Zenon DEF DB_Types, Threads
  <2> QED BY <1>1, <2>1, <2>2, SMTT(30) DEF Core, DB_Held, Taken, stopped, isSuspended
<1>12. CASE /\ debuggedThreadEvent.debugevent \notin Virtual
            /\ continueOrRemove(t) /\ td' = [td EXCEPT ![t].isPaused = FALSE]
            /\ debuggedThreadEvent' = [debuggedThreadEvent EXCEPT !.threadid = NoTid]
  <2>1. kt' = ptraceCont(t, kt) /\ threadlist' = threadlist
    BY <1>6, <1>12, Zenon DEF continueOrRemove
  <2>2. kt \in [Tids -> Kernels] /\ td \in [Tids -> Threads] /\ debuggedThreadEvent \in Event
    BY <1>1, Zenon DEF DB_Types
  <2>3. GoesOn(kt', kt, t)
    BY Zenon, <1>11, <1>12, <2>1, <2>2, DB_KernelUpdate
  <2>4. kt'[t].sig = kt[t].sig
    BY <1>11, <1>12, <2>1, <2>2, Zenon DEF ptraceCont, Kernels
  <2>5. Flagged(td', td, t, FALSE)
    BY Zenon, <1>12, <2>2, DB_ThreadUpdate
  <2>6. /\ kt' \in [Tids -> Kernels] /\ kt'[t].st = "run" /\ ~kt'[t].new
        /\ \A x \in Tids \ {t} : kt'[x] = kt[x]
    BY <2>3, Zenon DEF GoesOn, Rest
  <2>7. /\ td' \in [Tids -> Threads] /\ ~td'[t].isPaused /\ td'[t].suspendCount = td[t].suspendCount
        /\ \A x \in Tids \ {t} : td'[x] = td[x]
    BY <2>5, Zenon DEF Flagged, Rest
  <2>8. debuggedThreadEvent' \in Event /\ debuggedThreadEvent'.threadid = NoTid
    BY <1>12, <2>2, Zenon DEF Event
  <2>9. \A x \in Tids \ {t} : Same(x)
    BY <1>2, <1>3, <1>5, <1>9, <2>1, <2>6, <2>7, <2>8, DB_Tids, Zenon DEF Same, real
  <2>10. ~inFrame(t)' /\ ~isCurrent(t)' /\ ~isSuspended(t)' /\ ~inQueue(t)'
    BY <1>4, <1>5, <1>9, <1>11, <1>12, <2>1, <2>7, <2>8, DB_Tids, Zenon DEF inFrame, inQueue,
       isCurrent, isSuspended, real
  <2>11. DB_Held(t)' /\ DB_Signal(t)'
    BY <2>6, <2>7, <2>10, Zenon DEF DB_Held, DB_Signal, Taken
  <2>12. Core'
    BY <1>1, <1>8, <2>4, <2>9, <2>11, DB_Moved, Zenon
  <2>13. DB_Types' /\ DB_Calls' /\ DB_Current'
    BY <1>1, <1>4, <1>5, <1>7, <1>8, <1>9, <2>1, <2>6, <2>7, <2>8, DB_Undisturbed, ZenonT(40) DEF
       DB_Types, Calling, DB_Current
  <2>14. \A x \in Tids : stopped(x) /\ kt'[x].st = "run" => x = t
    BY <2>6, Zenon DEF stopped
  <2> QED BY <1>2, <1>3, <1>9, <2>1, <2>12, <2>13, <2>14, Zenon DEF DB_Inv
<1> QED BY <1>3, <1>4, <1>10, <1>11, <1>12, SMTT(30) DEF ContinueFromDebugEvent

-----------------------------------------------------------------------------
\* What is known of a command that waits
LEMMA DB_Waiting ==
    ASSUME DB_Inv, stack # <<>>, top.pc \in {"wait", "check"}
    PROVE  /\ NoVirtual /\ Founded(top) /\ heldEvent = NoEvent
           /\ top.op \in ThreadCommands \cup {"SuspendThread", "WaitForDebugEvent"}
           /\ top.op = "WaitForDebugEvent" => awaited = AllThreads
           /\ top.op # "WaitForDebugEvent" => awaited = aim(top) /\ target = aim(top) /\ aim(top) \in Tids
<1>1. DB_Types /\ DB_Start /\ DB_Stack
  BY Zenon DEF DB_Inv
<1>2. top \in Frames /\ Shape(top) /\ Founded(top) /\ target = aim(top)
  BY <1>1, DB_Target, Zenon DEF DB_Stack
<1>3. top.op \in ThreadCommands \cup {"SuspendThread", "WaitForDebugEvent"}
  BY <1>2, Zenon DEF Frames, Ops, Shape, SuspendCommands, EventCommands
<1>4. NoVirtual
  BY <1>2, Zenon DEF Founded
<1>5. top.op # "WaitForDebugEvent" => aim(top) \in Tids
  BY <1>1, <1>3, DB_Target, Zenon DEF SuspendCommands
<1> QED BY <1>2, <1>3, <1>4, <1>5, Zenon DEF awaited, heldEvent

\* A wait finds an event in the queue
LEMMA DB_TakeQueued ==
    ASSUME DB_Inv, Setting, TakeQueued
    PROVE  DB_Inv' /\ StayStopped
<1>1. /\ DB_Types /\ DB_Start /\ DB_Stack /\ Core
      /\ stack # <<>> /\ top.pc \in {"wait", "check"}
      /\ UNCHANGED <<kt, killed, stops, threadlist, dr, crashed>>
  BY Zenon DEF DB_Inv, at, TakeQueued, kernelVars
<1>2. /\ NoVirtual /\ top.op \in ThreadCommands \cup {"SuspendThread", "WaitForDebugEvent"}
      /\ top.op = "WaitForDebugEvent" => awaited = AllThreads
      /\ top.op # "WaitForDebugEvent" => awaited = aim(top) /\ aim(top) \in Tids
  BY <1>1, DB_Waiting, Zenon
<1>3. PICK j \in queuedAt(awaited) :
            /\ debugEventQueue' = withoutIndex(debugEventQueue, j)
            /\ debugEventQueue[j].threadid # NoTid =>
                  gotEvent(ev(debugEventQueue[j].threadid, GetStopSignalFromThread(debugEventQueue[j].threadid)),
                           setPaused(debugEventQueue[j].threadid, TRUE, td))
  BY Zenon DEF TakeQueued
<1>4. /\ j \in 1 .. Len(debugEventQueue)
      /\ top.op # "WaitForDebugEvent" => debugEventQueue[j].threadid = aim(top)
  BY <1>2, <1>3, DB_Tids, Zenon DEF queuedAt
<1>5. PICK t : t = debugEventQueue[j].threadid
  BY Zenon
<1>6. debugEventQueue[j].debugevent \notin Virtual
  BY <1>2, <1>4, Zenon DEF NoVirtual, Plain
<1>7. /\ t \in Tids /\ real(debugEventQueue[j], t) /\ Taken(t)
      /\ ~isCurrent(t) /\ ~isSuspended(t)
  BY <1>1, <1>4, <1>5, <1>6, DB_Queued, Zenon
<1>8. stopped(t) /\ GetStopSignalFromThread(t) = kt[t].sig
  BY <1>7, Zenon DEF Taken, stopped, GetStopSignalFromThread
<1>9. gotEvent(ev(t, kt[t].sig), setPaused(t, TRUE, td))
  BY ZenonT(40), <1>3, <1>5, <1>7, <1>8, DB_Tids
<1>10. Lacks(debugEventQueue', debugEventQueue, j)
  BY <1>1, <1>3, <1>4, DB_Taken, Zenon DEF DB_Types
<1>11. /\ debugEventQueue' \in Seq(Event) /\ Within /\ Once(debugEventQueue')
       /\ \A x \in Tids :
             Has(debugEventQueue', x) <=> Has(debugEventQueue, x) /\ ~real(debugEventQueue[j], x)
       /\ NoVirtual => NoVirtual'
  BY <1>1, <1>4, <1>10, DB_TakeOut, Zenon
<1>12. ~Has(debugEventQueue', t) /\ \A x \in Tids \ {t} : Has(debugEventQueue', x) <=> Has(debugEventQueue, x)
  BY <1>5, <1>7, <1>11, Zenon DEF real
<1>13. top.op \notin {"ResumeThread", "ContinueFromDebugEvent"}
       /\ (top.op \in ThreadCommands \cup SuspendCommands => t = aim(top))
  BY <1>2, <1>4, <1>5, Zenon DEF ThreadCommands, SuspendCommands
<1>14. kt' \in [Tids -> Kernels] /\ kt'[t].st = "stop" /\ ~kt'[t].new /\ kt'[t].sig = kt[t].sig /\ killed' \in BOOLEAN
  BY <1>1, <1>7, Zenon DEF DB_Types, Taken
<1>15. \A x \in Tids \ {t} : kt'[x].st = kt[x].st /\ kt'[x].sig = kt[x].sig /\ kt'[x].new = kt[x].new
  BY <1>1, Zenon
<1> QED BY ZenonT(40), <1>1, <1>7, <1>9, <1>11, <1>12, <1>13, <1>14, <1>15, DB_Got

\* A wait finds an event in the kernel
LEMMA DB_WaitPid ==
    ASSUME DB_Inv, Setting, WaitPid
    PROVE  DB_Inv' /\ StayStopped
<1>1. /\ DB_Types /\ stack # <<>> /\ top.pc \in {"wait", "check"}
      /\ UNCHANGED <<killed, stops, threadlist, debugEventQueue, dr, crashed>>
  BY Zenon DEF DB_Inv, at, WaitPid
<1>2. /\ top.op \in ThreadCommands \cup {"SuspendThread", "WaitForDebugEvent"}
      /\ top.op # "WaitForDebugEvent" => awaited = aim(top) /\ aim(top) \in Tids
  BY <1>1, DB_Waiting, Zenon
<1>3. PICK t \in Tids : (awaited = AllThreads \/ awaited = t) /\ collect(t, kt)
  BY Zenon DEF WaitPid
<1>4. top.op \notin {"ResumeThread", "ContinueFromDebugEvent"}
      /\ (top.op \in ThreadCommands \cup SuspendCommands => t = aim(top))
  BY <1>2, <1>3, DB_Tids, Zenon DEF ThreadCommands, SuspendCommands
<1>5. Signalled(kt, kt, t)
  BY <1>1, Zenon DEF Signalled, Rest, DB_Types
<1> QED BY <1>1, <1>3, <1>4, <1>5, DB_Collect, Zenon

\* A wait that has found no event goes on
LEMMA DB_WaitOn ==
    ASSUME DB_Inv, Setting, WaitOn
    PROVE  DB_Inv' /\ StayStopped
<1>1. /\ DB_Types /\ Core /\ stack # <<>> /\ top.pc = "check" /\ queuedAt(awaited) = {}
      /\ setTop([top EXCEPT !.pc = "wait"])
      /\ UNCHANGED <<kt, killed, stops, threadlist, td, debugEventQueue, debuggedThreadEvent, dr,
                     reported, callVars, crashed>>
  BY Zenon DEF DB_Inv, at, WaitOn, kernelVars
<1>2. /\ NoVirtual /\ Founded(top) /\ heldEvent = NoEvent
      /\ top.op \in ThreadCommands \cup {"SuspendThread", "WaitForDebugEvent"}
      /\ top.op # "WaitForDebugEvent" => awaited = aim(top) /\ aim(top) \in Tids
  BY <1>1, DB_Waiting, Zenon
<1>3. ASSUME top.op # "WaitForDebugEvent"
      PROVE  ~real(debuggedThreadEvent, aim(top)) /\ td[aim(top)].suspendCount = 0 /\ ~td[aim(top)].isPaused
  <2>1. PICK t \in Tids : t = aim(top)
    BY <1>2, <1>3, Zenon
  <2>2. ~real(debuggedThreadEvent, t) /\ td[t].suspendCount = 0
    BY <1>1, <1>2, <1>3, <2>1, Zenon DEF Founded
  <2>3. ~inQueue(t)
    BY <1>1, <1>2, <1>3, <2>1, DB_QueuedAt, Zenon
  <2>4. ~inFrame(t) /\ ~isCurrent(t) /\ ~isSuspended(t)
    BY <1>2, <2>2, DB_Events, DB_Tids, SMTT(30) DEF inFrame, isCurrent, isSuspended
  <2>5. ~td[t].isPaused
    BY <1>1, <2>3, <2>4, Zenon DEF Core, DB_Held
  <2> QED BY <2>1, <2>2, <2>5, Zenon
<1> QED BY <1>1, <1>2, <1>3, DB_Waits, Zenon

\* A wait of 100 ms is over
LEMMA DB_Timeout ==
    ASSUME DB_Inv, Setting, Timeout
    PROVE  DB_Inv' /\ StayStopped
<1>1. /\ DB_Types /\ DB_Start /\ DB_Stack /\ stack # <<>> /\ top.pc = "wait"
      /\ UNCHANGED <<killed, stops, threadlist, debugEventQueue, dr, crashed>>
  BY Zenon DEF DB_Inv, at, Timeout
<1>2. /\ NoVirtual /\ Founded(top) /\ heldEvent = NoEvent
      /\ top.op \in ThreadCommands \cup {"SuspendThread", "WaitForDebugEvent"}
      /\ top.op # "WaitForDebugEvent" => target = aim(top) /\ aim(top) \in Tids
  BY <1>1, DB_Waiting, Zenon
<1>3. top.op # "WaitForDebugEvent" => ~td[target].isPaused
  BY <1>1, <1>2, Zenon DEF Founded
<1>4. top.op # "WaitForDebugEvent" => ~gaveUp(target)
  BY <1>3, Zenon DEF gaveUp, Setting
<1>5. CASE /\ top.op = "WaitForDebugEvent" /\ return
           /\ UNCHANGED <<kt, td, debuggedThreadEvent, reported>>
  <2>1. /\ stack' \in Seq(Frames) /\ DB_Stack' /\ heldEvent' = NoEvent /\ Calling
    BY <1>1, <1>5, DB_OwnReturn, Zenon DEF EventCommands
  <2>2. Untouched /\ killed' \in BOOLEAN /\ dr' \in [Tids -> BOOLEAN] /\ threadlist # <<>>
    BY <1>1, <1>5, DB_Target, Zenon DEF Untouched, DB_Types
  <2> QED BY <1>1, <1>2, <1>5, <2>1, <2>2, DB_Silent, Zenon
<1>6. CASE top.op # "WaitForDebugEvent" /\ tkillAndWait(target)
  <2>1. PICK t \in Tids : t = target
    BY <1>2, <1>6, Zenon
  <2> QED BY <1>1, <1>2, <1>3, <1>6, <2>1, DB_TkillAndWait, Zenon
<1> QED BY Zenon, <1>3, <1>4, <1>5, <1>6 DEF Timeout, ThreadCommands

-----------------------------------------------------------------------------
\* The commands are where they were
LEMMA DB_StackKept ==
    ASSUME DB_Stack, UNCHANGED <<stack, td, debuggedThreadEvent, reported, debugEventQueue>>,
           \A c \in Clients : call[c] = "served" => call'[c] = "served"
    PROVE  DB_Stack' /\ heldEvent' = heldEvent
<1>1. top' = top /\ stack' = stack
  BY Zenon DEF top
<1>2. PICK f : f = top
  BY Zenon
<1>3. PICK g : g = stack[2]
  BY Zenon
<1>4. (Founded(f) => Founded(f)') /\ (Acting(f) => Acting(f)') /\ (Founded(g) => Founded(g)')
  BY Zenon DEF Founded, Acting, NoVirtual
<1>5. DB_Stack'
  BY <1>1, <1>2, <1>3, <1>4, Zenon DEF DB_Stack
<1> QED BY <1>1, <1>5, Zenon DEF heldEvent

\* A running thread stops
LEMMA DB_Hit ==
    ASSUME DB_Inv, threadlist # <<>>, NEW t \in Tids, NEW s, kt[t].st = "run", Hit(kt', kt, t, s),
           killed' \in BOOLEAN, stops' \in 0 .. MaxStops,
           UNCHANGED <<threadlist, td, debugEventQueue, debuggedThreadEvent, dr,
                       stack, reported, callVars, crashed>>
    PROVE  DB_Inv' /\ StayStopped
<1>1. /\ DB_Types /\ DB_Start /\ DB_Stack /\ DB_Calls /\ DB_Current /\ Core /\ ~crashed
  BY Zenon DEF DB_Inv
<1>2. call' = call /\ cmd' = cmd /\ stack' = stack
  BY Zenon DEF callVars
<1>3. DB_Stack' /\ heldEvent' = heldEvent
  BY <1>1, <1>2, DB_StackKept, Zenon
<1>4. /\ kt' \in [Tids -> Kernels] /\ kt'[t].st = "stop" /\ kt'[t].new
      /\ \A x \in Tids \ {t} : kt'[x] = kt[x]
  BY Zenon DEF Hit, Rest
<1>5. DB_Held(t) /\ ~Taken(t)
  BY <1>1, Zenon DEF Core, Taken
<1>6. ~inFrame(t) /\ ~isCurrent(t) /\ ~isSuspended(t) /\ ~inQueue(t) /\ ~td[t].isPaused
  BY <1>5, Zenon DEF DB_Held
<1>7. ~inFrame(t)' /\ ~isCurrent(t)' /\ ~isSuspended(t)' /\ ~inQueue(t)'
  BY <1>3, <1>6, Zenon DEF inFrame, inQueue, isCurrent, isSuspended
<1>8. DB_Held(t)' /\ DB_Signal(t)'
  BY <1>4, <1>6, <1>7, Zenon DEF DB_Held, DB_Signal, Taken
<1>9. \A x \in Tids \ {t} : Same(x)
  BY <1>3, <1>4, Zenon DEF Same
<1>10. Within /\ Once(debugEventQueue')
  BY <1>1, Zenon DEF Within, Core, DB_Queue
<1>11. Core'
  BY <1>1, <1>5, <1>8, <1>9, <1>10, DB_Moved, Zenon
<1>12. DB_Types'
  BY <1>1, <1>2, <1>4, Zenon DEF DB_Types
<1>13. Calling /\ (NoVirtual => NoVirtual')
  BY <1>1, <1>2, Zenon DEF Calling, DB_Types, NoVirtual
<1>14. DB_Calls' /\ DB_Start' /\ DB_Current' /\ ~crashed'
  BY <1>1, <1>13, DB_Undisturbed, DB_Started, Zenon DEF DB_Current
<1>15. StayStopped
  BY <1>4, Zenon DEF StayStopped, stopped
<1> QED BY <1>3, <1>11, <1>12, <1>14, <1>15, Zenon DEF DB_Inv

\* The threads of the process
LEMMA DB_Tracee ==
    ASSUME DB_Inv, Setting, Tracee
    PROVE  DB_Inv' /\ StayStopped
<1>1. DB_Types /\ DB_Start /\ kt \in [Tids -> Kernels] /\ MayExit = {} /\ MaxStops \in Nat
  BY DebuggerAssumption, Zenon DEF DB_Inv, DB_Types, Setting
<1>2. PICK t \in Tids : TraceeStop(t) \/ TraceeSigstop(t)
  BY <1>1, Zenon DEF Tracee, TraceeExit
<1>3. CASE TraceeStop(t)
  <2>1. PICK s \in Signals : kt' = [kt EXCEPT ![t].st = "stop", ![t].sig = s, ![t].new = TRUE]
    BY Zenon, <1>3 DEF TraceeStop, Signals
  <2>2. Hit(kt', kt, t, s)
    BY Zenon, <1>1, <2>1, DB_KernelUpdate
  <2>3. killed' \in BOOLEAN /\ stops' \in 0 .. MaxStops
    BY <1>1, <1>3 DEF TraceeStop, DB_Types
  <2> QED BY Zenon, <1>3, <2>2, <2>3, DB_Hit DEF TraceeStop
<1>4. CASE TraceeSigstop(t)
  <2>1. Hit(kt', kt, t, "SIGSTOP")
    BY ZenonT(40), <1>1, <1>4, DB_KernelUpdate DEF TraceeSigstop
  <2>2. killed' \in BOOLEAN /\ stops' \in 0 .. MaxStops
    BY <1>1, <1>4, Zenon DEF TraceeSigstop, DB_Types
  <2>3. threadlist # <<>>
    BY <1>1, <1>4, Zenon DEF TraceeSigstop, DB_Start
  <2> QED BY Zenon, <1>4, <2>1, <2>2, <2>3, DB_Hit DEF TraceeSigstop
<1> QED BY <1>2, <1>3, <1>4, Zenon

\* The threads a command may name
LEMMA DB_TidsOf ==
    ASSUME NEW op \in ThreadCommands \cup MemoryCommands \cup SuspendCommands, NEW t \in tidsOf(op)
    PROVE  /\ t \in Tids \cup {NoTid, AllThreads}
           /\ op \in {"SetBreakpoint", "RemoveBreakpoint"} => t \in Tids \cup {AllThreads}
           /\ op \in {"GetThreadContext"} \cup SuspendCommands => t \in Tids
<1>1. CASE op \in {"SetBreakpoint", "RemoveBreakpoint"}
  BY <1>1, Zenon DEF tidsOf, MemoryCommands, SuspendCommands
<1>2. CASE op = "GetThreadContext"
  BY <1>2, Zenon DEF tidsOf, MemoryCommands, SuspendCommands
<1>3. CASE op \in SuspendCommands
  BY <1>3, Zenon DEF tidsOf, MemoryCommands, SuspendCommands
<1>4. CASE op \in MemoryCommands
  BY <1>4, Zenon DEF tidsOf, MemoryCommands, SuspendCommands
<1> QED BY <1>1, <1>2, <1>3, <1>4, Zenon DEF ThreadCommands

\* The other connections call and return
LEMMA DB_Client ==
    ASSUME DB_Inv, Setting, Client
    PROVE  DB_Inv' /\ StayStopped
<1>1. /\ DB_Types /\ DB_Start /\ DB_Stack /\ DB_Calls /\ DB_Current /\ Core /\ ~crashed
  BY Zenon DEF DB_Inv
<1>2. PICK c \in Clients : ClientCall(c) \/ ClientReturn(c)
  BY Zenon DEF Client
<1>3. /\ kt' = kt /\ UNCHANGED <<killed, stops, threadlist, td, debugEventQueue, debuggedThreadEvent, dr,
                               stack, reported, crashed>>
  BY <1>2, Zenon DEF ClientCall, ClientReturn, kernelVars
<1>4. call \in [Clients -> {"none", "pending", "served", "answered"}] /\ cmd \in [Clients -> Command \cup {NoCommand}]
  BY <1>1, Zenon DEF DB_Types
<1>5. /\ call' \in [Clients -> {"none", "pending", "served", "answered"}]
      /\ \A d \in Clients \ {c} : call'[d] = call[d]
      /\ call[c] # "served"
  BY <1>2, <1>4, Zenon DEF ClientCall, ClientReturn, FC!Issue, FC!Return
<1>6. DB_Stack' /\ heldEvent' = heldEvent
  BY <1>1, <1>3, <1>5, DB_StackKept, Zenon
<1>7. \A x \in Tids : Same(x)
  BY <1>3, <1>6, Zenon DEF Same
<1>8. Core'
  BY <1>1, <1>3, <1>7, DB_Still, Zenon DEF Within, Core, DB_Queue
<1>9. StayStopped /\ DB_Current' /\ ~crashed'
  BY <1>1, <1>3, Zenon DEF StayStopped, stopped, DB_Current
<1>10. CASE ClientCall(c)
  <2>1. PICK op \in Forwarded : \E t \in tidsOf(op) : cmd' = [cmd EXCEPT ![c] = [op |-> op, tid |-> t]]
    BY Zenon, <1>10 DEF ClientCall
  <2>2. PICK t \in tidsOf(op) : cmd' = [cmd EXCEPT ![c] = [op |-> op, tid |-> t]]
    BY Zenon, <2>1
  <2>3. op \in Forwarded /\ op \in ThreadCommands \cup MemoryCommands
    BY DebuggerAssumption, Zenon DEF Setting
  <2>4. /\ t \in Tids \cup {NoTid, AllThreads}
        /\ op \in {"SetBreakpoint", "RemoveBreakpoint"} => t \in Tids \cup {AllThreads}
        /\ op \in {"GetThreadContext"} \cup SuspendCommands => t \in Tids
    BY <2>3, DB_TidsOf, Zenon
  <2>5. [op |-> op, tid |-> t] \in Command
    BY <2>3, <2>4, Zenon DEF Command
  <2>6. /\ cmd' \in [Clients -> Command \cup {NoCommand}] /\ cmd'[c].op = op /\ cmd'[c].tid = t
        /\ \A d \in Clients \ {c} : cmd'[d] = cmd[d]
    BY <1>4, <2>2, <2>5, Zenon
  <2>7. NoVirtual /\ NoVirtual' /\ threadlist # <<>>
    BY <1>3, <1>10, Zenon DEF ClientCall, attached, Setting, NoVirtual, Plain
  <2>8. DB_Calls'
    BY <1>1, <1>5, <2>3, <2>4, <2>6, <2>7, Zenon DEF DB_Calls
  <2>9. DB_Start'
    BY <1>1, <1>3, <2>7, DB_Started, Zenon
  <2>10. DB_Types'
    BY <1>1, <1>3, <1>5, <2>6, Zenon DEF DB_Types
  <2> QED BY <1>6, <1>8, <1>9, <2>8, <2>9, <2>10, Zenon DEF DB_Inv
<1>11. CASE ClientReturn(c)
  <2>1. call'[c] = "none" /\ cmd' = [cmd EXCEPT ![c] = NoCommand]
    BY <1>4, <1>11, Zenon DEF ClientReturn, FC!Return
  <2>2. /\ cmd' \in [Clients -> Command \cup {NoCommand}] /\ \A d \in Clients \ {c} : cmd'[d] = cmd[d]
    BY <1>4, <2>1, Zenon
  <2>3. DB_Calls'
    BY <1>1, <1>3, <1>5, <2>1, <2>2, Zenon DEF DB_Calls, NoVirtual
  <2>4. DB_Start'
    BY <1>1, <1>3, <1>5, <2>1, Zenon DEF DB_Start
  <2>5. DB_Types'
    BY <1>1, <1>3, <1>5, <2>2, Zenon DEF DB_Types
  <2> QED BY <1>6, <1>8, <1>9, <2>3, <2>4, <2>5, Zenon DEF DB_Inv
<1> QED BY <1>2, <1>10, <1>11, Zenon

-----------------------------------------------------------------------------
\* The create events that StartDebug queues
LEMMA DB_Creates ==
    ASSUME NEW a \in Virtual, NEW b \in Virtual, NEW q, q = <<ev(pid, a)>> \o [i \in Tids |-> ev(i, b)]
    PROVE  /\ q \in Seq(Event)
           /\ \A k \in 1 .. Len(q) : q[k].debugevent \in Virtual /\ q[k].threadid \in Tids
<1> DEFINE E == {e \in Event : e.debugevent \in Virtual /\ e.threadid \in Tids}
<1>1. \A t \in Tids : ev(t, a) \in E /\ ev(t, b) \in E
  BY Zenon DEF ev, Event
<1>2. pid \in Tids
  BY DB_Tids, Zenon DEF pid
<1>3. \A e \in E : e \in Event /\ e.debugevent \in Virtual /\ e.threadid \in Tids
  BY Zenon
<1> HIDE DEF E
<1>4. <<ev(pid, a)>> \in Seq(E)
  BY <1>1, <1>2
<1>5. [i \in Tids |-> ev(i, b)] \in Seq(E)
  BY <1>1, DB_Tids, SMTT(30) DEF Tids
<1>6. q \in Seq(E)
  BY <1>4, <1>5, DB_Concat, Zenon
<1>7. \A k \in 1 .. Len(q) : q[k] \in E
  BY <1>6, DB_ElementOf, Zenon
<1>8. q \in Seq(Event)
  BY <1>3, <1>6
<1> QED BY <1>3, <1>7, <1>8, Zenon

\* StartDebug
LEMMA DB_StartDebug ==
    ASSUME DB_Inv, Setting, StartDebug
    PROVE  DB_Inv' /\ StayStopped
<1>1. /\ DB_Types /\ DB_Start /\ DB_Stack /\ DB_Calls /\ DB_Current /\ Core /\ ~crashed
  BY Zenon DEF DB_Inv
<1>2. /\ threadlist = <<>> /\ threadlist' = Everyone
      /\ UNCHANGED <<killed, stops, td, debuggedThreadEvent, dr, stack, reported, call, cmd, crashed>>
  BY Zenon DEF StartDebug, Everyone, callVars
<1>3. /\ stack = <<>> /\ debugEventQueue = <<>> /\ \A c \in Clients : call[c] # "pending"
  BY <1>1, <1>2, Zenon DEF DB_Start
<1>4. PICK q : q = debugEventQueue'
  BY Zenon
<1>5. /\ q \in Seq(Event)
      /\ \A k \in 1 .. Len(q) : q[k].debugevent \in Virtual /\ q[k].threadid \in Tids
  <2>1. "create process" \in Virtual /\ "create thread" \in Virtual
    BY Zenon DEF Virtual
  <2>2. \E a \in Virtual : \E b \in Virtual : q = <<ev(pid, a)>> \o [i \in Tids |-> ev(i, b)]
    BY <1>4, <2>1, Zenon DEF StartDebug
  <2>3. PICK a \in Virtual, b \in Virtual : q = <<ev(pid, a)>> \o [i \in Tids |-> ev(i, b)]
    BY Zenon, <2>2
  <2> QED BY Zenon, <2>3, DB_Creates
<1>6. Untouched
  <2>1. kt \in [Tids -> Kernels] /\ kt' = [t \in Tids |-> [kt[t] EXCEPT !.pend = TRUE]]
    BY Zenon, <1>1 DEF DB_Types, StartDebug
  <2>2. ASSUME NEW t \in Tids
        PROVE  /\ kt'[t] \in Kernels /\ kt'[t].st = kt[t].st /\ kt'[t].sig = kt[t].sig
               /\ kt'[t].new = kt[t].new
    BY Zenon, <2>1 DEF Kernels
  <2>3. kt' \in [Tids -> Kernels]
    BY <2>1, <2>2, Zenon
  <2> QED BY <2>2, <2>3, Zenon DEF Untouched
<1>7. DB_Stack' /\ heldEvent' = heldEvent
  BY <1>2, <1>3 DEF DB_Stack, heldEvent
<1>8. \A x : ~Has(debugEventQueue, x) /\ ~Has(debugEventQueue', x)
  BY <1>3, <1>4, <1>5, SMTT(30) DEF Has, real
<1>9. Within /\ Once(debugEventQueue')
  BY <1>4, <1>5, Zenon DEF Within, Right, Once, real
<1>10. \A x \in Tids : Same(x)
  BY <1>2, <1>6, <1>7, <1>8, Zenon DEF Same, Untouched
<1>11. Core'
  BY <1>1, <1>9, <1>10, DB_Still, Zenon
<1>12. threadlist' \in Seq(Tids) /\ threadlist' # <<>>
  <2>1. Everyone \in Seq(Tids) /\ Len(Everyone) = NThreads
    BY DB_Tids, SMTT(30) DEF Everyone, Tids
  <2> QED BY <1>2, <2>1, DB_EmptySeq, DebuggerAssumption, Zenon
<1>13. DB_Types'
  BY <1>1, <1>2, <1>4, <1>5, <1>6, <1>12, Zenon DEF DB_Types, Untouched
<1>14. DB_Start' /\ DB_Calls' /\ DB_Current' /\ ~crashed'
  BY <1>1, <1>2, <1>3, <1>12, Zenon DEF DB_Start, DB_Calls, DB_Current
<1>15. StayStopped
  BY <1>6, Zenon DEF StayStopped, stopped, Untouched
<1> QED BY <1>7, <1>11, <1>13, <1>14, <1>15, Zenon DEF DB_Inv

\* A command of the debugger connection begins
LEMMA DB_Begin ==
    ASSUME DB_Inv, Setting, NEW op \in Ops, NEW t \in Tids \cup {NoTid, AllThreads}, begin(op, t),
           NEW f, f = frame(NoTid, op, t), Shape(f), Founded(f)
    PROVE  DB_Inv' /\ StayStopped
<1>1. DB_Types /\ DB_Stack
  BY Zenon DEF DB_Inv
<1>2. /\ stack = <<>> /\ stack' = <<f>> /\ threadlist # <<>>
      /\ UNCHANGED <<kt, killed, stops, threadlist, td, debugEventQueue, debuggedThreadEvent, dr,
                     reported, call, cmd, crashed>>
  BY Zenon DEF begin, kernelVars, callVars
<1>3. f \in Frames /\ f.pc = "entry"
  BY DB_FirstFrame
<1>4. stack' \in Seq(Frames) /\ Len(stack') = 1 /\ top' = f /\ stack' # <<>>
  BY <1>2, <1>3 DEF top
<1>5. Founded(f)' /\ Acting(f)'
  BY Zenon, <1>2, <1>3 DEF Founded, Acting, NoVirtual
<1>6. DB_Stack'
  BY <1>4, <1>5 DEF DB_Stack
<1>7. heldEvent = NoEvent /\ heldEvent' = NoEvent
  BY Zenon, <1>2, <1>3, <1>4 DEF heldEvent
<1>8. Calling /\ Untouched /\ killed' \in BOOLEAN /\ dr' \in [Tids -> BOOLEAN]
  BY <1>1, <1>2, Zenon DEF Calling, Untouched, DB_Types
<1> QED BY <1>2, <1>4, <1>6, <1>7, <1>8, DB_Silent, Zenon

\* The debugger client
LEMMA DB_OwnClient ==
    ASSUME DB_Inv, Setting, OwnClient
    PROVE  DB_Inv' /\ StayStopped
<1>1. DB_Types
  BY Zenon DEF DB_Inv
<1>2. CASE OwnWait
  <2>1. PICK f : f = frame(NoTid, "WaitForDebugEvent", NoTid)
    BY Zenon
  <2>2. "WaitForDebugEvent" \in Ops
    BY Zenon DEF Ops, EventCommands
  <2>3. f.op = "WaitForDebugEvent" /\ f.pc = "entry" /\ ~f.was
    BY <2>1, <2>2, DB_FirstFrame, SMTT(30)
  <2>4. Shape(f)
    BY <2>3, Zenon DEF Shape, ThreadCommands, MemoryCommands, SuspendCommands
  <2>5. Founded(f)
    BY <1>2, <2>3, Zenon DEF Founded, EventCommands, OwnWait
  <2> QED BY <1>2, <2>1, <2>2, <2>4, <2>5, DB_Begin, Zenon DEF OwnWait
<1>3. CASE OwnContinue
  <2>0. reported.threadid \in Tids \cup {NoTid, AllThreads}
    BY <1>1, DB_Events, Zenon DEF DB_Types
  <2>1. PICK f : f = frame(NoTid, "ContinueFromDebugEvent", reported.threadid)
    BY Zenon
  <2>2. "ContinueFromDebugEvent" \in Ops
    BY Zenon DEF Ops, EventCommands
  <2>3. f.op = "ContinueFromDebugEvent" /\ f.pc = "entry" /\ f.tid = reported.threadid /\ ~f.was
    BY <2>0, <2>1, <2>2, DB_FirstFrame, SMTT(30)
  <2>4. Shape(f)
    BY <2>3, Zenon DEF Shape, ThreadCommands, MemoryCommands, SuspendCommands
  <2>5. Founded(f)
    BY <1>3, <2>3, Zenon DEF Founded, EventCommands, OwnContinue
  <2> QED BY <1>3, <2>0, <2>1, <2>2, <2>4, <2>5, DB_Begin, Zenon DEF OwnContinue
<1>4. CASE OwnCommand
  <2>1. PICK op \in Direct \ EventCommands : \E t \in tidsOf(op) :
              /\ SuspendReported \/ op # "SuspendThread" \/ reported.threadid # t
              /\ begin(op, t)
    BY <1>4, Zenon DEF OwnCommand
  <2>2. PICK t \in tidsOf(op) :
              /\ SuspendReported \/ op # "SuspendThread" \/ reported.threadid # t
              /\ begin(op, t)
    BY <2>1, Zenon
  <2>3. op \in ThreadCommands \cup MemoryCommands \cup SuspendCommands /\ op \in Ops /\ op \notin EventCommands
    BY DebuggerAssumption, Zenon DEF Ops
  <2>4. /\ t \in Tids \cup {NoTid, AllThreads}
        /\ op \in {"SetBreakpoint", "RemoveBreakpoint"} => t \in Tids \cup {AllThreads}
        /\ op \in {"GetThreadContext"} \cup SuspendCommands => t \in Tids
    BY <2>3, DB_TidsOf, Zenon
  <2>5. PICK f : f = frame(NoTid, op, t)
    BY Zenon
  <2>6. f.op = op /\ f.pc = "entry" /\ f.tid = t /\ ~f.was
    BY <2>3, <2>4, <2>5, DB_FirstFrame, SMTT(30)
  <2>7. Shape(f)
    BY <2>3, <2>4, <2>6, Zenon DEF Shape
  <2>8. NoVirtual
    BY <1>4, Zenon DEF OwnCommand, attached, Setting, NoVirtual, Plain
  <2>9. op = "SuspendThread" => reported.threadid # t
    BY <2>2, Zenon DEF Setting
  <2>10. Founded(f)
    BY <2>3, <2>6, <2>8, <2>9, Zenon DEF Founded, EventCommands
  <2> QED BY <2>2, <2>3, <2>4, <2>5, <2>7, <2>10, DB_Begin, Zenon
<1> QED BY <1>2, <1>3, <1>4, DB_StartDebug, Zenon DEF OwnClient

\* The debugger thread takes up a forwarded command
LEMMA DB_Serve ==
    ASSUME DB_Inv, Setting, NEW c \in Clients, Serve(c)
    PROVE  DB_Inv' /\ StayStopped
<1>1. DB_Types /\ DB_Start /\ DB_Stack /\ DB_Calls /\ stack \in Seq(Frames)
  BY Zenon DEF DB_Inv, DB_Types
<1>2. /\ call[c] = "pending" /\ \A d \in Clients : call[d] # "served"
      /\ call' = [call EXCEPT ![c] = "served"]
      /\ stack = <<>> \/ (stack # <<>> /\ top.pc = "wait")
      /\ UNCHANGED <<kt, killed, stops, threadlist, td, debugEventQueue, debuggedThreadEvent, dr,
                     reported, cmd, crashed>>
  BY Zenon DEF Serve, FC!Serve, kernelVars, at
<1>3. call \in [Clients -> {"none", "pending", "served", "answered"}] /\ cmd \in [Clients -> Command \cup {NoCommand}]
  BY <1>1, Zenon DEF DB_Types
<1>4. Calling /\ call'[c] = "served"
  <2>1. /\ call'[c] = "served" /\ \A d \in Clients : call'[d] = "pending" => call[d] = "pending"
    BY <1>2, <1>3, Zenon
  <2>2. call' \in [Clients -> {"none", "pending", "served", "answered"}]
    BY <1>2, <1>3, Zenon
  <2> QED BY <1>2, <2>1, <2>2, Zenon DEF Calling
<1>5. threadlist # <<>>
  BY <1>1, <1>2, Zenon DEF DB_Start
<1>6. /\ cmd[c].op \in ThreadCommands \cup MemoryCommands
      /\ cmd[c].op \in {"SetBreakpoint", "RemoveBreakpoint"} => cmd[c].tid \in Tids \cup {AllThreads}
      /\ cmd[c].op = "GetThreadContext" => cmd[c].tid \in Tids
      /\ NoVirtual
  BY <1>1, <1>2, Zenon DEF DB_Calls
<1>7. cmd[c] \in Command
  BY <1>3, <1>6, SMTT(30) DEF NoCommand, ThreadCommands, MemoryCommands
<1>8. cmd[c].op \in Ops /\ cmd[c].tid \in Tids \cup {NoTid, AllThreads}
  BY <1>7, Zenon DEF Command, Ops
<1>9. PICK f : f = frame(c, cmd[c].op, cmd[c].tid)
  BY Zenon
<1>10. /\ f \in Frames /\ f.from = c /\ f.op = cmd[c].op /\ f.tid = cmd[c].tid /\ f.pc = "entry" /\ ~f.was
  BY <1>8, <1>9, DB_FirstFrame, SMTT(30)
<1>11. Shape(f)
  BY <1>6, <1>10, Zenon DEF Shape, ThreadCommands, MemoryCommands, SuspendCommands
<1>12. Founded(f)' /\ Acting(f)'
  BY <1>2, <1>6, <1>10, Zenon DEF Founded, Acting, NoVirtual, ThreadCommands, MemoryCommands
<1>13. heldEvent = NoEvent
  BY <1>2, Zenon DEF heldEvent
<1>14. Untouched /\ killed' \in BOOLEAN /\ dr' \in [Tids -> BOOLEAN]
  BY <1>1, <1>2, Zenon DEF Untouched, DB_Types
<1>15. ASSUME stack' \in Seq(Frames), stack' # <<>>, top' = f, DB_Stack' PROVE DB_Inv' /\ StayStopped
  <2>1. heldEvent' = NoEvent
    BY <1>10, <1>15, Zenon DEF heldEvent
  <2> QED BY <1>2, <1>4, <1>5, <1>13, <1>14, <1>15, <2>1, DB_Silent, Zenon
<1>16. CASE stack = <<>>
  <2>1. stack' = <<f>>
    BY <1>9, <1>16, SMTT(30) DEF Serve
  <2>2. stack' \in Seq(Frames) /\ stack' # <<>> /\ top' = f /\ Len(stack') = 1
    BY <1>10, <2>1, SMTT(30) DEF top
  <2>3. DB_Stack'
    BY <1>11, <1>12, <2>2, SMTT(30) DEF DB_Stack
  <2> QED BY <1>15, <2>2, <2>3, Zenon
<1>17. CASE stack # <<>> /\ top.pc = "wait"
  <2>1. PICK g : g = [top EXCEPT !.pc = "check"]
    BY Zenon
  <2>2. top \in Frames /\ Shape(top) /\ Founded(top)
    BY <1>1, <1>17, DB_Target, Zenon DEF DB_Stack
  <2>3. Reaches(g, top, "check")
    BY Zenon, <2>1, <2>2, DB_FrameUpdate
  <2>4. /\ g \in Frames /\ g.pc = "check" /\ g.op = top.op /\ g.tid = top.tid /\ ~g.was
        /\ aim(g) = aim(top)
    BY <1>17, <2>2, <2>3, Zenon DEF Reaches, Alike, aim, Shape
  <2>5. Shape(g)
    BY <1>17, <2>2, <2>4, Zenon DEF Shape, ThreadCommands, MemoryCommands, SuspendCommands
  <2>6. Founded(g)
    BY <1>17, <2>2, <2>4, Zenon DEF Founded
  <2>7. Founded(g)'
    BY <1>2, <2>6, Zenon DEF Founded, NoVirtual
  <2>8. stack' = <<f>> \o <<g>>
    BY <1>9, <1>17, <2>1, Zenon DEF Serve
  <2>9. <<f>> \in Seq(Frames) /\ <<g>> \in Seq(Frames) /\ Len(<<f>>) = 1 /\ Len(<<g>>) = 1
    BY <1>10, <2>4
  <2>10. stack' \in Seq(Frames) /\ stack' # <<>> /\ top' = f /\ Len(stack') = 2 /\ stack'[2] = g
    <3>1. PICK s : s = stack'
      BY Zenon
    <3>2. s \in Seq(Frames) /\ Len(s) = 2 /\ s[1] = f /\ s[2] = g
      BY <2>8, <2>9, <3>1, DB_Concat, SMTT(30)
    <3>3. s # <<>>
      BY <3>2, DB_EmptySeq, SMTT(30)
    <3> QED BY <3>1, <3>2, <3>3, Zenon DEF top
  <2>11. DB_Stack'
    BY <1>4, <1>6, <1>10, <1>11, <1>12, <2>4, <2>5, <2>7, <2>10, SMTT(30) DEF DB_Stack
  <2> QED BY <1>15, <2>10, <2>11, Zenon
<1> QED BY <1>2, <1>16, <1>17, Zenon

-----------------------------------------------------------------------------
\* Before StartDebug
LEMMA DB_InitInv ==
    ASSUME Init
    PROVE  DB_Inv
<1>1. NoEvent \in Event /\ NoEvent.threadid = NoTid
  BY Zenon DEF NoEvent, ev, Event
<1>2. /\ kt \in [Tids -> Kernels]
      /\ \A t \in Tids : kt[t].st = "run" /\ ~kt[t].new /\ ~kt[t].pend
  BY Zenon DEF Init, Kernels, Signals
<1>3. td \in [Tids -> Threads] /\ \A t \in Tids : ~td[t].isPaused /\ td[t].suspendCount = 0
  BY <1>1, Zenon DEF Init, Threads
<1>4. /\ threadlist = <<>> /\ debugEventQueue = <<>> /\ stack = <<>> /\ debuggedThreadEvent = NoEvent
      /\ reported = NoEvent /\ killed = FALSE /\ stops = 0 /\ dr \in [Tids -> BOOLEAN] /\ ~crashed
      /\ cmd \in [Clients -> Command \cup {NoCommand}]
  BY Zenon DEF Init
<1>5. call = [c \in Clients |-> "none"]
  BY Zenon DEF Init, FC!Init
<1>6. call \in [Clients -> {"none", "pending", "served", "answered"}] /\ \A c \in Clients : call[c] # "pending"
  BY <1>5, Zenon
<1>7. DB_Types
  <2>1. killed \in BOOLEAN
    BY Zenon, <1>4
  <2>2. stops \in 0 .. MaxStops
    <3>1. MaxStops \in Nat
      BY DebuggerAssumption, Zenon
    <3> QED BY <1>4, <3>1
  <2>3. threadlist \in Seq(Tids) /\ debugEventQueue \in Seq(Event) /\ stack \in Seq(Frames)
    BY <1>4
  <2>4. debuggedThreadEvent \in Event /\ reported \in Event
    BY <1>1, <1>4, Zenon
  <2> QED BY <1>2, <1>3, <1>4, <1>6, <2>1, <2>2, <2>3, <2>4, ZenonT(40) DEF DB_Types
<1>8. DB_Start /\ DB_Calls /\ DB_Current /\ DB_Stack
  <2>1. DB_Start
    BY <1>2, <1>4, <1>6, Zenon DEF DB_Start
  <2>2. DB_Calls
    BY <1>4, <1>6, Zenon DEF DB_Calls
  <2>3. DB_Current
    BY <1>1, <1>4, Zenon DEF DB_Current
  <2>4. DB_Stack
    BY <1>4 DEF DB_Stack
  <2> QED BY <2>1, <2>2, <2>3, <2>4, Zenon
<1>9. DB_Queue /\ \A t : ~Has(debugEventQueue, t)
  BY <1>4 DEF DB_Queue, Once, Has
<1>10. heldEvent = NoEvent
  BY <1>4, Zenon DEF heldEvent
<1>11. \A t \in Tids : ~inFrame(t) /\ ~isCurrent(t) /\ ~isSuspended(t) /\ ~inQueue(t) /\ ~Taken(t)
  BY <1>1, <1>2, <1>3, <1>4, <1>9, <1>10, DB_Tids, SMTT(30) DEF inFrame, isCurrent,
     isSuspended, inQueue, Taken, real
<1>12. \A t \in Tids : DB_Held(t) /\ DB_Signal(t)
  BY <1>2, <1>3, <1>11, Zenon DEF DB_Held, DB_Signal
<1> QED BY <1>4, <1>7, <1>8, <1>9, <1>12, Zenon DEF DB_Inv, Core

\* A step that changes nothing
LEMMA DB_Stutter ==
    ASSUME DB_Inv, UNCHANGED vars
    PROVE  DB_Inv'
<1>1. UNCHANGED <<kt, killed, stops, threadlist, td, debugEventQueue, debuggedThreadEvent, dr,
                  stack, reported, call, cmd, crashed>>
  BY Zenon DEF vars, kernelVars, callVars
<1>2. top' = top /\ heldEvent' = heldEvent
  BY <1>1, Zenon DEF top, heldEvent
<1>3. DB_Types' /\ DB_Start' /\ DB_Calls' /\ DB_Current' /\ ~crashed'
  <2>1. DB_Types' /\ ~crashed'
    BY <1>1, Zenon DEF DB_Inv, DB_Types
  <2>2. DB_Start' /\ DB_Calls'
    BY Zenon, <1>1 DEF DB_Inv, DB_Start, DB_Calls, NoVirtual
  <2>3. DB_Current'
    BY <1>1, Zenon DEF DB_Inv, DB_Current, NoVirtual
  <2> QED BY <2>1, <2>2, <2>3, Zenon
<1>4. DB_Stack'
  <2>1. Founded(top)' <=> Founded(top)
    BY Zenon, <1>1, <1>2 DEF Founded, NoVirtual
  <2>2. Founded(stack[2])' <=> Founded(stack[2])
    BY Zenon, <1>1 DEF Founded, NoVirtual
  <2>3. Acting(top)' <=> Acting(top)
    BY Zenon, <1>1, <1>2 DEF Acting
  <2> QED BY ZenonT(40), <1>1, <1>2, <2>1, <2>2, <2>3 DEF DB_Inv, DB_Stack
<1>5. DB_Queue'
  BY <1>1, Zenon DEF DB_Inv, Core, DB_Queue
<1>6. \A t \in Tids : DB_Held(t)' /\ DB_Signal(t)'
  BY ZenonT(40), <1>1, <1>2
     DEF DB_Inv, Core, DB_Held, DB_Signal, Taken, inQueue, inFrame, isCurrent, isSuspended
<1> QED BY <1>3, <1>4, <1>5, <1>6, Zenon DEF DB_Inv, Core

\* The places that hold the event of a thread
LEMMA DB_Places ==
    ASSUME DB_Inv, NEW t \in Tids
    PROVE  IF Taken(t) THEN \E x : held(t) = {x} ELSE held(t) = {}
<1> DEFINE Q == {<<"queue", i>> : i \in {j \in 1 .. Len(debugEventQueue) : real(debugEventQueue[j], t)}}
           F == {<<"frame", i>> : i \in {j \in 1 .. Len(stack) :
                    /\ stack[j].pc \in {"act", "resume"} /\ ~stack[j].was
                    /\ stack[j].de.threadid = t}}
           C == IF real(debuggedThreadEvent, t) THEN {<<"current", 0>>} ELSE {}
           S == IF td[t].suspendCount > 0 THEN {<<"suspended", 0>>} ELSE {}
<1>1. held(t) = Q \cup F \cup C \cup S
  BY Zenon DEF held
<1>2. DB_Types /\ DB_Stack /\ DB_Held(t) /\ Once(debugEventQueue)
  BY Zenon DEF DB_Inv, Core, DB_Queue
<1>3. IF inQueue(t) THEN \E x : Q = {x} ELSE Q = {}
  <2>1. CASE ~inQueue(t)
    BY <2>1, Zenon DEF inQueue, Has
  <2>2. CASE inQueue(t)
    <3>1. PICK k \in 1 .. Len(debugEventQueue) : real(debugEventQueue[k], t)
      BY <2>2, Zenon DEF inQueue, Has
    <3>2. \A j \in 1 .. Len(debugEventQueue) : real(debugEventQueue[j], t) => j = k
      BY <1>2, <3>1, Zenon DEF Once
    <3>3. {j \in 1 .. Len(debugEventQueue) : real(debugEventQueue[j], t)} = {k}
      BY <3>1, <3>2, Zenon
    <3>4. Q = {<<"queue", k>>}
      BY <3>3, Zenon
    <3> QED BY Zenon, <2>2, <3>4
  <2> QED BY Zenon, <2>1, <2>2
<1>4. IF inFrame(t) THEN F = {<<"frame", 1>>} ELSE F = {}
  <2> DEFINE J == {j \in 1 .. Len(stack) :
                     /\ stack[j].pc \in {"act", "resume"} /\ ~stack[j].was
                     /\ stack[j].de.threadid = t}
  <2>1. Len(stack) \in 0 .. 2 /\ (Len(stack) = 2 => stack[2].pc = "check") /\ (Len(stack) = 0 <=> stack = <<>>)
    BY <1>2, DB_EmptySeq, Zenon DEF DB_Stack, DB_Types
  <2>2. t # NoTid /\ NoEvent.threadid = NoTid
    BY DB_Tids, Zenon DEF NoEvent, ev
  <2>3. \A j \in J : j = 1
    BY <2>1
  <2>4. 1 \in J <=> inFrame(t)
    BY <2>1, <2>2, SMTT(30) DEF inFrame, heldEvent, top
  <2>5. IF inFrame(t) THEN J = {1} ELSE J = {}
    BY <2>3, <2>4, Zenon
  <2> HIDE DEF J
  <2>6. (J = {1} => {<<"frame", i>> : i \in J} = {<<"frame", 1>>}) /\ (J = {} => {<<"frame", i>> : i \in J} = {})
    BY Zenon
  <2> QED BY <2>5, <2>6, Zenon DEF J
<1>5. IF isCurrent(t) THEN C = {<<"current", 0>>} ELSE C = {}
  BY Zenon DEF isCurrent
<1>6. IF isSuspended(t) THEN S = {<<"suspended", 0>>} ELSE S = {}
  BY Zenon DEF isSuspended
<1> HIDE DEF Q, F, C, S
<1>7. CASE ~Taken(t)
  <2>1. ~inQueue(t) /\ ~inFrame(t) /\ ~isCurrent(t) /\ ~isSuspended(t)
    BY <1>2, <1>7, Zenon DEF DB_Held
  <2>2. Q = {} /\ F = {} /\ C = {} /\ S = {}
    BY <1>3, <1>4, <1>5, <1>6, <2>1, Zenon
  <2> QED BY <1>1, <1>7, <2>2, Zenon
<1>8. CASE Taken(t)
  <2>1. \/ inQueue(t) /\ ~inFrame(t) /\ ~isCurrent(t) /\ ~isSuspended(t)
        \/ ~inQueue(t) /\ inFrame(t) /\ ~isCurrent(t) /\ ~isSuspended(t)
        \/ ~inQueue(t) /\ ~inFrame(t) /\ isCurrent(t) /\ ~isSuspended(t)
        \/ ~inQueue(t) /\ ~inFrame(t) /\ ~isCurrent(t) /\ isSuspended(t)
    BY <1>2, <1>8, Zenon DEF DB_Held
  <2>2. \E x : \/ Q = {x} /\ F = {} /\ C = {} /\ S = {}
               \/ Q = {} /\ F = {x} /\ C = {} /\ S = {}
               \/ Q = {} /\ F = {} /\ C = {x} /\ S = {}
               \/ Q = {} /\ F = {} /\ C = {} /\ S = {x}
    BY Zenon, <1>3, <1>4, <1>5, <1>6, <2>1
  <2>3. \E x : held(t) = {x}
    BY <1>1, <2>2, Zenon
  <2> QED BY <1>8, <2>3, Zenon
<1> QED BY <1>7, <1>8, Zenon

-----------------------------------------------------------------------------
\* From here on: minima of sets of numbers, and cardinalities
INSTANCE FiniteSetTheorems

\* A set of natural numbers has a least element
LEMMA DB_Least ==
    ASSUME NEW T \in SUBSET Nat, T # {}
    PROVE  \E x \in T : \A y \in T : x <= y
<1>1. \E x \in T : \A y \in T : ~(<<y, x>> \in OpToRel(<, Nat))
  BY ZenonT(40), NatLessThanWellFounded, WFMin
<1>2. \A x, y \in Nat : ~(<<y, x>> \in OpToRel(<, Nat)) => x <= y
  BY DEF OpToRel
<1> QED BY ZenonT(40), <1>1, <1>2

\* FindPausedThread finds a paused thread, if there is one
LEMMA DB_FindPaused ==
    ASSUME DB_Types, threadlist = Everyone
    PROVE  /\ FindPausedThread = NoTid \/ (FindPausedThread \in Tids /\ td[FindPausedThread].isPaused)
           /\ \A t \in Tids : td[t].isPaused => FindPausedThread # NoTid
<1> DEFINE paused == {i \in 1 .. Len(threadlist) : td[threadlist[i]].isPaused}
           first == CHOOSE i \in paused : \A j \in paused : i <= j
<1>1. Len(threadlist) = NThreads /\ \A t \in Tids : threadlist[t] = t
  BY DB_Tids, SMTT(30) DEF Everyone, Tids
<1>2. paused \in SUBSET Nat /\ paused \subseteq Tids /\ \A t \in Tids : t \in paused <=> td[t].isPaused
  BY <1>1, DB_Tids, Zenon DEF Tids
<1>3. FindPausedThread = IF paused = {} THEN NoTid ELSE threadlist[first]
  BY Zenon DEF FindPausedThread
<1> HIDE DEF paused
<1>4. ASSUME paused # {} PROVE first \in paused
  <2>1. \E i \in paused : \A j \in paused : i <= j
    BY <1>2, <1>4, DB_Least, Zenon
  <2> QED BY <2>1, Zenon
<1> HIDE DEF first
<1>5. paused # {} => FindPausedThread = first /\ first \in Tids /\ td[first].isPaused
  BY ZenonT(40), <1>1, <1>2, <1>3, <1>4
<1> QED BY <1>2, <1>3, <1>5, DB_Tids, ZenonT(40)

\* SetBreakpoint, RemoveBreakpoint and GetThreadContext begin
LEMMA DB_ThreadCommand ==
    ASSUME DB_Inv, Setting, SetBreakpoint \/ RemoveBreakpoint \/ GetThreadContext
    PROVE  DB_Inv' /\ StayStopped
<1>1. DB_Types /\ DB_Start /\ DB_Stack /\ stack # <<>> /\ at("entry")
  BY Zenon DEF DB_Inv, at, SetBreakpoint, RemoveBreakpoint, GetThreadContext
<1>2. /\ top.op \in ThreadCommands /\ UNCHANGED <<killed, stops, threadlist, debugEventQueue, dr>>
  BY Zenon DEF SetBreakpoint, RemoveBreakpoint, GetThreadContext, ThreadCommands
<1>3. threadlist = Everyone /\ target \in Tids /\ inList(target)
  BY <1>1, <1>2, DB_Target, ZenonT(40)
<1>4. CASE whenRunning
  BY <1>1, <1>2, <1>4, DB_WhenRunning, Zenon
<1>5. CASE SetBreakpoint /\ whenPaused(FindPausedThread)
  <2>1. td[target].isPaused
    BY <1>5, Zenon DEF whenPaused
  <2>2. PICK w \in Tids : w = FindPausedThread /\ td[w].isPaused
    BY <1>1, <1>3, <2>1, DB_FindPaused, Zenon
  <2> QED BY <1>1, <1>2, <1>5, <2>2, DB_WhenPaused, ZenonT(40)
<1>6. CASE RemoveBreakpoint /\ whenPaused(debuggedThreadEvent.threadid)
  <2>1. PICK w \in Tids \cup {NoTid} : w = debuggedThreadEvent.threadid
    BY <1>1, DB_Events, Zenon DEF DB_Types
  <2>2. top.op = "RemoveBreakpoint"
    BY <1>6, Zenon DEF RemoveBreakpoint
  <2> QED BY <1>1, <1>2, <1>6, <2>1, <2>2, DB_WhenPaused, ZenonT(40)
<1>7. CASE GetThreadContext /\ whenPaused(top.tid)
  <2>1. top.op = "GetThreadContext" /\ td[target].isPaused
    BY <1>7, Zenon DEF GetThreadContext, whenPaused
  <2>2. top.tid \in Tids
    BY <1>1, <2>1, Zenon DEF DB_Stack, Shape
  <2>3. target = top.tid
    BY <2>2, DB_Tids, Zenon DEF target
  <2>4. PICK w \in Tids : w = top.tid /\ td[w].isPaused
    BY <2>1, <2>2, <2>3, ZenonT(40)
  <2> QED BY <1>1, <1>2, <1>7, <2>4, DB_WhenPaused, ZenonT(40)
<1> QED BY <1>3, <1>4, <1>5, <1>6, <1>7, ZenonT(40) DEF SetBreakpoint, RemoveBreakpoint,
           GetThreadContext, invalidTid

\* ReadProcessMemoryDebug and WriteProcessMemoryDebug begin
LEMMA DB_MemoryCommand ==
    ASSUME DB_Inv, Setting, ReadProcessMemoryDebug \/ WriteProcessMemoryDebug
    PROVE  DB_Inv' /\ StayStopped
<1>1. DB_Types /\ DB_Start /\ DB_Stack /\ stack # <<>> /\ at("entry") /\ top.pc = "entry"
  BY Zenon DEF DB_Inv, at, ReadProcessMemoryDebug, WriteProcessMemoryDebug
<1>2. top.op \in MemoryCommands /\ stopAny
  BY Zenon DEF ReadProcessMemoryDebug, WriteProcessMemoryDebug, MemoryCommands
<1>3. top \in Frames /\ Shape(top) /\ Founded(top) /\ threadlist = Everyone
  BY <1>1, DB_Target, Zenon DEF DB_Stack
<1>4. /\ UNCHANGED <<kt, stops, threadlist, td, debugEventQueue, debuggedThreadEvent, dr,
                     reported, callVars, crashed>>
  BY <1>2, Zenon DEF stopAny
<1>5. Untouched /\ dr' \in [Tids -> BOOLEAN]
  BY <1>1, <1>4, Zenon DEF Untouched, DB_Types
<1>6. CASE FindPausedThread # NoTid
  <2>1. PICK w \in Tids : w = FindPausedThread
    BY <1>1, <1>3, <1>6, DB_FindPaused, ZenonT(40)
  <2>2. PICK f : f = [top EXCEPT !.pc = "act", !.was = TRUE, !.wtid = w]
    BY Zenon
  <2>3. Uses(f, top, w)
    BY ZenonT(40), <1>3, <2>2, DB_FrameUpdate
  <2>4. f.op = top.op /\ f.tid = top.tid /\ f.pc = "act" /\ f.was /\ f.wtid = w /\ Alike(f, top)
    BY <2>3, Zenon DEF Uses, Alike
  <2>5. Shape(f)
    BY <1>2, <1>3, <2>4, ZenonT(40) DEF Shape, ThreadCommands, MemoryCommands, SuspendCommands
  <2>6. Founded(f)
    BY <1>2, <1>3, <2>4, ZenonT(40) DEF Founded, MemoryCommands, EventCommands
  <2>7. Acting(f)
    BY <1>2, <2>4, Zenon DEF Acting, MemoryCommands
  <2>8. heldEvent = IF f.pc \in {"act", "resume"} /\ ~f.was THEN f.de ELSE NoEvent
    BY <1>1, <2>4, Zenon DEF heldEvent
  <2>9. setTop(f) /\ killed' \in BOOLEAN
    BY <1>1, <1>2, <1>6, <2>1, <2>2, ZenonT(40) DEF stopAny, DB_Types
  <2> QED BY ZenonT(40), <1>1, <1>4, <1>5, <2>4, <2>5, <2>6, <2>7, <2>8, <2>9, DB_GoesOn
<1>7. CASE FindPausedThread = NoTid
  <2>2. PICK f : f = [top EXCEPT !.pc = "block"]
    BY Zenon
  <2>3. Reaches(f, top, "block")
    BY ZenonT(40), <1>3, <2>2, DB_FrameUpdate
  <2>4. f.op = top.op /\ f.tid = top.tid /\ f.pc = "block" /\ ~f.was /\ Alike(f, top)
    BY <1>1, <1>3, <2>3, ZenonT(40) DEF Reaches, Alike, Shape
  <2>5. Shape(f)
    BY <1>2, <1>3, <2>4, ZenonT(40) DEF Shape, ThreadCommands, MemoryCommands, SuspendCommands
  <2>6. Founded(f)
    BY <1>2, <1>3, <2>4, ZenonT(40) DEF Founded, MemoryCommands, EventCommands
  <2>7. Acting(f)
    BY <2>4, Zenon DEF Acting
  <2>8. heldEvent = IF f.pc \in {"act", "resume"} /\ ~f.was THEN f.de ELSE NoEvent
    BY <1>1, <2>4, Zenon DEF heldEvent
  <2>9. setTop(f) /\ killed' \in BOOLEAN
    BY <1>2, <1>7, <2>2, ZenonT(40) DEF stopAny
  <2> QED BY ZenonT(40), <1>1, <1>4, <1>5, <2>4, <2>5, <2>6, <2>7, <2>8, <2>9, DB_GoesOn
<1> QED BY <1>6, <1>7, Zenon

\* Every step keeps the invariant, and only ContinueFromDebugEvent continues a thread that
\* a breakpoint or a signal has stopped
LEMMA DB_Step ==
    ASSUME DB_Inv, Setting, Next
    PROVE  /\ DB_Inv'
           /\ \/ StayStopped
              \/ /\ ContinueFromDebugEvent
                 /\ \A x \in Tids : stopped(x) /\ kt'[x].st = "run" => reported.threadid = x
<1>1. CASE Tracee
  BY <1>1, DB_Tracee, Zenon
<1>2. CASE Client
  BY <1>2, DB_Client, Zenon
<1>3. CASE OwnClient
  BY <1>3, DB_OwnClient, Zenon
<1>4. CASE \E c \in Clients : Serve(c)
  BY <1>4, DB_Serve, ZenonT(40)
<1>5. CASE SetBreakpoint \/ RemoveBreakpoint \/ GetThreadContext
  BY <1>5, DB_ThreadCommand, Zenon
<1>6. CASE SetBreakpoint_Poke \/ RemoveBreakpoint_Poke \/ GetThreadContext_Regs
  BY <1>6, DB_Access, ZenonT(40)
<1>7. CASE \/ SetBreakpoint_Resume \/ RemoveBreakpoint_Resume \/ GetThreadContext_Resume
           \/ ReadProcessMemoryDebug_Resume \/ WriteProcessMemoryDebug_Resume
  BY <1>7, DB_Resume, ZenonT(40)
<1>8. CASE ReadProcessMemoryDebug \/ WriteProcessMemoryDebug
  BY <1>8, DB_MemoryCommand, ZenonT(40)
<1>9. CASE ReadProcessMemoryDebug_Read \/ WriteProcessMemoryDebug_Poke
  BY <1>9, DB_Transfer, ZenonT(40)
<1>10. CASE InfiniteWait \/ InfiniteWait_Fails
  BY <1>10, DB_InfiniteWait, Zenon
<1>11. CASE SuspendPaused \/ SuspendRunning \/ ResumeThread
  BY <1>11, DB_SuspendPaused, DB_SuspendRunning, DB_ResumeThread, ZenonT(40)
<1>12. CASE WaitQueued \/ WaitNative
  BY <1>12, DB_WaitQueued, DB_WaitNative, ZenonT(40)
<1>13. CASE ContinueFromDebugEvent
  BY <1>13, DB_Continue, Zenon
<1>14. CASE TakeQueued \/ WaitPid \/ WaitOn \/ Timeout
  BY <1>14, DB_TakeQueued, DB_WaitPid, DB_WaitOn, DB_Timeout, ZenonT(40)
<1>15. Tracee \/ Client \/ OwnClient \/ DebuggerThread
  BY Zenon DEF Next
<1> QED BY ZenonT(40), <1>1, <1>2, <1>3, <1>4, <1>5, <1>6, <1>7, <1>8, <1>9, <1>10, <1>11, <1>12, <1>13, <1>14, <1>15
        DEF DebuggerThread

-----------------------------------------------------------------------------
\* What waitpid() has told of a thread is what is recorded of it, and its stop has one
\* holder; the queue, the commands that are executed one inside the other, and the
\* forwarded calls are in the states this needs.
THEOREM DB_Invariant ==
    ASSUME Setting
    PROVE  Spec => []DB_Inv
<1>1. Init => DB_Inv
  BY DB_InitInv, Zenon
<1>2. DB_Inv /\ [Next]_vars => DB_Inv'
  BY DB_Step, DB_Stutter, Zenon
<1> QED BY <1>1, <1>2, PTL DEF Spec

\* The debugger's variables have their types, whatever the number of threads and clients.
THEOREM DB_TypeCorrect ==
    ASSUME Setting
    PROVE  Spec => []TypeOK
<1>1. DB_Inv => TypeOK
  BY Zenon DEF DB_Inv, DB_Types, TypeOK, Kernels, Threads
<1> QED BY <1>1, DB_Invariant, PTL

\* PausedIsStopped: isPaused, by which every command of api.c decides whether to stop a
\* thread and whether to let it go, is set exactly while waitpid() has told of a stop.
THEOREM DB_PausedIsStopped ==
    ASSUME Setting
    PROVE  Spec => []PausedIsStopped
<1>1. DB_Inv => PausedIsStopped
  BY Zenon DEF DB_Inv, Core, DB_Held, Taken, PausedIsStopped, stopped
<1> QED BY <1>1, DB_Invariant, PTL

\* EventHeldOnce: a stop that waitpid() has returned is in the queue, with the command
\* that stopped the thread, the current event, or kept for ResumeThread, and in one only.
THEOREM DB_EventHeldOnce ==
    ASSUME Setting
    PROVE  Spec => []EventHeldOnce
<1>1. DB_Inv => EventHeldOnce
  <2> SUFFICES ASSUME DB_Inv, NEW t \in Tids, stopped(t)
               PROVE  Cardinality(held(t)) = IF kt[t].new THEN 0 ELSE 1
    BY Zenon DEF EventHeldOnce
  <2>1. Taken(t) <=> ~kt[t].new
    BY Zenon DEF Taken, stopped
  <2>2. CASE Taken(t)
    <3>1. PICK x : held(t) = {x}
      BY ZenonT(40), <2>2, DB_Places
    <3> QED BY ZenonT(40), <2>1, <2>2, <3>1, FS_Singleton
  <2>3. CASE ~Taken(t)
    <3>1. held(t) = {}
      BY <2>3, DB_Places, Zenon
    <3> QED BY <2>1, <2>3, <3>1, FS_EmptySet, ZenonT(40)
  <2> QED BY <2>2, <2>3, Zenon
<1> QED BY <1>1, DB_Invariant, PTL

\* ReportedIsStopped: between WaitForDebugEvent and ContinueFromDebugEvent the reported
\* thread stays stopped, whatever the forwarded commands do in between.
THEOREM DB_ReportedIsStopped ==
    ASSUME Setting
    PROVE  Spec => []ReportedIsStopped
<1>1. DB_Inv => ReportedIsStopped
  <2> SUFFICES ASSUME DB_Inv, reported # NoEvent, reported.debugevent \notin Virtual
               PROVE  stopped(reported.threadid)
    BY Zenon DEF ReportedIsStopped
  <2>1. reported = debuggedThreadEvent /\ reported.threadid \in Tids
    BY Zenon DEF DB_Inv, DB_Current
  <2>2. isCurrent(reported.threadid)
    BY <2>1, Zenon DEF isCurrent, real
  <2>3. DB_Held(reported.threadid)
    BY <2>1, Zenon DEF DB_Inv, Core
  <2> QED BY ZenonT(40), <2>1, <2>2, <2>3 DEF DB_Held, Taken, stopped
<1> QED BY <1>1, DB_Invariant, PTL

\* AccessOnStopped: SetBreakpoint and GetThreadContext use the registers of a stopped
\* thread, also when another command was executed inside their wait.
THEOREM DB_AccessOnStopped ==
    ASSUME Setting
    PROVE  Spec => []AccessOnStopped
<1>1. DB_Inv => AccessOnStopped
  <2> SUFFICES ASSUME DB_Inv, at("act"), top.op \in {"SetBreakpoint", "GetThreadContext"}
               PROVE  stopped(top.wtid)
    BY Zenon DEF AccessOnStopped
  <2>1. stack # <<>> /\ top.pc = "act" /\ Acting(top)
    BY Zenon DEF DB_Inv, DB_Stack, at
  <2>2. \A t \in Tids : DB_Held(t)
    BY Zenon DEF DB_Inv, Core
  <2>3. CASE top.was
    <3>1. top.wtid \in Tids /\ td[top.wtid].isPaused
      BY <2>1, <2>3, Zenon DEF Acting
    <3> QED BY <2>2, <3>1, ZenonT(40) DEF DB_Held, Taken, stopped
  <2>4. CASE ~top.was
    <3>1. top.wtid \in Tids /\ top.wtid = top.de.threadid
      BY <2>1, <2>4, ZenonT(40) DEF Acting
    <3>2. inFrame(top.wtid)
      BY <2>1, <2>4, <3>1, Zenon DEF inFrame, heldEvent
    <3> QED BY <2>2, <3>1, <3>2, ZenonT(40) DEF DB_Held, Taken, stopped
  <2> QED BY <2>3, <2>4, Zenon
<1> QED BY <1>1, DB_Invariant, PTL

\* NoCrash: no command looks up a thread that is not in the list, or an event that is not
\* in the queue, and uses what it has not found.
THEOREM DB_NoCrash ==
    ASSUME Setting
    PROVE  Spec => []NoCrash
<1>1. DB_Inv => NoCrash
  BY Zenon DEF DB_Inv, NoCrash
<1> QED BY <1>1, DB_Invariant, PTL

\* SuspendedStaysStopped: a thread that SuspendThread has counted is stopped until
\* ResumeThread has counted it down to 0.
THEOREM DB_SuspendedStaysStopped ==
    ASSUME Setting
    PROVE  Spec => []SuspendedStaysStopped
<1>1. DB_Inv => SuspendedStaysStopped
  BY Zenon DEF DB_Inv, Core, DB_Held, isSuspended, Taken, SuspendedStaysStopped
<1> QED BY <1>1, DB_Invariant, PTL

\* OnlyTheClientContinues: a command that stops and resumes threads for its own ends
\* resumes none that a breakpoint or a signal has stopped; that is left to the client's
\* ContinueFromDebugEvent.
THEOREM DB_OnlyTheClientContinues ==
    ASSUME Setting
    PROVE  Spec => OnlyTheClientContinues
<1> DEFINE A == \A t \in Tids : stopped(t) /\ kt[t].sig # "SIGSTOP" /\ kt'[t].st = "run" =>
                   at("entry") /\ top.op = "ContinueFromDebugEvent" /\ reported.threadid = t
<1>1. DB_Inv /\ [Next]_vars => [A]_vars
  <2> SUFFICES ASSUME DB_Inv, Next PROVE A
    BY Zenon
  <2>1. CASE StayStopped
    BY <2>1, Zenon DEF StayStopped
  <2>2. CASE /\ ContinueFromDebugEvent
             /\ \A x \in Tids : stopped(x) /\ kt'[x].st = "run" => reported.threadid = x
    BY <2>2, Zenon DEF ContinueFromDebugEvent
  <2> QED BY <2>1, <2>2, DB_Step, ZenonT(40)
<1> QED BY <1>1, DB_Invariant, PTL DEF Spec, OnlyTheClientContinues
=============================================================================
