--------------------------- MODULE Windows_proofs ---------------------------
(***************************************************************************)
(* Proofs about what CE runs on Windows around a target, for any threads,  *)
(* processors, locks, registers and bounds: the lock of the speedhack      *)
(* (SimpleLock), the handshake of the driver's debugger (KernelDebugger),  *)
(* the lock of DBVM (CriticalSection), the trace of the processor          *)
(* (Ultimap2) and the debug registers of every processor (GlobalDebug).    *)
(* The five share no state.                                                *)
(***************************************************************************)
EXTENDS SimpleLock, KernelDebugger, CriticalSection, Ultimap2, GlobalDebug, TLAPS

(***************************************************************************)
(* TSimpleLock excludes, for any number of threads and locks and any       *)
(* nesting, until a nested lock has its count exchanged.                   *)
(***************************************************************************)
\* What a thread that gives up a lock still has of it
Releasing ==
    \A t \in SL_Threads : doing[t].at \in {"disown", "release"} => depth[doing[t].on][t] > 0

\* The count as the thread that has the lock sees it
CountSeen(t, l) ==
    Has(t, l) => count[l] = IF Is(t, "own", l) THEN 1 ELSE depth[l][t]

\* What each step of lock and unlock relies on
StepSees(t, l) ==
    /\ Is(t, "own", l) \/ Is(t, "spin", l) => depth[l][t] = 0
    /\ Is(t, "nested", l) => owner[l] = t
    /\ Is(t, "disown", l) => owner[l] = t /\ depth[l][t] = 1
    /\ Is(t, "release", l) /\ owner[l] = t => depth[l][t] > 1
    /\ owner[l] = t => depth[l][t] > 0
    /\ depth[l][t] > 0 /\ owner[l] # t => depth[l][t] = 1 /\ Is(t, "release", l)

\* ... for one lock
Sound(l) ==
    /\ \A t \in SL_Threads : CountSeen(t, l) /\ StepSees(t, l)
    /\ \A t, u \in SL_Threads : Has(t, l) /\ Has(u, l) => t = u
    /\ count[l] = 0 \/ \E t \in SL_Threads : Has(t, l)

SL_Inv ==
    /\ SL_TypeOK
    /\ Releasing
    /\ ~disturbed => \A l \in SL_Locks : Sound(l)

USE SLAssumption

\* A new lock is free
LEMMA SL_InitInv == SL_Init => SL_Inv
  <1> SUFFICES ASSUME SL_Init PROVE SL_Inv
    BY Zenon
  <1>1. SL_TypeOK
    <2>1. (CHOOSE l \in SL_Locks : TRUE) \in SL_Locks
      BY Zenon
    <2>2. doing \in [SL_Threads -> [at : Steps, on : SL_Locks]]
      BY <2>1, Zenon DEF SL_Init, Steps
    <2>3. /\ count \in [SL_Locks -> Int]
          /\ owner \in [SL_Locks -> SL_Threads \cup {SL_None}]
          /\ depth \in [SL_Locks -> [SL_Threads -> Nat]]
      BY DEF SL_Init
    <2>4. disturbed \in BOOLEAN
      BY Zenon DEF SL_Init
    <2> QED BY <2>2, <2>3, <2>4, Zenon DEF SL_TypeOK
  <1>2. Releasing
    BY Zenon DEF SL_Init, Releasing, Outside
  <1>3. ASSUME NEW l \in SL_Locks, NEW t \in SL_Threads
        PROVE ~Has(t, l) /\ CountSeen(t, l) /\ StepSees(t, l)
    BY DEF SL_Init, Has, Is, CountSeen, StepSees, Outside
  <1>4. \A l \in SL_Locks : count[l] = 0
    BY Zenon DEF SL_Init
  <1> QED BY <1>1, <1>2, <1>3, <1>4, Zenon DEF SL_Inv, Sound

\* Every step of the lock keeps the types, and a thread that releases a lock has it
LEMMA SL_TypeStep == SL_TypeOK /\ Releasing /\ [SL_Next]_slVars => SL_TypeOK' /\ Releasing'
  <1> SUFFICES ASSUME SL_TypeOK, Releasing, [SL_Next]_slVars PROVE SL_TypeOK' /\ Releasing'
    BY Zenon
  <1> USE DEF SL_TypeOK, Releasing, Steps, Outside, Do, Goes, Ready
  <1>1. ASSUME NEW t \in SL_Threads, NEW l \in SL_Locks, TestOwner(t, l)
        PROVE SL_TypeOK' /\ Releasing'
    BY <1>1, Zenon DEF TestOwner
  <1>2. ASSUME NEW t \in SL_Threads, Exchange(t) PROVE SL_TypeOK' /\ Releasing'
    BY <1>2 DEF Exchange
  <1>3. ASSUME NEW t \in SL_Threads, SetOwner(t) PROVE SL_TypeOK' /\ Releasing'
    BY <1>3 DEF SetOwner
  <1>4. ASSUME NEW t \in SL_Threads, Increment(t) PROVE SL_TypeOK' /\ Releasing'
    BY <1>4 DEF Increment
  <1>5. ASSUME NEW t \in SL_Threads, NEW l \in SL_Locks, TestCount(t, l)
        PROVE SL_TypeOK' /\ Releasing'
    BY <1>5, Zenon DEF TestCount
  <1>6. ASSUME NEW t \in SL_Threads, ClearOwner(t) PROVE SL_TypeOK' /\ Releasing'
    BY <1>6, Zenon DEF ClearOwner
  <1>7. ASSUME NEW t \in SL_Threads, Decrement(t) PROVE SL_TypeOK' /\ Releasing'
    BY <1>7 DEF Decrement
  <1>8. CASE UNCHANGED slVars
    BY SMTT(30), <1>8 DEF slVars
  <1> QED BY <1>1, <1>2, <1>3, <1>4, <1>5, <1>6, <1>7, <1>8, Zenon DEF SL_Next, InCall

\* Each step keeps every lock sound
LEMMA SL_SoundStep ==
    ASSUME SL_Inv, SL_Next, ~disturbed', NEW m \in SL_Locks
    PROVE  Sound(m)'
  <1>0. SL_TypeOK /\ Releasing
    BY Zenon DEF SL_Inv
  <1>1. ~disturbed
    BY Zenon DEF SL_Next, InCall, TestOwner, TestCount, Exchange, SetOwner, Increment,
                 ClearOwner, Decrement
  <1>2. \A l \in SL_Locks : Sound(l)
    BY Zenon, <1>1 DEF SL_Inv
  <1> USE DEF SL_TypeOK, Steps, Outside, Do, Goes, Ready, Has, Is, CountSeen, StepSees, Sound
  <1>3. ASSUME NEW t \in SL_Threads, NEW l \in SL_Locks, TestOwner(t, l) PROVE Sound(m)'
    BY <1>0, <1>2, <1>3 DEF TestOwner
  <1>4. ASSUME NEW t \in SL_Threads, Exchange(t) PROVE Sound(m)'
    <2>1. count[doing[t].on] \in {0, 1}
      BY Zenon, <1>4 DEF Exchange
    <2>2. /\ Goes(t, "spin", IF count[doing[t].on] = 0 THEN "own" ELSE "spin")
          /\ count' = [count EXCEPT ![doing[t].on] = 1]
          /\ UNCHANGED <<owner, depth>>
      BY Zenon, <1>4 DEF Exchange
    <2> QED BY <1>0, <1>2, <2>1, <2>2, SMTT(30)
  <1>5. ASSUME NEW t \in SL_Threads, SetOwner(t) PROVE Sound(m)'
    BY <1>0, <1>2, <1>5, SMTT(30) DEF SetOwner
  <1>6. ASSUME NEW t \in SL_Threads, Increment(t) PROVE Sound(m)'
    BY <1>0, <1>2, <1>6 DEF Increment
  <1>7. ASSUME NEW t \in SL_Threads, NEW l \in SL_Locks, TestCount(t, l) PROVE Sound(m)'
    BY <1>0, <1>2, <1>7 DEF TestCount
  <1>8. ASSUME NEW t \in SL_Threads, ClearOwner(t) PROVE Sound(m)'
    BY <1>0, <1>2, <1>8, SMTT(30) DEF ClearOwner
  <1>9. ASSUME NEW t \in SL_Threads, Decrement(t) PROVE Sound(m)'
    BY <1>0, <1>2, <1>9 DEF Decrement, Releasing
  <1> QED BY <1>3, <1>4, <1>5, <1>6, <1>7, <1>8, <1>9, Zenon DEF SL_Next, InCall

\* The inductive invariant of lock and unlock: types, where a releasing thread
\* can be, and that each lock is sound until it is disturbed.
THEOREM SL_Invariant == SL_Spec => []SL_Inv
  <1>1. SL_Init => SL_Inv
    BY SL_InitInv, Zenon
  <1>2. SL_Inv /\ [SL_Next]_slVars => SL_Inv'
    <2> SUFFICES ASSUME SL_Inv, [SL_Next]_slVars PROVE SL_Inv'
      BY Zenon
    <2>1. SL_TypeOK' /\ Releasing'
      BY SL_TypeStep, Zenon DEF SL_Inv
    <2>2. ASSUME SL_Next, ~disturbed', NEW l \in SL_Locks PROVE Sound(l)'
      BY <2>2, SL_SoundStep, Zenon
    <2>3. ASSUME UNCHANGED slVars, ~disturbed', NEW l \in SL_Locks PROVE Sound(l)'
      <3>1. ~disturbed
        BY Zenon, <2>3 DEF slVars
      <3>2. Sound(l)
        BY Zenon, <3>1 DEF SL_Inv
      <3> QED BY <2>3, <3>2, Zenon DEF slVars, Sound, CountSeen, StepSees, Has, Is
    <2> QED BY <2>1, <2>2, <2>3, Zenon DEF SL_Inv
  <1> QED BY <1>1, <1>2, PTL DEF SL_Spec

\* Two threads never have a lock of the speedhack at once, before its nested count
\* was exchanged.
THEOREM SL_Exclusive == SL_Spec => []Exclusive
  <1>1. SL_Inv => Exclusive
    BY Zenon DEF SL_Inv, Sound, Exclusive
  <1> QED BY <1>1, SL_Invariant, PTL

\* Until then the count of a lock is how often it is held, and so never negative.
THEOREM SL_CountIsDepth == SL_Spec => []CountIsDepth
  <1>1. SL_Inv => CountIsDepth
    <2> SUFFICES ASSUME SL_Inv, ~disturbed, NEW l \in SL_Locks
                 PROVE  \/ count[l] = 0 /\ \A t \in SL_Threads : ~Has(t, l)
                        \/ \E t \in SL_Threads :
                             Has(t, l) /\ count[l] = IF Is(t, "own", l) THEN 1 ELSE depth[l][t]
      BY Zenon DEF CountIsDepth
    <2>1. Sound(l) /\ SL_TypeOK
      BY Zenon DEF SL_Inv
    <2>2. CASE \E t \in SL_Threads : Has(t, l)
      BY <2>1, <2>2, Zenon DEF Sound, CountSeen
    <2>3. CASE \A t \in SL_Threads : ~Has(t, l)
      BY <2>1, <2>3, Zenon DEF Sound
    <2> QED BY <2>2, <2>3, Zenon
  <1> QED BY <1>1, SL_Invariant, PTL

\* Until then whoever is recorded as the owner is the one who has the lock.
THEOREM SL_OwnerHas == SL_Spec => []OwnerHas
  <1>1. SL_Inv => OwnerHas
    BY Zenon DEF SL_Inv, Sound, StepSees, OwnerHas
  <1> QED BY <1>1, SL_Invariant, PTL

\* Together: TSimpleLock keeps its promises for any threads, locks and nesting, until a
\* nested count has been exchanged.
THEOREM SL_LockIsSound == SL_Spec => []LockIsSound
  BY SL_Exclusive, SL_CountIsDepth, SL_OwnerHas, PTL DEF LockIsSound

HIDE SLAssumption

(***************************************************************************)
(* The debugger handshake of the driver.                                   *)
(***************************************************************************)
\* The client has an event of the driver that it has not answered
Handling == client.needsToContinue /\ client.pc \in {"received", "paused", "continue"}

\* Thread t was told what it is to resume with, "verdict" being what it will return
ToldAs(t, verdict) == told[t] = [context |-> saved[t], verdict |-> verdict]

\* The stack that is published is that of the one thread between PublishStack and
\* TakeVerdict
PublishedIsHeld ==
  \A t \in Threads :
    /\ lastStackPointer = t <=> kpc[t] \in {"notify", "stopped", "woken"}
    /\ kpc[t] \in {"notify", "stopped", "woken"} => lastThreadID = t

\* A stopped thread's event is in one place: signalled to the client, with the client,
\* or answered; and none of the three is there without a stopped thread
EventInOnePlace ==
  /\ waitForDebugEvent \/ waitForContinue \/ Handling =>
       lastStackPointer # NoThread /\ kpc[lastStackPointer] = "stopped"
  /\ ~(waitForDebugEvent /\ waitForContinue)
  /\ ~(waitForDebugEvent /\ Handling)
  /\ ~(waitForContinue /\ Handling)

\* What the client has is the published thread's; what it has sent stays with the thread
StateIsTheThreads ==
  /\ client.pc \in {"waiting", "received", "continue"} => client.needsToContinue
  /\ Handling /\ client.pc # "received" => client.state.thread = lastStackPointer
  /\ client.pc = "continue" => saved[lastStackPointer] = client.state.context
  /\ waitForContinue => ToldAs(lastStackPointer, handledLastEvent)
  /\ \A t \in Threads :
       /\ kpc[t] = "woken" => ToldAs(t, handledLastEvent)
       /\ kpc[t] \in {"release", "restore"} => ToldAs(t, handled[t])

KD_Safe == OneBreaks /\ PublishedIsHeld /\ EventInOnePlace /\ StateIsTheThreads

KD_Inv == KD_TypeOK /\ KD_Safe

\* Nothing is debugged yet
LEMMA KD_InitInv == KD_Init => KD_Inv
  <1> SUFFICES ASSUME KD_Init PROVE KD_Inv
    BY Zenon
  <1> USE KDAssumption
  <1>1. (CHOOSE c \in Contexts : TRUE) \in Contexts
    BY Zenon
  <1>2. KD_TypeOK
    BY Zenon, <1>1 DEF KD_Init, KD_TypeOK, NewClient, NoOrder, Verdicts, ThreadSteps, ClientSteps
  <1>3. OneBreaks /\ PublishedIsHeld /\ EventInOnePlace /\ StateIsTheThreads
    BY Zenon DEF KD_Init, OneBreaks, Holding, PublishedIsHeld, EventInOnePlace,
       StateIsTheThreads, Handling, NewClient
  <1> QED BY <1>2, <1>3, Zenon DEF KD_Inv, KD_Safe

\* The types are kept by every step
LEMMA KD_TypeStep == KD_TypeOK /\ [KD_Next]_kdVars => KD_TypeOK'
  <1> SUFFICES ASSUME KD_TypeOK, [KD_Next]_kdVars PROVE KD_TypeOK'
    BY Zenon
  <1> USE KDAssumption DEF KD_TypeOK, Verdicts, ThreadSteps, ClientSteps, events, published,
            session, threadState, Raise
  <1>1. NoOrder \in [context : Contexts, verdict : {"none"}]
    BY Zenon DEF NoOrder
  <1>2. ASSUME NEW t \in Threads, PassToWindows(t) \/ SwallowBreak(t) \/ EnterHandler(t)
        PROVE  KD_TypeOK'
    <2>1. CASE PassToWindows(t)
      BY <2>1 DEF PassToWindows
    <2>2. CASE SwallowBreak(t)
      BY <2>2 DEF SwallowBreak
    <2>3. CASE EnterHandler(t)
      BY SMTT(30), <1>1, <2>3 DEF EnterHandler
    <2> QED BY <1>2, <2>1, <2>2, <2>3, Zenon
  <1>3. ASSUME NEW t \in Threads, HandlerStep(t) PROVE KD_TypeOK'
    <2>1. CASE WaitCanBreak(t)
      <3>1. canBreak' \in BOOLEAN
        BY <2>1, Zenon DEF WaitCanBreak
      <3> QED BY <2>1, <3>1 DEF WaitCanBreak
    <2>2. CASE PublishStack(t)
      BY <2>2 DEF PublishStack
    <2>3. CASE NotifyUsermode(t)
      BY <2>3 DEF NotifyUsermode
    <2>4. CASE WaitForContinue(t)
      <3>1. waitForContinue' \in BOOLEAN
        BY <2>4, Zenon DEF WaitForContinue
      <3> QED BY <2>4, <3>1 DEF WaitForContinue
    <2>5. CASE TakeVerdict(t)
      BY <2>5 DEF TakeVerdict
    <2>6. CASE ReleaseCanBreak(t)
      BY <2>6 DEF ReleaseCanBreak
    <2>7. CASE LeaveHandler(t)
      BY <2>7 DEF LeaveHandler
    <2> QED BY <1>3, <2>1, <2>2, <2>3, <2>4, <2>5, <2>6, <2>7, Zenon DEF HandlerStep
  <1>4. CASE PollerInjects \/ WaitInjected \/ WaitDriver \/ WaitSignalled \/ WaitTimedOut
    <2>1. CASE PollerInjects
      BY <2>1 DEF PollerInjects
    <2>2. CASE WaitInjected
      <3>1. client.injected - 1 \in Nat
        BY <2>2 DEF WaitInjected
      <3> DEFINE n == client.injected - 1
      <3> HIDE DEF n
      <3>2. client' = [client EXCEPT !.pc = "paused", !.injected = n,
                                    !.needsToContinue = FALSE]
        BY <2>2, Zenon DEF WaitInjected, n
      <3>3. n \in Nat
        BY <3>1, Zenon DEF n
      <3> QED BY ZenonT(60), <2>2, <3>2, <3>3 DEF WaitInjected
    <2>3. CASE WaitDriver
      BY ZenonT(60), <2>3 DEF WaitDriver
    <2>4. CASE WaitSignalled
      <3>1. waitForDebugEvent' \in BOOLEAN
        BY <2>4, Zenon DEF WaitSignalled
      <3> QED BY <2>4, <3>1, Zenon DEF WaitSignalled
    <2>5. CASE WaitTimedOut
      BY <2>5, Zenon DEF WaitTimedOut
    <2> QED BY <1>4, <2>1, <2>2, <2>3, <2>4, <2>5, Zenon
  <1>5. CASE FetchState
    BY ZenonT(60), <1>5 DEF FetchState, GetDebuggerState
  <1>6. CASE WriteBack
    BY <1>6, ZenonT(40) DEF WriteBack, SetDebuggerState
  <1>7. ASSUME NEW v \in Verdicts, Continue(v) PROVE KD_TypeOK'
    BY Zenon, <1>7 DEF Continue, ContinueDebugEvent
  <1>8. ASSUME NEW c \in Contexts, EditContext(c) PROVE KD_TypeOK'
    BY ZenonT(60), <1>8 DEF EditContext, SetDebuggerState
  <1>9. CASE StartDebugging
    <2>1. NewClient \in [pc : ClientSteps, needsToContinue : BOOLEAN, injected : Nat,
                          state : [thread : Threads \cup {NoThread}, context : Contexts]]
      BY Zenon DEF NewClient
    <2>2. int1' \in BOOLEAN
      BY <1>9, Zenon DEF StartDebugging
    <2>3. isDebugging' \in BOOLEAN /\ kernelDebugStarted' \in BOOLEAN
      BY <1>9, Zenon DEF StartDebugging
    <2>4. client' \in [pc : ClientSteps, needsToContinue : BOOLEAN, injected : Nat,
                        state : [thread : Threads \cup {NoThread}, context : Contexts]]
      BY <1>9, <2>1, Zenon DEF StartDebugging
    <2>5. budget' \in [breaks : Nat, injected : Nat, starts : Nat]
      BY <1>9 DEF StartDebugging
    <2> QED BY Zenon, <1>9, <2>2, <2>3, <2>4, <2>5 DEF StartDebugging
  <1>10. CASE StopDebugging
    BY Zenon, <1>10 DEF StopDebugging
  <1>11. CASE UNCHANGED kdVars
    BY <1>11 DEF kdVars
  <1> QED BY <1>2, <1>3, <1>4, <1>5, <1>6, <1>7, <1>8, <1>9, <1>10, <1>11, Zenon DEF KD_Next,
             ClientStep

\* A step of a thread of the debugged process
LEMMA KD_ThreadStep ==
  ASSUME KD_TypeOK, KD_Safe, NEW t \in Threads,
         PassToWindows(t) \/ SwallowBreak(t) \/ EnterHandler(t) \/ HandlerStep(t)
  PROVE  KD_Safe'
  <1> USE KDAssumption DEF KD_TypeOK, KD_Safe, OneBreaks, Holding, PublishedIsHeld,
            EventInOnePlace, StateIsTheThreads, Handling, ToldAs, Verdicts, ThreadSteps,
            ClientSteps, events, published, session, Raise
  <1>1. CASE PassToWindows(t)
    BY SMTT(30), <1>1 DEF PassToWindows
  <1>2. CASE SwallowBreak(t)
    BY SMTT(30), <1>2 DEF SwallowBreak
  <1>3. CASE EnterHandler(t)
    BY SMTT(30), <1>3 DEF EnterHandler
  <1>4. CASE WaitCanBreak(t)
    BY SMTT(30), <1>4 DEF WaitCanBreak
  <1>5. CASE PublishStack(t)
    BY SMTT(30), <1>5 DEF PublishStack
  <1>6. CASE NotifyUsermode(t)
    BY SMTT(30), <1>6 DEF NotifyUsermode
  <1>7. CASE WaitForContinue(t)
    BY SMTT(30), <1>7 DEF WaitForContinue
  <1>8. CASE TakeVerdict(t)
    BY SMTT(30), <1>8 DEF TakeVerdict
  <1>9. CASE ReleaseCanBreak(t)
    BY SMTT(30), <1>9 DEF ReleaseCanBreak
  <1>10. CASE LeaveHandler(t)
    BY <1>10 DEF LeaveHandler
  <1> QED BY Zenon, <1>1, <1>2, <1>3, <1>4, <1>5, <1>6, <1>7, <1>8, <1>9, <1>10 DEF HandlerStep

\* A step of the client or of the thread poller
LEMMA KD_ClientStep ==
  ASSUME KD_TypeOK, KD_Safe,
         \/ PollerInjects \/ ClientStep \/ StartDebugging \/ StopDebugging
         \/ \E c \in Contexts : EditContext(c)
  PROVE  KD_Safe'
  <1> USE KDAssumption DEF KD_TypeOK, KD_Safe, OneBreaks, Holding, PublishedIsHeld,
            EventInOnePlace, StateIsTheThreads, Handling, ToldAs, Verdicts, ThreadSteps,
            ClientSteps, events, published, session, threadState
  <1>1. CASE PollerInjects
    BY <1>1, ZenonT(40) DEF PollerInjects
  <1>2. CASE WaitInjected
    BY <1>2, ZenonT(40) DEF WaitInjected
  <1>3. CASE WaitDriver
    BY <1>3, Zenon DEF WaitDriver
  <1>4. CASE WaitSignalled
    BY <1>4, Zenon DEF WaitSignalled
  <1>5. CASE WaitTimedOut
    BY <1>5, Zenon DEF WaitTimedOut
  <1>6. CASE FetchState
    BY <1>6, ZenonT(40) DEF FetchState, GetDebuggerState
  <1>7. CASE WriteBack
    BY <1>7 DEF WriteBack, SetDebuggerState
  <1>8. CASE StartDebugging
    BY <1>8, Zenon DEF StartDebugging, NewClient
  <1>9. CASE StopDebugging
    BY <1>9, Zenon DEF StopDebugging
  <1>10. ASSUME NEW v \in Verdicts, Continue(v) PROVE KD_Safe'
    BY SMTT(30), <1>10 DEF Continue, ContinueDebugEvent
  <1>11. ASSUME NEW c \in Contexts, EditContext(c) PROVE KD_Safe'
    BY <1>11 DEF EditContext, SetDebuggerState
  <1> QED BY ZenonT(60), <1>1, <1>2, <1>3, <1>4, <1>5, <1>6, <1>7, <1>8, <1>9, <1>10, <1>11 DEF ClientStep

\* Every step of the interrupt handler and of the ioctls keeps the invariant
LEMMA KD_Step == KD_Inv /\ [KD_Next]_kdVars => KD_Inv'
  <1> SUFFICES ASSUME KD_Inv, [KD_Next]_kdVars PROVE KD_Inv'
    BY Zenon
  <1>1. KD_TypeOK'
    BY Zenon, KD_TypeStep DEF KD_Inv
  <1>2. ASSUME UNCHANGED kdVars PROVE KD_Safe'
    BY <1>2, Zenon DEF kdVars, KD_Inv, KD_Safe, OneBreaks, Holding, PublishedIsHeld,
       EventInOnePlace, StateIsTheThreads, Handling, ToldAs
  <1>3. ASSUME KD_Next PROVE KD_Safe'
    BY <1>3, KD_ThreadStep, KD_ClientStep, Zenon DEF KD_Next, KD_Inv
  <1> QED BY <1>1, <1>2, <1>3, Zenon DEF KD_Inv

\* The inductive invariant of the handshake between the handler and the client
THEOREM KD_Invariant == KD_Spec => []KD_Inv
  BY KD_InitInv, KD_Step, PTL DEF KD_Spec

\* The events, the published stack and the client keep their types
THEOREM KD_TypeCorrect == KD_Spec => []KD_TypeOK
  <1>1. KD_Inv => KD_TypeOK
    BY Zenon DEF KD_Inv
  <1> QED BY <1>1, KD_Invariant, PTL

\* Threads that break together stay apart in breakpointHandler_kernel, for any number of
\* them: one is published at a time, the client's fetch, edit and continue are for that
\* one, and each leaves the handler with the registers and the verdict it was told.
THEOREM KD_BreaksKeptApart == KD_Spec => BreaksKeptApart
  <1>1. KD_Inv => OneBreaks /\ ReportedIsStopped /\ ContinueIsAwaited
    BY KDAssumption DEF KD_Inv, KD_TypeOK, KD_Safe, EventInOnePlace, StateIsTheThreads,
           Handling, ToldAs, ReportedIsStopped, ContinueIsAwaited, Verdicts
  <1>2. KD_Inv /\ [KD_Next]_kdVars =>
          [\A t \in Threads :
             kpc[t] = "restore" /\ kpc'[t] = "run" =>
               context'[t] = told[t].context /\ handled[t] = told[t].verdict]_kdVars
    <2> SUFFICES ASSUME KD_Inv, KD_Next
                 PROVE  \A t \in Threads : kpc[t] = "restore" /\ kpc'[t] = "run" =>
                          context'[t] = told[t].context /\ handled[t] = told[t].verdict
      BY Zenon
    <2> TAKE t \in Threads
    <2> HAVE kpc[t] = "restore" /\ kpc'[t] = "run"
    <2>1. told[t].context = saved[t] /\ told[t].verdict = handled[t]
      <3>1. ToldAs(t, handled[t])
        BY Zenon DEF KD_Inv, KD_Safe, StateIsTheThreads
      <3> QED BY <3>1 DEF ToldAs
    <2>2. context'[t] = saved[t]
      <3>1. kpc'[t] # kpc[t]
        BY Zenon
      <3>2. PICK u \in Threads : EnterHandler(u) \/ HandlerStep(u)
        BY Zenon, <3>1 DEF KD_Next, ClientStep, PassToWindows, SwallowBreak, PollerInjects,
             WaitInjected, WaitDriver, WaitSignalled, WaitTimedOut, FetchState, WriteBack,
             Continue, EditContext, StartDebugging, StopDebugging, threadState
      <3>3. LeaveHandler(t)
        BY <3>1, <3>2, Zenon DEF KD_Inv, KD_TypeOK, HandlerStep, EnterHandler, Raise,
           WaitCanBreak, PublishStack, NotifyUsermode, WaitForContinue, TakeVerdict,
           ReleaseCanBreak, LeaveHandler
      <3> QED BY <3>3, Zenon DEF LeaveHandler, KD_Inv, KD_TypeOK
    <2> QED BY <2>1, <2>2, Zenon
  <1> QED BY <1>1, <1>2, KD_Invariant, PTL DEF KD_Spec, BreaksKeptApart, ResumesAsTold

(***************************************************************************)
(* DBVM's critical section excludes, for any number of cpus and any depth  *)
(* of nesting.                                                             *)
(***************************************************************************)
\* What the steps of csEnter and csLeave rely on: who sees its own number in apicid has
\* the section, and who stores it there has had it alone since the exchange
CS_Sees(c) ==
    /\ Entered(c) => locked = 1
    /\ apicid = c => nest[c] > 0 \/ csAt[c] = "clearapicid"
    /\ nest[c] > 0 => apicid = c /\ lockcount = nest[c] /\ csAt[c] \notin
                        {"setcount", "setapicid", "clearapicid", "unlock", "spin", "xchg"}
    /\ csAt[c] \in {"again", "decrement"} => nest[c] > 0
    /\ csAt[c] = "setapicid" => lockcount = 1
    /\ csAt[c] = "clearapicid" => apicid = c /\ lockcount = 0

CS_Inv ==
    /\ CS_TypeOK
    /\ OneCpuInside
    /\ locked = 0 => \A c \in CS_Cpus : ~Entered(c)
    /\ \A c \in CS_Cpus : CS_Sees(c)

USE CSAssumption

\* A new critical section: nobody holds it, nobody waits
LEMMA CS_InitInv == CS_Init => CS_Inv
  BY SMTT(30) DEF CS_Init, CS_Inv, CS_TypeOK, CS_Steps, OneCpuInside, Entered, CS_Sees

\* Every step of EnterCriticalSection and LeaveCriticalSection keeps the invariant
LEMMA CS_Step == CS_Inv /\ [CS_Next]_csVars => CS_Inv'
  <1> SUFFICES ASSUME CS_Inv, [CS_Next]_csVars PROVE CS_Inv'
    BY Zenon
  <1> USE DEF CS_Inv, CS_TypeOK, CS_Steps, OneCpuInside, Entered, CS_Sees, CS_Goes
  <1>1. ASSUME NEW c \in CS_Cpus, EnterTestLocked(c) PROVE CS_Inv'
    BY <1>1 DEF EnterTestLocked
  <1>2. ASSUME NEW c \in CS_Cpus, EnterTestApicid(c) PROVE CS_Inv'
    BY <1>2 DEF EnterTestApicid
  <1>3. ASSUME NEW c \in CS_Cpus, EnterAgain(c) PROVE CS_Inv'
    BY <1>3 DEF EnterAgain
  <1>4. ASSUME NEW c \in CS_Cpus, SpinTest(c) PROVE CS_Inv'
    BY <1>4 DEF SpinTest
  <1>5. ASSUME NEW c \in CS_Cpus, SpinExchange(c) PROVE CS_Inv'
    BY <1>5 DEF SpinExchange
  <1>6. ASSUME NEW c \in CS_Cpus, EnterSetCount(c) PROVE CS_Inv'
    BY <1>6, ZenonT(40) DEF EnterSetCount
  <1>7. ASSUME NEW c \in CS_Cpus, EnterSetApicid(c) PROVE CS_Inv'
    BY <1>7 DEF EnterSetApicid
  <1>8. ASSUME NEW c \in CS_Cpus, LeaveTestLocked(c) PROVE CS_Inv'
    BY <1>8 DEF LeaveTestLocked
  <1>9. ASSUME NEW c \in CS_Cpus, LeaveTestApicid(c) PROVE CS_Inv'
    BY <1>9 DEF LeaveTestApicid
  <1>10. ASSUME NEW c \in CS_Cpus, LeaveDecrement(c) PROVE CS_Inv'
    BY <1>10 DEF LeaveDecrement
  <1>11. ASSUME NEW c \in CS_Cpus, LeaveClearApicid(c) PROVE CS_Inv'
    BY <1>11, ZenonT(40) DEF LeaveClearApicid
  <1>12. ASSUME NEW c \in CS_Cpus, LeaveUnlock(c) PROVE CS_Inv'
    BY <1>12, ZenonT(40) DEF LeaveUnlock
  <1>13. CASE UNCHANGED csVars
    BY <1>13, Zenon DEF csVars
  <1> QED BY <1>1, <1>2, <1>3, <1>4, <1>5, <1>6, <1>7, <1>8, <1>9, <1>10, <1>11, <1>12, <1>13,
             Zenon DEF CS_Next, csEnter, csLeave

\* The inductive invariant of csEnter and csLeave
THEOREM CS_Invariant == CS_Spec => []CS_Inv
  BY CS_InitInv, CS_Step, PTL DEF CS_Spec

\* csEnter lets one cpu at a time in, whoever calls csLeave
THEOREM CS_OneCpuInside == CS_Spec => []OneCpuInside
  <1>1. CS_Inv => OneCpuInside
    BY Zenon DEF CS_Inv
  <1> QED BY <1>1, CS_Invariant, PTL

\* lockcount is the depth of the nesting of the cpu inside
THEOREM CS_CountsNesting == CS_Spec => []CountsNesting
  <1>1. CS_Inv => CountsNesting
    BY Zenon DEF CS_Inv, CS_Sees, CountsNesting, Entered
  <1> QED BY <1>1, CS_Invariant, PTL

\* Together: the critical section keeps its promises for any cpus and any nesting.
THEOREM CS_SectionIsSound == CS_Spec => []SectionIsSound
  BY CS_OneCpuInside, CS_CountsNesting, PTL DEF SectionIsSound

HIDE CSAssumption

(***************************************************************************)
(* Ultimap2 loses no chunk of the trace, for any number of processors and  *)
(* any size of the buffers, until a flush or a pause is asked for: what    *)
(* was handled, then buffer 2, then the buffer being filled are all the    *)
(* chunks of the processor, in order.                                      *)
(***************************************************************************)
UM_Infos ==
    [mem : [1 .. 2 -> [1 .. UM_Capacity -> 0 .. UM_MaxWork]], active : 1 .. 2,
     offset : 0 .. UM_Capacity, saveSize : 0 .. UM_Capacity,
     traceEn : BOOLEAN, full : BOOLEAN, interrupted : BOOLEAN, dpcQueued : BOOLEAN,
     readyForSwap : BOOLEAN, initiateSave : BOOLEAN, dataReady : BOOLEAN,
     dataProcessed : BOOLEAN, fileAccess : BOOLEAN, fileExists : BOOLEAN]
UM_Writers ==
    [at : {"waiting", "file", "data", "ended"}, size : 0 .. UM_Capacity,
     worker : {"idle", "busy", "told", "locked"}, mapped : 1 .. 2, freed : BOOLEAN]
UM_Joins == {"joinSuspender", "joinWriter", "joinCpu", "off"}
UM_Places ==
    {"swap", "waiting", "ended", "idle", "check", "resume", "flushAgain", "pauseAgain",
     "flushed", "paused"} \cup UM_Joins
UM_Loops == [at : UM_Places, cpu : 1 .. UM_NumCpus + 1, only : BOOLEAN, next : UM_Places]

\* The state of the threads that are there once
UM_Threads ==
    /\ saveToFile \in BOOLEAN /\ ultimapActive \in BOOLEAN
    /\ isSuspended \in BOOLEAN /\ flushAllBuffers \in BOOLEAN
    /\ flushData \in BOOLEAN /\ suspendEvent \in BOOLEAN
    /\ suspender \in {"waiting", "ended"}
    /\ swapper \in [Swappers -> UM_Loops]

\* The GUI thread is not on its way through DisableUltimap2
UM_Quiet(l) == l.at \notin UM_Joins /\ (l.at = "swap" => l.next \notin UM_Joins)

\* The threads are joined once recording is disabled
UM_Gui == ultimapActive => UM_Quiet(swapper["gui"])

\* The state of each processor
UM_Types ==
    /\ pInfo \in [UM_Cpus -> UM_Infos]
    /\ writer \in [UM_Cpus -> UM_Writers]
    /\ traced \in [UM_Cpus -> 0 .. UM_MaxWork]
    /\ traceOut \in [UM_Cpus -> Seq(Nat)]
    /\ umCalls \in Nat

\* Who has buffer 2: nobody, so that the DPC may swap, or the writer thread, on its own
\* or until the worker of Cheat Engine is through with it
UM_Stage(p, w) ==
    /\ p.dpcQueued => p.readyForSwap
    /\ p.readyForSwap <=> w.at = "waiting" /\ ~p.initiateSave
    /\ p.initiateSave => w.at = "waiting"
    /\ w.at # "ended"
    /\ w.at # "data" => ~p.dataReady /\ ~p.dataProcessed /\ w.worker # "busy"
    /\ p.dataReady => ~p.dataProcessed /\ w.worker # "busy"
    /\ w.worker = "busy" => ~p.dataProcessed /\ w.mapped = 3 - p.active
    /\ w.at \in {"file", "data"} => w.size = p.saveSize

\* The chunks of buffer 2 that nobody has handled yet
unsaved(p, w) ==
    IF p.initiateSave \/ w.at = "file" \/ (w.at = "data" /\ ~p.dataProcessed)
    THEN p.saveSize ELSE 0

\* Chunk k is the k-th of the output, of buffer 2 or of the buffer being filled
UM_Data(p, u, out, n) ==
    /\ \A i \in 1 .. Len(out) : out[i] = i
    /\ \A j \in 1 .. u : p.mem[3 - p.active][j] = Len(out) + j
    /\ \A j \in 1 .. p.offset : p.mem[p.active][j] = Len(out) + u + j
    /\ n = Len(out) + u + p.offset

UM_Cpu(p, w, out, n) == UM_Stage(p, w) /\ UM_Data(p, unsaved(p, w), out, n)

UM_Inv ==
    /\ UM_Threads /\ UM_Gui /\ UM_Types
    /\ ultimapActive /\ umCalls = 0 =>
          \A c \in UM_Cpus : UM_Cpu(pInfo[c], writer[c], traceOut[c], traced[c])

-----------------------------------------------------------------------------
\* The places of the two threads that swap
LEMMA UM_Loop ==
    ASSUME NEW place \in UM_Places, NEW o \in BOOLEAN
    PROVE  At(place) \in UM_Loops /\ Enter(place, o) \in UM_Loops
  <1>1. "swap" \in UM_Places /\ 1 \in 1 .. UM_NumCpus + 1
    BY UMAssumption DEF UM_Places
  <1> QED BY <1>1, Zenon DEF At, Enter, UM_Loops

\* The two buffers of a processor
LEMMA UM_Buffers ==
    ASSUME NEW q \in UM_Infos
    PROVE  /\ q.active \in 1 .. 2 /\ 3 - q.active \in 1 .. 2 /\ 3 - q.active # q.active
           /\ 3 - (3 - q.active) = q.active
           /\ q.mem \in [1 .. 2 -> [1 .. UM_Capacity -> 0 .. UM_MaxWork]]
           /\ q.mem[q.active] \in [1 .. UM_Capacity -> 0 .. UM_MaxWork]
           /\ q.mem[3 - q.active] \in [1 .. UM_Capacity -> 0 .. UM_MaxWork]
           /\ q.offset \in 0 .. UM_Capacity /\ q.saveSize \in 0 .. UM_Capacity
           /\ q.offset \in Nat /\ q.saveSize \in Nat
  <1>1. /\ q.active \in 1 .. 2 /\ q.mem \in [1 .. 2 -> [1 .. UM_Capacity -> 0 .. UM_MaxWork]]
        /\ q.offset \in 0 .. UM_Capacity /\ q.saveSize \in 0 .. UM_Capacity
    BY Zenon DEF UM_Infos
  <1>2. /\ 3 - q.active \in 1 .. 2 /\ 3 - q.active # q.active /\ 3 - (3 - q.active) = q.active
        /\ q.offset \in Nat /\ q.saveSize \in Nat
    BY <1>1, UMAssumption
  <1> QED BY <1>1, <1>2, Zenon

\* Sequences of chunks, one after the other
LEMMA UM_Concat ==
    ASSUME NEW s \in Seq(Nat), NEW t \in Seq(Nat)
    PROVE  /\ s \o t \in Seq(Nat) /\ Len(s \o t) = Len(s) + Len(t)
           /\ \A i \in 1 .. Len(s) : (s \o t)[i] = s[i]
           /\ \A j \in 1 .. Len(t) : (s \o t)[Len(s) + j] = t[j]
  OBVIOUS

\* Nothing is recorded yet
LEMMA UM_InitInv == UM_Init => UM_Inv
  <1> SUFFICES ASSUME UM_Init PROVE UM_Inv
    BY Zenon
  <1> USE UMAssumption
  <1>1. UM_Threads /\ UM_Gui
    <2>1. \A x \in Swappers : At(IF x = "writer" THEN "waiting" ELSE "idle") \in UM_Loops
      BY UM_Loop, Zenon DEF UM_Places
    <2>2. swapper \in [Swappers -> UM_Loops] /\ swapper["gui"] = At("idle")
      BY <2>1, Zenon DEF UM_Init, Swappers
    <2>3. UM_Quiet(At("idle"))
      BY Zenon DEF UM_Quiet, At, UM_Joins
    <2> QED BY <2>2, <2>3, Zenon DEF UM_Init, UM_Threads, UM_Gui
  <1>2. UM_Types
    BY DEF UM_Init, UM_Types, UM_Infos, UM_Writers
  <1>3. ASSUME NEW c \in UM_Cpus PROVE UM_Cpu(pInfo[c], writer[c], traceOut[c], traced[c])
    <2>1. /\ pInfo[c].offset = 0 /\ ~pInfo[c].initiateSave /\ ~pInfo[c].dpcQueued
          /\ pInfo[c].readyForSwap /\ ~pInfo[c].dataReady /\ ~pInfo[c].dataProcessed
          /\ writer[c].at = "waiting" /\ writer[c].worker = "idle"
          /\ traceOut[c] = <<>> /\ traced[c] = 0
      BY Zenon DEF UM_Init
    <2>2. UM_Stage(pInfo[c], writer[c])
      BY <2>1, Zenon DEF UM_Stage
    <2>3. unsaved(pInfo[c], writer[c]) = 0
      BY <2>1, Zenon DEF unsaved
    <2>4. UM_Data(pInfo[c], 0, traceOut[c], traced[c])
      <3>1. Len(traceOut[c]) = 0 /\ pInfo[c].offset = 0 /\ traced[c] = 0
        BY <2>1
      <3> QED BY <3>1 DEF UM_Data
    <2> QED BY <2>2, <2>3, <2>4, Zenon DEF UM_Cpu
  <1> QED BY <1>1, <1>2, <1>3, Zenon DEF UM_Inv

\* A step about one processor
LEMMA UM_One ==
    ASSUME UM_Inv, NEW c \in UM_Cpus,
           NEW p \in UM_Infos, NEW w \in UM_Writers, NEW out \in Seq(Nat), NEW n \in 0 .. UM_MaxWork,
           pInfo' = [pInfo EXCEPT ![c] = p], writer' = [writer EXCEPT ![c] = w],
           traceOut' = [traceOut EXCEPT ![c] = out], traced' = [traced EXCEPT ![c] = n],
           UNCHANGED <<ultimapActive, umCalls>>, UM_Threads', UM_Gui',
           ultimapActive /\ umCalls = 0 => UM_Cpu(p, w, out, n)
    PROVE  UM_Inv'
  <1>1. UM_Types'
    BY Zenon DEF UM_Inv, UM_Types
  <1>2. ASSUME ultimapActive, umCalls = 0, NEW d \in UM_Cpus
        PROVE  UM_Cpu(pInfo'[d], writer'[d], traceOut'[d], traced'[d])
    <2>1. CASE d = c
      <3>1. pInfo'[d] = p /\ writer'[d] = w /\ traceOut'[d] = out /\ traced'[d] = n
        BY <2>1, Zenon DEF UM_Inv, UM_Types
      <3> QED BY <1>2, <3>1, Zenon
    <2>2. CASE d # c
      <3>1. /\ pInfo'[d] = pInfo[d] /\ writer'[d] = writer[d]
            /\ traceOut'[d] = traceOut[d] /\ traced'[d] = traced[d]
        BY <2>2, Zenon DEF UM_Inv, UM_Types
      <3> QED BY <1>2, <3>1, Zenon DEF UM_Inv
    <2> QED BY <2>1, <2>2, Zenon
  <1> QED BY <1>1, <1>2, Zenon DEF UM_Inv

\* A step about the data of one processor
LEMMA UM_OneInfo ==
    ASSUME UM_Inv, NEW c \in UM_Cpus, NEW p \in UM_Infos, pInfo' = [pInfo EXCEPT ![c] = p],
           UNCHANGED <<writer, traceOut, traced, ultimapActive, umCalls>>, UM_Threads', UM_Gui',
           ultimapActive /\ umCalls = 0 => UM_Cpu(p, writer[c], traceOut[c], traced[c])
    PROVE  UM_Inv'
  <1>1. UM_Types'
    BY Zenon DEF UM_Inv, UM_Types
  <1>2. ASSUME ultimapActive, umCalls = 0, NEW d \in UM_Cpus
        PROVE  UM_Cpu(pInfo'[d], writer[d], traceOut[d], traced[d])
    <2>1. CASE d = c
      <3>1. pInfo'[d] = p
        BY <2>1, Zenon DEF UM_Inv, UM_Types
      <3> QED BY <1>2, <2>1, <3>1, Zenon
    <2>2. CASE d # c
      <3>1. pInfo'[d] = pInfo[d]
        BY <2>2, Zenon DEF UM_Inv, UM_Types
      <3> QED BY <1>2, <3>1, Zenon DEF UM_Inv
    <2> QED BY <2>1, <2>2, Zenon
  <1> QED BY <1>1, <1>2, Zenon DEF UM_Inv

\* A step about no processor
LEMMA UM_None ==
    ASSUME UM_Inv, UNCHANGED <<pInfo, writer, traceOut, traced, ultimapActive, umCalls>>,
           UM_Threads', UM_Gui'
    PROVE  UM_Inv'
  BY Zenon DEF UM_Inv, UM_Types

\* A thread that swaps goes to another place
LEMMA UM_Moved ==
    ASSUME UM_Inv, NEW x \in Swappers, NEW l \in UM_Loops, swapper' = [swapper EXCEPT ![x] = l],
           UNCHANGED <<saveToFile, ultimapActive>>,
           isSuspended' \in BOOLEAN, flushAllBuffers' \in BOOLEAN, flushData' \in BOOLEAN,
           suspendEvent' \in BOOLEAN, UNCHANGED suspender, x = "gui" /\ ultimapActive => UM_Quiet(l)
    PROVE  UM_Threads' /\ UM_Gui'
  <1>1. /\ swapper' \in [Swappers -> UM_Loops] /\ swapper'[x] = l
        /\ x # "gui" => swapper'["gui"] = swapper["gui"]
    BY Zenon DEF UM_Inv, UM_Threads, Swappers
  <1> QED BY <1>1, Zenon DEF UM_Inv, UM_Threads, UM_Gui

\* The single threads do not notice a step of a processor
LEMMA UM_Same ==
    ASSUME UM_Inv, UNCHANGED <<mode, isSuspended, flushAllBuffers, wakeups, suspender, swapper>>
    PROVE  UM_Threads' /\ UM_Gui' /\ UNCHANGED <<ultimapActive, saveToFile>>
  BY Zenon DEF UM_Inv, UM_Threads, UM_Gui, mode, wakeups

\* The fields of a processor and of its writer thread
LEMMA UM_Fields ==
    ASSUME UM_Inv, NEW c \in UM_Cpus
    PROVE  /\ pInfo[c] \in UM_Infos /\ writer[c] \in UM_Writers
           /\ traceOut[c] \in Seq(Nat) /\ traced[c] \in 0 .. UM_MaxWork
           /\ traceOut = [traceOut EXCEPT ![c] = traceOut[c]]
           /\ traced = [traced EXCEPT ![c] = traced[c]]
           /\ writer = [writer EXCEPT ![c] = writer[c]]
           /\ pInfo = [pInfo EXCEPT ![c] = pInfo[c]]
  BY Zenon DEF UM_Inv, UM_Types

\* A chunk is traced
LEMMA UM_TraceStep ==
    ASSUME UM_Inv, NEW c \in UM_Cpus, UM_Trace(c) PROVE UM_Inv'
  <1> DEFINE q == pInfo[c]
             m == [q.mem EXCEPT ![q.active] = [@ EXCEPT ![q.offset + 1] = traced[c] + 1]]
             p == [q EXCEPT !.mem = m, !.offset = @ + 1, !.full = @ \/ q.offset + 1 = UM_Capacity]
  <1>1. /\ q.offset < UM_Capacity /\ Work(c) < UM_MaxWork
        /\ traced' = [traced EXCEPT ![c] = traced[c] + 1]
        /\ pInfo' = [pInfo EXCEPT ![c] = p]
        /\ UNCHANGED <<mode, isSuspended, flushAllBuffers, wakeups, writer, suspender, swapper,
                       traceOut, umCalls>>
    BY UM_Fields, Zenon DEF UM_Trace
  <1>2. q \in UM_Infos /\ traced[c] \in 0 .. UM_MaxWork /\ umCalls \in Nat
    BY UM_Fields, Zenon DEF UM_Inv, UM_Types
  <1>3. traced[c] + 1 \in 0 .. UM_MaxWork
    BY <1>1, <1>2, UMAssumption DEF Work
  <1>4. /\ p \in UM_Infos /\ p.offset = q.offset + 1 /\ p.active = q.active
        /\ p.mem[3 - q.active] = q.mem[3 - q.active]
        /\ p.mem[q.active] = [q.mem[q.active] EXCEPT ![q.offset + 1] = traced[c] + 1]
    <2>1. q.offset + 1 \in 0 .. UM_Capacity
      BY SMTT(30), <1>1, <1>2, UM_Buffers, UMAssumption
    <2>2. [q.mem[q.active] EXCEPT ![q.offset + 1] = traced[c] + 1]
             \in [1 .. UM_Capacity -> 0 .. UM_MaxWork]
      BY <1>2, <1>3, UM_Buffers, Zenon
    <2>3. /\ m \in [1 .. 2 -> [1 .. UM_Capacity -> 0 .. UM_MaxWork]]
          /\ m[3 - q.active] = q.mem[3 - q.active]
          /\ m[q.active] = [q.mem[q.active] EXCEPT ![q.offset + 1] = traced[c] + 1]
      BY <1>2, <2>2, UM_Buffers, Zenon
    <2> HIDE DEF m
    <2>4. p \in UM_Infos /\ p.mem = m /\ p.offset = q.offset + 1 /\ p.active = q.active
      BY <1>2, <2>1, <2>3, Zenon DEF UM_Infos
    <2> QED BY <2>3, <2>4, Zenon
  <1>5. UM_Stage(q, writer[c]) => UM_Stage(p, writer[c]) /\ unsaved(p, writer[c]) = unsaved(q, writer[c])
    <2>1. /\ p.dpcQueued = q.dpcQueued /\ p.readyForSwap = q.readyForSwap
          /\ p.initiateSave = q.initiateSave /\ p.dataReady = q.dataReady
          /\ p.dataProcessed = q.dataProcessed /\ p.active = q.active /\ p.saveSize = q.saveSize
      BY <1>2, Zenon DEF UM_Infos
    <2> HIDE DEF p
    <2> QED BY <2>1, Zenon DEF UM_Stage, unsaved
  <1>6. unsaved(q, writer[c]) \in Nat
    BY <1>2 DEF unsaved, UM_Infos
  <1> HIDE DEF p
  <1>7. ASSUME UM_Data(q, unsaved(q, writer[c]), traceOut[c], traced[c])
        PROVE  UM_Data(p, unsaved(q, writer[c]), traceOut[c], traced[c] + 1)
    <2>1. q.offset \in Nat /\ q.active \in 1 .. 2 /\ q.offset + 1 \in 1 .. UM_Capacity
      BY <1>1, <1>2, UM_Buffers, UMAssumption
    <2>2. q.mem[q.active] \in [1 .. UM_Capacity -> 0 .. UM_MaxWork]
      BY <1>2, UM_Buffers, Zenon
    <2> DEFINE u == unsaved(q, writer[c])
               k == Len(traceOut[c])
    <2>3. k \in Nat /\ u \in Nat
      BY <1>6, UM_Fields
    <2>4. /\ \A i \in 1 .. k : traceOut[c][i] = i
          /\ \A j \in 1 .. u : q.mem[3 - q.active][j] = k + j
          /\ \A j \in 1 .. q.offset : q.mem[q.active][j] = k + u + j
          /\ traced[c] = k + u + q.offset
      BY <1>7, Zenon DEF UM_Data
    <2> HIDE DEF u, k
    <2>5. ASSUME NEW j \in 1 .. p.offset PROVE p.mem[p.active][j] = k + u + j
      <3>1. CASE j = q.offset + 1
        <4>1. p.mem[p.active][j] = traced[c] + 1
          BY <1>4, <2>1, <2>2, <3>1, Zenon
        <4> QED BY <2>1, <2>3, <2>4, <3>1, <4>1
      <3>2. CASE j # q.offset + 1
        <4>1. j \in 1 .. q.offset
          BY <1>4, <2>1, <3>2
        <4>2. j \in 1 .. UM_Capacity
          BY <2>1, <4>1, UMAssumption
        <4>3. p.mem[p.active][j] = q.mem[q.active][j]
          BY <1>4, <2>2, <3>2, <4>2, Zenon
        <4> QED BY <2>4, <4>1, <4>3, Zenon
      <3> QED BY <3>1, <3>2, Zenon
    <2>6. \A j \in 1 .. u : p.mem[3 - p.active][j] = k + j
      BY SMTT(30), <1>4, <2>4
    <2>7. traced[c] + 1 = k + u + p.offset
      BY <1>4, <2>1, <2>3, <2>4
    <2> QED BY <2>4, <2>5, <2>6, <2>7, Zenon DEF UM_Data, u, k
  <1>8. ultimapActive /\ umCalls = 0 => UM_Cpu(p, writer[c], traceOut[c], traced[c] + 1)
    BY <1>5, <1>7, Zenon DEF UM_Inv, UM_Cpu
  <1>9. UM_Threads' /\ UM_Gui' /\ UNCHANGED ultimapActive
    BY <1>1, UM_Same, Zenon
  <1>10. writer[c] \in UM_Writers /\ traceOut[c] \in Seq(Nat)
         /\ writer' = [writer EXCEPT ![c] = writer[c]]
         /\ traceOut' = [traceOut EXCEPT ![c] = traceOut[c]]
    BY <1>1, UM_Fields, Zenon
  <1>11. PICK w \in UM_Writers, out \in Seq(Nat), n \in 0 .. UM_MaxWork :
            w = writer[c] /\ out = traceOut[c] /\ n = traced[c] + 1
    BY <1>3, <1>10, Zenon
  <1>12. ultimapActive /\ umCalls = 0 => UM_Cpu(p, w, out, n)
    BY <1>8, <1>11, Zenon
  <1>13. /\ writer' = [writer EXCEPT ![c] = w] /\ traceOut' = [traceOut EXCEPT ![c] = out]
         /\ traced' = [traced EXCEPT ![c] = n]
    BY <1>1, <1>10, <1>11, Zenon
  <1>14. p \in UM_Infos /\ pInfo' = [pInfo EXCEPT ![c] = p] /\ UNCHANGED <<ultimapActive, umCalls>>
    BY <1>1, <1>4, <1>9, Zenon
  <1> HIDE DEF q, m
  <1> QED BY <1>9, <1>12, <1>13, <1>14, UM_One, Zenon

\* The interrupt of a full buffer, and the DPC that swaps the buffers
LEMMA UM_Interrupts ==
    ASSUME UM_Inv, NEW c \in UM_Cpus, PMI(c) \/ SwitchToPABuffer(c) PROVE UM_Inv'
  <1> DEFINE q == pInfo[c]
             w == writer[c]
             out == traceOut[c]
             n == traced[c]
  <1>1. q \in UM_Infos /\ w \in UM_Writers /\ out \in Seq(Nat) /\ n \in 0 .. UM_MaxWork
    BY UM_Fields, Zenon
  <1>2. ASSUME PMI(c) PROVE UM_Inv'
    <2> DEFINE p == [q EXCEPT !.full = FALSE, !.interrupted = TRUE]
    <2>1. /\ pInfo' = [pInfo EXCEPT ![c] = p] /\ suspendEvent' = TRUE /\ flushData' = TRUE
          /\ UNCHANGED <<saveToFile, ultimapActive, isSuspended, flushAllBuffers, writer, suspender,
                         swapper, traced, traceOut, umCalls>>
      BY <1>2, UM_Fields, Zenon DEF PMI, mode, trail
    <2>2. /\ p \in UM_Infos
          /\ UM_Cpu(q, writer[c], traceOut[c], traced[c]) => UM_Cpu(p, writer[c], traceOut[c], traced[c])
      BY <1>1, Zenon DEF UM_Infos, UM_Cpu, UM_Stage, UM_Data, unsaved
    <2> HIDE DEF p
    <2>3. UM_Threads' /\ UM_Gui'
      BY <2>1, Zenon DEF UM_Inv, UM_Threads, UM_Gui
    <2>4. ultimapActive /\ umCalls = 0 => UM_Cpu(p, writer[c], traceOut[c], traced[c])
      BY <2>2, Zenon DEF UM_Inv
    <2> QED BY <2>1, <2>2, <2>3, <2>4, UM_OneInfo, Zenon
  <1>3. ASSUME SwitchToPABuffer(c), LeftAlone(c) PROVE UM_Inv'
    <2> DEFINE p == [q EXCEPT !.dpcQueued = FALSE]
    <2>1. /\ pInfo' = [pInfo EXCEPT ![c] = p]
          /\ UNCHANGED <<mode, isSuspended, flushAllBuffers, wakeups, writer, suspender, swapper,
                         traced, traceOut, umCalls>>
      BY <1>3, UM_Fields, Zenon DEF SwitchToPABuffer, trail
    <2>2. /\ p \in UM_Infos
          /\ UM_Cpu(q, writer[c], traceOut[c], traced[c]) => UM_Cpu(p, writer[c], traceOut[c], traced[c])
      BY <1>1, Zenon DEF UM_Infos, UM_Cpu, UM_Stage, UM_Data, unsaved
    <2> HIDE DEF p
    <2>3. ultimapActive /\ umCalls = 0 => UM_Cpu(p, writer[c], traceOut[c], traced[c])
      BY <2>2, Zenon DEF UM_Inv
    <2>4. UM_Threads' /\ UM_Gui' /\ UNCHANGED ultimapActive
      BY <2>1, UM_Same, Zenon
    <2> QED BY <2>1, <2>2, <2>3, <2>4, UM_OneInfo, Zenon
  <1>4. ASSUME SwitchToPABuffer(c), ~LeftAlone(c) PROVE UM_Inv'
    <2> DEFINE p == [q EXCEPT !.dpcQueued = FALSE, !.readyForSwap = FALSE, !.active = 3 - pInfo[c].active,
                              !.saveSize = pInfo[c].offset, !.initiateSave = TRUE,
                              !.interrupted = FALSE, !.offset = 0]
    <2>1. /\ pInfo' = [pInfo EXCEPT ![c] = p] /\ q.dpcQueued
          /\ UNCHANGED <<mode, isSuspended, flushAllBuffers, wakeups, writer, suspender, swapper,
                         traced, traceOut, umCalls>>
      <3>1. pInfo' = [pInfo EXCEPT ![c] = IF LeftAlone(c) THEN [q EXCEPT !.dpcQueued = FALSE] ELSE p]
        BY <1>4, Zenon DEF SwitchToPABuffer, Buffer2
      <3> HIDE DEF p
      <3> QED BY <1>4, <3>1, Zenon DEF SwitchToPABuffer, trail
    <2>2. /\ p \in UM_Infos /\ p.mem = q.mem /\ p.active = 3 - q.active /\ 3 - p.active = q.active
          /\ p.saveSize = q.offset /\ p.offset = 0 /\ p.initiateSave /\ ~p.dpcQueued /\ ~p.readyForSwap
          /\ p.dataReady = q.dataReady /\ p.dataProcessed = q.dataProcessed
      <3>1. 3 - q.active \in 1 .. 2 /\ 0 \in 0 .. UM_Capacity /\ 3 - (3 - q.active) = q.active
        BY <1>1, UM_Buffers, UMAssumption
      <3>2. /\ p.mem = q.mem /\ p.active = 3 - q.active
            /\ p.saveSize = q.offset /\ p.offset = 0 /\ p.initiateSave = TRUE
            /\ p.dpcQueued = FALSE /\ p.readyForSwap = FALSE
            /\ p.dataReady = q.dataReady /\ p.dataProcessed = q.dataProcessed
        BY <1>1, Zenon DEF UM_Infos
      <3>3. p \in UM_Infos
        BY <1>1, <3>1, Zenon DEF UM_Infos
      <3> QED BY <3>1, <3>2, <3>3, Zenon
    <2> HIDE DEF p
    <2>3. ASSUME UM_Cpu(q, writer[c], traceOut[c], traced[c])
          PROVE  UM_Cpu(p, writer[c], traceOut[c], traced[c])
      <3>1. UM_Stage(q, writer[c]) /\ UM_Data(q, unsaved(q, writer[c]), traceOut[c], traced[c])
        BY <2>3, Zenon DEF UM_Cpu
      <3>2. UM_Stage(p, writer[c]) /\ unsaved(q, writer[c]) = 0 /\ unsaved(p, writer[c]) = q.offset
        BY <2>1, <2>2, <3>1, Zenon DEF UM_Stage, unsaved
      <3>3. q.offset \in Nat /\ Len(traceOut[c]) \in Nat
        BY <1>1, UM_Fields DEF UM_Infos
      <3>4. UM_Data(q, 0, traceOut[c], traced[c])
        BY <3>1, <3>2, Zenon
      <3>5. UM_Data(p, q.offset, traceOut[c], traced[c])
        BY <2>2, <3>3, <3>4 DEF UM_Data
      <3> QED BY <3>2, <3>5, Zenon DEF UM_Cpu
    <2>4. ultimapActive /\ umCalls = 0 => UM_Cpu(p, writer[c], traceOut[c], traced[c])
      BY <2>3, Zenon DEF UM_Inv
    <2>5. UM_Threads' /\ UM_Gui' /\ UNCHANGED ultimapActive
      BY <2>1, UM_Same, Zenon
    <2> QED BY <2>1, <2>2, <2>4, <2>5, UM_OneInfo, Zenon
  <1> QED BY <1>2, <1>3, <1>4, Zenon

\* The first chunks of a buffer
LEMMA UM_Prefix ==
    ASSUME NEW m \in [1 .. UM_Capacity -> 0 .. UM_MaxWork], NEW k \in 0 .. UM_Capacity
    PROVE  /\ SubSeq(m, 1, k) \in Seq(Nat) /\ Len(SubSeq(m, 1, k)) = k
           /\ \A j \in 1 .. k : SubSeq(m, 1, k)[j] = m[j]
  <1>1. m \in Seq(Nat) /\ Len(m) = UM_Capacity
    BY UMAssumption
  <1> QED BY <1>1, UMAssumption

\* What was handled grows by the chunks of buffer 2
LEMMA UM_Append ==
    ASSUME NEW q \in UM_Infos, NEW out \in Seq(Nat), NEW n, UM_Data(q, q.saveSize, out, n),
           NEW more, more = out \o SubSeq(q.mem[3 - q.active], 1, q.saveSize)
    PROVE  more \in Seq(Nat) /\ UM_Data(q, 0, more, n)
  <1> DEFINE m == q.mem[3 - q.active]
             s == SubSeq(m, 1, q.saveSize)
  <1>1. m \in [1 .. UM_Capacity -> 0 .. UM_MaxWork] /\ q.saveSize \in 0 .. UM_Capacity /\ q.offset \in Nat
    BY SMTT(30) DEF UM_Infos
  <1>2. s \in Seq(Nat) /\ Len(s) = q.saveSize /\ \A j \in 1 .. q.saveSize : s[j] = m[j]
    BY <1>1, UM_Prefix, Zenon
  <1>3. /\ more \in Seq(Nat) /\ Len(more) = Len(out) + q.saveSize
        /\ \A i \in 1 .. Len(out) : more[i] = out[i]
        /\ \A j \in 1 .. q.saveSize : more[Len(out) + j] = m[j]
    <2>1. more = out \o s
      BY Zenon
    <2>2. s \in Seq(Nat) /\ Len(s) = q.saveSize
      BY <1>2, Zenon
    <2> HIDE DEF m, s
    <2>3. /\ more \in Seq(Nat) /\ Len(more) = Len(out) + Len(s)
          /\ \A i \in 1 .. Len(out) : more[i] = out[i]
          /\ \A j \in 1 .. Len(s) : more[Len(out) + j] = s[j]
      <3>1. /\ out \o s \in Seq(Nat) /\ Len(out \o s) = Len(out) + Len(s)
            /\ \A i \in 1 .. Len(out) : (out \o s)[i] = out[i]
            /\ \A j \in 1 .. Len(s) : (out \o s)[Len(out) + j] = s[j]
        BY ONLY out \in Seq(Nat), <2>2, UM_Concat, Zenon
      <3> QED BY <2>1, <3>1, Zenon
    <2> QED BY <1>2, <2>2, <2>3, Zenon
  <1> HIDE DEF m, s
  <1>4. \A i \in 1 .. Len(more) : more[i] = i
    <2> SUFFICES ASSUME NEW i \in 1 .. Len(more) PROVE more[i] = i
      BY Zenon
    <2>1. i \in 1 .. Len(out) \/ \E j \in 1 .. q.saveSize : i = Len(out) + j
      <3>1. i <= Len(out) => i \in 1 .. Len(out)
        OBVIOUS
      <3>2. i > Len(out) => i - Len(out) \in 1 .. q.saveSize /\ i = Len(out) + (i - Len(out))
        BY <1>1, <1>3
      <3>3. i <= Len(out) \/ i > Len(out)
        OBVIOUS
      <3> QED BY <3>1, <3>2, <3>3, Zenon
    <2>2. CASE i \in 1 .. Len(out)
      BY <1>3, <2>2, Zenon DEF UM_Data
    <2>3. ASSUME NEW j \in 1 .. q.saveSize, i = Len(out) + j PROVE more[i] = i
      BY <1>3, <2>3, Zenon DEF UM_Data, m
    <2> QED BY <2>1, <2>2, <2>3, Zenon
  <1>5. /\ Len(out) \in Nat /\ q.saveSize \in Nat
        /\ Len(more) + 0 = Len(out) + q.saveSize
    BY <1>1, <1>3, UMAssumption
  <1>6. \A j \in 1 .. q.offset : q.mem[q.active][j] = Len(more) + 0 + j
    BY <1>5, Zenon DEF UM_Data
  <1>7. n = Len(more) + 0 + q.offset
    BY <1>5, Zenon DEF UM_Data
  <1>8. \A j \in 1 .. 0 : m[j] = Len(more) + j
    OBVIOUS
  <1> QED BY <1>3, <1>4, <1>6, <1>7, <1>8, Zenon DEF UM_Data, m

\* The writer thread takes buffer 2, writes it, or is told that it was processed
LEMMA UM_WriterSteps ==
    ASSUME UM_Inv, NEW c \in UM_Cpus, WriterStep(c) PROVE UM_Inv'
  <1> DEFINE q == pInfo[c]
             w == writer[c]
             out == traceOut[c]
             n == traced[c]
  <1>1. q \in UM_Infos /\ w \in UM_Writers /\ out \in Seq(Nat) /\ n \in 0 .. UM_MaxWork
    BY UM_Fields, Zenon
  <1>2. ultimapActive /\ umCalls = 0 => UM_Cpu(q, w, out, n)
    BY Zenon DEF UM_Inv
  <1>3. ASSUME InitiateSave(c) PROVE UM_Inv'
    <2> DEFINE empty == q.saveSize = 0 \/ ~ultimapActive
               p == [q EXCEPT !.initiateSave = FALSE, !.readyForSwap = @ \/ empty,
                              !.dataReady = @ \/ (~empty /\ ~saveToFile)]
               v == IF empty
                    THEN [w EXCEPT !.at = IF ultimapActive THEN "waiting" ELSE "ended"]
                    ELSE [w EXCEPT !.at = IF saveToFile THEN "file" ELSE "data",
                                   !.size = q.saveSize]
    <2>1. /\ pInfo' = [pInfo EXCEPT ![c] = p] /\ writer' = [writer EXCEPT ![c] = v]
          /\ w.at = "waiting" /\ q.initiateSave
          /\ UNCHANGED <<mode, isSuspended, flushAllBuffers, wakeups, suspender, swapper,
                         traced, traceOut, umCalls>>
      BY <1>3, UM_Fields, ZenonT(40) DEF InitiateSave, DoneWith, trail
    <2>2. /\ p \in UM_Infos /\ p.mem = q.mem /\ p.active = q.active /\ p.offset = q.offset
          /\ p.saveSize = q.saveSize /\ p.initiateSave = FALSE /\ p.dpcQueued = q.dpcQueued
          /\ p.dataProcessed = q.dataProcessed
          /\ p.readyForSwap = (q.readyForSwap \/ empty)
          /\ p.dataReady = (q.dataReady \/ (~empty /\ ~saveToFile))
      BY <1>1, Zenon DEF UM_Infos
    <2>3. /\ v \in UM_Writers /\ v.worker = w.worker /\ v.mapped = w.mapped
          /\ empty => v.at = IF ultimapActive THEN "waiting" ELSE "ended"
          /\ ~empty => v.at = (IF saveToFile THEN "file" ELSE "data") /\ v.size = q.saveSize
      BY <1>1, Zenon DEF UM_Writers, UM_Infos
    <2> HIDE DEF p, v
    <2>4. ASSUME ultimapActive, UM_Cpu(q, w, out, n) PROVE UM_Cpu(p, v, out, n)
      <3>1. UM_Stage(q, w) /\ UM_Data(q, unsaved(q, w), out, n)
        BY <2>4, Zenon DEF UM_Cpu
      <3>2. UM_Stage(p, v)
        <4>1. CASE empty
          BY <2>1, <2>2, <2>3, <2>4, <3>1, <4>1, Zenon DEF UM_Stage
        <4>2. CASE ~empty
          BY <2>1, <2>2, <2>3, <2>4, <3>1, <4>2, Zenon DEF UM_Stage
        <4> QED BY <4>1, <4>2, Zenon
      <3>3. unsaved(p, v) = unsaved(q, w)
        <4>1. ~q.dataProcessed
          BY <2>1, <3>1, Zenon DEF UM_Stage
        <4> QED BY <2>1, <2>2, <2>3, <2>4, <4>1, Zenon DEF unsaved
      <3>4. UM_Data(p, unsaved(q, w), out, n)
        BY <2>2, <3>1, Zenon DEF UM_Data
      <3> QED BY <3>2, <3>3, <3>4, Zenon DEF UM_Cpu
    <2>5. UM_Threads' /\ UM_Gui' /\ UNCHANGED ultimapActive
      BY <2>1, UM_Same, Zenon
    <2> QED BY <1>1, <1>2, <2>1, <2>2, <2>3, <2>4, <2>5, UM_One, UM_Fields, Zenon
  <1>4. ASSUME WriteFile(c) PROVE UM_Inv'
    <2> DEFINE p == [q EXCEPT !.fileExists = TRUE, !.readyForSwap = TRUE]
               v == [w EXCEPT !.at = IF ultimapActive THEN "waiting" ELSE "ended"]
               more == out \o SubSeq(q.mem[3 - q.active], 1, w.size)
    <2>1. /\ pInfo' = [pInfo EXCEPT ![c] = p] /\ writer' = [writer EXCEPT ![c] = v]
          /\ traceOut' = [traceOut EXCEPT ![c] = more] /\ w.at = "file"
          /\ UNCHANGED <<mode, isSuspended, flushAllBuffers, wakeups, suspender, swapper,
                         traced, umCalls>>
      BY <1>4, UM_Fields, Zenon DEF WriteFile, DoneWith, Chunks, Buffer2
    <2>2. /\ p \in UM_Infos /\ p.mem = q.mem /\ p.active = q.active /\ p.offset = q.offset
          /\ p.initiateSave = q.initiateSave /\ p.dpcQueued = q.dpcQueued
          /\ p.dataProcessed = q.dataProcessed /\ p.readyForSwap = TRUE /\ p.dataReady = q.dataReady
          /\ p.saveSize = q.saveSize
      BY <1>1, Zenon DEF UM_Infos
    <2>3. /\ v \in UM_Writers /\ v.worker = w.worker /\ v.mapped = w.mapped
          /\ v.at = IF ultimapActive THEN "waiting" ELSE "ended"
      BY <1>1, Zenon DEF UM_Writers
    <2>4. more \in Seq(Nat)
      <3>1. q.mem[3 - q.active] \in [1 .. UM_Capacity -> 0 .. UM_MaxWork] /\ w.size \in 0 .. UM_Capacity
        BY <1>1, UM_Buffers, Zenon DEF UM_Writers
      <3>2. SubSeq(q.mem[3 - q.active], 1, w.size) \in Seq(Nat)
        BY <3>1, UM_Prefix, Zenon
      <3> QED BY <1>1, <3>2
    <2> HIDE DEF p, v
    <2>5. ASSUME ultimapActive, UM_Cpu(q, w, out, n) PROVE UM_Cpu(p, v, more, n)
      <3>1. UM_Stage(q, w) /\ UM_Data(q, unsaved(q, w), out, n)
        BY <2>5, Zenon DEF UM_Cpu
      <3>2. UM_Stage(p, v) /\ w.size = q.saveSize
        BY <2>1, <2>2, <2>3, <2>5, <3>1, Zenon DEF UM_Stage
      <3>3. unsaved(q, w) = q.saveSize /\ unsaved(p, v) = 0
        <4>1. ~q.initiateSave
          BY <2>1, <3>1, Zenon DEF UM_Stage
        <4> QED BY <2>1, <2>2, <2>3, <2>5, <4>1, Zenon DEF unsaved
      <3>4. UM_Data(q, 0, more, n)
        BY <1>1, <3>1, <3>2, <3>3, UM_Append, Zenon
      <3>5. UM_Data(p, 0, more, n)
        BY <2>2, <3>4, ZenonT(40) DEF UM_Data
      <3> QED BY <3>2, <3>3, <3>5, Zenon DEF UM_Cpu
    <2> HIDE DEF more
    <2>6. UM_Threads' /\ UM_Gui' /\ UNCHANGED ultimapActive
      BY <2>1, UM_Same, Zenon
    <2> QED BY <1>1, <1>2, <2>1, <2>2, <2>3, <2>4, <2>5, <2>6, UM_One, UM_Fields, Zenon
  <1>5. ASSUME DataProcessed(c) PROVE UM_Inv'
    <2> DEFINE p == [q EXCEPT !.dataProcessed = FALSE, !.readyForSwap = TRUE]
               v == [w EXCEPT !.at = IF ultimapActive THEN "waiting" ELSE "ended"]
    <2>1. /\ pInfo' = [pInfo EXCEPT ![c] = p] /\ writer' = [writer EXCEPT ![c] = v]
          /\ w.at = "data" /\ q.dataProcessed
          /\ UNCHANGED <<mode, isSuspended, flushAllBuffers, wakeups, suspender, swapper,
                         traced, traceOut, umCalls>>
      BY <1>5, UM_Fields, Zenon DEF DataProcessed, DoneWith, trail
    <2>2. /\ p \in UM_Infos /\ p.mem = q.mem /\ p.active = q.active /\ p.offset = q.offset
          /\ p.initiateSave = q.initiateSave /\ p.dpcQueued = q.dpcQueued
          /\ p.dataProcessed = FALSE /\ p.readyForSwap = TRUE /\ p.dataReady = q.dataReady
      BY <1>1, Zenon DEF UM_Infos
    <2>3. /\ v \in UM_Writers /\ v.worker = w.worker
          /\ v.at = IF ultimapActive THEN "waiting" ELSE "ended"
      BY <1>1, Zenon DEF UM_Writers
    <2> HIDE DEF p, v
    <2>4. ASSUME ultimapActive, UM_Cpu(q, w, out, n) PROVE UM_Cpu(p, v, out, n)
      <3>1. UM_Stage(q, w) /\ UM_Data(q, unsaved(q, w), out, n)
        BY <2>4, Zenon DEF UM_Cpu
      <3>2. UM_Stage(p, v)
        BY <2>1, <2>2, <2>3, <2>4, <3>1, Zenon DEF UM_Stage
      <3>3. unsaved(p, v) = 0 /\ unsaved(q, w) = 0
        <4>1. ~q.initiateSave
          BY <2>1, <3>1, Zenon DEF UM_Stage
        <4> QED BY <2>1, <2>2, <2>3, <2>4, <4>1, Zenon DEF unsaved
      <3>4. UM_Data(p, 0, out, n)
        BY <2>2, <3>1, <3>3, Zenon DEF UM_Data
      <3> QED BY <3>2, <3>3, <3>4, Zenon DEF UM_Cpu
    <2>5. UM_Threads' /\ UM_Gui' /\ UNCHANGED ultimapActive
      BY <2>1, UM_Same, Zenon
    <2> QED BY <1>1, <1>2, <2>1, <2>2, <2>3, <2>4, <2>5, UM_One, UM_Fields, Zenon
  <1> QED BY <1>3, <1>4, <1>5, Zenon DEF WriterStep

\* The worker of Cheat Engine maps buffer 2, is through with it, or takes the file
LEMMA UM_WorkerSteps ==
    ASSUME UM_Inv, NEW c \in UM_Cpus, WorkerStep(c) PROVE UM_Inv'
  <1> DEFINE q == pInfo[c]
             w == writer[c]
             out == traceOut[c]
             n == traced[c]
  <1>1. q \in UM_Infos /\ w \in UM_Writers /\ out \in Seq(Nat) /\ n \in 0 .. UM_MaxWork
    BY UM_Fields, Zenon
  <1>2. ultimapActive /\ umCalls = 0 => UM_Cpu(q, w, out, n)
    BY Zenon DEF UM_Inv
  <1>3. ASSUME WaitForData(c) PROVE UM_Inv'
    <2> DEFINE p == [q EXCEPT !.dataReady = FALSE]
               busy == [w EXCEPT !.worker = "busy", !.mapped = 3 - q.active]
    <2>1. /\ pInfo' = [pInfo EXCEPT ![c] = p] /\ q.dataReady
          /\ UNCHANGED <<mode, isSuspended, flushAllBuffers, wakeups, suspender, swapper,
                         traced, traceOut, umCalls>>
      BY <1>3, UM_Fields, Zenon DEF WaitForData, trail
    <2>2. \/ writer' = [writer EXCEPT ![c] = busy]
          \/ writer' = [writer EXCEPT ![c] = w]
      BY <1>3, UM_Fields, Zenon DEF WaitForData, Buffer2
    <2>3. PICK v : v \in {busy, w} /\ writer' = [writer EXCEPT ![c] = v]
      BY <2>2, Zenon
    <2>4. /\ p \in UM_Infos /\ p.mem = q.mem /\ p.active = q.active /\ p.offset = q.offset
          /\ p.initiateSave = q.initiateSave /\ p.dpcQueued = q.dpcQueued
          /\ p.dataProcessed = q.dataProcessed /\ p.readyForSwap = q.readyForSwap
          /\ p.dataReady = FALSE /\ p.saveSize = q.saveSize
      BY <1>1, Zenon DEF UM_Infos
    <2>5. /\ v \in UM_Writers /\ v.at = w.at /\ v.size = w.size
          /\ v.worker # w.worker => v.worker = "busy" /\ v.mapped = 3 - q.active
          /\ v.worker = w.worker => v.mapped = w.mapped \/ v.mapped = 3 - q.active
      <3>1. busy \in UM_Writers /\ busy.at = w.at /\ busy.size = w.size
            /\ busy.worker = "busy" /\ busy.mapped = 3 - q.active
        <4>1. 3 - q.active \in 1 .. 2
          BY <1>1, UM_Buffers, Zenon
        <4> QED BY <1>1, <4>1, Zenon DEF UM_Writers
      <3> QED BY <1>1, <2>3, <3>1, Zenon
    <2> HIDE DEF p
    <2>6. ASSUME ultimapActive, UM_Cpu(q, w, out, n) PROVE UM_Cpu(p, v, out, n)
      <3>1. UM_Stage(q, w) /\ UM_Data(q, unsaved(q, w), out, n)
        BY <2>6, Zenon DEF UM_Cpu
      <3>2. UM_Stage(p, v)
        BY <2>1, <2>4, <2>5, <3>1, Zenon DEF UM_Stage
      <3>3. unsaved(p, v) = unsaved(q, w)
        BY <2>4, <2>5, Zenon DEF unsaved
      <3>4. UM_Data(p, unsaved(q, w), out, n)
        BY <2>4, <3>1, Zenon DEF UM_Data
      <3> QED BY <3>2, <3>3, <3>4, Zenon DEF UM_Cpu
    <2>7. UM_Threads' /\ UM_Gui' /\ UNCHANGED ultimapActive
      BY <2>1, UM_Same, Zenon
    <2> QED BY <1>1, <1>2, <2>1, <2>3, <2>4, <2>5, <2>6, <2>7, UM_One, UM_Fields, Zenon
  <1>4. ASSUME Ultimap2Continue(c) PROVE UM_Inv'
    <2> DEFINE p == [q EXCEPT !.dataProcessed = TRUE]
               v == [w EXCEPT !.worker = "idle"]
               more == out \o SubSeq(q.mem[w.mapped], 1, w.size)
    <2>1. /\ pInfo' = [pInfo EXCEPT ![c] = p] /\ writer' = [writer EXCEPT ![c] = v]
          /\ traceOut' = [traceOut EXCEPT ![c] = more] /\ w.worker = "busy"
          /\ UNCHANGED <<mode, isSuspended, flushAllBuffers, wakeups, suspender, swapper,
                         traced, umCalls>>
      BY <1>4, UM_Fields, Zenon DEF Ultimap2Continue, Chunks
    <2>2. /\ p \in UM_Infos /\ p.mem = q.mem /\ p.active = q.active /\ p.offset = q.offset
          /\ p.initiateSave = q.initiateSave /\ p.dpcQueued = q.dpcQueued
          /\ p.dataProcessed = TRUE /\ p.readyForSwap = q.readyForSwap
          /\ p.dataReady = q.dataReady /\ p.saveSize = q.saveSize
      BY <1>1, Zenon DEF UM_Infos
    <2>3. v \in UM_Writers /\ v.worker = "idle" /\ v.at = w.at /\ v.size = w.size
      BY <1>1, Zenon DEF UM_Writers
    <2>4. more \in Seq(Nat)
      <3>1. q.mem[w.mapped] \in [1 .. UM_Capacity -> 0 .. UM_MaxWork] /\ w.size \in 0 .. UM_Capacity
        BY <1>1, Zenon DEF UM_Infos, UM_Writers
      <3>2. SubSeq(q.mem[w.mapped], 1, w.size) \in Seq(Nat)
        BY <3>1, UM_Prefix, Zenon
      <3> QED BY <1>1, <3>2
    <2> HIDE DEF p, v
    <2>5. ASSUME ultimapActive, UM_Cpu(q, w, out, n) PROVE UM_Cpu(p, v, more, n)
      <3>1. UM_Stage(q, w) /\ UM_Data(q, unsaved(q, w), out, n)
        BY <2>5, Zenon DEF UM_Cpu
      <3>2. /\ w.at = "data" /\ w.size = q.saveSize /\ w.mapped = 3 - q.active
            /\ ~q.dataProcessed /\ ~q.initiateSave /\ ~q.dataReady
        BY <2>1, <3>1, Zenon DEF UM_Stage
      <3>3. UM_Stage(p, v)
        BY <2>2, <2>3, <3>1, <3>2, Zenon DEF UM_Stage
      <3>4. unsaved(q, w) = q.saveSize /\ unsaved(p, v) = 0
        BY <2>2, <2>3, <3>2, Zenon DEF unsaved
      <3>5. UM_Data(q, 0, more, n)
        BY <1>1, <3>1, <3>2, <3>4, UM_Append, Zenon
      <3>6. UM_Data(p, 0, more, n)
        BY <2>2, <3>5, ZenonT(40) DEF UM_Data
      <3> QED BY <3>3, <3>4, <3>6, Zenon DEF UM_Cpu
    <2> HIDE DEF more
    <2>6. UM_Threads' /\ UM_Gui' /\ UNCHANGED ultimapActive
      BY <2>1, UM_Same, Zenon
    <2> QED BY <1>1, <1>2, <2>1, <2>2, <2>3, <2>4, <2>5, <2>6, UM_One, UM_Fields, Zenon
  <1>5. ASSUME LockFile(c) \/ ReleaseFile(c) PROVE UM_Inv'
    <2>1. PICK a \in BOOLEAN, e \in BOOLEAN, k \in {"locked", "idle"} :
             /\ pInfo' = [pInfo EXCEPT ![c] = [q EXCEPT !.fileAccess = a, !.fileExists = e]]
             /\ writer' = [writer EXCEPT ![c] = [w EXCEPT !.worker = k]]
      <3>1. q.fileExists \in BOOLEAN /\ q = [q EXCEPT !.fileExists = q.fileExists]
        BY <1>1, Zenon DEF UM_Infos
      <3>2. CASE LockFile(c)
        <4>1. /\ pInfo' = [pInfo EXCEPT ![c] = [q EXCEPT !.fileAccess = FALSE,
                                                          !.fileExists = q.fileExists]]
              /\ writer' = [writer EXCEPT ![c] = [w EXCEPT !.worker = "locked"]]
          BY <1>1, <3>2, UM_Fields, Zenon DEF LockFile, UM_Infos
        <4> QED BY <3>1, <4>1, Zenon
      <3>3. CASE ReleaseFile(c)
        <4>1. /\ pInfo' = [pInfo EXCEPT ![c] = [q EXCEPT !.fileAccess = q.fileExists,
                                                          !.fileExists = FALSE]]
              /\ writer' = [writer EXCEPT ![c] = [w EXCEPT !.worker = "idle"]]
          BY <1>1, <3>3, UM_Fields, ZenonT(40) DEF ReleaseFile, UM_Infos
        <4> QED BY <3>1, <4>1, Zenon
      <3> QED BY <1>5, <3>2, <3>3, Zenon
    <2> DEFINE p == [q EXCEPT !.fileAccess = a, !.fileExists = e]
               v == [w EXCEPT !.worker = k]
    <2>2. w.worker \in {"told", "locked"}
          /\ UNCHANGED <<mode, isSuspended, flushAllBuffers, wakeups, suspender, swapper,
                         traced, traceOut, umCalls>>
      BY <1>5, Zenon DEF LockFile, ReleaseFile, trail
    <2>3. /\ p \in UM_Infos /\ p.mem = q.mem /\ p.active = q.active /\ p.offset = q.offset
          /\ p.initiateSave = q.initiateSave /\ p.dpcQueued = q.dpcQueued
          /\ p.dataProcessed = q.dataProcessed /\ p.readyForSwap = q.readyForSwap
          /\ p.dataReady = q.dataReady /\ p.saveSize = q.saveSize
      BY <1>1, Zenon DEF UM_Infos
    <2>4. v \in UM_Writers /\ v.worker # "busy" /\ v.at = w.at /\ v.size = w.size
      BY <1>1, Zenon DEF UM_Writers
    <2>5. pInfo' = [pInfo EXCEPT ![c] = p] /\ writer' = [writer EXCEPT ![c] = v]
      BY <2>1, Zenon
    <2> HIDE DEF p, v
    <2>6. ASSUME UM_Cpu(q, w, out, n) PROVE UM_Cpu(p, v, out, n)
      <3>1. UM_Stage(q, w) /\ UM_Data(q, unsaved(q, w), out, n)
        BY <2>6, Zenon DEF UM_Cpu
      <3>2. UM_Stage(p, v)
        BY <2>3, <2>4, <3>1, Zenon DEF UM_Stage
      <3>3. unsaved(p, v) = unsaved(q, w)
        BY <2>3, <2>4, Zenon DEF unsaved
      <3>4. UM_Data(p, unsaved(q, w), out, n)
        BY <2>3, <3>1, Zenon DEF UM_Data
      <3> QED BY <3>2, <3>3, <3>4, Zenon DEF UM_Cpu
    <2>7. UM_Threads' /\ UM_Gui' /\ UNCHANGED ultimapActive
      BY <2>2, UM_Same, Zenon
    <2> QED BY <1>1, <1>2, <2>2, <2>3, <2>4, <2>5, <2>6, <2>7, UM_One, UM_Fields, Zenon
  <1> QED BY <1>3, <1>4, <1>5, Zenon DEF WorkerStep

\* The two threads that swap buffers go through their loop
LEMMA UM_SwapSteps ==
    ASSUME UM_Inv, NEW x \in Swappers, SwapStep(x) PROVE UM_Inv'
  <1> DEFINE l == swapper[x]
  <1>1. l \in UM_Loops /\ swapper \in [Swappers -> UM_Loops]
    BY Zenon DEF UM_Inv, UM_Threads
  <1>2. l.at = "swap" /\ (x = "gui" /\ ultimapActive => l.next \notin UM_Joins)
    <2>1. l.at = "swap"
      BY Zenon DEF SwapStep, QueueSwap, FlushQueuedDpcs
    <2> QED BY <2>1, Zenon DEF UM_Inv, UM_Gui, UM_Quiet
  <1>3. UNCHANGED <<saveToFile, ultimapActive, isSuspended, flushAllBuffers, flushData,
                    suspendEvent, suspender, writer, traced, traceOut, umCalls>>
    BY Zenon DEF SwapStep, QueueSwap, FlushQueuedDpcs, mode, wakeups, trail
  <1>4. /\ isSuspended' \in BOOLEAN /\ flushAllBuffers' \in BOOLEAN /\ flushData' \in BOOLEAN
        /\ suspendEvent' \in BOOLEAN
    BY <1>3, Zenon DEF UM_Inv, UM_Threads
  <1>5. CASE swapper' = [swapper EXCEPT ![x] = At(swapper[x].next)] /\ UNCHANGED pInfo
    <2>1. l.next \in UM_Places
      BY <1>1, Zenon DEF UM_Loops
    <2>2. At(l.next) \in UM_Loops
      BY <2>1, UM_Loop, Zenon
    <2>3. x = "gui" /\ ultimapActive => UM_Quiet(At(l.next))
      BY <1>2, Zenon DEF UM_Quiet, At
    <2>4. PICK k \in UM_Loops : k = At(l.next)
      BY <2>2, Zenon
    <2>5. UM_Threads' /\ UM_Gui'
      BY <1>3, <1>4, <1>5, <2>3, <2>4, UM_Moved, Zenon
    <2> QED BY <1>3, <1>5, <2>5, UM_None, Zenon
  <1>6. CASE \E c \in UM_Cpus : \E wanted \in BOOLEAN :
               /\ c = l.cpu /\ (wanted => pInfo[c].readyForSwap)
               /\ swapper' = [swapper EXCEPT ![x].cpu = @ + 1]
               /\ pInfo' = [pInfo EXCEPT ![c].dpcQueued = @ \/ wanted]
    <2>0. PICK c \in UM_Cpus, wanted \in BOOLEAN :
               /\ c = l.cpu /\ (wanted => pInfo[c].readyForSwap)
               /\ swapper' = [swapper EXCEPT ![x].cpu = @ + 1]
               /\ pInfo' = [pInfo EXCEPT ![c].dpcQueued = @ \/ wanted]
      BY <1>6, Zenon
    <2> DEFINE q == pInfo[c]
               w == writer[c]
               out == traceOut[c]
               n == traced[c]
               p == [q EXCEPT !.dpcQueued = @ \/ wanted]
               k == [l EXCEPT !.cpu = c + 1]
    <2>1. q \in UM_Infos /\ w \in UM_Writers /\ out \in Seq(Nat) /\ n \in 0 .. UM_MaxWork
      BY UM_Fields, Zenon
    <2>2. pInfo' = [pInfo EXCEPT ![c] = p] /\ swapper' = [swapper EXCEPT ![x] = k]
      BY <1>1, <2>0, UM_Fields, Zenon
    <2>3. /\ p \in UM_Infos /\ p.mem = q.mem /\ p.active = q.active /\ p.offset = q.offset
          /\ p.initiateSave = q.initiateSave /\ p.dpcQueued = (q.dpcQueued \/ wanted)
          /\ p.dataProcessed = q.dataProcessed /\ p.readyForSwap = q.readyForSwap
          /\ p.dataReady = q.dataReady /\ p.saveSize = q.saveSize
      BY <2>1, Zenon DEF UM_Infos
    <2>4. k \in UM_Loops /\ k.at = l.at /\ k.next = l.next
      <3>1. c + 1 \in 1 .. UM_NumCpus + 1
        BY UMAssumption DEF UM_Cpus
      <3> QED BY <1>1, <3>1, Zenon DEF UM_Loops
    <2>5. x = "gui" /\ ultimapActive => UM_Quiet(k)
      BY <1>2, <2>4, Zenon DEF UM_Quiet, UM_Joins
    <2> HIDE DEF p, k
    <2>6. UM_Threads' /\ UM_Gui'
      BY <1>3, <1>4, <2>2, <2>4, <2>5, UM_Moved, Zenon
    <2>7. ASSUME UM_Cpu(q, w, out, n) PROVE UM_Cpu(p, w, out, n)
      <3>1. UM_Stage(q, w) /\ UM_Data(q, unsaved(q, w), out, n)
        BY <2>7, Zenon DEF UM_Cpu
      <3>2. UM_Stage(p, w)
        BY <2>0, <2>3, <3>1, Zenon DEF UM_Stage
      <3>3. unsaved(p, w) = unsaved(q, w)
        BY <2>3, Zenon DEF unsaved
      <3>4. UM_Data(p, unsaved(q, w), out, n)
        BY <2>3, <3>1, Zenon DEF UM_Data
      <3> QED BY <3>2, <3>3, <3>4, Zenon DEF UM_Cpu
    <2>8. ultimapActive /\ umCalls = 0 => UM_Cpu(p, w, out, n)
      BY <2>7, Zenon DEF UM_Inv
    <2> QED BY <1>3, <2>2, <2>3, <2>6, <2>8, UM_OneInfo, Zenon
  <1>7. CASE QueueSwap(x)
    <2> DEFINE wanted == ~swapper[x].only \/ pInfo[swapper[x].cpu].interrupted
    <2>1. wanted \in BOOLEAN
      BY Zenon
    <2>2. swapper[x].cpu \in UM_Cpus
      BY <1>7, Zenon DEF QueueSwap
    <2>3. CASE wanted /\ ~ultimapActive
      BY <1>5, <1>7, <2>3, Zenon DEF QueueSwap
    <2>4. CASE ~(wanted /\ ~ultimapActive)
      <3>1. /\ wanted => pInfo[swapper[x].cpu].readyForSwap
            /\ swapper' = [swapper EXCEPT ![x].cpu = @ + 1]
            /\ pInfo' = [pInfo EXCEPT ![swapper[x].cpu].dpcQueued = @ \/ wanted]
        BY <1>7, <2>4, Zenon DEF QueueSwap
      <3> HIDE DEF wanted
      <3> QED BY <1>6, <2>1, <2>2, <3>1, Zenon
    <2> QED BY <2>3, <2>4, Zenon
  <1>8. CASE FlushQueuedDpcs(x)
    BY <1>5, <1>8, Zenon DEF FlushQueuedDpcs
  <1> QED BY <1>7, <1>8, Zenon DEF SwapStep

\* The threads that are there once, between their swaps
LEMMA UM_ThreadSteps ==
    ASSUME UM_Inv,
           \/ SuspendThread \/ WakeWriter \/ CheckInterrupted \/ ResumeTarget
           \/ SwapAgain \/ PauseReturns
    PROVE  UM_Inv'
  <1> USE UMAssumption DEF mode, wakeups, trail
  <1>1. /\ saveToFile \in BOOLEAN /\ ultimapActive \in BOOLEAN
        /\ isSuspended \in BOOLEAN /\ flushAllBuffers \in BOOLEAN
        /\ flushData \in BOOLEAN /\ suspendEvent \in BOOLEAN
        /\ "writer" \in Swappers /\ "gui" \in Swappers /\ "writer" # "gui"
    BY Zenon DEF UM_Inv, UM_Threads, Swappers
  <1>2. UNCHANGED <<saveToFile, pInfo, writer, traceOut, traced, ultimapActive, umCalls>>
    BY Zenon DEF SuspendThread, WakeWriter, CheckInterrupted, ResumeTarget, SwapAgain,
       PauseReturns
  <1>3. CASE SuspendThread
    <2>1. UM_Threads' /\ UM_Gui'
      BY <1>3, Zenon DEF SuspendThread, UM_Inv, UM_Threads, UM_Gui
    <2> QED BY <1>2, <2>1, UM_None, Zenon
  <1>4. /\ At("ended") \in UM_Loops /\ At("waiting") \in UM_Loops /\ At("idle") \in UM_Loops
        /\ Enter("check", TRUE) \in UM_Loops /\ Enter("resume", FALSE) \in UM_Loops
        /\ Enter("flushed", FALSE) \in UM_Loops /\ Enter("paused", FALSE) \in UM_Loops
    BY UM_Loop, Zenon DEF UM_Places
  <1>5. CASE WakeWriter \/ CheckInterrupted \/ ResumeTarget
    <2>1. PICK l \in UM_Loops : swapper' = [swapper EXCEPT !["writer"] = l]
      <3>1. CASE WakeWriter
        BY <1>4, <3>1, Zenon DEF WakeWriter
      <3>2. CASE CheckInterrupted
        <4> DEFINE l == CASE ~ultimapActive -> At("ended")
                          [] \E c \in UM_Cpus : pInfo[c].interrupted -> Enter("check", TRUE)
                          [] OTHER -> Enter("resume", FALSE)
        <4>1. l \in {At("ended"), Enter("check", TRUE), Enter("resume", FALSE)}
          BY Zenon
        <4>2. swapper' = [swapper EXCEPT !["writer"] = l]
          BY <3>2, Zenon DEF CheckInterrupted
        <4> HIDE DEF l
        <4> QED BY <1>4, <4>1, <4>2, Zenon
      <3>3. CASE ResumeTarget
        BY <1>4, <3>3, Zenon DEF ResumeTarget
      <3> QED BY <1>5, <3>1, <3>2, <3>3, Zenon
    <2>2. isSuspended' \in BOOLEAN /\ flushData' \in BOOLEAN
      BY <1>1, <1>5, Zenon DEF WakeWriter, CheckInterrupted, ResumeTarget
    <2>3. flushAllBuffers' \in BOOLEAN /\ suspendEvent' \in BOOLEAN /\ UNCHANGED suspender
      BY <1>1, <1>5, Zenon DEF WakeWriter, CheckInterrupted, ResumeTarget
    <2>4. UM_Threads' /\ UM_Gui'
      BY <1>1, <1>2, <2>1, <2>2, <2>3, UM_Moved, Zenon
    <2> QED BY <1>2, <2>4, UM_None, Zenon
  <1>6. CASE SwapAgain \/ PauseReturns
    <2>1. UM_Quiet(At("idle")) /\ UM_Quiet(Enter("flushed", FALSE)) /\ UM_Quiet(Enter("paused", FALSE))
      BY Zenon DEF UM_Quiet, At, Enter, UM_Joins
    <2>2. PICK l \in UM_Loops : swapper' = [swapper EXCEPT !["gui"] = l] /\ UM_Quiet(l)
      <3>1. CASE PauseReturns
        BY <1>4, <2>1, <3>1, Zenon DEF PauseReturns
      <3>2. CASE SwapAgain
        BY <1>4, <2>1, <3>2, Zenon DEF SwapAgain
      <3> QED BY <1>6, <3>1, <3>2, Zenon
    <2>3. /\ flushAllBuffers' \in BOOLEAN /\ isSuspended' \in BOOLEAN /\ flushData' \in BOOLEAN
          /\ suspendEvent' \in BOOLEAN /\ UNCHANGED suspender
      BY <1>1, <1>6, Zenon DEF SwapAgain, PauseReturns
    <2>4. UM_Threads' /\ UM_Gui'
      BY <1>1, <1>2, <2>2, <2>3, UM_Moved, Zenon
    <2> QED BY <1>2, <2>4, UM_None, Zenon
  <1> QED BY <1>3, <1>5, <1>6, Zenon

\* The flush returns: workers that were idle are told to process their files
LEMMA UM_FlushReturnsStep ==
    ASSUME UM_Inv, FlushReturns PROVE UM_Inv'
  <1> USE UMAssumption DEF mode, wakeups, trail
  <1>1. UM_Threads' /\ UM_Gui'
    <2>1. PICK l \in UM_Loops : l = At("idle")
      BY UM_Loop, Zenon DEF UM_Places
    <2>2. UM_Quiet(l)
      BY <2>1, Zenon DEF UM_Quiet, At, UM_Joins
    <2>3. "gui" \in Swappers /\ swapper' = [swapper EXCEPT !["gui"] = l]
      BY <2>1, Zenon DEF FlushReturns, Swappers
    <2>4. /\ flushAllBuffers' \in BOOLEAN /\ isSuspended' \in BOOLEAN /\ flushData' \in BOOLEAN
          /\ suspendEvent' \in BOOLEAN /\ UNCHANGED <<saveToFile, ultimapActive, suspender>>
      BY Zenon DEF FlushReturns, UM_Inv, UM_Threads
    <2> QED BY <2>2, <2>3, <2>4, UM_Moved, Zenon
  <1>2. ASSUME NEW c \in UM_Cpus
        PROVE  /\ writer'[c] \in UM_Writers
               /\ writer'[c].at = writer[c].at /\ writer'[c].size = writer[c].size
               /\ \/ writer'[c].worker = writer[c].worker /\ writer'[c].mapped = writer[c].mapped
                  \/ writer'[c].worker = "told" /\ writer[c].worker = "idle"
    <2>1. writer[c] \in UM_Writers
      BY UM_Fields, Zenon
    <2>2. writer'[c] \in {writer[c], [writer[c] EXCEPT !.worker = "told"]}
          /\ (writer'[c] # writer[c] => writer[c].worker = "idle")
      BY Zenon DEF FlushReturns
    <2> QED BY <2>1, <2>2, Zenon DEF UM_Writers
  <1>3. UM_Types'
    <2>1. writer' \in [UM_Cpus -> UM_Writers]
      BY <1>2, Zenon DEF FlushReturns
    <2> QED BY <2>1, Zenon DEF FlushReturns, UM_Inv, UM_Types
  <1>4. ASSUME ultimapActive, umCalls = 0, NEW c \in UM_Cpus
        PROVE  UM_Cpu(pInfo[c], writer'[c], traceOut[c], traced[c])
    <2>1. UM_Stage(pInfo[c], writer[c])
          /\ UM_Data(pInfo[c], unsaved(pInfo[c], writer[c]), traceOut[c], traced[c])
      BY <1>4, Zenon DEF UM_Inv, UM_Cpu
    <2>2. UM_Stage(pInfo[c], writer'[c])
      BY <1>2, <2>1, Zenon DEF UM_Stage
    <2>3. unsaved(pInfo[c], writer'[c]) = unsaved(pInfo[c], writer[c])
      BY <1>2, Zenon DEF unsaved
    <2> QED BY <2>1, <2>2, <2>3, Zenon DEF UM_Cpu
  <1>5. UNCHANGED <<pInfo, traceOut, traced, ultimapActive, umCalls>>
    BY Zenon DEF FlushReturns
  <1> QED BY <1>1, <1>3, <1>4, <1>5, Zenon DEF UM_Inv

\* Flush, pause, resume and disable: from then on the invariant speaks of types only
LEMMA UM_Requests ==
    ASSUME UM_Inv, GuiRequest PROVE UM_Inv'
  <1> USE UMAssumption DEF mode, wakeups, trail
  <1>1. UM_Threads' /\ UM_Gui'
    <2>1. "gui" \in Swappers
          /\ isSuspended \in BOOLEAN /\ flushAllBuffers \in BOOLEAN
          /\ flushData \in BOOLEAN /\ suspendEvent \in BOOLEAN
      BY Zenon DEF UM_Inv, UM_Threads, Swappers
    <2>2. CASE FlushBuffers \/ Pause
      <3>1. /\ Enter("flushAgain", FALSE) \in UM_Loops /\ Enter("pauseAgain", FALSE) \in UM_Loops
            /\ UM_Quiet(Enter("flushAgain", FALSE)) /\ UM_Quiet(Enter("pauseAgain", FALSE))
        <4>1. /\ Enter("flushAgain", FALSE) \in UM_Loops /\ Enter("pauseAgain", FALSE) \in UM_Loops
          BY UM_Loop, Zenon DEF UM_Places
        <4>2. UM_Quiet(Enter("flushAgain", FALSE)) /\ UM_Quiet(Enter("pauseAgain", FALSE))
          BY Zenon DEF UM_Quiet, Enter, UM_Joins
        <4> QED BY <4>1, <4>2, Zenon
      <3>2. PICK l \in UM_Loops : swapper' = [swapper EXCEPT !["gui"] = l] /\ UM_Quiet(l)
        BY <2>2, <3>1, Zenon DEF FlushBuffers, Pause
      <3>3. /\ flushAllBuffers' \in BOOLEAN /\ isSuspended' \in BOOLEAN /\ flushData' \in BOOLEAN
            /\ suspendEvent' \in BOOLEAN /\ UNCHANGED <<saveToFile, ultimapActive, suspender>>
        BY <2>1, <2>2, Zenon DEF FlushBuffers, Pause
      <3> QED BY <2>1, <3>2, <3>3, UM_Moved, Zenon
    <2>3. CASE Resume
      BY <2>3, Zenon DEF Resume, UM_Inv, UM_Threads, UM_Gui
    <2>4. CASE Disable
      <3>1. At("joinSuspender") \in UM_Loops
        BY UM_Loop, Zenon DEF UM_Places, UM_Joins
      <3>2. swapper' \in [Swappers -> UM_Loops]
        BY <2>4, <3>1, Zenon DEF Disable, UM_Inv, UM_Threads
      <3> QED BY <2>4, <3>2, Zenon DEF Disable, UM_Inv, UM_Threads, UM_Gui
    <2> QED BY <2>2, <2>3, <2>4, Zenon DEF GuiRequest
  <1>2. pInfo' \in [UM_Cpus -> UM_Infos]
    <2>1. ASSUME NEW c \in UM_Cpus
          PROVE  /\ [pInfo[c] EXCEPT !.traceEn = FALSE] \in UM_Infos
                 /\ [pInfo[c] EXCEPT !.traceEn = TRUE, !.offset = 0] \in UM_Infos
                 /\ [pInfo[c] EXCEPT !.traceEn = FALSE, !.offset = 0] \in UM_Infos
      <3>1. pInfo[c] \in UM_Infos /\ 0 \in 0 .. UM_Capacity
        BY UM_Fields
      <3>2. [pInfo[c] EXCEPT !.traceEn = FALSE] \in UM_Infos
        BY <3>1, Zenon DEF UM_Infos
      <3>3. [pInfo[c] EXCEPT !.traceEn = TRUE, !.offset = 0] \in UM_Infos
        BY <3>1, Zenon DEF UM_Infos
      <3>4. [pInfo[c] EXCEPT !.traceEn = FALSE, !.offset = 0] \in UM_Infos
        BY <3>1, Zenon DEF UM_Infos
      <3> QED BY <3>2, <3>3, <3>4, Zenon
    <2>2. CASE FlushBuffers
      BY <2>2, Zenon DEF FlushBuffers, UM_Inv, UM_Types
    <2>3. CASE Pause
      BY <2>1, <2>3, Zenon DEF Pause
    <2>4. CASE Resume
      BY <2>1, <2>4, Zenon DEF Resume
    <2>5. CASE Disable
      BY <2>1, <2>5, Zenon DEF Disable
    <2> QED BY <2>2, <2>3, <2>4, <2>5, Zenon DEF GuiRequest
  <1>3. umCalls' \in Nat /\ UNCHANGED <<writer, traced, traceOut>> /\ (umCalls' # 0 \/ ~ultimapActive')
    <2>1. umCalls \in Nat
      BY Zenon DEF UM_Inv, UM_Types
    <2>2. CASE Disable
      BY <2>1, <2>2, Zenon DEF Disable
    <2>3. CASE FlushBuffers \/ Pause \/ Resume
      <3>1. umCalls' = umCalls + 1 /\ UNCHANGED <<writer, traced, traceOut>>
        BY <2>3, Zenon DEF FlushBuffers, Pause, Resume
      <3> QED BY <2>1, <3>1
    <2> QED BY <2>2, <2>3, Zenon DEF GuiRequest
  <1> QED BY <1>1, <1>2, <1>3, Zenon DEF UM_Inv, UM_Types

\* DisableUltimap2 waits for its threads; recording is over by then
LEMMA UM_JoinSteps ==
    ASSUME UM_Inv, JoinSuspender \/ JoinBufferWriter \/ FreePInfo PROVE UM_Inv'
  <1> USE UMAssumption DEF mode, wakeups, trail
  <1>1. ~ultimapActive /\ UNCHANGED <<saveToFile, ultimapActive, traced, traceOut, umCalls, suspender>>
    <2>1. swapper["gui"].at \in UM_Joins
      BY Zenon DEF JoinSuspender, JoinBufferWriter, FreePInfo, UM_Joins
    <2>2. UNCHANGED <<saveToFile, ultimapActive, traced, traceOut, umCalls, suspender>>
      BY Zenon DEF JoinSuspender, JoinBufferWriter, FreePInfo
    <2> QED BY <2>1, <2>2, Zenon DEF UM_Inv, UM_Gui, UM_Quiet
  <1>2. "gui" \in Swappers /\ swapper["gui"] \in UM_Loops
    BY Zenon DEF UM_Inv, UM_Threads, Swappers
  <1>3. UM_Threads' /\ UM_Gui'
    <2>1. At("joinWriter") \in UM_Loops /\ At("joinCpu") \in UM_Loops /\ At("off") \in UM_Loops
      BY UM_Loop, Zenon DEF UM_Places, UM_Joins
    <2>2. PICK l \in UM_Loops : swapper' = [swapper EXCEPT !["gui"] = l]
      <3>1. CASE JoinSuspender
        BY <2>1, <3>1, Zenon DEF JoinSuspender
      <3>2. CASE JoinBufferWriter
        BY <2>1, <3>2, Zenon DEF JoinBufferWriter
      <3>3. CASE FreePInfo
        <4> DEFINE l == swapper["gui"]
                   k == [l EXCEPT !.cpu = l.cpu + 1]
        <4>1. swapper' = [swapper EXCEPT !["gui"] = IF l.cpu < UM_NumCpus THEN k ELSE At("off")]
          BY <3>3, Zenon DEF FreePInfo
        <4>2. l.cpu < UM_NumCpus => k \in UM_Loops
          <5>1. l.cpu \in 1 .. UM_NumCpus + 1
            BY <1>2, Zenon DEF UM_Loops
          <5>2. l.cpu < UM_NumCpus => l.cpu + 1 \in 1 .. UM_NumCpus + 1
            BY <5>1
          <5> QED BY <1>2, <5>2, Zenon DEF UM_Loops
        <4> HIDE DEF k
        <4> QED BY <2>1, <4>1, <4>2, Zenon
      <3> QED BY <3>1, <3>2, <3>3, Zenon
    <2>3. /\ flushAllBuffers' \in BOOLEAN /\ isSuspended' \in BOOLEAN /\ flushData' \in BOOLEAN
          /\ suspendEvent' \in BOOLEAN
      BY Zenon DEF JoinSuspender, JoinBufferWriter, FreePInfo, UM_Inv, UM_Threads
    <2> QED BY <1>1, <1>2, <2>2, <2>3, UM_Moved, Zenon
  <1>4. pInfo' \in [UM_Cpus -> UM_Infos]
    <2>1. ASSUME NEW c \in UM_Cpus
          PROVE  /\ [pInfo[c] EXCEPT !.dataProcessed = TRUE, !.dataReady = TRUE] \in UM_Infos
                 /\ [pInfo[c] EXCEPT !.readyForSwap = TRUE, !.initiateSave = TRUE] \in UM_Infos
      <3>1. pInfo[c] \in UM_Infos
        BY UM_Fields, Zenon
      <3> QED BY <3>1, Zenon DEF UM_Infos
    <2>2. ASSUME NEW c, LetGo(c) PROVE pInfo' \in [UM_Cpus -> UM_Infos]
      <3>1. pInfo \in [UM_Cpus -> UM_Infos]
        BY Zenon DEF UM_Inv, UM_Types
      <3>2. CASE c \in UM_Cpus
        <4>1. pInfo' = [pInfo EXCEPT ![c] = [pInfo[c] EXCEPT !.readyForSwap = TRUE,
                                                              !.initiateSave = TRUE]]
          BY <2>2, <3>1, <3>2, Zenon DEF LetGo
        <4> QED BY <2>1, <3>1, <3>2, <4>1, Zenon
      <3>3. CASE c \notin UM_Cpus
        BY <2>2, <3>1, <3>3, Zenon DEF LetGo
      <3> QED BY <3>2, <3>3, Zenon
    <2>3. CASE JoinSuspender
      BY <2>1, <2>3, Zenon DEF JoinSuspender
    <2>4. CASE JoinBufferWriter
      BY <2>2, <2>4, Zenon DEF JoinBufferWriter
    <2>5. CASE FreePInfo
      BY <2>2, <2>5, Zenon DEF FreePInfo
    <2> QED BY <2>3, <2>4, <2>5, Zenon
  <1>5. writer' \in [UM_Cpus -> UM_Writers]
    <2>1. writer \in [UM_Cpus -> UM_Writers]
      BY Zenon DEF UM_Inv, UM_Types
    <2>2. ASSUME NEW c \in UM_Cpus PROVE [writer[c] EXCEPT !.freed = TRUE] \in UM_Writers
      BY <2>1, Zenon DEF UM_Writers
    <2>3. CASE FreePInfo
      <3> DEFINE d == swapper["gui"].cpu
      <3>1. writer' = [writer EXCEPT ![d].freed = TRUE]
        BY <2>3, Zenon DEF FreePInfo
      <3>2. CASE d \in UM_Cpus
        <4>1. writer' = [writer EXCEPT ![d] = [writer[d] EXCEPT !.freed = TRUE]]
          BY <2>1, <3>1, <3>2, Zenon
        <4> QED BY <2>1, <2>2, <3>2, <4>1, Zenon
      <3>3. CASE d \notin UM_Cpus
        BY <2>1, <3>1, <3>3, Zenon
      <3> QED BY <3>2, <3>3, Zenon
    <2> QED BY <2>1, <2>3, Zenon DEF JoinSuspender, JoinBufferWriter
  <1> QED BY <1>1, <1>3, <1>4, <1>5, Zenon DEF UM_Inv, UM_Types

\* The invariant holds in every reachable state
LEMMA UM_Always == UM_Spec => []UM_Inv
  <1>1. UM_Inv /\ [UM_Next]_umVars => UM_Inv'
    <2> SUFFICES ASSUME UM_Inv, [UM_Next]_umVars PROVE UM_Inv'
      BY Zenon
    <2>1. CASE UNCHANGED umVars
      BY <2>1, Zenon DEF UM_Inv, UM_Threads, UM_Gui, UM_Types, umVars
    <2>2. ASSUME NEW c \in UM_Cpus,
                 UM_Trace(c) \/ PMI(c) \/ SwitchToPABuffer(c) \/ WriterStep(c) \/ WorkerStep(c)
          PROVE  UM_Inv'
      BY <2>2, UM_TraceStep, UM_Interrupts, UM_WriterSteps, UM_WorkerSteps, Zenon
    <2>3. CASE SuspendThread
      BY <2>3, UM_ThreadSteps, Zenon
    <2>4. CASE BufferWriterStep
      <3>1. "writer" \in Swappers
        BY Zenon DEF Swappers
      <3> QED BY <2>4, <3>1, UM_SwapSteps, UM_ThreadSteps, Zenon DEF BufferWriterStep
    <2>5. CASE GuiStep
      <3>1. "gui" \in Swappers
        BY Zenon DEF Swappers
      <3> QED BY <2>5, <3>1, UM_SwapSteps, UM_ThreadSteps, UM_FlushReturnsStep, UM_JoinSteps,
                 Zenon DEF GuiStep
    <2>6. CASE GuiRequest
      BY <2>6, UM_Requests, Zenon
    <2> QED BY <2>1, <2>2, <2>3, <2>4, <2>5, <2>6, Zenon DEF UM_Next
  <1> QED BY <1>1, UM_InitInv, PTL DEF UM_Spec

\* The recorder's fields keep their types and no offset leaves its buffer, for any
\* number of processors and any size of buffer (UM_TypeOK).
THEOREM UM_TypeCorrect == UM_Spec => []UM_TypeOK
  <1>1. UM_Inv => UM_TypeOK
    <2> SUFFICES ASSUME UM_Inv PROVE UM_TypeOK
      BY Zenon
    <2>1. UM_Threads
      BY Zenon DEF UM_Inv
    <2>2. ASSUME NEW c \in UM_Cpus
          PROVE  /\ pInfo[c].active \in 1 .. 2
                 /\ pInfo[c].offset \in 0 .. UM_Capacity
                 /\ pInfo[c].mem \in [1 .. 2 -> [1 .. UM_Capacity -> 0 .. UM_MaxWork]]
                 /\ writer[c].at \in {"waiting", "file", "data", "ended"}
                 /\ writer[c].worker \in {"idle", "busy", "told", "locked"}
      BY UM_Fields, Zenon DEF UM_Infos, UM_Writers
    <2>3. \A x \in Swappers : swapper[x].cpu \in 1 .. UM_NumCpus + 1
      BY <2>1, Zenon DEF UM_Threads, UM_Loops
    <2> QED BY <2>1, <2>2, <2>3, Zenon DEF UM_TypeOK, UM_Threads
  <1> QED BY <1>1, UM_Always, PTL

\* Until Cheat Engine asks for a flush or a pause, no chunk of a processor's trace is
\* lost, repeated or put out of order (TraceKept): PMI, the swap DPC, the writer thread
\* and the worker hand every buffer on exactly once, on any number of processors and
\* with buffers of any size.
THEOREM UM_TraceKept == UM_Spec => []TraceKept
  <1>1. UM_Inv => TraceKept
    <2> SUFFICES ASSUME UM_Inv, ultimapActive, umCalls = 0, NEW c \in UM_Cpus
                 PROVE  traceOut[c] \o (IF Unsaved(c) THEN Chunks(c, Buffer2(c), pInfo[c].saveSize)
                                                     ELSE <<>>)
                                   \o Chunks(c, pInfo[c].active, pInfo[c].offset)
                          = [i \in 1 .. traced[c] |-> i]
      BY Zenon DEF TraceKept
    <2> DEFINE q == pInfo[c]
               u == unsaved(q, writer[c])
               out == traceOut[c]
               two == SubSeq(q.mem[3 - q.active], 1, u)
               one == SubSeq(q.mem[q.active], 1, q.offset)
    <2>1. q \in UM_Infos /\ out \in Seq(Nat) /\ UM_Data(q, u, out, traced[c])
      BY UM_Fields, Zenon DEF UM_Inv, UM_Cpu
    <2>2. u \in 0 .. UM_Capacity /\ q.offset \in 0 .. UM_Capacity /\ q.active \in 1 .. 2
          /\ q.mem[q.active] \in [1 .. UM_Capacity -> 0 .. UM_MaxWork]
          /\ q.mem[3 - q.active] \in [1 .. UM_Capacity -> 0 .. UM_MaxWork]
      <3>1. u \in {q.saveSize, 0}
        BY Zenon DEF unsaved
      <3>2. 0 \in 0 .. UM_Capacity
        BY UMAssumption
      <3> HIDE DEF u
      <3> QED BY <2>1, <3>1, <3>2, UM_Buffers, Zenon
    <2>3. /\ two \in Seq(Nat) /\ Len(two) = u
          /\ \A j \in 1 .. u : two[j] = q.mem[3 - q.active][j]
          /\ one \in Seq(Nat) /\ Len(one) = q.offset
          /\ \A j \in 1 .. q.offset : one[j] = q.mem[q.active][j]
      BY <2>2, UM_Prefix, Zenon
    <2>4. (IF Unsaved(c) THEN Chunks(c, Buffer2(c), pInfo[c].saveSize) ELSE <<>>) = two
      <3>1. CASE Unsaved(c)
        BY <3>1, Zenon DEF Unsaved, unsaved, Chunks, Buffer2
      <3>2. CASE ~Unsaved(c)
        <4>1. u = 0
          BY <3>2, Zenon DEF Unsaved, unsaved
        <4> HIDE DEF u, two
        <4>2. two = <<>>
          BY <2>3, <4>1
        <4> QED BY <3>2, <4>2, Zenon
      <3> QED BY <3>1, <3>2, Zenon
    <2> HIDE DEF two, one, u
    <2> DEFINE all == out \o two \o one
    <2>5. /\ all \in Seq(Nat) /\ Len(all) = Len(out) + u + q.offset
          /\ \A i \in 1 .. Len(out) : all[i] = out[i]
          /\ \A j \in 1 .. u : all[Len(out) + j] = two[j]
          /\ \A j \in 1 .. q.offset : all[Len(out) + u + j] = one[j]
      <3> DEFINE first == out \o two
      <3>1. /\ first \in Seq(Nat) /\ Len(first) = Len(out) + u
            /\ \A i \in 1 .. Len(out) : first[i] = out[i]
            /\ \A j \in 1 .. u : first[Len(out) + j] = two[j]
        BY <2>1, <2>3, UM_Concat, Zenon
      <3>2. Len(out) \in Nat /\ u \in Nat /\ q.offset \in Nat
        BY <2>1, <2>2
      <3>3. all = first \o one
        BY Zenon
      <3> HIDE DEF first, all
      <3>4. /\ all \in Seq(Nat) /\ Len(all) = Len(first) + q.offset
            /\ \A i \in 1 .. Len(first) : all[i] = first[i]
            /\ \A j \in 1 .. q.offset : all[Len(first) + j] = one[j]
        <4>1. /\ first \o one \in Seq(Nat) /\ Len(first \o one) = Len(first) + Len(one)
              /\ \A i \in 1 .. Len(first) : (first \o one)[i] = first[i]
              /\ \A j \in 1 .. Len(one) : (first \o one)[Len(first) + j] = one[j]
          BY <2>3, <3>1, UM_Concat, Zenon
        <4> QED BY <2>3, <3>3, <4>1, Zenon
      <3>5. \A i \in 1 .. Len(out) : i \in 1 .. Len(first)
        BY <3>1, <3>2
      <3>6. \A j \in 1 .. u : Len(out) + j \in 1 .. Len(first)
        BY SMTT(30), <3>1, <3>2
      <3> QED BY <3>1, <3>4, <3>5, <3>6, Zenon
    <2> HIDE DEF all
    <2>6. Len(all) = traced[c] /\ Len(out) \in Nat /\ u \in Nat /\ q.offset \in Nat
          /\ traced[c] = Len(out) + u + q.offset
      BY <2>1, <2>2, <2>5 DEF UM_Data
    <2>7. ASSUME NEW i \in 1 .. traced[c] PROVE all[i] = i
      <3>0. /\ \A k \in 1 .. Len(out) : out[k] = k
            /\ \A j \in 1 .. u : q.mem[3 - q.active][j] = Len(out) + j
            /\ \A j \in 1 .. q.offset : q.mem[q.active][j] = Len(out) + u + j
        BY <2>1, Zenon DEF UM_Data
      <3>1. CASE i \in 1 .. Len(out)
        BY <2>5, <3>0, <3>1, Zenon
      <3>2. ASSUME NEW j \in 1 .. u, i = Len(out) + j PROVE all[i] = i
        BY <2>3, <2>5, <3>0, <3>2, Zenon
      <3>3. ASSUME NEW j \in 1 .. q.offset, i = Len(out) + u + j PROVE all[i] = i
        BY <2>3, <2>5, <3>0, <3>3, Zenon
      <3>4. CASE i > Len(out) /\ i <= Len(out) + u
        <4>1. i - Len(out) \in 1 .. u /\ i = Len(out) + (i - Len(out))
          BY <2>6, <3>4
        <4> QED BY <3>2, <4>1, Zenon
      <3>5. CASE i > Len(out) + u
        <4>0. i \in 1 .. Len(out) + u + q.offset
          BY <2>6, Zenon
        <4>1. i - Len(out) - u \in 1 .. q.offset /\ i = Len(out) + u + (i - Len(out) - u)
          <5>1. \A a, b, o \in Nat : \A k \in 1 .. a + b + o :
                   k > a + b => k - a - b \in 1 .. o /\ k = a + b + (k - a - b)
            OBVIOUS
          <5> QED BY <2>6, <3>5, <4>0, <5>1, Zenon
        <4> QED BY <3>3, <4>1, Zenon
      <3>6. i \in 1 .. Len(out) \/ (i > Len(out) /\ i <= Len(out) + u) \/ i > Len(out) + u
        BY <2>6
      <3> QED BY <3>1, <3>4, <3>5, <3>6, Zenon
    <2>8. all = [i \in 1 .. traced[c] |-> i]
      BY <2>5, <2>6, <2>7
    <2> QED BY <2>4, <2>8, Zenon DEF all, one, Chunks
  <1> QED BY <1>1, UM_Always, PTL

(***************************************************************************)
(* The driver's debugger and the program share the debug registers, for    *)
(* any number of processors, registers and breakpoints.                    *)
(***************************************************************************)
INSTANCE FiniteSetTheorems

\* The number of smaller elements numbers the elements of a finite set of naturals
\* 0, 1, ...: the epilogue walks registers and breakpoints in order
LEMMA GD_Rank ==
    ASSUME NEW n \in Nat, NEW S \in SUBSET (0 .. n - 1)
    PROVE  /\ Cardinality(S) \in Nat
           /\ \A x \in S : Before(x, S) \in 0 .. Cardinality(S) - 1
           /\ \A x, y \in S : Before(x, S) = Before(y, S) => x = y
           /\ \A k \in 0 .. Cardinality(S) - 1 : \E x \in S : Before(x, S) = k
  <1> DEFINE Below(x) == {z \in S : z < x}
             f == [x \in S |-> Before(x, S)]
             T == 0 .. Cardinality(S) - 1
  <1>1. IsFiniteSet(S) /\ Cardinality(S) \in Nat
    <2>1. IsFiniteSet(0 .. n - 1)
      BY FS_Interval
    <2>2. IsFiniteSet(S)
      BY <2>1, FS_Subset, Zenon
    <2> QED BY <2>2, FS_CardinalityType, Zenon
  <1>2. ASSUME NEW x \in S
        PROVE  /\ IsFiniteSet(Below(x)) /\ Cardinality(Below(x)) \in Nat
               /\ IsFiniteSet(Below(x) \cup {x}) /\ Cardinality(Below(x) \cup {x}) = Cardinality(Below(x)) + 1
    <2>1. IsFiniteSet(Below(x)) /\ x \notin Below(x)
      BY SMTT(30), <1>1, FS_Subset
    <2> HIDE DEF Below
    <2> QED BY <2>1, FS_AddElement, FS_CardinalityType, Zenon
  <1>3. ASSUME NEW x \in S PROVE Before(x, S) \in T /\ Before(x, S) = Cardinality(Below(x))
    <2>1. Before(x, S) = Cardinality(Below(x))
      BY Zenon DEF Before
    <2>2. Below(x) \cup {x} \subseteq S
      BY Zenon
    <2> HIDE DEF Below
    <2>3. Cardinality(Below(x) \cup {x}) <= Cardinality(S)
      BY <1>1, <2>2, FS_Subset, Zenon
    <2> QED BY SMTT(30), <1>1, <1>2, <2>1, <2>3
  <1>4. ASSUME NEW x \in S, NEW y \in S, x < y PROVE Before(x, S) < Before(y, S)
    <2>0. \A z \in S : z \in Nat
      OBVIOUS
    <2>1. Below(x) \cup {x} \subseteq Below(y)
      <3> SUFFICES ASSUME NEW z \in Below(x) \cup {x} PROVE z \in S /\ z < y
        BY Zenon
      <3>1. z \in S /\ (z < x \/ z = x)
        BY Zenon
      <3>2. x \in Nat /\ y \in Nat /\ z \in Nat
        BY <2>0, <3>1, Zenon
      <3> HIDE DEF Below
      <3> QED BY <1>4, <3>1, <3>2
    <2> HIDE DEF Below
    <2>2. Cardinality(Below(x) \cup {x}) <= Cardinality(Below(y))
      BY <1>2, <2>1, FS_Subset, Zenon
    <2> QED BY <1>2, <1>3, <2>2
  <1>5. ASSUME NEW x \in S, NEW y \in S, Before(x, S) = Before(y, S) PROVE x = y
    <2>0. x \in Nat /\ y \in Nat
      OBVIOUS
    <2>1. x \in Nat /\ y \in Nat /\ Before(x, S) \in Nat /\ Before(y, S) \in Nat
      <3>1. Before(x, S) \in T /\ Before(y, S) \in T
        BY <1>3, Zenon
      <3> QED BY <1>1, <2>0, <3>1
    <2> QED BY <1>4, <1>5, <2>1
  <1>6. f \in Injection(S, T)
    <2>1. f \in [S -> T] /\ \A x \in S : f[x] = Before(x, S)
      BY <1>3, Zenon
    <2> HIDE DEF f, T
    <2> QED BY <1>5, <2>1, Zenon DEF Injection, IsInjective
  <1>7. IsFiniteSet(T) /\ Cardinality(T) = Cardinality(S)
    <2>1. Cardinality(S) - 1 \in Int /\ 0 \in Int
      BY <1>1
    <2> QED BY SMTT(30), <1>1, <2>1, FS_Interval
  <1>8. f \in Surjection(S, T)
    <2> HIDE DEF f, T
    <2> QED BY <1>6, <1>7, FS_Injection, Zenon
  <1>9. \A k \in T : \E x \in S : f[x] = k
    <2> HIDE DEF f, T
    <2> QED BY <1>8, Zenon DEF Surjection
  <1> QED BY <1>1, <1>3, <1>5, <1>9, Zenon

\* The breakpoints of a list, and what a processor watches besides its process' own
gdWanted(bps) == {bps[s] : s \in Active(bps)}
gdArmed(r, fk) == {r.addr[d] : d \in r.on \ fk.on}

\* What the epilogue leaves in the registers: the ones the process uses hold what the
\* process put there, and the breakpoints are in the others, all of them if they fit
LEMMA GD_Epilogue ==
    ASSUME NEW fk \in Registers, NEW bps \in [Slots -> Addresses \cup {Zero}], NEW gd \in BOOLEAN,
           NEW r, r = Epilogue(fk, bps, gd)
    PROVE  /\ r \in [addr : [DRs -> Addresses \cup {Zero}], on : SUBSET DRs, gd : BOOLEAN]
           /\ \A d \in fk.on : d \in r.on /\ r.addr[d] = fk.addr[d]
           /\ gdArmed(r, fk) \subseteq gdWanted(bps)
           /\ Cardinality(Active(bps)) <= Cardinality(DRs \ fk.on) =>
                gdWanted(bps) = gdArmed(r, fk)
  <1> DEFINE A == Active(bps)
             F == DRs \ fk.on
             P == Placed(fk, bps)
             at(d) == {p \in P : p[1] = d}
  <1>1. A \in SUBSET (0 .. NumSlots - 1) /\ F \in SUBSET (0 .. NumDR - 1)
    BY Zenon DEF Active, Slots, DRs
  <1>2. P = {p \in F \X A : Before(p[1], F) = Before(p[2], A)}
    BY Zenon DEF Placed
  <1>3. /\ r.on = fk.on \cup {p[1] : p \in P}
        /\ r.gd = gd
        /\ r.addr = [d \in DRs |-> IF at(d) = {} THEN fk.addr[d] ELSE bps[(CHOOSE p \in at(d) : TRUE)[2]]]
        /\ r = [addr |-> r.addr, on |-> r.on, gd |-> r.gd]
    BY Zenon DEF Epilogue
  <1>4. fk.on \subseteq DRs /\ fk.addr \in [DRs -> Addresses \cup {Zero}]
    BY Zenon DEF Registers
  <1> HIDE DEF A, F, P
  <1>5. \A p \in P : p[1] \in F /\ p[2] \in A /\ p = <<p[1], p[2]>> /\ Before(p[1], F) = Before(p[2], A)
    BY <1>2
  <1>6. ASSUME NEW d \in F, NEW s \in A, <<d, s>> \in P PROVE r.addr[d] = bps[s]
    <2>1. \A x, y \in A : Before(x, A) = Before(y, A) => x = y
      BY <1>1, GD_Rank, GDAssumption, Zenon
    <2>2. <<d, s>> \in at(d) /\ d \in DRs
      BY <1>6, Zenon DEF F
    <2>3. (CHOOSE p \in at(d) : TRUE) \in at(d)
      BY <2>2, Zenon
    <2>4. ASSUME NEW p \in at(d) PROVE p[2] = s
      <3>1. p \in P /\ p[1] = d
        BY Zenon
      <3>2. Before(d, F) = Before(p[2], A) /\ p[2] \in A
        BY <1>5, <3>1, Zenon
      <3>3. Before(d, F) = Before(s, A)
        BY <1>2, <1>6, Zenon
      <3> QED BY <2>1, <3>2, <3>3, Zenon
    <2> HIDE DEF at
    <2> QED BY SMTT(30), <1>3, <2>2, <2>3, <2>4
  <1>7. ASSUME NEW d \in fk.on PROVE d \in r.on /\ r.addr[d] = fk.addr[d]
    <2>1. at(d) = {}
      BY <1>5, Zenon DEF F
    <2> QED BY <1>3, <1>4, <2>1, Zenon
  <1>8. ASSUME NEW d \in r.on \ fk.on PROVE d \in F /\ \E s \in A : <<d, s>> \in P
    BY <1>3, <1>5
  <1>9. {r.addr[d] : d \in r.on \ fk.on} \subseteq {bps[s] : s \in A}
    <2> SUFFICES ASSUME NEW d \in r.on \ fk.on PROVE r.addr[d] \in {bps[s] : s \in A}
      BY Zenon
    <2>1. PICK s \in A : d \in F /\ <<d, s>> \in P
      BY <1>8, Zenon
    <2>2. r.addr[d] = bps[s]
      BY <1>6, <2>1, Zenon
    <2> QED BY <2>2, Zenon
  <1>10. ASSUME Cardinality(A) <= Cardinality(F), NEW s \in A
         PROVE  \E d \in r.on \ fk.on : r.addr[d] = bps[s]
    <2>1. Cardinality(A) \in Nat /\ Before(s, A) \in 0 .. Cardinality(A) - 1
      BY <1>1, GD_Rank, GDAssumption, Zenon
    <2>2. Cardinality(F) \in Nat /\ \A k \in 0 .. Cardinality(F) - 1 : \E x \in F : Before(x, F) = k
      BY <1>1, GD_Rank, GDAssumption, Zenon
    <2>3. PICK d \in F : Before(d, F) = Before(s, A)
      BY SMTT(30), <1>10, <2>1, <2>2
    <2>4. <<d, s>> \in P
      BY <1>2, <2>3, Zenon
    <2>5. d \in r.on /\ d \notin fk.on
      BY <1>3, <2>4 DEF F
    <2> QED BY <1>6, <2>4, <2>5, Zenon
  <1>11. r \in [addr : [DRs -> Addresses \cup {Zero}], on : SUBSET DRs, gd : BOOLEAN]
    <2>1. r.on \subseteq DRs
      BY SMTT(30), <1>3, <1>4, <1>5 DEF F
    <2>2. ASSUME NEW d \in DRs PROVE r.addr[d] \in Addresses \cup {Zero}
      <3>1. CASE at(d) = {}
        BY <1>3, <1>4, <3>1, Zenon
      <3>2. CASE at(d) # {}
        <4>1. PICK p \in P : p[1] = d
          BY <3>2, Zenon
        <4>2. p[1] \in F /\ p[2] \in A /\ <<d, p[2]>> \in P
          BY <1>5, <4>1, Zenon
        <4>3. r.addr[d] = bps[p[2]] /\ p[2] \in Slots
          BY <1>6, <4>1, <4>2, Zenon DEF A, Active
        <4> QED BY <4>3, Zenon
      <3> QED BY <3>1, <3>2, Zenon
    <2>3. r.addr \in [DRs -> Addresses \cup {Zero}]
      BY <1>3, <2>2, Zenon
    <2> QED BY <1>3, <2>1, <2>3, Zenon
  <1>12. gdArmed(r, fk) = {r.addr[d] : d \in r.on \ fk.on} /\ gdWanted(bps) = {bps[s] : s \in A}
    BY Zenon DEF gdArmed, gdWanted, A
  <1>13. ASSUME Cardinality(A) <= Cardinality(F) PROVE gdWanted(bps) \subseteq gdArmed(r, fk)
    <2> SUFFICES ASSUME NEW s \in A PROVE bps[s] \in {r.addr[d] : d \in r.on \ fk.on}
      BY <1>12, Zenon
    <2> QED BY <1>10, <1>13, Zenon
  <1>14. gdArmed(r, fk) \subseteq gdWanted(bps)
    BY <1>9, <1>12, Zenon
  <1> QED BY <1>7, <1>11, <1>13, <1>14, Zenon DEF A, F

\* The state of the registers
GD_Types ==
    /\ globalDebug \in BOOLEAN /\ stoppingTheDebugger \in BOOLEAN
    /\ breakpoint \in [Slots -> Addresses \cup {Zero}]
    /\ hooked \subseteq Cpus
    /\ real \in [Cpus -> [addr : [DRs -> Addresses \cup {Zero}], on : SUBSET DRs, gd : BOOLEAN]]
    /\ fake \in [Cpus -> Registers]
    /\ guest \in [Cpus -> Written]
    /\ DOMAIN loaded = Cpus
    /\ \A c \in Cpus : loaded[c] = Unloaded \/ loaded[c] \in [Slots -> Addresses \cup {Zero}]

\* A hooked processor traps while global debug is on, which a driver that goes away ends
GD_Traps ==
    /\ globalDebug => ~stoppingTheDebugger
    /\ \A c \in hooked : globalDebug => real[c].gd

\* Faked registers hold the addresses that were written through the trap, and after a
\* write of DR7 they enable DR0 and no other
gdFaked(fk, w) ==
    /\ \A d \in w.wrote : fk.addr[d] = w.addr[d]
    /\ w.dr7 => fk.on = {0}

\* The faked registers answer for what the code on the processor wrote, and those kept
\* for a thread that broke for what that thread wrote
GD_Fakes ==
    /\ \A c \in Cpus : gdFaked(fake[c], guest[c])
    /\ frozen # NotFrozen => /\ frozen.regs \in Registers /\ frozen.guest \in Written
                             /\ gdFaked(frozen.regs, frozen.guest)

\* A processor that was loaded since it was hooked has what the epilogue leaves
GD_Loads ==
    \A c \in hooked : globalDebug /\ loaded[c] # Unloaded =>
        \E gd \in BOOLEAN : real[c] = Epilogue(fake[c], loaded[c], gd)

GD_Inv == GD_Types /\ GD_Traps /\ GD_Fakes /\ GD_Loads

\* Nothing is hooked yet
LEMMA GD_InitInv == GD_Init => GD_Inv
  <1> SUFFICES ASSUME GD_Init PROVE GD_Inv
    BY Zenon
  <1>1. /\ breakpoint = [s \in Slots |-> Zero] /\ hooked = {} /\ frozen = NotFrozen
        /\ real = [c \in Cpus |-> [addr |-> [d \in DRs |-> Zero], on |-> {}, gd |-> FALSE]]
        /\ fake = [c \in Cpus |-> [addr |-> [d \in DRs |-> Zero], on |-> {}]]
        /\ guest = [c \in Cpus |-> [addr |-> [d \in DRs |-> Zero], on |-> {}, wrote |-> {}, dr7 |-> FALSE]]
        /\ loaded = [c \in Cpus |-> Unloaded]
        /\ globalDebug = FALSE /\ stoppingTheDebugger = FALSE
    BY Zenon DEF GD_Init, NoBreakpoints, Cleared, NothingWritten
  <1>2. GD_Types
    BY <1>1, Zenon DEF GD_Types, Registers, Written
  <1>3. GD_Traps /\ GD_Fakes /\ GD_Loads
    BY <1>1, Zenon DEF GD_Traps, GD_Fakes, GD_Loads, gdFaked
  <1> QED BY <1>2, <1>3, Zenon DEF GD_Inv

\* A return from interrupt 1 that loads processor c for the faked registers fk, which
\* answer for the writes w
LEMMA GD_LoadStep ==
    ASSUME GD_Inv, NEW c \in hooked, globalDebug, NEW fk \in Registers, NEW w \in Written,
           gdFaked(fk, w), Load(c, fk),
           fake' = [fake EXCEPT ![c] = fk], guest' = [guest EXCEPT ![c] = w],
           frozen' = frozen \/ frozen' = NotFrozen,
           UNCHANGED <<globalDebug, stoppingTheDebugger, breakpoint, hooked>>
    PROVE  GD_Inv'
  <1> DEFINE r == Epilogue(fk, breakpoint, ~stoppingTheDebugger)
  <1>1. /\ real' = [real EXCEPT ![c] = r] /\ loaded' = [loaded EXCEPT ![c] = breakpoint]
    BY Zenon DEF Load
  <1>2. GD_Types /\ ~stoppingTheDebugger /\ c \in Cpus
    BY Zenon DEF GD_Inv, GD_Traps, GD_Types
  <1>3. r \in [addr : [DRs -> Addresses \cup {Zero}], on : SUBSET DRs, gd : BOOLEAN]
    <2>1. breakpoint \in [Slots -> Addresses \cup {Zero}] /\ (~stoppingTheDebugger) \in BOOLEAN
      BY <1>2, Zenon DEF GD_Types
    <2> QED BY <2>1, GD_Epilogue, Zenon
  <1>4. r.gd = TRUE /\ r = Epilogue(fk, breakpoint, TRUE)
    BY <1>2, Zenon DEF Epilogue
  <1> HIDE DEF r
  <1>5. hooked \subseteq Cpus
    BY <1>2, Zenon DEF GD_Types
  <1>6. GD_Types'
    BY <1>1, <1>2, <1>3, Zenon DEF GD_Types
  <1>7. real'[c] = r /\ fake'[c] = fk /\ guest'[c] = w /\ loaded'[c] = breakpoint
    BY <1>1, <1>2, Zenon DEF GD_Types
  <1>8. \A e \in Cpus : e # c =>
           real'[e] = real[e] /\ fake'[e] = fake[e] /\ guest'[e] = guest[e] /\ loaded'[e] = loaded[e]
    BY <1>1, <1>2, Zenon DEF GD_Types
  <1>9. GD_Traps'
    BY <1>2, <1>4, <1>5, <1>7, <1>8, Zenon DEF GD_Inv, GD_Traps
  <1>10. GD_Fakes'
    BY <1>7, <1>8, Zenon DEF GD_Inv, GD_Fakes
  <1>11. GD_Loads'
    BY <1>4, <1>5, <1>7, <1>8, ZenonT(40) DEF GD_Inv, GD_Loads
  <1> QED BY <1>6, <1>9, <1>10, <1>11, Zenon DEF GD_Inv

\* Accesses to the debug registers, and the breakpoints and their return
LEMMA GD_Handled ==
    ASSUME GD_Inv, NEW c \in Cpus,
           \/ \E d \in DRs, a \in Addresses : WriteAddress(c, d, a)
           \/ \E en \in SUBSET DRs : WriteDR7(c, en)
           \/ TouchDebugRegister(c)
           \/ BreakInOtherProcess(c) \/ ResumeInProcess(c)
    PROVE  GD_Inv'
  <1>1. /\ fake \in [Cpus -> Registers] /\ guest \in [Cpus -> Written]
        /\ fake[c].addr \in [DRs -> Addresses \cup {Zero}] /\ fake[c].on \in SUBSET DRs
        /\ fake[c] = [addr |-> fake[c].addr, on |-> fake[c].on]
        /\ gdFaked(fake[c], guest[c])
    BY Zenon DEF GD_Inv, GD_Types, GD_Fakes, Registers
  <1>2. /\ guest[c].addr \in [DRs -> Addresses \cup {Zero}] /\ guest[c].on \in SUBSET DRs
        /\ guest[c].wrote \in SUBSET DRs /\ guest[c].dr7 \in BOOLEAN
        /\ guest[c] = [addr |-> guest[c].addr, on |-> guest[c].on, wrote |-> guest[c].wrote,
                       dr7 |-> guest[c].dr7]
    BY <1>1, Zenon DEF Written
  <1>3. ASSUME NEW d \in DRs, NEW a \in Addresses, WriteAddress(c, d, a) PROVE GD_Inv'
    <2> DEFINE fk == [fake[c] EXCEPT !.addr[d] = a]
               w == AddressWritten(guest[c], d, a, TRUE)
    <2>1. /\ c \in hooked /\ globalDebug /\ fake' = [fake EXCEPT ![c].addr[d] = a]
          /\ guest' = [guest EXCEPT ![c] = w] /\ Load(c, fake'[c])
          /\ UNCHANGED <<globalDebug, stoppingTheDebugger, breakpoint, hooked, frozen>>
      BY <1>3, Zenon DEF WriteAddress, Trapped
    <2>2. /\ fk \in Registers /\ fk.addr = [fake[c].addr EXCEPT ![d] = a]
          /\ fk.on = fake[c].on
      BY <1>1, Zenon DEF Registers
    <2>3. fake' = [fake EXCEPT ![c] = fk] /\ fake'[c] = fk
      BY <1>1, <2>1, Zenon
    <2>4. /\ w.addr = [guest[c].addr EXCEPT ![d] = a] /\ w.wrote = guest[c].wrote \cup {d}
          /\ w.dr7 = guest[c].dr7 /\ w \in Written
      BY <1>2, Zenon DEF AddressWritten, Written
    <2> HIDE DEF fk, w
    <2>5. gdFaked(fk, w)
      BY SMTT(30), <1>1, <1>2, <2>2, <2>4 DEF gdFaked
    <2> QED BY <2>1, <2>2, <2>3, <2>4, <2>5, GD_LoadStep, Zenon
  <1>4. ASSUME NEW en \in SUBSET DRs, WriteDR7(c, en) PROVE GD_Inv'
    <2> DEFINE fk == [fake[c] EXCEPT !.on = {0}]
               w == DR7Written(guest[c], en, TRUE)
    <2>1. /\ c \in hooked /\ globalDebug /\ fake' = [fake EXCEPT ![c].on = {0}] /\ Load(c, fake'[c])
          /\ guest' = [guest EXCEPT ![c] = w]
          /\ UNCHANGED <<globalDebug, stoppingTheDebugger, breakpoint, hooked, frozen>>
      BY <1>4, Zenon DEF WriteDR7, Trapped
    <2>2. {0} \in SUBSET DRs
      BY GDAssumption DEF DRs
    <2>3. /\ fk \in Registers /\ fk.addr = fake[c].addr /\ fk.on = {0}
      BY <1>1, <2>2, Zenon DEF Registers
    <2>4. fake' = [fake EXCEPT ![c] = fk] /\ fake'[c] = fk
      BY <1>1, <2>1, Zenon
    <2>5. w.addr = guest[c].addr /\ w.wrote = guest[c].wrote /\ w \in Written
      BY <1>2, Zenon DEF DR7Written, Written
    <2> HIDE DEF fk, w
    <2>6. gdFaked(fk, w)
      BY <1>1, <2>3, <2>5, Zenon DEF gdFaked
    <2> QED BY <2>1, <2>3, <2>4, <2>5, <2>6, GD_LoadStep, Zenon
  <1>5. ASSUME TouchDebugRegister(c) \/ BreakInOtherProcess(c) PROVE GD_Inv'
    <2>1. /\ c \in hooked /\ globalDebug /\ Load(c, fake[c])
          /\ UNCHANGED <<globalDebug, stoppingTheDebugger, breakpoint, hooked, fake, frozen, guest>>
      BY <1>5, Zenon DEF TouchDebugRegister, BreakInOtherProcess, Trapped
    <2>2. /\ fake[c] \in Registers /\ fake' = [fake EXCEPT ![c] = fake[c]]
          /\ guest[c] \in Written /\ guest' = [guest EXCEPT ![c] = guest[c]]
      BY <1>1, <2>1, Zenon
    <2> QED BY <1>1, <2>1, <2>2, GD_LoadStep, Zenon
  <1>6. ASSUME ResumeInProcess(c) PROVE GD_Inv'
    <2>1. /\ c \in hooked /\ globalDebug /\ frozen # NotFrozen
          /\ fake' = [fake EXCEPT ![c] = frozen.regs] /\ Load(c, fake'[c])
          /\ guest' = [guest EXCEPT ![c] = frozen.guest] /\ frozen' = NotFrozen
          /\ UNCHANGED <<globalDebug, stoppingTheDebugger, breakpoint, hooked>>
      BY <1>6, Zenon DEF ResumeInProcess
    <2>2. frozen.regs \in Registers /\ frozen.guest \in Written /\ gdFaked(frozen.regs, frozen.guest)
      BY <2>1, Zenon DEF GD_Inv, GD_Fakes
    <2>3. fake'[c] = frozen.regs
      BY <1>1, <2>1, Zenon
    <2> QED BY <2>1, <2>2, <2>3, GD_LoadStep, Zenon
  <1> QED BY <1>3, <1>4, <1>5, <1>6, Zenon

\* A write that reaches the processor: it is no longer answered for by the faked copy
LEMMA GD_Untrapped ==
    ASSUME GD_Inv, NEW c \in Cpus,
           \/ \E d \in DRs, a \in Addresses : WriteUntrapped(c, d, a)
           \/ \E en \in SUBSET DRs : WriteDR7Untrapped(c, en)
    PROVE  GD_Inv'
  <1>1. GD_Types /\ GD_Traps /\ GD_Fakes /\ GD_Loads
    BY Zenon DEF GD_Inv
  <1>2. /\ real[c].addr \in [DRs -> Addresses \cup {Zero}] /\ real[c].on \in SUBSET DRs
        /\ real[c].gd \in BOOLEAN
        /\ real[c] = [addr |-> real[c].addr, on |-> real[c].on, gd |-> real[c].gd]
        /\ real \in [Cpus -> [addr : [DRs -> Addresses \cup {Zero}], on : SUBSET DRs, gd : BOOLEAN]]
    BY <1>1, Zenon DEF GD_Types
  <1>3. /\ guest[c].addr \in [DRs -> Addresses \cup {Zero}] /\ guest[c].on \in SUBSET DRs
        /\ guest[c].wrote \in SUBSET DRs /\ guest[c].dr7 \in BOOLEAN
        /\ guest[c] = [addr |-> guest[c].addr, on |-> guest[c].on, wrote |-> guest[c].wrote,
                       dr7 |-> guest[c].dr7]
        /\ guest \in [Cpus -> Written]
    BY <1>1, Zenon DEF GD_Types, Written
  <1>4. ASSUME NEW x \in [addr : [DRs -> Addresses \cup {Zero}], on : SUBSET DRs, gd : BOOLEAN],
               NEW w \in Written, gdFaked(fake[c], w), ~(globalDebug /\ c \in hooked),
               real' = [real EXCEPT ![c] = x], guest' = [guest EXCEPT ![c] = w],
               UNCHANGED <<globalDebug, stoppingTheDebugger, breakpoint, hooked, fake, frozen, loaded>>
        PROVE  GD_Inv'
    <2>1. /\ guest'[c] = w /\ \A e \in Cpus : e # c => real'[e] = real[e] /\ guest'[e] = guest[e]
      BY <1>2, <1>3, <1>4, Zenon
    <2>2. GD_Types'
      BY <1>1, <1>4, Zenon DEF GD_Types
    <2>3. GD_Traps'
      BY <1>1, <1>4, <2>1, Zenon DEF GD_Types, GD_Traps
    <2>4. GD_Fakes'
      BY <1>1, <1>4, <2>1, Zenon DEF GD_Fakes
    <2>5. GD_Loads'
      BY <1>1, <1>4, <2>1, Zenon DEF GD_Types, GD_Loads
    <2> QED BY <2>2, <2>3, <2>4, <2>5, Zenon DEF GD_Inv
  <1>5. ASSUME NEW d \in DRs, NEW a \in Addresses, WriteUntrapped(c, d, a) PROVE GD_Inv'
    <2> DEFINE x == [real[c] EXCEPT !.addr[d] = a]
               w == AddressWritten(guest[c], d, a, FALSE)
    <2>1. /\ real' = [real EXCEPT ![c].addr[d] = a] /\ ~(globalDebug /\ c \in hooked)
          /\ guest' = [guest EXCEPT ![c] = w]
          /\ UNCHANGED <<globalDebug, stoppingTheDebugger, breakpoint, hooked, fake, frozen, loaded>>
      BY <1>1, <1>5, Zenon DEF WriteUntrapped, Trapped, GD_Traps
    <2>2. /\ x \in [addr : [DRs -> Addresses \cup {Zero}], on : SUBSET DRs, gd : BOOLEAN]
          /\ real' = [real EXCEPT ![c] = x]
      BY <1>2, <2>1, Zenon
    <2>3. /\ w.addr = [guest[c].addr EXCEPT ![d] = a] /\ w.wrote = guest[c].wrote \ {d}
          /\ w.dr7 = guest[c].dr7 /\ w \in Written
      BY <1>3, Zenon DEF AddressWritten, Written
    <2> HIDE DEF x, w
    <2>4. gdFaked(fake[c], w)
      BY <1>1, <1>3, <2>3, Zenon DEF gdFaked, GD_Fakes
    <2> QED BY <1>4, <2>1, <2>2, <2>3, <2>4, Zenon
  <1>6. ASSUME NEW en \in SUBSET DRs, WriteDR7Untrapped(c, en) PROVE GD_Inv'
    <2> DEFINE x == [real[c] EXCEPT !.on = en]
               w == DR7Written(guest[c], en, FALSE)
    <2>1. /\ real' = [real EXCEPT ![c].on = en] /\ ~(globalDebug /\ c \in hooked)
          /\ guest' = [guest EXCEPT ![c] = w]
          /\ UNCHANGED <<globalDebug, stoppingTheDebugger, breakpoint, hooked, fake, frozen, loaded>>
      BY <1>1, <1>6, Zenon DEF WriteDR7Untrapped, Trapped, GD_Traps
    <2>2. /\ x \in [addr : [DRs -> Addresses \cup {Zero}], on : SUBSET DRs, gd : BOOLEAN]
          /\ real' = [real EXCEPT ![c] = x]
      BY <1>2, <2>1, Zenon
    <2>3. w.addr = guest[c].addr /\ w.wrote = guest[c].wrote /\ w.dr7 = FALSE /\ w \in Written
      BY <1>3, Zenon DEF DR7Written, Written
    <2> HIDE DEF x, w
    <2>4. gdFaked(fake[c], w)
      BY <1>1, <2>3, Zenon DEF gdFaked, GD_Fakes
    <2> QED BY <1>4, <2>1, <2>2, <2>3, <2>4, Zenon
  <1> QED BY <1>5, <1>6, Zenon

\* A breakpoint that stops a thread, a new hook
LEMMA GD_Others ==
    ASSUME GD_Inv, NEW c \in Cpus, BreakInProcess(c) \/ HookInterrupt1(c)
    PROVE  GD_Inv'
  <1>1. GD_Types /\ GD_Traps /\ GD_Fakes /\ GD_Loads
    BY Zenon DEF GD_Inv
  <1>2. /\ real[c].addr \in [DRs -> Addresses \cup {Zero}] /\ real[c].on \in SUBSET DRs
        /\ real[c].gd \in BOOLEAN
        /\ real[c] = [addr |-> real[c].addr, on |-> real[c].on, gd |-> real[c].gd]
    BY <1>1, Zenon DEF GD_Types
  <1>4. ASSUME BreakInProcess(c) PROVE GD_Inv'
    <2>1. /\ globalDebug /\ c \in hooked
          /\ frozen' = [cpu |-> c, regs |-> fake[c], guest |-> guest[c]]
          /\ real' = [real EXCEPT ![c].gd = @ \/ ~stoppingTheDebugger]
          /\ UNCHANGED <<globalDebug, stoppingTheDebugger, breakpoint, hooked, fake, guest, loaded>>
      BY <1>4, Zenon DEF BreakInProcess
    <2>2. real[c].gd = TRUE
      BY <1>1, <1>2, <2>1, Zenon DEF GD_Traps
    <2>3. real' = [real EXCEPT ![c] = [real[c] EXCEPT !.gd = TRUE]]
      BY <2>1, <2>2, Zenon
    <2>4. [real[c] EXCEPT !.gd = TRUE] = real[c]
      BY <1>2, <2>2, Zenon
    <2>5. real' = real
      BY <1>1, <2>3, <2>4, Zenon DEF GD_Types
    <2>6. GD_Types' /\ GD_Traps' /\ GD_Loads'
      BY <1>1, <2>1, <2>5, Zenon DEF GD_Types, GD_Traps, GD_Loads
    <2>7. GD_Fakes'
      BY <1>1, <2>1, Zenon DEF GD_Types, GD_Fakes
    <2> QED BY <2>6, <2>7, Zenon DEF GD_Inv
  <1>5. ASSUME HookInterrupt1(c) PROVE GD_Inv'
    <2>1. /\ c \notin hooked /\ hooked' = hooked \cup {c}
          /\ real' = [real EXCEPT ![c].gd = @ \/ globalDebug]
          /\ loaded' = [loaded EXCEPT ![c] = Unloaded]
          /\ UNCHANGED <<globalDebug, stoppingTheDebugger, breakpoint, fake, frozen, guest>>
      BY <1>5, Zenon DEF HookInterrupt1
    <2>2. /\ real'[c] = [addr |-> real[c].addr, on |-> real[c].on, gd |-> real[c].gd \/ globalDebug]
          /\ real' = [real EXCEPT ![c] = real'[c]]
      BY <1>1, <1>2, <2>1, Zenon DEF GD_Types
    <2>3. globalDebug => real'[c].gd
      <3>1. real'[c].gd = (real[c].gd \/ globalDebug)
        BY <2>2, SMTT(30)
      <3> QED BY <3>1, Zenon
    <2>4. real'[c] \in [addr : [DRs -> Addresses \cup {Zero}], on : SUBSET DRs, gd : BOOLEAN]
      <3>1. /\ real[c] \in [addr : [DRs -> Addresses \cup {Zero}], on : SUBSET DRs, gd : BOOLEAN]
            /\ globalDebug \in BOOLEAN
        BY <1>1, <1>2, Zenon DEF GD_Types
      <3>2. /\ real[c].addr \in [DRs -> Addresses \cup {Zero}] /\ real[c].on \in SUBSET DRs
            /\ (real[c].gd \/ globalDebug) \in BOOLEAN
        BY <3>1
      <3> QED BY <2>2, <3>2
    <2>5. /\ loaded'[c] = Unloaded
          /\ \A e \in Cpus : e # c => real'[e] = real[e] /\ loaded'[e] = loaded[e]
      BY <1>1, <2>1, <2>2, Zenon DEF GD_Types
    <2>6. GD_Types'
      BY <1>1, <2>1, <2>2, <2>4, <2>5, Zenon DEF GD_Types
    <2>7. GD_Traps'
      BY <1>1, <2>1, <2>3, <2>5, Zenon DEF GD_Types, GD_Traps
    <2>8. GD_Fakes'
      BY <1>1, <2>1, Zenon DEF GD_Fakes
    <2>9. GD_Loads'
      BY <1>1, <2>1, <2>5, Zenon DEF GD_Types, GD_Loads
    <2> QED BY <2>6, <2>7, <2>8, <2>9, Zenon DEF GD_Inv
  <1> QED BY <1>4, <1>5, Zenon

\* Every step of the handler and of the device controls keeps the invariant
LEMMA GD_Step == GD_Inv /\ [GD_Next]_gdVars => GD_Inv'
  <1> SUFFICES ASSUME GD_Inv, [GD_Next]_gdVars PROVE GD_Inv'
    BY Zenon
  <1>1. GD_Types /\ GD_Traps /\ GD_Fakes /\ GD_Loads
    BY Zenon DEF GD_Inv
  <1>2. ASSUME NEW s \in Slots, NEW a \in Addresses \cup {Zero}, SetGDBreakpoint(s, a) PROVE GD_Inv'
    BY <1>1, <1>2, Zenon DEF SetGDBreakpoint, GD_Inv, GD_Types, GD_Traps, GD_Fakes, GD_Loads
  <1>3. ASSUME SetGlobalDebugState PROVE GD_Inv'
    BY <1>1, <1>3, Zenon DEF SetGlobalDebugState, GD_Inv, GD_Types, GD_Traps, GD_Fakes,
       GD_Loads
  <1>4. ASSUME StopDebuggingGlobally PROVE GD_Inv'
    <2>1. /\ stoppingTheDebugger' = TRUE /\ globalDebug' = FALSE /\ breakpoint' = NoBreakpoints
          /\ hooked' = {} /\ UNCHANGED <<fake, frozen, guest, loaded>>
          /\ real' = [c \in Cpus |-> IF Trapped(c) THEN Epilogue(fake[c], breakpoint, FALSE) ELSE real[c]]
      BY <1>4, Zenon DEF StopDebuggingGlobally
    <2>2. ASSUME NEW c \in Cpus
          PROVE  Epilogue(fake[c], breakpoint, FALSE) \in
                    [addr : [DRs -> Addresses \cup {Zero}], on : SUBSET DRs, gd : BOOLEAN]
      <3>1. fake[c] \in Registers /\ breakpoint \in [Slots -> Addresses \cup {Zero}]
        BY <1>1, Zenon DEF GD_Types
      <3> QED BY <3>1, GD_Epilogue, Zenon
    <2>3. GD_Types'
      BY <1>1, <2>1, <2>2, Zenon DEF GD_Types, NoBreakpoints
    <2>4. GD_Traps' /\ GD_Fakes' /\ GD_Loads'
      BY <1>1, <2>1, Zenon DEF GD_Traps, GD_Fakes, GD_Loads
    <2> QED BY <2>3, <2>4, Zenon DEF GD_Inv
  <1>5. CASE UNCHANGED gdVars
    BY <1>1, <1>5, Zenon DEF gdVars, GD_Inv, GD_Types, GD_Traps, GD_Fakes, GD_Loads
  <1> QED BY <1>2, <1>3, <1>4, <1>5, GD_Handled, GD_Untrapped, GD_Others, Zenon DEF GD_Next

\* The invariant holds in every state
LEMMA GD_Always == GD_Spec => []GD_Inv
  BY GD_InitInv, GD_Step, PTL DEF GD_Spec

\* The real, faked and kept registers of interrupt1_centry keep their types, for any
\* number of processors, registers and breakpoints
THEOREM GD_TypeCorrect == GD_Spec => []GD_TypeOK
  <1>1. GD_Inv => GD_TypeOK
    BY Zenon DEF GD_Inv, GD_Types, GD_Fakes, GD_TypeOK, Registers
  <1> QED BY <1>1, GD_Always, PTL

\* For any number of processors, registers and breakpoints the process reads back the
\* addresses it wrote since it traps and keeps its breakpoint in DR0, the epilogue of
\* interrupt1_centry arms the breakpoints of the debugger in the registers the faked DR7
\* leaves free, all of them if they fit, and no access goes unseen
THEOREM GD_RegistersAreShared == GD_Spec => []RegistersAreShared
  <1>1. ASSUME GD_Inv PROVE RegistersAreShared
    <2>1. GD_Types /\ GD_Traps /\ GD_Fakes /\ GD_Loads
      BY <1>1, Zenon DEF GD_Inv
    <2>2. GuestSeesItsWrites /\ AlwaysTrapped
      BY <2>1, Zenon DEF GD_Traps, GD_Fakes, gdFaked, GuestSeesItsWrites, AlwaysTrapped
    <2>3. ASSUME NEW c \in hooked, Trapped(c), loaded[c] # Unloaded
          PROVE  /\ \A d \in fake[c].on : d \in real[c].on /\ real[c].addr[d] = fake[c].addr[d]
                 /\ gdArmed(real[c], fake[c]) \subseteq gdWanted(loaded[c])
                 /\ Cardinality(Active(loaded[c])) <= Cardinality(DRs \ fake[c].on) =>
                       gdWanted(loaded[c]) = gdArmed(real[c], fake[c])
      <3>1. PICK gd \in BOOLEAN : real[c] = Epilogue(fake[c], loaded[c], gd)
        BY <2>1, <2>3, Zenon DEF GD_Loads, Trapped
      <3>2. fake[c] \in Registers /\ loaded[c] \in [Slots -> Addresses \cup {Zero}]
        BY <2>1, <2>3, Zenon DEF GD_Types
      <3> PICK r : r = real[c]
        BY Zenon
      <3>3. PICK fk \in Registers, bps \in [Slots -> Addresses \cup {Zero}] :
               fk = fake[c] /\ bps = loaded[c] /\ r = Epilogue(fk, bps, gd)
        BY <3>1, <3>2, Zenon
      <3>4. /\ \A d \in fk.on : d \in r.on /\ r.addr[d] = fk.addr[d]
            /\ gdArmed(r, fk) \subseteq gdWanted(bps)
            /\ Cardinality(Active(bps)) <= Cardinality(DRs \ fk.on) =>
                 gdWanted(bps) = gdArmed(r, fk)
        <4>1. r = Epilogue(fk, bps, gd)
          BY <3>3, Zenon
        <4>2. \A d \in fk.on : d \in r.on /\ r.addr[d] = fk.addr[d]
          BY <4>1, GD_Epilogue, ZenonT(40)
        <4>3. gdArmed(r, fk) \subseteq gdWanted(bps)
          BY <4>1, GD_Epilogue, Zenon
        <4>4. Cardinality(Active(bps)) <= Cardinality(DRs \ fk.on) => gdWanted(bps) = gdArmed(r, fk)
          BY <4>1, GD_Epilogue, Zenon
        <4> QED BY <4>2, <4>3, <4>4, Zenon
      <3> QED BY <3>3, <3>4, Zenon
    <2>4. GuestBreakpointKept
      <3> SUFFICES ASSUME NEW c \in hooked, Trapped(c), loaded[c] # Unloaded, guest[c].dr7,
                          0 \in guest[c].on \cap guest[c].wrote
                   PROVE  0 \in real[c].on /\ real[c].addr[0] = guest[c].addr[0]
        BY <2>3, Zenon DEF GuestBreakpointKept
      <3>1. gdFaked(fake[c], guest[c])
        BY <2>1, Zenon DEF GD_Types, GD_Fakes
      <3>2. 0 \in fake[c].on /\ fake[c].addr[0] = guest[c].addr[0]
        BY <3>1, Zenon DEF gdFaked
      <3> QED BY <2>3, <3>2, Zenon
    <2>5. breakpoint # Unloaded
      <3>1. DOMAIN breakpoint = Slots /\ 0 \in Slots /\ DOMAIN Unloaded = {}
        <4>1. DOMAIN breakpoint = Slots
          BY <2>1, Zenon DEF GD_Types
        <4>2. 0 \in Slots
          BY GDAssumption DEF Slots
        <4>3. DOMAIN Unloaded = {}
          BY DEF Unloaded
        <4> QED BY <4>1, <4>2, <4>3, Zenon
      <3> QED BY <3>1, Zenon
    <2>6. BreakpointsArmed
      <3> SUFFICES ASSUME NEW c \in hooked, Trapped(c), loaded[c] = breakpoint
                   PROVE  /\ gdArmed(real[c], fake[c]) \subseteq gdWanted(breakpoint)
                          /\ Cardinality(Active(breakpoint)) <= Cardinality(DRs \ fake[c].on) =>
                               gdWanted(breakpoint) = gdArmed(real[c], fake[c])
        BY Zenon DEF BreakpointsArmed, gdArmed, gdWanted
      <3>1. loaded[c] # Unloaded
        BY <2>5, Zenon
      <3> QED BY <2>3, <3>1, Zenon
    <2> QED BY <2>2, <2>4, <2>6, Zenon DEF RegistersAreShared
  <1> QED BY <1>1, GD_Always, PTL
=============================================================================
