------------------------------ MODULE Ultimap2 ------------------------------
(***************************************************************************)
(* The trace recorder of the kernel driver (DBKKernel/ultimap2.c).  Each   *)
(* processor traces the target into one of two buffers.  A full buffer     *)
(* raises PMI, which wakes a thread that suspends the target and a thread  *)
(* (bufferWriterThread) that queues, per processor, the DPC that swaps the *)
(* buffers; the processor's writer thread then appends the swapped-out     *)
(* buffer to a file, or lends it to a worker thread of Cheat Engine.       *)
(* Flush, pause, resume and disable are requests of Cheat Engine's GUI     *)
(* thread, one at a time (frmUltimap2Unit.pas).                            *)
(*                                                                         *)
(* A chunk of trace is its number in the order in which the processor      *)
(* produced it; a buffer has UM_Capacity chunks and "two pages" are        *)
(* UM_Enough of them.                                                      *)
(***************************************************************************)
EXTENDS Naturals, Sequences

CONSTANTS
    UM_NumCpus,    \* Ultimap2CpuCount
    UM_Capacity,   \* chunks that fill a ToPA buffer
    UM_Enough,     \* chunks below which a buffer that is not full is left alone
    UM_MaxWork     \* bound: chunks a processor produces, a request counting as two

ASSUME UMAssumption ==
    /\ UM_NumCpus \in Nat \ {0}
    /\ UM_Capacity \in Nat \ {0}
    /\ UM_Enough \in 1 .. UM_Capacity
    /\ UM_MaxWork \in Nat

UM_Cpus == 1 .. UM_NumCpus

VARIABLES
    saveToFile,       \* SaveToFile, chosen by SetupUltimap2
    ultimapActive,    \* UltimapActive
    isSuspended,      \* isSuspended: PsSuspendProcess without PsResumeProcess
    flushAllBuffers,  \* flushallbuffers
    flushData,        \* event FlushData
    suspendEvent,     \* event SuspendEvent
    pInfo,            \* PInfo and the trace registers, per processor
    writer,           \* WriteThreadForSpecificCPU and its Cheat Engine worker
    suspender,        \* where suspendThread is
    swapper,          \* bufferWriterThread and the GUI thread: place and loop
    traced,           \* chunks produced, per processor
    traceOut,         \* chunks written or processed, in order, per processor
    umCalls           \* requests made so far

umVars == <<saveToFile, ultimapActive, isSuspended, flushAllBuffers, flushData,
            suspendEvent, pInfo, writer, suspender, swapper, traced, traceOut,
            umCalls>>

mode == <<saveToFile, ultimapActive>>
wakeups == <<flushData, suspendEvent>>
trail == <<traced, traceOut, umCalls>>

-----------------------------------------------------------------------------
\* The swapped-out buffer, ToPABuffer2
Buffer2(c) == 3 - pInfo[c].active

\* The first n chunks of buffer b
Chunks(c, b, n) == SubSeq(pInfo[c].mem[b], 1, n)

\* Bounds: what processor c has produced and the requests made
Work(c) == traced[c] + 2 * umCalls
MayCall == \A c \in UM_Cpus : Work(c) + 2 <= UM_MaxWork

\* Mutant: the end of the buffer is not looked at.
UM_Trace_beyond(c) ==
    /\ pInfo[c].traceEn /\ ~isSuspended
    /\ Work(c) < UM_MaxWork
    /\ traced' = [traced EXCEPT ![c] = @ + 1]
    /\ pInfo' = [pInfo EXCEPT ![c].offset = @ + 1]
    /\ UNCHANGED <<mode, isSuspended, flushAllBuffers, wakeups, writer,
                   suspender, swapper, traceOut, umCalls>>

\* The processor records a chunk of the running target
UM_Trace(c) ==
    /\ pInfo[c].traceEn /\ ~isSuspended
    /\ pInfo[c].offset < UM_Capacity
    /\ Work(c) < UM_MaxWork
    /\ traced' = [traced EXCEPT ![c] = @ + 1]
    /\ pInfo' = [pInfo EXCEPT
          ![c].mem[pInfo[c].active][pInfo[c].offset + 1] = traced[c] + 1,
          ![c].offset = @ + 1,
          ![c].full = @ \/ pInfo[c].offset + 1 = UM_Capacity]
    /\ UNCHANGED <<mode, isSuspended, flushAllBuffers, wakeups, writer,
                   suspender, swapper, traceOut, umCalls>>

\* The buffer is full: PMI and the DPC it queues
PMI(c) ==
    /\ pInfo[c].full /\ ultimapActive
    /\ pInfo' = [pInfo EXCEPT ![c].full = FALSE, ![c].interrupted = TRUE]
    /\ suspendEvent' = TRUE
    /\ flushData' = TRUE
    /\ UNCHANGED <<mode, isSuspended, flushAllBuffers, writer, suspender,
                   swapper, trail>>

SuspendThread ==
    /\ suspender = "waiting" /\ suspendEvent
    /\ suspendEvent' = FALSE
    /\ IF ultimapActive
       THEN isSuspended' = TRUE /\ UNCHANGED suspender
       ELSE suspender' = "ended" /\ UNCHANGED isSuspended
    /\ UNCHANGED <<mode, flushAllBuffers, flushData, pInfo, writer, swapper,
                   trail>>

-----------------------------------------------------------------------------
\* The DPC keeps the buffer when it is neither full nor asked for nor big
LeftAlone(c) ==
    /\ ~pInfo[c].interrupted
    /\ ~flushAllBuffers
    /\ pInfo[c].offset < UM_Enough

\* DPC: swap the buffers, hand the old one to the writer, go on tracing
SwitchToPABuffer(c) ==
    /\ pInfo[c].dpcQueued
    /\ pInfo' = [pInfo EXCEPT ![c] =
          IF LeftAlone(c)
          THEN [@ EXCEPT !.dpcQueued = FALSE]
          ELSE [@ EXCEPT !.dpcQueued = FALSE,
                         !.readyForSwap = FALSE,
                         !.active = Buffer2(c),
                         !.saveSize = pInfo[c].offset,
                         !.initiateSave = TRUE,
                         !.interrupted = FALSE,
                         !.offset = 0]]
    /\ UNCHANGED <<mode, isSuspended, flushAllBuffers, wakeups, writer,
                   suspender, swapper, trail>>

\* The two threads that call WaitForWriteToFinishAndSwapWriteBuffers
Swappers == {"writer", "gui"}

\* Thread x enters that procedure; it returns to the place "next"
Enter(next, only) == [at |-> "swap", cpu |-> 1, only |-> only, next |-> next]
At(place) == [at |-> place, cpu |-> 1, only |-> FALSE, next |-> place]

\* Mutant: the DPC is queued without waiting for buffer 2.
QueueSwap_early(x) ==
    LET c == swapper[x].cpu
        wanted == ~swapper[x].only \/ pInfo[c].interrupted
    IN  /\ swapper[x].at = "swap" /\ c \in UM_Cpus
        /\ swapper' = [swapper EXCEPT ![x].cpu = @ + 1]
        /\ pInfo' = [pInfo EXCEPT ![c].dpcQueued = @ \/ wanted]
        /\ UNCHANGED <<mode, isSuspended, flushAllBuffers, wakeups, writer,
                       suspender, trail>>

\* One turn of its loop: wait for buffer 2 and queue the DPC
QueueSwap(x) ==
    LET c == swapper[x].cpu
        wanted == ~swapper[x].only \/ pInfo[c].interrupted
    IN  /\ swapper[x].at = "swap" /\ c \in UM_Cpus
        /\ wanted => pInfo[c].readyForSwap
        /\ IF wanted /\ ~ultimapActive
           THEN /\ swapper' = [swapper EXCEPT ![x] = At(swapper[x].next)]
                /\ UNCHANGED pInfo
           ELSE /\ swapper' = [swapper EXCEPT ![x].cpu = @ + 1]
                /\ pInfo' = [pInfo EXCEPT ![c].dpcQueued = @ \/ wanted]
        /\ UNCHANGED <<mode, isSuspended, flushAllBuffers, wakeups, writer,
                       suspender, trail>>

\* After the loop: KeFlushQueuedDpcs
FlushQueuedDpcs(x) ==
    /\ swapper[x].at = "swap" /\ swapper[x].cpu \notin UM_Cpus
    /\ \A c \in UM_Cpus : ~pInfo[c].dpcQueued
    /\ swapper' = [swapper EXCEPT ![x] = At(swapper[x].next)]
    /\ UNCHANGED <<mode, isSuspended, flushAllBuffers, wakeups, pInfo, writer,
                   suspender, trail>>

-----------------------------------------------------------------------------
\* bufferWriterThread wakes: by PMI (and then suspends the target), or after 1ms
WakeWriter ==
    /\ swapper["writer"].at = "waiting"
    /\ flushData' = FALSE
    /\ IF ~ultimapActive
       THEN /\ swapper' = [swapper EXCEPT !["writer"] = At("ended")]
            /\ UNCHANGED isSuspended
       ELSE /\ swapper' = [swapper EXCEPT !["writer"] =
                  IF flushData THEN Enter("check", TRUE) ELSE Enter("resume", FALSE)]
            /\ isSuspended' = (isSuspended \/ flushData)
    /\ UNCHANGED <<mode, flushAllBuffers, suspendEvent, pInfo, writer,
                   suspender, trail>>

\* Full buffers go first, until none is left; then all of them
CheckInterrupted ==
    /\ swapper["writer"].at = "check"
    /\ swapper' = [swapper EXCEPT !["writer"] =
          CASE ~ultimapActive -> At("ended")
            [] \E c \in UM_Cpus : pInfo[c].interrupted -> Enter("check", TRUE)
            [] OTHER -> Enter("resume", FALSE)]
    /\ UNCHANGED <<mode, isSuspended, flushAllBuffers, wakeups, pInfo, writer,
                   suspender, trail>>

ResumeTarget ==
    /\ swapper["writer"].at = "resume"
    /\ isSuspended' = FALSE
    /\ swapper' = [swapper EXCEPT !["writer"] =
                      At(IF ultimapActive THEN "waiting" ELSE "ended")]
    /\ UNCHANGED <<mode, flushAllBuffers, wakeups, pInfo, writer, suspender,
                   trail>>

-----------------------------------------------------------------------------
\* The writer thread is done with buffer 2; it ends once recording was disabled
DoneWith(c) ==
    /\ writer' = [writer EXCEPT
          ![c].at = IF ultimapActive THEN "waiting" ELSE "ended"]

\* InitiateSave: the size, and a worker of Cheat Engine is woken or the file is due
InitiateSave(c) ==
    LET size == pInfo[c].saveSize
        empty == size = 0 \/ ~ultimapActive
    IN  /\ writer[c].at = "waiting" /\ pInfo[c].initiateSave
        /\ pInfo' = [pInfo EXCEPT
              ![c].initiateSave = FALSE,
              ![c].readyForSwap = @ \/ empty,
              ![c].dataReady = @ \/ (~empty /\ ~saveToFile)]
        /\ IF empty
           THEN DoneWith(c)
           ELSE writer' = [writer EXCEPT
                   ![c].at = IF saveToFile THEN "file" ELSE "data",
                   ![c].size = size]
        /\ UNCHANGED <<mode, isSuspended, flushAllBuffers, wakeups, suspender,
                       swapper, trail>>

\* Under FileAccess: append to the file, created anew if it was taken away
WriteFile(c) ==
    /\ writer[c].at = "file" /\ pInfo[c].fileAccess
    /\ traceOut' = [traceOut EXCEPT ![c] = @ \o Chunks(c, Buffer2(c), writer[c].size)]
    /\ pInfo' = [pInfo EXCEPT ![c].fileExists = TRUE, ![c].readyForSwap = TRUE]
    /\ DoneWith(c)
    /\ UNCHANGED <<mode, isSuspended, flushAllBuffers, wakeups, suspender,
                   swapper, traced, umCalls>>

\* The worker has processed buffer 2
DataProcessed(c) ==
    /\ writer[c].at = "data" /\ pInfo[c].dataProcessed
    /\ pInfo' = [pInfo EXCEPT ![c].dataProcessed = FALSE, ![c].readyForSwap = TRUE]
    /\ DoneWith(c)
    /\ UNCHANGED <<mode, isSuspended, flushAllBuffers, wakeups, suspender,
                   swapper, trail>>

-----------------------------------------------------------------------------
\* ultimap2_waitForData: map buffer 2 into Cheat Engine, or fail to
WaitForData(c) ==
    /\ ~saveToFile /\ writer[c].worker = "idle" /\ pInfo[c].dataReady
    /\ ~writer[c].freed
    /\ pInfo' = [pInfo EXCEPT ![c].dataReady = FALSE]
    /\ \E mapped \in BOOLEAN :
          writer' = IF mapped /\ writer[c].size > 0
                    THEN [writer EXCEPT ![c].worker = "busy", ![c].mapped = Buffer2(c)]
                    ELSE writer
    /\ UNCHANGED <<mode, isSuspended, flushAllBuffers, wakeups, suspender,
                   swapper, trail>>

\* The worker is through with the mapped buffer: ultimap2_continue
Ultimap2Continue(c) ==
    /\ writer[c].worker = "busy" /\ ~writer[c].freed
    /\ traceOut' = [traceOut EXCEPT
          ![c] = @ \o Chunks(c, writer[c].mapped, writer[c].size)]
    /\ writer' = [writer EXCEPT ![c].worker = "idle"]
    /\ pInfo' = [pInfo EXCEPT ![c].dataProcessed = TRUE]
    /\ UNCHANGED <<mode, isSuspended, flushAllBuffers, wakeups, suspender,
                   swapper, traced, umCalls>>

\* A worker told to process its file locks it ...
LockFile(c) ==
    /\ writer[c].worker = "told" /\ pInfo[c].fileAccess /\ ~writer[c].freed
    /\ pInfo' = [pInfo EXCEPT ![c].fileAccess = FALSE]
    /\ writer' = [writer EXCEPT ![c].worker = "locked"]
    /\ UNCHANGED <<mode, isSuspended, flushAllBuffers, wakeups, suspender,
                   swapper, trail>>

\* ... and, if there is one, renames it and releases the lock
ReleaseFile(c) ==
    /\ writer[c].worker = "locked"
    /\ writer' = [writer EXCEPT ![c].worker = "idle"]
    /\ pInfo' = [pInfo EXCEPT ![c].fileAccess = pInfo[c].fileExists,
                              ![c].fileExists = FALSE]
    /\ UNCHANGED <<mode, isSuspended, flushAllBuffers, wakeups, suspender,
                   swapper, trail>>

-----------------------------------------------------------------------------
\* The GUI thread calls ultimap2_flushBuffers: suspend, then swap twice
FlushBuffers ==
    /\ swapper["gui"].at = "idle" /\ ultimapActive /\ MayCall
    /\ umCalls' = umCalls + 1
    /\ isSuspended' = TRUE
    /\ flushAllBuffers' = TRUE
    /\ swapper' = [swapper EXCEPT !["gui"] = Enter("flushAgain", FALSE)]
    /\ UNCHANGED <<mode, wakeups, pInfo, writer, suspender, traced, traceOut>>

\* ultimap2_pause: stop tracing on every processor, then swap twice
Pause ==
    /\ swapper["gui"].at = "idle" /\ ultimapActive /\ MayCall
    /\ umCalls' = umCalls + 1
    /\ pInfo' = [c \in UM_Cpus |-> [pInfo[c] EXCEPT !.traceEn = FALSE]]
    /\ flushAllBuffers' = TRUE
    /\ swapper' = [swapper EXCEPT !["gui"] = Enter("pauseAgain", FALSE)]
    /\ UNCHANGED <<mode, isSuspended, wakeups, writer, suspender, traced,
                   traceOut>>

SwapAgain ==
    /\ swapper["gui"].at \in {"flushAgain", "pauseAgain"}
    /\ swapper' = [swapper EXCEPT !["gui"] =
          Enter(IF @.at = "flushAgain" THEN "flushed" ELSE "paused", FALSE)]
    /\ UNCHANGED <<mode, isSuspended, flushAllBuffers, wakeups, pInfo, writer,
                   suspender, trail>>

\* The flush resumes the target and the GUI sends the workers to their files
FlushReturns ==
    /\ swapper["gui"].at = "flushed"
    /\ flushAllBuffers' = FALSE
    /\ isSuspended' = FALSE
    /\ writer' = [c \in UM_Cpus |->
          IF saveToFile /\ writer[c].worker = "idle"
          THEN [writer[c] EXCEPT !.worker = "told"] ELSE writer[c]]
    /\ swapper' = [swapper EXCEPT !["gui"] = At("idle")]
    /\ UNCHANGED <<mode, wakeups, pInfo, suspender, trail>>

PauseReturns ==
    /\ swapper["gui"].at = "paused"
    /\ flushAllBuffers' = FALSE
    /\ swapper' = [swapper EXCEPT !["gui"] = At("idle")]
    /\ UNCHANGED <<mode, isSuspended, wakeups, pInfo, writer, suspender,
                   trail>>

\* ultimap2_resume: every processor traces from the start of its buffer
Resume ==
    /\ swapper["gui"].at = "idle" /\ ultimapActive /\ MayCall
    /\ \E c \in UM_Cpus : ~pInfo[c].traceEn
    /\ umCalls' = umCalls + 1
    /\ pInfo' = [c \in UM_Cpus |-> [pInfo[c] EXCEPT !.traceEn = TRUE, !.offset = 0]]
    /\ UNCHANGED <<mode, isSuspended, flushAllBuffers, wakeups, writer,
                   suspender, swapper, traced, traceOut>>
-----------------------------------------------------------------------------

\* DisableUltimap2: tracing stops, the threads are told, each is waited for
Disable ==
    /\ swapper["gui"].at = "idle" /\ ultimapActive
    /\ ultimapActive' = FALSE
    /\ pInfo' = [c \in UM_Cpus |-> [pInfo[c] EXCEPT !.traceEn = FALSE, !.offset = 0]]
    /\ suspendEvent' = TRUE
    /\ swapper' = [swapper EXCEPT !["gui"] = At("joinSuspender")]
    /\ UNCHANGED <<saveToFile, isSuspended, flushAllBuffers, flushData, writer,
                   suspender, trail>>

JoinSuspender ==
    /\ swapper["gui"].at = "joinSuspender" /\ suspender = "ended"
    /\ pInfo' = [c \in UM_Cpus |->
                    [pInfo[c] EXCEPT !.dataProcessed = TRUE, !.dataReady = TRUE]]
    /\ flushData' = TRUE
    /\ swapper' = [swapper EXCEPT !["gui"] = At("joinWriter")]
    /\ UNCHANGED <<mode, isSuspended, flushAllBuffers, suspendEvent, writer,
                   suspender, trail>>

\* Processor c's writer thread is let go
LetGo(c) ==
    pInfo' = IF c \in UM_Cpus
             THEN [pInfo EXCEPT ![c].readyForSwap = TRUE, ![c].initiateSave = TRUE]
             ELSE pInfo

JoinBufferWriter ==
    /\ swapper["gui"].at = "joinWriter" /\ swapper["writer"].at = "ended"
    /\ swapper' = [swapper EXCEPT !["gui"] = At("joinCpu")]
    /\ LetGo(1)
    /\ UNCHANGED <<mode, isSuspended, flushAllBuffers, wakeups, writer,
                   suspender, trail>>

\* The writer thread of the next processor has ended: free its PInfo
FreePInfo ==
    LET c == swapper["gui"].cpu IN
    /\ swapper["gui"].at = "joinCpu" /\ writer[c].at = "ended"
    /\ writer' = [writer EXCEPT ![c].freed = TRUE]
    /\ swapper' = [swapper EXCEPT !["gui"] =
          IF c < UM_NumCpus THEN [@ EXCEPT !.cpu = c + 1] ELSE At("off")]
    /\ LetGo(c + 1)
    /\ UNCHANGED <<mode, isSuspended, flushAllBuffers, wakeups, suspender,
                   trail>>

-----------------------------------------------------------------------------
\* SetupUltimap2
UM_Init ==
    /\ saveToFile \in BOOLEAN
    /\ ultimapActive = TRUE
    /\ isSuspended = FALSE
    /\ flushAllBuffers = FALSE
    /\ flushData = FALSE
    /\ suspendEvent = FALSE
    /\ pInfo = [c \in UM_Cpus |->
          [mem |-> [b \in 1 .. 2 |-> [i \in 1 .. UM_Capacity |-> 0]],
           active |-> 1, offset |-> 0, traceEn |-> TRUE, full |-> FALSE,
           interrupted |-> FALSE, dpcQueued |-> FALSE,
           saveSize |-> 0, readyForSwap |-> TRUE, initiateSave |-> FALSE,
           dataReady |-> FALSE, dataProcessed |-> FALSE, fileAccess |-> TRUE,
           fileExists |-> saveToFile]]
    /\ writer = [c \in UM_Cpus |->
          [at |-> "waiting", size |-> 0, worker |-> "idle", mapped |-> 1,
           freed |-> FALSE]]
    /\ suspender = "waiting"
    /\ swapper = [x \in Swappers |-> At(IF x = "writer" THEN "waiting" ELSE "idle")]
    /\ traced = [c \in UM_Cpus |-> 0]
    /\ traceOut = [c \in UM_Cpus |-> <<>>]
    /\ umCalls = 0

WriterStep(c) == InitiateSave(c) \/ WriteFile(c) \/ DataProcessed(c)
WorkerStep(c) ==
    WaitForData(c) \/ Ultimap2Continue(c) \/ LockFile(c) \/ ReleaseFile(c)
SwapStep(x) == QueueSwap(x) \/ FlushQueuedDpcs(x)
BufferWriterStep ==
    SwapStep("writer") \/ WakeWriter \/ CheckInterrupted \/ ResumeTarget
GuiStep ==
    \/ SwapStep("gui") \/ SwapAgain \/ FlushReturns \/ PauseReturns
    \/ JoinSuspender \/ JoinBufferWriter \/ FreePInfo
GuiRequest == FlushBuffers \/ Pause \/ Resume \/ Disable

UM_Next ==
    \/ \E c \in UM_Cpus :
          \/ UM_Trace(c) \/ PMI(c) \/ SwitchToPABuffer(c)
          \/ WriterStep(c) \/ WorkerStep(c)
    \/ SuspendThread \/ BufferWriterStep \/ GuiStep \/ GuiRequest

UM_Spec == UM_Init /\ [][UM_Next]_umVars

-----------------------------------------------------------------------------
\* The recorder's state has the types of its fields; offsets stay in a buffer
UM_TypeOK ==
    /\ saveToFile \in BOOLEAN /\ ultimapActive \in BOOLEAN
    /\ isSuspended \in BOOLEAN /\ flushAllBuffers \in BOOLEAN
    /\ flushData \in BOOLEAN /\ suspendEvent \in BOOLEAN
    /\ \A c \in UM_Cpus :
          /\ pInfo[c].active \in 1 .. 2
          /\ pInfo[c].offset \in 0 .. UM_Capacity
          /\ pInfo[c].mem \in [1 .. 2 -> [1 .. UM_Capacity -> 0 .. UM_MaxWork]]
          /\ writer[c].at \in {"waiting", "file", "data", "ended"}
          /\ writer[c].worker \in {"idle", "busy", "told", "locked"}
    /\ suspender \in {"waiting", "ended"}
    /\ \A x \in Swappers : swapper[x].cpu \in 1 .. UM_NumCpus + 1

\* Buffer 2 holds chunks nobody has handled yet
Unsaved(c) ==
    \/ pInfo[c].initiateSave
    \/ writer[c].at = "file"
    \/ writer[c].at = "data" /\ ~pInfo[c].dataProcessed

\* As long as only bufferWriterThread swaps buffers (no flush or pause has been
\* asked for), no chunk is lost, repeated or put out of order, whatever the
\* timing of PMI, DPC, writer thread and worker: what was handled, then buffer 2,
\* then the buffer being filled are the trace as the processor produced it.
TraceKept ==
    ultimapActive /\ umCalls = 0 =>
        \A c \in UM_Cpus :
            traceOut[c] \o (IF Unsaved(c) THEN Chunks(c, Buffer2(c), pInfo[c].saveSize)
                                         ELSE <<>>)
                       \o Chunks(c, pInfo[c].active, pInfo[c].offset)
              = [i \in 1 .. traced[c] |-> i]

\* "flush only returns after all data has been handled"
\* (frmUltimap2Unit.pas, FlushResults): when ultimap2_flushBuffers returns,
\* everything traced by then has been written or processed.  It does not hold, and
\* no run checks it: the buffer writer thread may resume the target between the two
\* swaps, and nobody waits for the buffer of the second one to be saved.
FlushHandlesAll ==
    swapper["gui"].at = "flushed" =>
        \A c \in UM_Cpus : \A k \in 1 .. traced[c] :
            \E i \in 1 .. Len(traceOut[c]) : traceOut[c][i] = k

\* The two ways a processor's writer thread gets stuck: a worker that found no
\* file keeps the file lock; a worker that could not map the buffer never calls
\* ultimap2_continue.
Stuck(c) ==
    \/ ~pInfo[c].fileAccess /\ writer[c].worker = "idle"
    \/ /\ writer[c].at = "data" /\ writer[c].worker = "idle"
       /\ ~pInfo[c].dataReady /\ ~pInfo[c].dataProcessed

\* The threads run, queued DPCs and pending interrupts are delivered, and the
\* GUI thread finishes what it began
UM_Fairness ==
    /\ \A c \in UM_Cpus : /\ WF_umVars(PMI(c) \/ SwitchToPABuffer(c))
                          /\ WF_umVars(WriterStep(c)) /\ WF_umVars(WorkerStep(c))
    /\ WF_umVars(SuspendThread) /\ WF_umVars(BufferWriterStep) /\ WF_umVars(GuiStep)

\* A target suspended because a buffer was full, or for a flush, runs again
\* while recording goes on, unless a writer thread is stuck.
TargetResumes ==
    []<>(~isSuspended \/ ~ultimapActive \/ \E c \in UM_Cpus : Stuck(c))

\* DisableUltimap2 returns: its joins, in the order it takes them, never wait
\* for a thread that waits for it, unless a worker keeps a file lock.
DisableEnds ==
    []<>(ultimapActive \/ swapper["gui"].at = "off" \/ \E c \in UM_Cpus : Stuck(c))
=============================================================================
