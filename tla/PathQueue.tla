----------------------------- MODULE PathQueue -----------------------------
(***************************************************************************)
(* The pointer scan on one machine (pointerscanworker.pas,                 *)
(* pointerscancontroller.pas).  Worker threads take a path from a queue,   *)
(* look for pointers to it and queue what they find, or go into it         *)
(* themselves.  The controller refills the queue from the overflow queue,  *)
(* finds out that nothing is left to do, and on the user's request saves   *)
(* what is left to a file, from which a later scan resumes.  The disk may  *)
(* be full for a while, workers may be added, removed or fail.             *)
(*                                                                         *)
(* A path is the sequence of pointers followed so far; PQ_Paths are those  *)
(* that exist in the memory that is scanned.  What a result looks like is  *)
(* left out: "scanned" counts how often the results of a path were stored. *)
(* The scan has no parent or children here.                                *)
(***************************************************************************)
EXTENDS Integers, FiniteSets, Sequences, SequencesExt

CONSTANTS
    PQ_NumWorkers,  \* threads at most
    PQ_Paths,       \* the paths there are, with their prefixes
    PQ_MaxLevel,    \* maxlevel
    PQ_MaxQueue,    \* MAXQUEUESIZE
    PQ_MaxFull,     \* bound: how often the disk becomes full
    PQ_MaxErrors,   \* bound: workers that fail
    PQ_MaxChanges,  \* bound: workers removed
    PQ_MaxStops     \* bound: times the user stops the scan

PQ_Workers == 1 .. PQ_NumWorkers
NoPath == <<0>>     \* pointers are counted from 1

ASSUME PQAssumption ==
    /\ PQ_NumWorkers \in Nat \ {0} /\ PQ_MaxQueue \in Nat \ {0, 1}
    /\ \A p \in PQ_Paths : \A n \in 0 .. Len(p) : SubSeq(p, 1, n) \in PQ_Paths
    /\ \A p \in PQ_Paths : Len(p) < PQ_MaxLevel
    /\ NoPath \notin PQ_Paths

VARIABLES
    pathqueue,      \* pathqueue[0 .. pathqueuelength - 1]
    pathSemaphore,  \* pathqueueSemaphore
    pathqueueCS,    \* whether the controller is in pathqueueCS
    overflowqueue,  \* NoPath is an entry that a worker has not filled in yet
    scanner,        \* localscanners: place, last path taken, pointers to go into, isdone
    told,           \* terminated and savestate of a worker: "no", "save" or "drop"
    controller,     \* place in reversescan, alldone, and entries a loop was started for
    scan,           \* terminated and savestate of the controller
    disk,           \* whether the disk is full, and outofdiskspace
    scanError,      \* haserror
    remover,        \* removeWorkerThread: the worker it waits for, or 0
    queueFile,      \* the .resume.queue file
    overtaken,      \* paths handed in while the overflow queue was saved, and forgotten
    whole,          \* whether the file resumed from had every path left, once
    scanned,        \* how often each path was worked out: not, once, or more often (2)
    pqCount         \* what has happened, for the bounds

pqQueues == <<pathqueue, pathSemaphore, overflowqueue>>
pqVars == <<pqQueues, pathqueueCS, scanner, told, controller, scan, disk, scanError,
            remover, queueFile, overtaken, whole, scanned, pqCount>>

-----------------------------------------------------------------------------
\* The pointers found to a path, in the order in which rscan goes through them
FoundFrom(p) ==
    LET n == Cardinality({q \in PQ_Paths : Len(q) = Len(p) + 1 /\ SubSeq(q, 1, Len(p)) = p})
    IN  [i \in 1 .. n |-> Append(p, i)]

\* ReleaseSemaphore: nothing happens when the count would exceed its maximum
Released(n) == IF pathSemaphore + n <= PQ_MaxQueue THEN pathSemaphore + n ELSE pathSemaphore

\* A path found at this level is for the queue: it is worth it, or the queue is empty
WorthQueueing(level) ==
    LET free(n) == Len(pathqueue) < PQ_MaxQueue - n IN
    \/ /\ level + 3 < PQ_MaxLevel
       /\ \/ free(PQ_MaxQueue \div 3)
          \/ level <= 2 /\ free(PQ_MaxQueue \div 8)
          \/ level <= 1 /\ free(PQ_MaxQueue \div 16)
          \/ level = 0 /\ free(1)
    \/ Len(pathqueue) = 0

\* The calls of rscan that still have pointers to go through
Unfinished(calls) == SelectSeq(calls, LAMBDA c : c # <<>>)

\* The pointer worker w looks at, and its calls of rscan once it is dealt with
Current(w) == Head(Head(scanner[w].calls))
Dealt(w) == <<Tail(Head(scanner[w].calls))>> \o Tail(scanner[w].calls)

\* Worker w calls rscan for path p, on top of "calls": a worker told to drop everything
\* returns at once
Rscan(w, p, calls, isdone, path) ==
    LET goes == p # NoPath /\ told[w] # "drop" IN
    /\ scanner' = [scanner EXCEPT ![w] =
          [at |-> "scan", path |-> path, isdone |-> isdone,
           calls |-> Unfinished((IF goes THEN <<FoundFrom(p)>> ELSE <<>>) \o calls)]]
    /\ scanned' = IF goes /\ scanned[p] < 2 THEN [scanned EXCEPT ![p] = @ + 1] ELSE scanned

-----------------------------------------------------------------------------
\* TPointerscanWorker.execute and rscan
workerOnly == <<pathqueueCS, told, controller, scan, disk, scanError, remover, queueFile,
                overtaken, whole, pqCount>>

\* localscannersCS is taken by removeWorkerThread or by the end of the scan
ScannersLocked == remover # 0 \/ controller.at = "join"

WaitForPath(w) ==
    /\ scanner[w].at = "wait" /\ pathSemaphore > 0
    /\ pathSemaphore' = pathSemaphore - 1
    /\ scanner' = [scanner EXCEPT ![w].at = "got"]
    /\ UNCHANGED <<pathqueue, overflowqueue, scanned, workerOnly>>

\* The worker was told to end: seen after a path, or when the wait times out
WorkerEnds(w) ==
    /\ scanner[w].at = "wait" /\ told[w] # "no"
    /\ scanner' = [scanner EXCEPT ![w].at = "ended"]
    /\ UNCHANGED <<pqQueues, scanned, workerOnly>>

\* Told to end or out of disk space: the semaphore is given back
GiveBack(w) ==
    /\ scanner[w].at = "got" /\ (told[w] # "no" \/ disk.seen)
    /\ pathSemaphore' = Released(1)
    /\ scanner' = [scanner EXCEPT ![w].at = IF told[w] # "no" THEN "ended" ELSE "wait"]
    /\ UNCHANGED <<pathqueue, overflowqueue, scanned, workerOnly>>

GoOn(w) ==
    /\ scanner[w].at = "got" /\ told[w] = "no" /\ ~disk.seen
    /\ scanner' = [scanner EXCEPT ![w].at = "take"]
    /\ UNCHANGED <<pqQueues, scanned, workerOnly>>

\* Mutant: isdone is left TRUE
TakePath_isdone(w) ==
    LET p == IF pathqueue = <<>> THEN scanner[w].path ELSE Last(pathqueue) IN
    /\ scanner[w].at = "take" /\ ~pathqueueCS
    /\ pathqueue' = IF pathqueue = <<>> THEN <<>> ELSE Front(pathqueue)
    /\ Rscan(w, p, <<>>, TRUE, p)
    /\ UNCHANGED <<pathSemaphore, overflowqueue, workerOnly>>

\* With nothing in the queue the path taken before is worked out again
TakePath(w) ==
    LET p == IF pathqueue = <<>> THEN scanner[w].path ELSE Last(pathqueue) IN
    /\ scanner[w].at = "take" /\ ~pathqueueCS
    /\ pathqueue' = IF pathqueue = <<>> THEN <<>> ELSE Front(pathqueue)
    /\ Rscan(w, p, <<>>, FALSE, p)
    /\ UNCHANGED <<pathSemaphore, overflowqueue, workerOnly>>

PathDone(w) ==
    /\ scanner[w].at = "scan" /\ scanner[w].calls = <<>>
    /\ scanner' = [scanner EXCEPT ![w].at = "wait", ![w].isdone = TRUE]
    /\ UNCHANGED <<pqQueues, scanned, workerOnly>>

LooksAt(w) == scanner[w].at = "scan" /\ scanner[w].calls # <<>>

GoesInto(w) == Rscan(w, Current(w), Dealt(w), FALSE, scanner[w].path)

\* What is found: for the queue, for this worker, for the overflow queue, or dropped
FindForQueue(w) ==
    /\ LooksAt(w) /\ told[w] = "no" /\ ~disk.seen
    /\ IF WorthQueueing(Len(Current(w)) - 1)
       THEN scanner' = [scanner EXCEPT ![w].at = "lock"] /\ UNCHANGED scanned
       ELSE GoesInto(w)
    /\ UNCHANGED <<pqQueues, workerOnly>>

FindForOverflow(w) ==
    /\ LooksAt(w) /\ (told[w] = "save" \/ disk.seen)
    /\ scanner' = [scanner EXCEPT ![w].at = "overflow"]
    /\ UNCHANGED <<pqQueues, scanned, workerOnly>>

Drop(w) ==
    /\ \/ LooksAt(w) /\ ~disk.seen
       \/ scanner[w].at = "lock"
    /\ told[w] = "drop"
    /\ scanner' = [scanner EXCEPT ![w].at = "scan", ![w].calls = Tail(@)]
    /\ UNCHANGED <<pqQueues, scanned, workerOnly>>

AddToQueue(w) ==
    /\ scanner[w].at = "lock" /\ told[w] # "drop" /\ ~pathqueueCS
    /\ IF Len(pathqueue) < PQ_MaxQueue - 1
       THEN /\ pathqueue' = Append(pathqueue, Current(w))
            /\ pathSemaphore' = Released(1)
            /\ scanner' = [scanner EXCEPT ![w].at = "scan", ![w].calls = Unfinished(Dealt(w))]
            /\ UNCHANGED scanned
       ELSE GoesInto(w) /\ UNCHANGED <<pathqueue, pathSemaphore>>
    /\ UNCHANGED <<overflowqueue, workerOnly>>

\* Every tryEnter failed, which level 0 does not leave it at
TryEnterFails(w) ==
    /\ scanner[w].at = "lock" /\ told[w] # "drop" /\ Len(Current(w)) > 1
    /\ GoesInto(w)
    /\ UNCHANGED <<pqQueues, workerOnly>>

\* overflowqueuecs is free; only the worker that fills in an entry is seen inside it
OverflowFree == \A w \in PQ_Workers : scanner[w].at # "fill"

\* The overflow queue is made longer, and then the new entry is filled in
OverflowQueueWriter(w) ==
    /\ scanner[w].at = "overflow" /\ OverflowFree
    /\ overflowqueue' = Append(overflowqueue, NoPath)
    /\ scanner' = [scanner EXCEPT ![w].at = "fill"]
    /\ UNCHANGED <<pathqueue, pathSemaphore, scanned, workerOnly>>

FillEntry(w) ==
    /\ scanner[w].at = "fill" /\ overflowqueue # <<>>
    /\ overflowqueue' = [overflowqueue EXCEPT ![Len(overflowqueue)] = Current(w)]
    /\ scanner' = [scanner EXCEPT ![w].at = "scan", ![w].calls = Unfinished(Dealt(w))]
    /\ UNCHANGED <<pathqueue, pathSemaphore, scanned, workerOnly>>

\* An exception ends the worker: WorkerException tells all workers to end, if it gets
\* localscannersCS
Raise(w) ==
    /\ scanner' = [scanner EXCEPT ![w].at = "ended", ![w].isdone = TRUE, ![w].calls = <<>>]
    /\ \/ /\ ~ScannersLocked
          /\ scanError' = TRUE
          /\ told' = [v \in PQ_Workers |-> IF told[v] = "no" THEN "drop" ELSE told[v]]
       \/ UNCHANGED <<told, scanError>>
    /\ UNCHANGED <<pqQueues, scanned, pathqueueCS, controller, scan, disk, remover,
                   queueFile, whole>>

\* The paths in a worker's hands
Hands(w) == UNION {Range(scanner[w].calls[i]) : i \in DOMAIN scanner[w].calls}

\* The overflow queue was cleared between the two: there is no such entry
EntryGone(w) ==
    /\ scanner[w].at = "fill" /\ overflowqueue = <<>>
    /\ overtaken' = overtaken \cup Hands(w)
    /\ Raise(w)
    /\ UNCHANGED pqCount

WorkerFails(w) ==
    /\ scanner[w].at = "scan" /\ pqCount.errors < PQ_MaxErrors
    /\ pqCount' = [pqCount EXCEPT !.errors = @ + 1]
    /\ Raise(w)
    /\ UNCHANGED overtaken

ScannerStep(w) ==
    \/ WaitForPath(w) \/ WorkerEnds(w) \/ GiveBack(w) \/ GoOn(w) \/ TakePath(w)
    \/ PathDone(w) \/ FindForQueue(w) \/ FindForOverflow(w) \/ Drop(w)
    \/ AddToQueue(w) \/ TryEnterFails(w) \/ OverflowQueueWriter(w) \/ FillEntry(w)
    \/ EntryGone(w)

-----------------------------------------------------------------------------
\* reversescan: at each step the controller goes to a place, and the rest stays
controllerOnly == <<scanner, told, disk, scanError, remover, overtaken, whole, scanned,
                    pqCount, scan>>

InPlace(place) == controller.at = place
GoTo(place) == controller' = [controller EXCEPT !.at = place]

\* The first path; it is in the queue before the semaphore is released
FillQueue ==
    /\ InPlace("fill")
    /\ pathqueue' = Append(pathqueue, <<>>)
    /\ GoTo("release")
    /\ UNCHANGED <<pathSemaphore, overflowqueue, pathqueueCS, queueFile, controllerOnly>>

ReleaseFirst ==
    /\ InPlace("release")
    /\ pathSemaphore' = Released(1)
    /\ GoTo("loop")
    /\ UNCHANGED <<pathqueue, overflowqueue, pathqueueCS, queueFile, controllerOnly>>

\* Or the paths of the file, sorted by level: the deepest go to the queue.  (What is read
\* after a record that was saved half filled in is not modelled.)
SetupQueueForResume ==
    LET sorted == SortSeq(queueFile, LAMBDA p, q : Len(p) < Len(q))
        moved == IF Len(sorted) < PQ_MaxQueue THEN Len(sorted) ELSE PQ_MaxQueue
    IN
    /\ InPlace("resume") /\ NoPath \notin Range(queueFile)
    /\ pathqueue' = Reverse(SubSeq(sorted, Len(sorted) - moved + 1, Len(sorted)))
    /\ overflowqueue' = SubSeq(sorted, 1, Len(sorted) - moved)
    /\ pathSemaphore' = Released(moved)
    /\ queueFile' = <<>>
    /\ GoTo("loop")
    /\ UNCHANGED <<pathqueueCS, controllerOnly>>

\* The level read is compared with a local that was never set, which may refuse any
\* path; the exception leaves reversescan and its workers
ResumeFails ==
    /\ InPlace("resume")
    /\ \E n \in DOMAIN queueFile : overflowqueue' = SubSeq(queueFile, 1, n)
    /\ scanError' = TRUE
    /\ GoTo("ended")
    /\ UNCHANGED <<pathqueue, pathSemaphore, pathqueueCS, queueFile, scanner, told, disk,
                   remover, overtaken, whole, scanned, pqCount, scan>>

\* The head of the loop: is there room on the disk, an error, a request to stop?
LoopHead ==
    /\ InPlace("loop")
    /\ disk' = [disk EXCEPT !.seen = disk.full]
    /\ GoTo(IF scanError THEN "stop" ELSE IF scan # "go" THEN "tell" ELSE "eat")
    /\ UNCHANGED <<pqQueues, pathqueueCS, queueFile, scanner, told, scanError, remover,
                   overtaken, whole, scanned, pqCount, scan>>

\* Tells the workers one after the other; then the file is made, if there is none yet
TellWorker ==
    /\ InPlace("tell")
    /\ \E w \in PQ_Workers :
          /\ scanner[w].at # "absent" /\ told[w] # scan
          /\ \A v \in 1 .. w - 1 : scanner[v].at = "absent" \/ told[v] = scan
          /\ told' = [told EXCEPT ![w] = scan]
    /\ UNCHANGED <<pqQueues, pathqueueCS, queueFile, controller, scanner, disk, scanError,
                   remover, overtaken, whole, scanned, pqCount, scan>>

AllTold == \A w \in PQ_Workers : scanner[w].at = "absent" \/ told[w] = scan

Opened == controller.file \/ scan = "save"

CreateWriterAndQueue ==
    /\ InPlace("tell") /\ AllTold
    /\ controller' = [controller EXCEPT !.at = "eat", !.file = Opened]
    /\ UNCHANGED <<pqQueues, pathqueueCS, queueFile, controllerOnly>>

\* After ten seconds the user may be asked, and force the end
ForceEnd ==
    /\ InPlace("tell") /\ AllTold
    /\ controller' = [controller EXCEPT !.at = "stop", !.file = Opened]
    /\ UNCHANGED <<pqQueues, pathqueueCS, queueFile, controllerOnly>>

EatFromOverflowQueueIfNeeded ==
    LET room == PQ_MaxQueue - Len(pathqueue)
        n == IF Len(overflowqueue) < room THEN Len(overflowqueue) ELSE room
        left == Len(overflowqueue) - n
    IN
    /\ InPlace("eat") \/ InPlace("eat again")
    /\ OverflowFree \/ room = 0 \/ overflowqueue = <<>>
    /\ IF room > 1
       THEN /\ pathqueue' = pathqueue \o
                   Reverse(SubSeq(overflowqueue, left + 1, Len(overflowqueue)))
            /\ overflowqueue' = SubSeq(overflowqueue, 1, left)
            /\ pathSemaphore' = Released(n)
       ELSE UNCHANGED pqQueues
    /\ GoTo(IF InPlace("eat") THEN "test" ELSE "enter")
    /\ UNCHANGED <<pathqueueCS, queueFile, controllerOnly>>

TestQueue ==
    /\ InPlace("test")
    /\ GoTo(IF pathqueue = <<>> \/ scan # "go" THEN "eat again" ELSE "loop")
    /\ UNCHANGED <<pqQueues, pathqueueCS, queueFile, controllerOnly>>

\* Enters pathqueueCS, and looks at the queue again
EnterQueue ==
    /\ InPlace("enter")
    /\ pathqueueCS' = TRUE
    /\ controller' = [controller EXCEPT !.alldone = FALSE,
          !.at = CASE scan # "go"                      -> "workers"
                   [] scan = "go" /\ pathqueue = <<>>  -> "idle"
                   [] OTHER                            -> "save"]
    /\ UNCHANGED <<pqQueues, queueFile, controllerOnly>>

\* isIdle, first part
IsIdle ==
    /\ InPlace("idle") /\ OverflowFree
    /\ GoTo(IF pathqueue # <<>> \/ overflowqueue # <<>> THEN "save" ELSE "workers")
    /\ UNCHANGED <<pqQueues, pathqueueCS, queueFile, controllerOnly>>

LocalScannersDone ==
    /\ InPlace("workers") /\ ~ScannersLocked
    /\ controller' = [controller EXCEPT !.at = "save",
          !.alldone = \A w \in PQ_Workers : scanner[w].isdone]
    /\ UNCHANGED <<pqQueues, pathqueueCS, queueFile, controllerOnly>>

\* The controller leaves pathqueueCS, for the next turn or for the end of the scan
Leave ==
    /\ pathqueueCS' = FALSE
    /\ controller' = [controller EXCEPT !.file = Opened, !.bound = 0,
          !.at = IF controller.alldone THEN "stop" ELSE "loop"]

\* SaveAndClearQueue, with pathqueueCS only: the queue is written, and the number of
\* entries of the overflow queue is taken.  Nothing is done with an empty queue.
SaveQueue ==
    /\ InPlace("save")
    /\ IF scan = "save" /\ pathqueue # <<>>
       THEN /\ queueFile' = queueFile \o pathqueue
            /\ controller' = [controller EXCEPT !.at = "walk", !.bound = Len(overflowqueue)]
            /\ UNCHANGED pathqueueCS
       ELSE Leave /\ UNCHANGED queueFile
    /\ UNCHANGED <<pqQueues, controllerOnly>>

\* That many entries are written, filled in or not
SaveOverflow ==
    LET entries == SubSeq(overflowqueue, 1, controller.bound) IN
    /\ InPlace("walk")
    /\ queueFile' = queueFile \o entries
    /\ controller' = [controller EXCEPT !.at = "clear",
          !.bound = Len(SelectSeq(entries, LAMBDA p : p # NoPath))]
    /\ UNCHANGED <<pqQueues, pathqueueCS, controllerOnly>>

\* Both queues are emptied, of what workers have added meanwhile as well
ClearQueues ==
    /\ InPlace("clear")
    /\ overtaken' = overtaken \cup
          ({overflowqueue[i] : i \in controller.bound + 1 .. Len(overflowqueue)} \ {NoPath})
    /\ pathqueue' = <<>> /\ overflowqueue' = <<>>
    /\ pathSemaphore' = Released(Len(pathqueue))
    /\ Leave
    /\ UNCHANGED <<queueFile, scanner, told, disk, scanError, remover, whole, scanned,
                   pqCount, scan>>

\* All threads are done, it is thought: they are told to end, and waited for
StopWorkers ==
    /\ InPlace("stop") /\ ~ScannersLocked
    /\ told' = [w \in PQ_Workers |->
                   IF scanner[w].at # "absent" /\ told[w] = "no" THEN "drop" ELSE told[w]]
    /\ GoTo("lock")
    /\ UNCHANGED <<pqQueues, pathqueueCS, queueFile, scanner, disk, scanError, remover,
                   overtaken, whole, scanned, pqCount, scan>>

LockWorkers ==
    /\ InPlace("lock") /\ ~ScannersLocked
    /\ GoTo("join")
    /\ UNCHANGED <<pqQueues, pathqueueCS, queueFile, controllerOnly>>

Absent == [at |-> "absent", path |-> NoPath, calls |-> <<>>, isdone |-> TRUE]
Started == [Absent EXCEPT !.at = "wait"]

JoinWorkers ==
    /\ InPlace("join") /\ \A w \in PQ_Workers : scanner[w].at \in {"ended", "absent"}
    /\ scanner' = [w \in PQ_Workers |-> Absent]
    /\ told' = [w \in PQ_Workers |-> "no"]
    /\ GoTo("final")
    /\ UNCHANGED <<pqQueues, pathqueueCS, queueFile, disk, scanError, remover, overtaken, whole,
                   scanned, pqCount, scan>>

\* The last save, when no worker is left to come between; without savestate the file is
\* deleted.  The controller is terminated.
FinishScan ==
    /\ InPlace("final")
    /\ IF scan = "save" /\ controller.file /\ pathqueue # <<>>
       THEN /\ queueFile' = queueFile \o pathqueue \o overflowqueue
            /\ pathqueue' = <<>> /\ overflowqueue' = <<>>
            /\ pathSemaphore' = Released(Len(pathqueue))
       ELSE /\ queueFile' = IF scan = "save" THEN queueFile ELSE <<>>
            /\ UNCHANGED pqQueues
    /\ GoTo("ended")
    /\ UNCHANGED <<pathqueueCS, controllerOnly>>

ControllerStep ==
    \/ FillQueue \/ ReleaseFirst \/ SetupQueueForResume \/ ResumeFails \/ LoopHead
    \/ TellWorker \/ CreateWriterAndQueue \/ ForceEnd \/ EatFromOverflowQueueIfNeeded
    \/ TestQueue \/ EnterQueue \/ IsIdle \/ LocalScannersDone \/ SaveQueue \/ SaveOverflow
    \/ ClearQueues \/ StopWorkers \/ LockWorkers \/ JoinWorkers \/ FinishScan

-----------------------------------------------------------------------------
\* The user and the disk
userOnly == <<pqQueues, pathqueueCS, scanError, overtaken, scanned>>

TerminateScan ==
    /\ scan = "go" /\ pqCount.stops < PQ_MaxStops /\ ~InPlace("ended")
    /\ scan' \in {"save", "drop"}
    /\ pqCount' = [pqCount EXCEPT !.stops = @ + 1]
    /\ UNCHANGED <<userOnly, scanner, told, controller, disk, remover, queueFile, whole>>

DiskFills ==
    /\ ~disk.full /\ pqCount.full < PQ_MaxFull
    /\ disk' = [disk EXCEPT !.full = TRUE]
    /\ pqCount' = [pqCount EXCEPT !.full = @ + 1]
    /\ UNCHANGED <<userOnly, scanner, told, controller, scan, remover, queueFile, whole>>

DiskFreed ==
    /\ disk.full
    /\ disk' = [disk EXCEPT !.full = FALSE]
    /\ UNCHANGED <<userOnly, scanner, told, controller, scan, remover, queueFile, whole,
                   pqCount>>

Present == {w \in PQ_Workers : scanner[w].at # "absent"}

\* removeWorkerThread: the last worker is told to save, and waited for
RemoveWorkerThread ==
    /\ ~ScannersLocked /\ ~InPlace("ended") /\ pqCount.changes < PQ_MaxChanges
    /\ \E w \in Present :
          /\ \A v \in Present : v <= w
          /\ told' = [told EXCEPT ![w] = "save"]
          /\ remover' = w
    /\ pqCount' = [pqCount EXCEPT !.changes = @ + 1]
    /\ UNCHANGED <<userOnly, scanner, controller, scan, disk, queueFile, whole>>

WorkerRemoved ==
    /\ remover # 0 /\ scanner[remover].at = "ended"
    /\ scanner' = [scanner EXCEPT ![remover] = Absent]
    /\ told' = [told EXCEPT ![remover] = "no"]
    /\ remover' = 0
    /\ UNCHANGED <<userOnly, controller, scan, disk, queueFile, whole, pqCount>>

AddWorkerThread ==
    /\ ~ScannersLocked /\ ~InPlace("ended") /\ ~InPlace("final")
    /\ \E w \in PQ_Workers :
          /\ Present = 1 .. w - 1
          /\ scanner' = [scanner EXCEPT ![w] = Started]
    /\ pqCount' = [pqCount EXCEPT !.added = TRUE]
    /\ UNCHANGED <<userOnly, told, controller, scan, disk, remover, queueFile, whole>>

\* How often a path is in a sequence, and how often it is still to be worked out
Times(p, s) == Cardinality({i \in DOMAIN s : s[i] = p})

Held(p) ==
    Times(p, pathqueue \o overflowqueue \o queueFile)
        + Cardinality({w \in PQ_Workers : p \in Hands(w)})

\* Every path found is in one place: each time a path was worked out, what it leads to
\* was put somewhere, and only then
AccountedFor ==
    \A p \in PQ_Paths :
        Held(p) + scanned[p] = IF p # <<>> THEN scanned[Front(p)]
                               ELSE IF InPlace("fill") THEN 0 ELSE 1

\* A new scan, with threads of its own, resumes from the file
ResumeScan ==
    /\ InPlace("ended") /\ queueFile # <<>>
    /\ controller' = [at |-> "resume", alldone |-> FALSE, file |-> FALSE, bound |-> 0]
    /\ scan' = "go" /\ scanError' = FALSE /\ disk' = [disk EXCEPT !.seen = FALSE]
    /\ scanner' = [w \in PQ_Workers |-> Started]
    /\ told' = [w \in PQ_Workers |-> "no"]
    /\ pathqueue' = <<>> /\ overflowqueue' = <<>> /\ pathSemaphore' = 0
    /\ whole' = (whole /\ AccountedFor /\ pathqueue = <<>> /\ overflowqueue = <<>>)
    /\ UNCHANGED <<pathqueueCS, remover, queueFile, overtaken, scanned, pqCount>>

UserStep ==
    \/ TerminateScan \/ DiskFills \/ RemoveWorkerThread \/ AddWorkerThread \/ ResumeScan

PQ_Init ==
    /\ pathqueue = <<>> /\ pathSemaphore = 0 /\ pathqueueCS = FALSE /\ overflowqueue = <<>>
    /\ \E n \in PQ_Workers :
          scanner = [w \in PQ_Workers |-> IF w <= n THEN Started ELSE Absent]
    /\ told = [w \in PQ_Workers |-> "no"]
    /\ controller = [at |-> "fill", alldone |-> FALSE, file |-> FALSE, bound |-> 0]
    /\ scan = "go" /\ disk = [full |-> FALSE, seen |-> FALSE] /\ scanError = FALSE
    /\ remover = 0 /\ queueFile = <<>> /\ overtaken = {} /\ whole = TRUE
    /\ scanned = [p \in PQ_Paths |-> 0]
    /\ pqCount = [full |-> 0, errors |-> 0, changes |-> 0, stops |-> 0, added |-> FALSE]

PQ_Next ==
    \/ \E w \in PQ_Workers : ScannerStep(w) \/ WorkerFails(w)
    \/ ControllerStep \/ UserStep \/ DiskFreed \/ WorkerRemoved

\* A worker gets pathqueueCS at some time if it is free again and again; the disk is freed
PQ_Spec ==
    /\ PQ_Init /\ [][PQ_Next]_pqVars
    /\ \A w \in PQ_Workers : SF_pqVars(ScannerStep(w))
    /\ WF_pqVars(ControllerStep) /\ WF_pqVars(DiskFreed)

-----------------------------------------------------------------------------
PQ_TypeOK ==
    /\ pathqueue \in Seq(PQ_Paths) /\ Len(pathqueue) <= PQ_MaxQueue
    /\ pathSemaphore \in 0 .. PQ_MaxQueue /\ pathqueueCS \in BOOLEAN
    /\ {overflowqueue, queueFile} \subseteq Seq(PQ_Paths \cup {NoPath})
    /\ overtaken \subseteq PQ_Paths
    /\ \A w \in PQ_Workers :
          /\ scanner[w].at \in {"wait", "got", "take", "scan", "lock", "overflow", "fill",
                                "ended", "absent"}
          /\ scanner[w].path \in PQ_Paths \cup {NoPath} /\ scanner[w].isdone \in BOOLEAN
          /\ \A i \in DOMAIN scanner[w].calls : scanner[w].calls[i] \in Seq(PQ_Paths)
    /\ told \in [PQ_Workers -> {"no", "save", "drop"}]
    /\ scan \in {"go", "save", "drop"} /\ remover \in PQ_Workers \cup {0}
    /\ scanned \in [PQ_Paths -> 0 .. 2]

\* No worker failed, and what was resumed from was complete
Calm == pqCount.errors = 0 /\ ~scanError /\ whole

\* While a scan runs, each path found is in one place, whatever the workers, a full disk
\* or a removed worker do: in the queue, in the overflow queue, with one worker, or
\* worked out.
EachPathOnce == scan = "go" /\ Calm => AccountedFor

\* When the scan is stopped to be resumed, no path gets lost while it is wound up: it is
\* worked out, or leads on from one that a worker, a queue or the file still has, or that
\* was handed in between the loop over the overflow queue and its clearing; unless a
\* worker was removed or added: one added while the scan is stopped may be told to drop
\* its paths.  (Of the queues, the file gets what SavedLater says.)
NoPathDropped ==
    scan = "save" /\ Calm /\ pqCount.changes = 0 /\ ~pqCount.added /\ ~InPlace("fill") =>
        \A p \in PQ_Paths :
            \/ scanned[p] > 0
            \/ \E q \in PQ_Paths : IsPrefix(q, p) /\ (Held(q) > 0 \/ q \in overtaken)

\* A scan that ends by itself has worked out every path, once; unless the disk was full
\* or a worker was removed, when a path may come into the overflow queue too late.
ScanIsComplete ==
    InPlace("ended") /\ scan = "go" /\ Calm /\ pqCount.full = 0 /\ pqCount.changes = 0 =>
        \A p \in PQ_Paths : scanned[p] = 1

\* "should always be true due to the semaphore" (pointerscanworker.pas:390): a worker that
\* got the semaphore finds a path in the queue; until the queue is saved.
SemaphoreCounts ==
    scan = "go" =>
        Len(pathqueue) = pathSemaphore + (IF InPlace("release") THEN 1 ELSE 0)
                         + Cardinality({w \in PQ_Workers : scanner[w].at \in {"got", "take"}})

\* The controller waits for a worker that was added after all were told to end
WaitsForLate ==
    InPlace("join") /\ \E w \in Present : told[w] = "no" /\ scanner[w].at # "ended"

\* The last worker failed, and WorkerException did not get localscannersCS to say so
NobodyLeft == Present # {} /\ \A w \in Present : scanner[w].at = "ended" /\ told[w] = "no"

\* Every scan ends, stopped or not, with a full disk that is freed again or a worker that
\* fails; unless workers were removed, one was added too late to be told, or the last one
\* failed unnoticed.
ScanOver == InPlace("ended") \/ pqCount.changes > 0 \/ WaitsForLate \/ NobodyLeft
ScanEnds == []<>ScanOver

\* The four together: no path found is lost or worked out twice, and the semaphore counts
\* what there is to take.
PathsAreKept ==
    PQ_TypeOK /\ EachPathOnce /\ NoPathDropped /\ ScanIsComplete /\ SemaphoreCounts

\* Not true.  "they will get saved later, or discarded" (pointerscancontroller.pas:2104):
\* what is in the overflow queue is saved with the queue only (SaveAndClearQueue), and a
\* worker may put the last paths there after EatFromOverflowQueueIfNeeded has found
\* nothing.
SavedLater == InPlace("ended") /\ scan = "save" => overflowqueue = <<>>

\* Not true.  "also save the overflow queue" (pointerscancontroller.pas:1787): the loop
\* over it and its clearing do not hold overflowqueuecs, and what a worker hands in
\* between the two is cleared without being saved.
SaveTakesAll == overtaken = {}

\* Not true.  A worker added between lines 2130 and 2133 is waited for and never told.
LateWorkerIsTold == ~WaitsForLate

\* Not true.  removeWorkerThread holds localscannersCS and waits for a worker that waits
\* for pathqueueCS; the controller holds that and waits for localscannersCS.
RemovalEnds == remover # 0 ~> remover = 0
=============================================================================
