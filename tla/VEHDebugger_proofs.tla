------------------------ MODULE VEHDebugger_proofs ------------------------
(***************************************************************************)
(* Proofs about the VEH debugger (VEHDebugger): who may report an event,   *)
(* and whose event Cheat Engine has.                                       *)
(***************************************************************************)
EXTENDS VEHDebugger, TLAPS

Inside == {"record", "thread", "event", "handle", "wait"}
Places == {"out", "enter"} \cup Inside
Holding == {"process", "threads", "attached"}

Memories == [tid : Tids, code : Codes, hasDebugEvent : BOOLEAN, hasHandled : BOOLEAN,
             size : Int, list : Seq(VD_Threads)]
Reports == [at : Places, tid : Tids, code : Codes,
            session : 0 .. VD_MaxAttach]
Inits == [at : {"none", "start", "join", "fix", "map", "hold"} \cup Holding,
          todo : SUBSET VD_Threads]
Pollers == [at : {"none", "created", "loop"}, known : SUBSET VD_Threads,
            creates : SUBSET VD_Threads, ends : SUBSET VD_Threads]
Debuggers == [at : {"off", "loop", "event"}, session : 0 .. VD_MaxAttach, tid : Tids, code : Codes,
              seen : SUBSET Codes, noBreakList : Seq(VD_Threads), syncing : BOOLEAN]

VD_Types ==
    /\ alive \subseteq VD_Threads /\ suspended \subseteq VD_Threads
    /\ registered \in BOOLEAN /\ emergency \in BOOLEAN /\ overtaken \in BOOLEAN
    /\ view \in 0 .. VD_MaxAttach
    /\ shm \in [Sessions -> Memories]
    /\ handlerCS \in [owner : Tids, depth : Nat]
    /\ ih \in [Actors -> Reports]
    /\ initializer \in Inits
    /\ poller \in Pollers
    /\ ce \in Debuggers
    /\ \A s \in Sessions : Len(shm[s].list) <= ListMax + 1

\* HandlerCS: the initialisation holds it all through, anyone else to report one event
VD_Section ==
    /\ \A a \in Actors : ih[a].at \in Inside => handlerCS.owner = a
    /\ ih["init"].at # "out" => initializer.at \in {"threads", "attached"}
    /\ initializer.at \in Holding =>
          /\ handlerCS.owner = "init"
          /\ handlerCS.depth = IF ih["init"].at \in Inside THEN 2 ELSE 1
    /\ initializer.at \notin Holding =>
          \/ handlerCS.owner = Nobody /\ handlerCS.depth = 0
          \/ /\ handlerCS.depth = 1
             /\ \E a \in Actors : handlerCS.owner = a /\ ih[a].at \in Inside

\* The DLL has the memory of the attachment, or still that of an earlier one
VD_View ==
    /\ initializer.at \in {"start", "join", "fix", "map"} => view < ce.session
    /\ initializer.at \in {"none", "hold"} \cup Holding => view = ce.session
    /\ emergency => initializer.at \in {"join", "fix"}
    /\ registered => view > 0
    /\ \A a \in Actors : ih[a].at # "out" => view > 0
    /\ \A a \in Actors : ih[a].at = "wait" => ih[a].session \in 1 .. view
    /\ poller # NoPoller => view > 0
    /\ initializer.at \in Holding => view > 0
    /\ view <= 1 => ~overtaken

\* What a report that was not overtaken has stored is still in the memory
VD_Stored ==
    ~overtaken => \A a \in Actors :
        /\ Storing(a) => shm[view].code = ih[a].code
        /\ ih[a].at \in {"event", "handle"} => shm[view].tid = ih[a].tid

\* Of the memory Cheat Engine looks at: nothing, an event, the one it handles or an
\* answer is there, and then its reporter waits inside HandlerCS
Busy(s) == shm[s].hasDebugEvent \/ ce.at = "event" \/ shm[s].hasHandled

\* What there is of the memory of attachment s, and of whom
Owned(s) ==
    /\ Busy(s) => \E a \in Actors :
          /\ Awaits(a, s)
          /\ shm[s].tid = ih[a].tid /\ shm[s].code = ih[a].code
          /\ ce.at = "event" => ce.tid = ih[a].tid /\ ce.code = ih[a].code
    /\ ~(shm[s].hasDebugEvent /\ ce.at = "event")
    /\ ~(shm[s].hasDebugEvent /\ shm[s].hasHandled)
    /\ ~(ce.at = "event" /\ shm[s].hasHandled)
    /\ ce.at = "event" \/ shm[s].hasHandled => ce.seen # {}

VD_Memory ==
    /\ \A s \in Sessions : s > view => ~shm[s].hasDebugEvent /\ ~shm[s].hasHandled
    /\ ce.at # "off" => ce.session > 0
    /\ ce.at = "event" => ce.session <= view
    /\ ce.session > 0 /\ ~overtaken => Owned(ce.session)

\* The first attachment, until Cheat Engine sees the creation of the process
VD_First ==
    /\ ce.session = 0 => /\ initializer.at = "none" /\ ~registered /\ poller = NoPoller
                         /\ \A a \in Actors : ih[a].at = "out"
    /\ ce.session = 1 /\ "create process" \notin ce.seen =>
          /\ ce.seen = {} /\ poller = NoPoller
          /\ ih["poller"].at = "out"
          /\ initializer.at \notin {"none", "attached"}
          /\ initializer.at \in {"start", "join", "fix", "map", "hold"} =>
                ~registered /\ \A a \in Actors : ih[a].at = "out"
          /\ initializer.at = "process" => ih["init"].at = "out"
          /\ initializer.at = "threads" => ih["init"].at # "out" /\ ih["init"].code = "create process"

\* The no-break list that is in force in the attachment's memory
VD_List ==
    /\ \A s \in Sessions : s > ce.session => shm[s].size = 0
    /\ ce.syncing => ce.session > 0
    /\ ce.session > 0 /\ ~ce.syncing =>
          \A k \in 1 .. shm[ce.session].size : k <= Len(shm[ce.session].list) =>
             k <= Len(ce.noBreakList) /\ shm[ce.session].list[k] = ce.noBreakList[k]

VD_Inv == VD_Types /\ VD_Section /\ VD_View /\ VD_Stored /\ VD_Memory /\ VD_First /\ VD_List

\* What is known of sequences
LEMMA VD_ElementOf ==
    ASSUME NEW S, NEW s \in Seq(S), NEW n \in 1 .. Len(s)
    PROVE  s[n] \in S
  OBVIOUS

\* The empty sequence is one over every set
LEMMA VD_EmptySeq ==
    ASSUME NEW S
    PROVE  <<>> \in Seq(S) /\ Len(<<>>) = 0
  OBVIOUS

\* The elements of a concatenation
LEMMA VD_Concat ==
    ASSUME NEW S, NEW s \in Seq(S), NEW u \in Seq(S)
    PROVE  /\ s \o u \in Seq(S) /\ Len(s \o u) = Len(s) + Len(u)
           /\ \A k \in 1 .. Len(s) + Len(u) :
                 (s \o u)[k] = IF k <= Len(s) THEN s[k] ELSE u[k - Len(s)]
  OBVIOUS

\* The elements of a sequence that one is added to
LEMMA VD_Append ==
    ASSUME NEW S, NEW s \in Seq(S), NEW e \in S
    PROVE  /\ Append(s, e) \in Seq(S) /\ Len(Append(s, e)) = Len(s) + 1
           /\ Append(s, e)[Len(s) + 1] = e /\ \A k \in 1 .. Len(s) : Append(s, e)[k] = s[k]
  OBVIOUS

\* The elements of a part of a sequence
LEMMA VD_SubSeq ==
    ASSUME NEW S, NEW s, NEW m \in Int, NEW n \in Int, \A k \in m .. n : s[k] \in S
    PROVE  /\ SubSeq(s, m, n) \in Seq(S)
           /\ Len(SubSeq(s, m, n)) = IF m <= n THEN n - m + 1 ELSE 0
           /\ \A k \in 1 .. n - m + 1 : SubSeq(s, m, n)[k] = s[m + k - 1]
  OBVIOUS

\* What the records may become
LEMMA VD_MemoryUpdate ==
    ASSUME NEW m \in Memories
    PROVE  /\ \A t \in Tids : [m EXCEPT !.tid = t] \in Memories
           /\ \A c \in Codes : [m EXCEPT !.code = c] \in Memories
           /\ \A b \in BOOLEAN : /\ [m EXCEPT !.hasDebugEvent = b] \in Memories
                                 /\ [m EXCEPT !.hasHandled = b] \in Memories
           /\ \A n \in Int : [m EXCEPT !.size = n] \in Memories
           /\ \A l \in Seq(VD_Threads) : [m EXCEPT !.list = l] \in Memories
  BY Zenon DEF Memories

\* What the record of a reporting thread may become
LEMMA VD_ReportUpdate ==
    ASSUME NEW r \in Reports, NEW at \in Places
    PROVE  /\ [r EXCEPT !.at = at] \in Reports
           /\ \A s \in 0 .. VD_MaxAttach : [r EXCEPT !.at = at, !.session = s] \in Reports
  BY Zenon DEF Reports

\* What the record of the debugger may become
LEMMA VD_DebuggerUpdate ==
    ASSUME NEW d \in Debuggers
    PROVE  /\ \A at \in {"off", "loop", "event"} :
                 /\ [d EXCEPT !.at = at] \in Debuggers
                 /\ \A s \in 0 .. VD_MaxAttach, q \in SUBSET Codes, l \in Seq(VD_Threads), b \in BOOLEAN :
                       [d EXCEPT !.at = at, !.session = s, !.seen = q, !.noBreakList = l, !.syncing = b]
                       \in Debuggers
                 /\ \A t \in Tids, c \in Codes, q \in SUBSET Codes :
                       [d EXCEPT !.at = at, !.tid = t, !.code = c, !.seen = q] \in Debuggers
           /\ \A l \in Seq(VD_Threads), b \in BOOLEAN :
                 [d EXCEPT !.noBreakList = l, !.syncing = b] \in Debuggers
           /\ \A b \in BOOLEAN : [d EXCEPT !.syncing = b] \in Debuggers
  BY ZenonT(60) DEF Debuggers

\* What the record of the thread poller may become
LEMMA VD_PollerUpdate ==
    ASSUME NEW p \in Pollers, NEW k \in SUBSET VD_Threads
    PROVE  /\ [p EXCEPT !.at = "loop", !.known = k] \in Pollers
           /\ \A c, e \in SUBSET VD_Threads : [p EXCEPT !.known = k, !.creates = c, !.ends = e] \in Pollers
           /\ [p EXCEPT !.creates = k] \in Pollers
           /\ [p EXCEPT !.ends = k] \in Pollers
  BY Zenon DEF Pollers

\* Nothing is attached yet
LEMMA VD_InitInv == VD_Init => VD_Inv
<1> SUFFICES ASSUME VD_Init PROVE VD_Inv
  OBVIOUS
<1> USE VDAssumption DEF VD_Init, Actors, Tids, Nobody, Codes, Out, ZeroMemory, Sessions, NoPoller, Holding, Inside, Places
<1>1. VD_Types
  <2>1. ZeroMemory \in Memories /\ Len(ZeroMemory.list) <= ListMax + 1
    BY VD_EmptySeq DEF Memories
  <2>2. Out \in Reports
    BY DEF Reports
  <2>3. ce \in Debuggers
    BY VD_EmptySeq DEF Debuggers
  <2>4. poller \in Pollers /\ initializer \in Inits
    BY DEF Pollers, Inits
  <2>5. registered \in BOOLEAN /\ emergency \in BOOLEAN /\ overtaken \in BOOLEAN
    BY Zenon
  <2>6. shm \in [Sessions -> Memories] /\ \A s \in Sessions : shm[s] = ZeroMemory
    <3> HIDE DEF ZeroMemory
    <3> QED BY <2>1
  <2>7. ih \in [Actors -> Reports]
    <3> HIDE DEF Out
    <3> QED BY <2>2
  <2> QED BY <2>1, <2>3, <2>4, <2>5, <2>6, <2>7 DEF VD_Types
<1>2. VD_Section
  BY DEF VD_Section
<1>3. VD_View
  BY DEF VD_View
<1>4. VD_Stored /\ VD_Memory
  BY DEF VD_Stored, Storing, VD_Memory
<1>5. VD_First /\ VD_List
  BY DEF VD_First, VD_List
<1> QED BY <1>1, <1>2, <1>3, <1>4, <1>5 DEF VD_Inv

\* The entries SynchronizeNoBreakList writes: the list as far as it fits, then what was there
LEMMA VD_Entries ==
    ASSUME NEW l \in Seq(VD_Threads), NEW o \in Seq(VD_Threads), Len(o) <= ListMax + 1
    PROVE  /\ SyncEntries(l, o) \in Seq(VD_Threads)
           /\ Len(SyncEntries(l, o)) <= ListMax + 1
           /\ SyncSize(l) \in Int /\ SyncSize(l) <= Len(l)
           /\ \A k \in 1 .. SyncSize(l) : SyncEntries(l, o)[k] = l[k]
<1> DEFINE n == Least(ListMax, Len(l) - 1) + 1
           a == SubSeq(l, 1, n)
           z == SubSeq(o, n + 1, Len(o))
<1>0. Len(l) \in Nat /\ Len(o) \in Nat /\ ListMax \in Nat
  BY VDAssumption
<1>1. n \in 0 .. Len(l) /\ n <= ListMax + 1 /\ SyncSize(l) = n - 1
  BY <1>0 DEF Least, SyncSize
<1> HIDE DEF n
<1>2. a \in Seq(VD_Threads) /\ Len(a) = n /\ \A k \in 1 .. n : a[k] = l[k]
  <2>1. \A k \in 1 .. n : l[k] \in VD_Threads
    BY <1>0, <1>1
  <2> QED BY <1>0, <1>1, <2>1, VD_SubSeq
<1>3. z \in Seq(VD_Threads) /\ Len(z) = IF n + 1 <= Len(o) THEN Len(o) - n ELSE 0
  <2>1. \A k \in n + 1 .. Len(o) : o[k] \in VD_Threads
    BY <1>0, <1>1
  <2> QED BY <1>0, <1>1, <2>1, VD_SubSeq
<1>4. SyncEntries(l, o) = a \o z
  BY DEF SyncEntries, n
<1> HIDE DEF a, z
<1>5. /\ a \o z \in Seq(VD_Threads) /\ Len(a \o z) = Len(a) + Len(z)
      /\ \A k \in 1 .. Len(a) + Len(z) : (a \o z)[k] = IF k <= Len(a) THEN a[k] ELSE z[k - Len(a)]
  BY Zenon, <1>2, <1>3, VD_Concat
<1>6. Len(a) + Len(z) <= ListMax + 1
  BY <1>0, <1>1, <1>2, <1>3
<1>7. \A k \in 1 .. n - 1 : k \in 1 .. Len(a) + Len(z) /\ k <= Len(a) /\ k \in 1 .. n
  BY <1>0, <1>1, <1>2, <1>3
<1>8. \A k \in 1 .. n - 1 : (a \o z)[k] = l[k]
  BY <1>2, <1>5, <1>7
<1>9. SyncSize(l) \in Int /\ SyncSize(l) <= Len(l)
  BY <1>0, <1>1
<1>10. Len(SyncEntries(l, o)) <= ListMax + 1 /\ SyncEntries(l, o) \in Seq(VD_Threads)
  BY <1>4, <1>5, <1>6
<1>11. \A k \in 1 .. SyncSize(l) : SyncEntries(l, o)[k] = l[k]
  BY Zenon, <1>1, <1>4, <1>8
<1> QED BY <1>9, <1>10, <1>11

\* AddToNoBreakList and RemoveFromNoBreakList keep a list of threads
LEMMA VD_ListOps ==
    ASSUME NEW l \in Seq(VD_Threads), NEW t \in VD_Threads, NEW i \in 1 .. Len(l)
    PROVE  /\ Append(l, t) \in Seq(VD_Threads)
           /\ [j \in 1 .. Len(l) - 1 |-> l[IF j < i THEN j ELSE j + 1]] \in Seq(VD_Threads)
<1>1. Len(l) \in Nat /\ \A j \in 1 .. Len(l) : l[j] \in VD_Threads
  BY VD_ElementOf
<1> DEFINE n == Len(l) - 1
           r == [j \in 1 .. n |-> l[IF j < i THEN j ELSE j + 1]]
<1>2. n \in Nat /\ r \in [1 .. n -> VD_Threads]
  BY <1>1
<1> HIDE DEF n, r
<1>3. r \in Seq(VD_Threads)
  BY <1>2
<1> QED BY <1>3, VD_Append DEF n, r

\* What storing a report does to its reporter, and what it leaves alone
LEMMA VD_Moves ==
    ASSUME VD_Types, NEW a \in Actors,
           StoreRecord(a) \/ StoreThread(a) \/ SignalEvent(a) \/ TakeHandle(a)
    PROVE  /\ ih[a].at \in {"record", "thread", "event", "handle"}
           /\ ih'[a].at \in {"thread", "event", "handle", "wait"}
           /\ ih'[a].tid = ih[a].tid /\ ih'[a].code = ih[a].code
           /\ ih'[a].at = "wait" => ih[a].at = "handle" /\ ih'[a].session = view
           /\ \A b \in Actors : b # a => ih'[b] = ih[b]
           /\ UNCHANGED <<registered, view, overtaken, handlerCS, emergency, initializer, poller, ce>>
  <1>1. ih \in [Actors -> Reports] /\ ih[a] \in Reports
    BY DEF VD_Types
  <1>2. ASSUME NEW from \in {"record", "thread", "event"}, NEW to \in {"thread", "event", "handle"},
               Stores(a, from, to)
        PROVE  /\ ih[a].at = from /\ ih'[a].at = to
               /\ ih'[a].tid = ih[a].tid /\ ih'[a].code = ih[a].code
               /\ \A b \in Actors : b # a => ih'[b] = ih[b]
               /\ UNCHANGED <<registered, view, overtaken, handlerCS, emergency, initializer, poller, ce>>
    <2>1. /\ ih' = [ih EXCEPT ![a].at = to] /\ ih[a].at = from
          /\ UNCHANGED <<registered, view, overtaken, handlerCS, emergency, initializer, poller, ce>>
      BY Zenon, <1>2 DEF Stores, target, mapping, dll
    <2> QED BY Zenon, <1>1, <2>1 DEF Reports
  <1>3. CASE TakeHandle(a)
    <2>1. /\ ih' = [ih EXCEPT ![a].at = "wait", ![a].session = view] /\ ih[a].at = "handle"
          /\ UNCHANGED <<registered, view, overtaken, handlerCS, emergency, initializer, poller, ce>>
      BY Zenon, <1>3 DEF TakeHandle, target, memory, mapping, dll
    <2> QED BY <1>1, <2>1 DEF Reports
  <1>4. CASE StoreRecord(a) \/ StoreThread(a) \/ SignalEvent(a)
    BY Zenon, <1>2, <1>4 DEF StoreRecord, StoreThread, SignalEvent
  <1> QED BY Zenon, <1>3, <1>4

\* What storing a report does to the memories
LEMMA VD_Writes ==
    ASSUME VD_Types, NEW a \in Actors, view \in Sessions
    PROVE  /\ TakeHandle(a) => UNCHANGED shm
           /\ StoreRecord(a) => /\ shm'[view].code = ih[a].code /\ shm'[view].tid = shm[view].tid
                                /\ shm'[view].hasDebugEvent = shm[view].hasDebugEvent
           /\ StoreThread(a) => /\ shm'[view].tid = ih[a].tid /\ shm'[view].code = shm[view].code
                                /\ shm'[view].hasDebugEvent = shm[view].hasDebugEvent
           /\ SignalEvent(a) => /\ shm'[view].hasDebugEvent
                                /\ shm'[view].tid = shm[view].tid /\ shm'[view].code = shm[view].code
           /\ StoreRecord(a) \/ StoreThread(a) \/ SignalEvent(a) =>
                 /\ shm'[view].hasHandled = shm[view].hasHandled
                 /\ shm'[view].size = shm[view].size /\ shm'[view].list = shm[view].list
                 /\ \A s \in Sessions : s # view => shm'[s] = shm[s]
  <1>1. shm \in [Sessions -> Memories] /\ shm[view] \in Memories
    BY DEF VD_Types
  <1>2. ASSUME TakeHandle(a) PROVE UNCHANGED shm
    BY Zenon, <1>2 DEF TakeHandle, memory, mapping
  <1>3. ASSUME StoreRecord(a)
        PROVE  /\ shm'[view].code = ih[a].code /\ shm'[view].tid = shm[view].tid
               /\ shm'[view].hasDebugEvent = shm[view].hasDebugEvent
               /\ shm'[view].hasHandled = shm[view].hasHandled
               /\ shm'[view].size = shm[view].size /\ shm'[view].list = shm[view].list
               /\ \A s \in Sessions : s # view => shm'[s] = shm[s]
    <2>1. shm' = [shm EXCEPT ![view].code = ih[a].code]
      BY Zenon, <1>3 DEF StoreRecord
    <2> QED BY <1>1, <2>1 DEF Memories
  <1>4. ASSUME StoreThread(a)
        PROVE  /\ shm'[view].tid = ih[a].tid /\ shm'[view].code = shm[view].code
               /\ shm'[view].hasDebugEvent = shm[view].hasDebugEvent
               /\ shm'[view].hasHandled = shm[view].hasHandled
               /\ shm'[view].size = shm[view].size /\ shm'[view].list = shm[view].list
               /\ \A s \in Sessions : s # view => shm'[s] = shm[s]
    <2>1. shm' = [shm EXCEPT ![view].tid = ih[a].tid]
      BY Zenon, <1>4 DEF StoreThread
    <2> QED BY <1>1, <2>1 DEF Memories
  <1>5. ASSUME SignalEvent(a)
        PROVE  /\ shm'[view].hasDebugEvent
               /\ shm'[view].tid = shm[view].tid /\ shm'[view].code = shm[view].code
               /\ shm'[view].hasHandled = shm[view].hasHandled
               /\ shm'[view].size = shm[view].size /\ shm'[view].list = shm[view].list
               /\ \A s \in Sessions : s # view => shm'[s] = shm[s]
    <2>1. shm' = [shm EXCEPT ![view].hasDebugEvent = TRUE]
      BY Zenon, <1>5 DEF SignalEvent
    <2> QED BY <1>1, <2>1 DEF Memories
  <1> QED BY Zenon, <1>2, <1>3, <1>4, <1>5

\* The types, through every step
LEMMA VD_TypeStep ==
    ASSUME VD_Inv, VD_Next
    PROVE  VD_Types'
<1>0. VD_Types /\ VD_View
  BY DEF VD_Inv
<1>a. /\ "init" \in Actors /\ "poller" \in Actors /\ VD_Threads \subseteq Actors
      /\ Actors \subseteq Tids /\ Nobody \in Tids
  BY DEF Actors, Tids
<1>s. 0 \in 0 .. VD_MaxAttach /\ VD_MaxAttach \in Nat
  BY VDAssumption
<1> USE <1>0
<1>c. ASSUME NEW a, NEW t \in Tids, NEW c \in Codes PROVE Call(a, t, c) \in Reports
  BY <1>s DEF Call, Reports, Places
<1>o. Out \in Reports /\ NoPoller \in Pollers /\ [NoPoller EXCEPT !.at = "created"] \in Pollers
  BY <1>a, <1>s DEF Out, Reports, Places, NoPoller, Pollers, Codes
<1>m. shm \in [Sessions -> Memories] /\ \A s \in Sessions : Len(shm[s].list) <= ListMax + 1
  BY DEF VD_Types
<1>u. ASSUME NEW s \in Sessions, NEW m \in Memories, Len(m.list) <= ListMax + 1, shm' = [shm EXCEPT ![s] = m]
      PROVE  shm' \in [Sessions -> Memories] /\ \A k \in Sessions : Len(shm'[k].list) <= ListMax + 1
  BY <1>m, <1>u
<1>v. view \in 0 .. VD_MaxAttach /\ ce.session \in 0 .. VD_MaxAttach
  BY DEF VD_Types, Debuggers
<1>h. ih \in [Actors -> Reports] /\ handlerCS \in [owner : Tids, depth : Nat]
  BY DEF VD_Types
<1>1. ASSUME NEW a \in Actors, VD_HandlerStep(a) PROVE VD_Types'
  <2>1. CASE HandlerEnter(a)
    <3>1. ih' = [ih EXCEPT ![a] = [ih[a] EXCEPT !.at = "record"]]
      BY <2>1 DEF HandlerEnter
    <3>2. ih' \in [Actors -> Reports]
      BY Zenon, <3>1, <1>h, VD_ReportUpdate DEF Places, Inside
    <3>3. handlerCS' \in [owner : Tids, depth : Nat]
      BY <2>1, <1>h, <1>a DEF HandlerEnter, VD_Entered
    <3> QED BY <2>1, <3>2, <3>3 DEF HandlerEnter, VD_Types, target, memory, mapping, dll
  <2>2. ASSUME NEW from \in Places, NEW to \in Places, from # "out", Stores(a, from, to),
               NEW m \in Memories, shm' = [shm EXCEPT ![view] = m],
               view \in Sessions => m.list = shm[view].list
        PROVE  VD_Types'
    <3>1. ih[a].at # "out"
      BY Zenon, <2>2 DEF Stores
    <3>2. view \in Sessions
      BY <3>1, <1>v, <1>s DEF VD_View, Sessions
    <3>3. Len(m.list) <= ListMax + 1
      BY Zenon, <2>2, <3>2, <1>m
    <3>4. shm' \in [Sessions -> Memories] /\ \A s \in Sessions : Len(shm'[s].list) <= ListMax + 1
      BY Zenon, <2>2, <3>2, <3>3, <1>u
    <3>5. ih' = [ih EXCEPT ![a] = [ih[a] EXCEPT !.at = to]]
      BY Zenon, <2>2 DEF Stores
    <3>6. ih' \in [Actors -> Reports]
      BY Zenon, <1>h, <3>5, VD_ReportUpdate
    <3> QED BY <2>2, <3>4, <3>6 DEF Stores, VD_Types, target, mapping, dll
  <2>4. CASE StoreRecord(a) \/ StoreThread(a) \/ SignalEvent(a)
    <3>0. ih[a] \in Reports /\ ih[a].tid \in Tids /\ ih[a].code \in Codes
      BY <1>h DEF Reports
    <3>1. ih[a].at \in {"record", "thread", "event"}
      BY Zenon, <2>4 DEF StoreRecord, StoreThread, SignalEvent, Stores
    <3>2. view \in Sessions
      BY <3>1, <1>v, <1>s DEF VD_View, Sessions
    <3>3. shm[view] \in Memories
      BY <3>2, <1>m
    <3>4. PICK m \in Memories : shm' = [shm EXCEPT ![view] = m] /\ m.list = shm[view].list
      <4>1. \A c \in Codes, t \in Tids :
               /\ [shm[view] EXCEPT !.code = c] \in Memories /\ [shm[view] EXCEPT !.code = c].list = shm[view].list
               /\ [shm[view] EXCEPT !.tid = t] \in Memories /\ [shm[view] EXCEPT !.tid = t].list = shm[view].list
        BY Zenon, <3>3, VD_MemoryUpdate DEF Memories
      <4>2. /\ [shm[view] EXCEPT !.hasDebugEvent = TRUE] \in Memories
            /\ [shm[view] EXCEPT !.hasDebugEvent = TRUE].list = shm[view].list
        BY Zenon, <3>3, VD_MemoryUpdate DEF Memories
      <4> QED BY Zenon, <2>4, <3>0, <4>1, <4>2 DEF StoreRecord, StoreThread, SignalEvent
    <3>5. PICK from \in Places, to \in Places : from # "out" /\ Stores(a, from, to)
      BY Zenon, <2>4 DEF StoreRecord, StoreThread, SignalEvent, Places, Inside
    <3> QED BY Zenon, <2>2, <3>4, <3>5
  <2>5. CASE TakeHandle(a)
    <3>1. ih' = [ih EXCEPT ![a] = [ih[a] EXCEPT !.at = "wait", !.session = view]]
      BY Zenon, <2>5 DEF TakeHandle
    <3>2. ih' \in [Actors -> Reports]
      BY Zenon, <1>h, <1>v, <3>1, VD_ReportUpdate DEF Places, Inside
    <3> QED BY <2>5, <3>2 DEF TakeHandle, VD_Types, target, memory, mapping, dll
  <2>3. CASE HandlerReturn(a)
    <3>1. ih' \in [Actors -> Reports]
      BY <1>h, <2>3, <1>o DEF HandlerReturn, mapping
    <3>2. suspended' \subseteq VD_Threads
      BY <2>3 DEF HandlerReturn, VD_Types, mapping
    <3>3. handlerCS' \in [owner : Tids, depth : Nat]
      <4>1. handlerCS' = IF handlerCS.depth = 1 THEN [owner |-> Nobody, depth |-> 0]
                         ELSE [handlerCS EXCEPT !.depth = @ - 1]
        BY <2>3 DEF HandlerReturn, Left, mapping
      <4>2. handlerCS.depth \in {1, 2}
        BY <2>3, VDAssumption DEF HandlerReturn, VD_Inv, VD_Section, Inside, Actors, Nobody, mapping
      <4>3. CASE handlerCS.depth = 1
        BY <4>1, <4>3, <1>a
      <4>4. CASE handlerCS.depth = 2
        <5>1. handlerCS' = [handlerCS EXCEPT !.depth = 1]
          BY <4>1, <4>4
        <5> QED BY <5>1, <1>h
      <4> QED BY <4>2, <4>3, <4>4
    <3>4. shm' \in [Sessions -> Memories] /\ \A s \in Sessions : Len(shm'[s].list) <= ListMax + 1
      <4>1. CASE UNCHANGED shm
        BY <1>m, <4>1
      <4> DEFINE u == ih[a].session
                 m == [shm[u] EXCEPT !.hasHandled = FALSE]
      <4>2. CASE shm' = [shm EXCEPT ![u].hasHandled = FALSE]
        <5>1. u \in Sessions
          BY <2>3, <1>s, <1>v DEF HandlerReturn, VD_View, Sessions, mapping
        <5>2. m \in Memories
          BY Zenon, <5>1, <1>m, VD_MemoryUpdate
        <5>3. Len(m.list) <= ListMax + 1
          BY <5>1, <1>m DEF Memories
        <5>4. shm' = [shm EXCEPT ![u] = m]
          BY <4>2
        <5> HIDE DEF m
        <5> QED BY Zenon, <5>1, <5>2, <5>3, <5>4, <1>u
      <4> QED BY <2>3, <4>1, <4>2 DEF HandlerReturn, mapping
    <3> QED BY <2>3, <3>1, <3>2, <3>3, <3>4 DEF HandlerReturn, VD_Types, mapping, dll
  <2> QED BY <1>1, <2>1, <2>3, <2>4, <2>5 DEF VD_HandlerStep
<1>2. ASSUME NEW t \in VD_Threads, SkipBreak(t) \/ RaiseStep(t) \/ RaiseOther(t) \/ ThreadStarts(t) \/ ThreadEnds(t)
      PROVE  VD_Types'
  <2>1. CASE RaiseStep(t) \/ RaiseOther(t)
    <3>1. Call(t, t, "step") \in Reports /\ Call(t, t, "exception") \in Reports
      BY Zenon, <1>a, <1>c DEF Codes
    <3>2. ih' \in [Actors -> Reports]
      BY <1>h, <2>1, <3>1 DEF RaiseStep, RaiseOther
    <3> QED BY <2>1, <3>2 DEF RaiseStep, RaiseOther, VD_Types, target, memory, mapping, dll
  <2>2. CASE SkipBreak(t) \/ ThreadStarts(t) \/ ThreadEnds(t)
    BY <2>2 DEF SkipBreak, ThreadStarts, ThreadEnds, VD_Types, target, memory, mapping, handlers, dll
  <2> QED BY <1>2, <2>1, <2>2
<1>3. ASSUME NEW t \in VD_Threads, AddToNoBreakList(t) \/ RemoveFromNoBreakList(t)
      PROVE  VD_Types'
  <2>1. ce \in Debuggers /\ ce.noBreakList \in Seq(VD_Threads)
    BY DEF VD_Types, Debuggers
  <2>2. PICK l \in Seq(VD_Threads) : ListOp(l)
    <3>1. CASE AddToNoBreakList(t)
      BY Zenon, <2>1, <3>1, VD_Append DEF AddToNoBreakList
    <3>2. CASE RemoveFromNoBreakList(t)
      BY Zenon, <2>1, <3>2, VD_ListOps DEF RemoveFromNoBreakList
    <3> QED BY <1>3, <3>1, <3>2
  <2>3. ce' \in Debuggers
    BY Zenon, <2>1, <2>2, VD_DebuggerUpdate DEF ListOp
  <2> QED BY <2>2, <2>3 DEF ListOp, VD_Types, target, memory, mapping, handlers, dll
<1>4. CASE PollerStep
  <2>0. poller \in Pollers /\ poller.creates \subseteq VD_Threads /\ poller.ends \subseteq VD_Threads
        /\ poller.known \subseteq VD_Threads /\ alive \subseteq VD_Threads
    BY DEF VD_Types, Pollers
  <2>1. CASE PollerStarts \/ UpdateList
    <3>1. poller' \in Pollers
      <4>1. CASE PollerStarts
        BY Zenon, <2>0, <4>1, VD_PollerUpdate DEF PollerStarts
      <4>2. CASE UpdateList
        <5> DEFINE c == alive \ poller.known
                   e == poller.known \ alive
        <5>1. c \in SUBSET VD_Threads /\ e \in SUBSET VD_Threads /\ alive \in SUBSET VD_Threads
          BY <2>0
        <5>2. poller' = [poller EXCEPT !.known = alive, !.creates = c, !.ends = e]
          BY <4>2 DEF UpdateList
        <5> HIDE DEF c, e
        <5> QED BY Zenon, <2>0, <5>1, <5>2, VD_PollerUpdate
      <4> QED BY <2>1, <4>1, <4>2
    <3> QED BY <2>1, <3>1 DEF PollerStarts, UpdateList, VD_Types, target, memory, mapping, handlers
  <2>2. ASSUME NEW t \in VD_Threads, CreateThreadEvent(t) \/ DestroyThreadEvent(t) PROVE VD_Types'
    <3>1. poller' \in Pollers
      <4> DEFINE c == poller.creates \ {t}
                 e == poller.ends \ {t}
      <4>1. c \in SUBSET VD_Threads /\ e \in SUBSET VD_Threads
        BY <2>0
      <4>2. poller' = [poller EXCEPT !.creates = c] \/ poller' = [poller EXCEPT !.ends = e]
        BY Zenon, <2>2 DEF CreateThreadEvent, DestroyThreadEvent
      <4> HIDE DEF c, e
      <4> QED BY Zenon, <2>0, <4>1, <4>2, VD_PollerUpdate
    <3>2. Call("poller", t, "create thread") \in Reports /\ Call("poller", t, "exit thread") \in Reports
      BY Zenon, <1>a, <1>c DEF Codes
    <3>3. ih' \in [Actors -> Reports]
      BY Zenon, <1>h, <2>2, <3>2 DEF CreateThreadEvent, DestroyThreadEvent
    <3>4. suspended' \subseteq VD_Threads
      BY Zenon, <2>2 DEF CreateThreadEvent, DestroyThreadEvent, target, VD_Types
    <3> QED BY Zenon, <2>2, <3>1, <3>3, <3>4 DEF CreateThreadEvent, DestroyThreadEvent, VD_Types, target, memory, mapping
  <2> QED BY <1>4, <2>1, <2>2 DEF PollerStep
<1>5. CASE InitStep
  <2>0. initializer \in Inits /\ initializer.todo \subseteq VD_Threads
    BY DEF VD_Types, Inits
  <2>g. ASSUME NEW from, NEW to \in {"none", "start", "join", "fix", "map", "hold"} \cup Holding, InitGoes(from, to)
        PROVE  initializer' \in Inits
    BY <2>0, <2>g DEF InitGoes, Inits
  <2>1. CASE InitUnload
    <3>1. registered' \in BOOLEAN /\ emergency' \in BOOLEAN
      BY <2>1, Zenon DEF InitUnload
    <3> QED BY <2>1, <2>g, <3>1 DEF InitUnload, VD_Types, memory, mapping
  <2>2. CASE InitJoin
    BY <2>2, <2>g, <1>o DEF InitJoin, VD_Types, target, memory, mapping, handlers
  <2>3. CASE InitFix
    <3>1. emergency' \in BOOLEAN
      BY <2>3, Zenon DEF InitFix
    <3> QED BY <2>3, <2>g, <3>1 DEF InitFix, VD_Types, target, memory, mapping
  <2>4. CASE InitMap
    <3>1. overtaken' \in BOOLEAN
      BY Zenon, <2>4 DEF InitMap
    <3> QED BY <2>4, <2>g, <1>v, <3>1 DEF InitMap, VD_Types, target, handlers
  <2>5. CASE InitHold
    <3>1. registered' \in BOOLEAN
      BY <2>5, Zenon DEF InitHold
    <3>2. initializer' \in Inits
      BY <2>5 DEF InitHold, VD_Types, Inits, Holding
    <3>3. handlerCS' \in [owner : Tids, depth : Nat]
      BY <2>5, <1>h, <1>a DEF InitHold, VD_Entered
    <3> QED BY <2>5, <3>1, <3>2, <3>3 DEF InitHold, VD_Types, memory, mapping
  <2>6. ASSUME NEW t \in VD_Threads, InitSend(t) PROVE VD_Types'
    <3>1. initializer' \in Inits
      BY Zenon, <2>0, <2>6 DEF InitSend, Inits, Holding
    <3>2. Call("init", t, "create process") \in Reports /\ Call("init", t, "create thread") \in Reports
      BY Zenon, <1>a, <1>c DEF Codes
    <3>3. ih' \in [Actors -> Reports]
      BY Zenon, <1>h, <2>6, <3>2 DEF InitSend
    <3> QED BY Zenon, <2>6, <3>1, <3>3 DEF InitSend, VD_Types, target, memory, mapping
  <2>7. CASE InitAttached
    <3>1. Call("init", "init", "breakpoint") \in Reports
      BY Zenon, <1>a, <1>c DEF Codes
    <3>2. ih' \in [Actors -> Reports]
      BY Zenon, <1>h, <2>7, <3>1 DEF InitAttached
    <3>3. initializer' \in Inits
      BY <2>7, <2>g DEF InitAttached, Holding
    <3> QED BY <2>7, <3>2, <3>3, <1>o DEF InitAttached, VD_Types, target, memory, mapping
  <2>8. CASE InitRelease
    <3>1. handlerCS' \in [owner : Tids, depth : Nat]
      <4>1. handlerCS.depth = 1
        BY <2>8 DEF InitRelease, InitGoes, VD_Inv, VD_Section, Inside, Holding
      <4> QED BY <2>8, <4>1, <1>a DEF InitRelease, Left
    <3>2. initializer' \in Inits
      BY <2>8, <2>g DEF InitRelease
    <3> QED BY <2>8, <3>1, <3>2 DEF InitRelease, VD_Types, target, memory, mapping
  <2> QED BY <1>5, <2>1, <2>2, <2>3, <2>4, <2>5, <2>6, <2>7, <2>8 DEF InitStep
<1>6. CASE CEStep
  <2>0. ce \in Debuggers /\ ce.at # "off" => ce.session \in Sessions
    BY <1>v, <1>s DEF VD_Inv, VD_Memory, VD_Types, Sessions
  <2>1. CASE WaitForDebugEvent
    <3>1. ce.session \in Sessions /\ ce \in Debuggers
      BY <2>0, <2>1 DEF WaitForDebugEvent, VD_Types, mapping
    <3> DEFINE s == ce.session
               m == [shm[s] EXCEPT !.hasDebugEvent = FALSE]
    <3>2. m \in Memories
      BY Zenon, <3>1, <1>m, VD_MemoryUpdate
    <3>3. Len(m.list) <= ListMax + 1
      BY <3>1, <1>m DEF Memories
    <3>4. shm' = [shm EXCEPT ![s] = m]
      BY <2>1 DEF WaitForDebugEvent, mapping
    <3> HIDE DEF m
    <3>5. shm' \in [Sessions -> Memories] /\ \A k \in Sessions : Len(shm'[k].list) <= ListMax + 1
      BY Zenon, <3>1, <3>2, <3>3, <3>4, <1>u
    <3>6. shm[s].tid \in Tids /\ shm[s].code \in Codes /\ ce.seen \subseteq Codes
      BY <3>1, <1>m DEF Memories, Debuggers
    <3>7. ce' \in Debuggers
      <4> DEFINE q == ce.seen \cup {shm[s].code}
                 t == shm[s].tid
                 c == shm[s].code
      <4>1. q \in SUBSET Codes /\ t \in Tids /\ c \in Codes
        BY <3>6
      <4>2. ce' = [ce EXCEPT !.at = "event", !.tid = t, !.code = c, !.seen = q]
        BY <2>1 DEF WaitForDebugEvent, mapping
      <4> HIDE DEF q, t, c
      <4> QED BY Zenon, <3>1, <4>1, <4>2, VD_DebuggerUpdate
    <3> QED BY <2>1, <3>5, <3>7 DEF WaitForDebugEvent, VD_Types, target, handlers, dll, mapping
  <2>2. CASE VD_ContinueDebugEvent
    <3>1. ce.session \in Sessions /\ ce \in Debuggers
      BY <2>0, <2>2 DEF VD_ContinueDebugEvent, VD_Types, mapping
    <3> DEFINE s == ce.session
               m == [shm[s] EXCEPT !.hasHandled = TRUE]
    <3>2. m \in Memories
      BY Zenon, <3>1, <1>m, VD_MemoryUpdate
    <3>3. Len(m.list) <= ListMax + 1
      BY <3>1, <1>m DEF Memories
    <3>4. shm' = [shm EXCEPT ![s] = m]
      BY <2>2 DEF VD_ContinueDebugEvent, mapping
    <3> HIDE DEF m
    <3>5. shm' \in [Sessions -> Memories] /\ \A k \in Sessions : Len(shm'[k].list) <= ListMax + 1
      BY Zenon, <3>1, <3>2, <3>3, <3>4, <1>u
    <3>7. ce' \in Debuggers
      BY Zenon, <2>2, <3>1, VD_DebuggerUpdate DEF VD_ContinueDebugEvent, mapping
    <3> QED BY <2>2, <3>5, <3>7 DEF VD_ContinueDebugEvent, VD_Types, target, handlers, dll, mapping
  <2> QED BY SMTT(30), <1>6, <2>1, <2>2 DEF CEStep
<1>7. CASE DebugActiveProcess
  <2>1. ce.session + 1 \in 0 .. VD_MaxAttach /\ ce \in Debuggers
    BY <1>7, <1>v, <1>s DEF DebugActiveProcess, VD_Types
  <2>2. <<>> \in Seq(VD_Threads) /\ {} \in SUBSET Codes
    BY VD_EmptySeq
  <2>3. ce' \in Debuggers
    <3> DEFINE n == ce.session + 1
    <3>1. ce' = [ce EXCEPT !.at = "loop", !.session = n, !.seen = {}, !.noBreakList = <<>>, !.syncing = FALSE]
      BY <1>7 DEF DebugActiveProcess
    <3> HIDE DEF n
    <3> QED BY Zenon, <2>1, <2>2, <3>1, VD_DebuggerUpdate DEF n
  <2>4. initializer' \in Inits
    BY <1>7 DEF DebugActiveProcess, Inits
  <2> QED BY <1>7, <2>3, <2>4 DEF DebugActiveProcess, VD_Types, target, memory, mapping, handlers
<1>8. CASE DebugActiveProcessStop \/ UnloadVEH
  <2>1. ce' \in Debuggers
    BY Zenon, <1>8, VD_DebuggerUpdate DEF DebugActiveProcessStop, UnloadVEH, VD_Types
  <2>2. registered' \in BOOLEAN
    BY <1>8, Zenon DEF DebugActiveProcessStop, UnloadVEH, VD_Types, target
  <2> QED BY <1>8, <2>1, <2>2 DEF DebugActiveProcessStop, UnloadVEH, VD_Types, target, memory, mapping, handlers
<1>9. CASE SynchronizeNoBreakList
  <2>1. ce.session \in Sessions /\ ce \in Debuggers /\ ce.noBreakList \in Seq(VD_Threads)
    BY <1>9, <1>v, <1>s DEF SynchronizeNoBreakList, VD_Inv, VD_List, VD_Types, Sessions, Debuggers, mapping
  <2> DEFINE s == ce.session
             e == SyncEntries(ce.noBreakList, shm[s].list)
             z == SyncSize(ce.noBreakList)
             m == [shm[s] EXCEPT !.list = e]
             n == [shm[s] EXCEPT !.size = z]
  <2>2. e \in Seq(VD_Threads) /\ Len(e) <= ListMax + 1 /\ z \in Int
    BY <2>1, <1>m, VD_Entries DEF Memories
  <2>3. (shm' = [shm EXCEPT ![s] = m] /\ ce' = ce)
        \/ (shm' = [shm EXCEPT ![s] = n] /\ ce' = [ce EXCEPT !.syncing = FALSE])
    <3> HIDE DEF e, z
    <3>1. \/ shm' = [shm EXCEPT ![s].list = e] /\ UNCHANGED ce
          \/ shm' = [shm EXCEPT ![s].size = z] /\ ce' = [ce EXCEPT !.syncing = FALSE]
      BY <1>9, Zenon DEF SynchronizeNoBreakList, e, z, mapping
    <3> QED BY <3>1
  <2> HIDE DEF e, z
  <2>4. m \in Memories /\ n \in Memories /\ m.list = e /\ n.list = shm[s].list
    <3>1. shm[s] \in Memories
      BY <2>1, <1>m
    <3>2. m \in Memories /\ n \in Memories
      BY Zenon, <2>2, <3>1, VD_MemoryUpdate
    <3> QED BY <3>1, <3>2 DEF Memories
  <2> HIDE DEF m, n
  <2>5. shm' \in [Sessions -> Memories] /\ \A k \in Sessions : Len(shm'[k].list) <= ListMax + 1
    BY <2>1, <2>2, <2>3, <2>4, <1>m, <1>u
  <2>6. ce' \in Debuggers
    BY Zenon, <2>1, <2>3, VD_DebuggerUpdate
  <2> QED BY <1>9, <2>5, <2>6 DEF SynchronizeNoBreakList, VD_Types, target, handlers, dll, mapping
<1> QED BY VD_Next, <1>1, <1>2, <1>3, <1>4, <1>5, <1>6, <1>7, <1>8, <1>9 DEF VD_Next

\* HandlerCS has one owner, through every step
LEMMA VD_SectionStep ==
    ASSUME VD_Inv, VD_Next
    PROVE  VD_Section'
<1>0. VD_Types /\ VD_Section
  BY DEF VD_Inv
<1>a. /\ "init" \in Actors /\ "poller" \in Actors /\ "init" \notin VD_Threads /\ "poller" \notin VD_Threads
      /\ Nobody \notin Actors /\ VD_Threads \subseteq Actors
  BY VDAssumption DEF Actors, Nobody
<1>h. ih \in [Actors -> Reports] /\ handlerCS \in [owner : Tids, depth : Nat] /\ initializer \in Inits
  BY <1>0 DEF VD_Types
<1>r. \A a \in Actors : ih[a] \in Reports
  BY <1>h
<1> USE <1>0
<1>1. ASSUME NEW a \in Actors, VD_HandlerStep(a) PROVE VD_Section'
  <2>0. initializer' = initializer
    BY Zenon, <1>1, VD_Moves DEF VD_HandlerStep, HandlerEnter, HandlerReturn, dll, mapping
  <2>1. CASE HandlerEnter(a)
    <3>1. /\ ih[a].at = "enter" /\ ih'[a].at = "record" /\ \A b \in Actors : b # a => ih'[b] = ih[b]
          /\ handlerCS'.owner = a /\ handlerCS'.depth = handlerCS.depth + 1
          /\ handlerCS.owner \in {Nobody, a}
      BY <2>1, <1>h, <1>r DEF HandlerEnter, Reports, VD_Entered, MayEnter
    <3> QED BY <2>0, <3>1, <1>a, <1>h DEF VD_Section, Inside
  <2>2. CASE StoreRecord(a) \/ StoreThread(a) \/ SignalEvent(a) \/ TakeHandle(a)
    <3>1. /\ ih[a].at \in Inside /\ ih'[a].at \in Inside /\ \A b \in Actors : b # a => ih'[b] = ih[b]
          /\ handlerCS' = handlerCS
      BY Zenon, <2>2, VD_Moves DEF Inside
    <3> QED BY <2>0, <3>1, <1>a, <1>h DEF VD_Section, Inside
  <2>3. CASE HandlerReturn(a)
    <3>1. /\ ih[a].at = "wait" /\ ih'[a].at = "out" /\ \A b \in Actors : b # a => ih'[b] = ih[b]
          /\ handlerCS.depth = 1 => handlerCS'.owner = Nobody /\ handlerCS'.depth = 0
          /\ handlerCS.depth = 2 => handlerCS'.owner = handlerCS.owner /\ handlerCS'.depth = 1
      BY <2>3, <1>h, <1>r DEF HandlerReturn, Reports, Left, Out, mapping
    <3> QED BY <2>0, <3>1, <1>a, <1>h DEF VD_Section, Inside, Holding
  <2> QED BY <1>1, <2>1, <2>2, <2>3 DEF VD_HandlerStep
<1>2. ASSUME NEW t \in VD_Threads, SkipBreak(t) \/ RaiseStep(t) \/ RaiseOther(t) \/ ThreadStarts(t) \/ ThreadEnds(t)
      PROVE  VD_Section'
  <2>1. CASE RaiseStep(t) \/ RaiseOther(t)
    <3>1. /\ ih[t].at = "out" /\ ih'[t].at = "enter" /\ \A b \in Actors : b # t => ih'[b] = ih[b]
          /\ UNCHANGED <<handlerCS, initializer>>
      BY <2>1, <1>a, <1>h DEF RaiseStep, RaiseOther, CanRaise, Call, dll
    <3> QED BY <3>1, <1>a, <1>h DEF VD_Section, Inside
  <2>2. CASE SkipBreak(t) \/ ThreadStarts(t) \/ ThreadEnds(t)
    BY <2>2 DEF SkipBreak, ThreadStarts, ThreadEnds, VD_Section, handlers, dll
  <2> QED BY <1>2, <2>1, <2>2
<1>3. ASSUME NEW t \in VD_Threads, AddToNoBreakList(t) \/ RemoveFromNoBreakList(t)
      PROVE  VD_Section'
  BY Zenon, <1>3 DEF AddToNoBreakList, RemoveFromNoBreakList, ListOp, VD_Section, handlers, dll
<1>4. CASE PollerStep
  <2>1. CASE PollerStarts \/ UpdateList
    BY <2>1 DEF PollerStarts, UpdateList, VD_Section, handlers
  <2>2. ASSUME NEW t \in VD_Threads, CreateThreadEvent(t) \/ DestroyThreadEvent(t) PROVE VD_Section'
    <3>1. /\ ih["poller"].at = "out" /\ ih'["poller"].at = "enter"
          /\ \A b \in Actors : b # "poller" => ih'[b] = ih[b]
          /\ UNCHANGED <<handlerCS, initializer>>
      <4>1. \E r : r.at = "enter" /\ ih' = [ih EXCEPT !["poller"] = r]
        BY Zenon, <2>2 DEF CreateThreadEvent, DestroyThreadEvent, Call
      <4> QED BY Zenon, <2>2, <4>1, <1>a, <1>h DEF CreateThreadEvent, DestroyThreadEvent
    <3> QED BY <3>1, <1>a, <1>h DEF VD_Section, Inside
  <2> QED BY <1>4, <2>1, <2>2 DEF PollerStep
<1>5. CASE InitStep
  <2>g. ASSUME NEW from, NEW to, InitGoes(from, to) PROVE initializer.at = from /\ initializer'.at = to
    BY <2>g, <1>h DEF InitGoes, Inits
  <2>1. CASE InitUnload \/ InitJoin \/ InitFix \/ InitMap
    <3>1. /\ UNCHANGED <<handlerCS, ih>> /\ initializer.at \in {"start", "join", "fix", "map"}
          /\ initializer'.at \in {"start", "join", "fix", "map", "hold"}
      BY <2>1, <2>g DEF InitUnload, InitJoin, InitFix, InitMap, handlers
    <3> QED BY <3>1 DEF VD_Section, Inside, Holding
  <2>5. CASE InitHold
    <3>1. /\ initializer.at = "hold" /\ initializer'.at = "process" /\ UNCHANGED ih
          /\ handlerCS'.owner = "init" /\ handlerCS'.depth = handlerCS.depth + 1
          /\ handlerCS.owner \in {Nobody, "init"}
      BY <2>5, <1>h DEF InitHold, VD_Entered, MayEnter
    <3> QED BY <3>1, <1>a, <1>h DEF VD_Section, Inside, Holding
  <2>6. ASSUME NEW t \in VD_Threads, InitSend(t) PROVE VD_Section'
    <3>1. /\ initializer.at \in {"process", "threads"} /\ initializer'.at = "threads"
          /\ ih["init"].at = "out" /\ ih'["init"].at = "enter"
          /\ \A b \in Actors : b # "init" => ih'[b] = ih[b]
          /\ UNCHANGED handlerCS
      BY Zenon, <2>6, <1>a, <1>h DEF InitSend, Call
    <3> QED BY <3>1, <1>a, <1>h DEF VD_Section, Inside, Holding
  <2>7. CASE InitAttached
    <3>1. /\ initializer.at = "threads" /\ initializer'.at = "attached"
          /\ ih["init"].at = "out" /\ ih'["init"].at = "enter"
          /\ \A b \in Actors : b # "init" => ih'[b] = ih[b]
          /\ UNCHANGED handlerCS
      BY <2>7, <2>g, <1>a, <1>h DEF InitAttached, Call
    <3> QED BY <3>1, <1>a, <1>h DEF VD_Section, Inside, Holding
  <2>8. CASE InitRelease
    <3>1. /\ initializer.at = "attached" /\ initializer'.at = "none" /\ ih["init"].at = "out" /\ UNCHANGED ih
          /\ handlerCS.depth = 1 => handlerCS'.owner = Nobody /\ handlerCS'.depth = 0
      BY <2>8, <2>g, <1>h DEF InitRelease, Left
    <3> QED BY <3>1, <1>a, <1>h DEF VD_Section, Inside, Holding
  <2> QED BY <1>5, <2>1, <2>5, <2>6, <2>7, <2>8 DEF InitStep
<1>6. CASE CEStep \/ DebugActiveProcessStop \/ UnloadVEH \/ SynchronizeNoBreakList
  BY <1>6 DEF CEStep, WaitForDebugEvent, VD_ContinueDebugEvent, DebugActiveProcessStop, UnloadVEH,
              SynchronizeNoBreakList, VD_Section, handlers, dll, mapping
<1>7. CASE DebugActiveProcess
  <2>1. initializer.at = "none" /\ initializer'.at = "start" /\ UNCHANGED <<handlerCS, ih>>
    BY <1>7 DEF DebugActiveProcess, handlers
  <2> QED BY <2>1 DEF VD_Section, Holding
<1> QED BY VD_Next, <1>1, <1>2, <1>3, <1>4, <1>5, <1>6, <1>7 DEF VD_Next

\* Which memory the DLL has, through every step
LEMMA VD_ViewStep ==
    ASSUME VD_Inv, VD_Next
    PROVE  VD_View'
<1>0. VD_Types /\ VD_Section /\ VD_View /\ VD_First
  BY DEF VD_Inv
<1>a. /\ "init" \in Actors /\ "poller" \in Actors /\ VD_Threads \subseteq Actors
  BY DEF Actors
<1>h. /\ ih \in [Actors -> Reports] /\ initializer \in Inits /\ poller \in Pollers /\ ce \in Debuggers
      /\ view \in 0 .. VD_MaxAttach /\ VD_MaxAttach \in Nat /\ ce.session \in 0 .. VD_MaxAttach
      /\ registered \in BOOLEAN /\ emergency \in BOOLEAN
  BY <1>0, VDAssumption DEF VD_Types, Debuggers
<1>r. \A a \in Actors : ih[a] \in Reports
  BY <1>h
<1> USE <1>0
<1>1. ASSUME NEW a \in Actors, VD_HandlerStep(a) PROVE VD_View'
  <2>0. UNCHANGED <<initializer, view, overtaken, ce, emergency, registered, poller>>
    BY Zenon, <1>1, VD_Moves DEF VD_HandlerStep, HandlerEnter, HandlerReturn, dll, memory, mapping, target
  <2>1. CASE HandlerEnter(a)
    <3>1. /\ ih[a].at = "enter" /\ ih'[a].at = "record" /\ \A b \in Actors : b # a => ih'[b] = ih[b]
      BY <2>1, <1>h, <1>r DEF HandlerEnter, Reports
    <3> QED BY <2>0, <3>1 DEF VD_View
  <2>2. CASE StoreRecord(a) \/ StoreThread(a) \/ SignalEvent(a) \/ TakeHandle(a)
    <3>1. /\ ih[a].at # "out" /\ (ih'[a].at = "wait" => ih'[a].session = view)
          /\ \A b \in Actors : b # a => ih'[b] = ih[b]
      BY Zenon, <2>2, VD_Moves
    <3>2. view \in 1 .. view
      BY <3>1, <1>h DEF VD_View
    <3> QED BY <2>0, <3>1, <3>2, <1>h DEF VD_View
  <2>3. CASE HandlerReturn(a)
    <3>1. ih'[a].at = "out" /\ \A b \in Actors : b # a => ih'[b] = ih[b]
      BY <2>3, <1>h DEF HandlerReturn, Out, mapping
    <3> QED BY <2>0, <3>1 DEF VD_View
  <2> QED BY <1>1, <2>1, <2>2, <2>3 DEF VD_HandlerStep
<1>2. ASSUME NEW t \in VD_Threads, SkipBreak(t) \/ RaiseStep(t) \/ RaiseOther(t) \/ ThreadStarts(t) \/ ThreadEnds(t)
      PROVE  VD_View'
  <2>1. CASE RaiseStep(t) \/ RaiseOther(t)
    <3>1. /\ registered /\ ih'[t].at = "enter" /\ \A b \in Actors : b # t => ih'[b] = ih[b]
          /\ UNCHANGED <<initializer, view, overtaken, ce, emergency, registered, poller>>
      BY <2>1, <1>a, <1>h DEF RaiseStep, RaiseOther, CanRaise, Call, dll, memory, mapping, target
    <3> QED BY <3>1, <1>a DEF VD_View
  <2>2. CASE SkipBreak(t) \/ ThreadStarts(t) \/ ThreadEnds(t)
    BY <2>2 DEF SkipBreak, ThreadStarts, ThreadEnds, VD_View, handlers, dll, memory, mapping, target
  <2> QED BY <1>2, <2>1, <2>2
<1>3. ASSUME NEW t \in VD_Threads, AddToNoBreakList(t) \/ RemoveFromNoBreakList(t)
      PROVE  VD_View'
  <2>1. PICK l : ListOp(l)
    BY Zenon, <1>3 DEF AddToNoBreakList, RemoveFromNoBreakList
  <2>2. ce'.session = ce.session /\ UNCHANGED <<initializer, view, overtaken, emergency, registered, poller, ih>>
    BY <2>1, <1>h DEF ListOp, handlers, dll, memory, mapping, target, Debuggers
  <2> QED BY <2>2 DEF VD_View
<1>4. CASE PollerStep
  <2>1. CASE PollerStarts \/ UpdateList
    <3>1. poller # NoPoller
      BY <2>1 DEF PollerStarts, UpdateList, PollerIdle, NoPoller
    <3> QED BY <2>1, <3>1 DEF PollerStarts, UpdateList, VD_View, handlers, target, memory, mapping
  <2>2. ASSUME NEW t \in VD_Threads, CreateThreadEvent(t) \/ DestroyThreadEvent(t) PROVE VD_View'
    <3>1. poller # NoPoller
      <4>1. poller.creates # {} \/ poller.ends # {}
        BY Zenon, <2>2 DEF CreateThreadEvent, DestroyThreadEvent
      <4> QED BY <4>1 DEF NoPoller
    <3>2. /\ ih'["poller"].at = "enter"
          /\ \A b \in Actors : b # "poller" => ih'[b] = ih[b]
      <4>1. \E r : r.at = "enter" /\ ih' = [ih EXCEPT !["poller"] = r]
        BY Zenon, <2>2 DEF CreateThreadEvent, DestroyThreadEvent, Call
      <4> QED BY <2>2, <4>1, <1>a, <1>h
    <3>3. UNCHANGED <<initializer, view, overtaken, emergency, registered, ce>>
      BY Zenon, <2>2 DEF CreateThreadEvent, DestroyThreadEvent, memory, mapping, target
    <3> QED BY <3>1, <3>2, <3>3 DEF VD_View
  <2> QED BY <1>4, <2>1, <2>2 DEF PollerStep
<1>5. CASE InitStep
  <2>g. ASSUME NEW from, NEW to, InitGoes(from, to) PROVE initializer.at = from /\ initializer'.at = to
    BY <2>g, <1>h DEF InitGoes, Inits
  <2>1. CASE InitUnload
    <3>1. /\ initializer.at = "start" /\ initializer'.at = "join" /\ ~registered' /\ emergency'
          /\ UNCHANGED <<view, overtaken, ih, poller, ce>>
      BY <2>1, <2>g DEF InitUnload, memory, mapping
    <3> QED BY <3>1 DEF VD_View, Holding
  <2>2. CASE InitJoin
    <3>1. /\ initializer.at = "join" /\ initializer'.at = "fix" /\ poller' = NoPoller
          /\ UNCHANGED <<view, overtaken, ih, ce, registered, emergency>>
      BY <2>2, <2>g DEF InitJoin, memory, mapping, target, handlers
    <3> QED BY <3>1 DEF VD_View, Holding
  <2>3. CASE InitFix
    <3>1. /\ initializer.at = "fix" /\ initializer'.at = "map" /\ ~emergency'
          /\ UNCHANGED <<view, overtaken, ih, ce, registered, poller>>
      BY <2>3, <2>g DEF InitFix, memory, mapping, target
    <3> QED BY <3>1 DEF VD_View, Holding
  <2>4. CASE InitMap
    <3>1. /\ initializer.at = "map" /\ initializer'.at = "hold" /\ view' = ce.session
          /\ UNCHANGED <<ih, ce, registered, poller, emergency>>
      BY SMTT(30), <2>4, <2>g DEF InitMap, target, handlers
    <3>2. view' <= 1 => ~overtaken'
      <4> SUFFICES ASSUME ce.session <= 1 PROVE ~overtaken'
        BY Zenon, <3>1
      <4>1. view < ce.session
        BY Zenon, <3>1 DEF VD_View
      <4>2. view = 0
        BY <4>1, <1>h
      <4>3. \A a \in Actors : ih[a].at = "out"
        BY <4>2 DEF VD_View
      <4> QED BY Zenon, <2>4, <4>3 DEF InitMap, Storing
    <3> QED BY <3>1, <3>2, <1>h DEF VD_View, Holding
  <2>5. CASE InitHold
    <3>1. /\ initializer.at = "hold" /\ initializer'.at = "process" /\ UNCHANGED <<ih, view, overtaken, ce, emergency, poller>>
      BY <2>5 DEF InitHold, memory, mapping
    <3>2. view > 0
      <4>1. view = ce.session
        BY <3>1 DEF VD_View
      <4>2. ce.session # 0
        BY Zenon, <3>1 DEF VD_First
      <4> QED BY <4>1, <4>2, <1>h
    <3> QED BY <3>1, <3>2 DEF VD_View, Holding
  <2>6. ASSUME NEW t \in VD_Threads, InitSend(t) PROVE VD_View'
    <3>1. /\ initializer.at \in Holding /\ initializer'.at = "threads"
          /\ ih'["init"].at = "enter"
          /\ \A b \in Actors : b # "init" => ih'[b] = ih[b]
          /\ UNCHANGED <<view, overtaken, ce, emergency, registered, poller>>
      BY Zenon, <2>6, <1>a, <1>h DEF InitSend, Call, Holding, memory, mapping, target
    <3> QED BY <3>1, <1>a DEF VD_View, Holding
  <2>7. CASE InitAttached
    <3>1. /\ initializer.at \in Holding /\ initializer'.at = "attached"
          /\ ih'["init"].at = "enter"
          /\ \A b \in Actors : b # "init" => ih'[b] = ih[b]
          /\ UNCHANGED <<view, overtaken, ce, emergency, registered>>
      BY <2>7, <2>g, <1>a, <1>h DEF InitAttached, Call, Holding, memory, mapping, target
    <3> QED BY <3>1, <1>a DEF VD_View, Holding
  <2>8. CASE InitRelease
    <3>1. initializer.at = "attached" /\ initializer'.at = "none" /\ UNCHANGED <<ih, view, overtaken, ce, emergency, registered, poller>>
      BY <2>8, <2>g DEF InitRelease, memory, mapping, target
    <3> QED BY <3>1 DEF VD_View, Holding
  <2> QED BY <1>5, <2>1, <2>2, <2>3, <2>4, <2>5, <2>6, <2>7, <2>8 DEF InitStep
<1>6. CASE CEStep \/ DebugActiveProcessStop \/ SynchronizeNoBreakList
  <2>1. ce'.session = ce.session /\ UNCHANGED <<initializer, view, overtaken, emergency, registered, poller, ih>>
    BY Zenon, <1>6, <1>h DEF CEStep, WaitForDebugEvent, VD_ContinueDebugEvent, DebugActiveProcessStop,
              SynchronizeNoBreakList, handlers, dll, memory, mapping, target, Debuggers
  <2> QED BY <2>1 DEF VD_View
<1>7. CASE DebugActiveProcess
  <2>1. /\ initializer.at = "none" /\ initializer'.at = "start" /\ ce'.session = ce.session + 1
        /\ UNCHANGED <<view, overtaken, emergency, registered, poller, ih>>
    BY <1>7, <1>h DEF DebugActiveProcess, handlers, memory, mapping, target, Debuggers
  <2> QED BY <2>1, <1>h DEF VD_View, Holding
<1>8. CASE UnloadVEH
  <2>1. ~registered' /\ UNCHANGED <<initializer, view, overtaken, ce, emergency, poller, ih>>
    BY SMTT(30), <1>8 DEF UnloadVEH, handlers, memory, mapping
  <2> QED BY <2>1 DEF VD_View
<1> QED BY VD_Next, <1>1, <1>2, <1>3, <1>4, <1>5, <1>6, <1>7, <1>8 DEF VD_Next

\* What reports have stored, through every step
LEMMA VD_StoredStep ==
    ASSUME VD_Inv, VD_Next
    PROVE  VD_Stored'
<1>0. VD_Types /\ VD_Section /\ VD_View /\ VD_Stored
  BY DEF VD_Inv
<1>a. /\ "init" \in Actors /\ "poller" \in Actors /\ VD_Threads \subseteq Actors
      /\ Nobody \notin Actors
  BY VDAssumption DEF Actors, Nobody
<1>h. /\ ih \in [Actors -> Reports] /\ ce \in Debuggers
      /\ view \in 0 .. VD_MaxAttach /\ VD_MaxAttach \in Nat /\ ce.session \in 0 .. VD_MaxAttach
      /\ shm \in [Sessions -> Memories]
  BY <1>0, VDAssumption DEF VD_Types, Debuggers
<1>v. \A a \in Actors : ih[a].at # "out" => view \in Sessions
  BY <1>0, <1>h DEF VD_View, Sessions
<1>k. ASSUME UNCHANGED <<view, overtaken>>,
             \A s \in Sessions : shm'[s].tid = shm[s].tid /\ shm'[s].code = shm[s].code,
             \A b \in Actors : ih'[b].at \in {"thread", "event", "handle"} => ih'[b] = ih[b]
      PROVE  VD_Stored'
  <2> SUFFICES ASSUME ~overtaken, NEW b \in Actors, ih'[b].at \in {"thread", "event", "handle"}
               PROVE  /\ shm'[view].code = ih'[b].code
                      /\ ih'[b].at \in {"event", "handle"} => shm'[view].tid = ih'[b].tid
    BY Zenon, <1>k DEF VD_Stored, Storing
  <2>1. ih'[b] = ih[b]
    BY Zenon, <1>k
  <2>2. view \in Sessions
    BY Zenon, <2>1, <1>v
  <2> QED BY Zenon, <2>1, <2>2, <1>k, <1>0 DEF VD_Stored, Storing
<1>1. ASSUME NEW a \in Actors, VD_HandlerStep(a) PROVE VD_Stored'
  <2>1. CASE HandlerEnter(a) \/ HandlerReturn(a)
    <3>1. ih'[a].at \in {"record", "out"} /\ \A b \in Actors : b # a => ih'[b] = ih[b]
      <4>1. CASE HandlerEnter(a)
        BY <4>1, <1>h DEF HandlerEnter, Reports
      <4>2. CASE HandlerReturn(a)
        BY <4>2, <1>h DEF HandlerReturn, Out, mapping
      <4> QED BY Zenon, <2>1, <4>1, <4>2
    <3>2. UNCHANGED <<view, overtaken>>
      BY Zenon, <2>1 DEF HandlerEnter, HandlerReturn, memory, mapping
    <3>3. \A s \in Sessions : shm'[s].tid = shm[s].tid /\ shm'[s].code = shm[s].code
      <4>1. CASE UNCHANGED shm
        BY Zenon, <4>1
      <4>2. CASE shm' = [shm EXCEPT ![ih[a].session].hasHandled = FALSE]
        BY <4>2, <1>h DEF Memories
      <4>3. UNCHANGED shm \/ shm' = [shm EXCEPT ![ih[a].session].hasHandled = FALSE]
        <5>1. CASE HandlerEnter(a)
          BY Zenon, <5>1 DEF HandlerEnter, memory
        <5>2. CASE HandlerReturn(a)
          BY <5>2 DEF HandlerReturn
        <5> QED BY Zenon, <2>1, <5>1, <5>2
      <4> QED BY Zenon, <4>1, <4>2, <4>3
    <3> QED BY Zenon, <3>1, <3>2, <3>3, <1>k
  <2>2. CASE StoreRecord(a) \/ StoreThread(a) \/ SignalEvent(a) \/ TakeHandle(a)
    <3>1. /\ ih[a].at \in {"record", "thread", "event", "handle"}
          /\ ih'[a].tid = ih[a].tid /\ ih'[a].code = ih[a].code
          /\ \A b \in Actors : b # a => ih'[b] = ih[b]
          /\ UNCHANGED <<view, overtaken>>
      BY Zenon, <2>2, <1>0, VD_Moves
    <3>2. view \in Sessions
      BY Zenon, <3>1, <1>v
    <3>3. ASSUME NEW b \in Actors, ih'[b].at \in {"thread", "event", "handle"} PROVE b = a
      <4> SUFFICES ASSUME b # a PROVE FALSE
        BY Zenon
      <4>1. ih[b].at \in Inside /\ ih[a].at \in Inside
        BY Zenon, <3>1, <3>3 DEF Inside
      <4> QED BY Zenon, <4>1, <1>0 DEF VD_Section
    <3>4. ASSUME ~overtaken
          PROVE  /\ ih'[a].at \in {"thread", "event", "handle"} => shm'[view].code = ih[a].code
                 /\ ih'[a].at \in {"event", "handle"} => shm'[view].tid = ih[a].tid
      <4>0. ih \in [Actors -> Reports] /\ ih[a] \in Reports
        BY <1>h
      <4>1. CASE StoreRecord(a)
        <5>1. ih'[a].at = "thread"
          BY <4>0, <4>1 DEF StoreRecord, Stores, Reports
        <5> QED BY Zenon, <4>1, <5>1, <3>2, <1>0, VD_Writes
      <4>2. CASE StoreThread(a)
        <5>1. ih[a].at = "thread"
          BY Zenon, <4>2 DEF StoreThread, Stores
        <5> QED BY Zenon, <4>2, <5>1, <3>2, <3>4, <1>0, VD_Writes DEF VD_Stored, Storing
      <4>3. CASE SignalEvent(a)
        <5>1. ih[a].at = "event"
          BY Zenon, <4>3 DEF SignalEvent, Stores
        <5> QED BY Zenon, <4>3, <5>1, <3>2, <3>4, <1>0, VD_Writes DEF VD_Stored, Storing
      <4>4. CASE TakeHandle(a)
        BY <4>0, <4>4 DEF TakeHandle, Reports
      <4> QED BY Zenon, <2>2, <4>1, <4>2, <4>3, <4>4
    <3> QED BY Zenon, <3>1, <3>3, <3>4 DEF VD_Stored, Storing
  <2> QED BY Zenon, <1>1, <2>1, <2>2 DEF VD_HandlerStep
<1>2. ASSUME NEW t \in VD_Threads, SkipBreak(t) \/ RaiseStep(t) \/ RaiseOther(t) \/ ThreadStarts(t) \/ ThreadEnds(t)
      PROVE  VD_Stored'
  <2>1. UNCHANGED <<view, overtaken, shm>>
    BY Zenon, <1>2 DEF SkipBreak, RaiseStep, RaiseOther, ThreadStarts, ThreadEnds, memory, mapping
  <2>2. \A b \in Actors : ih'[b].at \in {"thread", "event", "handle"} => ih'[b] = ih[b]
    <3>1. UNCHANGED ih \/ \E r : r.at = "enter" /\ ih' = [ih EXCEPT ![t] = r]
      BY Zenon, <1>2 DEF SkipBreak, RaiseStep, RaiseOther, ThreadStarts, ThreadEnds, handlers, Call
    <3> QED BY Zenon, <3>1, <1>h
  <2> QED BY Zenon, <2>1, <2>2, <1>k
<1>3. ASSUME NEW t \in VD_Threads, AddToNoBreakList(t) \/ RemoveFromNoBreakList(t)
      PROVE  VD_Stored'
  <2>1. UNCHANGED <<view, overtaken, shm, ih>>
    BY Zenon, <1>3 DEF AddToNoBreakList, RemoveFromNoBreakList, ListOp, memory, mapping, handlers
  <2> QED BY Zenon, <2>1, <1>k
<1>4. CASE PollerStep
  <2>1. UNCHANGED <<view, overtaken, shm>>
    BY Zenon, <1>4 DEF PollerStep, PollerStarts, UpdateList, CreateThreadEvent, DestroyThreadEvent, memory, mapping
  <2>2. \A b \in Actors : ih'[b].at \in {"thread", "event", "handle"} => ih'[b] = ih[b]
    <3>1. UNCHANGED ih \/ \E r : r.at = "enter" /\ ih' = [ih EXCEPT !["poller"] = r]
      BY Zenon, <1>4 DEF PollerStep, PollerStarts, UpdateList, CreateThreadEvent, DestroyThreadEvent, handlers, Call
    <3> QED BY Zenon, <3>1, <1>h
  <2> QED BY Zenon, <2>1, <2>2, <1>k
<1>5. CASE InitStep
  <2>1. CASE InitMap
    BY Zenon, <2>1 DEF InitMap, VD_Stored, Storing, handlers
  <2>2. CASE InitUnload \/ InitJoin \/ InitFix \/ InitHold \/ InitRelease
    <3>1. UNCHANGED <<view, overtaken, shm, ih>>
      BY Zenon, <2>2 DEF InitUnload, InitJoin, InitFix, InitHold, InitRelease, memory, mapping, handlers
    <3> QED BY Zenon, <3>1, <1>k
  <2>3. CASE InitAttached \/ \E t \in VD_Threads : InitSend(t)
    <3>1. UNCHANGED <<view, overtaken, shm>>
      BY Zenon, <2>3 DEF InitAttached, InitSend, memory, mapping
    <3>2. \E r : r.at = "enter" /\ ih' = [ih EXCEPT !["init"] = r]
      BY Zenon, <2>3 DEF InitAttached, InitSend, Call
    <3>3. \A b \in Actors : ih'[b].at \in {"thread", "event", "handle"} => ih'[b] = ih[b]
      BY Zenon, <3>2, <1>h
    <3> QED BY Zenon, <3>1, <3>3, <1>k
  <2> QED BY Zenon, <1>5, <2>1, <2>2, <2>3 DEF InitStep
<1>6. CASE WaitForDebugEvent \/ VD_ContinueDebugEvent \/ SynchronizeNoBreakList
  <2>1. UNCHANGED <<view, overtaken, ih>>
    BY Zenon, <1>6 DEF WaitForDebugEvent, VD_ContinueDebugEvent, SynchronizeNoBreakList, handlers, mapping
  <2>2. \A s \in Sessions : shm'[s].tid = shm[s].tid /\ shm'[s].code = shm[s].code
    <3>1. CASE WaitForDebugEvent
      <4>1. shm' = [shm EXCEPT ![ce.session].hasDebugEvent = FALSE]
        BY <3>1 DEF WaitForDebugEvent
      <4> QED BY <4>1, <1>h DEF Memories
    <3>2. CASE VD_ContinueDebugEvent
      <4>1. shm' = [shm EXCEPT ![ce.session].hasHandled = TRUE]
        BY Zenon, <3>2 DEF VD_ContinueDebugEvent
      <4> QED BY <4>1, <1>h DEF Memories
    <3>3. CASE SynchronizeNoBreakList
      <4>1. \/ shm' = [shm EXCEPT ![ce.session].list = SyncEntries(ce.noBreakList, shm[ce.session].list)]
            \/ shm' = [shm EXCEPT ![ce.session].size = SyncSize(ce.noBreakList)]
        BY <3>3 DEF SynchronizeNoBreakList
      <4>2. ASSUME NEW l, shm' = [shm EXCEPT ![ce.session].list = l]
            PROVE  \A s \in Sessions : shm'[s].tid = shm[s].tid /\ shm'[s].code = shm[s].code
        BY <4>2, <1>h DEF Memories
      <4>3. ASSUME NEW l, shm' = [shm EXCEPT ![ce.session].size = l]
            PROVE  \A s \in Sessions : shm'[s].tid = shm[s].tid /\ shm'[s].code = shm[s].code
        BY <4>3, <1>h DEF Memories
      <4> QED BY Zenon, <4>1, <4>2, <4>3
    <3> QED BY Zenon, <1>6, <3>1, <3>2, <3>3
  <2> QED BY Zenon, <2>1, <2>2, <1>k
<1>7. CASE DebugActiveProcess \/ DebugActiveProcessStop \/ UnloadVEH
  <2>1. UNCHANGED <<view, overtaken, shm, ih>>
    BY Zenon, <1>7 DEF DebugActiveProcess, DebugActiveProcessStop, UnloadVEH, memory, mapping, handlers
  <2> QED BY Zenon, <2>1, <1>k
<1> QED BY Zenon, VD_Next, <1>1, <1>2, <1>3, <1>4, <1>5, <1>6, <1>7 DEF VD_Next, CEStep

\* The same flags, and whoever waited still does: then the memory is as it was
LEMMA VD_MemoryKept ==
    ASSUME VD_Inv, ce.session \in 0 .. VD_MaxAttach,
           \A s \in Sessions : /\ shm'[s].hasDebugEvent = shm[s].hasDebugEvent
                               /\ shm'[s].hasHandled = shm[s].hasHandled
                               /\ shm'[s].tid = shm[s].tid /\ shm'[s].code = shm[s].code,
           UNCHANGED <<view, overtaken>>,
           ce'.session = ce.session, ce'.at = ce.at, ce'.tid = ce.tid, ce'.code = ce.code, ce'.seen = ce.seen,
           \A a \in Actors : Awaits(a, ce.session) => /\ Awaits(a, ce.session)'
                                                      /\ ih'[a].tid = ih[a].tid /\ ih'[a].code = ih[a].code
    PROVE  VD_Memory'
<1>0. VD_Memory /\ view \in Int /\ VD_MaxAttach \in Nat
  BY SMTT(30), VDAssumption DEF VD_Inv, VD_Types
<1>1. \A s \in Sessions : s > view' => ~shm'[s].hasDebugEvent /\ ~shm'[s].hasHandled
  BY Zenon, <1>0 DEF VD_Memory
<1>2. ce.session > 0 => ce.session \in Sessions
  BY <1>0 DEF Sessions
<1>3. ASSUME ce.session \in Sessions, Owned(ce.session) PROVE Owned(ce.session)'
  <2> DEFINE u == ce.session
  <2>1. /\ shm'[u].hasDebugEvent = shm[u].hasDebugEvent /\ shm'[u].hasHandled = shm[u].hasHandled
        /\ shm'[u].tid = shm[u].tid /\ shm'[u].code = shm[u].code /\ u' = u
    BY Zenon, <1>3
  <2>2. Busy(u)' => \E a \in Actors :
          /\ Awaits(a, u)'
          /\ shm'[u].tid = ih'[a].tid /\ shm'[u].code = ih'[a].code
          /\ ce'.at = "event" => ce'.tid = ih'[a].tid /\ ce'.code = ih'[a].code
    <3> SUFFICES ASSUME Busy(u)' PROVE \E a \in Actors :
          /\ Awaits(a, u)'
          /\ shm'[u].tid = ih'[a].tid /\ shm'[u].code = ih'[a].code
          /\ ce'.at = "event" => ce'.tid = ih'[a].tid /\ ce'.code = ih'[a].code
      BY Zenon
    <3>1. Busy(u)
      BY Zenon, <2>1 DEF Busy
    <3>2. PICK a \in Actors :
          /\ Awaits(a, u)
          /\ shm[u].tid = ih[a].tid /\ shm[u].code = ih[a].code
          /\ ce.at = "event" => ce.tid = ih[a].tid /\ ce.code = ih[a].code
      BY Zenon, <1>3, <3>1 DEF Owned
    <3> QED BY Zenon, <2>1, <3>2
  <2>3. /\ ~(shm'[u].hasDebugEvent /\ ce'.at = "event")
        /\ ~(shm'[u].hasDebugEvent /\ shm'[u].hasHandled)
        /\ ~(ce'.at = "event" /\ shm'[u].hasHandled)
        /\ ce'.at = "event" \/ shm'[u].hasHandled => ce'.seen # {}
    BY Zenon, <1>3, <2>1 DEF Owned
  <2> QED BY Zenon, <2>1, <2>2, <2>3 DEF Owned
<1> QED BY Zenon, <1>0, <1>1, <1>2, <1>3 DEF VD_Memory

\* Nobody waits inside HandlerCS: then the attachment's memory is idle
LEMMA VD_Idle ==
    ASSUME VD_Inv, ce.session > 0, ~overtaken, \A a \in Actors : ~Awaits(a, ce.session)
    PROVE  ~Busy(ce.session)
  BY Zenon DEF VD_Inv, VD_Memory, Owned

\* An idle memory stays so when nothing is published in it
LEMMA VD_StaysIdle ==
    ASSUME VD_Inv, ce.session \in 0 .. VD_MaxAttach,
           ce.session > 0 /\ ~overtaken => ~Busy(ce.session),
           \A s \in Sessions : s > view \/ s = ce.session =>
                shm'[s].hasDebugEvent = shm[s].hasDebugEvent /\ shm'[s].hasHandled = shm[s].hasHandled,
           UNCHANGED <<view, overtaken>>, ce'.session = ce.session, ce'.at = ce.at
    PROVE  VD_Memory'
<1>0. VD_Memory /\ view \in Int /\ VD_MaxAttach \in Nat
  BY SMTT(30), VDAssumption DEF VD_Inv, VD_Types
<1>1. \A s \in Sessions : s > view' => ~shm'[s].hasDebugEvent /\ ~shm'[s].hasHandled
  BY Zenon, <1>0 DEF VD_Memory
<1>2. ce.session > 0 => ce.session \in Sessions
  BY <1>0 DEF Sessions
<1>3. ASSUME ce.session > 0, ~overtaken PROVE Owned(ce.session)'
  <2> DEFINE u == ce.session
  <2>1. ~shm'[u].hasDebugEvent /\ ~shm'[u].hasHandled /\ ce'.at # "event" /\ u' = u
    BY Zenon, <1>2, <1>3 DEF Busy
  <2> QED BY Zenon, <2>1 DEF Owned, Busy
<1> QED BY Zenon, <1>0, <1>1, <1>3 DEF VD_Memory

\* Whose event is in the memory, through every step
LEMMA VD_MemoryStep ==
    ASSUME VD_Inv, VD_Next
    PROVE  VD_Memory'
<1>0. VD_Types /\ VD_Section /\ VD_View /\ VD_Stored /\ VD_Memory /\ VD_List
  BY DEF VD_Inv
<1>a. /\ "init" \in Actors /\ "poller" \in Actors /\ VD_Threads \subseteq Actors
      /\ Nobody \notin Actors
  BY VDAssumption DEF Actors, Nobody
<1>h. /\ ih \in [Actors -> Reports] /\ initializer \in Inits /\ poller \in Pollers /\ ce \in Debuggers
      /\ handlerCS \in [owner : Tids, depth : Nat]
      /\ view \in 0 .. VD_MaxAttach /\ VD_MaxAttach \in Nat /\ ce.session \in 0 .. VD_MaxAttach
      /\ shm \in [Sessions -> Memories]
  BY <1>0, VDAssumption DEF VD_Types, Debuggers
<1>r. \A a \in Actors : ih[a] \in Reports
  BY <1>h
<1>s. ce.session > 0 => ce.session \in Sessions
  BY <1>h DEF Sessions
<1>k. ASSUME UNCHANGED <<view, overtaken, shm, ce>>,
             \A a \in Actors : handlerCS.owner = a /\ ih[a].at \in {"handle", "wait"} =>
                                handlerCS'.owner = a /\ ih'[a] = ih[a]
      PROVE  VD_Memory'
  <2>1. \A a \in Actors : Awaits(a, ce.session) => Awaits(a, ce.session)' /\ ih'[a] = ih[a]
    BY Zenon, <1>k DEF Awaits
  <2> QED BY Zenon, <1>k, <2>1, <1>h, VD_MemoryKept
<1>1. ASSUME NEW a \in Actors, VD_HandlerStep(a) PROVE VD_Memory'
  <2>0. UNCHANGED <<view, overtaken, ce>>
    BY Zenon, <1>1, <1>0, VD_Moves DEF VD_HandlerStep, HandlerEnter, HandlerReturn, memory, mapping
  <2>1. CASE HandlerEnter(a)
    <3>1. /\ UNCHANGED shm /\ handlerCS.owner \in {Nobody, a} /\ ih[a].at = "enter"
      BY <2>1 DEF HandlerEnter, MayEnter, memory, mapping
    <3>2. \A b \in Actors : ~(handlerCS.owner = b /\ ih[b].at \in {"handle", "wait"})
      BY <3>1, <1>a
    <3> QED BY Zenon, <2>0, <3>1, <3>2, <1>k
  <2>2. CASE StoreRecord(a) \/ StoreThread(a) \/ SignalEvent(a)
    <3>1. ih[a].at \in {"record", "thread", "event"}
      BY Zenon, <2>2 DEF StoreRecord, StoreThread, SignalEvent, Stores
    <3>2. handlerCS.owner = a /\ view \in Sessions
      BY <3>1, <1>0, <1>h DEF VD_Section, Inside, VD_View, Sessions
    <3>3. ce.session > 0 /\ ~overtaken => ~Busy(ce.session)
      BY <3>1, <3>2, VD_Idle DEF Awaits
    <3>4. \A s \in Sessions : s # view => shm'[s] = shm[s]
      BY Zenon, <2>2, <3>2, <1>0, VD_Writes
    <3>5. CASE view # ce.session \/ ~SignalEvent(a)
      <4>1. ASSUME NEW s \in Sessions, s > view \/ s = ce.session
            PROVE  shm'[s].hasDebugEvent = shm[s].hasDebugEvent /\ shm'[s].hasHandled = shm[s].hasHandled
        <5>1. CASE s = view
          <6>1. s = ce.session
            BY SMTT(30), <4>1, <5>1, <1>h DEF Sessions
          <6> QED BY Zenon, <2>2, <3>2, <3>5, <5>1, <6>1, <1>0, VD_Writes
        <5> QED BY Zenon, <3>4, <5>1
      <4> QED BY Zenon, <2>0, <3>3, <4>1, <1>h, VD_StaysIdle
    <3>6. CASE view = ce.session /\ SignalEvent(a)
      <4>1. /\ ih[a].at = "event" /\ ih'[a].tid = ih[a].tid /\ ih'[a].code = ih[a].code
            /\ handlerCS' = handlerCS
        BY Zenon, <3>6, <1>0, VD_Moves DEF SignalEvent, Stores
      <4>2. ih'[a].at = "handle"
        BY <3>6, <1>h, <1>r DEF SignalEvent, Stores, Reports
      <4>3. /\ shm'[view].hasDebugEvent /\ shm'[view].tid = shm[view].tid /\ shm'[view].code = shm[view].code
            /\ shm'[view].hasHandled = shm[view].hasHandled
        BY Zenon, <3>2, <3>6, <1>0, VD_Writes
      <4>4. view > 0
        BY <3>2, <1>h DEF Sessions
      <4>5. ASSUME ~overtaken PROVE Owned(view)'
        <5>1. ~shm[view].hasHandled /\ ce.at # "event"
          BY Zenon, <3>3, <3>6, <4>4, <4>5 DEF Busy
        <5>2. shm[view].tid = ih[a].tid /\ shm[view].code = ih[a].code
          BY Zenon, <4>1, <4>5, <1>0 DEF VD_Stored, Storing
        <5>3. Awaits(a, view)'
          BY Zenon, <2>0, <3>2, <4>1, <4>2 DEF Awaits
        <5> QED BY Zenon, <2>0, <4>1, <4>3, <5>1, <5>2, <5>3 DEF Owned, Busy
      <4>6. \A s \in Sessions : s > view => ~shm'[s].hasDebugEvent /\ ~shm'[s].hasHandled
        <5>1. \A s \in Sessions : s > view => s # view
          BY <1>h DEF Sessions
        <5> QED BY Zenon, <3>4, <5>1, <1>0 DEF VD_Memory
      <4> QED BY Zenon, <2>0, <3>6, <4>5, <4>6, <1>0 DEF VD_Memory
    <3> QED BY Zenon, <3>5, <3>6
  <2>4. CASE TakeHandle(a)
    <3>1. UNCHANGED <<shm, handlerCS>> /\ ih[a].at = "handle"
      BY Zenon, <2>4 DEF TakeHandle, memory, mapping
    <3>2. /\ ih'[a].at = "wait" /\ ih'[a].session = view
          /\ ih'[a].tid = ih[a].tid /\ ih'[a].code = ih[a].code /\ \A b \in Actors : b # a => ih'[b] = ih[b]
      BY <2>4, <1>h, <1>r DEF TakeHandle, Reports
    <3>3. ASSUME NEW b \in Actors, Awaits(b, ce.session)
          PROVE  Awaits(b, ce.session)' /\ ih'[b].tid = ih[b].tid /\ ih'[b].code = ih[b].code
      <4>1. CASE b = a
        <5>1. view = ce.session
          BY Zenon, <3>1, <3>3, <4>1 DEF Awaits
        <5> QED BY Zenon, <2>0, <3>1, <3>2, <3>3, <4>1, <5>1 DEF Awaits
      <4>2. CASE b # a
        BY Zenon, <2>0, <3>1, <3>2, <3>3, <4>2 DEF Awaits
      <4> QED BY Zenon, <4>1, <4>2
    <3> QED BY Zenon, <2>0, <3>1, <3>3, <1>h, VD_MemoryKept
  <2>3. CASE HandlerReturn(a)
    <3> DEFINE u == ih[a].session
    <3>1. ih[a].at = "wait" /\ handlerCS.owner = a /\ u \in 1 .. view
      BY <2>3, <1>0 DEF HandlerReturn, VD_Section, Inside, VD_View, mapping
    <3>2. u \in Sessions
      BY <3>1, <1>h DEF Sessions
    <3>3. u # ce.session => (ce.session > 0 /\ ~overtaken => ~Busy(ce.session))
      BY <3>1, <1>a, VD_Idle DEF Awaits
    <3>4. CASE emergency /\ UNCHANGED shm
      <4>1. u # ce.session
        BY <3>1, <3>4, <1>0, <1>h DEF VD_View
      <4> QED BY Zenon, <2>0, <3>3, <3>4, <4>1, <1>h, VD_StaysIdle
    <3>5. CASE shm[u].hasHandled /\ shm' = [shm EXCEPT ![u].hasHandled = FALSE]
      <4>1. shm[u] \in Memories
        BY <3>2, <1>h
      <4>2. shm'[u].hasDebugEvent = shm[u].hasDebugEvent /\ ~shm'[u].hasHandled
        BY <3>2, <3>5, <4>1, <1>h DEF Memories
      <4>3. \A s \in Sessions : s # u => shm'[s] = shm[s]
        BY <3>2, <3>5, <1>h
      <4> HIDE DEF u
      <4>4. \A s \in Sessions : s > view => s # u
        BY <3>1, <1>h DEF Sessions
      <4>5. CASE u # ce.session
        BY Zenon, <2>0, <3>3, <4>3, <4>4, <4>5, <1>h, VD_StaysIdle
      <4>6. CASE u = ce.session
        <5>1. u > 0
          BY <3>1, <1>h
        <5>2. \A s \in Sessions : s > view => ~shm'[s].hasDebugEvent /\ ~shm'[s].hasHandled
          BY Zenon, <4>3, <4>4, <1>0 DEF VD_Memory
        <5>3. ASSUME ~overtaken PROVE Owned(ce.session)'
          <6>1. ~shm[u].hasDebugEvent /\ ce.at # "event"
            BY Zenon, <3>5, <4>6, <5>1, <5>3, <1>0 DEF VD_Memory, Owned
          <6> QED BY Zenon, <2>0, <4>2, <4>6, <6>1 DEF Owned, Busy
        <5> QED BY Zenon, <2>0, <5>2, <5>3, <1>0 DEF VD_Memory
      <4> QED BY Zenon, <4>5, <4>6
    <3> QED BY Zenon, <2>3, <3>4, <3>5 DEF HandlerReturn, mapping
  <2> QED BY Zenon, <1>1, <2>1, <2>2, <2>3, <2>4 DEF VD_HandlerStep
<1>2. ASSUME NEW t \in VD_Threads, SkipBreak(t) \/ RaiseStep(t) \/ RaiseOther(t) \/ ThreadStarts(t) \/ ThreadEnds(t)
      PROVE  VD_Memory'
  <2>1. CASE RaiseStep(t) \/ RaiseOther(t)
    <3>1. /\ ih[t].at = "out" /\ \A b \in Actors : b # t => ih'[b] = ih[b]
          /\ UNCHANGED <<view, overtaken, shm, ce, handlerCS>>
      BY <2>1, <1>a, <1>h DEF RaiseStep, RaiseOther, CanRaise, memory, mapping
    <3> QED BY <3>1, <1>a, <1>k
  <2>2. CASE SkipBreak(t) \/ ThreadStarts(t) \/ ThreadEnds(t)
    BY <2>2, <1>k DEF SkipBreak, ThreadStarts, ThreadEnds, handlers, memory, mapping
  <2> QED BY <1>2, <2>1, <2>2
<1>3. ASSUME NEW t \in VD_Threads, AddToNoBreakList(t) \/ RemoveFromNoBreakList(t)
      PROVE  VD_Memory'
  <2>1. PICK l : ListOp(l)
    BY Zenon, <1>3 DEF AddToNoBreakList, RemoveFromNoBreakList
  <2>2. /\ ce'.session = ce.session /\ ce'.at = ce.at /\ ce'.tid = ce.tid /\ ce'.code = ce.code /\ ce'.seen = ce.seen
        /\ UNCHANGED <<view, overtaken, shm, handlerCS, ih>>
    BY <2>1, <1>h DEF ListOp, handlers, memory, mapping, Debuggers
  <2> QED BY <2>2, <1>h, VD_MemoryKept DEF Awaits
<1>4. CASE PollerStep
  <2>1. CASE PollerStarts \/ UpdateList
    BY <2>1, <1>k DEF PollerStarts, UpdateList, handlers, memory, mapping
  <2>2. ASSUME NEW t \in VD_Threads, CreateThreadEvent(t) \/ DestroyThreadEvent(t) PROVE VD_Memory'
    <3>1. ih["poller"].at = "out" /\ UNCHANGED <<view, overtaken, shm, ce, handlerCS>>
      BY Zenon, <2>2 DEF CreateThreadEvent, DestroyThreadEvent, memory, mapping
    <3>2. \A b \in Actors : b # "poller" => ih'[b] = ih[b]
      <4>1. \E r : ih' = [ih EXCEPT !["poller"] = r]
        BY Zenon, <2>2 DEF CreateThreadEvent, DestroyThreadEvent
      <4> QED BY <4>1, <1>h
    <3> QED BY <3>1, <3>2, <1>a, <1>k
  <2> QED BY <1>4, <2>1, <2>2 DEF PollerStep
<1>5. CASE InitStep
  <2>g. ASSUME NEW from, NEW to, InitGoes(from, to) PROVE initializer.at = from /\ initializer'.at = to
    BY <2>g, <1>h DEF InitGoes, Inits
  <2>1. CASE InitUnload \/ InitJoin \/ InitFix
    BY <2>1, <1>k DEF InitUnload, InitJoin, InitFix, handlers, memory, mapping
  <2>4. CASE InitMap
    <3>1. /\ initializer.at = "map" /\ view' = ce.session
          /\ UNCHANGED <<ih, ce, shm, handlerCS>>
      BY <2>4, <2>g DEF InitMap, handlers
    <3>2. view < ce.session /\ ce.session \in Sessions
      BY <3>1, <1>0, <1>h DEF VD_View, Sessions
    <3>3. ~Busy(ce.session)
      <4>1. ce.session > view /\ ~(ce.session <= view)
        BY <3>2, <1>h
      <4> QED BY Zenon, <3>2, <4>1, <1>0 DEF VD_Memory, Busy
    <3>4. \A s \in Sessions : s > view' => ~shm'[s].hasDebugEvent /\ ~shm'[s].hasHandled
      <4>1. \A s \in Sessions : s > ce.session => s > view
        BY <3>2, <1>h DEF Sessions
      <4> QED BY Zenon, <3>1, <4>1, <1>0 DEF VD_Memory
    <3>5. Owned(ce.session)'
      BY Zenon, <3>1, <3>3 DEF Owned, Busy
    <3>6. ce'.at # "event" /\ (ce'.at # "off" => ce'.session > 0)
      BY Zenon, <3>1, <3>3, <1>0 DEF VD_Memory, Busy
    <3> QED BY Zenon, <3>4, <3>5, <3>6 DEF VD_Memory
  <2>5. CASE InitHold
    <3>1. /\ initializer.at = "hold" /\ UNCHANGED <<ih, view, overtaken, shm, ce>> /\ handlerCS.owner \in {Nobody, "init"}
      BY <2>5 DEF InitHold, memory, mapping, MayEnter
    <3>2. \A b \in Actors : ~(handlerCS.owner = b /\ ih[b].at \in {"handle", "wait"})
      BY <3>1, <1>a, <1>0 DEF VD_Section
    <3> QED BY <3>1, <3>2, <1>k
  <2>6. ASSUME NEW t \in VD_Threads, InitSend(t) PROVE VD_Memory'
    <3>1. ih["init"].at = "out" /\ UNCHANGED <<view, overtaken, ce, shm, handlerCS>>
      BY Zenon, <2>6 DEF InitSend, memory, mapping
    <3>2. \A b \in Actors : b # "init" => ih'[b] = ih[b]
      BY Zenon, <2>6, <1>h DEF InitSend
    <3> QED BY <3>1, <3>2, <1>a, <1>k
  <2>7. CASE InitAttached
    <3>1. ih["init"].at = "out" /\ UNCHANGED <<view, overtaken, ce, shm, handlerCS>>
      BY <2>7 DEF InitAttached, memory, mapping
    <3>2. \A b \in Actors : b # "init" => ih'[b] = ih[b]
      BY <2>7, <1>h DEF InitAttached
    <3> QED BY <3>1, <3>2, <1>a, <1>k
  <2>8. CASE InitRelease
    <3>1. initializer.at = "attached" /\ ih["init"].at = "out" /\ UNCHANGED <<ih, view, overtaken, ce, shm>>
      BY <2>8, <2>g DEF InitRelease, memory, mapping
    <3>2. \A b \in Actors : ~(handlerCS.owner = b /\ ih[b].at \in {"handle", "wait"})
      BY SMTT(30), <3>1, <1>a, <1>0 DEF VD_Section, Holding
    <3> QED BY <3>1, <3>2, <1>k
  <2> QED BY <1>5, <2>1, <2>4, <2>5, <2>6, <2>7, <2>8 DEF InitStep
<1>6. CASE WaitForDebugEvent
  <2> DEFINE u == ce.session
             m == [shm[u] EXCEPT !.hasDebugEvent = FALSE]
  <2>1. ce.at = "loop" /\ u \in Sessions /\ u > 0 /\ shm[u] \in Memories
    BY <1>6, <1>0, <1>h, <1>s DEF WaitForDebugEvent, VD_Memory, mapping
  <2>2. shm' = [shm EXCEPT ![u] = m] /\ UNCHANGED <<view, overtaken, ih, handlerCS>> /\ shm[u].hasDebugEvent
    BY <1>6 DEF WaitForDebugEvent, handlers, mapping
  <2>3. ~m.hasDebugEvent /\ m.hasHandled = shm[u].hasHandled /\ m.tid = shm[u].tid /\ m.code = shm[u].code
    BY <2>1 DEF Memories
  <2> HIDE DEF m
  <2>4. shm'[u] = m /\ \A s \in Sessions : s # u => shm'[s] = shm[s]
    BY <2>1, <2>2, <1>h
  <2>5. ce'.at = "event" /\ ce'.tid = shm[u].tid /\ ce'.code = shm[u].code /\ ce'.seen # {} /\ ce'.session = u
    BY ZenonT(40), <1>6, <1>h DEF WaitForDebugEvent, Debuggers, mapping
  <2>6. u <= view
    <3>1. ~(u > view)
      BY Zenon, <2>1, <2>2, <1>0 DEF VD_Memory
    <3> QED BY <3>1, <1>h
  <2> HIDE DEF u
  <2>7. \A s \in Sessions : s > view => ~shm'[s].hasDebugEvent /\ ~shm'[s].hasHandled
    <3>1. \A s \in Sessions : s > view => s # u
      BY <2>6, <1>h DEF Sessions
    <3> QED BY Zenon, <2>4, <3>1, <1>0 DEF VD_Memory
  <2>8. ASSUME ~overtaken PROVE Owned(u)'
    <3>0. Owned(u)
      BY Zenon, <2>1, <2>8, <1>0 DEF VD_Memory, u
    <3>1. PICK a \in Actors : Awaits(a, u) /\ shm[u].tid = ih[a].tid /\ shm[u].code = ih[a].code
      BY Zenon, <2>2, <3>0 DEF Owned, Busy
    <3>2. ~shm[u].hasHandled
      BY Zenon, <2>2, <3>0 DEF Owned
    <3>3. Awaits(a, u)' /\ u' = u
      BY Zenon, <2>2, <2>5, <3>1 DEF Awaits, u
    <3>4. /\ ~shm'[u].hasDebugEvent /\ ~shm'[u].hasHandled
          /\ shm'[u].tid = ih'[a].tid /\ shm'[u].code = ih'[a].code
          /\ ce'.tid = ih'[a].tid /\ ce'.code = ih'[a].code
      BY Zenon, <2>2, <2>3, <2>4, <2>5, <3>1, <3>2
    <3> QED BY Zenon, <2>5, <3>3, <3>4 DEF Owned, Busy
  <2> QED BY Zenon, <2>1, <2>2, <2>5, <2>6, <2>7, <2>8 DEF VD_Memory, u
<1>7. CASE VD_ContinueDebugEvent
  <2> DEFINE u == ce.session
             m == [shm[u] EXCEPT !.hasHandled = TRUE]
  <2>1. ce.at = "event" /\ u \in Sessions /\ u > 0 /\ shm[u] \in Memories
    BY <1>7, <1>0, <1>h, <1>s DEF VD_ContinueDebugEvent, VD_Memory, mapping
  <2>2. shm' = [shm EXCEPT ![u] = m] /\ UNCHANGED <<view, overtaken, ih, handlerCS>>
    BY <1>7 DEF VD_ContinueDebugEvent, handlers, mapping
  <2>3. m.hasHandled /\ m.hasDebugEvent = shm[u].hasDebugEvent /\ m.tid = shm[u].tid /\ m.code = shm[u].code
    BY <2>1 DEF Memories
  <2> HIDE DEF m
  <2>4. shm'[u] = m /\ \A s \in Sessions : s # u => shm'[s] = shm[s]
    BY <2>1, <2>2, <1>h
  <2>5. ce'.at = "loop" /\ ce'.seen = ce.seen /\ ce'.session = u
    BY SMTT(30), <1>7, <1>h DEF VD_ContinueDebugEvent, Debuggers, mapping
  <2>6. u <= view
    BY Zenon, <2>1, <1>0 DEF VD_Memory
  <2> HIDE DEF u
  <2>7. \A s \in Sessions : s > view => ~shm'[s].hasDebugEvent /\ ~shm'[s].hasHandled
    <3>1. \A s \in Sessions : s > view => s # u
      BY <2>6, <1>h DEF Sessions, u
    <3> QED BY Zenon, <2>4, <3>1, <1>0 DEF VD_Memory
  <2>8. ASSUME ~overtaken PROVE Owned(u)'
    <3>0. Owned(u)
      BY Zenon, <2>1, <2>8, <1>0 DEF VD_Memory, u
    <3>1. PICK a \in Actors : Awaits(a, u) /\ shm[u].tid = ih[a].tid /\ shm[u].code = ih[a].code
      BY Zenon, <2>1, <3>0 DEF Owned, Busy
    <3>2. ~shm[u].hasDebugEvent /\ ce.seen # {}
      BY Zenon, <2>1, <3>0 DEF Owned
    <3>3. Awaits(a, u)' /\ u' = u
      BY Zenon, <2>2, <2>5, <3>1 DEF Awaits, u
    <3>4. /\ ~shm'[u].hasDebugEvent /\ shm'[u].hasHandled
          /\ shm'[u].tid = ih'[a].tid /\ shm'[u].code = ih'[a].code
      BY Zenon, <2>2, <2>3, <2>4, <3>1, <3>2
    <3> QED BY Zenon, <2>5, <3>2, <3>3, <3>4 DEF Owned, Busy
  <2> QED BY Zenon, <2>1, <2>2, <2>5, <2>7, <2>8, <1>0 DEF VD_Memory, u
<1>8. CASE DebugActiveProcess
  <2> DEFINE u == ce.session + 1
  <2>1. /\ initializer.at = "none" /\ ce'.session = u /\ ce'.at = "loop" /\ u \in Sessions
        /\ UNCHANGED <<view, overtaken, shm, ih, handlerCS>>
    BY <1>8, <1>h DEF DebugActiveProcess, handlers, memory, mapping, Debuggers, Sessions
  <2>2. view = ce.session
    BY <2>1, <1>0 DEF VD_View
  <2>3. u > view /\ u > 0
    BY SMTT(30), <2>2, <1>h
  <2>4. ~shm[u].hasDebugEvent /\ ~shm[u].hasHandled
    BY SMTT(30), <2>1, <2>3, <1>0 DEF VD_Memory
  <2> HIDE DEF u
  <2> QED BY Zenon, <2>1, <2>3, <2>4, <1>0 DEF VD_Memory, Owned, Busy
<1>9. CASE DebugActiveProcessStop
  <2>1. /\ ce'.session = ce.session /\ ce'.at = "off" /\ ce.at = "loop" /\ ce'.seen = ce.seen
        /\ UNCHANGED <<view, overtaken, shm, ih, handlerCS>>
    BY <1>9, <1>h DEF DebugActiveProcessStop, handlers, memory, mapping, Debuggers
  <2> QED BY <2>1, <1>0 DEF VD_Memory, Owned, Busy, Awaits
<1>10. CASE UnloadVEH
  BY SMTT(30), <1>10, <1>k DEF UnloadVEH, handlers, memory, mapping
<1>11. CASE SynchronizeNoBreakList
  <2>1. ce.session \in Sessions
    BY <1>11, <1>0, <1>s DEF SynchronizeNoBreakList, VD_List, mapping
  <2> DEFINE u == ce.session
  <2>2. shm[u] \in Memories
    BY <2>1, <1>h
  <2>3. PICK m : /\ shm' = [shm EXCEPT ![u] = m]
                 /\ m.hasDebugEvent = shm[u].hasDebugEvent /\ m.hasHandled = shm[u].hasHandled
                 /\ m.tid = shm[u].tid /\ m.code = shm[u].code
    <3>1. \E l : shm' = [shm EXCEPT ![u] = [shm[u] EXCEPT !.list = l]]
                 \/ shm' = [shm EXCEPT ![u] = [shm[u] EXCEPT !.size = l]]
      BY Zenon, <1>11 DEF SynchronizeNoBreakList, mapping
    <3> QED BY <3>1, <2>2 DEF Memories
  <2>4. \A s \in Sessions : /\ shm'[s].hasDebugEvent = shm[s].hasDebugEvent
                            /\ shm'[s].hasHandled = shm[s].hasHandled
                            /\ shm'[s].tid = shm[s].tid /\ shm'[s].code = shm[s].code
    BY <2>1, <2>3, <1>h
  <2>5. /\ ce'.session = ce.session /\ ce'.at = ce.at /\ ce'.tid = ce.tid /\ ce'.code = ce.code /\ ce'.seen = ce.seen
        /\ UNCHANGED <<view, overtaken, handlerCS, ih>>
    BY <1>11, <1>h DEF SynchronizeNoBreakList, handlers, Debuggers, mapping
  <2> QED BY <2>4, <2>5, <1>h, VD_MemoryKept DEF Awaits
<1> QED BY VD_Next, <1>1, <1>2, <1>3, <1>4, <1>5, <1>6, <1>7, <1>8, <1>9, <1>10, <1>11 DEF VD_Next, CEStep

\* The first attachment up to the creation of the process, through every step
LEMMA VD_FirstStep ==
    ASSUME VD_Inv, VD_Next
    PROVE  VD_First'
<1>0. VD_Types /\ VD_Section /\ VD_View /\ VD_Memory /\ VD_First
  BY DEF VD_Inv
<1>a. /\ "init" \in Actors /\ "poller" \in Actors /\ VD_Threads \subseteq Actors
      /\ "init" \notin VD_Threads /\ "poller" \notin VD_Threads
  BY SMTT(30), VDAssumption DEF Actors
<1>h. /\ ih \in [Actors -> Reports] /\ initializer \in Inits /\ poller \in Pollers /\ ce \in Debuggers
      /\ view \in 0 .. VD_MaxAttach /\ VD_MaxAttach \in Nat /\ ce.session \in 0 .. VD_MaxAttach
  BY <1>0, VDAssumption DEF VD_Types, Debuggers
<1>r. \A a \in Actors : ih[a] \in Reports
  BY <1>h
<1>o. /\ 1 <= 1 /\ 1 > 0 /\ \A v \in 1 .. 1 : v = 1
      /\ \A v \in 0 .. VD_MaxAttach : v < 1 => v <= 1
  BY VDAssumption
<1> DEFINE Unseen == ce.session = 1 /\ "create process" \notin ce.seen
<1>1. ASSUME NEW a \in Actors, VD_HandlerStep(a) PROVE VD_First'
  <2>0. UNCHANGED <<initializer, registered, poller, ce>> /\ ih[a].at # "out"
    BY Zenon, <1>1, <1>0, VD_Moves DEF VD_HandlerStep, HandlerEnter, HandlerReturn, target, dll, mapping
  <2>1. CASE ~HandlerReturn(a)
    <3>1. ih'[a].at # "out" /\ ih'[a].code = ih[a].code /\ \A b \in Actors : b # a => ih'[b] = ih[b]
      <4>1. CASE HandlerEnter(a)
        BY <4>1, <1>h, <1>r DEF HandlerEnter, Reports
      <4>2. CASE StoreRecord(a) \/ StoreThread(a) \/ SignalEvent(a) \/ TakeHandle(a)
        BY Zenon, <4>2, <1>0, VD_Moves
      <4> QED BY Zenon, <1>1, <2>1, <4>1, <4>2 DEF VD_HandlerStep
    <3> QED BY Zenon, <2>0, <3>1, <1>0, <1>a DEF VD_First
  <2>2. CASE HandlerReturn(a)
    <3>1. ih'[a].at = "out" /\ ih[a].at = "wait" /\ \A b \in Actors : b # a => ih'[b] = ih[b]
      BY SMTT(30), <2>2, <1>h DEF HandlerReturn, Out, mapping
    <3>2. Unseen => a # "init"
      <4> SUFFICES ASSUME Unseen, a = "init" PROVE FALSE
        BY Zenon
      <4>1. initializer.at = "threads" /\ ce.seen = {}
        BY Zenon, <2>0, <1>0, <1>a DEF VD_First, VD_Section
      <4>2. ~emergency /\ view = 1 /\ ih[a].session \in 1 .. view
        BY <3>1, <4>1, <1>0 DEF VD_View, Holding
      <4>3. ih[a].session = 1
        BY <4>2, <1>o, Zenon
      <4>4. shm[1].hasHandled
        BY Zenon, <2>2, <4>2, <4>3 DEF HandlerReturn, mapping
      <4>5. ~overtaken /\ ce.session > 0
        BY Zenon, <4>2, <1>o, <1>0 DEF VD_View
      <4> QED BY Zenon, <4>1, <4>4, <4>5, <1>0 DEF VD_Memory, Owned
    <3> QED BY Zenon, <2>0, <3>1, <3>2, <1>0, <1>a DEF VD_First
  <2> QED BY <1>1, <2>1, <2>2 DEF VD_HandlerStep
<1>2. ASSUME NEW t \in VD_Threads, SkipBreak(t) \/ RaiseStep(t) \/ RaiseOther(t) \/ ThreadStarts(t) \/ ThreadEnds(t)
      PROVE  VD_First'
  <2>1. CASE RaiseStep(t) \/ RaiseOther(t)
    <3>1. /\ registered /\ \A b \in Actors : b # t => ih'[b] = ih[b]
          /\ UNCHANGED <<initializer, registered, poller, ce>>
      BY <2>1, <1>a, <1>h DEF RaiseStep, RaiseOther, CanRaise, target, dll
    <3> QED BY Zenon, <3>1, <1>0, <1>a DEF VD_First
  <2>2. CASE SkipBreak(t) \/ ThreadStarts(t) \/ ThreadEnds(t)
    <3>1. UNCHANGED <<ih, initializer, registered, poller, ce>>
      BY <2>2 DEF SkipBreak, ThreadStarts, ThreadEnds, handlers, target, dll
    <3> QED BY Zenon, <3>1, <1>0 DEF VD_First
  <2> QED BY <1>2, <2>1, <2>2
<1>3. ASSUME NEW t \in VD_Threads, AddToNoBreakList(t) \/ RemoveFromNoBreakList(t)
      PROVE  VD_First'
  <2>1. PICK l : ListOp(l)
    BY Zenon, <1>3 DEF AddToNoBreakList, RemoveFromNoBreakList
  <2>2. /\ ce'.session = ce.session /\ ce'.seen = ce.seen
        /\ UNCHANGED <<initializer, registered, poller, ih>>
    BY <2>1, <1>h DEF ListOp, handlers, target, dll, Debuggers
  <2> QED BY Zenon, <2>2, <1>0 DEF VD_First
<1>4. CASE PollerStep
  <2>1. poller # NoPoller
    <3>1. CASE PollerStarts \/ UpdateList
      BY <3>1 DEF PollerStarts, UpdateList, PollerIdle, NoPoller
    <3>2. ASSUME NEW t \in VD_Threads, CreateThreadEvent(t) \/ DestroyThreadEvent(t) PROVE poller # NoPoller
      <4>1. poller.creates # {} \/ poller.ends # {}
        BY Zenon, <3>2 DEF CreateThreadEvent, DestroyThreadEvent
      <4> QED BY <4>1 DEF NoPoller
    <3> QED BY <1>4, <3>1, <3>2 DEF PollerStep
  <2>2. UNCHANGED ce
    BY Zenon, <1>4 DEF PollerStep, PollerStarts, UpdateList, CreateThreadEvent, DestroyThreadEvent
  <2> QED BY Zenon, <2>1, <2>2, <1>0 DEF VD_First
<1>5. CASE InitStep
  <2>g. ASSUME NEW from, NEW to, InitGoes(from, to) PROVE initializer.at = from /\ initializer'.at = to
    BY <2>g, <1>h DEF InitGoes, Inits
  <2>1. CASE InitUnload \/ InitJoin \/ InitFix \/ InitMap
    <3>1. /\ initializer.at \in {"start", "join", "fix", "map"}
          /\ initializer'.at \in {"start", "join", "fix", "map", "hold"}
          /\ UNCHANGED <<ih, ce>> /\ (registered' => registered) /\ (poller = NoPoller => poller' = NoPoller)
      <4>1. CASE InitUnload
        BY <4>1, <2>g DEF InitUnload
      <4>2. CASE InitJoin
        BY <4>2, <2>g DEF InitJoin, handlers, target
      <4>3. CASE InitFix
        BY <4>3, <2>g DEF InitFix, target
      <4>4. CASE InitMap
        BY <4>4, <2>g DEF InitMap, handlers, target
      <4> QED BY Zenon, <2>1, <4>1, <4>2, <4>3, <4>4
    <3> QED BY Zenon, <3>1, <1>0 DEF VD_First
  <2>5. CASE InitHold
    <3>1. initializer.at = "hold" /\ initializer'.at = "process" /\ UNCHANGED <<ih, ce, poller>>
      BY <2>5 DEF InitHold
    <3> QED BY Zenon, <3>1, <1>0, <1>a DEF VD_First
  <2>6. ASSUME NEW t \in VD_Threads, InitSend(t) PROVE VD_First'
    <3>1. /\ ih["init"].at = "out" /\ initializer.at \in {"process", "threads"} /\ initializer'.at = "threads"
          /\ UNCHANGED <<poller, ce, registered>>
      BY Zenon, <2>6 DEF InitSend, target
    <3>2. /\ \A b \in Actors : b # "init" => ih'[b] = ih[b]
          /\ ih'["init"].at = "enter"
          /\ initializer.at = "process" => ih'["init"].code = "create process"
      BY Zenon, <2>6, <1>h, <1>a DEF InitSend, Call
    <3> QED BY Zenon, <3>1, <3>2, <1>0, <1>a DEF VD_First
  <2>7. CASE InitAttached
    <3>1. ih["init"].at = "out" /\ initializer.at = "threads" /\ UNCHANGED ce
      BY <2>7, <2>g DEF InitAttached
    <3> QED BY Zenon, <3>1, <1>0, <1>a DEF VD_First
  <2>8. CASE InitRelease
    <3>1. initializer.at = "attached" /\ UNCHANGED ce
      BY <2>8, <2>g DEF InitRelease
    <3> QED BY Zenon, <3>1, <1>0 DEF VD_First
  <2> QED BY <1>5, <2>1, <2>5, <2>6, <2>7, <2>8 DEF InitStep
<1>6. CASE WaitForDebugEvent
  <2> DEFINE u == ce.session
  <2>1. /\ ce.at = "loop" /\ shm[u].hasDebugEvent
        /\ UNCHANGED <<initializer, registered, poller, ih>>
    BY SMTT(30), <1>6 DEF WaitForDebugEvent, handlers, target, dll, mapping
  <2>2. u > 0
    BY <2>1, <1>0 DEF VD_Memory
  <2>3. ce'.session = u /\ ce'.seen = ce.seen \cup {shm[u].code}
    BY SMTT(30), <1>6, <1>h DEF WaitForDebugEvent, Debuggers, mapping
  <2>5. Unseen => shm[u].code = "create process"
    <3> SUFFICES ASSUME Unseen PROVE shm[u].code = "create process"
      BY Zenon
    <3>0. ~overtaken
      <4>1. view < ce.session \/ view = ce.session
        BY Zenon, <1>0, <1>h DEF VD_View, Inits
      <4>2. view <= 1
        BY Zenon, <4>1, <1>o, <1>h
      <4> QED BY Zenon, <4>2, <1>0 DEF VD_View
    <3>1. PICK a \in Actors : Awaits(a, u) /\ shm[u].code = ih[a].code
      BY Zenon, <2>1, <2>2, <3>0, <1>0 DEF VD_Memory, Owned, Busy
    <3>2. handlerCS.owner = a /\ ih[a].at # "out"
      BY Zenon, <3>1 DEF Awaits
    <3>3. initializer.at \in {"process", "threads"}
      BY Zenon, <3>2, <1>0, <1>h DEF VD_First, Inits, Holding
    <3>4. a = "init"
      BY Zenon, <3>2, <3>3, <1>0 DEF VD_Section, Holding
    <3> QED BY Zenon, <3>1, <3>2, <3>3, <3>4, <1>0 DEF VD_First
  <2> HIDE DEF u
  <2>6. "create process" \notin ce'.seen => "create process" \notin ce.seen /\ shm[u].code # "create process"
    BY Zenon, <2>3
  <2> QED BY Zenon, <2>1, <2>2, <2>3, <2>5, <2>6, <1>0 DEF VD_First, u
<1>7. CASE VD_ContinueDebugEvent \/ DebugActiveProcessStop \/ SynchronizeNoBreakList
  <2>1. ce'.session = ce.session /\ ce'.seen = ce.seen /\ UNCHANGED <<initializer, registered, poller, ih>>
    BY <1>7, <1>h DEF VD_ContinueDebugEvent, DebugActiveProcessStop, SynchronizeNoBreakList,
                      handlers, target, dll, Debuggers, mapping
  <2> QED BY Zenon, <2>1, <1>0 DEF VD_First
<1>8. CASE DebugActiveProcess
  <2>1. /\ ce'.session = ce.session + 1 /\ ce'.seen = {} /\ initializer'.at = "start"
        /\ UNCHANGED <<registered, poller, ih>>
    BY <1>8, <1>h DEF DebugActiveProcess, handlers, target, Debuggers
  <2>2. CASE ce.session = 0
    BY <2>1, <2>2, <1>0, <1>a DEF VD_First
  <2>3. CASE ce.session # 0
    <3>1. ce'.session # 0 /\ ce'.session # 1
      BY <2>1, <2>3, <1>h
    <3> QED BY Zenon, <3>1 DEF VD_First
  <2> QED BY <2>2, <2>3
<1>9. CASE UnloadVEH
  <2>1. ~registered' /\ UNCHANGED <<initializer, poller, ih, ce>>
    BY <1>9 DEF UnloadVEH, handlers
  <2> QED BY Zenon, <2>1, <1>0 DEF VD_First
<1> QED BY VD_Next, <1>1, <1>2, <1>3, <1>4, <1>5, <1>6, <1>7, <1>8, <1>9 DEF VD_Next, CEStep

\* The no-break list in force, through every step
LEMMA VD_ListStep ==
    ASSUME VD_Inv, VD_Next
    PROVE  VD_List'
<1>0. VD_Types /\ VD_View /\ VD_Memory /\ VD_List
  BY DEF VD_Inv
<1>h. /\ ce \in Debuggers /\ VD_MaxAttach \in Nat /\ ce.session \in 0 .. VD_MaxAttach
      /\ shm \in [Sessions -> Memories] /\ ce.noBreakList \in Seq(VD_Threads)
  BY <1>0, VDAssumption DEF VD_Types, Debuggers
<1>s. ce.session > 0 => ce.session \in Sessions
  BY <1>h DEF Sessions
<1>k. ASSUME ce'.session = ce.session, ce'.syncing = ce.syncing, ce'.noBreakList = ce.noBreakList,
             \A s \in Sessions : shm'[s].size = shm[s].size /\ shm'[s].list = shm[s].list
      PROVE  VD_List'
  BY <1>0, <1>k, <1>s DEF VD_List
<1>1. ASSUME NEW a \in Actors, VD_HandlerStep(a) PROVE VD_List'
  <2>0. UNCHANGED ce
    BY Zenon, <1>1, <1>0, VD_Moves DEF VD_HandlerStep, HandlerEnter, HandlerReturn, mapping
  <2>1. ASSUME NEW s \in Sessions PROVE shm'[s].size = shm[s].size /\ shm'[s].list = shm[s].list
    <3>1. shm[s] \in Memories
      BY <1>h
    <3>2. CASE UNCHANGED shm
      BY <3>2
    <3>3. CASE StoreRecord(a) \/ StoreThread(a) \/ SignalEvent(a) \/ TakeHandle(a)
      <4>1. ih[a].at # "out"
        BY Zenon, <3>3, <1>0, VD_Moves
      <4>2. view \in Sessions
        BY <4>1, <1>0, <1>h DEF VD_Types, VD_View, Sessions
      <4> QED BY Zenon, <3>3, <4>2, <1>0, VD_Writes
    <3>4. CASE shm' = [shm EXCEPT ![ih[a].session].hasHandled = FALSE]
      BY <1>h, <3>1, <3>4 DEF Memories
    <3> QED BY Zenon, <1>1, <3>2, <3>3, <3>4 DEF VD_HandlerStep, HandlerEnter, HandlerReturn, memory, mapping
  <2> QED BY <2>0, <2>1, <1>k
<1>2. ASSUME NEW t \in VD_Threads, SkipBreak(t) \/ RaiseStep(t) \/ RaiseOther(t) \/ ThreadStarts(t) \/ ThreadEnds(t)
      PROVE  VD_List'
  BY SMTT(30), <1>2, <1>k DEF SkipBreak, RaiseStep, RaiseOther, ThreadStarts, ThreadEnds, memory, mapping
<1>3. ASSUME NEW t \in VD_Threads, AddToNoBreakList(t) \/ RemoveFromNoBreakList(t)
      PROVE  VD_List'
  <2>1. PICK l : ListOp(l)
    BY Zenon, <1>3 DEF AddToNoBreakList, RemoveFromNoBreakList
  <2>2. /\ ce'.session = ce.session /\ ce'.syncing /\ ce.at # "off" /\ UNCHANGED shm
    BY <2>1, <1>h DEF ListOp, memory, mapping, Debuggers
  <2> QED BY <2>2, <1>0 DEF VD_List, VD_Memory
<1>4. CASE PollerStep
  BY Zenon, <1>4, <1>k DEF PollerStep, PollerStarts, UpdateList, CreateThreadEvent, DestroyThreadEvent, memory, mapping
<1>5. CASE InitStep
  BY ZenonT(40), <1>5, <1>k DEF InitStep, InitUnload, InitJoin, InitFix, InitMap, InitHold, InitSend, InitAttached,
                    InitRelease, memory, mapping
<1>6. CASE CEStep
  <2>0. ce'.session = ce.session /\ ce'.syncing = ce.syncing /\ ce'.noBreakList = ce.noBreakList
    BY Zenon, <1>6, <1>h DEF CEStep, WaitForDebugEvent, VD_ContinueDebugEvent, Debuggers, mapping
  <2>1. ASSUME NEW s \in Sessions PROVE shm'[s].size = shm[s].size /\ shm'[s].list = shm[s].list
    <3>1. shm[s] \in Memories
      BY <1>h
    <3>3. CASE shm' = [shm EXCEPT ![ce.session].hasDebugEvent = FALSE]
      BY <1>h, <3>1, <3>3 DEF Memories
    <3>4. CASE shm' = [shm EXCEPT ![ce.session].hasHandled = TRUE]
      BY <1>h, <3>1, <3>4 DEF Memories
    <3> QED BY <1>6, <3>3, <3>4 DEF CEStep, WaitForDebugEvent, VD_ContinueDebugEvent, mapping
  <2> QED BY <2>0, <2>1, <1>k
<1>7. CASE DebugActiveProcess
  <2> DEFINE u == ce.session + 1
  <2>1. /\ ce'.session = u /\ ce'.syncing = FALSE /\ u \in Sessions /\ u > ce.session /\ UNCHANGED shm
    BY <1>7, <1>h DEF DebugActiveProcess, memory, mapping, Debuggers, Sessions
  <2>2. shm[u].size = 0
    BY <2>1, <1>0 DEF VD_List
  <2>3. \A s \in Sessions : s > u => s > ce.session
    BY <1>h DEF Sessions
  <2> HIDE DEF u
  <2> QED BY <2>1, <2>2, <2>3, <1>0 DEF VD_List
<1>8. CASE DebugActiveProcessStop \/ UnloadVEH
  <2>0. ce'.session = ce.session /\ ce'.syncing = ce.syncing /\ ce'.noBreakList = ce.noBreakList /\ UNCHANGED shm
    BY <1>8, <1>h DEF DebugActiveProcessStop, UnloadVEH, memory, mapping, Debuggers
  <2> QED BY <2>0, <1>k
<1>9. CASE SynchronizeNoBreakList
  <2> DEFINE u == ce.session
             l == ce.noBreakList
             o == shm[u].list
             e == SyncEntries(l, o)
             z == SyncSize(l)
  <2>1. ce.syncing /\ u \in Sessions /\ u > 0 /\ shm[u] \in Memories /\ o \in Seq(VD_Threads) /\ Len(o) <= ListMax + 1
    BY <1>9, <1>0, <1>s, <1>h DEF SynchronizeNoBreakList, VD_List, VD_Types, Memories, mapping
  <2>2. z \in Int /\ z <= Len(l) /\ \A k \in 1 .. z : e[k] = l[k]
    BY Zenon, <2>1, <1>h, VD_Entries
  <2>3. \/ shm' = [shm EXCEPT ![u].list = e] /\ ce' = ce
        \/ shm' = [shm EXCEPT ![u].size = z] /\ ce' = [ce EXCEPT !.syncing = FALSE] /\ o = e
    <3> HIDE DEF e, z
    <3> QED BY <1>9, Zenon DEF SynchronizeNoBreakList, e, z, mapping
  <2> HIDE DEF e, z
  <2>4. CASE shm' = [shm EXCEPT ![u].list = e] /\ ce' = ce
    <3>1. \A s \in Sessions : shm'[s].size = shm[s].size
      BY <2>4, <2>1, <1>h DEF Memories
    <3> QED BY <2>1, <2>4, <3>1, <1>0 DEF VD_List
  <2>5. CASE shm' = [shm EXCEPT ![u].size = z] /\ ce' = [ce EXCEPT !.syncing = FALSE] /\ o = e
    <3>1. ce'.session = u /\ ce'.noBreakList = l
      BY <2>5, <1>h DEF Debuggers
    <3>2. shm'[u].size = z /\ shm'[u].list = e
      BY <2>5, <2>1, <1>h DEF Memories
    <3>3. \A s \in Sessions : s # u => shm'[s] = shm[s]
      BY <2>5, <1>h
    <3>4. \A s \in Sessions : s > u => s # u
      BY <1>h DEF Sessions
    <3>5. Len(l) \in Nat
      BY <1>h
    <3>6. \A k \in 1 .. z : k <= Len(l) /\ e[k] = l[k]
      BY <2>2, <3>5
    <3> HIDE DEF u, l, o
    <3>7. \A s \in Sessions : s > u => shm'[s].size = 0
      BY <3>3, <3>4, <1>0 DEF VD_List, u
    <3> QED BY <2>1, <3>1, <3>2, <3>6, <3>7 DEF VD_List
  <2> QED BY <2>3, <2>4, <2>5
<1> QED BY VD_Next, <1>1, <1>2, <1>3, <1>4, <1>5, <1>6, <1>7, <1>8, <1>9 DEF VD_Next

\* The invariant is kept by every step
LEMMA VD_Step == VD_Inv /\ [VD_Next]_vdVars => VD_Inv'
<1>1. ASSUME VD_Inv, VD_Next PROVE VD_Inv'
  BY <1>1, VD_TypeStep, VD_SectionStep, VD_ViewStep, VD_StoredStep, VD_MemoryStep, VD_FirstStep, VD_ListStep DEF VD_Inv
<1>2. ASSUME VD_Inv, UNCHANGED vdVars PROVE VD_Inv'
  <2>1. VD_Types' /\ VD_Section'
    BY <1>2 DEF VD_Inv, VD_Types, VD_Section, vdVars
  <2>2. VD_View' /\ VD_First'
    BY Zenon, <1>2 DEF VD_Inv, VD_View, VD_First, vdVars
  <2>3. VD_Stored' /\ VD_Memory'
    BY ZenonT(60), <1>2 DEF VD_Inv, VD_Stored, Storing, VD_Memory, Owned, Awaits, Busy, vdVars
  <2>4. VD_List'
    BY <1>2 DEF VD_Inv, VD_List, vdVars
  <2> QED BY <2>1, <2>2, <2>3, <2>4 DEF VD_Inv
<1> QED BY <1>1, <1>2

\* What holds the reports apart is invariant: HandlerCS has one owner, the DLL writes
\* to one memory, and what is in the memory Cheat Engine looks at is its owner's
THEOREM VD_Invariant == VD_Spec => []VD_Inv
  BY VD_InitInv, VD_Step, PTL DEF VD_Spec

\* For any number of threads and attachments, ReportsKeptApart: in the first attachment,
\* and in a later one whose mapping overtook no report, the event Cheat Engine handles is
\* that of whoever waits inside HandlerCS, an answer is only there for somebody who waits,
\* and in the first the creation of the process comes first (InternalHandler,
\* InitializeVEH, WaitForDebugEvent and ContinueDebugEvent)
THEOREM VD_ReportsKeptApart == VD_Spec => []ReportsKeptApart
<1>1. VD_Inv => ReportsKeptApart
  <2> SUFFICES ASSUME VD_Inv PROVE ReportsKeptApart
    OBVIOUS
  <2>0. VD_View /\ VD_Memory /\ VD_First
    BY Zenon DEF VD_Inv
  <2>1. EventIsHeld
    <3> SUFFICES ASSUME ce.at = "event", ~overtaken PROVE EventIsHeld
      BY Zenon DEF EventIsHeld
    <3>1. Owned(ce.session) /\ Busy(ce.session)
      BY Zenon, <2>0 DEF VD_Memory, Busy
    <3> QED BY Zenon, <3>1 DEF Owned, EventIsHeld
  <2>2. AnswerIsAwaited
    BY Zenon, <2>0 DEF VD_Memory, Owned, Busy, AnswerIsAwaited
  <2>3. CreateProcessFirst
    BY Zenon, <2>0 DEF VD_First, CreateProcessFirst
  <2> QED BY Zenon, <2>0, <2>1, <2>2, <2>3 DEF ReportsKeptApart, VD_View
<1> QED BY <1>1, VD_Invariant, PTL

\* For any number of threads and any length of the shared list, SkippedIsListed: once
\* SynchronizeNoBreakList is through, the single steps the handler swallows are those
\* of threads Cheat Engine has on its no-break list
THEOREM VD_SkippedIsListed == VD_Spec => []SkippedIsListed
<1>1. VD_Inv => SkippedIsListed
  <2> SUFFICES ASSUME VD_Inv, NEW t \in VD_Threads, registered, view = ce.session, ~ce.syncing, OnNoBreakList(t)
               PROVE  \E k \in 1 .. Len(ce.noBreakList) : ce.noBreakList[k] = t
    BY DEF SkippedIsListed
  <2>0. VD_Types /\ VD_View /\ VD_List
    BY DEF VD_Inv
  <2>1. ce.session > 0 /\ ce.noBreakList \in Seq(VD_Threads)
    BY <2>0 DEF VD_View, VD_Types, Debuggers
  <2>2. PICK k \in 1 .. shm[ce.session].size : k <= Len(shm[ce.session].list) /\ shm[ce.session].list[k] = t
    BY DEF OnNoBreakList
  <2>3. k <= Len(ce.noBreakList) /\ ce.noBreakList[k] = t
    BY <2>0, <2>1, <2>2 DEF VD_List
  <2>4. k \in 1 .. Len(ce.noBreakList)
    <3>1. ce.session \in Sessions /\ Len(ce.noBreakList) \in Nat
      BY <2>0, <2>1, VDAssumption DEF VD_Types, Debuggers, Sessions
    <3>2. shm[ce.session].size \in Int
      BY <2>0, <3>1 DEF VD_Types, Memories
    <3> QED BY <2>2, <2>3, <3>1, <3>2
  <2> QED BY <2>3, <2>4
<1> QED BY <1>1, VD_Invariant, PTL
=============================================================================
