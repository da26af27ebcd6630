------------------------- MODULE HandleTable_proofs -------------------------
(***************************************************************************)
(* Proofs about the handle table of ceserver (HandleTable) as one          *)
(* connection uses it, for any processes, objects and size of the table.   *)
(* With two connections it goes wrong, as the run HandleTable_shared       *)
(* shows: none of this code takes a lock.                                  *)
(***************************************************************************)
EXTENDS HandleTable, TLAPS

\* What a client holds
Holding(B) == B \in [DOMAIN B -> Nat \ {0}]

\* One connection, and memory that realloc appends is fresh from the kernel
Serial(c) == Conns = {c} /\ Uninit = {"htEmpty"}

Fields == {"pc", "ret", "pid", "h", "i", "obj", "type", "count"}
Creating == {"create", "initlist", "scan", "store", "grow"}
Freeing == {"free", "remove"}
Places == Creating \cup Freeing \cup
          {"idle", "search", "found", "incref", "chdir", "snapprocess", "snapmodule",
           "snapclose", "snapcreate", "threadobject", "reply", "close", "decref",
           "unknown", "closed"}

\* The local variables of a thread; it has not crashed
HT_Locals(l) ==
    /\ DOMAIN l = Fields
    /\ l.pc \in Places /\ l.ret \in {"reply", "closed", "snapclose", "snapcreate"}
    /\ l.pid \in Pids \cup {0} /\ l.h \in Nat /\ l.i \in Nat \ {0}
    /\ l.obj \in Obj \cup {NULL} /\ l.type \in handleType /\ l.count \in Nat

\* The local variables, one by one
Has(m, pc, ret, pid, h, i, obj, type, count) ==
    /\ DOMAIN m = Fields
    /\ m.pc = pc /\ m.ret = ret /\ m.pid = pid /\ m.h = h /\ m.i = i
    /\ m.obj = obj /\ m.type = type /\ m.count = count
\* m is l but for what s assigns
Moved(m, l, s) ==
    /\ DOMAIN m = Fields
    /\ m.pc = IF "pc" \in DOMAIN s THEN s.pc ELSE l.pc
    /\ m.ret = IF "ret" \in DOMAIN s THEN s.ret ELSE l.ret
    /\ m.pid = IF "pid" \in DOMAIN s THEN s.pid ELSE l.pid
    /\ m.h = IF "h" \in DOMAIN s THEN s.h ELSE l.h
    /\ m.i = IF "i" \in DOMAIN s THEN s.i ELSE l.i
    /\ m.obj = IF "obj" \in DOMAIN s THEN s.obj ELSE l.obj
    /\ m.type = IF "type" \in DOMAIN s THEN s.type ELSE l.type
    /\ m.count = IF "count" \in DOMAIN s THEN s.count ELSE l.count

HT_Types(c) ==
    /\ HandleList \in Seq([type : handleType, pointer : Obj \cup {NULL}])
    /\ mem \in [Obj -> [pid : Pids \cup {0}, ReferenceCount : Nat]]
    /\ alive \subseteq Obj /\ exists \subseteq Pids
    /\ DOMAIN loc = {c} /\ HT_Locals(loc[c])
    /\ DOMAIN held = {c} /\ Holding(held[c])

\* The object of a handle, and the handle as a client has it
Ptr(h) == HandleList[h].pointer
Id(h) == [h |-> h, type |-> HandleList[h].type, pid |-> mem[Ptr(h)].pid]

OpenFor(h, pid) == HandleList[h].type = "htProcesHandle" /\ mem[Ptr(h)].pid = pid
NotOpen(pid) == \A h \in Used : ~OpenFor(h, pid)

\* Every handle has an object of its own, and every object a handle, but for the object
\* that is about to get its handle and the handle that is about to be removed
HT_Table(c) ==
    /\ \A h \in Used : /\ Ptr(h) \in Obj
                       /\ Ptr(h) \in alive \/ (at(c, "remove") /\ h = loc[c].h)
    /\ \A g, h \in Used : Ptr(g) = Ptr(h) => g = h
    /\ \A o \in alive : \/ \E h \in Used : Ptr(h) = o
                        \/ loc[c].pc \in Creating /\ o = loc[c].obj
    /\ OneHandlePerPid

\* The thread has a handle that is counted: it goes to the client, or is being closed
InHand(l, h) == l.h = h /\ l.pc \in {"reply", "snapclose", "close", "decref"}

\* What a client holds are handles of the table, and the count of an object says how
\* often its handle is held; only that of a process is held more than once
HT_Counts(c) ==
    /\ \A x \in DOMAIN held[c] : x.h \in Used /\ x = Id(x.h)
    /\ \A h \in Used : ~(loc[c].pc \in Freeing /\ h = loc[c].h) =>
          /\ mem[Ptr(h)].ReferenceCount =
                Times(Id(h), held[c]) + (IF InHand(loc[c], h) THEN 1 ELSE 0)
          /\ HandleList[h].type # "htProcesHandle" => mem[Ptr(h)].ReferenceCount = 1

\* What OpenProcess knows, ...
HT_Open(l) ==
    /\ l.pc \in {"search", "chdir", "found", "incref"} => l.ret \in {"reply", "snapclose"}
    /\ l.pc \in {"search", "chdir", "snapmodule"} => l.pid \in Pids
    /\ l.pc = "snapmodule" => l.i = 1
    /\ l.pc = "search" => \A h \in Used : h < l.i => ~OpenFor(h, l.pid)
    /\ l.pc = "chdir" => NotOpen(l.pid)
    /\ l.pc \in {"found", "incref"} =>
          l.h \in Used /\ OpenFor(l.h, l.pid) /\ l.type = "htProcesHandle"
    /\ l.pc = "incref" => l.obj = Ptr(l.h) /\ l.count = mem[l.obj].ReferenceCount

\* ... CreateHandleFromPointer, ...
HT_Create(l) ==
    /\ l.pc \in Creating =>
          /\ l.obj \in alive /\ \A h \in Used : Ptr(h) # l.obj
          /\ mem[l.obj] = [pid |-> l.pid, ReferenceCount |-> 1]
          /\ l.type # "htEmpty" /\ l.ret \in {"reply", "snapclose"}
          /\ l.type = "htProcesHandle" => NotOpen(l.pid)
          /\ l.ret = "snapclose" => l.type = "htProcesHandle"
    /\ l.pc = "initlist" => HandleList = <<>>
    /\ l.pc \in {"scan", "store", "grow"} => HandleList # <<>>
    /\ l.pc = "store" => l.i \in DOMAIN HandleList /\ HandleList[l.i].type = "htEmpty"

\* ... CloseHandle and those who call it
HT_Close(l, h) ==
    /\ l.pc = "reply" /\ l.h # 0 =>
          l.h \in Used /\ Id(l.h) = [h |-> l.h, type |-> l.type, pid |-> l.pid]
    /\ l.pc \in {"snapclose", "close"} /\ l.h # 0 => l.h \in Used
    /\ l.pc = "snapclose" \/ (l.pc \in {"close", "decref"} /\ l.ret = "snapcreate") =>
          l.h = 0 \/ HandleList[l.h].type = "htProcesHandle"
    /\ l.pc \in {"close", "decref", "free", "remove", "unknown"} =>
          l.ret \in {"closed", "snapcreate"}
    /\ l.pc \in {"decref", "free", "remove"} =>
          l.h \in Used /\ l.obj = Ptr(l.h) /\ l.type = HandleList[l.h].type
    /\ l.pc = "decref" => l.count = mem[l.obj].ReferenceCount /\ l.type # "htNativeThreadHandle"
    /\ l.pc \in Freeing => Id(l.h) \notin DOMAIN h
    /\ l.pc = "remove" => l.obj \notin alive
    /\ l.pc = "unknown" => l.h \notin Used

\* What a thread with the local variables m knows
HT_Knows(c, m) == HT_Locals(m) /\ HT_Open(m) /\ HT_Create(m) /\ HT_Close(m, held[c])

HT_Inv(c) ==
    /\ HT_Types(c) /\ HT_Table(c) /\ HT_Counts(c)
    /\ HT_Open(loc[c]) /\ HT_Create(loc[c]) /\ HT_Close(loc[c], held[c])

-----------------------------------------------------------------------------
\* Before the first command
LEMMA HT_InitInv == ASSUME NEW c, Serial(c), Init PROVE HT_Inv(c)
  <1>1. loc[c] = Idle /\ DOMAIN loc = {c} /\ DOMAIN held = {c} /\ HandleList = <<>>
    BY Zenon DEF Init, Serial
  <1>2. held[c] = <<>> /\ DOMAIN held[c] = {} /\ Holding(held[c])
    BY DEF Init, Serial, Holding
  <1>3. Used = {}
    BY <1>1 DEF Used
  <1>4. HT_Types(c)
    BY <1>1, <1>2 DEF Init, HT_Types, HT_Locals, Idle, Fields, Places, handleType
  <1>5. HT_Table(c) /\ HT_Counts(c)
    BY <1>1, <1>2, <1>3, Zenon DEF Init, HT_Table, HT_Counts, OneHandlePerPid
  <1>6. HT_Open(loc[c]) /\ HT_Create(loc[c]) /\ HT_Close(loc[c], held[c])
    BY <1>1 DEF HT_Open, HT_Create, HT_Close, Idle, Creating, Freeing
  <1> QED BY <1>4, <1>5, <1>6, Zenon DEF HT_Inv

\* An element of a sequence
LEMMA HT_ElementOf ==
    ASSUME NEW S, NEW s \in Seq(S), NEW k \in DOMAIN s PROVE s[k] \in S /\ k \in Nat \ {0}
  OBVIOUS

\* How often a client holds a handle, ...
LEMMA HT_Times ==
    ASSUME NEW B, Holding(B), NEW x
    PROVE  Times(x, B) \in Nat /\ (Times(x, B) > 0 <=> x \in DOMAIN B)
  BY DEF Holding, Times

\* ... one more ...
LEMMA HT_Given ==
    ASSUME NEW B, Holding(B), NEW x
    PROVE  /\ Holding(given(B, x)) /\ DOMAIN given(B, x) = DOMAIN B \cup {x}
           /\ \A y : Times(y, given(B, x)) = Times(y, B) + (IF y = x THEN 1 ELSE 0)
  BY DEF Holding, Times, given

\* ... and one less
LEMMA HT_Returned ==
    ASSUME NEW B, Holding(B), NEW x \in DOMAIN B
    PROVE  /\ Holding(returned(B, x)) /\ DOMAIN returned(B, x) \subseteq DOMAIN B
           /\ \A y : Times(y, returned(B, x)) = Times(y, B) - (IF y = x THEN 1 ELSE 0)
  BY DEF Holding, Times, returned

\* The entry of a handle
LEMMA HT_Entry ==
    ASSUME NEW c, HT_Inv(c), NEW h \in Used
    PROVE  /\ h \in DOMAIN HandleList /\ h \in Nat \ {0} /\ Ptr(h) \in Obj
           /\ HandleList[h].type \in handleType \ {"htEmpty"}
  <1>1. h \in DOMAIN HandleList /\ HandleList[h].type # "htEmpty"
    BY Zenon DEF Used
  <1>2. HandleList \in Seq([type : handleType, pointer : Obj \cup {NULL}])
    BY Zenon DEF HT_Inv, HT_Types
  <1>3. HandleList[h] \in [type : handleType, pointer : Obj \cup {NULL}] /\ h \in Nat \ {0}
    BY <1>1, <1>2, HT_ElementOf, Zenon
  <1>4. Ptr(h) \in Obj
    BY Zenon DEF HT_Inv, HT_Table
  <1> QED BY <1>1, <1>3, <1>4, Zenon

\* What a thread knows, as the invariant says it
LEMMA HT_Known ==
    ASSUME NEW c, HT_Inv(c)
    PROVE  /\ HT_Locals(loc[c]) /\ HT_Open(loc[c]) /\ HT_Create(loc[c])
           /\ HT_Close(loc[c], held[c])
  BY Zenon DEF HT_Inv, HT_Types

\* It knows nothing more where it neither opens, nor creates, nor closes
LEMMA HT_Outside ==
    ASSUME NEW m, NEW h
    PROVE  /\ m.pc \notin {"search", "chdir", "snapmodule", "found", "incref"} => HT_Open(m)
           /\ m.pc \notin Creating => HT_Create(m)
           /\ m.pc \notin {"reply", "snapclose", "close", "decref", "free", "remove", "unknown"}
              => HT_Close(m, h)
  BY Zenon DEF HT_Open, HT_Create, HT_Close, Creating, Freeing

\* What an assignment does to the local variables
LEMMA HT_Assigned ==
    ASSUME NEW l, NEW s, DOMAIN l = Fields
    PROVE  Moved(assigned(l, s), l, s)
  <1>1. /\ DOMAIN assigned(l, s) = DOMAIN l
        /\ \A f \in DOMAIN l : assigned(l, s)[f] = IF f \in DOMAIN s THEN s[f] ELSE l[f]
    BY Zenon DEF assigned
  <1> QED BY <1>1, Zenon DEF Moved, Fields

\* It moves on, ...
LEMMA HT_Goto ==
    ASSUME NEW c, HT_Inv(c), NEW s, goto(c, s)
    PROVE  DOMAIN loc' = {c} /\ Moved(loc'[c], loc[c], s)
  <1>1. DOMAIN loc = {c} /\ DOMAIN loc[c] = Fields
    BY Zenon DEF HT_Inv, HT_Types, HT_Locals
  <1>2. DOMAIN loc' = {c} /\ loc'[c] = assigned(loc[c], s)
    BY <1>1, Zenon DEF goto
  <1> QED BY <1>1, <1>2, HT_Assigned, Zenon

\* ... or starts a command
LEMMA HT_Starts ==
    ASSUME NEW c, HT_Inv(c), NEW s, goto(c, assigned(Idle, s))
    PROVE  DOMAIN loc' = {c} /\ Moved(loc'[c], Idle, s)
  <1> DEFINE a == assigned(Idle, s)
  <1>1. DOMAIN Idle = Fields
    BY Zenon DEF Idle, Fields
  <1>2. Moved(a, Idle, s)
    BY <1>1, HT_Assigned, Zenon
  <1> HIDE DEF a
  <1>3. DOMAIN a = Fields /\ DOMAIN loc' = {c} /\ Moved(loc'[c], loc[c], a)
    BY <1>2, HT_Goto, Zenon DEF Moved, a
  <1>4. Has(loc'[c], a.pc, a.ret, a.pid, a.h, a.i, a.obj, a.type, a.count)
    BY <1>3, Zenon DEF Moved, Has, Fields
  <1> QED BY <1>2, <1>3, <1>4, Zenon DEF Has, Moved

\* A step that changes no more than the local variables, and neither drops an object
\* that has no handle nor a handle that has no object
LEMMA HT_LocalStep ==
    ASSUME NEW c, HT_Inv(c), DOMAIN loc' = {c}, HT_Knows(c, loc'[c]),
           UNCHANGED <<HandleList, mem, alive, exists, held>>,
           loc[c].pc \notin Freeing, loc'[c].pc # "remove",
           loc[c].pc \in Creating => loc'[c].pc \in Creating /\ loc'[c].obj = loc[c].obj,
           \A h \in Used : \/ InHand(loc'[c], h) <=> InHand(loc[c], h)
                           \/ loc'[c].pc \in Freeing /\ h = loc'[c].h
    PROVE  HT_Inv(c)'
  <1>1. Used' = Used /\ \A h \in Used : Ptr(h)' = Ptr(h) /\ Id(h)' = Id(h)
    BY Zenon DEF Used, Ptr, Id
  <1>2. HT_Types(c)'
    BY Zenon DEF HT_Inv, HT_Types, HT_Knows, HT_Locals
  <1>3. HT_Table(c)'
    BY <1>1 DEF HT_Inv, HT_Table, at, OneHandlePerPid, Freeing
  <1>4. HT_Counts(c)'
    BY <1>1, ZenonT(40) DEF HT_Inv, HT_Counts, Times, InHand
  <1>5. HT_Open(loc[c])'
    BY <1>1, Zenon DEF HT_Knows, HT_Open, OpenFor, NotOpen
  <1>6. HT_Create(loc[c])'
    BY <1>1, Zenon DEF HT_Knows, HT_Create, OpenFor, NotOpen
  <1>7. HT_Close(loc[c], held[c])'
    BY <1>1, Zenon DEF HT_Knows, HT_Close, Ptr, Id
  <1> QED BY <1>2, <1>3, <1>4, <1>5, <1>6, <1>7, Zenon DEF HT_Inv

\* SearchHandleList looks at one entry
LEMMA HT_Search ==
    ASSUME NEW c, HT_Inv(c), OpenProcess_Search(c) PROVE HT_Inv(c)'
  <1>1. loc[c].pc = "search" /\ UNCHANGED <<HandleList, mem, alive, exists, held>>
    BY Zenon DEF OpenProcess_Search, step, at
  <1>2. \A h \in Used : h \in Nat /\ h < HandleList_max /\ HandleList_max \in Nat
    BY DEF HT_Inv, HT_Types, Used, HandleList_max
  <1>3. ~(loc[c].i >= HandleList_max) => loc[c].i \in DOMAIN HandleList
    BY SMTT(30) DEF HT_Inv, HT_Types, HT_Locals, HandleList_max
  <1>4. ASSUME loc[c].i \in DOMAIN HandleList, HandleList[loc[c].i].type = "htProcesHandle"
        PROVE  HandleList[loc[c].i].pointer # NULL
    BY <1>4, TableAssumption DEF HT_Inv, HT_Table, Used, Ptr
  <1>5. loc[c].i \in Nat
    BY HT_Known, Zenon DEF HT_Locals
  <1>6. ASSUME loc[c].i >= HandleList_max PROVE HT_Inv(c)'
    <2>1. goto(c, [pc |-> "chdir"])
      BY <1>6, <1>1, Zenon DEF OpenProcess_Search
    <2>2. DOMAIN loc' = {c} /\ Moved(loc'[c], loc[c], [pc |-> "chdir"])
      BY <2>1, HT_Goto, Zenon
    <2>3. Has(loc'[c], "chdir", loc[c].ret, loc[c].pid, loc[c].h, loc[c].i, loc[c].obj,
              loc[c].type, loc[c].count)
      BY <2>2, Zenon DEF Moved, Has
    <2>4. loc'[c].pc = "chdir"
      BY <2>3, Zenon DEF Has
    <2>5. HT_Locals(loc'[c])
      BY <2>3, HT_Known, Zenon DEF Has, HT_Locals, Places
    <2>6. HT_Create(loc'[c]) /\ HT_Close(loc'[c], held[c])
      BY <2>4, HT_Outside, Zenon DEF Creating
    <2>7. HT_Open(loc'[c])
      BY <1>6, <1>1, <2>3, HT_Known, <1>2, <1>5 DEF Has, HT_Open, NotOpen
    <2>8. \A h \in Used : \/ InHand(loc'[c], h) <=> InHand(loc[c], h)
                          \/ loc'[c].pc \in Freeing /\ h = loc'[c].h
      BY <1>6, <1>1, <2>4, Zenon DEF InHand
    <2>9. /\ loc[c].pc \notin Freeing /\ loc'[c].pc # "remove"
          /\ loc[c].pc \in Creating => loc'[c].pc \in Creating /\ loc'[c].obj = loc[c].obj
      BY <1>1, <2>4, Zenon DEF Creating, Freeing
    <2> QED
      BY <1>1, <2>2, <2>5, <2>6, <2>7, <2>8, <2>9, HT_LocalStep, Zenon DEF HT_Knows
  <1>7. ASSUME ~(loc[c].i >= HandleList_max), ~OpenFor(loc[c].i, loc[c].pid) PROVE HT_Inv(c)'
    <2>1. goto(c, [i |-> loc[c].i + 1])
      BY <1>7, <1>1, <1>3, <1>4, Zenon DEF OpenProcess_Search, OpenFor, Ptr
    <2>2. DOMAIN loc' = {c} /\ Moved(loc'[c], loc[c], [i |-> loc[c].i + 1])
      BY <2>1, HT_Goto, Zenon
    <2>3. Has(loc'[c], loc[c].pc, loc[c].ret, loc[c].pid, loc[c].h, loc[c].i + 1,
              loc[c].obj, loc[c].type, loc[c].count)
      BY <2>2, Zenon DEF Moved, Has
    <2>4. loc'[c].pc = "search"
      BY <1>1, <2>3, Zenon DEF Has
    <2>5. HT_Locals(loc'[c])
      BY <2>3, HT_Known, <1>1 DEF Has, HT_Locals, Places
    <2>6. HT_Create(loc'[c]) /\ HT_Close(loc'[c], held[c])
      BY <2>4, HT_Outside, Zenon DEF Creating
    <2>7. HT_Open(loc'[c])
      BY <1>7, <1>1, <2>3, HT_Known, <1>2, <1>5 DEF Has, HT_Open
    <2>8. \A h \in Used : \/ InHand(loc'[c], h) <=> InHand(loc[c], h)
                          \/ loc'[c].pc \in Freeing /\ h = loc'[c].h
      BY <1>7, <1>1, <2>4, Zenon DEF InHand
    <2>9. /\ loc[c].pc \notin Freeing /\ loc'[c].pc # "remove"
          /\ loc[c].pc \in Creating => loc'[c].pc \in Creating /\ loc'[c].obj = loc[c].obj
      BY <1>1, <2>4, Zenon DEF Creating, Freeing
    <2> QED
      BY <1>1, <2>2, <2>5, <2>6, <2>7, <2>8, <2>9, HT_LocalStep, Zenon DEF HT_Knows
  <1>8. ASSUME ~(loc[c].i >= HandleList_max), OpenFor(loc[c].i, loc[c].pid) PROVE HT_Inv(c)'
    <2>1. goto(c, [pc |-> "found", h |-> loc[c].i, type |-> "htProcesHandle"])
      BY <1>8, <1>1, <1>3, <1>4, Zenon DEF OpenProcess_Search, OpenFor, Ptr
    <2>2. DOMAIN loc' = {c} /\ Moved(loc'[c], loc[c],
                                     [pc |-> "found", h |-> loc[c].i, type |-> "htProcesHandle"])
      BY <2>1, HT_Goto, Zenon
    <2>3. Has(loc'[c], "found", loc[c].ret, loc[c].pid, loc[c].i, loc[c].i, loc[c].obj,
              "htProcesHandle", loc[c].count)
      BY <2>2, Zenon DEF Moved, Has
    <2>4. loc'[c].pc = "found"
      BY <2>3, Zenon DEF Has
    <2>5. HT_Locals(loc'[c])
      BY <2>3, HT_Known, Zenon DEF Has, HT_Locals, Places, handleType
    <2>6. HT_Create(loc'[c]) /\ HT_Close(loc'[c], held[c])
      BY <2>4, HT_Outside, Zenon DEF Creating
    <2>7. HT_Open(loc'[c])
      BY <1>8, <1>1, <2>3, HT_Known, <1>3, Zenon DEF Has, HT_Open, Used, OpenFor
    <2>8. \A h \in Used : \/ InHand(loc'[c], h) <=> InHand(loc[c], h)
                          \/ loc'[c].pc \in Freeing /\ h = loc'[c].h
      BY <1>8, <1>1, <2>4, Zenon DEF InHand
    <2>9. /\ loc[c].pc \notin Freeing /\ loc'[c].pc # "remove"
          /\ loc[c].pc \in Creating => loc'[c].pc \in Creating /\ loc'[c].obj = loc[c].obj
      BY <1>1, <2>4, Zenon DEF Creating, Freeing
    <2> QED
      BY <1>1, <2>2, <2>5, <2>6, <2>7, <2>8, <2>9, HT_LocalStep, Zenon DEF HT_Knows
  <1> QED
    BY <1>6, <1>7, <1>8, Zenon

\* The process is open already: its object, through the handle
LEMMA HT_Found ==
    ASSUME NEW c, HT_Inv(c), OpenProcess_Found(c) PROVE HT_Inv(c)'
  <1>1. loc[c].pc = "found" /\ UNCHANGED <<HandleList, mem, alive, exists, held>>
    BY Zenon DEF OpenProcess_Found, step, at
  <1>2. /\ loc[c].h \in Used /\ Ptr(loc[c].h) \in Obj /\ Ptr(loc[c].h) # NULL
        /\ GetPointerFromHandle(loc[c].h) = Ptr(loc[c].h)
        /\ mem[Ptr(loc[c].h)].ReferenceCount \in Nat
    <2>1. loc[c].h \in Used
      BY <1>1, HT_Known, Zenon DEF HT_Open
    <2>2. Ptr(loc[c].h) \in Obj /\ loc[c].h \in DOMAIN HandleList
      BY <2>1, HT_Entry, Zenon
    <2>3. mem \in [Obj -> [pid : Pids \cup {0}, ReferenceCount : Nat]]
      BY Zenon DEF HT_Inv, HT_Types
    <2> QED BY <2>1, <2>2, <2>3, TableAssumption, Zenon DEF Used, Ptr, GetPointerFromHandle,
               GetHandleType
  <1>3. goto(c, [pc |-> "incref", obj |-> Ptr(loc[c].h),
                 count |-> mem[Ptr(loc[c].h)].ReferenceCount])
    BY <1>1, <1>2, Zenon DEF OpenProcess_Found
  <1>4. DOMAIN loc' = {c} /\ Moved(loc'[c], loc[c],
                                   [pc |-> "incref", obj |-> Ptr(loc[c].h),
                                    count |-> mem[Ptr(loc[c].h)].ReferenceCount])
    BY <1>3, HT_Goto, Zenon
  <1>5. Has(loc'[c], "incref", loc[c].ret, loc[c].pid, loc[c].h, loc[c].i, Ptr(loc[c].h),
            loc[c].type, mem[Ptr(loc[c].h)].ReferenceCount)
    BY <1>4, Zenon DEF Moved, Has
  <1>6. loc'[c].pc = "incref"
    BY <1>5, Zenon DEF Has
  <1>7. HT_Locals(loc'[c])
    BY <1>5, HT_Known, <1>2, Zenon DEF Has, HT_Locals, Places
  <1>8. HT_Create(loc'[c]) /\ HT_Close(loc'[c], held[c])
    BY <1>6, HT_Outside, ZenonT(40) DEF Creating
  <1>9. HT_Open(loc'[c])
    BY <1>1, <1>5, HT_Known, <1>2 DEF Has, HT_Open, OpenFor
  <1>10. \A h \in Used : \/ InHand(loc'[c], h) <=> InHand(loc[c], h)
                         \/ loc'[c].pc \in Freeing /\ h = loc'[c].h
    BY <1>1, <1>6, Zenon DEF InHand
  <1>11. /\ loc[c].pc \notin Freeing /\ loc'[c].pc # "remove"
         /\ loc[c].pc \in Creating => loc'[c].pc \in Creating /\ loc'[c].obj = loc[c].obj
    BY <1>1, <1>6, Zenon DEF Creating, Freeing
  <1> QED
    BY <1>1, <1>4, <1>7, <1>8, <1>9, <1>10, <1>11, HT_LocalStep, Zenon DEF HT_Knows

\* CreateHandleFromPointer looks whether there is a table
LEMMA HT_Enter ==
    ASSUME NEW c, HT_Inv(c), Create_Enter(c) PROVE HT_Inv(c)'
  <1>1. loc[c].pc = "create" /\ UNCHANGED <<HandleList, mem, alive, exists, held>>
    BY Zenon DEF Create_Enter, step, at
  <1>2. ASSUME HandleList = <<>> PROVE HT_Inv(c)'
    <2>1. goto(c, [pc |-> "initlist", i |-> 1])
      BY <1>2, <1>1, Zenon DEF Create_Enter
    <2>2. DOMAIN loc' = {c} /\ Moved(loc'[c], loc[c], [pc |-> "initlist", i |-> 1])
      BY <2>1, HT_Goto, Zenon
    <2>3. Has(loc'[c], "initlist", loc[c].ret, loc[c].pid, loc[c].h, 1, loc[c].obj,
              loc[c].type, loc[c].count)
      BY <2>2, Zenon DEF Moved, Has
    <2>4. loc'[c].pc = "initlist"
      BY <2>3, Zenon DEF Has
    <2>5. HT_Locals(loc'[c])
      BY <2>3, HT_Known DEF Has, HT_Locals, Places, Creating
    <2>6. HT_Open(loc'[c]) /\ HT_Close(loc'[c], held[c])
      BY <2>4, HT_Outside, Zenon
    <2>7. HT_Create(loc'[c])
      BY <1>2, <1>1, <2>3, HT_Known, ZenonT(40) DEF Has, HT_Create, Creating
    <2>8. \A h \in Used : \/ InHand(loc'[c], h) <=> InHand(loc[c], h)
                          \/ loc'[c].pc \in Freeing /\ h = loc'[c].h
      BY <1>2, <1>1, <2>4, Zenon DEF InHand
    <2>9. /\ loc[c].pc \notin Freeing /\ loc'[c].pc # "remove"
          /\ loc[c].pc \in Creating => loc'[c].pc \in Creating /\ loc'[c].obj = loc[c].obj
      BY <1>1, <2>3, Zenon DEF Has, Creating, Freeing
    <2> QED
      BY <1>1, <2>2, <2>5, <2>6, <2>7, <2>8, <2>9, HT_LocalStep, Zenon DEF HT_Knows
  <1>3. ASSUME HandleList # <<>> PROVE HT_Inv(c)'
    <2>1. goto(c, [pc |-> "scan", i |-> 1])
      BY <1>3, <1>1, Zenon DEF Create_Enter
    <2>2. DOMAIN loc' = {c} /\ Moved(loc'[c], loc[c], [pc |-> "scan", i |-> 1])
      BY <2>1, HT_Goto, Zenon
    <2>3. Has(loc'[c], "scan", loc[c].ret, loc[c].pid, loc[c].h, 1, loc[c].obj,
              loc[c].type, loc[c].count)
      BY <2>2, Zenon DEF Moved, Has
    <2>4. loc'[c].pc = "scan"
      BY <2>3, Zenon DEF Has
    <2>5. HT_Locals(loc'[c])
      BY <2>3, HT_Known DEF Has, HT_Locals, Places, Creating
    <2>6. HT_Open(loc'[c]) /\ HT_Close(loc'[c], held[c])
      BY <2>4, HT_Outside, Zenon
    <2>7. HT_Create(loc'[c])
      BY <1>3, <1>1, <2>3, HT_Known DEF Has, HT_Create, Creating
    <2>8. \A h \in Used : \/ InHand(loc'[c], h) <=> InHand(loc[c], h)
                          \/ loc'[c].pc \in Freeing /\ h = loc'[c].h
      BY <1>3, <1>1, <2>4, Zenon DEF InHand
    <2>9. /\ loc[c].pc \notin Freeing /\ loc'[c].pc # "remove"
          /\ loc[c].pc \in Creating => loc'[c].pc \in Creating /\ loc'[c].obj = loc[c].obj
      BY <1>1, <2>3, Zenon DEF Has, Creating, Freeing
    <2> QED
      BY <1>1, <2>2, <2>5, <2>6, <2>7, <2>8, <2>9, HT_LocalStep, Zenon DEF HT_Knows
  <1> QED
    BY <1>2, <1>3, Zenon

\* One entry of the table is looked at
LEMMA HT_Scan ==
    ASSUME NEW c, HT_Inv(c), Create_Scan(c) PROVE HT_Inv(c)'
  <1>1. loc[c].pc = "scan" /\ UNCHANGED <<HandleList, mem, alive, exists, held>>
    BY Zenon DEF Create_Scan, step, at
  <1>2. ~(loc[c].i >= HandleList_max) => loc[c].i \in DOMAIN HandleList
    BY SMTT(30) DEF HT_Inv, HT_Types, HT_Locals, HandleList_max
  <1>3. ASSUME loc[c].i >= HandleList_max PROVE HT_Inv(c)'
    <2>1. goto(c, [pc |-> "grow"])
      BY <1>3, <1>1, Zenon DEF Create_Scan
    <2>2. DOMAIN loc' = {c} /\ Moved(loc'[c], loc[c], [pc |-> "grow"])
      BY <2>1, HT_Goto, Zenon
    <2>3. Has(loc'[c], "grow", loc[c].ret, loc[c].pid, loc[c].h, loc[c].i, loc[c].obj,
              loc[c].type, loc[c].count)
      BY <2>2, Zenon DEF Moved, Has
    <2>4. loc'[c].pc = "grow"
      BY <2>3, Zenon DEF Has
    <2>5. HT_Locals(loc'[c])
      BY <2>3, HT_Known, Zenon DEF Has, HT_Locals, Places, Creating
    <2>6. HT_Open(loc'[c]) /\ HT_Close(loc'[c], held[c])
      BY <2>4, HT_Outside, ZenonT(40)
    <2>7. HT_Create(loc'[c])
      BY <1>3, <1>1, <2>3, HT_Known DEF Has, HT_Create, Creating
    <2>8. \A h \in Used : \/ InHand(loc'[c], h) <=> InHand(loc[c], h)
                          \/ loc'[c].pc \in Freeing /\ h = loc'[c].h
      BY <1>3, <1>1, <2>4, Zenon DEF InHand
    <2>9. /\ loc[c].pc \notin Freeing /\ loc'[c].pc # "remove"
          /\ loc[c].pc \in Creating => loc'[c].pc \in Creating /\ loc'[c].obj = loc[c].obj
      BY <1>1, <2>3, Zenon DEF Has, Creating, Freeing
    <2> QED
      BY <1>1, <2>2, <2>5, <2>6, <2>7, <2>8, <2>9, HT_LocalStep, Zenon DEF HT_Knows
  <1>4. ASSUME ~(loc[c].i >= HandleList_max), HandleList[loc[c].i].type = "htEmpty"
        PROVE HT_Inv(c)'
    <2>1. goto(c, [pc |-> "store"])
      BY <1>4, <1>1, Zenon DEF Create_Scan
    <2>2. DOMAIN loc' = {c} /\ Moved(loc'[c], loc[c], [pc |-> "store"])
      BY <2>1, HT_Goto, Zenon
    <2>3. Has(loc'[c], "store", loc[c].ret, loc[c].pid, loc[c].h, loc[c].i, loc[c].obj,
              loc[c].type, loc[c].count)
      BY <2>2, Zenon DEF Moved, Has
    <2>4. loc'[c].pc = "store"
      BY <2>3, Zenon DEF Has
    <2>5. HT_Locals(loc'[c])
      BY <2>3, HT_Known, ZenonT(40) DEF Has, HT_Locals, Places, Creating
    <2>6. HT_Open(loc'[c]) /\ HT_Close(loc'[c], held[c])
      BY <2>4, HT_Outside, Zenon
    <2>7. HT_Create(loc'[c])
      BY <1>4, <1>1, <2>3, HT_Known, <1>2 DEF Has, HT_Create, Creating
    <2>8. \A h \in Used : \/ InHand(loc'[c], h) <=> InHand(loc[c], h)
                          \/ loc'[c].pc \in Freeing /\ h = loc'[c].h
      BY <1>4, <1>1, <2>4, Zenon DEF InHand
    <2>9. /\ loc[c].pc \notin Freeing /\ loc'[c].pc # "remove"
          /\ loc[c].pc \in Creating => loc'[c].pc \in Creating /\ loc'[c].obj = loc[c].obj
      BY <1>1, <2>3, Zenon DEF Has, Creating, Freeing
    <2> QED
      BY <1>1, <2>2, <2>5, <2>6, <2>7, <2>8, <2>9, HT_LocalStep, Zenon DEF HT_Knows
  <1>5. ASSUME ~(loc[c].i >= HandleList_max), HandleList[loc[c].i].type # "htEmpty"
        PROVE HT_Inv(c)'
    <2>1. goto(c, [i |-> loc[c].i + 1])
      BY <1>5, <1>1, Zenon DEF Create_Scan
    <2>2. DOMAIN loc' = {c} /\ Moved(loc'[c], loc[c], [i |-> loc[c].i + 1])
      BY <2>1, HT_Goto, Zenon
    <2>3. Has(loc'[c], loc[c].pc, loc[c].ret, loc[c].pid, loc[c].h, loc[c].i + 1,
              loc[c].obj, loc[c].type, loc[c].count)
      BY <2>2, Zenon DEF Moved, Has
    <2>4. loc'[c].pc = "scan"
      BY <1>1, <2>3, Zenon DEF Has
    <2>5. HT_Locals(loc'[c])
      BY <2>3, HT_Known, <1>1 DEF Has, HT_Locals, Places, Creating
    <2>6. HT_Open(loc'[c]) /\ HT_Close(loc'[c], held[c])
      BY <2>4, HT_Outside, Zenon
    <2>7. HT_Create(loc'[c])
      BY <1>5, <1>1, <2>3, HT_Known, <1>2 DEF Has, HT_Create, Creating
    <2>8. \A h \in Used : \/ InHand(loc'[c], h) <=> InHand(loc[c], h)
                          \/ loc'[c].pc \in Freeing /\ h = loc'[c].h
      BY <1>5, <1>1, <2>4, Zenon DEF InHand
    <2>9. /\ loc[c].pc \notin Freeing /\ loc'[c].pc # "remove"
          /\ loc[c].pc \in Creating => loc'[c].pc \in Creating /\ loc'[c].obj = loc[c].obj
      BY <1>1, <2>3, Zenon DEF Has, Creating, Freeing
    <2> QED
      BY <1>1, <2>2, <2>5, <2>6, <2>7, <2>8, <2>9, HT_LocalStep, Zenon DEF HT_Knows
  <1> QED
    BY <1>3, <1>4, <1>5, Zenon

\* A module snapshot opens the process, if it is there
LEMMA HT_Module ==
    ASSUME NEW c, HT_Inv(c), Snapshot_Module(c) PROVE HT_Inv(c)'
  <1>1. loc[c].pc = "snapmodule" /\ UNCHANGED <<HandleList, mem, alive, exists, held>>
    BY Zenon DEF Snapshot_Module, step, at
  <1>2. loc[c].i = 1 /\ \A h \in Used : h \in Nat /\ h > 0
    BY <1>1, HT_Known, HT_Entry DEF HT_Open
  <1>3. ASSUME loc[c].pid \in exists PROVE HT_Inv(c)'
    <2>1. goto(c, [pc |-> "search", ret |-> "snapclose"])
      BY <1>3, <1>1, Zenon DEF Snapshot_Module
    <2>2. DOMAIN loc' = {c} /\ Moved(loc'[c], loc[c], [pc |-> "search", ret |-> "snapclose"])
      BY <2>1, HT_Goto, Zenon
    <2>3. Has(loc'[c], "search", "snapclose", loc[c].pid, loc[c].h, loc[c].i, loc[c].obj,
              loc[c].type, loc[c].count)
      BY <2>2, Zenon DEF Moved, Has
    <2>4. loc'[c].pc = "search"
      BY <2>3, Zenon DEF Has
    <2>5. HT_Locals(loc'[c])
      BY <2>3, HT_Known, Zenon DEF Has, HT_Locals, Places
    <2>6. HT_Create(loc'[c]) /\ HT_Close(loc'[c], held[c])
      BY <2>4, HT_Outside, Zenon DEF Creating
    <2>7. HT_Open(loc'[c])
      BY <1>3, <1>1, <2>3, HT_Known, <1>2 DEF Has, HT_Open
    <2>8. \A h \in Used : \/ InHand(loc'[c], h) <=> InHand(loc[c], h)
                          \/ loc'[c].pc \in Freeing /\ h = loc'[c].h
      BY <1>3, <1>1, <2>4, Zenon DEF InHand
    <2>9. /\ loc[c].pc \notin Freeing /\ loc'[c].pc # "remove"
          /\ loc[c].pc \in Creating => loc'[c].pc \in Creating /\ loc'[c].obj = loc[c].obj
      BY <1>1, <2>4, Zenon DEF Creating, Freeing
    <2> QED
      BY <1>1, <2>2, <2>5, <2>6, <2>7, <2>8, <2>9, HT_LocalStep, Zenon DEF HT_Knows
  <1>4. ASSUME loc[c].pid \notin exists PROVE HT_Inv(c)'
    <2>1. goto(c, [pc |-> "reply", h |-> 0])
      BY <1>4, <1>1, Zenon DEF Snapshot_Module
    <2>2. DOMAIN loc' = {c} /\ Moved(loc'[c], loc[c], [pc |-> "reply", h |-> 0])
      BY <2>1, HT_Goto, Zenon
    <2>3. Has(loc'[c], "reply", loc[c].ret, loc[c].pid, 0, loc[c].i, loc[c].obj,
              loc[c].type, loc[c].count)
      BY <2>2, Zenon DEF Moved, Has
    <2>4. loc'[c].pc = "reply"
      BY <2>3, Zenon DEF Has
    <2>5. HT_Locals(loc'[c])
      BY <2>3, HT_Known DEF Has, HT_Locals, Places
    <2>6. HT_Open(loc'[c]) /\ HT_Create(loc'[c])
      BY <2>4, HT_Outside, Zenon DEF Creating
    <2>7. HT_Close(loc'[c], held[c])
      BY <1>4, <1>1, <2>3, Zenon DEF Has, HT_Close, Freeing
    <2>8. \A h \in Used : \/ InHand(loc'[c], h) <=> InHand(loc[c], h)
                          \/ loc'[c].pc \in Freeing /\ h = loc'[c].h
      BY <1>4, <1>1, <2>3, <1>2 DEF Has, InHand
    <2>9. /\ loc[c].pc \notin Freeing /\ loc'[c].pc # "remove"
          /\ loc[c].pc \in Creating => loc'[c].pc \in Creating /\ loc'[c].obj = loc[c].obj
      BY <1>1, <2>4, Zenon DEF Creating, Freeing
    <2> QED
      BY <1>1, <2>2, <2>5, <2>6, <2>7, <2>8, <2>9, HT_LocalStep, Zenon DEF HT_Knows
  <1> QED
    BY <1>3, <1>4, Zenon

\* ... and closes it when it has read it
LEMMA HT_SnapClose ==
    ASSUME NEW c, HT_Inv(c), Snapshot_Close(c) PROVE HT_Inv(c)'
  <1>1. loc[c].pc = "snapclose" /\ UNCHANGED <<HandleList, mem, alive, exists, held>>
    BY Zenon DEF Snapshot_Close, step, at
  <1>2. /\ loc[c].h # 0 => loc[c].h \in Used
        /\ loc[c].h = 0 \/ HandleList[loc[c].h].type = "htProcesHandle"
    BY <1>1, HT_Known, Zenon DEF HT_Close
  <1>3. goto(c, [pc |-> "close", ret |-> "snapcreate"])
    BY <1>1, Zenon DEF Snapshot_Close
  <1>4. DOMAIN loc' = {c} /\ Moved(loc'[c], loc[c], [pc |-> "close", ret |-> "snapcreate"])
    BY <1>3, HT_Goto, Zenon
  <1>5. Has(loc'[c], "close", "snapcreate", loc[c].pid, loc[c].h, loc[c].i, loc[c].obj,
            loc[c].type, loc[c].count)
    BY <1>4, Zenon DEF Moved, Has
  <1>6. loc'[c].pc = "close"
    BY <1>5, Zenon DEF Has
  <1>7. HT_Locals(loc'[c])
    BY <1>5, HT_Known, Zenon DEF Has, HT_Locals, Places
  <1>8. HT_Open(loc'[c]) /\ HT_Create(loc'[c])
    BY <1>6, HT_Outside, Zenon DEF Creating
  <1>9. HT_Close(loc'[c], held[c])
    BY <1>1, <1>5, <1>2, Zenon DEF Has, HT_Close, Freeing
  <1>10. \A h \in Used : \/ InHand(loc'[c], h) <=> InHand(loc[c], h)
                         \/ loc'[c].pc \in Freeing /\ h = loc'[c].h
    BY <1>1, <1>5, Zenon DEF Has, InHand
  <1>11. /\ loc[c].pc \notin Freeing /\ loc'[c].pc # "remove"
         /\ loc[c].pc \in Creating => loc'[c].pc \in Creating /\ loc'[c].obj = loc[c].obj
    BY <1>1, <1>6, Zenon DEF Creating, Freeing
  <1> QED
    BY <1>1, <1>4, <1>7, <1>8, <1>9, <1>10, <1>11, HT_LocalStep, Zenon DEF HT_Knows

\* CMD_CLOSEHANDLE has replied
LEMMA HT_Closed ==
    ASSUME NEW c, HT_Inv(c), Closed(c) PROVE HT_Inv(c)'
  <1>1. loc[c].pc = "closed" /\ UNCHANGED <<HandleList, mem, alive, exists, held>>
    BY Zenon DEF Closed, step, at
  <1>2. goto(c, Idle)
    BY <1>1, Zenon DEF Closed
  <1>3. DOMAIN loc' = {c} /\ Moved(loc'[c], loc[c], Idle)
    BY <1>2, HT_Goto, Zenon
  <1>4. Has(loc'[c], "idle", "reply", 0, 0, 1, NULL, "htEmpty", 0)
    BY <1>3, Zenon DEF Moved, Has, Idle, Fields
  <1>5. loc'[c].pc = "idle"
    BY <1>4, Zenon DEF Has
  <1>6. HT_Locals(loc'[c])
    BY <1>4, HT_Known DEF Has, HT_Locals, Places, handleType
  <1>7. HT_Open(loc'[c]) /\ HT_Create(loc'[c]) /\ HT_Close(loc'[c], held[c])
    BY <1>5, HT_Outside, Zenon DEF Creating
  <1>8. \A h \in Used : \/ InHand(loc'[c], h) <=> InHand(loc[c], h)
                        \/ loc'[c].pc \in Freeing /\ h = loc'[c].h
    BY <1>1, <1>5, Zenon DEF InHand
  <1>9. /\ loc[c].pc \notin Freeing /\ loc'[c].pc # "remove"
        /\ loc[c].pc \in Creating => loc'[c].pc \in Creating /\ loc'[c].obj = loc[c].obj
    BY <1>1, <1>5, Zenon DEF Creating, Freeing
  <1> QED
    BY <1>1, <1>3, <1>6, <1>7, <1>8, <1>9, HT_LocalStep, Zenon DEF HT_Knows

\* CloseHandle looks up type, object and count
LEMMA HT_CloseEnter ==
    ASSUME NEW c, HT_Inv(c), CloseHandle_Enter(c) PROVE HT_Inv(c)'
  <1>1. loc[c].pc = "close" /\ UNCHANGED <<HandleList, mem, alive, exists, held>>
    BY Zenon DEF CloseHandle_Enter, step, at
  <1>2. ASSUME loc[c].h \in Used
        PROVE  /\ GetPointerFromHandle(loc[c].h) = Ptr(loc[c].h) /\ Ptr(loc[c].h) \in Obj
               /\ GetHandleType(loc[c].h) = HandleList[loc[c].h].type
               /\ HandleList[loc[c].h].type \in handleType \ {"htEmpty"}
    BY <1>2, HT_Entry, Zenon DEF Used, Ptr, GetPointerFromHandle, GetHandleType
  <1>3. ASSUME loc[c].h \in Used, HandleList[loc[c].h].type = "htNativeThreadHandle"
        PROVE  Id(loc[c].h) \notin DOMAIN held[c]
    <2>1. mem[Ptr(loc[c].h)].ReferenceCount = Times(Id(loc[c].h), held[c]) + 1
          /\ mem[Ptr(loc[c].h)].ReferenceCount = 1
      BY <1>1, <1>3, Zenon DEF HT_Inv, HT_Counts, InHand, Freeing
    <2>2. /\ Times(Id(loc[c].h), held[c]) \in Nat
          /\ Times(Id(loc[c].h), held[c]) > 0 <=> Id(loc[c].h) \in DOMAIN held[c]
      BY HT_Times, Zenon DEF HT_Inv, HT_Types
    <2> QED BY <2>1, <2>2
  <1>4. loc[c].h \notin Used => GetHandleType(loc[c].h) = "htEmpty"
    BY Zenon DEF Used, GetHandleType
  <1>5. Ptr(loc[c].h) \in Obj => Ptr(loc[c].h) # NULL
    BY TableAssumption, Zenon
  <1>6. Ptr(loc[c].h) \in Obj => mem[Ptr(loc[c].h)].ReferenceCount \in Nat
    BY Zenon DEF HT_Inv, HT_Types
  <1>7. /\ loc[c].ret \in {"closed", "snapcreate"}
        /\ loc[c].ret = "snapcreate" =>
              loc[c].h = 0 \/ HandleList[loc[c].h].type = "htProcesHandle"
    BY <1>1, HT_Known, Zenon DEF HT_Close
  <1>8. ASSUME loc[c].h \in Used, HandleList[loc[c].h].type # "htNativeThreadHandle"
        PROVE HT_Inv(c)'
    <2>1. goto(c, [pc |-> "decref", type |-> HandleList[loc[c].h].type, obj |-> Ptr(loc[c].h),
                   count |-> mem[Ptr(loc[c].h)].ReferenceCount])
      BY <1>8, <1>1, <1>2, <1>5, Zenon DEF CloseHandle_Enter, handleType
    <2>2. DOMAIN loc' = {c} /\ Moved(loc'[c], loc[c],
                                     [pc |-> "decref", type |-> HandleList[loc[c].h].type, obj |-> Ptr(loc[c].h),
                                      count |-> mem[Ptr(loc[c].h)].ReferenceCount])
      BY <2>1, HT_Goto, Zenon
    <2>3. Has(loc'[c], "decref", loc[c].ret, loc[c].pid, loc[c].h, loc[c].i,
              Ptr(loc[c].h), HandleList[loc[c].h].type,
              mem[Ptr(loc[c].h)].ReferenceCount)
      BY <2>2, Zenon DEF Moved, Has
    <2>4. loc'[c].pc = "decref"
      BY <2>3, Zenon DEF Has
    <2>5. HT_Locals(loc'[c])
      BY <2>3, HT_Known, <1>8, <1>2, <1>6, Zenon DEF Has, HT_Locals, Places
    <2>6. HT_Open(loc'[c]) /\ HT_Create(loc'[c])
      BY <2>4, HT_Outside, Zenon DEF Creating
    <2>7. HT_Close(loc'[c], held[c])
      BY <1>8, <1>1, <2>3, <1>7, <1>2, Zenon DEF Has, HT_Close, Freeing
    <2>8. \A h \in Used : \/ InHand(loc'[c], h) <=> InHand(loc[c], h)
                          \/ loc'[c].pc \in Freeing /\ h = loc'[c].h
      BY <1>8, <1>1, <2>3, Zenon DEF Has, InHand
    <2>9. /\ loc[c].pc \notin Freeing /\ loc'[c].pc # "remove"
          /\ loc[c].pc \in Creating => loc'[c].pc \in Creating /\ loc'[c].obj = loc[c].obj
      BY <1>1, <2>4, Zenon DEF Creating, Freeing
    <2> QED
      BY <1>1, <2>2, <2>5, <2>6, <2>7, <2>8, <2>9, HT_LocalStep, Zenon DEF HT_Knows
  <1>9. ASSUME loc[c].h \in Used, HandleList[loc[c].h].type = "htNativeThreadHandle"
        PROVE HT_Inv(c)'
    <2>1. goto(c, [pc |-> "free", type |-> HandleList[loc[c].h].type, obj |-> Ptr(loc[c].h)])
      BY <1>9, <1>1, <1>2, Zenon DEF CloseHandle_Enter
    <2>2. DOMAIN loc' = {c} /\ Moved(loc'[c], loc[c],
                                     [pc |-> "free", type |-> HandleList[loc[c].h].type,
                                      obj |-> Ptr(loc[c].h)])
      BY <2>1, HT_Goto, Zenon
    <2>3. Has(loc'[c], "free", loc[c].ret, loc[c].pid, loc[c].h, loc[c].i, Ptr(loc[c].h),
              HandleList[loc[c].h].type, loc[c].count)
      BY <2>2, Zenon DEF Moved, Has
    <2>4. loc'[c].pc = "free"
      BY <2>3, Zenon DEF Has
    <2>5. HT_Locals(loc'[c])
      BY <2>3, HT_Known, <1>9, <1>2, <1>6, Zenon DEF Has, HT_Locals, Places, Freeing
    <2>6. HT_Open(loc'[c]) /\ HT_Create(loc'[c])
      BY <2>4, HT_Outside, Zenon DEF Creating
    <2>7. HT_Close(loc'[c], held[c])
      BY <1>9, <1>1, <2>3, <1>7, <1>2, <1>3, Zenon DEF Has, HT_Close, Freeing
    <2>8. \A h \in Used : \/ InHand(loc'[c], h) <=> InHand(loc[c], h)
                          \/ loc'[c].pc \in Freeing /\ h = loc'[c].h
      BY <1>9, <1>1, <2>3, Zenon DEF Has, InHand, Freeing
    <2>9. /\ loc[c].pc \notin Freeing /\ loc'[c].pc # "remove"
          /\ loc[c].pc \in Creating => loc'[c].pc \in Creating /\ loc'[c].obj = loc[c].obj
      BY <1>1, <2>4, Zenon DEF Creating, Freeing
    <2> QED
      BY <1>1, <2>2, <2>5, <2>6, <2>7, <2>8, <2>9, HT_LocalStep, Zenon DEF HT_Knows
  <1>10. ASSUME loc[c].h \notin Used PROVE HT_Inv(c)'
    <2>1. goto(c, [pc |-> "unknown", type |-> "htEmpty"])
      BY <1>10, <1>1, <1>4, Zenon DEF CloseHandle_Enter
    <2>2. DOMAIN loc' = {c} /\ Moved(loc'[c], loc[c], [pc |-> "unknown", type |-> "htEmpty"])
      BY <2>1, HT_Goto, Zenon
    <2>3. Has(loc'[c], "unknown", loc[c].ret, loc[c].pid, loc[c].h, loc[c].i, loc[c].obj,
              "htEmpty", loc[c].count)
      BY <2>2, Zenon DEF Moved, Has
    <2>4. loc'[c].pc = "unknown"
      BY <2>3, Zenon DEF Has
    <2>5. HT_Locals(loc'[c])
      BY <2>3, HT_Known, Zenon DEF Has, HT_Locals, Places, handleType
    <2>6. HT_Open(loc'[c]) /\ HT_Create(loc'[c])
      BY <2>4, HT_Outside, Zenon DEF Creating
    <2>7. HT_Close(loc'[c], held[c])
      BY <1>10, <1>1, <2>3, <1>7, Zenon DEF Has, HT_Close, Freeing
    <2>8. \A h \in Used : \/ InHand(loc'[c], h) <=> InHand(loc[c], h)
                          \/ loc'[c].pc \in Freeing /\ h = loc'[c].h
      BY <1>10, <1>1, <2>3, Zenon DEF Has, InHand
    <2>9. /\ loc[c].pc \notin Freeing /\ loc'[c].pc # "remove"
          /\ loc[c].pc \in Creating => loc'[c].pc \in Creating /\ loc'[c].obj = loc[c].obj
      BY <1>1, <2>4, Zenon DEF Creating, Freeing
    <2> QED
      BY <1>1, <2>2, <2>5, <2>6, <2>7, <2>8, <2>9, HT_LocalStep, Zenon DEF HT_Knows
  <1> QED
    BY <1>8, <1>9, <1>10, Zenon

\* CMD_OPENPROCESS
LEMMA HT_CmdOpen ==
    ASSUME NEW c, HT_Inv(c), NEW pid \in Pids, command(c, [pc |-> "search", pid |-> pid]),
           UNCHANGED held
    PROVE  HT_Inv(c)'
  <1>1. loc[c].pc = "idle" /\ UNCHANGED <<HandleList, mem, alive, exists, held>>
    BY Zenon DEF command, step, at
  <1>2. \A h \in Used : h \in Nat /\ h > 0
    BY HT_Entry
  <1>3. goto(c, assigned(Idle, [pc |-> "search", pid |-> pid]))
    BY <1>1, Zenon DEF command
  <1>4. DOMAIN loc' = {c} /\ Moved(loc'[c], Idle, [pc |-> "search", pid |-> pid])
    BY <1>3, HT_Starts, Zenon
  <1>5. Has(loc'[c], "search", "reply", pid, 0, 1, NULL, "htEmpty", 0)
    BY <1>4, Zenon DEF Moved, Has, Idle
  <1>6. loc'[c].pc = "search"
    BY <1>5, Zenon DEF Has
  <1>7. HT_Locals(loc'[c])
    BY <1>5, HT_Known DEF Has, HT_Locals, Places, handleType
  <1>8. HT_Create(loc'[c]) /\ HT_Close(loc'[c], held[c])
    BY <1>6, HT_Outside, Zenon DEF Creating
  <1>9. HT_Open(loc'[c])
    BY <1>1, <1>5, <1>2 DEF Has, HT_Open
  <1>10. \A h \in Used : \/ InHand(loc'[c], h) <=> InHand(loc[c], h)
                         \/ loc'[c].pc \in Freeing /\ h = loc'[c].h
    BY <1>1, <1>6, Zenon DEF InHand
  <1>11. /\ loc[c].pc \notin Freeing /\ loc'[c].pc # "remove"
         /\ loc[c].pc \in Creating => loc'[c].pc \in Creating /\ loc'[c].obj = loc[c].obj
    BY <1>1, <1>6, Zenon DEF Creating, Freeing
  <1> QED
    BY <1>1, <1>4, <1>7, <1>8, <1>9, <1>10, <1>11, HT_LocalStep, Zenon DEF HT_Knows

\* CMD_CREATETOOLHELP32SNAPSHOT of the processes, ...
LEMMA HT_CmdSnapProcess ==
    ASSUME NEW c, HT_Inv(c), command(c, [pc |-> "snapprocess"]), UNCHANGED held
    PROVE  HT_Inv(c)'
  <1>1. loc[c].pc = "idle" /\ UNCHANGED <<HandleList, mem, alive, exists, held>>
    BY Zenon DEF command, step, at
  <1>2. goto(c, assigned(Idle, [pc |-> "snapprocess"]))
    BY <1>1, Zenon DEF command
  <1>3. DOMAIN loc' = {c} /\ Moved(loc'[c], Idle, [pc |-> "snapprocess"])
    BY <1>2, HT_Starts, Zenon
  <1>4. Has(loc'[c], "snapprocess", "reply", 0, 0, 1, NULL, "htEmpty", 0)
    BY <1>3, Zenon DEF Moved, Has, Idle
  <1>5. loc'[c].pc = "snapprocess"
    BY <1>4, Zenon DEF Has
  <1>6. HT_Locals(loc'[c])
    BY <1>4, HT_Known DEF Has, HT_Locals, Places, handleType
  <1>7. HT_Open(loc'[c]) /\ HT_Create(loc'[c]) /\ HT_Close(loc'[c], held[c])
    BY <1>5, HT_Outside, Zenon DEF Creating
  <1>8. \A h \in Used : \/ InHand(loc'[c], h) <=> InHand(loc[c], h)
                        \/ loc'[c].pc \in Freeing /\ h = loc'[c].h
    BY <1>1, <1>5, Zenon DEF InHand
  <1>9. /\ loc[c].pc \notin Freeing /\ loc'[c].pc # "remove"
        /\ loc[c].pc \in Creating => loc'[c].pc \in Creating /\ loc'[c].obj = loc[c].obj
    BY <1>1, <1>5, Zenon DEF Creating, Freeing
  <1> QED
    BY <1>1, <1>3, <1>6, <1>7, <1>8, <1>9, HT_LocalStep, Zenon DEF HT_Knows

\* ... and of the modules of one
LEMMA HT_CmdSnapModule ==
    ASSUME NEW c, HT_Inv(c), NEW pid \in Pids, command(c, [pc |-> "snapmodule", pid |-> pid]),
           UNCHANGED held
    PROVE  HT_Inv(c)'
  <1>1. loc[c].pc = "idle" /\ UNCHANGED <<HandleList, mem, alive, exists, held>>
    BY Zenon DEF command, step, at
  <1>2. goto(c, assigned(Idle, [pc |-> "snapmodule", pid |-> pid]))
    BY <1>1, Zenon DEF command
  <1>3. DOMAIN loc' = {c} /\ Moved(loc'[c], Idle, [pc |-> "snapmodule", pid |-> pid])
    BY <1>2, HT_Starts, Zenon
  <1>4. Has(loc'[c], "snapmodule", "reply", pid, 0, 1, NULL, "htEmpty", 0)
    BY <1>3, Zenon DEF Moved, Has, Idle
  <1>5. loc'[c].pc = "snapmodule"
    BY <1>4, Zenon DEF Has
  <1>6. HT_Locals(loc'[c])
    BY <1>4, HT_Known DEF Has, HT_Locals, Places, handleType
  <1>7. HT_Create(loc'[c]) /\ HT_Close(loc'[c], held[c])
    BY <1>5, HT_Outside, Zenon DEF Creating
  <1>8. HT_Open(loc'[c])
    BY <1>1, <1>4, Zenon DEF Has, HT_Open
  <1>9. \A h \in Used : \/ InHand(loc'[c], h) <=> InHand(loc[c], h)
                        \/ loc'[c].pc \in Freeing /\ h = loc'[c].h
    BY <1>1, <1>5, Zenon DEF InHand
  <1>10. /\ loc[c].pc \notin Freeing /\ loc'[c].pc # "remove"
         /\ loc[c].pc \in Creating => loc'[c].pc \in Creating /\ loc'[c].obj = loc[c].obj
    BY <1>1, <1>5, Zenon DEF Creating, Freeing
  <1> QED
    BY <1>1, <1>3, <1>6, <1>7, <1>8, <1>9, <1>10, HT_LocalStep, Zenon DEF HT_Knows

\* CMD_CREATETHREAD
LEMMA HT_CmdThread ==
    ASSUME NEW c, HT_Inv(c), command(c, [pc |-> "threadobject"]), UNCHANGED held
    PROVE  HT_Inv(c)'
  <1>1. loc[c].pc = "idle" /\ UNCHANGED <<HandleList, mem, alive, exists, held>>
    BY Zenon DEF command, step, at
  <1>2. goto(c, assigned(Idle, [pc |-> "threadobject"]))
    BY <1>1, Zenon DEF command
  <1>3. DOMAIN loc' = {c} /\ Moved(loc'[c], Idle, [pc |-> "threadobject"])
    BY <1>2, HT_Starts, Zenon
  <1>4. Has(loc'[c], "threadobject", "reply", 0, 0, 1, NULL, "htEmpty", 0)
    BY <1>3, Zenon DEF Moved, Has, Idle
  <1>5. loc'[c].pc = "threadobject"
    BY <1>4, Zenon DEF Has
  <1>6. HT_Locals(loc'[c])
    BY <1>4, HT_Known DEF Has, HT_Locals, Places, handleType
  <1>7. HT_Open(loc'[c]) /\ HT_Create(loc'[c]) /\ HT_Close(loc'[c], held[c])
    BY <1>5, HT_Outside, Zenon DEF Creating
  <1>8. \A h \in Used : \/ InHand(loc'[c], h) <=> InHand(loc[c], h)
                        \/ loc'[c].pc \in Freeing /\ h = loc'[c].h
    BY <1>1, <1>5, Zenon DEF InHand
  <1>9. /\ loc[c].pc \notin Freeing /\ loc'[c].pc # "remove"
        /\ loc[c].pc \in Creating => loc'[c].pc \in Creating /\ loc'[c].obj = loc[c].obj
    BY <1>1, <1>5, Zenon DEF Creating, Freeing
  <1> QED
    BY <1>1, <1>3, <1>6, <1>7, <1>8, <1>9, HT_LocalStep, Zenon DEF HT_Knows

\* CMD_CREATETHREAD without the extension
LEMMA HT_CmdNoThread ==
    ASSUME NEW c, HT_Inv(c), command(c, [pc |-> "reply", h |-> 0]), UNCHANGED held
    PROVE  HT_Inv(c)'
  <1>1. loc[c].pc = "idle" /\ UNCHANGED <<HandleList, mem, alive, exists, held>>
    BY Zenon DEF command, step, at
  <1>2. \A h \in Used : h \in Nat /\ h > 0
    BY HT_Entry
  <1>3. goto(c, assigned(Idle, [pc |-> "reply", h |-> 0]))
    BY <1>1, Zenon DEF command
  <1>4. DOMAIN loc' = {c} /\ Moved(loc'[c], Idle, [pc |-> "reply", h |-> 0])
    BY <1>3, HT_Starts, Zenon
  <1>5. Has(loc'[c], "reply", "reply", 0, 0, 1, NULL, "htEmpty", 0)
    BY <1>4, Zenon DEF Moved, Has, Idle
  <1>6. loc'[c].pc = "reply"
    BY <1>5, Zenon DEF Has
  <1>7. HT_Locals(loc'[c])
    BY <1>5, HT_Known DEF Has, HT_Locals, Places, handleType
  <1>8. HT_Open(loc'[c]) /\ HT_Create(loc'[c])
    BY <1>6, HT_Outside, Zenon DEF Creating
  <1>9. HT_Close(loc'[c], held[c])
    BY <1>1, <1>5, Zenon DEF Has, HT_Close, Freeing
  <1>10. \A h \in Used : \/ InHand(loc'[c], h) <=> InHand(loc[c], h)
                         \/ loc'[c].pc \in Freeing /\ h = loc'[c].h
    BY <1>1, <1>5, <1>2 DEF Has, InHand
  <1>11. /\ loc[c].pc \notin Freeing /\ loc'[c].pc # "remove"
         /\ loc[c].pc \in Creating => loc'[c].pc \in Creating /\ loc'[c].obj = loc[c].obj
    BY <1>1, <1>6, Zenon DEF Creating, Freeing
  <1> QED
    BY <1>1, <1>4, <1>7, <1>8, <1>9, <1>10, <1>11, HT_LocalStep, Zenon DEF HT_Knows

\* The open process has one more user
LEMMA HT_Incref ==
    ASSUME NEW c, HT_Inv(c), OpenProcess_Incref(c) PROVE HT_Inv(c)'
  <1>1. /\ loc[c].pc = "incref" /\ goto(c, [pc |-> loc[c].ret])
        /\ mem' = [mem EXCEPT ![loc[c].obj].ReferenceCount = loc[c].count + 1]
        /\ UNCHANGED <<HandleList, alive, exists, held>>
    BY Zenon DEF OpenProcess_Incref, setCount, step, at
  <1>2. DOMAIN loc' = {c} /\ Has(loc'[c], loc[c].ret, loc[c].ret, loc[c].pid, loc[c].h,
                                loc[c].i, loc[c].obj, loc[c].type, loc[c].count)
    <2>1. DOMAIN loc' = {c} /\ Moved(loc'[c], loc[c], [pc |-> loc[c].ret])
      BY <1>1, HT_Goto, Zenon
    <2> QED BY <2>1, Zenon DEF Moved, Has
  <1>3. /\ loc[c].h \in Used /\ OpenFor(loc[c].h, loc[c].pid) /\ loc[c].type = "htProcesHandle"
        /\ loc[c].obj = Ptr(loc[c].h) /\ loc[c].count = mem[loc[c].obj].ReferenceCount
        /\ loc[c].ret \in {"reply", "snapclose"} /\ loc[c].obj \in Obj
    BY <1>1, HT_Entry, Zenon DEF HT_Inv, HT_Open
  <1>4. mem \in [Obj -> [pid : Pids \cup {0}, ReferenceCount : Nat]] /\ loc[c].count \in Nat
    BY Zenon DEF HT_Inv, HT_Types, HT_Locals
  <1>5. Used' = Used
    BY <1>1, Zenon DEF Used
  <1>6. ASSUME NEW h \in Used
        PROVE  /\ Ptr(h)' = Ptr(h) /\ mem'[Ptr(h)].pid = mem[Ptr(h)].pid /\ Id(h)' = Id(h)
               /\ mem'[Ptr(h)].ReferenceCount =
                     IF h = loc[c].h THEN loc[c].count + 1 ELSE mem[Ptr(h)].ReferenceCount
    <2>1. Ptr(h) \in Obj /\ (Ptr(h) = loc[c].obj <=> h = loc[c].h)
      BY <1>3, HT_Entry, Zenon DEF HT_Inv, HT_Table
    <2> QED BY <1>1, <1>3, <1>4, <2>1, Zenon DEF Ptr, Id
  <1>7. HT_Types(c)'
    <2>1. HT_Locals(loc'[c])
      BY <1>2, <1>3, HT_Known, Zenon DEF Has, HT_Locals, Places
    <2>2. mem' \in [Obj -> [pid : Pids \cup {0}, ReferenceCount : Nat]]
      BY SMTT(30), <1>1, <1>3, <1>4
    <2> QED BY <1>1, <1>2, <2>1, <2>2, Zenon DEF HT_Inv, HT_Types
  <1>8. HT_Table(c)'
    <2>1. OneHandlePerPid'
      BY <1>1, <1>5, <1>6 DEF HT_Inv, HT_Table, OneHandlePerPid, Ptr
    <2> QED BY SMTT(30), <1>1, <1>2, <1>3, <1>5, <1>6, <2>1 DEF Has, HT_Inv, HT_Table, at, Creating
  <1>9. HT_Counts(c)'
    <2>1. \A x \in DOMAIN held'[c] : x.h \in Used' /\ x = Id(x.h)'
      BY <1>1, <1>5, <1>6 DEF HT_Inv, HT_Counts
    <2>2. \A h : Times(Id(h), held[c]) \in Nat
      BY HT_Times, ZenonT(40) DEF HT_Inv, HT_Types
    <2>3. ASSUME NEW h \in Used
          PROVE  /\ mem'[Ptr(h)'].ReferenceCount =
                      Times(Id(h)', held'[c]) + (IF InHand(loc'[c], h) THEN 1 ELSE 0)
                 /\ HandleList'[h].type # "htProcesHandle" => mem'[Ptr(h)'].ReferenceCount = 1
      <3>1. ~InHand(loc[c], h) /\ (InHand(loc'[c], h) <=> h = loc[c].h)
        BY <1>1, <1>2, <1>3, Zenon DEF Has, InHand
      <3>2. /\ mem[Ptr(h)].ReferenceCount = Times(Id(h), held[c])
            /\ HandleList[h].type # "htProcesHandle" => mem[Ptr(h)].ReferenceCount = 1
        BY <1>1, <2>2, <3>1 DEF HT_Inv, HT_Counts, Freeing
      <3> QED BY <1>1, <1>3, <1>6, <2>2, <3>1, <3>2 DEF OpenFor
    <2> QED BY <1>5, <2>1, <2>3, Zenon DEF HT_Counts
  <1>10. HT_Open(loc[c])' /\ HT_Create(loc[c])'
    BY <1>2, <1>3, Zenon DEF Has, HT_Open, HT_Create, Creating
  <1>11. HT_Close(loc[c], held[c])'
    BY <1>1, <1>2, <1>3, <1>5, <1>6, ZenonT(40) DEF Has, HT_Close, Id, OpenFor, Freeing
  <1> QED BY <1>7, <1>8, <1>9, <1>10, <1>11, Zenon DEF HT_Inv

\* A new object, which gets its handle next
LEMMA HT_NewObject ==
    ASSUME NEW c, HT_Inv(c), NEW o, malloc(o, [pid |-> loc[c].pid, ReferenceCount |-> 1]),
           UNCHANGED <<HandleList, exists, held>>,
           NEW t \in handleType \ {"htEmpty"}, NEW r \in {"reply", "snapclose"},
           loc[c].pc \in {"chdir", "snapprocess", "snapcreate", "threadobject"},
           t = "htProcesHandle" => NotOpen(loc[c].pid),
           r = "snapclose" => t = "htProcesHandle",
           DOMAIN loc' = {c},
           Has(loc'[c], "create", r, loc[c].pid, loc[c].h, loc[c].i, o, t, loc[c].count)
    PROVE  HT_Inv(c)'
  <1>1. /\ o \in Obj \ alive /\ alive' = alive \cup {o}
        /\ mem' = [mem EXCEPT ![o] = [pid |-> loc[c].pid, ReferenceCount |-> 1]]
    BY Zenon DEF malloc
  <1>2. mem \in [Obj -> [pid : Pids \cup {0}, ReferenceCount : Nat]] /\ loc[c].pid \in Pids \cup {0}
    BY Zenon DEF HT_Inv, HT_Types, HT_Locals
  <1>3. Used' = Used
    BY Zenon DEF Used
  <1>4. ASSUME NEW h \in Used
        PROVE  /\ Ptr(h)' = Ptr(h) /\ Ptr(h) # o /\ Ptr(h) \in alive
               /\ mem'[Ptr(h)] = mem[Ptr(h)] /\ Id(h)' = Id(h)
    <2>1. Ptr(h) \in alive
      BY Zenon DEF HT_Inv, HT_Table, at
    <2> QED BY <1>1, <1>2, <2>1 DEF Ptr, Id
  <1>5. HT_Types(c)'
    <2>1. HT_Locals(loc'[c])
      BY <1>1, HT_Known, ZenonT(40) DEF Has, HT_Locals, Places, Creating
    <2>2. mem' \in [Obj -> [pid : Pids \cup {0}, ReferenceCount : Nat]]
      BY <1>1, <1>2, Zenon
    <2> QED BY <1>1, <2>1, <2>2, Zenon DEF HT_Inv, HT_Types
  <1>6. HT_Table(c)'
    BY <1>1, <1>3, <1>4 DEF Has, HT_Inv, HT_Table, at, OneHandlePerPid, Creating, Ptr
  <1>7. HT_Counts(c)'
    <2>1. \A h : ~InHand(loc[c], h) /\ ~InHand(loc'[c], h)
      BY Zenon DEF Has, InHand
    <2> QED BY <1>3, <1>4, <2>1 DEF Has, HT_Inv, HT_Counts, Freeing, Times
  <1>8. HT_Open(loc[c])' /\ HT_Close(loc[c], held[c])'
    BY Zenon DEF Has, HT_Open, HT_Close, Freeing
  <1>9. HT_Create(loc[c])'
    BY <1>1, <1>2, <1>3, <1>4, ZenonT(40) DEF Has, HT_Create, NotOpen, OpenFor, Creating
  <1> QED BY <1>5, <1>6, <1>7, <1>8, <1>9, Zenon DEF HT_Inv

\* A table of n entries is a sequence
LEMMA HT_SeqOf ==
    ASSUME NEW n \in Nat, NEW S, NEW s \in [1 .. n -> S]
    PROVE  s \in Seq(S) /\ Len(s) = n /\ (n # 0 => s # <<>>)
  OBVIOUS

\* The table is made; it is empty
LEMMA HT_InitList ==
    ASSUME NEW c, HT_Inv(c), Create_InitList(c) PROVE HT_Inv(c)'
  <1>1. /\ loc[c].pc = "initlist" /\ goto(c, [pc |-> "scan"])
        /\ HandleList' = [i \in 1 .. InitMax - 1 |-> Entry("htEmpty", NULL)]
        /\ UNCHANGED <<mem, alive, exists, held>>
    BY Zenon DEF Create_InitList, step, at
  <1>2. DOMAIN loc' = {c} /\ Has(loc'[c], "scan", loc[c].ret, loc[c].pid, loc[c].h, loc[c].i,
                                loc[c].obj, loc[c].type, loc[c].count)
    <2>1. DOMAIN loc' = {c} /\ Moved(loc'[c], loc[c], [pc |-> "scan"])
      BY <1>1, HT_Goto, Zenon
    <2> QED BY <2>1, Zenon DEF Moved, Has
  <1>3. HandleList = <<>> /\ Used = {} /\ Used' = {}
    BY <1>1 DEF HT_Inv, HT_Create, Used, Entry
  <1>4. /\ HandleList' \in Seq([type : handleType, pointer : Obj \cup {NULL}])
        /\ HandleList' # <<>>
    <2>1. InitMax - 1 \in Nat \ {0}
      BY TableAssumption
    <2>2. HandleList' \in [1 .. InitMax - 1 -> [type : handleType, pointer : Obj \cup {NULL}]]
      BY <1>1, Zenon DEF Entry, handleType
    <2> QED BY <2>1, <2>2, HT_SeqOf, Zenon
  <1>5. HT_Types(c)'
    <2>1. HT_Locals(loc'[c])
      BY <1>2, HT_Known, Zenon DEF Has, HT_Locals, Places, Creating
    <2> QED BY <1>1, <1>2, <1>4, <2>1, Zenon DEF HT_Inv, HT_Types
  <1>6. HT_Table(c)' /\ HT_Counts(c)'
    BY <1>1, <1>2, <1>3, Zenon DEF Has, HT_Inv, HT_Table, HT_Counts, OneHandlePerPid, Creating
  <1>7. HT_Open(loc[c])' /\ HT_Close(loc[c], held[c])'
    BY <1>2, Zenon DEF Has, HT_Open, HT_Close, Freeing
  <1>8. HT_Create(loc[c])'
    BY <1>1, <1>2, <1>3, <1>4, Zenon DEF Has, HT_Inv, HT_Create, Creating, NotOpen
  <1> QED BY <1>5, <1>6, <1>7, <1>8, Zenon DEF HT_Inv

\* The object gets its handle, n
LEMMA HT_NewHandle ==
    ASSUME NEW c, HT_Inv(c), NEW n \in Nat \ {0}, n \notin Used,
           loc[c].pc \in {"store", "grow"},
           UNCHANGED <<mem, alive, exists, held>>,
           HandleList' \in Seq([type : handleType, pointer : Obj \cup {NULL}]),
           Used' = Used \cup {n}, HandleList'[n] = Entry(loc[c].type, loc[c].obj),
           \A h \in Used : HandleList'[h] = HandleList[h],
           goto(c, [pc |-> loc[c].ret, h |-> n])
    PROVE  HT_Inv(c)'
  <1>1. DOMAIN loc' = {c} /\ Has(loc'[c], loc[c].ret, loc[c].ret, loc[c].pid, n, loc[c].i,
                                loc[c].obj, loc[c].type, loc[c].count)
    <2>1. DOMAIN loc' = {c} /\ Moved(loc'[c], loc[c], [pc |-> loc[c].ret, h |-> n])
      BY HT_Goto, Zenon
    <2> QED BY <2>1, Zenon DEF Moved, Has
  <1>2. /\ loc[c].obj \in alive /\ \A h \in Used : Ptr(h) # loc[c].obj
        /\ mem[loc[c].obj] = [pid |-> loc[c].pid, ReferenceCount |-> 1]
        /\ loc[c].type # "htEmpty" /\ loc[c].ret \in {"reply", "snapclose"}
        /\ loc[c].type = "htProcesHandle" => NotOpen(loc[c].pid)
        /\ loc[c].ret = "snapclose" => loc[c].type = "htProcesHandle"
    BY Zenon DEF HT_Inv, HT_Create, Creating
  <1>3. alive \subseteq Obj
    BY Zenon DEF HT_Inv, HT_Types
  <1>4. ASSUME NEW h \in Used
        PROVE  h # n /\ Ptr(h)' = Ptr(h) /\ Id(h)' = Id(h) /\ HandleList'[h] = HandleList[h]
    BY ZenonT(40) DEF Ptr, Id
  <1>5. /\ Ptr(n)' = loc[c].obj
        /\ Id(n)' = [h |-> n, type |-> loc[c].type, pid |-> loc[c].pid]
    BY <1>2 DEF Ptr, Id, Entry
  <1>6. HT_Types(c)'
    <2>1. HT_Locals(loc'[c])
      BY <1>1, <1>2, HT_Known, Zenon DEF Has, HT_Locals, Places
    <2> QED BY <1>1, <2>1, Zenon DEF HT_Inv, HT_Types
  <1>7. HT_Table(c)'
    <2>1. \A h \in Used' : Ptr(h)' \in Obj /\ Ptr(h)' \in alive'
      BY <1>2, <1>3, <1>4, <1>5, ZenonT(40) DEF HT_Inv, HT_Table, at
    <2>2. \A g, h \in Used' : Ptr(g)' = Ptr(h)' => g = h
      BY <1>2, <1>4, <1>5 DEF HT_Inv, HT_Table
    <2>3. \A o \in alive' : \E h \in Used' : Ptr(h)' = o
      BY <1>4, <1>5 DEF HT_Inv, HT_Table
    <2>4. OneHandlePerPid'
      <3>1. \A g, h \in Used :
               /\ g # h
               /\ HandleList[g].type = "htProcesHandle" /\ HandleList[h].type = "htProcesHandle"
               => mem[Ptr(g)].pid # mem[Ptr(h)].pid
        BY Zenon DEF HT_Inv, HT_Table, OneHandlePerPid, Ptr
      <3>2. \A g \in Used : HandleList[g].type = "htProcesHandle" /\ loc[c].type = "htProcesHandle"
                               => mem[Ptr(g)].pid # loc[c].pid
        BY <1>2, ZenonT(40) DEF NotOpen, OpenFor
      <3>3. /\ mem'[Ptr(n)'].pid = loc[c].pid /\ HandleList'[n].type = loc[c].type
            /\ \A g \in Used : mem'[Ptr(g)'].pid = mem[Ptr(g)].pid /\ g # n
                               /\ HandleList'[g].type = HandleList[g].type
        BY <1>2, <1>4, <1>5 DEF Entry
      <3>4. \A g, h \in Used' :
               /\ g # h
               /\ HandleList'[g].type = "htProcesHandle" /\ HandleList'[h].type = "htProcesHandle"
               => mem'[Ptr(g)'].pid # mem'[Ptr(h)'].pid
        BY <3>1, <3>2, <3>3
      <3> QED BY <3>4, Zenon DEF OneHandlePerPid, Ptr
    <2> QED BY <2>1, <2>2, <2>3, <2>4, Zenon DEF HT_Table
  <1>8. HT_Counts(c)'
    <2>1. \A x \in DOMAIN held'[c] : x.h \in Used' /\ x = Id(x.h)'
      BY <1>4, ZenonT(40) DEF HT_Inv, HT_Counts
    <2>2. \A h : Times(Id(h), held[c]) \in Nat
      BY HT_Times, Zenon DEF HT_Inv, HT_Types
    <2>3. Times(Id(n)', held[c]) = 0
      <3>1. Id(n)' \notin DOMAIN held[c]
        BY <1>5 DEF HT_Inv, HT_Counts
      <3> QED BY <3>1, Zenon DEF Times
    <2>4. \A h \in Used : ~InHand(loc[c], h) /\ ~InHand(loc'[c], h)
      BY <1>1, <1>4, Zenon DEF Has, InHand
    <2>5. InHand(loc'[c], n)
      BY <1>1, <1>2, Zenon DEF Has, InHand
    <2>6. ASSUME NEW h \in Used
          PROVE  /\ mem[Ptr(h)].ReferenceCount = Times(Id(h), held[c])
                 /\ HandleList[h].type # "htProcesHandle" => mem[Ptr(h)].ReferenceCount = 1
      BY <2>2, <2>4 DEF HT_Inv, HT_Counts, Freeing
    <2>7. ASSUME NEW h \in Used'
          PROVE  /\ mem'[Ptr(h)'].ReferenceCount =
                      Times(Id(h)', held'[c]) + (IF InHand(loc'[c], h) THEN 1 ELSE 0)
                 /\ HandleList'[h].type # "htProcesHandle" => mem'[Ptr(h)'].ReferenceCount = 1
      <3>1. CASE h = n
        BY <3>1, <1>2, <1>5, <2>3, <2>5
      <3>2. CASE h \in Used
        BY <3>2, <1>4, <2>2, <2>4, <2>6
      <3> QED BY <3>1, <3>2, Zenon
    <2> QED BY <2>1, <2>7, Zenon DEF HT_Counts
  <1>9. HT_Open(loc[c])' /\ HT_Create(loc[c])'
    BY <1>1, <1>2, Zenon DEF Has, HT_Open, HT_Create, Creating
  <1>10. HT_Close(loc[c], held[c])'
    BY <1>1, <1>2, <1>5 DEF Has, HT_Close, Freeing, Entry
  <1> QED BY <1>6, <1>7, <1>8, <1>9, <1>10, Zenon DEF HT_Inv

\* An entry that was free is the handle
LEMMA HT_Store ==
    ASSUME NEW c, HT_Inv(c), Create_Store(c) PROVE HT_Inv(c)'
  <1>1. /\ loc[c].pc = "store" /\ goto(c, [pc |-> loc[c].ret, h |-> loc[c].i])
        /\ HandleList' = [HandleList EXCEPT ![loc[c].i] = Entry(loc[c].type, loc[c].obj)]
        /\ UNCHANGED <<mem, alive, exists, held>>
    BY Zenon DEF Create_Store, step, at
  <1>2. /\ loc[c].i \in DOMAIN HandleList /\ HandleList[loc[c].i].type = "htEmpty"
        /\ loc[c].i \in Nat \ {0} /\ loc[c].type \in handleType \ {"htEmpty"}
        /\ loc[c].obj \in Obj \cup {NULL}
    BY <1>1, Zenon DEF HT_Inv, HT_Types, HT_Locals, HT_Create, Creating
  <1>3. HandleList \in Seq([type : handleType, pointer : Obj \cup {NULL}])
    BY Zenon DEF HT_Inv, HT_Types
  <1>4. Entry(loc[c].type, loc[c].obj) \in [type : handleType, pointer : Obj \cup {NULL}]
    BY <1>2, Zenon DEF Entry
  <1>5. /\ HandleList' \in Seq([type : handleType, pointer : Obj \cup {NULL}])
        /\ DOMAIN HandleList' = DOMAIN HandleList
    BY <1>1, <1>2, <1>3, <1>4
  <1>6. /\ loc[c].i \notin Used /\ Used' = Used \cup {loc[c].i}
        /\ HandleList'[loc[c].i] = Entry(loc[c].type, loc[c].obj)
        /\ \A h \in Used : HandleList'[h] = HandleList[h]
    BY <1>1, <1>2, <1>5, Zenon DEF Used, Entry
  <1> QED BY <1>1, <1>2, <1>5, <1>6, HT_NewHandle, Zenon

\* The table is full: the first of the entries that are appended is the handle, and the
\* others are free
LEMMA HT_Grow ==
    ASSUME NEW c, Serial(c), HT_Inv(c), Create_Grow(c) PROVE HT_Inv(c)'
  <1> DEFINE n == HandleList_max
             new(g, k) == IF k < n THEN HandleList[k]
                          ELSE IF k = n THEN Entry(loc[c].type, loc[c].obj)
                          ELSE IF k < n + Zeroed(n) THEN Entry("htEmpty", NULL)
                          ELSE Entry(g[k], NULL)
  <1>1. /\ loc[c].pc = "grow" /\ goto(c, [pc |-> loc[c].ret, h |-> n])
        /\ UNCHANGED <<mem, alive, exists, held>>
    BY Zenon DEF Create_Grow, step, at
  <1>2. PICK g \in [n .. 2 * n - 1 -> Uninit] : HandleList' = [k \in 1 .. 2 * n - 1 |-> new(g, k)]
    BY Zenon DEF Create_Grow
  <1>3. /\ HandleList \in Seq([type : handleType, pointer : Obj \cup {NULL}])
        /\ loc[c].type \in handleType \ {"htEmpty"} /\ loc[c].obj \in Obj \cup {NULL}
        /\ HandleList # <<>>
    BY <1>1, Zenon DEF HT_Inv, HT_Types, HT_Locals, HT_Create, Creating
  <1>4. n = Len(HandleList) + 1 /\ n \in Nat \ {0} /\ 2 * n - 1 \in Nat /\ DOMAIN HandleList = 1 .. n - 1
    BY <1>3 DEF HandleList_max
  <1>5. ASSUME NEW k \in 1 .. 2 * n - 1
        PROVE  /\ k < n => new(g, k) = HandleList[k]
               /\ new(g, n) = Entry(loc[c].type, loc[c].obj)
               /\ k > n => new(g, k) = Entry("htEmpty", NULL)
    <2>1. k > n => g[k] = "htEmpty"
      BY <1>2, <1>4 DEF Serial
    <2> QED BY <1>4, <2>1
  <1> HIDE DEF new
  <1>6. ASSUME NEW k \in 1 .. 2 * n - 1
        PROVE  new(g, k) \in [type : handleType, pointer : Obj \cup {NULL}]
    <2>1. CASE k < n
      <3>1. k \in DOMAIN HandleList
        BY <1>4, <2>1
      <3>2. HandleList[k] \in [type : handleType, pointer : Obj \cup {NULL}]
        BY <1>3, <3>1, HT_ElementOf, ZenonT(40)
      <3> QED BY <1>5, <2>1, <3>2, Zenon
    <2>2. CASE k = n
      BY <1>3, <1>5, <2>2 DEF Entry
    <2>3. CASE k > n
      BY <1>5, <2>3 DEF Entry, handleType
    <2> QED BY <1>4, <2>1, <2>2, <2>3
  <1>7. HandleList' \in Seq([type : handleType, pointer : Obj \cup {NULL}])
    BY <1>2, <1>4, <1>6, HT_SeqOf, Zenon
  <1>8. n \in 1 .. 2 * n - 1 /\ n \notin DOMAIN HandleList
    BY <1>4
  <1>9. HandleList'[n] = Entry(loc[c].type, loc[c].obj)
    BY <1>2, <1>5, <1>8, Zenon
  <1>10. \A h \in DOMAIN HandleList : h \in DOMAIN HandleList' /\ HandleList'[h] = HandleList[h]
    BY SMTT(30), <1>2, <1>4, <1>5
  <1>11. \A k \in DOMAIN HandleList' : k \notin DOMAIN HandleList /\ k # n =>
            HandleList'[k] = Entry("htEmpty", NULL)
    BY <1>2, <1>4, <1>5
  <1>12. n \notin Used /\ Used' = Used \cup {n} /\ \A h \in Used : HandleList'[h] = HandleList[h]
    <2>1. n \notin Used /\ \A h \in Used : HandleList'[h] = HandleList[h]
      BY <1>8, <1>10, Zenon DEF Used
    <2>2. n \in DOMAIN HandleList' /\ Entry(loc[c].type, loc[c].obj).type # "htEmpty"
          /\ Entry("htEmpty", NULL).type = "htEmpty"
      BY <1>2, <1>3, <1>8, Zenon DEF Entry
    <2>3. ASSUME NEW h \in Used \cup {n} PROVE h \in Used'
      BY <1>9, <1>10, <2>2, Zenon DEF Used
    <2>4. ASSUME NEW h \in Used' PROVE h \in Used \cup {n}
      BY <1>10, <1>11, <2>2, Zenon DEF Used
    <2> QED BY <2>1, <2>3, <2>4, Zenon
  <1> QED BY <1>1, <1>4, <1>7, <1>9, <1>12, HT_NewHandle, Zenon

\* OpenProcess makes an object for a process that is there
LEMMA HT_New ==
    ASSUME NEW c, HT_Inv(c), OpenProcess_New(c) PROVE HT_Inv(c)'
  <1>1. loc[c].pc = "chdir" /\ UNCHANGED <<HandleList, exists, held>>
    BY Zenon DEF OpenProcess_New, step, at
  <1>2. ASSUME NEW o, malloc(o, [pid |-> loc[c].pid, ReferenceCount |-> 1]),
               goto(c, [pc |-> "create", obj |-> o, type |-> "htProcesHandle"])
        PROVE  HT_Inv(c)'
    <2>1. /\ NotOpen(loc[c].pid) /\ loc[c].ret \in {"reply", "snapclose"}
          /\ "htProcesHandle" \in handleType \ {"htEmpty"}
      BY <1>1, Zenon DEF HT_Inv, HT_Open, handleType
    <2>2. PICK r \in {"reply", "snapclose"}, t \in handleType \ {"htEmpty"} :
            r = loc[c].ret /\ t = "htProcesHandle"
      BY <2>1, Zenon
    <2>3. DOMAIN loc' = {c} /\ Has(loc'[c], "create", r, loc[c].pid, loc[c].h, loc[c].i,
                                  o, t, loc[c].count)
      <3>1. /\ DOMAIN loc' = {c}
            /\ Moved(loc'[c], loc[c], [pc |-> "create", obj |-> o, type |-> "htProcesHandle"])
        BY <1>2, HT_Goto, Zenon
      <3> QED BY <2>2, <3>1, Zenon DEF Moved, Has
    <2> QED BY <1>1, <1>2, <2>1, <2>2, <2>3, HT_NewObject, Zenon
  <1>3. ASSUME goto(c, [pc |-> loc[c].ret, h |-> 0]), UNCHANGED <<mem, alive>> PROVE HT_Inv(c)'
    <2>1. DOMAIN loc' = {c} /\ Moved(loc'[c], loc[c], [pc |-> loc[c].ret, h |-> 0])
      BY <1>3, HT_Goto, Zenon
    <2>2. Has(loc'[c], loc[c].ret, loc[c].ret, loc[c].pid, 0, loc[c].i, loc[c].obj,
              loc[c].type, loc[c].count)
      BY <2>1, Zenon DEF Moved, Has
    <2>3. loc'[c].pc \in {"reply", "snapclose"} /\ loc'[c].h = 0
      BY <1>1, <2>2, HT_Known, Zenon DEF Has, HT_Open
    <2>4. HT_Locals(loc'[c])
      BY <2>2, <2>3, HT_Known DEF Has, HT_Locals, Places
    <2>5. HT_Open(loc'[c]) /\ HT_Create(loc'[c])
      BY <2>3, HT_Outside, Zenon DEF Creating
    <2>6. HT_Close(loc'[c], held[c])
      BY <2>3, Zenon DEF HT_Close, Freeing
    <2>7. \A h \in Used : InHand(loc'[c], h) <=> InHand(loc[c], h)
      BY <1>1, <2>3, HT_Entry, Zenon DEF InHand
    <2>8. /\ loc[c].pc \notin Freeing /\ loc'[c].pc # "remove"
          /\ loc[c].pc \in Creating => loc'[c].pc \in Creating /\ loc'[c].obj = loc[c].obj
      BY <1>1, <2>3, Zenon DEF Creating, Freeing
    <2> QED
      BY <1>1, <1>3, <2>1, <2>4, <2>5, <2>6, <2>7, <2>8, HT_LocalStep, Zenon DEF HT_Knows
  <1> QED BY <1>2, <1>3, Zenon DEF OpenProcess_New

\* A list or a thread gets an object
LEMMA HT_NewOther ==
    ASSUME NEW c, HT_Inv(c), NEW t \in {"htTHSProcess", "htTHSModule", "htNativeThreadHandle"},
           loc[c].pc \in {"snapprocess", "snapcreate", "threadobject"}, newObject(c, t)
    PROVE  HT_Inv(c)'
  <1>1. PICK o : /\ malloc(o, [pid |-> loc[c].pid, ReferenceCount |-> 1])
                 /\ goto(c, [pc |-> "create", ret |-> "reply", obj |-> o, type |-> t])
    BY Zenon DEF newObject
  <1>2. DOMAIN loc' = {c} /\ Has(loc'[c], "create", "reply", loc[c].pid, loc[c].h, loc[c].i,
                                o, t, loc[c].count)
    <2>1. DOMAIN loc' = {c} /\ Moved(loc'[c], loc[c],
                                     [pc |-> "create", ret |-> "reply", obj |-> o, type |-> t])
      BY <1>1, HT_Goto, Zenon
    <2> QED BY <2>1, Zenon DEF Moved, Has
  <1>3. t \in handleType \ {"htEmpty"} /\ t # "htProcesHandle"
    BY Zenon DEF handleType
  <1>4. UNCHANGED <<HandleList, exists, held>>
    BY Zenon DEF newObject
  <1> QED BY <1>1, <1>2, <1>3, <1>4, HT_NewObject, Zenon

\* CloseHandle takes one off the count, and goes on to free the object if that was the last
LEMMA HT_Decref ==
    ASSUME NEW c, HT_Inv(c), CloseHandle_Decref(c) PROVE HT_Inv(c)'
  <1> DEFINE next == IF loc[c].count - 1 <= 0 THEN "free" ELSE AfterClose(loc[c])
  <1>1. /\ loc[c].pc = "decref" /\ goto(c, [pc |-> next])
        /\ mem' = [mem EXCEPT ![loc[c].obj].ReferenceCount = loc[c].count - 1]
        /\ UNCHANGED <<HandleList, alive, exists, held>>
    BY Zenon DEF CloseHandle_Decref, setCount, step, at
  <1>2. DOMAIN loc' = {c} /\ Has(loc'[c], next, loc[c].ret, loc[c].pid, loc[c].h, loc[c].i,
                                loc[c].obj, loc[c].type, loc[c].count)
    <2>1. DOMAIN loc' = {c} /\ Moved(loc'[c], loc[c], [pc |-> next])
      BY <1>1, HT_Goto, Zenon
    <2> QED BY <2>1, Zenon DEF Moved, Has
  <1>3. /\ loc[c].h \in Used /\ loc[c].obj = Ptr(loc[c].h) /\ loc[c].obj \in Obj
        /\ loc[c].type = HandleList[loc[c].h].type
        /\ loc[c].count = mem[loc[c].obj].ReferenceCount
        /\ loc[c].ret \in {"closed", "snapcreate"}
    BY <1>1, HT_Entry, Zenon DEF HT_Inv, HT_Close
  <1>4. \A h : Times(Id(h), held[c]) \in Nat /\ (Times(Id(h), held[c]) > 0 <=> Id(h) \in DOMAIN held[c])
    BY HT_Times, Zenon DEF HT_Inv, HT_Types
  <1>5. mem \in [Obj -> [pid : Pids \cup {0}, ReferenceCount : Nat]]
    BY Zenon DEF HT_Inv, HT_Types
  <1>6. /\ loc[c].count = Times(Id(loc[c].h), held[c]) + 1
        /\ loc[c].type # "htProcesHandle" => loc[c].count = 1
    BY <1>1, <1>3, Zenon DEF HT_Inv, HT_Counts, InHand, Freeing
  <1>7. \/ next = "free" /\ Id(loc[c].h) \notin DOMAIN held[c]
        \/ next = loc[c].ret /\ loc[c].type = "htProcesHandle"
    <2> DEFINE x == Id(loc[c].h)
               k == Times(x, held[c])
    <2>1. k \in Nat /\ (k > 0 <=> x \in DOMAIN held[c]) /\ loc[c].count = k + 1
      BY <1>4, <1>6, Zenon
    <2> HIDE DEF x, k
    <2>2. CASE k = 0
      <3>1. loc[c].count - 1 <= 0
        BY <2>1, <2>2
      <3> QED BY <2>1, <2>2, <3>1 DEF x
    <2>3. CASE k # 0
      <3>1. ~(loc[c].count - 1 <= 0) /\ loc[c].count # 1
        BY <2>1, <2>3
      <3>2. loc[c].type = "htProcesHandle"
        BY <1>6, <3>1, Zenon
      <3> QED BY <3>1, <3>2, Zenon DEF AfterClose
    <2> QED BY <2>2, <2>3, Zenon
  <1> HIDE DEF next
  <1>8. Used' = Used
    BY <1>1, Zenon DEF Used
  <1>9. ASSUME NEW h \in Used
        PROVE  /\ Ptr(h)' = Ptr(h) /\ mem'[Ptr(h)].pid = mem[Ptr(h)].pid /\ Id(h)' = Id(h)
               /\ mem'[Ptr(h)].ReferenceCount =
                     IF h = loc[c].h THEN loc[c].count - 1 ELSE mem[Ptr(h)].ReferenceCount
    <2>1. Ptr(h) \in Obj /\ (Ptr(h) = loc[c].obj <=> h = loc[c].h)
      BY <1>3, HT_Entry, Zenon DEF HT_Inv, HT_Table
    <2> QED BY <1>1, <1>3, <1>5, <2>1, Zenon DEF Ptr, Id
  <1>10. HT_Types(c)'
    <2>1. loc[c].count - 1 \in Nat
      BY <1>4, <1>6
    <2>2. mem' \in [Obj -> [pid : Pids \cup {0}, ReferenceCount : Nat]]
      BY <1>1, <1>3, <1>5, <2>1, Zenon
    <2>3. next \in Places
      BY <1>3, <1>7, Zenon DEF Places, Freeing
    <2>4. HT_Locals(loc'[c])
      BY <1>2, <2>3, HT_Known, Zenon DEF Has, HT_Locals
    <2> QED BY <1>1, <1>2, <2>2, <2>4, Zenon DEF HT_Inv, HT_Types
  <1>11. HT_Table(c)'
    <2>1. OneHandlePerPid'
      BY <1>1, <1>8, <1>9 DEF HT_Inv, HT_Table, OneHandlePerPid, Ptr
    <2> QED BY <1>1, <1>2, <1>8, <1>9, <2>1 DEF Has, HT_Inv, HT_Table, at, Creating
  <1>12. HT_Counts(c)'
    <2>1. \A x \in DOMAIN held'[c] : x.h \in Used' /\ x = Id(x.h)'
      BY <1>1, <1>8, <1>9, ZenonT(40) DEF HT_Inv, HT_Counts
    <2>2. ASSUME NEW h \in Used, ~(next = "free" /\ h = loc[c].h)
          PROVE  /\ mem'[Ptr(h)'].ReferenceCount =
                      Times(Id(h)', held'[c]) + (IF InHand(loc'[c], h) THEN 1 ELSE 0)
                 /\ HandleList'[h].type # "htProcesHandle" => mem'[Ptr(h)'].ReferenceCount = 1
      <3>1. ~InHand(loc'[c], h) /\ (InHand(loc[c], h) <=> h = loc[c].h)
        BY <1>1, <1>2, <1>3, <1>7, Zenon DEF Has, InHand
      <3>2. CASE h = loc[c].h
        <4> DEFINE k == Times(Id(loc[c].h), held[c])
        <4>1. k \in Nat /\ loc[c].count = k + 1
          BY <1>4, <1>6, Zenon
        <4>2. mem'[Ptr(h)'].ReferenceCount = loc[c].count - 1
          BY <1>9, <3>2, Zenon
        <4>3. Times(Id(h)', held'[c]) = k
          BY <1>1, <1>9, <3>2, Zenon
        <4>4. HandleList'[h].type = "htProcesHandle"
          BY <1>1, <1>3, <1>7, <2>2, <3>2, Zenon
        <4> HIDE DEF k
        <4>5. mem'[Ptr(h)'].ReferenceCount = k
          BY <4>1, <4>2
        <4> QED BY <3>1, <4>1, <4>3, <4>4, <4>5
      <3>3. CASE h # loc[c].h
        <4>0. /\ mem[Ptr(h)].ReferenceCount =
                    Times(Id(h), held[c]) + (IF InHand(loc[c], h) THEN 1 ELSE 0)
              /\ HandleList[h].type # "htProcesHandle" => mem[Ptr(h)].ReferenceCount = 1
          BY <1>1, Zenon DEF HT_Inv, HT_Counts, Freeing
        <4>1. mem[Ptr(h)].ReferenceCount = Times(Id(h), held[c]) /\ Times(Id(h), held[c]) \in Nat
          BY <1>4, <3>1, <3>3, <4>0
        <4>2. /\ mem'[Ptr(h)'].ReferenceCount = mem[Ptr(h)].ReferenceCount
              /\ Times(Id(h)', held'[c]) = Times(Id(h), held[c])
              /\ HandleList'[h].type = HandleList[h].type
          BY <1>1, <1>9, <3>3, Zenon
        <4> QED BY <3>1, <4>0, <4>1, <4>2
      <3> QED BY <3>2, <3>3, Zenon
    <2> QED BY <1>2, <1>8, <2>1, <2>2, Zenon DEF Has, HT_Counts, Freeing
  <1>13. HT_Open(loc[c])' /\ HT_Create(loc[c])'
    <2>1. loc'[c].pc \in {"free", "closed", "snapcreate"}
      BY <1>2, <1>3, <1>7, Zenon DEF Has
    <2> QED BY <2>1, Zenon DEF HT_Open, HT_Create, Creating
  <1>14. HT_Close(loc[c], held[c])'
    <2>1. /\ \A h \in Used : Ptr(h)' = Ptr(h) /\ Id(h)' = Id(h)
          /\ HandleList' = HandleList /\ held' = held
      BY <1>1, <1>9, Zenon
    <2>2. CASE next = "free"
      <3>1. Id(loc[c].h) \notin DOMAIN held[c]
        BY <1>3, <1>7, <2>2, Zenon
      <3> QED BY <1>2, <1>3, <1>8, <2>1, <2>2, <3>1, Zenon DEF Has, HT_Close, Freeing
    <2>3. CASE next = loc[c].ret
      <3>1. loc'[c].pc \in {"closed", "snapcreate"}
        BY <1>2, <1>3, <2>3, Zenon DEF Has
      <3> QED BY <3>1, Zenon DEF HT_Close, Freeing
    <2> QED BY <1>7, <2>2, <2>3, Zenon
  <1> QED BY <1>10, <1>11, <1>12, <1>13, <1>14, Zenon DEF HT_Inv

\* The object is freed; its handle is still in the table
LEMMA HT_Free ==
    ASSUME NEW c, HT_Inv(c), CloseHandle_Free(c) PROVE HT_Inv(c)'
  <1>1. /\ loc[c].pc = "free" /\ goto(c, [pc |-> "remove"]) /\ alive' = alive \ {loc[c].obj}
        /\ UNCHANGED <<HandleList, mem, exists, held>>
    BY Zenon DEF CloseHandle_Free, step, at
  <1>2. DOMAIN loc' = {c} /\ Has(loc'[c], "remove", loc[c].ret, loc[c].pid, loc[c].h,
                                loc[c].i, loc[c].obj, loc[c].type, loc[c].count)
    <2>1. DOMAIN loc' = {c} /\ Moved(loc'[c], loc[c], [pc |-> "remove"])
      BY <1>1, HT_Goto, Zenon
    <2> QED BY <2>1, Zenon DEF Moved, Has
  <1>3. loc[c].h \in Used /\ loc[c].obj = Ptr(loc[c].h)
    BY <1>1, Zenon DEF HT_Inv, HT_Close
  <1>4. Used' = Used /\ \A h \in Used : Ptr(h)' = Ptr(h) /\ Id(h)' = Id(h)
    BY <1>1, Zenon DEF Used, Ptr, Id
  <1>5. HT_Types(c)'
    <2>1. HT_Locals(loc'[c])
      BY <1>2, HT_Known, Zenon DEF Has, HT_Locals, Places, Freeing
    <2> QED BY <1>1, <1>2, <2>1, Zenon DEF HT_Inv, HT_Types
  <1>6. HT_Table(c)'
    <2>1. loc'[c].pc = "remove" /\ loc'[c].h = loc[c].h
      BY <1>2, Zenon DEF Has
    <2>2. OneHandlePerPid'
      BY <1>1, <1>4, ZenonT(40) DEF HT_Inv, HT_Table, OneHandlePerPid
    <2>3. \A h \in Used : Ptr(h) \in Obj /\ (Ptr(h) \in alive' \/ h = loc[c].h)
      BY <1>1, <1>3, Zenon DEF HT_Inv, HT_Table, at
    <2>4. \A o \in alive' : \E h \in Used : Ptr(h) = o
      BY <1>1, Zenon DEF HT_Inv, HT_Table, Creating
    <2>5. \A g, h \in Used : Ptr(g) = Ptr(h) => g = h
      BY Zenon DEF HT_Inv, HT_Table
    <2> QED BY <1>4, <2>1, <2>2, <2>3, <2>4, <2>5 DEF HT_Table, at
  <1>7. HT_Counts(c)'
    <2>1. \A h : ~InHand(loc[c], h) /\ ~InHand(loc'[c], h)
      BY <1>1, <1>2, Zenon DEF Has, InHand
    <2>2. /\ loc[c].pc \in Freeing /\ loc'[c].pc \in Freeing /\ loc'[c].h = loc[c].h
      BY <1>1, <1>2, Zenon DEF Has, Freeing
    <2> QED BY <1>1, <1>4, <2>1, <2>2, Zenon DEF HT_Inv, HT_Counts
  <1>8. HT_Open(loc[c])' /\ HT_Create(loc[c])'
    <2>1. loc'[c].pc = "remove"
      BY <1>2, Zenon DEF Has
    <2> QED BY <2>1, Zenon DEF HT_Open, HT_Create, Creating
  <1>9. HT_Close(loc[c], held[c])'
    <2>1. /\ loc[c].type = HandleList[loc[c].h].type /\ Id(loc[c].h) \notin DOMAIN held[c]
          /\ loc[c].ret \in {"closed", "snapcreate"}
      BY <1>1, HT_Known, Zenon DEF HT_Close, Freeing
    <2>2. /\ HandleList' = HandleList /\ held' = held /\ Used' = Used
          /\ loc[c].obj \notin alive'
      BY <1>1, <1>2, <1>4, Zenon DEF Has
    <2> QED BY <1>2, <1>3, <1>4, <2>1, <2>2, Zenon DEF Has, HT_Close, Freeing
  <1> QED BY <1>5, <1>6, <1>7, <1>8, <1>9, Zenon DEF HT_Inv

\* The handle of the freed object is removed
LEMMA HT_Remove ==
    ASSUME NEW c, HT_Inv(c), CloseHandle_Remove(c) PROVE HT_Inv(c)'
  <1> DEFINE next == AfterClose(loc[c])
             E == [type : handleType, pointer : Obj \cup {NULL}]
  <1>1. /\ loc[c].pc = "remove" /\ goto(c, [pc |-> next]) /\ RemoveHandle(loc[c].h)
        /\ UNCHANGED <<mem, alive, exists, held>>
    BY Zenon DEF CloseHandle_Remove, step, at
  <1>2. DOMAIN loc' = {c} /\ Has(loc'[c], next, loc[c].ret, loc[c].pid, loc[c].h, loc[c].i,
                                loc[c].obj, loc[c].type, loc[c].count)
    <2>1. DOMAIN loc' = {c} /\ Moved(loc'[c], loc[c], [pc |-> next])
      BY <1>1, HT_Goto, Zenon
    <2> QED BY <2>1, Zenon DEF Moved, Has
  <1>3. /\ loc[c].h \in Used /\ loc[c].obj = Ptr(loc[c].h) /\ loc[c].obj \notin alive
        /\ loc[c].ret \in {"closed", "snapcreate"} /\ Id(loc[c].h) \notin DOMAIN held[c]
    BY <1>1, Zenon DEF HT_Inv, HT_Close, Freeing
  <1>4. next \in {"closed", "snapcreate", "unknown"}
    BY <1>3, Zenon DEF AfterClose
  <1> HIDE DEF next
  <1>5. loc[c].h \in DOMAIN HandleList /\ HandleList[loc[c].h].type # "htEmpty"
    BY <1>3, Zenon DEF Used
  <1>6. HandleList' = [HandleList EXCEPT ![loc[c].h].type = "htEmpty"]
    BY <1>1, <1>5, Zenon DEF RemoveHandle, GetHandleType
  <1>7. /\ HandleList' \in Seq(E)
        /\ Used' = Used \ {loc[c].h} /\ \A h \in Used' : HandleList'[h] = HandleList[h]
    <2>1. HandleList \in Seq(E) /\ HandleList[loc[c].h] \in E
      <3>1. HandleList \in Seq(E)
        BY Zenon DEF HT_Inv, HT_Types
      <3> HIDE DEF E
      <3>2. HandleList[loc[c].h] \in E
        BY <1>5, <3>1, HT_ElementOf, Zenon
      <3> QED BY <3>1, <3>2, Zenon
    <2>2. [HandleList[loc[c].h] EXCEPT !.type = "htEmpty"] \in E
      BY <2>1, Zenon DEF handleType
    <2>3. HandleList' = [HandleList EXCEPT ![loc[c].h] = [HandleList[loc[c].h] EXCEPT !.type = "htEmpty"]]
      BY <1>6, Zenon
    <2>4. HandleList' \in Seq(E) /\ DOMAIN HandleList' = DOMAIN HandleList
      BY <1>5, <2>1, <2>2, <2>3
    <2>5. HandleList'[loc[c].h].type = "htEmpty"
      BY <1>5, <2>1, <2>3, Zenon
    <2>6. \A h \in DOMAIN HandleList : h # loc[c].h => HandleList'[h] = HandleList[h]
      BY <2>1, <2>3, Zenon
    <2> QED BY <2>4, <2>5, <2>6, Zenon DEF Used
  <1>8. ASSUME NEW h \in Used'
        PROVE  h \in Used /\ h # loc[c].h /\ Ptr(h)' = Ptr(h) /\ Id(h)' = Id(h)
    BY <1>1, <1>7, Zenon DEF Ptr, Id
  <1>9. HT_Types(c)'
    <2>1. HT_Locals(loc'[c])
      BY <1>2, <1>4, HT_Known, Zenon DEF Has, HT_Locals, Places
    <2> QED BY <1>1, <1>2, <1>7, <2>1, Zenon DEF HT_Inv, HT_Types
  <1>10. HT_Table(c)'
    <2>1. OneHandlePerPid'
      BY <1>1, <1>7, <1>8 DEF HT_Inv, HT_Table, OneHandlePerPid, Ptr
    <2>2. \A h \in Used' : Ptr(h)' \in Obj /\ Ptr(h)' \in alive'
      BY <1>1, <1>8, ZenonT(40) DEF HT_Inv, HT_Table, at
    <2>3. \A g, h \in Used' : Ptr(g)' = Ptr(h)' => g = h
      BY <1>8, Zenon DEF HT_Inv, HT_Table
    <2>4. ASSUME NEW o \in alive' PROVE \E h \in Used' : Ptr(h)' = o
      <3>1. PICK h \in Used : Ptr(h) = o
        BY <1>1, Zenon DEF HT_Inv, HT_Table, Creating
      <3>2. h \in Used'
        BY <1>1, <1>3, <1>7, <3>1, Zenon
      <3> QED BY <1>8, <3>1, <3>2, Zenon
    <2> QED BY <2>1, <2>2, <2>3, <2>4, Zenon DEF HT_Table
  <1>11. HT_Counts(c)'
    <2>1. ASSUME NEW x \in DOMAIN held'[c] PROVE x.h \in Used' /\ x = Id(x.h)'
      <3>1. x \in DOMAIN held[c] /\ x.h \in Used /\ x = Id(x.h)
        BY <1>1, Zenon DEF HT_Inv, HT_Counts
      <3>2. x.h \in Used'
        BY <1>3, <1>7, <3>1, Zenon
      <3> QED BY <1>8, <3>1, <3>2, Zenon
    <2>2. ASSUME NEW h \in Used'
          PROVE  /\ mem'[Ptr(h)'].ReferenceCount =
                      Times(Id(h)', held'[c]) + (IF InHand(loc'[c], h) THEN 1 ELSE 0)
                 /\ HandleList'[h].type # "htProcesHandle" => mem'[Ptr(h)'].ReferenceCount = 1
      <3>1. ~InHand(loc'[c], h) /\ ~InHand(loc[c], h)
        BY <1>1, <1>2, <1>4, Zenon DEF Has, InHand
      <3>2. /\ mem[Ptr(h)].ReferenceCount =
                      Times(Id(h), held[c]) + (IF InHand(loc[c], h) THEN 1 ELSE 0)
            /\ HandleList[h].type # "htProcesHandle" => mem[Ptr(h)].ReferenceCount = 1
        BY <1>8, Zenon DEF HT_Inv, HT_Counts
      <3> QED BY <1>1, <1>7, <1>8, <3>1, <3>2, Zenon
    <2> QED BY <2>1, <2>2, Zenon DEF HT_Counts
  <1>12. HT_Open(loc[c])' /\ HT_Create(loc[c])'
    <2>1. loc'[c].pc \in {"closed", "snapcreate", "unknown"}
      BY <1>2, <1>4, Zenon DEF Has
    <2> QED BY <2>1, Zenon DEF HT_Open, HT_Create, Creating
  <1>13. HT_Close(loc[c], held[c])'
    BY <1>2, <1>3, <1>4, <1>7, Zenon DEF Has, HT_Close, Freeing
  <1> QED BY <1>9, <1>10, <1>11, <1>12, <1>13, Zenon DEF HT_Inv

\* There is nothing left to remove
LEMMA HT_Unknown ==
    ASSUME NEW c, HT_Inv(c), CloseHandle_Unknown(c) PROVE HT_Inv(c)'
  <1>1. /\ loc[c].pc = "unknown" /\ goto(c, [pc |-> loc[c].ret]) /\ RemoveHandle(loc[c].h)
        /\ UNCHANGED <<mem, alive, exists, held>>
    BY Zenon DEF CloseHandle_Unknown, step, at
  <1>2. loc[c].h \notin Used /\ loc[c].ret \in {"closed", "snapcreate"}
    BY <1>1, Zenon DEF HT_Inv, HT_Close
  <1>3. HandleList' = HandleList
    BY <1>1, <1>2, Zenon DEF RemoveHandle, GetHandleType, Used
  <1>4. DOMAIN loc' = {c} /\ Has(loc'[c], loc[c].ret, loc[c].ret, loc[c].pid, loc[c].h,
                                loc[c].i, loc[c].obj, loc[c].type, loc[c].count)
    <2>1. DOMAIN loc' = {c} /\ Moved(loc'[c], loc[c], [pc |-> loc[c].ret])
      BY <1>1, HT_Goto, Zenon
    <2> QED BY <2>1, Zenon DEF Moved, Has
  <1>5. DOMAIN loc'[c] = Fields /\ loc'[c].pc \in {"closed", "snapcreate"}
    BY <1>2, <1>4, Zenon DEF Has
  <1>6. HT_Knows(c, loc'[c])
    <2>1. HT_Locals(loc'[c])
      BY <1>2, <1>4, HT_Known, Zenon DEF Has, HT_Locals, Places
    <2>2. HT_Open(loc'[c]) /\ HT_Create(loc'[c]) /\ HT_Close(loc'[c], held[c])
      BY <1>5, HT_Outside, Zenon DEF Creating
    <2> QED BY <2>1, <2>2, Zenon DEF HT_Knows
  <1>7. \A h \in Used : ~InHand(loc'[c], h) /\ ~InHand(loc[c], h)
    BY <1>1, <1>5, Zenon DEF InHand
  <1>8. loc[c].pc \notin Creating \cup Freeing /\ loc'[c].pc # "remove"
    BY <1>1, <1>5, Zenon DEF Creating, Freeing
  <1> QED BY <1>1, <1>3, <1>4, <1>6, <1>7, <1>8, HT_LocalStep, Zenon

\* The client is sent the handle
LEMMA HT_Reply ==
    ASSUME NEW c, HT_Inv(c), Reply(c) PROVE HT_Inv(c)'
  <1>1. /\ loc[c].pc = "reply" /\ goto(c, Idle) /\ UNCHANGED <<HandleList, mem, alive, exists>>
        /\ held' = IF loc[c].h = 0 THEN held
                   ELSE [held EXCEPT ![c] = given(@, [h |-> loc[c].h, type |-> loc[c].type, pid |-> loc[c].pid])]
    BY Zenon DEF Reply, step, at
  <1>2. DOMAIN loc' = {c} /\ Has(loc'[c], "idle", "reply", 0, 0, 1, NULL, "htEmpty", 0)
    <2>1. DOMAIN loc' = {c} /\ Moved(loc'[c], loc[c], Idle)
      BY <1>1, HT_Goto, Zenon
    <2> QED BY <2>1, Zenon DEF Moved, Has, Idle
  <1>3. HT_Locals(loc'[c]) /\ loc'[c].pc = "idle"
    BY <1>2 DEF Has, HT_Locals, Places, handleType
  <1>4. CASE loc[c].h = 0
    <2>1. HT_Knows(c, loc'[c])
      BY <1>3, HT_Outside, Zenon DEF HT_Knows, Creating
    <2>2. \A h \in Used : InHand(loc'[c], h) <=> InHand(loc[c], h)
      BY <1>3, <1>4, HT_Entry, Zenon DEF InHand
    <2>3. loc[c].pc \notin Freeing \cup Creating /\ loc'[c].pc # "remove"
      BY <1>1, <1>3, Zenon DEF Creating, Freeing
    <2> QED BY <1>1, <1>2, <1>4, <2>1, <2>2, <2>3, HT_LocalStep, Zenon
  <1>5. CASE loc[c].h # 0
    <2>1. /\ loc[c].h \in Used
          /\ Id(loc[c].h) = [h |-> loc[c].h, type |-> loc[c].type, pid |-> loc[c].pid]
      BY <1>1, <1>5, Zenon DEF HT_Inv, HT_Close
    <2>2. DOMAIN held' = {c} /\ held'[c] = given(held[c], Id(loc[c].h)) /\ Holding(held[c])
      BY <1>1, <1>5, <2>1, Zenon DEF HT_Inv, HT_Types
    <2>3. /\ Holding(held'[c]) /\ DOMAIN held'[c] = DOMAIN held[c] \cup {Id(loc[c].h)}
          /\ \A y : Times(y, held'[c]) = Times(y, held[c]) + (IF y = Id(loc[c].h) THEN 1 ELSE 0)
      <3>1. PICK x : x = Id(loc[c].h)
        BY Zenon
      <3>2. held'[c] = given(held[c], x) /\ Holding(held[c])
        BY <2>2, <3>1, Zenon
      <3>3. PICK B : B = held[c]
        BY Zenon
      <3>4. /\ Holding(given(B, x)) /\ DOMAIN given(B, x) = DOMAIN B \cup {x}
            /\ \A y : Times(y, given(B, x)) = Times(y, B) + (IF y = x THEN 1 ELSE 0)
        BY <3>2, <3>3, HT_Given, Zenon
      <3> QED BY <3>1, <3>2, <3>3, <3>4, Zenon
    <2>4. Used' = Used /\ \A h \in Used : Ptr(h)' = Ptr(h) /\ Id(h)' = Id(h)
      BY <1>1, Zenon DEF Used, Ptr, Id
    <2>5. HT_Types(c)'
      BY <1>1, <1>2, <1>3, <2>2, <2>3, Zenon DEF HT_Inv, HT_Types
    <2>6. HT_Table(c)'
      <3>1. OneHandlePerPid'
        BY <1>1, <2>4, ZenonT(40) DEF HT_Inv, HT_Table, OneHandlePerPid, Ptr
      <3>2. \A h \in Used : Ptr(h) \in Obj /\ Ptr(h) \in alive
        BY <1>1, Zenon DEF HT_Inv, HT_Table, at
      <3>3. \A o \in alive : \E h \in Used : Ptr(h) = o
        BY <1>1, Zenon DEF HT_Inv, HT_Table, Creating
      <3>4. \A g, h \in Used : Ptr(g) = Ptr(h) => g = h
        BY Zenon DEF HT_Inv, HT_Table
      <3> QED BY <1>1, <2>4, <3>1, <3>2, <3>3, <3>4 DEF HT_Table
    <2>7. HT_Counts(c)'
      <3>1. \A x \in DOMAIN held'[c] : x.h \in Used' /\ x = Id(x.h)'
        <4>1. Id(loc[c].h).h = loc[c].h
          BY Zenon DEF Id
        <4> QED BY <2>1, <2>3, <2>4, <4>1 DEF HT_Inv, HT_Counts
      <3>2. ASSUME NEW h \in Used
            PROVE  /\ mem[Ptr(h)].ReferenceCount = Times(Id(h), held'[c])
                   /\ HandleList[h].type # "htProcesHandle" => mem[Ptr(h)].ReferenceCount = 1
        <4>1. Id(h) = Id(loc[c].h) <=> h = loc[c].h
          BY Zenon DEF Id
        <4>2. InHand(loc[c], h) <=> h = loc[c].h
          BY <1>1, Zenon DEF InHand
        <4>3. /\ mem[Ptr(h)].ReferenceCount =
                    Times(Id(h), held[c]) + (IF InHand(loc[c], h) THEN 1 ELSE 0)
              /\ HandleList[h].type # "htProcesHandle" => mem[Ptr(h)].ReferenceCount = 1
          BY <1>1, Zenon DEF HT_Inv, HT_Counts, Freeing
        <4> QED BY <2>3, <4>1, <4>2, <4>3, Zenon
      <3>3. \A h : Times(Id(h), held'[c]) \in Nat
        BY <2>3, HT_Times, Zenon
      <3>4. ASSUME NEW h \in Used'
            PROVE  /\ mem'[Ptr(h)'].ReferenceCount =
                        Times(Id(h)', held'[c]) + (IF InHand(loc'[c], h) THEN 1 ELSE 0)
                   /\ HandleList'[h].type # "htProcesHandle" => mem'[Ptr(h)'].ReferenceCount = 1
        <4>1. ~InHand(loc'[c], h)
          BY <1>3, Zenon DEF InHand
        <4>2. h \in Used /\ Ptr(h)' = Ptr(h) /\ Id(h)' = Id(h)
          BY <2>4, Zenon
        <4>3. mem' = mem /\ HandleList' = HandleList
          BY <1>1, Zenon
        <4>4. mem'[Ptr(h)'].ReferenceCount = Times(Id(h)', held'[c])
          BY <3>2, <4>2, <4>3, Zenon
        <4>5. Times(Id(h)', held'[c]) \in Nat
          BY <3>3, <4>2, Zenon
        <4>6. HandleList'[h].type # "htProcesHandle" => mem'[Ptr(h)'].ReferenceCount = 1
          BY <3>2, <4>2, <4>3, Zenon
        <4> QED BY <4>1, <4>4, <4>5, <4>6
      <3> QED BY <3>1, <3>4, Zenon DEF HT_Counts
    <2>8. HT_Open(loc[c])' /\ HT_Create(loc[c])' /\ HT_Close(loc[c], held[c])'
      BY <1>3, Zenon DEF HT_Open, HT_Create, HT_Close, Creating, Freeing
    <2> QED BY <2>5, <2>6, <2>7, <2>8, Zenon DEF HT_Inv
  <1> QED BY <1>4, <1>5, Zenon

\* CMD_CLOSEHANDLE, with a handle the client holds
LEMMA HT_CmdClose ==
    ASSUME NEW c, HT_Inv(c), CmdCloseHandle(c) PROVE HT_Inv(c)'
  <1>1. PICK x \in DOMAIN held[c] :
           /\ command(c, [pc |-> "close", h |-> x.h, ret |-> "closed"])
           /\ held' = [held EXCEPT ![c] = returned(@, x)]
    BY Zenon DEF CmdCloseHandle
  <1>2. /\ loc[c].pc = "idle" /\ UNCHANGED <<HandleList, mem, alive, exists>>
        /\ goto(c, assigned(Idle, [pc |-> "close", h |-> x.h, ret |-> "closed"]))
    BY <1>1, Zenon DEF command, step, at
  <1>3. DOMAIN loc' = {c} /\ Has(loc'[c], "close", "closed", 0, x.h, 1, NULL, "htEmpty", 0)
    <2>1. DOMAIN loc' = {c} /\ Moved(loc'[c], Idle, [pc |-> "close", h |-> x.h, ret |-> "closed"])
      BY <1>2, HT_Starts, Zenon
    <2> QED BY <2>1, Zenon DEF Moved, Has, Idle
  <1>4. x.h \in Used /\ x = Id(x.h) /\ x.h \in Nat
    BY HT_Entry, Zenon DEF HT_Inv, HT_Counts
  <1>5. DOMAIN held' = {c} /\ held'[c] = returned(held[c], x) /\ Holding(held[c])
    BY <1>1, Zenon DEF HT_Inv, HT_Types
  <1>6. /\ Holding(held'[c]) /\ DOMAIN held'[c] \subseteq DOMAIN held[c]
        /\ \A y : Times(y, held'[c]) = Times(y, held[c]) - (IF y = x THEN 1 ELSE 0)
    BY <1>5, HT_Returned
  <1>7. Used' = Used /\ \A h \in Used : Ptr(h)' = Ptr(h) /\ Id(h)' = Id(h)
    BY <1>2, Zenon DEF Used, Ptr, Id
  <1>8. HT_Types(c)'
    <2>1. HT_Locals(loc'[c])
      BY <1>3, <1>4 DEF Has, HT_Locals, Places, handleType
    <2> QED BY <1>2, <1>3, <1>5, <1>6, <2>1, Zenon DEF HT_Inv, HT_Types
  <1>9. HT_Table(c)'
    <2>1. OneHandlePerPid'
      BY <1>2, <1>7, ZenonT(40) DEF HT_Inv, HT_Table, OneHandlePerPid, Ptr
    <2>2. \A h \in Used : Ptr(h) \in Obj /\ Ptr(h) \in alive
      BY <1>2, Zenon DEF HT_Inv, HT_Table, at
    <2>3. \A o \in alive : \E h \in Used : Ptr(h) = o
      BY <1>2, Zenon DEF HT_Inv, HT_Table, Creating
    <2>4. \A g, h \in Used : Ptr(g) = Ptr(h) => g = h
      BY Zenon DEF HT_Inv, HT_Table
    <2> QED BY <1>2, <1>7, <2>1, <2>2, <2>3, <2>4 DEF HT_Table
  <1>10. HT_Counts(c)'
    <2>1. \A y \in DOMAIN held'[c] : y.h \in Used' /\ y = Id(y.h)'
      BY <1>6, <1>7, Zenon DEF HT_Inv, HT_Counts
    <2>2. \A h : Times(Id(h), held[c]) \in Nat
      BY <1>5, HT_Times, Zenon
    <2>3. ASSUME NEW h \in Used
          PROVE  /\ mem[Ptr(h)].ReferenceCount = Times(Id(h), held'[c]) + (IF h = x.h THEN 1 ELSE 0)
                 /\ HandleList[h].type # "htProcesHandle" => mem[Ptr(h)].ReferenceCount = 1
      <3>1. Id(h) = x <=> h = x.h
        BY <1>4 DEF Id
      <3>2. ~InHand(loc[c], h)
        BY <1>2, Zenon DEF InHand
      <3>3. /\ mem[Ptr(h)].ReferenceCount =
                  Times(Id(h), held[c]) + (IF InHand(loc[c], h) THEN 1 ELSE 0)
            /\ HandleList[h].type # "htProcesHandle" => mem[Ptr(h)].ReferenceCount = 1
        BY <1>2, Zenon DEF HT_Inv, HT_Counts, Freeing
      <3> QED BY <1>6, <2>2, <3>1, <3>2, <3>3
    <2>4. \A h : InHand(loc'[c], h) <=> h = x.h
      BY <1>3, Zenon DEF Has, InHand
    <2>5. \A h \in Used' :
             /\ mem'[Ptr(h)'].ReferenceCount =
                   Times(Id(h)', held'[c]) + (IF InHand(loc'[c], h) THEN 1 ELSE 0)
             /\ HandleList'[h].type # "htProcesHandle" => mem'[Ptr(h)'].ReferenceCount = 1
      BY <1>2, <1>7, <2>3, <2>4, ZenonT(40)
    <2> QED BY <2>1, <2>5, Zenon DEF HT_Counts
  <1>11. HT_Open(loc[c])' /\ HT_Create(loc[c])'
    <2>1. loc'[c].pc = "close"
      BY <1>3, Zenon DEF Has
    <2> QED BY <2>1, Zenon DEF HT_Open, HT_Create, Creating
  <1>12. HT_Close(loc[c], held[c])'
    BY <1>3, <1>4, <1>7, Zenon DEF Has, HT_Close, Freeing
  <1> QED BY <1>8, <1>9, <1>10, <1>11, <1>12, Zenon DEF HT_Inv

\* A process comes or goes, or nothing happens
LEMMA HT_Environment ==
    ASSUME NEW c, HT_Inv(c), exists' \subseteq Pids,
           UNCHANGED <<HandleList, mem, alive, loc, held>>
    PROVE  HT_Inv(c)'
  <1>1. Used' = Used /\ \A h \in Used : Ptr(h)' = Ptr(h) /\ Id(h)' = Id(h)
    BY Zenon DEF Used, Ptr, Id
  <1>2. HT_Types(c)'
    BY ZenonT(40) DEF HT_Inv, HT_Types, HT_Locals
  <1>3. HT_Table(c)'
    BY <1>1 DEF HT_Inv, HT_Table, at, OneHandlePerPid
  <1>4. HT_Counts(c)'
    BY <1>1, ZenonT(40) DEF HT_Inv, HT_Counts, Times, InHand
  <1>5. HT_Open(loc[c])'
    BY <1>1, Zenon DEF HT_Inv, HT_Open, OpenFor, NotOpen
  <1>6. HT_Create(loc[c])'
    BY <1>1, Zenon DEF HT_Inv, HT_Create, OpenFor, NotOpen
  <1>7. HT_Close(loc[c], held[c])'
    BY <1>1, Zenon DEF HT_Inv, HT_Close, Ptr, Id
  <1> QED BY <1>2, <1>3, <1>4, <1>5, <1>6, <1>7, Zenon DEF HT_Inv

\* Every step of a connection that serves alone keeps the invariant
LEMMA HT_Step ==
    ASSUME NEW c, Serial(c), HT_Inv(c), [Next]_vars PROVE HT_Inv(c)'
  <1>1. ASSUME DispatchCommand(c) PROVE HT_Inv(c)'
    <2>1. CASE CmdOpenProcess(c) BY <2>1, HT_CmdOpen, Zenon DEF CmdOpenProcess
    <2>2. CASE CmdCloseHandle(c) BY <2>2, HT_CmdClose, Zenon
    <2>3. CASE CmdCreateToolhelp32Snapshot(c)
      BY <2>3, HT_CmdSnapProcess, HT_CmdSnapModule, Zenon DEF CmdCreateToolhelp32Snapshot
    <2>4. CASE CmdCreateThread(c) BY <2>4, HT_CmdThread, HT_CmdNoThread, Zenon DEF
                                     CmdCreateThread
    <2>5. CASE Reply(c) BY <2>5, HT_Reply, Zenon
    <2>6. CASE Closed(c) BY <2>6, HT_Closed, Zenon
    <2> QED BY <1>1, <2>1, <2>2, <2>3, <2>4, <2>5, <2>6, Zenon DEF DispatchCommand
  <1>2. ASSUME OpenProcess(c) PROVE HT_Inv(c)'
    BY <1>2, HT_Search, HT_Found, HT_Incref, HT_New, Zenon DEF OpenProcess
  <1>3. ASSUME CreateHandleFromPointer(c) PROVE HT_Inv(c)'
    BY <1>3, HT_Enter, HT_InitList, HT_Scan, HT_Store, HT_Grow, Zenon DEF
       CreateHandleFromPointer
  <1>4. ASSUME CreateToolhelp32Snapshot(c) PROVE HT_Inv(c)'
    <2>1. CASE Snapshot_Process(c) BY <2>1, HT_NewOther, Zenon DEF Snapshot_Process, step, at
    <2>2. CASE Snapshot_Module(c) BY <2>2, HT_Module, Zenon
    <2>3. CASE Snapshot_Close(c) BY <2>3, HT_SnapClose, Zenon
    <2>4. CASE Snapshot_Create(c) BY <2>4, HT_NewOther, Zenon DEF Snapshot_Create, step, at
    <2> QED BY <1>4, <2>1, <2>2, <2>3, <2>4, Zenon DEF CreateToolhelp32Snapshot
  <1>5. ASSUME ThreadObject(c) PROVE HT_Inv(c)'
    BY <1>5, HT_NewOther, Zenon DEF ThreadObject, step, at
  <1>6. ASSUME CloseHandle(c) PROVE HT_Inv(c)'
    BY <1>6, HT_CloseEnter, HT_Decref, HT_Free, HT_Remove, HT_Unknown, Zenon DEF CloseHandle
  <1>7. ASSUME Environment \/ UNCHANGED vars PROVE HT_Inv(c)'
    <2>1. exists \subseteq Pids
      BY Zenon DEF HT_Inv, HT_Types
    <2>2. exists' \subseteq Pids /\ UNCHANGED <<HandleList, mem, alive, loc, held>>
      BY <1>7, <2>1, Zenon DEF Environment, ProcessExit, ProcessStart, vars
    <2> QED BY <2>2, HT_Environment, Zenon
  <1> QED BY <1>1, <1>2, <1>3, <1>4, <1>5, <1>6, <1>7, Zenon DEF Next, Serial

\* With one connection the only holder is its client
LEMMA HT_Copies ==
    ASSUME NEW c, Serial(c), HT_Inv(c), NEW x PROVE Copies(x) = Times(x, held[c])
  <1> DEFINE first(T) == CHOOSE d \in T : TRUE
             f == [d \in Conns |-> Times(x, held[d])]
             is(k) == k = [T \in SUBSET Conns |->
                             IF T = {} THEN 0 ELSE f[first(T)] + k[T \ {first(T)}]]
             g == [T \in SUBSET Conns |-> IF T = {} THEN 0 ELSE Times(x, held[c])]
             n == CHOOSE k : is(k)
  <1>1. Copies(x) = n[Conns]
    BY Zenon DEF Copies, Sum
  <1>2. first({c}) = c /\ {c} \ {c} = {} /\ SUBSET Conns = {{}, {c}} /\ {c} # {}
    BY Zenon DEF Serial
  <1>3. Times(x, held[c]) \in Nat /\ f[c] = Times(x, held[c])
    BY HT_Times, Zenon DEF HT_Inv, HT_Types, Serial
  <1> HIDE DEF first, f
  <1>4. is(g)
    <2>1. g[{}] = 0
      BY <1>2, Zenon
    <2>2. ASSUME NEW T \in SUBSET Conns
          PROVE  g[T] = IF T = {} THEN 0 ELSE f[first(T)] + g[T \ {first(T)}]
      <3>1. g[{c}] = Times(x, held[c])
        BY <1>2, Zenon
      <3>2. CASE T = {}
        BY <2>1, <3>2, Zenon
      <3>3. CASE T = {c}
        <4>1. first(T) = c /\ T \ {first(T)} = {} /\ T # {}
          BY <1>2, <3>3, Zenon
        <4>2. Times(x, held[c]) + 0 = Times(x, held[c])
          BY <1>3
        <4> QED BY <1>3, <2>1, <3>1, <3>3, <4>1, <4>2, Zenon
      <3> QED BY <1>2, <3>2, <3>3, Zenon
    <2> QED BY <2>2, Zenon
  <1>5. is(n)
    BY <1>4, Zenon
  <1> HIDE DEF n
  <1>6. n[{}] = 0 /\ n[{c}] = Times(x, held[c]) + n[{}]
    BY <1>2, <1>3, <1>5, Zenon
  <1> QED BY <1>1, <1>3, <1>6 DEF Serial

INSTANCE FiniteSetTheorems

\* Between commands every object has one handle
LEMMA HT_Owns ==
    ASSUME NEW c, Serial(c), HT_Inv(c), Quiet
    PROVE  alive = {HandleList[h].pointer : h \in Used} /\ Cardinality(alive) = Cardinality(Used)
  <1>1. loc[c].pc = "idle"
    BY Zenon DEF Quiet, Serial, at
  <1>2. /\ \A h \in Used : HandleList[h].pointer \in alive
        /\ \A g, h \in Used : HandleList[g].pointer = HandleList[h].pointer => g = h
        /\ \A o \in alive : \E h \in Used : HandleList[h].pointer = o
    BY <1>1, Zenon DEF HT_Inv, HT_Table, Ptr, at, Creating
  <1>3. IsFiniteSet(Used)
    <2>1. Used \subseteq 1 .. Len(HandleList) /\ Len(HandleList) \in Nat
      BY DEF Used, HT_Inv, HT_Types
    <2>2. IsFiniteSet(1 .. Len(HandleList))
      BY <2>1, FS_Interval
    <2> QED BY <2>1, <2>2, FS_Subset, Zenon
  <1>4. ExistsBijection(Used, alive)
    <2> DEFINE f == [h \in Used |-> HandleList[h].pointer]
    <2>1. f \in [Used -> alive] /\ \A h \in Used : f[h] = HandleList[h].pointer
      BY <1>2, Zenon
    <2> HIDE DEF f
    <2>2. f \in Bijection(Used, alive)
      BY <1>2, <2>1 DEF Bijection, Injection, Surjection, IsInjective
    <2> QED BY <2>2, Zenon DEF ExistsBijection
  <1> QED BY <1>2, <1>3, <1>4, FS_Bijection

\* The invariant says what the runs check
LEMMA HT_Says ==
    ASSUME NEW c, Serial(c), HT_Inv(c)
    PROVE  /\ TypeOK /\ HandleResolves /\ RefCountExact /\ OneHandlePerPid /\ TableOwnsHeap
           /\ ~at(c, "crashed")
  <1>1. TypeOK
    <2>1. HT_Types(c) /\ Conns = {c}
      BY Zenon DEF Serial, HT_Inv
    <2>2. /\ loc[c].h \in Nat /\ loc[c].i \in Nat \ {0} /\ loc[c].type \in handleType
          /\ loc[c].obj \in Obj \cup {NULL}
      BY <2>1, Zenon DEF HT_Types, HT_Locals
    <2>3. held[c] \in [DOMAIN held[c] -> Nat \ {0}]
      BY <2>1, Zenon DEF HT_Types, Holding
    <2> QED BY <2>1, <2>2, <2>3, Zenon DEF HT_Types, TypeOK
  <1>2. HandleResolves
    <2> SUFFICES ASSUME NEW x \in DOMAIN held[c]
                 PROVE  /\ GetHandleType(x.h) = x.type
                        /\ GetPointerFromHandle(x.h) \in alive
                        /\ mem[GetPointerFromHandle(x.h)].pid = x.pid
      BY Zenon DEF HandleResolves, Serial
    <2>1. x.h \in Used /\ x = Id(x.h)
      BY Zenon DEF HT_Inv, HT_Counts
    <2>2. x.type = HandleList[x.h].type /\ x.pid = mem[Ptr(x.h)].pid
      BY <2>1 DEF Id
    <2>3. ~(at(c, "remove") /\ x.h = loc[c].h)
      BY <2>1, Zenon DEF HT_Inv, HT_Close, Freeing, at
    <2>4. Ptr(x.h) \in alive
      BY <2>1, <2>3, Zenon DEF HT_Inv, HT_Table
    <2>5. GetHandleType(x.h) = HandleList[x.h].type /\ GetPointerFromHandle(x.h) = Ptr(x.h)
      BY <2>1, Zenon DEF Used, GetHandleType, GetPointerFromHandle, Ptr
    <2> QED BY <2>2, <2>4, <2>5, Zenon
  <1>3. RefCountExact
    <2> SUFFICES ASSUME Quiet, NEW h \in Used, HandleList[h].type = "htProcesHandle"
                 PROVE  mem[Ptr(h)].ReferenceCount =
                           Copies([h |-> h, type |-> "htProcesHandle", pid |-> mem[Ptr(h)].pid])
      BY Zenon DEF RefCountExact, Ptr
    <2>1. loc[c].pc = "idle"
      BY Zenon DEF Quiet, Serial, at
    <2>2. Id(h) = [h |-> h, type |-> "htProcesHandle", pid |-> mem[Ptr(h)].pid]
      BY Zenon DEF Id
    <2>3. Times(Id(h), held[c]) \in Nat
      BY HT_Times, ZenonT(40) DEF HT_Inv, HT_Types
    <2>4. mem[Ptr(h)].ReferenceCount = Times(Id(h), held[c])
      BY <2>1, <2>3 DEF HT_Inv, HT_Counts, InHand, Freeing
    <2> QED BY <2>2, <2>4, HT_Copies, Zenon
  <1>4. OneHandlePerPid
    BY Zenon DEF HT_Inv, HT_Table
  <1>5. TableOwnsHeap
    BY HT_Owns, Zenon DEF TableOwnsHeap
  <1>6. ~at(c, "crashed")
    BY Zenon DEF HT_Inv, HT_Types, HT_Locals, Places, Creating, Freeing, at
  <1> QED BY <1>1, <1>2, <1>3, <1>4, <1>5, <1>6, Zenon

\* With one connection the invariant holds throughout
LEMMA HT_Always ==
    ASSUME NEW c, Serial(c) PROVE Spec => []HT_Inv(c)
  <1>1. Init => HT_Inv(c)
    BY HT_InitInv, Zenon
  <1>2. HT_Inv(c) /\ [Next]_vars => HT_Inv(c)'
    BY HT_Step, Zenon
  <1> QED BY <1>1, <1>2, PTL DEF Spec

-----------------------------------------------------------------------------

\* With one connection the variables of the handle table keep their types, whatever the
\* size of the table and the processes that are opened (HandleList in porthelp.c)
THEOREM TypesAlwaysOK ==
    ASSUME NEW c, Serial(c) PROVE Spec => []TypeOK
  <1>1. HT_Inv(c) => TypeOK
    BY HT_Says, Zenon
  <1> QED BY <1>1, HT_Always, PTL

\* A handle the client was given and has not closed designates a live object of its type
\* and process, through every open, close, snapshot and growth (GetPointerFromHandle)
THEOREM HandlesAlwaysResolve ==
    ASSUME NEW c, Serial(c) PROVE Spec => []HandleResolves
  <1>1. HT_Inv(c) => HandleResolves
    BY HT_Says, Zenon
  <1> QED BY <1>1, HT_Always, PTL

\* Between the commands of the one client the ReferenceCount of a ProcessData is the number
\* of times it holds the handle (OpenProcess and CloseHandle in api.c)
THEOREM RefCountsAlwaysExact ==
    ASSUME NEW c, Serial(c) PROVE Spec => []RefCountExact
  <1>1. HT_Inv(c) => RefCountExact
    BY HT_Says, Zenon
  <1> QED BY <1>1, HT_Always, PTL

\* OpenProcess never makes a second handle for a process that is open (SearchHandleList)
THEOREM AlwaysOneHandlePerPid ==
    ASSUME NEW c, Serial(c) PROVE Spec => []OneHandlePerPid
  <1>1. HT_Inv(c) => OneHandlePerPid
    BY HT_Says, Zenon
  <1> QED BY <1>1, HT_Always, PTL

\* Between the commands of the one client every object has exactly one handle: CloseHandle
\* neither leaks an object nor leaves the handle of a freed one
THEOREM TableAlwaysOwnsHeap ==
    ASSUME NEW c, Serial(c) PROVE Spec => []TableOwnsHeap
  <1>1. HT_Inv(c) => TableOwnsHeap
    BY HT_Says, Zenon
  <1> QED BY <1>1, HT_Always, PTL

\* Neither SearchHandleList nor CloseHandle dereferences a NULL pointer while one
\* connection is served: no step of it ends the server
THEOREM NeverCrashes ==
    ASSUME NEW c, Serial(c) PROVE Spec => []~at(c, "crashed")
  <1>1. HT_Inv(c) => ~at(c, "crashed")
    BY HT_Says, Zenon
  <1> QED BY <1>1, HT_Always, PTL

=============================================================================
