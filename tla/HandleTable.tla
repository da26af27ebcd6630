---------------------------- MODULE HandleTable ----------------------------
(***************************************************************************)
(* The handle table of ceserver (porthelp.c) and the operations of api.c   *)
(* that create, share and close handles: OpenProcess, CloseHandle and      *)
(* CreateToolhelp32Snapshot, plus CMD_CREATETHREAD of the dispatcher.      *)
(*                                                                         *)
(* Every connection is served by a pthread of its own (ceserver.c, main)   *)
(* and none of this code takes a lock, so a connection's handler is a      *)
(* sequence of steps, one per access to the shared table or to a shared    *)
(* object, and the steps of different connections interleave.              *)
(***************************************************************************)
EXTENDS Integers, Sequences, FiniteSets

CONSTANTS
    Conns,       \* the connection threads
    Pids,        \* process ids of the target machine
    Obj,         \* heap blocks malloc can return
    InitMax,     \* 4096 / sizeof(HandleListEntry), scaled down
    EntrySize,   \* sizeof(HandleListEntry), scaled down with it
    Uninit,      \* what the type field of uninitialised memory can read as
    MaxHeld      \* bound: handles one client holds at once

handleType == {"htEmpty", "htProcesHandle", "htTHSProcess", "htTHSModule",
               "htNativeThreadHandle"}

NULL == "NULL"

ASSUME TableAssumption == /\ InitMax \in Nat /\ InitMax > 1
                          /\ EntrySize \in Nat \ {0}
                          /\ Uninit \subseteq handleType /\ Uninit # {}
                          /\ MaxHeld \in Nat
                          /\ NULL \notin Obj

VARIABLES
    HandleList,  \* the entries of handles 1, 2, ...; <<>> before the first use
    mem,         \* what each heap block holds (stale once it is freed)
    alive,       \* the blocks that are allocated
    exists,      \* the processes that have a /proc/<pid> now
    loc,         \* the local variables of each connection thread
    held         \* how often each client was given a handle it has not closed yet

vars == <<HandleList, mem, alive, exists, loc, held>>

HandleList_max == IF HandleList = <<>> THEN 0 ELSE Len(HandleList) + 1

Entry(t, p) == [type |-> t, pointer |-> p]

GetHandleType(h) == IF h \in DOMAIN HandleList THEN HandleList[h].type ELSE "htEmpty"

GetPointerFromHandle(h) ==
    IF GetHandleType(h) # "htEmpty" THEN HandleList[h].pointer ELSE NULL

RemoveHandle(h) ==
    HandleList' = IF GetHandleType(h) # "htEmpty"
                  THEN [HandleList EXCEPT ![h].type = "htEmpty"] ELSE HandleList

Idle == [pc |-> "idle", ret |-> "reply", pid |-> 0, h |-> 0, i |-> 1,
         obj |-> NULL, type |-> "htEmpty", count |-> 0]

Init == /\ HandleList = <<>>
        /\ mem = [o \in Obj |-> [pid |-> 0, ReferenceCount |-> 0]]
        /\ alive = {}
        /\ exists = Pids
        /\ loc = [c \in Conns |-> Idle]
        /\ held = [c \in Conns |-> <<>>]

-----------------------------------------------------------------------------
at(c, p) == loc[c].pc = p

\* Thread c can take the step at p; a crash of one thread ends the server.
step(c, p) == at(c, p) /\ \A d \in Conns : ~at(d, "crashed")

\* Thread c moves on: the fields of s are assigned, the others keep their value.
assigned(l, s) == [f \in DOMAIN l |-> IF f \in DOMAIN s THEN s[f] ELSE l[f]]
goto(c, s) == loc' = [loc EXCEPT ![c] = assigned(@, s)]

\* malloc returns any block that is not in use.
malloc(o, r) == /\ o \in Obj \ alive
                /\ alive' = alive \cup {o}
                /\ mem' = [mem EXCEPT ![o] = r]

\* Write a ReferenceCount; p may be a block that was freed meanwhile.
setCount(p, n) == mem' = [mem EXCEPT ![p].ReferenceCount = n]

\* What a client holds: a handle and how often, one more of it, one less.
Times(x, B) == IF x \in DOMAIN B THEN B[x] ELSE 0
given(B, x) == [y \in DOMAIN B \cup {x} |-> Times(y, B) + (IF y = x THEN 1 ELSE 0)]
returned(B, x) == [y \in {z \in DOMAIN B : z # x \/ B[z] > 1} |->
                      B[y] - (IF y = x THEN 1 ELSE 0)]

\* The sum of f over the finite set S.
Sum(f, S) == LET n[T \in SUBSET S] ==
                   IF T = {} THEN 0
                   ELSE LET e == CHOOSE x \in T : TRUE IN f[e] + n[T \ {e}]
             IN n[S]

(***************************************************************************)
(* The commands of a client.  A client is well behaved: it closes each     *)
(* handle it was given once.                                               *)
(***************************************************************************)
command(c, s) == /\ step(c, "idle")
                 /\ goto(c, assigned(Idle, s))
                 /\ UNCHANGED <<HandleList, mem, alive, exists>>

CmdOpenProcess(c) ==
    /\ Sum(held[c], DOMAIN held[c]) < MaxHeld
    /\ \E pid \in Pids : command(c, [pc |-> "search", pid |-> pid])
    /\ UNCHANGED held

CmdCloseHandle(c) ==
    \E x \in DOMAIN held[c] :
        /\ command(c, [pc |-> "close", h |-> x.h, ret |-> "closed"])
        /\ held' = [held EXCEPT ![c] = returned(@, x)]

CmdCreateToolhelp32Snapshot(c) ==
    /\ Sum(held[c], DOMAIN held[c]) < MaxHeld
    /\ \/ command(c, [pc |-> "snapprocess"])
       \/ \E pid \in Pids : command(c, [pc |-> "snapmodule", pid |-> pid])
    /\ UNCHANGED held

\* ext_createThread gives 0 when the extension cannot be loaded.
CmdCreateThread(c) ==
    /\ Sum(held[c], DOMAIN held[c]) < MaxHeld
    /\ \/ command(c, [pc |-> "threadobject"])
       \/ command(c, [pc |-> "reply", h |-> 0])
    /\ UNCHANGED held

\* The dispatcher sends the handle; 0 is a failure.
Reply(c) ==
    LET l == loc[c] IN
    /\ step(c, "reply")
    /\ held' = IF l.h = 0 THEN held
               ELSE [held EXCEPT ![c] = given(@, [h |-> l.h, type |-> l.type, pid |-> l.pid])]
    /\ goto(c, Idle)
    /\ UNCHANGED <<HandleList, mem, alive, exists>>

Closed(c) == /\ step(c, "closed")
             /\ goto(c, Idle)
             /\ UNCHANGED <<HandleList, mem, alive, exists, held>>

-----------------------------------------------------------------------------
(***************************************************************************)
(* OpenProcess.                                                            *)
(***************************************************************************)

\* Mutant: the search stops one entry early.
OpenProcess_Search_offByOne(c) ==
    LET l == loc[c]
        e == HandleList[l.i] IN
    /\ step(c, "search")
    /\ IF l.i >= HandleList_max - 1 THEN goto(c, [pc |-> "chdir"])
       ELSE IF e.type # "htProcesHandle" THEN goto(c, [i |-> l.i + 1])
       ELSE IF mem[e.pointer].pid = l.pid
            THEN goto(c, [pc |-> "found", h |-> l.i, type |-> "htProcesHandle"])
            ELSE goto(c, [i |-> l.i + 1])
    /\ UNCHANGED <<HandleList, mem, alive, exists, held>>

\* SearchHandleList with SearchHandleListProcessCallback: one entry per step.
OpenProcess_Search(c) ==
    LET l == loc[c]
        e == HandleList[l.i] IN
    /\ step(c, "search")
    /\ IF l.i >= HandleList_max THEN goto(c, [pc |-> "chdir"])
       ELSE IF e.type # "htProcesHandle" THEN goto(c, [i |-> l.i + 1])
       ELSE IF e.pointer = NULL THEN goto(c, [pc |-> "crashed"])
       ELSE IF mem[e.pointer].pid = l.pid
            THEN goto(c, [pc |-> "found", h |-> l.i, type |-> "htProcesHandle"])
            ELSE goto(c, [i |-> l.i + 1])
    /\ UNCHANGED <<HandleList, mem, alive, exists, held>>

\* Already opened: fetch the object again through the handle, read its count...
OpenProcess_Found(c) ==
    LET p == GetPointerFromHandle(loc[c].h) IN
    /\ step(c, "found")
    /\ IF p = NULL THEN goto(c, [pc |-> "crashed"])
       ELSE goto(c, [pc |-> "incref", obj |-> p, count |-> mem[p].ReferenceCount])
    /\ UNCHANGED <<HandleList, mem, alive, exists, held>>

\* Mutant: the shared handle is returned without counting the new user.
OpenProcess_Incref_missing(c) ==
    /\ step(c, "incref")
    /\ goto(c, [pc |-> loc[c].ret])
    /\ UNCHANGED <<HandleList, mem, alive, exists, held>>

\* ...and write it back incremented.
OpenProcess_Incref(c) ==
    /\ step(c, "incref")
    /\ setCount(loc[c].obj, loc[c].count + 1)
    /\ goto(c, [pc |-> loc[c].ret])
    /\ UNCHANGED <<HandleList, alive, exists, held>>

\* Mutant: the ReferenceCount of a new ProcessData stays zero.
OpenProcess_New_zero(c) ==
    LET l == loc[c] IN
    /\ step(c, "chdir")
    /\ l.pid \in exists
    /\ \E o \in Obj :
          /\ malloc(o, [pid |-> l.pid, ReferenceCount |-> 0])
          /\ goto(c, [pc |-> "create", obj |-> o, type |-> "htProcesHandle"])
    /\ UNCHANGED <<HandleList, exists, held>>

\* Not opened yet: a new ProcessData, unless the process does not exist.
OpenProcess_New(c) ==
    LET l == loc[c] IN
    /\ step(c, "chdir")
    /\ \/ /\ l.pid \in exists
          /\ \E o \in Obj :
                /\ malloc(o, [pid |-> l.pid, ReferenceCount |-> 1])
                /\ goto(c, [pc |-> "create", obj |-> o, type |-> "htProcesHandle"])
       \/ /\ l.pid \notin exists
          /\ goto(c, [pc |-> l.ret, h |-> 0])
          /\ UNCHANGED <<mem, alive>>
    /\ UNCHANGED <<HandleList, exists, held>>

(***************************************************************************)
(* CreateHandleFromPointer(obj, type).                                     *)
(***************************************************************************)
Create_Enter(c) ==
    /\ step(c, "create")
    /\ goto(c, [pc |-> IF HandleList = <<>> THEN "initlist" ELSE "scan", i |-> 1])
    /\ UNCHANGED <<HandleList, mem, alive, exists, held>>

\* The first handle: allocate the table and zero it.
Create_InitList(c) ==
    /\ step(c, "initlist")
    /\ HandleList' = [i \in 1 .. InitMax - 1 |-> Entry("htEmpty", NULL)]
    /\ goto(c, [pc |-> "scan"])
    /\ UNCHANGED <<mem, alive, exists, held>>

\* Look for a free entry, one per step.
Create_Scan(c) ==
    LET l == loc[c] IN
    /\ step(c, "scan")
    /\ IF l.i >= HandleList_max THEN goto(c, [pc |-> "grow"])
       ELSE IF HandleList[l.i].type = "htEmpty" THEN goto(c, [pc |-> "store"])
       ELSE goto(c, [i |-> l.i + 1])
    /\ UNCHANGED <<HandleList, mem, alive, exists, held>>

\* A free entry was seen: it becomes the handle.
Create_Store(c) ==
    LET l == loc[c] IN
    /\ step(c, "store")
    /\ HandleList' = [HandleList EXCEPT ![l.i] = Entry(l.type, l.obj)]
    /\ goto(c, [pc |-> l.ret, h |-> l.i])
    /\ UNCHANGED <<mem, alive, exists, held>>

\* The number of appended entries that memset(&HandleList[i], 0, i) clears.
Zeroed(i) == i \div EntrySize

\* No free entry: double the table.  The first appended entry is the handle,
\* the entries memset does not reach hold what the memory held before.
Create_Grow(c) ==
    LET l == loc[c]
        i == HandleList_max IN
    /\ step(c, "grow")
    /\ \E garbage \in [i .. 2 * i - 1 -> Uninit] :
          HandleList' = [k \in 1 .. 2 * i - 1 |->
              IF k < i THEN HandleList[k]
              ELSE IF k = i THEN Entry(l.type, l.obj)
              ELSE IF k < i + Zeroed(i) THEN Entry("htEmpty", NULL)
              ELSE Entry(garbage[k], NULL)]
    /\ goto(c, [pc |-> l.ret, h |-> i])
    /\ UNCHANGED <<mem, alive, exists, held>>

(***************************************************************************)
(* CreateToolhelp32Snapshot and CMD_CREATETHREAD.                          *)
(***************************************************************************)
newObject(c, t) ==
    /\ \E o \in Obj : /\ malloc(o, [pid |-> loc[c].pid, ReferenceCount |-> 1])
                      /\ goto(c, [pc |-> "create", ret |-> "reply", obj |-> o, type |-> t])
    /\ UNCHANGED <<HandleList, exists, held>>

Snapshot_Process(c) == step(c, "snapprocess") /\ newObject(c, "htTHSProcess")

ThreadObject(c) == step(c, "threadobject") /\ newObject(c, "htNativeThreadHandle")

\* The module list is allocated first and is lost when the maps file is gone;
\* otherwise the process is opened to read its memory.
Snapshot_Module(c) ==
    LET l == loc[c] IN
    /\ step(c, "snapmodule")
    /\ goto(c, IF l.pid \in exists
               THEN [pc |-> "search", ret |-> "snapclose"]
               ELSE [pc |-> "reply", h |-> 0])
    /\ UNCHANGED <<HandleList, mem, alive, exists, held>>

\* The lines of the maps file are read, then CloseHandle(phandle)...
Snapshot_Close(c) ==
    /\ step(c, "snapclose")
    /\ goto(c, [pc |-> "close", ret |-> "snapcreate"])
    /\ UNCHANGED <<HandleList, mem, alive, exists, held>>

\* ...and the module list gets its handle.
Snapshot_Create(c) == step(c, "snapcreate") /\ newObject(c, "htTHSModule")

(***************************************************************************)
(* CloseHandle(h).                                                         *)
(***************************************************************************)

\* Fetch type and object and read the count.  The module branch is not chained
\* to the others with else: every module handle also runs the last branch.
CloseHandle_Enter(c) ==
    LET l == loc[c]
        t == GetHandleType(l.h)
        p == GetPointerFromHandle(l.h) IN
    /\ step(c, "close")
    /\ IF t \in {"htTHSModule", "htTHSProcess", "htProcesHandle"}
       THEN goto(c, IF p = NULL THEN [pc |-> "crashed"]
                    ELSE [pc |-> "decref", type |-> t, obj |-> p,
                          count |-> mem[p].ReferenceCount])
       ELSE IF t = "htNativeThreadHandle" THEN goto(c, [pc |-> "free", type |-> t, obj |-> p])
       ELSE goto(c, [pc |-> "unknown", type |-> t])
    /\ UNCHANGED <<HandleList, mem, alive, exists, held>>

AfterClose(l) == IF l.type = "htTHSModule" THEN "unknown" ELSE l.ret

\* Mutant: the object is freed whatever its ReferenceCount is.
CloseHandle_Decref_always(c) ==
    LET l == loc[c] IN
    /\ step(c, "decref")
    /\ setCount(l.obj, l.count - 1)
    /\ goto(c, [pc |-> "free"])
    /\ UNCHANGED <<HandleList, alive, exists, held>>

CloseHandle_Decref(c) ==
    LET l == loc[c] IN
    /\ step(c, "decref")
    /\ setCount(l.obj, l.count - 1)
    /\ goto(c, [pc |-> IF l.count - 1 <= 0 THEN "free" ELSE AfterClose(l)])
    /\ UNCHANGED <<HandleList, alive, exists, held>>

\* Mutant: RemoveHandle is not called after the object was freed.
CloseHandle_Free_keep(c) ==
    /\ step(c, "free")
    /\ alive' = alive \ {loc[c].obj}
    /\ goto(c, [pc |-> AfterClose(loc[c])])
    /\ UNCHANGED <<HandleList, mem, exists, held>>

\* The object is freed first, its handle is removed after.
CloseHandle_Free(c) ==
    /\ step(c, "free")
    /\ alive' = alive \ {loc[c].obj}
    /\ goto(c, [pc |-> "remove"])
    /\ UNCHANGED <<HandleList, mem, exists, held>>

CloseHandle_Remove(c) ==
    /\ step(c, "remove")
    /\ RemoveHandle(loc[c].h)
    /\ goto(c, [pc |-> AfterClose(loc[c])])
    /\ UNCHANGED <<mem, alive, exists, held>>

\* The last else branch: "no idea what it is...".
CloseHandle_Unknown(c) ==
    /\ step(c, "unknown")
    /\ RemoveHandle(loc[c].h)
    /\ goto(c, [pc |-> loc[c].ret])
    /\ UNCHANGED <<mem, alive, exists, held>>

-----------------------------------------------------------------------------
\* A process of the target machine exits, or a new one gets its pid.
ProcessExit == /\ \E pid \in exists : exists' = exists \ {pid}
               /\ UNCHANGED <<HandleList, mem, alive, loc, held>>

ProcessStart == /\ \E pid \in Pids \ exists : exists' = exists \cup {pid}
                /\ UNCHANGED <<HandleList, mem, alive, loc, held>>

Environment == ProcessExit \/ ProcessStart

OpenProcess(c) == \/ OpenProcess_Search(c) \/ OpenProcess_Found(c)
                  \/ OpenProcess_Incref(c) \/ OpenProcess_New(c)

CreateHandleFromPointer(c) == \/ Create_Enter(c) \/ Create_InitList(c)
                              \/ Create_Scan(c) \/ Create_Store(c)
                              \/ Create_Grow(c)

CreateToolhelp32Snapshot(c) == \/ Snapshot_Process(c) \/ Snapshot_Module(c)
                               \/ Snapshot_Close(c) \/ Snapshot_Create(c)

CloseHandle(c) == \/ CloseHandle_Enter(c) \/ CloseHandle_Decref(c)
                  \/ CloseHandle_Free(c) \/ CloseHandle_Remove(c)
                  \/ CloseHandle_Unknown(c)

DispatchCommand(c) == \/ CmdOpenProcess(c) \/ CmdCloseHandle(c)
                      \/ CmdCreateToolhelp32Snapshot(c) \/ CmdCreateThread(c)
                      \/ Reply(c) \/ Closed(c)

Next == \/ \E c \in Conns : \/ DispatchCommand(c) \/ OpenProcess(c)
                            \/ CreateHandleFromPointer(c)
                            \/ CreateToolhelp32Snapshot(c)
                            \/ ThreadObject(c) \/ CloseHandle(c)
        \/ Environment

Spec == Init /\ [][Next]_vars

-----------------------------------------------------------------------------
(***************************************************************************)
(* Properties.                                                             *)
(***************************************************************************)
Copies(x) == Sum([c \in Conns |-> Times(x, held[c])], Conns)

Used == {h \in DOMAIN HandleList : HandleList[h].type # "htEmpty"}

Quiet == \A c \in Conns : at(c, "idle")

\* The variables of the handle table and of the connection threads have their types.
TypeOK ==
    /\ HandleList \in Seq([type : handleType, pointer : Obj \cup {NULL}])
    /\ mem \in [Obj -> [pid : Pids \cup {0}, ReferenceCount : Nat]]
    /\ alive \subseteq Obj /\ exists \subseteq Pids
    /\ \A c \in Conns : /\ loc[c].h \in Nat /\ loc[c].i \in Nat \ {0}
                        /\ loc[c].type \in handleType
                        /\ loc[c].obj \in Obj \cup {NULL}
                        /\ held[c] \in [DOMAIN held[c] -> Nat \ {0}]

\* A handle a client was given and has not closed designates, through every
\* later open, close, snapshot and growth of the table, a live object of the
\* type and for the process it was opened for (GetPointerFromHandle never gives
\* a freed or another process's ProcessData).
HandleResolves ==
    \A c \in Conns : \A x \in DOMAIN held[c] :
        /\ GetHandleType(x.h) = x.type
        /\ GetPointerFromHandle(x.h) \in alive
        /\ mem[GetPointerFromHandle(x.h)].pid = x.pid

\* Between commands the ReferenceCount of a ProcessData is the number of times
\* clients hold its handle: the handle a module snapshot opens for itself and
\* closes again is not counted, a shared handle is counted once per OpenProcess.
RefCountExact ==
    Quiet => \A h \in Used : HandleList[h].type = "htProcesHandle" =>
        LET o == HandleList[h].pointer IN
        mem[o].ReferenceCount = Copies([h |-> h, type |-> "htProcesHandle", pid |-> mem[o].pid])

\* OpenProcess looks for an already opened process first, so two handles never
\* stand for the same process.
OneHandlePerPid ==
    \A g, h \in Used :
        /\ g # h
        /\ HandleList[g].type = "htProcesHandle" /\ HandleList[h].type = "htProcesHandle"
        => mem[HandleList[g].pointer].pid # mem[HandleList[h].pointer].pid

\* Between commands every object has exactly one handle: closing neither leaks
\* an object nor leaves a handle of a freed one behind.
TableOwnsHeap ==
    Quiet => /\ alive = {HandleList[h].pointer : h \in Used}
             /\ Cardinality(alive) = Cardinality(Used)
=============================================================================
