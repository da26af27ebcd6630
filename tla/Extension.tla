----------------------------- MODULE Extension -----------------------------
(***************************************************************************)
(* The ceserver extension: a library loaded into the target that allocates *)
(* memory, starts threads, loads modules and sets the speed on request     *)
(* (ceserver/extension/server.c), and the functions of ceserver that ask   *)
(* for it (extensionfunctions.c, loadCEServerExtension).                   *)
(*                                                                         *)
(* Any connection of ceserver may call.  The first call loads the library  *)
(* and connects to it; extensionMutex lets one command and its answer over *)
(* the socket at a time.  An answer is a number of words of four bytes:    *)
(* what the library sends and what the caller waits for are two things.    *)
(*                                                                         *)
(* The process is not debugged: for one that is, the debugger thread does  *)
(* the loading, for all connections.                                       *)
(***************************************************************************)
EXTENDS Integers, Sequences, FiniteSets

CONSTANTS
    EX_Clients,    \* connections of ceserver
    EX_Addresses,  \* where mmap may put a block
    EX_Failed,     \* MAP_FAILED
    EX_Nobody,     \* nobody holds extensionMutex
    EX_InitMax,    \* entries of the first allocList (16)
    EX_MaxCalls    \* bound: calls made

ASSUME EXAssumption ==
    /\ IsFiniteSet(EX_Clients) /\ IsFiniteSet(EX_Addresses)
    /\ EX_Failed \notin EX_Addresses /\ EX_Nobody \notin EX_Clients
    /\ EX_InitMax \in Nat \ {0} /\ EX_MaxCalls \in Nat

VARIABLES
    process,       \* the process: alive, and the library listening
    pdata,         \* ProcessData: hasLoadedExtension, extensionFD, extensionMutex
    caller,        \* where each connection is in its call
    toExt,         \* commands on their way to the library
    fromExt,       \* words on their way back, each with the call it answers
    allocList,     \* the library's list of blocks, and its capacity
    mapped,        \* blocks that are mapped, with their sizes
    held,          \* blocks that were given out and not given back, with sizes
    exCount        \* calls made, and connections opened

exVars == <<process, pdata, caller, toExt, fromExt, allocList, mapped, held, exCount>>
library == <<toExt, fromExt, allocList, mapped>>

Commands == {"ALLOC", "FREE", "CREATETHREAD", "LOADMODULE", "SPEEDHACK_SETSPEED"}

\* sizeof the answer in DispatchCommand of the library, in words
AnswerSize(cmd) == IF cmd \in {"ALLOC", "CREATETHREAD"} THEN 2 ELSE 1

\* Mutant: every result is taken for an int.
ResultSize_int(cmd) == 1

\* sizeof(result) in ext_alloc, ext_free, ..., in words
ResultSize(cmd) == IF cmd \in {"ALLOC", "CREATETHREAD", "LOADMODULE"} THEN 2 ELSE 1

Idle == [at |-> "idle", call |-> 0, cmd |-> "none", block |-> EX_Failed, size |-> 0,
         got |-> 0]

-----------------------------------------------------------------------------
\* A call begins: hasLoadedExtension is read without the mutex
Begin(c, cmd, block, size) ==
    /\ caller[c].at = "idle" /\ exCount.calls < EX_MaxCalls
    /\ exCount' = [exCount EXCEPT !.calls = @ + 1]
    /\ caller' = [caller EXCEPT ![c] =
                    [at |-> IF pdata.loaded THEN "lock" ELSE "load",
                     call |-> exCount.calls + 1, cmd |-> cmd, block |-> block,
                     size |-> size, got |-> 0]]
    /\ UNCHANGED <<process, pdata, library>>

ext_alloc(c, size) == Begin(c, "ALLOC", EX_Failed, size) /\ UNCHANGED held
ext_createThread(c) == Begin(c, "CREATETHREAD", EX_Failed, 0) /\ UNCHANGED held
ext_loadModule(c) == Begin(c, "LOADMODULE", EX_Failed, 0) /\ UNCHANGED held
ext_speedhack_setSpeed(c) == Begin(c, "SPEEDHACK_SETSPEED", EX_Failed, 0) /\ UNCHANGED held

\* A block is given back with its size, or with 0 for the size it was given
ext_free(c) ==
    \E b \in held, size \in {0, 1} :
        /\ Begin(c, "FREE", b.address, size * b.size)
        /\ held' = held \ {b}

CallerGoes(c, from, to) ==
    /\ caller[c].at = from
    /\ caller' = [caller EXCEPT ![c].at = to]

Unlocked == pdata.mutex = EX_Nobody

\* loadCEServerExtension: "still 0" is tested with the mutex held
LoadLock(c) ==
    /\ Unlocked
    /\ IF pdata.loaded
       THEN CallerGoes(c, "load", "loaded") /\ UNCHANGED pdata
       ELSE CallerGoes(c, "load", "inject") /\ pdata' = [pdata EXCEPT !.mutex = c]
    /\ UNCHANGED <<process, library, held, exCount>>

\* loadExtension: the library is there already, or it is injected; what the
\* function returns after that is whatever was in the register
loadExtension(c) ==
    /\ CallerGoes(c, "inject", "open")
    /\ \E works \in BOOLEAN, result \in BOOLEAN :
          /\ process' = [process EXCEPT !.listening = @ \/ (works /\ process.alive)]
          /\ process.listening => result
          /\ pdata' = [pdata EXCEPT !.loaded = result]
    /\ UNCHANGED <<library, held, exCount>>

\* openExtension, if that was not 0, and the mutex is released
openExtension(c) ==
    LET connected == pdata.loaded /\ process.listening IN
    /\ CallerGoes(c, "open", "loaded")
    /\ pdata' = [loaded |-> connected, fd |-> pdata.fd \/ connected, mutex |-> EX_Nobody]
    /\ exCount' = [exCount EXCEPT !.opened = IF connected THEN @ + 1 ELSE @]
    /\ UNCHANGED <<process, library, held>>

\* The value loadCEServerExtension returns is read after that
LoadReturns(c) ==
    /\ caller[c].at = "loaded"
    /\ caller' = [caller EXCEPT ![c] = IF pdata.loaded THEN [@ EXCEPT !.at = "lock"]
                                                       ELSE Idle]
    /\ UNCHANGED <<process, pdata, library, held, exCount>>

LockForCommand(c) ==
    /\ Unlocked /\ CallerGoes(c, "lock", "send")
    /\ pdata' = [pdata EXCEPT !.mutex = c]
    /\ UNCHANGED <<process, library, held, exCount>>

Return(c) ==
    /\ caller' = [caller EXCEPT ![c] = Idle]
    /\ pdata' = [pdata EXCEPT !.mutex = EX_Nobody]

\* sendall: without a connection (extensionFD is still 0) there is no answer
SendCommand(c) ==
    /\ caller[c].at = "send" /\ (pdata.fd => process.alive)
    /\ IF pdata.fd
       THEN /\ toExt' = Append(toExt, caller[c])
            /\ CallerGoes(c, "send", "recv")
            /\ UNCHANGED pdata
       ELSE Return(c) /\ UNCHANGED toExt
    /\ UNCHANGED <<process, fromExt, allocList, mapped, held, exCount>>

\* On a connection whose process has gone send raises SIGPIPE, which nobody
\* handles: ceserver ends
ServerDies(c) ==
    /\ caller[c].at = "send" /\ pdata.fd /\ ~process.alive
    /\ caller' = [d \in EX_Clients |-> [Idle EXCEPT !.at = "dead"]]
    /\ UNCHANGED <<process, pdata, library, held, exCount>>

\* recvall: another word of the result, until it is complete
RecvWord(c) ==
    LET w == Head(fromExt) IN
    /\ caller[c].at = "recv" /\ fromExt # <<>>
    /\ fromExt' = Tail(fromExt)
    /\ IF caller[c].got + 1 = ResultSize(caller[c].cmd)
       THEN /\ Return(c)
            /\ held' = IF caller[c].cmd = "ALLOC" /\ w.block # EX_Failed
                       THEN held \cup {[address |-> w.block, size |-> caller[c].size]}
                       ELSE held
       ELSE /\ caller' = [caller EXCEPT ![c].got = @ + 1]
            /\ UNCHANGED <<pdata, held>>
    /\ UNCHANGED <<process, toExt, allocList, mapped, exCount>>

\* recv returns 0: the process is gone
RecvClosed(c) ==
    /\ caller[c].at = "recv" /\ fromExt = <<>> /\ ~process.alive
    /\ Return(c)
    /\ UNCHANGED <<process, library, held, exCount>>

-----------------------------------------------------------------------------

\* allocListAdd, with its growth
allocListAdd(address, size) ==
    LET max == IF allocList.max = 0 THEN EX_InitMax ELSE allocList.max
        list == Append(allocList.list, [address |-> address, size |-> size])
    IN  [list |-> list, max |-> IF Len(list) = max THEN 2 * max ELSE max]

\* The first entry for an address, 0 if there is none
EntryOf(address) ==
    LET found == {i \in 1 .. Len(allocList.list) : allocList.list[i].address = address}
    IN  IF found = {} THEN 0 ELSE CHOOSE i \in found : \A j \in found : i <= j

\* Mutant: the last entry is dropped, whichever was freed.
allocListRemove_last(address) ==
    LET l == allocList.list
    IN  IF EntryOf(address) = 0 THEN allocList
        ELSE [allocList EXCEPT !.list = SubSeq(l, 1, Len(l) - 1)]

allocListRemove(address) ==
    LET i == EntryOf(address)
        l == allocList.list
    IN  IF i = 0 THEN allocList
        ELSE [allocList EXCEPT !.list = SubSeq(l, 1, i - 1) \o SubSeq(l, i + 1, Len(l))]

allocListFind(address) ==
    IF EntryOf(address) = 0 THEN 0 ELSE allocList.list[EntryOf(address)].size

\* The answer to command m, its last word with the block
Answer(m, block) ==
    [i \in 1 .. AnswerSize(m.cmd) |-> [call |-> m.call, block |-> block]]

\* DispatchCommand takes the next command, and sends its answer
Dispatch(cmd) ==
    /\ toExt # <<>> /\ process.alive /\ Head(toExt).cmd = cmd
    /\ toExt' = Tail(toExt)
    /\ UNCHANGED <<process, pdata, caller, held, exCount>>

\* mmap gives a block or MAP_FAILED, which is listed like a block
DispatchAlloc ==
    LET m == Head(toExt) IN
    /\ Dispatch("ALLOC")
    /\ \E a \in (EX_Addresses \ {b.address : b \in mapped}) \cup {EX_Failed} :
          /\ mapped' = IF a = EX_Failed THEN mapped
                       ELSE mapped \cup {[address |-> a, size |-> m.size]}
          /\ allocList' = allocListAdd(a, m.size)
          /\ fromExt' = fromExt \o Answer(m, a)

DispatchFree ==
    LET m == Head(toExt)
        size == IF m.size = 0 THEN allocListFind(m.block) ELSE m.size
    IN  /\ Dispatch("FREE")
        /\ mapped' = mapped \ {[address |-> m.block, size |-> size]}
        /\ allocList' = allocListRemove(m.block)
        /\ fromExt' = fromExt \o Answer(m, m.block)

\* pthread_create, dlopen and speedhack_initializeSpeed leave this state alone
DispatchOther ==
    /\ \E cmd \in {"CREATETHREAD", "LOADMODULE", "SPEEDHACK_SETSPEED"} : Dispatch(cmd)
    /\ fromExt' = fromExt \o Answer(Head(toExt), EX_Failed)
    /\ UNCHANGED <<allocList, mapped>>

LibraryStep == DispatchAlloc \/ DispatchFree \/ DispatchOther

\* The process ends, and its memory and the library with it
ProcessEnds ==
    /\ process.alive
    /\ process' = [alive |-> FALSE, listening |-> FALSE]
    /\ toExt' = <<>>
    /\ allocList' = [list |-> <<>>, max |-> 0]
    /\ mapped' = {}
    /\ held' = {}
    /\ UNCHANGED <<pdata, caller, fromExt, exCount>>

-----------------------------------------------------------------------------
EX_Init ==
    /\ process = [alive |-> TRUE, listening |-> FALSE]
    /\ pdata = [loaded |-> FALSE, fd |-> FALSE, mutex |-> EX_Nobody]
    /\ caller = [c \in EX_Clients |-> Idle]
    /\ toExt = <<>> /\ fromExt = <<>>
    /\ allocList = [list |-> <<>>, max |-> 0]
    /\ mapped = {} /\ held = {}
    /\ exCount = [calls |-> 0, opened |-> 0]

NewCall(c) ==
    \/ \E size \in {1, 2} : ext_alloc(c, size)
    \/ ext_free(c) \/ ext_createThread(c) \/ ext_loadModule(c)
    \/ ext_speedhack_setSpeed(c)

CallStep(c) ==
    \/ LoadLock(c) \/ loadExtension(c) \/ openExtension(c) \/ LoadReturns(c)
    \/ LockForCommand(c) \/ SendCommand(c) \/ ServerDies(c)
    \/ RecvWord(c) \/ RecvClosed(c)

EX_Next ==
    \/ \E c \in EX_Clients : NewCall(c) \/ CallStep(c)
    \/ LibraryStep \/ ProcessEnds

EX_Spec == EX_Init /\ [][EX_Next]_exVars

-----------------------------------------------------------------------------
Blocks == [address : EX_Addresses, size : {1, 2}]

\* The state is of the declared types
EX_TypeOK ==
    /\ process \in [alive : BOOLEAN, listening : BOOLEAN]
    /\ pdata \in [loaded : BOOLEAN, fd : BOOLEAN, mutex : EX_Clients \cup {EX_Nobody}]
    /\ mapped \subseteq Blocks /\ held \subseteq Blocks
    /\ \A c \in EX_Clients :
          /\ caller[c].at \in {"idle", "load", "inject", "open", "loaded", "lock",
                               "send", "recv", "dead"}
          /\ caller[c].cmd \in Commands \cup {"none"}

\* Whatever comes back over the socket answers the command of the connection that
\* holds extensionMutex: no call is given a word of another's answer, which would
\* shift every answer after it.
AnswersOwnCommand ==
    \A i \in 1 .. Len(fromExt) :
        \E c \in EX_Clients :
            /\ pdata.mutex = c
            /\ caller[c].at = "recv" /\ caller[c].call = fromExt[i].call

\* However many connections find the extension not loaded, one connects to it: the
\* second would lose the socket of the first, and its thread in the target.
ConnectsOnce == exCount.opened <= 1

\* While the process lives, a block that was given out and not given back is mapped, and
\* the library's list still knows its size, which ext_free with size 0 relies on.
HeldIsKnown ==
    process.alive => \A b \in held : b \in mapped /\ allocListFind(b.address) = b.size

\* allocListAdd writes before it looks at the capacity: there is always room for
\* one more entry.
ListHasRoom == allocList.max > 0 => Len(allocList.list) < allocList.max

\* ext_loadModule reads eight bytes, and the library sends four
ModuleLoadWaits ==
    \E c \in EX_Clients : caller[c].at = "recv" /\ caller[c].cmd = "LOADMODULE"

\* Every call returns, also when the process ends while it waits, except while one to
\* ext_loadModule waits for more than the library sends.
ExtensionCallsReturn ==
    \A c \in EX_Clients : []<>(caller[c].at \in {"idle", "dead"} \/ ModuleLoadWaits)

\* Connections that share the socket of the extension stay apart: it is opened once, and
\* what comes back answers the call that waits for it.
AnswersMatchCalls == AnswersOwnCommand /\ ConnectsOnce

\* allocList keeps up with what clients hold, through growth, reuse of an address and
\* frees in any order.
AllocationsKnown == HeldIsKnown /\ ListHasRoom
=============================================================================
