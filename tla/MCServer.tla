------------------------------ MODULE MCServer ------------------------------
(***************************************************************************)
(* Mechanisms of ceserver for TLC: the forwarding of commands to the       *)
(* debugger thread, memory access next to StartDebug, the query of the     *)
(* memory map, and the extension it loads into a target with its           *)
(* speedhack.  They share no state, and no thread holds the mutexes of two *)
(* of them together, so a behaviour of the server is one of each, and      *)
(* exploring one part at a time reaches every state of every part.  "part" *)
(* says which one moves.  The extension is there twice: two clients call   *)
(* it, or one calls it more.                                               *)
(***************************************************************************)
EXTENDS DebugChannel, MemoryAccess, RegionQuery, Extension, SpeedhackExt

CONSTANTS c1, c2, r1, r2, p1, a1, a2, g1

TwoClients == {c1, c2}
TwoReaders == {r1, r2}
OneProc == {p1}
TwoAddresses == {a1, a2}
OneGame == {g1}
Region(first, last, perm) == [start |-> first, stop |-> last + 1, perm |-> perm]

\* One at address 0, one of two chunks, and a shared one right after it
ThreeRegions == {Region(0, 0, {"w"}), Region(1, 3, {"w"}), Region(4, 4, {"s"})}
AllFlags == {{}, {"paged", "noshared"}, {"paged", "dirty"}}

VARIABLE part

allVars == <<part, vars, maVars, rqVars, exVars, seVars>>

EXParts == {"clients", "allocations"}

ServerInit ==
    /\ part \in {"channel", "memory", "regions", "speedhack"} \cup EXParts
    /\ Init /\ MA_Init /\ RQ_Init /\ EX_Init /\ SE_Init
    /\ part # "speedhack" => real = 0
    /\ part # "regions" => map = {}

\* The process changes during a query, or a pread fails
RQStep == RQ_Next /\ rqCount'.changes + rqCount'.fails <= 1

EXStep ==
    /\ EX_Next
    /\ part = "clients" => exCount'.calls <= 2
    /\ part = "allocations" => caller'[c2].at = "idle"

\* The bounds on calls stop these parts; the other two never stop.
BoundReached == part \notin {"channel", "memory"} /\ UNCHANGED allVars

ServerNext ==
    /\ UNCHANGED part
    /\ \/ part = "channel" /\ Next /\ UNCHANGED <<maVars, rqVars, exVars, seVars>>
       \/ part = "memory" /\ MA_Next /\ UNCHANGED <<vars, rqVars, exVars, seVars>>
       \/ part = "regions" /\ RQStep /\ UNCHANGED <<vars, maVars, exVars, seVars>>
       \/ part \in EXParts /\ EXStep /\ UNCHANGED <<vars, maVars, rqVars, seVars>>
       \/ part = "speedhack" /\ SE_Next /\ UNCHANGED <<vars, maVars, rqVars, exVars>>
       \/ BoundReached

\* Outside their own parts no step of Fairness or MA_Fairness is enabled.
ServerSpec ==
    /\ ServerInit /\ [][ServerNext]_allVars
    /\ Fairness /\ MA_Fairness
    /\ WF_rqVars(part = "regions" /\ QueryStep)
    /\ \A c \in EX_Clients : WF_exVars(part \in EXParts /\ CallStep(c))
    /\ WF_exVars(part \in EXParts /\ LibraryStep)

\* The types of all the parts' states
ServerTypesOK == TypeOK /\ MA_TypeOK /\ RQ_TypeOK /\ EX_TypeOK /\ SE_TypeOK

\* Whoever asks the server for something gets to the end of it: a forwarded command, a
\* read or write of memory, a call of the extension (ext_loadModule apart), a query of
\* the memory map.
EveryRequestEnds == AlwaysAnswered /\ CallsReturn /\ ExtensionCallsReturn /\ QueryEnds
=============================================================================
