----------------------------- MODULE GlobalDebug -----------------------------
(***************************************************************************)
(* Global debug of the kernel debugger (DBKKernel/debugger.c): with the GD *)
(* bit of DR7 set on a processor every access to its debug registers traps *)
(* to interrupt 1.  The handler answers it from a faked copy, and its      *)
(* epilogue loads the real registers with the faked ones plus the          *)
(* breakpoints of the debugger in the registers the faked DR7 leaves free. *)
(* A thread of the debugged process may break on one processor and resume  *)
(* on another.                                                             *)
(***************************************************************************)
EXTENDS Naturals, FiniteSets

CONSTANTS
  Cpus,
  NumDR,      \* debug registers of a processor (4)
  NumSlots,   \* entries of DebuggerState.breakpoint (4)
  Addresses,  \* addresses put in a debug register
  Zero,       \* a cleared debug register
  MaxGDSteps \* bound: operations performed

ASSUME GDAssumption == NumDR \in Nat \ {0} /\ NumSlots \in Nat \ {0}

VARIABLES
  globalDebug,        \* DebuggerState.globalDebug
  stoppingTheDebugger,
  breakpoint,         \* DebuggerState.breakpoint: an address, or Zero if inactive
  hooked,             \* processors whose interrupt 1 is hooked
  real,               \* the debug registers of each processor
  fake,               \* DebuggerState.FakedDebugRegisterState
  frozen,             \* originaldebugregs of the thread that broke, or NotFrozen
  guest,              \* history: what the code on each processor last put in its registers
  loaded,             \* history: breakpoints each processor was last loaded with
  gdSteps

gdVars == <<globalDebug, stoppingTheDebugger, breakpoint, hooked, real, fake,
            frozen, guest, loaded, gdSteps>>

DRs == 0 .. NumDR - 1
Slots == 0 .. NumSlots - 1
Active(bps) == {s \in Slots : bps[s] # Zero}
NoBreakpoints == [s \in Slots |-> Zero]

\* Addresses DR0..DR3 and the set of registers enabled in DR7.
Registers == [addr : [DRs -> Addresses \cup {Zero}], on : SUBSET DRs]
Cleared == [addr |-> [d \in DRs |-> Zero], on |-> {}]
NotFrozen == [cpu |-> "none"]
Unloaded == [s \in {} |-> Zero]

\* What the code on a processor last wrote to DR0..DR3 and last enabled in DR7, and which
\* of these writes trapped: wrote for the addresses, dr7 for DR7.
Written == [addr : [DRs -> Addresses \cup {Zero}], on : SUBSET DRs,
            wrote : SUBSET DRs, dr7 : BOOLEAN]
AddressWritten(w, d, a, trapped) ==
  [addr |-> [w.addr EXCEPT ![d] = a], on |-> w.on,
   wrote |-> IF trapped THEN w.wrote \cup {d} ELSE w.wrote \ {d}, dr7 |-> w.dr7]
DR7Written(w, en, trapped) ==
  [addr |-> w.addr, on |-> en, wrote |-> w.wrote, dr7 |-> trapped]
NothingWritten == [addr |-> [d \in DRs |-> Zero], on |-> {}, wrote |-> {}, dr7 |-> FALSE]

Before(x, S) == Cardinality({y \in S : y < x})

\* Mutant: a register the faked DR7 uses counts as free.
Placed_any(fk, bps) == {p \in DRs \X Active(bps) : Before(p[1], DRs) = Before(p[2], Active(bps))}

\* The registers the faked DR7 leaves free take the active breakpoints in order.
Placed(fk, bps) ==
  {p \in (DRs \ fk.on) \X Active(bps) :
     Before(p[1], DRs \ fk.on) = Before(p[2], Active(bps))}

\* The epilogue of interrupt1_centry on one processor; gd is the bit it leaves.
Epilogue(fk, bps, gd) ==
  LET at(d) == {p \in Placed(fk, bps) : p[1] = d}
  IN  [addr |-> [d \in DRs |-> IF at(d) = {} THEN fk.addr[d]
                               ELSE bps[(CHOOSE p \in at(d) : TRUE)[2]]],
       on   |-> fk.on \cup {p[1] : p \in Placed(fk, bps)},
       gd   |-> gd]

\* Any return from interrupt 1 on c while global debug is on.
Load(c, fk) ==
  /\ real' = [real EXCEPT ![c] = Epilogue(fk, breakpoint, ~stoppingTheDebugger)]
  /\ loaded' = [loaded EXCEPT ![c] = breakpoint]

Step == gdSteps < MaxGDSteps /\ gdSteps' = gdSteps + 1

Trapped(c) == globalDebug /\ c \in hooked /\ real[c].gd

(***************************************************************************)
(* Accesses to the debug registers by the code running on a processor.     *)
(***************************************************************************)
WriteAddress(c, d, a) ==
  /\ Step /\ Trapped(c)
  /\ fake' = [fake EXCEPT ![c].addr[d] = a]
  /\ Load(c, fake'[c])
  /\ guest' = [guest EXCEPT ![c] = AddressWritten(@, d, a, TRUE)]
  /\ UNCHANGED <<globalDebug, stoppingTheDebugger, breakpoint, hooked, frozen>>

\* The registers of en are enabled in DR7.  Whatever is written, the handler stores
\* 0xf0401: only L0 is enabled.
WriteDR7(c, en) ==
  /\ Step /\ Trapped(c)
  /\ fake' = [fake EXCEPT ![c].on = {0}]
  /\ Load(c, fake'[c])
  /\ guest' = [guest EXCEPT ![c] = DR7Written(@, en, TRUE)]
  /\ UNCHANGED <<globalDebug, stoppingTheDebugger, breakpoint, hooked, frozen>>

\* IOCTL_CE_TOUCHDEBUGREGISTER: DR0 is read and written back, both trap.
TouchDebugRegister(c) ==
  /\ Step /\ Trapped(c)
  /\ Load(c, fake[c])
  /\ UNCHANGED <<globalDebug, stoppingTheDebugger, breakpoint, hooked, fake,
                 frozen, guest>>

\* Without the trap an access reaches the processor.
WriteUntrapped(c, d, a) ==
  /\ Step /\ ~Trapped(c)
  /\ real' = [real EXCEPT ![c].addr[d] = a]
  /\ guest' = [guest EXCEPT ![c] = AddressWritten(@, d, a, FALSE)]
  /\ UNCHANGED <<globalDebug, stoppingTheDebugger, breakpoint, hooked, fake,
                 frozen, loaded>>

WriteDR7Untrapped(c, en) ==
  /\ Step /\ ~Trapped(c)
  /\ real' = [real EXCEPT ![c].on = en]
  /\ guest' = [guest EXCEPT ![c] = DR7Written(@, en, FALSE)]
  /\ UNCHANGED <<globalDebug, stoppingTheDebugger, breakpoint, hooked, fake,
                 frozen, loaded>>

(***************************************************************************)
(* A breakpoint hit in the debugged process: the faked registers are kept, *)
(* the thread waits, and they become those of the processor it wakes on.   *)
(* Meanwhile other threads use both processors.                            *)
(***************************************************************************)
BreakInProcess(c) ==
  /\ Step /\ globalDebug /\ c \in hooked
  /\ frozen = NotFrozen
  /\ frozen' = [cpu |-> c, regs |-> fake[c], guest |-> guest[c]]
  /\ real' = [real EXCEPT ![c].gd = @ \/ ~stoppingTheDebugger]
  /\ UNCHANGED <<globalDebug, stoppingTheDebugger, breakpoint, hooked, fake,
                 guest, loaded>>

ResumeInProcess(c) ==
  /\ Step /\ globalDebug /\ c \in hooked
  /\ frozen # NotFrozen
  /\ fake' = [fake EXCEPT ![c] = frozen.regs]
  /\ Load(c, fake'[c])
  /\ guest' = [guest EXCEPT ![c] = frozen.guest]
  /\ frozen' = NotFrozen
  /\ UNCHANGED <<globalDebug, stoppingTheDebugger, breakpoint, hooked>>

\* A breakpoint hit in another process is swallowed or passed to Windows; the
\* thread goes on, and the epilogue loads the processor either way.
BreakInOtherProcess(c) ==
  /\ Step /\ globalDebug /\ c \in hooked
  /\ Load(c, fake[c])
  /\ UNCHANGED <<globalDebug, stoppingTheDebugger, breakpoint, hooked, fake,
                 frozen, guest>>

(***************************************************************************)
(* Device controls.                                                        *)
(***************************************************************************)
SetGDBreakpoint(s, a) ==
  /\ Step
  /\ breakpoint[s] # a
  /\ breakpoint' = [breakpoint EXCEPT ![s] = a]
  /\ UNCHANGED <<globalDebug, stoppingTheDebugger, hooked, real, fake, frozen,
                 guest, loaded>>

\* debugger_setGlobalDebugState(TRUE) before the hook, as the client calls it.  After a
\* stop InterruptHook[1].hooked is still set, and the call would set GD on processors
\* whose interrupt 1 goes to Windows; what Windows then does is not modelled.
SetGlobalDebugState ==
  /\ Step
  /\ ~globalDebug /\ hooked = {} /\ ~stoppingTheDebugger
  /\ globalDebug' = TRUE
  /\ UNCHANGED <<stoppingTheDebugger, breakpoint, hooked, real, fake, frozen,
                 guest, loaded>>

\* debugger_initHookForCurrentCPU, with DBVM or on 32-bit Windows, where it succeeds.
\* The call that would take what the registers hold into the faked copy is commented out.
HookInterrupt1(c) ==
  /\ Step
  /\ c \notin hooked
  /\ hooked' = hooked \cup {c}
  /\ real' = [real EXCEPT ![c].gd = @ \/ globalDebug]
  /\ loaded' = [loaded EXCEPT ![c] = Unloaded]
  /\ UNCHANGED <<globalDebug, stoppingTheDebugger, breakpoint, fake, frozen, guest>>

\* debugger_stopDebugging: every processor is touched with the flag set, so its
\* GD bit stays off; then the breakpoints are dropped and interrupt 1 unhooked.
StopDebuggingGlobally ==
  /\ Step
  /\ hooked # {} /\ frozen = NotFrozen
  /\ stoppingTheDebugger' = TRUE
  /\ real' = [c \in Cpus |-> IF Trapped(c) THEN Epilogue(fake[c], breakpoint, FALSE)
                             ELSE real[c]]
  /\ globalDebug' = FALSE
  /\ breakpoint' = NoBreakpoints
  /\ hooked' = {}
  /\ UNCHANGED <<fake, frozen, guest, loaded>>

GD_Init ==
  /\ globalDebug = FALSE /\ stoppingTheDebugger = FALSE
  /\ breakpoint = NoBreakpoints
  /\ hooked = {}
  /\ real = [c \in Cpus |-> [addr |-> Cleared.addr, on |-> {}, gd |-> FALSE]]
  /\ fake = [c \in Cpus |-> Cleared]
  /\ frozen = NotFrozen
  /\ guest = [c \in Cpus |-> NothingWritten]
  /\ loaded = [c \in Cpus |-> Unloaded]
  /\ gdSteps = 0

GD_Next ==
  \/ \E c \in Cpus :
       \/ \E d \in DRs, a \in Addresses : WriteAddress(c, d, a) \/ WriteUntrapped(c, d, a)
       \/ \E en \in SUBSET DRs : WriteDR7(c, en) \/ WriteDR7Untrapped(c, en)
       \/ TouchDebugRegister(c)
       \/ BreakInProcess(c) \/ BreakInOtherProcess(c) \/ ResumeInProcess(c)
       \/ HookInterrupt1(c)
  \/ \E s \in Slots, a \in Addresses \cup {Zero} : SetGDBreakpoint(s, a)
  \/ SetGlobalDebugState
  \/ StopDebuggingGlobally

GD_Spec == GD_Init /\ [][GD_Next]_gdVars

(***************************************************************************)
(* Properties                                                              *)
(***************************************************************************)
\* The real, faked and kept registers have their types.
GD_TypeOK ==
  /\ globalDebug \in BOOLEAN /\ stoppingTheDebugger \in BOOLEAN
  /\ breakpoint \in [Slots -> Addresses \cup {Zero}]
  /\ hooked \subseteq Cpus
  /\ \A c \in Cpus : [addr |-> real[c].addr, on |-> real[c].on] \in Registers
  /\ fake \in [Cpus -> Registers]
  /\ guest \in [Cpus -> Written]
  /\ frozen # NotFrozen => frozen.regs \in Registers /\ frozen.guest \in Written

\* The value a thread reads from DR0..DR3 is the one it wrote, for every register it
\* wrote since the processor traps, whatever breakpoints are set and wherever it broke
\* and resumed.  What it wrote before is not there (TakenOver is not true).
GuestSeesItsWrites ==
  \A c \in Cpus : \A d \in guest[c].wrote : fake[c].addr[d] = guest[c].addr[d]

\* Once a processor was loaded, the breakpoint a process put and enabled in DR0 since the
\* processor traps is on at the process' address, and the debugger's use other registers.
\* For DR1..DR3 the handler drops what the process enables (EnabledIsKept is not true).
GuestBreakpointKept ==
  \A c \in hooked : Trapped(c) /\ loaded[c] # Unloaded =>
    /\ \A d \in fake[c].on : d \in real[c].on /\ real[c].addr[d] = fake[c].addr[d]
    /\ guest[c].dr7 /\ 0 \in guest[c].on \cap guest[c].wrote =>
         0 \in real[c].on /\ real[c].addr[0] = guest[c].addr[0]

\* A processor loaded since the breakpoint list changed watches every active
\* breakpoint it has a free register for, and no removed one.
BreakpointsArmed ==
  \A c \in hooked : Trapped(c) /\ loaded[c] = breakpoint =>
    LET own == real[c].on \ fake[c].on
        fits == Cardinality(Active(breakpoint)) <= Cardinality(DRs \ fake[c].on)
    IN  /\ {real[c].addr[d] : d \in own} \subseteq {breakpoint[s] : s \in Active(breakpoint)}
        /\ fits => {breakpoint[s] : s \in Active(breakpoint)} = {real[c].addr[d] : d \in own}

\* While global debug is on every hooked processor traps, unless the driver is
\* going away ("set when the driver is unloading").
AlwaysTrapped ==
  \A c \in hooked : globalDebug /\ ~stoppingTheDebugger => real[c].gd

\* The process and the debugger share the debug registers of each processor: the
\* process reads back the addresses it wrote and keeps its breakpoint in DR0, the
\* debugger's are armed in the registers the faked DR7 leaves free, and no access goes
\* unseen.
RegistersAreShared ==
  /\ GuestSeesItsWrites /\ GuestBreakpointKept
  /\ BreakpointsArmed /\ AlwaysTrapped

\* Not true: a process that enables DR1..DR3, or none, has only DR0 on, because 0xf0401
\* replaces the value written.
EnabledIsKept ==
  \A c \in hooked : Trapped(c) /\ loaded[c] # Unloaded /\ guest[c].dr7 =>
    fake[c].on = guest[c].on

\* Not true: what the registers held when the processor was hooked is neither read back
\* nor kept on, because debugger_setInitialFakeState is not called.
TakenOver ==
  \A c \in hooked : globalDebug =>
    /\ fake[c].addr = guest[c].addr
    /\ ~guest[c].dr7 => fake[c].on = guest[c].on
=============================================================================
