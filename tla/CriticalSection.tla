-------------------------- MODULE CriticalSection --------------------------
(***************************************************************************)
(* csEnter and csLeave of DBVM (dbvm/vmm/common.c), with the spinlock they *)
(* are built on (dbvm/vmm/commona.asm), one memory access per step.  A cpu *)
(* may enter again what it has entered; csLeave of a cpu that has not      *)
(* entered does nothing.  Cpus are known by the number getAPICID()+1.      *)
(***************************************************************************)
EXTENDS Integers

CONSTANTS
    CS_Cpus,      \* the numbers of the cpus
    CS_NoCpu      \* apicid of nobody: the 0 before the first csEnter, and -1

ASSUME CSAssumption == CS_NoCpu \notin CS_Cpus

VARIABLES
    locked,       \* CS->locked
    lockcount,    \* CS->lockcount
    apicid,       \* CS->apicid
    csAt,         \* where each cpu is in csEnter or csLeave
    nest          \* how often each cpu is between the two

csVars == <<locked, lockcount, apicid, csAt, nest>>

CS_Goes(c, from, to) == csAt[c] = from /\ csAt' = [csAt EXCEPT ![c] = to]

-----------------------------------------------------------------------------
\* csEnter: if (CS->locked)
EnterTestLocked(c) ==
    /\ CS_Goes(c, "out", IF locked = 1 THEN "enter_apicid" ELSE "spin")
    /\ UNCHANGED <<locked, lockcount, apicid, nest>>

\* && (CS->apicid==apicid)
EnterTestApicid(c) ==
    /\ CS_Goes(c, "enter_apicid", IF apicid = c THEN "again" ELSE "spin")
    /\ UNCHANGED <<locked, lockcount, apicid, nest>>

\* CS->lockcount++; return
EnterAgain(c) ==
    /\ CS_Goes(c, "again", "out")
    /\ lockcount' = lockcount + 1
    /\ nest' = [nest EXCEPT ![c] = @ + 1]
    /\ UNCHANGED <<locked, apicid>>

\* spinlock: cmp dword [rdi],0
SpinTest(c) ==
    /\ CS_Goes(c, "spin", IF locked = 0 THEN "xchg" ELSE "spin")
    /\ UNCHANGED <<locked, lockcount, apicid, nest>>

\* xchg eax,dword [rdi]
SpinExchange(c) ==
    /\ CS_Goes(c, "xchg", IF locked = 0 THEN "setcount" ELSE "spin")
    /\ locked' = 1
    /\ UNCHANGED <<lockcount, apicid, nest>>

\* CS->lockcount=1
EnterSetCount(c) ==
    /\ CS_Goes(c, "setcount", "setapicid")
    /\ lockcount' = 1
    /\ UNCHANGED <<locked, apicid, nest>>

\* CS->apicid=apicid
EnterSetApicid(c) ==
    /\ CS_Goes(c, "setapicid", "out")
    /\ apicid' = c
    /\ nest' = [nest EXCEPT ![c] = @ + 1]
    /\ UNCHANGED <<locked, lockcount>>

\* csLeave: if (CS->locked)
LeaveTestLocked(c) ==
    /\ CS_Goes(c, "out", IF locked = 1 THEN "leave_apicid" ELSE "out")
    /\ UNCHANGED <<locked, lockcount, apicid, nest>>

\* && (CS->apicid==apicid)
LeaveTestApicid(c) ==
    /\ CS_Goes(c, "leave_apicid", IF apicid = c THEN "decrement" ELSE "out")
    /\ UNCHANGED <<locked, lockcount, apicid, nest>>

\* CS->lockcount--; if (CS->lockcount==0)
LeaveDecrement(c) ==
    /\ CS_Goes(c, "decrement", IF lockcount = 1 THEN "clearapicid" ELSE "out")
    /\ lockcount' = lockcount - 1
    /\ nest' = [nest EXCEPT ![c] = @ - 1]
    /\ UNCHANGED <<locked, apicid>>

\* Mutant: the apicid of the cpu that leaves stays.
LeaveClearApicid_stale(c) ==
    /\ CS_Goes(c, "clearapicid", "unlock")
    /\ UNCHANGED <<locked, lockcount, apicid, nest>>

\* CS->apicid=-1
LeaveClearApicid(c) ==
    /\ CS_Goes(c, "clearapicid", "unlock")
    /\ apicid' = CS_NoCpu
    /\ UNCHANGED <<locked, lockcount, nest>>

\* CS->locked=0
LeaveUnlock(c) ==
    /\ CS_Goes(c, "unlock", "out")
    /\ locked' = 0
    /\ UNCHANGED <<lockcount, apicid, nest>>

-----------------------------------------------------------------------------
CS_Init ==
    /\ locked = 0 /\ lockcount = 0 /\ apicid = CS_NoCpu
    /\ csAt = [c \in CS_Cpus |-> "out"]
    /\ nest = [c \in CS_Cpus |-> 0]

csEnter(c) ==
    \/ EnterTestLocked(c) \/ EnterTestApicid(c) \/ EnterAgain(c) \/ SpinTest(c)
    \/ SpinExchange(c) \/ EnterSetCount(c) \/ EnterSetApicid(c)

csLeave(c) ==
    \/ LeaveTestLocked(c) \/ LeaveTestApicid(c) \/ LeaveDecrement(c) \/ LeaveClearApicid(c)
    \/ LeaveUnlock(c)

CS_Next == \E c \in CS_Cpus : csEnter(c) \/ csLeave(c)

CS_Spec == CS_Init /\ [][CS_Next]_csVars

-----------------------------------------------------------------------------
CS_Steps == {"out", "enter_apicid", "again", "spin", "xchg", "setcount", "setapicid",
             "leave_apicid", "decrement", "clearapicid", "unlock"}

\* The state is of the declared types
CS_TypeOK ==
    /\ locked \in {0, 1} /\ lockcount \in Nat /\ apicid \in CS_Cpus \cup {CS_NoCpu}
    /\ csAt \in [CS_Cpus -> CS_Steps] /\ nest \in [CS_Cpus -> Nat]

\* Cpu c has the section: from the exchange that found 0 until it stores the 0
Entered(c) == nest[c] > 0 \/ csAt[c] \in {"setcount", "setapicid", "clearapicid", "unlock"}

\* One cpu at a time is in a critical section, however the cpus nest, and whoever calls
\* csLeave without having entered.
OneCpuInside == \A c, d \in CS_Cpus : Entered(c) /\ Entered(d) => c = d

\* The cpu that is inside leaves with as many csLeave as it made csEnter: lockcount is
\* the depth of its nesting, and the section is locked until that is 0.
CountsNesting ==
    \A c \in CS_Cpus : nest[c] > 0 => locked = 1 /\ apicid = c /\ lockcount = nest[c]

\* What csEnter and csLeave promise: one cpu inside, for as many csLeave as it made
\* csEnter.
SectionIsSound == OneCpuInside /\ CountsNesting
=============================================================================
