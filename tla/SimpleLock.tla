----------------------------- MODULE SimpleLock -----------------------------
(***************************************************************************)
(* TSimpleLock, the recursive spin lock of the Windows speedhack           *)
(* (speedhack/speedhackmain.pas), one memory access per step.  A lock is a *)
(* count and an owner; a thread that is the owner counts itself in again,  *)
(* any other exchanges the count for 1 until it was 0.                     *)
(*                                                                         *)
(* That exchange also happens while the owner has counted itself in twice, *)
(* and then takes one of its two away.  "disturbed" records that it did:   *)
(* what the lock promises, it keeps until then.                            *)
(***************************************************************************)
EXTENDS Integers

CONSTANTS
    SL_Threads,    \* threads that use the locks
    SL_Locks,      \* GTCLock and QPCLock
    SL_None        \* owner=0

ASSUME SLAssumption == SL_None \notin SL_Threads /\ SL_Locks # {}

VARIABLES
    count,         \* count of each lock
    owner,         \* owner of each lock
    doing,         \* what each thread does in lock or unlock, and to which
    depth,         \* how often each thread holds each lock
    disturbed      \* a nested lock has had its count exchanged

slVars == <<count, owner, doing, depth, disturbed>>

Outside == "outside"

\* Between two calls, thread t may make the next one
Ready(t) == doing[t].at = Outside

Do(t, at, l) == doing' = [doing EXCEPT ![t] = [at |-> at, on |-> l]]
Goes(t, from, to) == doing[t].at = from /\ Do(t, to, doing[t].on)

-----------------------------------------------------------------------------
\* lock: if l.owner<>tid
TestOwner(t, l) ==
    /\ Ready(t)
    /\ Do(t, IF owner[l] = t THEN "nested" ELSE "spin", l)
    /\ UNCHANGED <<count, owner, depth, disturbed>>

\* while InterLockedExchange(l.count, 1)<>0 do sleep(0)
Exchange(t) ==
    LET l == doing[t].on IN
    /\ Goes(t, "spin", IF count[l] = 0 THEN "own" ELSE "spin")
    /\ count' = [count EXCEPT ![l] = 1]
    /\ disturbed' = (disturbed \/ count[l] \notin {0, 1})
    /\ UNCHANGED <<owner, depth>>

\* l.owner:=tid
SetOwner(t) ==
    LET l == doing[t].on IN
    /\ Goes(t, "own", Outside)
    /\ owner' = [owner EXCEPT ![l] = t]
    /\ depth' = [depth EXCEPT ![l][t] = @ + 1]
    /\ UNCHANGED <<count, disturbed>>

\* InterLockedIncrement(l.count)
Increment(t) ==
    LET l == doing[t].on IN
    /\ Goes(t, "nested", Outside)
    /\ count' = [count EXCEPT ![l] = @ + 1]
    /\ depth' = [depth EXCEPT ![l][t] = @ + 1]
    /\ UNCHANGED <<owner, disturbed>>

\* unlock: if l.count=1
TestCount(t, l) ==
    /\ Ready(t) /\ depth[l][t] > 0
    /\ Do(t, IF count[l] = 1 THEN "disown" ELSE "release", l)
    /\ UNCHANGED <<count, owner, depth, disturbed>>

\* Mutant: the thread stays the owner.
ClearOwner_not(t) ==
    /\ Goes(t, "disown", "release")
    /\ UNCHANGED <<count, owner, depth, disturbed>>

\* then l.owner:=0
ClearOwner(t) ==
    LET l == doing[t].on IN
    /\ Goes(t, "disown", "release")
    /\ owner' = [owner EXCEPT ![l] = SL_None]
    /\ UNCHANGED <<count, depth, disturbed>>

\* InterLockedDecrement(l.count)
Decrement(t) ==
    LET l == doing[t].on IN
    /\ Goes(t, "release", Outside)
    /\ count' = [count EXCEPT ![l] = @ - 1]
    /\ depth' = [depth EXCEPT ![l][t] = @ - 1]
    /\ UNCHANGED <<owner, disturbed>>

-----------------------------------------------------------------------------
SL_Init ==
    /\ count = [l \in SL_Locks |-> 0]
    /\ owner = [l \in SL_Locks |-> SL_None]
    /\ doing = [t \in SL_Threads |-> [at |-> Outside, on |-> CHOOSE l \in SL_Locks : TRUE]]
    /\ depth = [l \in SL_Locks |-> [t \in SL_Threads |-> 0]]
    /\ disturbed = FALSE

\* The rest of a call that was begun
InCall(t) == Exchange(t) \/ SetOwner(t) \/ Increment(t) \/ ClearOwner(t) \/ Decrement(t)

SL_Next ==
    \E t \in SL_Threads :
        \/ InCall(t)
        \/ \E l \in SL_Locks : TestOwner(t, l) \/ TestCount(t, l)

SL_Spec == SL_Init /\ [][SL_Next]_slVars

-----------------------------------------------------------------------------
Steps == {Outside, "spin", "own", "nested", "disown", "release"}

\* The state is of the declared types
SL_TypeOK ==
    /\ count \in [SL_Locks -> Int]
    /\ owner \in [SL_Locks -> SL_Threads \cup {SL_None}]
    /\ doing \in [SL_Threads -> [at : Steps, on : SL_Locks]]
    /\ depth \in [SL_Locks -> [SL_Threads -> Nat]]
    /\ disturbed \in BOOLEAN

\* Thread t is doing "at" to lock l
Is(t, at, l) == doing[t] = [at |-> at, on |-> l]

\* Thread t has lock l: from the exchange that found 0 to the last decrement
Has(t, l) == depth[l][t] > 0 \/ Is(t, "own", l)

\* lock and unlock let one thread at a time between them.
Exclusive ==
    ~disturbed => \A l \in SL_Locks : \A t, u \in SL_Threads : Has(t, l) /\ Has(u, l) => t = u

\* The count of a lock is how often its owner has it: it is never below 0, for which
\* unlock has the message "error -1".
CountIsDepth ==
    ~disturbed => \A l \in SL_Locks :
        \/ count[l] = 0 /\ \A t \in SL_Threads : ~Has(t, l)
        \/ \E t \in SL_Threads :
              Has(t, l) /\ count[l] = IF Is(t, "own", l) THEN 1 ELSE depth[l][t]

\* A thread is taken for the owner only while it has the lock, and until it gives it
\* up: nobody else's nested call is let in, and none of its own has to spin.
OwnerHas ==
    ~disturbed => \A l \in SL_Locks : \A t \in SL_Threads :
        /\ owner[l] = t => depth[l][t] > 0
        /\ depth[l][t] > 0 /\ owner[l] # t => depth[l][t] = 1 /\ Is(t, "release", l)

\* What lock and unlock promise, until a nested count has been exchanged: they exclude,
\* the count is the depth, and the unlocked test of the owner is right.
LockIsSound == Exclusive /\ CountIsDepth /\ OwnerHas
=============================================================================
