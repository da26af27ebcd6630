----------------------------- MODULE Speedhack -----------------------------
(***************************************************************************)
(* The speedhack in the target (speedhack/speedhackmain.pas): the clock    *)
(* functions that the game's threads are made to call, and                 *)
(* InitializeSpeedhack, which CE runs in a new thread for each setSpeed.   *)
(*                                                                         *)
(* A call is the list of what is left of it; it takes the locks step by    *)
(* step as SimpleLock does.  Speeds are counted in halves.                 *)
(***************************************************************************)
EXTENDS SimpleLock, Sequences, SequencesExt

CONSTANTS
    SH_Game,       \* threads of the game
    SH_Setters,    \* threads that CreateThread starts for setSpeed
    SH_Clocks,     \* "tick", "tick64" and "counter", or some of them
    SH_Speeds,     \* speeds the user sets
    SH_MaxTime,    \* bound on the real time
    SH_MaxReads    \* bound on the clocks that each thread of the game reads

ASSUME SHAssumption ==
    /\ SL_Threads = SH_Game \cup SH_Setters
    /\ SL_Locks = {"GTCLock", "QPCLock"}
    /\ SH_Clocks \subseteq {"tick", "tick64", "counter"}
    /\ SH_Speeds \subseteq Nat

VARIABLES
    now,              \* what the real functions return
    initialtime,      \* initialtime, initialtime_tc64, initialtime64
    initialoffset,    \* initialoffset, initialoffset_tc64, initialoffset64
    speedmultiplier,
    todo,             \* what is left of the call each thread is in
    local,            \* each thread's currentTime, and then its result
    latest,           \* the last result of each clock
    calls             \* calls each thread has made

hackVars == <<now, initialtime, initialoffset, speedmultiplier, local, latest, calls>>
shVars == <<slVars, hackVars, todo>>

-----------------------------------------------------------------------------
\* The lock a clock is under
LockOf(c) == IF c = "counter" THEN "QPCLock" ELSE "GTCLock"

Op(what, with) == [what |-> what, with |-> with]

\* Mutant: the real time is read before the lock is taken.
Read_early(c) == << Op("real", c), Op("lock", LockOf(c)), Op("result", c), Op("unlock", LockOf(c)) >>

\* speedhackversion_GetTickCount, -_GetTickCount64 and -_QueryPerformanceCounter
Read(c) == << Op("lock", LockOf(c)), Op("real", c), Op("result", c), Op("unlock", LockOf(c)) >>

\* The order in which InitializeSpeedhack sets the clocks
InOrder == SelectSeq(<<"tick", "counter", "tick64">>, LAMBDA c : c \in SH_Clocks)

\* initialoffset:=gettickcount, which is the hooked one; initialtime:=the real one
Rebase(c) == Read(c) \o << Op("offset", c), Op("real", c), Op("base", c) >>

\* InitializeSpeedhack
InitializeSpeedhack(s) ==
    << Op("lock", "QPCLock"), Op("lock", "GTCLock") >>
    \o FlattenSeq([k \in 1..Len(InOrder) |-> Rebase(InOrder[k])])
    \o << Op("speed", s), Op("unlock", "GTCLock"), Op("unlock", "QPCLock") >>

-----------------------------------------------------------------------------
\* Thread t is between two accesses of a lock and what it does next is "what"
Next1(t, what) == Ready(t) /\ todo[t] # << >> /\ todo[t][1].what = what
With(t) == todo[t][1].with
Shift(t) == todo' = [todo EXCEPT ![t] = Tail(@)]

\* A thread of the game calls a clock function
GameReads(t, c) ==
    /\ Ready(t) /\ todo[t] = << >> /\ calls[t] < SH_MaxReads
    /\ todo' = [todo EXCEPT ![t] = Read(c)]
    /\ calls' = [calls EXCEPT ![t] = @ + 1]
    /\ UNCHANGED <<slVars, now, initialtime, initialoffset, speedmultiplier, local, latest>>

\* A thread that setSpeed starts calls InitializeSpeedhack, and ends with it
SetSpeed(t, s) ==
    /\ Ready(t) /\ todo[t] = << >> /\ calls[t] = 0
    /\ todo' = [todo EXCEPT ![t] = InitializeSpeedhack(s)]
    /\ calls' = [calls EXCEPT ![t] = 1]
    /\ UNCHANGED <<slVars, now, initialtime, initialoffset, speedmultiplier, local, latest>>

\* The first access of lock or unlock; the rest of the call is SimpleLock's
Lock(t) == Next1(t, "lock") /\ TestOwner(t, With(t)) /\ Shift(t) /\ UNCHANGED hackVars
Unlock(t) == Next1(t, "unlock") /\ TestCount(t, With(t)) /\ Shift(t) /\ UNCHANGED hackVars
LockGoesOn(t) == InCall(t) /\ UNCHANGED <<hackVars, todo>>

\* currentTime:=the real function
RealTime(t) ==
    /\ Next1(t, "real") /\ Shift(t)
    /\ local' = [local EXCEPT ![t] = now]
    /\ UNCHANGED <<slVars, now, initialtime, initialoffset, speedmultiplier, latest, calls>>

\* trunc((currentTime-initialtime)*speedmultiplier)+initialoffset
Trunc(halves) == IF halves >= 0 THEN halves \div 2 ELSE -((-halves) \div 2)
Scaled(t, c) == Trunc((local[t] - initialtime[c]) * speedmultiplier) + initialoffset[c]

Result(t) ==
    LET c == With(t) IN
    /\ Next1(t, "result") /\ Shift(t)
    /\ local' = [local EXCEPT ![t] = Scaled(t, c)]
    /\ latest' = [latest EXCEPT ![c] = Scaled(t, c)]
    /\ UNCHANGED <<slVars, now, initialtime, initialoffset, speedmultiplier, calls>>

SetOffset(t) ==
    /\ Next1(t, "offset") /\ Shift(t)
    /\ initialoffset' = [initialoffset EXCEPT ![With(t)] = local[t]]
    /\ UNCHANGED <<slVars, now, initialtime, speedmultiplier, local, latest, calls>>

SetBase(t) ==
    /\ Next1(t, "base") /\ Shift(t)
    /\ initialtime' = [initialtime EXCEPT ![With(t)] = local[t]]
    /\ UNCHANGED <<slVars, now, initialoffset, speedmultiplier, local, latest, calls>>

SetMultiplier(t) ==
    /\ Next1(t, "speed") /\ Shift(t)
    /\ speedmultiplier' = With(t)
    /\ UNCHANGED <<slVars, now, initialtime, initialoffset, local, latest, calls>>

Tick ==
    /\ now < SH_MaxTime
    /\ now' = now + 1
    /\ UNCHANGED <<slVars, initialtime, initialoffset, speedmultiplier, todo, local, latest, calls>>

-----------------------------------------------------------------------------
\* What the DLL's main block leaves: a speed of 1, and tick64 not set at all
SH_Init ==
    /\ SL_Init
    /\ now = 1
    /\ initialtime = [c \in SH_Clocks |-> IF c = "tick64" THEN 0 ELSE now]
    /\ initialoffset = initialtime
    /\ speedmultiplier = 2
    /\ todo = [t \in SL_Threads |-> << >>]
    /\ local = [t \in SL_Threads |-> 0]
    /\ latest = [c \in SH_Clocks |-> 0]
    /\ calls = [t \in SL_Threads |-> 0]

ThreadGoesOn(t) ==
    \/ Lock(t) \/ LockGoesOn(t) \/ Unlock(t)
    \/ RealTime(t) \/ Result(t) \/ SetOffset(t) \/ SetBase(t) \/ SetMultiplier(t)

SH_Next ==
    \/ \E t \in SL_Threads : ThreadGoesOn(t)
    \/ \E t \in SH_Game, c \in SH_Clocks : GameReads(t, c)
    \/ \E t \in SH_Setters, s \in SH_Speeds : SetSpeed(t, s)
    \/ Tick

SH_Spec == SH_Init /\ [][SH_Next]_shVars

-----------------------------------------------------------------------------
\* The state is of the declared types
SH_TypeOK ==
    /\ SL_TypeOK
    /\ now \in 0..SH_MaxTime
    /\ initialtime \in [SH_Clocks -> 0..SH_MaxTime]
    /\ initialoffset \in [SH_Clocks -> Int]
    /\ speedmultiplier \in Nat
    /\ DOMAIN todo = SL_Threads
    /\ local \in [SL_Threads -> Int] /\ latest \in [SH_Clocks -> Int]
    /\ calls \in [SL_Threads -> Nat]

\* However often the speed changes, no clock of the game goes back ("not all games
\* handle a counter that goes back").
NeverBack == [][~disturbed' => \A c \in SH_Clocks : latest'[c] >= latest[c]]_shVars

\* At twice the speed, or at any other that was set, a clock does not run ahead of the
\* fastest speed: a new speed is not applied to the time before it.
NeverAhead ==
    ~disturbed =>
        \A c \in SH_Clocks : 2 * latest[c] <= 2 + (now - 1) * Max(SH_Speeds \cup {2})

\* A clock function and InitializeSpeedhack return, whichever locks the others have
SpeedhackReturns ==
    \A t \in SL_Threads : []<>((Ready(t) /\ todo[t] = << >>) \/ disturbed)

\* unlock never leaves the count of a lock below 0, for which it has "error -1".
\* It does not hold, and no run checks it: while one thread has a lock twice,
\* another that spins on it writes 1 over the count, and both are then released.
CountNotNegative == \A l \in SL_Locks : count[l] >= 0

\* The clocks a game reads, across changes of speed: never back, and never ahead of the
\* fastest speed there was.
ClocksKeepPace == NeverBack /\ []NeverAhead
=============================================================================
