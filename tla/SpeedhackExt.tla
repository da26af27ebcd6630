---------------------------- MODULE SpeedhackExt ----------------------------
(***************************************************************************)
(* The speedhack of the ceserver extension (ceserver/extension/            *)
(* speedhack.c): a clock that counts seconds and parts of a second, and    *)
(* speedhack_initializeSpeed.  There is no lock: a reading takes the words *)
(* it needs one at a time, while a new speed is being set word by word.    *)
(*                                                                         *)
(* A speed s stands for s / SE_Unit, a time is a number of parts.  The     *)
(* products are exact, as they are in the code while the elapsed seconds   *)
(* have fewer than 30 bits: a float has 24, a double 53.                   *)
(***************************************************************************)
EXTENDS Integers, Sequences

CONSTANTS
    SE_Readers,     \* threads of the game
    SE_Part,        \* parts in a second: 1000000 or 1000000000
    SE_Unit,        \* the speed 1.0f; a float is a number of such units, a power of 2
    SE_Speeds,      \* speeds that are set
    SE_MaxTime,     \* bound on the real time
    SE_MaxSets      \* bound on the times a speed is set

ASSUME SEAssumption == {SE_Part, SE_Unit} \subseteq Nat \ {0} /\ SE_Speeds \subseteq Nat

VARIABLES
    real,           \* what the real function returns
    word,           \* the words of the offset, the time and the speed
    reader,         \* the call that each thread of the game makes
    setter,         \* where speedhack_initializeSpeed is
    given,          \* the greatest result so far of a call that no set overlapped
    sets            \* times a speed was set

seVars == <<real, word, reader, setter, given, sets>>

Sec(n) == n \div SE_Part
Sub(n) == n % SE_Part

Words == {"osec", "osub", "tsec", "tsub", "speed"}

\* The words as the code reads them: the speed once for the seconds, once for the parts
Reads == <<"tsec", "tsub", "speed", "speed", "osec", "osub">>

-----------------------------------------------------------------------------
\* C's / and % on an int64_t
Quot(n) == IF n >= 0 THEN n \div SE_Part ELSE -((-n) \div SE_Part)
Rem(n) == n - Quot(n) * SE_Part

\* Subtract, carrying a second into the parts when they are negative
Delta(n, w) ==
    LET s == Sec(n) - w.tsec
        p == Sub(n) - w.tsub
    IN  IF p < 0 THEN [sec |-> s - 1, sub |-> p + SE_Part] ELSE [sec |-> s, sub |-> p]

\* Multiply seconds and parts each on its own, each rounded down, bring the fraction of
\* a second to the parts, rounded down again, and add the offset
Multiplied(d, w) ==
    LET newsec == d.sec * w.speed
        newsub == (d.sub * w.subspeed) \div SE_Unit
    IN  [sec |-> newsec \div SE_Unit + w.osec,
         sub |-> newsub + ((newsec % SE_Unit) * SE_Part) \div SE_Unit + w.osub]

\* "sanitize the results (no negative usec, and add usec values of 1000000 to sec)"
Sanitized(t) ==
    LET s == t.sec + Quot(t.sub)
        p == Rem(t.sub)
    IN  IF p < 0 THEN [sec |-> s - 1, sub |-> p + SE_Part] ELSE [sec |-> s, sub |-> p]

\* new_gettimeofday, and new_clock_gettime for a clock there is
NewTime(n, w) == Sanitized(Multiplied(Delta(n, w), w))

Total(t) == t.sec * SE_Part + t.sub

-----------------------------------------------------------------------------
Whole(w) == [tsec |-> w.tsec, tsub |-> w.tsub, speed |-> w.speed, subspeed |-> w.speed,
             osec |-> w.osec, osub |-> w.osub]

Setting == setter.at # "no"

\* The call of a thread of the game: its time, the words it has taken, the greatest
\* result there was, and whether no set overlapped it
Called(n) == [at |-> "taking", time |-> n, taken |-> << >>, floor |-> given, quiet |-> ~Setting,
              result |-> [sec |-> 0, sub |-> 0]]

SE_Idle == [Called(0) EXCEPT !.at = "idle", !.floor = 0, !.quiet = FALSE]

\* r=real_gettimeofday(&currenttv, tz)
Begins(a) ==
    /\ reader[a].at = "idle"
    /\ reader' = [reader EXCEPT ![a] = Called(real)]
    /\ UNCHANGED <<real, word, setter, given, sets>>

\* The next word is read
TakeWord(a) ==
    LET k == Len(reader[a].taken) + 1 IN
    /\ reader[a].at = "taking" /\ k <= Len(Reads)
    /\ reader' = [reader EXCEPT ![a].taken = Append(@, word[Reads[k]])]
    /\ UNCHANGED <<real, word, setter, given, sets>>

Taken(a) ==
    LET v == reader[a].taken
    IN  [tsec |-> v[1], tsub |-> v[2], speed |-> v[3], subspeed |-> v[4], osec |-> v[5],
         osub |-> v[6]]

\* The call returns
Returns(a) ==
    LET t == NewTime(reader[a].time, Taken(a)) IN
    /\ reader[a].at = "taking" /\ Len(reader[a].taken) = Len(Reads)
    /\ reader' = [reader EXCEPT ![a].at = "done", ![a].result = t]
    /\ given' = IF reader[a].quiet /\ Total(t) > given THEN Total(t) ELSE given
    /\ UNCHANGED <<real, word, setter, sets>>

\* The game has its answer
Forgets(a) ==
    /\ reader[a].at = "done"
    /\ reader' = [reader EXCEPT ![a] = SE_Idle]
    /\ UNCHANGED <<real, word, setter, given, sets>>

-----------------------------------------------------------------------------
\* speedhack_initializeSpeed(speed)
SetBegins(s) ==
    /\ ~Setting /\ sets < SE_MaxSets
    /\ setter' = [at |-> "offset", speed |-> s, time |-> [sec |-> 0, sub |-> 0]]
    /\ sets' = sets + 1
    /\ reader' = [a \in SE_Readers |-> [reader[a] EXCEPT !.quiet = FALSE]]
    /\ UNCHANGED <<real, word, given>>

\* Mutant: the offset is not stored.
After_unset(step) ==
    CASE step = "offset" -> "real"
      [] step = "real" -> "tsec" [] step = "tsec" -> "tsub" [] step = "tsub" -> "speed"
      [] step = "speed" -> "no"

\* The words in the order they are written; "real" reads the real clock
After(step) ==
    CASE step = "offset" -> "osec" [] step = "osec" -> "osub" [] step = "osub" -> "real"
      [] step = "real" -> "tsec" [] step = "tsec" -> "tsub" [] step = "tsub" -> "speed"
      [] step = "speed" -> "no"

\* gettimeofday(&initial_offset_tod_tv, NULL), which is the hooked one: nobody else
\* writes the words it reads
ReadHooked ==
    /\ setter.at = "offset"
    /\ setter' = [setter EXCEPT !.at = After(@), !.time = NewTime(real, Whole(word))]
    /\ UNCHANGED <<real, word, reader, given, sets>>

\* real_gettimeofday(&initial_time_tod_tv, NULL)
ReadReal ==
    /\ setter.at = "real"
    /\ setter' = [setter EXCEPT !.at = After(@), !.time = [sec |-> Sec(real), sub |-> Sub(real)]]
    /\ UNCHANGED <<real, word, reader, given, sets>>

NewWord(w) ==
    IF w = "speed" THEN setter.speed
    ELSE IF w \in {"osec", "tsec"} THEN setter.time.sec ELSE setter.time.sub

\* One word of initial_offset_tod_tv, of initial_time_tod_tv or speedmultiplier
StoreWord(w) ==
    /\ setter.at = w
    /\ word' = [word EXCEPT ![w] = NewWord(w)]
    /\ setter' = [setter EXCEPT !.at = After(@)]
    /\ UNCHANGED <<real, reader, given, sets>>

Elapses ==
    /\ real < SE_MaxTime
    /\ real' = real + 1
    /\ UNCHANGED <<word, reader, setter, given, sets>>

-----------------------------------------------------------------------------
\* moduleinit has run speedhack_initializeSpeed(1.0f) before anything was hooked
SE_Init ==
    /\ real \in 0..(SE_Part - 1)
    /\ word = [osec |-> Sec(real), osub |-> Sub(real), tsec |-> Sec(real), tsub |-> Sub(real),
               speed |-> SE_Unit]
    /\ setter = [at |-> "no", speed |-> 0, time |-> [sec |-> 0, sub |-> 0]]
    /\ given = 0 /\ sets = 0
    /\ reader = [a \in SE_Readers |-> SE_Idle]

SE_Next ==
    \/ \E a \in SE_Readers : Begins(a) \/ TakeWord(a) \/ Returns(a) \/ Forgets(a)
    \/ \E s \in SE_Speeds : SetBegins(s)
    \/ ReadHooked \/ ReadReal \/ (\E w \in Words : StoreWord(w))
    \/ Elapses

SE_Spec == SE_Init /\ [][SE_Next]_seVars

-----------------------------------------------------------------------------
\* The state is of the declared types, and the times that are stored are sanitized
SE_TypeOK ==
    /\ real \in 0..SE_MaxTime /\ given \in Int /\ sets \in 0..SE_MaxSets
    /\ word \in [Words -> Int] /\ {word.osub, word.tsub} \subseteq 0..(SE_Part - 1)
    /\ \A a \in SE_Readers :
         /\ reader[a].at \in {"idle", "taking", "done"}
         /\ reader[a].taken \in Seq(Int) /\ Len(reader[a].taken) <= Len(Reads)
    /\ setter.at \in Words \cup {"no", "offset", "real"}

Done == {a \in SE_Readers : reader[a].at = "done"}

\* Even when a reading races with a new speed, tv_usec and tv_nsec are in range
SubSecondInRange == \A a \in Done : reader[a].result.sub \in 0..(SE_Part - 1)

\* A reading that no new speed raced with is no earlier than one that ended before it
\* began, across changes of speed as well
QuietNeverBack ==
    \A a \in Done : reader[a].quiet => Total(reader[a].result) >= reader[a].floor

\* Rounding down twice loses less than two parts of the elapsed time times the speed,
\* and adds none, when seconds and parts were multiplied by the same speed
MultipliedInTwoSteps ==
    \A a \in Done :
        LET w == Taken(a)
            exact == (reader[a].time - w.tsec * SE_Part - w.tsub) * w.speed
                     + SE_Unit * (w.osec * SE_Part + w.osub)
            lost == exact - SE_Unit * Total(reader[a].result)
        IN  w.speed = w.subspeed => 0 <= lost /\ lost < 2 * SE_Unit

\* What new_gettimeofday and new_clock_gettime return, without any lock: a time in
\* range, at most two parts short of the scaled one, that does not go back unless a new
\* speed was being set.
ReadingsAreRight == SubSecondInRange /\ QuietNeverBack /\ MultipliedInTwoSteps
=============================================================================
