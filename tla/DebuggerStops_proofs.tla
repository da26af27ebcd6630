------------------------ MODULE DebuggerStops_proofs ------------------------
(***************************************************************************)
(* Proofs about the ptrace debugger of ceserver (Debugger), first part:    *)
(* the inductive invariant, and the commands that wait for a thread,       *)
(* suspend or resume it keep it.  The theorems are in Debugger_proofs.     *)
(***************************************************************************)
EXTENDS Debugger, TLAPS

\* The use of the debugger the theorems are about: commands come once the creation of
\* the threads is handled, the threads answer SIGSTOP in time and do not exit, and only
\* the debugger connection suspends threads, none whose event it has yet to continue.
Setting ==
    /\ ~Early /\ ~SuspendReported /\ Unresponsive = {} /\ MayExit = {}
    /\ Forwarded \cap SuspendCommands = {}

Kernels == [st : {"run", "stop", "dead"}, sig : Signals, new : BOOLEAN, pend : BOOLEAN]
Threads == [isPaused : BOOLEAN, suspendCount : Nat, suspendedDevent : Event]
Ops == ThreadCommands \cup MemoryCommands \cup SuspendCommands \cup EventCommands
Frames == [from : Clients \cup {NoTid}, op : Ops, tid : Tids \cup {NoTid, AllThreads}, i : Tids,
           pc : {"entry", "wait", "check", "block", "act", "resume"}, was : BOOLEAN,
           wtid : Tids \cup {NoTid}, de : Event, ok : BOOLEAN]

DB_Types ==
    /\ kt \in [Tids -> Kernels]
    /\ killed \in BOOLEAN /\ stops \in 0 .. MaxStops
    /\ threadlist \in Seq(Tids)
    /\ td \in [Tids -> Threads]
    /\ debugEventQueue \in Seq(Event)
    /\ debuggedThreadEvent \in Event
    /\ dr \in [Tids -> BOOLEAN]
    /\ reported \in Event
    /\ cmd \in [Clients -> Command \cup {NoCommand}]
    /\ stack \in Seq(Frames)
    /\ call \in [Clients -> {"none", "pending", "served", "answered"}]

Everyone == [k \in Tids |-> k]

\* The threads are known from StartDebug on; before that nothing happens
DB_Start ==
    /\ threadlist = <<>> \/ threadlist = Everyone
    /\ threadlist = <<>> =>
          /\ stack = <<>> /\ debugEventQueue = <<>> /\ reported = NoEvent /\ ~killed
          /\ \A t \in Tids : kt[t].st = "run" /\ ~kt[t].pend
          /\ \A c \in Clients : call[c] # "pending"

\* The thread a command is working on
aim(f) == IF f.tid = AllThreads THEN f.i ELSE f.tid

\* What a command may be about, and where it may be
Shape(f) ==
    /\ f.op \in {"SetBreakpoint", "RemoveBreakpoint"} => f.tid \in Tids \cup {AllThreads}
    /\ f.op \in {"GetThreadContext"} \cup SuspendCommands => f.tid \in Tids
    /\ f.was => f.pc \in {"act", "resume"}
    /\ f.op \in ThreadCommands => f.pc # "block"
    /\ f.op \in MemoryCommands => f.pc \notin {"wait", "check"}
    /\ f.op \in {"SuspendThread", "WaitForDebugEvent"} => f.pc \in {"entry", "wait", "check"}
    /\ f.op \in {"ResumeThread", "ContinueFromDebugEvent"} => f.pc = "entry"

\* Of a queue of events: it has one of thread t's stop; at most one of each; no others
Has(s, t) == \E k \in 1 .. Len(s) : real(s[k], t)
Once(s) == \A k, l \in 1 .. Len(s) : \A t \in Tids : real(s[k], t) /\ real(s[l], t) => k = l
Plain(s) == \A k \in 1 .. Len(s) : s[k].debugevent \notin Virtual

NoVirtual == Plain(debugEventQueue)

\* What the commands of the debugger connection rest on, and what a wait does
Founded(f) ==
    /\ f.op = "WaitForDebugEvent" => reported = NoEvent
    /\ f.op = "ContinueFromDebugEvent" => reported # NoEvent /\ f.tid = reported.threadid
    /\ f.op = "SuspendThread" => reported.threadid # f.tid
    /\ f.op \notin EventCommands \/ f.pc # "entry" => NoVirtual
    /\ f.pc \in {"wait", "check"} /\ f.op # "WaitForDebugEvent" =>
          ~real(debuggedThreadEvent, aim(f)) /\ td[aim(f)].suspendCount = 0
    /\ f.pc = "wait" /\ f.op # "WaitForDebugEvent" => ~td[aim(f)].isPaused

\* What a command that uses a stopped thread has
Acting(f) ==
    /\ f.pc \in {"act", "resume"} /\ ~f.was =>
          /\ f.de.threadid \in Tids /\ f.wtid = f.de.threadid
          /\ f.op \in ThreadCommands => f.de.threadid = aim(f)
          /\ f.op = "GetThreadContext" /\ f.pc = "resume" => f.ok
    /\ f.pc = "act" /\ f.was /\ f.op \in {"SetBreakpoint", "GetThreadContext"} =>
          f.wtid \in Tids /\ td[f.wtid].isPaused

\* One command, or one that waits and one executed inside the wait
DB_Stack ==
    /\ Len(stack) \in 0 .. 2
    /\ stack # <<>> => Shape(top) /\ Founded(top) /\ Acting(top)
    /\ Len(stack) = 2 => /\ top.op \in ThreadCommands \cup MemoryCommands
                         /\ top.from \in Clients /\ call[top.from] = "served"
                         /\ stack[2].pc = "check" /\ Shape(stack[2]) /\ Founded(stack[2])

\* A command on its way is one that may be forwarded
DB_Calls ==
    \A c \in Clients : call[c] = "pending" =>
        /\ cmd[c].op \in Forwarded \cap (ThreadCommands \cup MemoryCommands)
        /\ cmd[c].op \in {"SetBreakpoint", "RemoveBreakpoint"} => cmd[c].tid \in Tids \cup {AllThreads}
        /\ cmd[c].op = "GetThreadContext" => cmd[c].tid \in Tids
        /\ NoVirtual

\* The event the client has is the current one, until it continues
DB_Current ==
    \/ reported = NoEvent /\ debuggedThreadEvent.threadid = NoTid
    \/ reported = debuggedThreadEvent /\ reported.threadid \in Tids

\* waitpid() has told of the stop of thread t
Taken(t) == kt[t].st = "stop" /\ ~kt[t].new

\* Who holds the event of thread t
heldEvent == IF stack # <<>> /\ top.pc \in {"act", "resume"} /\ ~top.was THEN top.de ELSE NoEvent

inQueue(t) == Has(debugEventQueue, t)
inFrame(t) == heldEvent.threadid = t
isCurrent(t) == real(debuggedThreadEvent, t)
isSuspended(t) == td[t].suspendCount > 0

\* The flag is the truth, and the event has one holder
DB_Held(t) ==
    /\ kt[t].st # "dead" /\ (kt[t].new => kt[t].st = "stop")
    /\ td[t].isPaused <=> Taken(t)
    /\ Taken(t) <=> inQueue(t) \/ inFrame(t) \/ isCurrent(t) \/ isSuspended(t)
    /\ ~(inQueue(t) /\ inFrame(t)) /\ ~(inQueue(t) /\ isCurrent(t)) /\ ~(inQueue(t) /\ isSuspended(t))
    /\ ~(inFrame(t) /\ isCurrent(t)) /\ ~(inFrame(t) /\ isSuspended(t)) /\ ~(isCurrent(t) /\ isSuspended(t))

\* The event says what stopped the thread
DB_Signal(t) ==
    /\ inFrame(t) => heldEvent = ev(t, kt[t].sig)
    /\ isCurrent(t) => debuggedThreadEvent = ev(t, kt[t].sig)
    /\ isSuspended(t) => td[t].suspendedDevent = ev(t, kt[t].sig)

\* The queue has at most one event of a thread's stop, which says what stopped the thread
Right(e, k) ==
    e.threadid \in Tids /\ (e.debugevent \in Virtual \/ e = ev(e.threadid, k[e.threadid].sig))

DB_Queue ==
    /\ \A k \in 1 .. Len(debugEventQueue) : Right(debugEventQueue[k], kt)
    /\ Once(debugEventQueue)

Core == DB_Queue /\ \A t \in Tids : DB_Held(t) /\ DB_Signal(t)

DB_Inv ==
    DB_Types /\ DB_Start /\ DB_Stack /\ DB_Calls /\ DB_Current /\ Core /\ ~crashed

-----------------------------------------------------------------------------
\* What is known of sequences
LEMMA DB_ElementOf ==
    ASSUME NEW S, NEW s \in Seq(S), NEW n \in 1 .. Len(s)
    PROVE  s[n] \in S
  OBVIOUS

\* A sequence that is not empty has elements
LEMMA DB_EmptySeq ==
    ASSUME NEW S
    PROVE  /\ <<>> \in Seq(S) /\ Len(<<>>) = 0
           /\ \A s \in Seq(S) : s # <<>> => Len(s) \in Nat \ {0}
  OBVIOUS

\* The elements of a concatenation
LEMMA DB_Concat ==
    ASSUME NEW S, NEW s \in Seq(S), NEW u \in Seq(S)
    PROVE  /\ s \o u \in Seq(S) /\ Len(s \o u) = Len(s) + Len(u)
           /\ \A i \in 1 .. Len(s) + Len(u) :
                 (s \o u)[i] = IF i <= Len(s) THEN s[i] ELSE u[i - Len(s)]
  OBVIOUS

\* One more element
LEMMA DB_Append ==
    ASSUME NEW S, NEW s \in Seq(S), NEW e \in S
    PROVE  /\ Append(s, e) \in Seq(S) /\ Len(Append(s, e)) = Len(s) + 1
           /\ Append(s, e)[Len(s) + 1] = e /\ \A i \in 1 .. Len(s) : Append(s, e)[i] = s[i]
  OBVIOUS

\* The first element and the rest
LEMMA DB_HeadTail ==
    ASSUME NEW S, NEW s \in Seq(S), s # <<>>
    PROVE  /\ Head(s) \in S /\ Tail(s) \in Seq(S) /\ Len(Tail(s)) = Len(s) - 1
           /\ \A i \in 1 .. Len(Tail(s)) : Tail(s)[i] = s[i + 1]
  OBVIOUS

\* A part of a sequence
LEMMA DB_SubSeq ==
    ASSUME NEW S, NEW s, NEW m \in Int, NEW n \in Int, \A i \in m .. n : s[i] \in S
    PROVE  /\ SubSeq(s, m, n) \in Seq(S)
           /\ Len(SubSeq(s, m, n)) = IF m <= n THEN n - m + 1 ELSE 0
           /\ \A i \in 1 .. n - m + 1 : SubSeq(s, m, n)[i] = s[m + i - 1]
  OBVIOUS

\* The tids that are not threads
LEMMA DB_Tids == /\ NoTid \notin Tids /\ AllThreads \notin Tids /\ NoTid # AllThreads
                 /\ Tids \subseteq Nat /\ 1 \in Tids /\ NThreads \in Nat
  BY DebuggerAssumption DEF Tids, NoTid, AllThreads

\* AddDebugEventToQueue: the event is in the queue, with all that was there
LEMMA DB_Added ==
    ASSUME NEW s \in Seq(Event), NEW e \in Event
    PROVE  /\ Append(s, e) \in Seq(Event)
           /\ \A k \in 1 .. Len(Append(s, e)) :
                 Append(s, e)[k] = e \/ \E l \in 1 .. Len(s) : Append(s, e)[k] = s[l]
           /\ \A t : Has(Append(s, e), t) <=> Has(s, t) \/ real(e, t)
           /\ Once(s) /\ ~Has(s, e.threadid) => Once(Append(s, e))
           /\ Plain(s) /\ e.debugevent \notin Virtual => Plain(Append(s, e))
<1> DEFINE n == Len(s)
           a == Append(s, e)
<1>1. n \in Nat /\ a \in Seq(Event) /\ Len(a) = n + 1 /\ a[n + 1] = e /\ \A k \in 1 .. n : a[k] = s[k]
  BY DB_Append
<1> HIDE DEF n, a
<1>2. \A k \in 1 .. n + 1 : k = n + 1 \/ k \in 1 .. n
  BY <1>1
<1>3. n + 1 \in 1 .. n + 1 /\ \A k \in 1 .. n : k \in 1 .. n + 1
  BY <1>1
<1>4. \A t : Has(a, t) <=> Has(s, t) \/ real(e, t)
  BY <1>1, <1>2, <1>3, Zenon DEF Has, n
<1>5. ASSUME Once(s), ~Has(s, e.threadid) PROVE Once(a)
  <2> SUFFICES ASSUME NEW k \in 1 .. n + 1, NEW l \in 1 .. n + 1, NEW t \in Tids, real(a[k], t), real(a[l], t)
               PROVE  k = l
    BY <1>1, Zenon DEF Once
  <2>1. \A j \in 1 .. n : real(a[j], t) => t # e.threadid
    BY <1>1, <1>5, Zenon DEF Has, real, n
  <2>2. a[n + 1].threadid = e.threadid
    BY <1>1, Zenon
  <2>3. CASE k \in 1 .. n /\ l \in 1 .. n
    BY <1>1, <1>5, <2>3, Zenon DEF Once, n
  <2>4. CASE k = n + 1 /\ l \in 1 .. n
    BY <2>1, <2>2, <2>4, Zenon DEF real
  <2>5. CASE l = n + 1 /\ k \in 1 .. n
    BY <2>1, <2>2, <2>5, Zenon DEF real
  <2> QED BY <1>2, <2>3, <2>4, <2>5, Zenon
<1>6. Plain(s) /\ e.debugevent \notin Virtual => Plain(a)
  BY <1>1, <1>2, Zenon DEF Plain, n
<1>7. \A k \in 1 .. Len(a) : a[k] = e \/ \E l \in 1 .. Len(s) : a[k] = s[l]
  BY <1>1, <1>2, Zenon DEF n
<1> QED BY <1>1, <1>4, <1>5, <1>6, <1>7, Zenon DEF a

\* w is s without its i-th event
Lacks(w, s, i) == /\ w \in Seq(Event) /\ Len(w) = Len(s) - 1
                  /\ \A k \in 1 .. Len(w) : w[k] = s[IF k < i THEN k ELSE k + 1]

\* An event taken from the queue is not there any more, and all the others are
LEMMA DB_Removed ==
    ASSUME NEW s \in Seq(Event), NEW j \in 1 .. Len(s), NEW w, Lacks(w, s, j)
    PROVE  /\ \A k \in 1 .. Len(w) : \E l \in 1 .. Len(s) : w[k] = s[l]
           /\ Once(s) => Once(w)
           /\ Once(s) => \A t \in Tids : Has(w, t) <=> Has(s, t) /\ ~real(s[j], t)
           /\ Plain(s) => Plain(w)
<1> DEFINE n == Len(s)
           at1(k) == IF k < j THEN k ELSE k + 1
<1>1. n \in Nat /\ n - 1 \in Nat /\ Len(w) = n - 1 /\ \A k \in 1 .. n - 1 : w[k] = s[at1(k)]
  BY DEF Lacks
<1>2. \A k \in 1 .. n - 1 : at1(k) \in 1 .. n /\ at1(k) # j
  BY <1>1
<1>3. \A k, l \in 1 .. n - 1 : at1(k) = at1(l) => k = l
  BY <1>1
<1>4. \A l \in 1 .. n : l # j => \E k \in 1 .. n - 1 : at1(k) = l
  <2> SUFFICES ASSUME NEW l \in 1 .. n, l # j PROVE \E k \in 1 .. n - 1 : at1(k) = l
    BY Zenon
  <2>1. CASE l < j
    <3>1. l \in 1 .. n - 1 /\ at1(l) = l
      BY <1>1, <2>1
    <3> QED BY <3>1, Zenon
  <2>2. CASE l > j
    <3>1. l - 1 \in 1 .. n - 1 /\ at1(l - 1) = l
      BY <1>1, <2>2
    <3> QED BY <3>1, Zenon
  <2> QED BY <1>1, <2>1, <2>2
<1> HIDE DEF at1
<1>5. \A k \in 1 .. Len(w) : \E l \in 1 .. Len(s) : w[k] = s[l]
  BY <1>1, <1>2, Zenon
<1>6. ASSUME Once(s) PROVE Once(w)
  <2> SUFFICES ASSUME NEW k \in 1 .. n - 1, NEW l \in 1 .. n - 1, NEW t \in Tids, real(w[k], t), real(w[l], t)
               PROVE  k = l
    BY <1>1, Zenon DEF Once
  <2>1. real(s[at1(k)], t) /\ real(s[at1(l)], t)
    BY <1>1, Zenon
  <2>2. at1(k) = at1(l)
    BY Zenon, <1>2, <1>6, <2>1 DEF Once
  <2> QED BY <1>3, <2>2, Zenon
<1>7. ASSUME Once(s), NEW t \in Tids PROVE Has(w, t) <=> Has(s, t) /\ ~real(s[j], t)
  <2>1. ASSUME Has(w, t) PROVE Has(s, t) /\ ~real(s[j], t)
    <3>1. PICK k \in 1 .. n - 1 : real(w[k], t)
      BY <1>1, <2>1, Zenon DEF Has
    <3>2. real(s[at1(k)], t) /\ at1(k) \in 1 .. n /\ at1(k) # j
      BY <1>1, <1>2, <3>1, Zenon
    <3> QED BY <1>7, <3>2, Zenon DEF Has, Once
  <2>2. ASSUME Has(s, t), ~real(s[j], t) PROVE Has(w, t)
    <3>1. PICK l \in 1 .. n : real(s[l], t)
      BY <2>2, Zenon DEF Has
    <3>2. PICK k \in 1 .. n - 1 : at1(k) = l
      BY <1>4, <2>2, <3>1, Zenon
    <3> QED BY <1>1, <3>1, <3>2, Zenon DEF Has
  <2> QED BY <2>1, <2>2, Zenon
<1>8. Plain(s) => Plain(w)
  BY <1>1, <1>2, Zenon DEF Plain
<1> QED BY <1>5, <1>6, <1>7, <1>8, Zenon

\* The two ways an event is taken from the queue
LEMMA DB_Taken ==
    ASSUME NEW s \in Seq(Event)
    PROVE  /\ \A j \in 1 .. Len(s) : Lacks(withoutIndex(s, j), s, j)
           /\ s # <<>> => 1 \in 1 .. Len(s) /\ Lacks(Tail(s), s, 1) /\ Head(s) = s[1]
<1>0. Len(s) \in Nat /\ \A k \in 1 .. Len(s) : s[k] \in Event
  BY DB_ElementOf
<1>1. ASSUME NEW j \in 1 .. Len(s) PROVE Lacks(withoutIndex(s, j), s, j)
  <2> DEFINE n == Len(s)
             a == SubSeq(s, 1, j - 1)
             z == SubSeq(s, j + 1, n)
  <2>1. a \in Seq(Event) /\ Len(a) = j - 1 /\ \A k \in 1 .. j - 1 : a[k] = s[k]
    <3>1. \A k \in 1 .. j - 1 : s[k] \in Event
      BY <1>0
    <3>2. 1 \in Int /\ j - 1 \in Int /\ j \in Int
      BY <1>0
    <3> QED BY <3>1, <3>2, <1>0, DB_SubSeq
  <2>2. z \in Seq(Event) /\ Len(z) = n - j /\ \A k \in 1 .. n - j : z[k] = s[j + k]
    <3>1. \A k \in j + 1 .. n : s[k] \in Event
      BY <1>0
    <3>2. n \in Int /\ j + 1 \in Int /\ j \in Int
      BY <1>0
    <3> QED BY <3>1, <3>2, <1>0, DB_SubSeq
  <2>3. withoutIndex(s, j) = a \o z
    BY Zenon DEF withoutIndex
  <2> HIDE DEF a, z
  <2>4. /\ a \o z \in Seq(Event) /\ Len(a \o z) = Len(a) + Len(z)
        /\ \A k \in 1 .. Len(a) + Len(z) : (a \o z)[k] = IF k <= Len(a) THEN a[k] ELSE z[k - Len(a)]
    BY Zenon, <2>1, <2>2, DB_Concat
  <2>5. Len(a) + Len(z) = n - 1
    BY <1>0, <2>1, <2>2
  <2>6. ASSUME NEW k \in 1 .. n - 1 PROVE (a \o z)[k] = s[IF k < j THEN k ELSE k + 1]
    <3>0. k < j \/ k >= j
      BY <1>0
    <3>1. CASE k < j
      BY <1>0, <2>1, <2>4, <2>5, <3>1
    <3>2. CASE k >= j
      <4>1. k - (j - 1) \in 1 .. n - j /\ j + (k - (j - 1)) = k + 1
        BY <1>0, <3>2
      <4>2. (a \o z)[k] = z[k - (j - 1)]
        BY <1>0, <2>1, <2>4, <2>5, <3>2
      <4> QED BY <1>0, <2>2, <3>2, <4>1, <4>2
    <3> QED BY Zenon, <3>0, <3>1, <3>2
  <2> QED BY Zenon, <2>3, <2>4, <2>5, <2>6 DEF Lacks
<1>2. ASSUME s # <<>> PROVE 1 \in 1 .. Len(s) /\ Lacks(Tail(s), s, 1) /\ Head(s) = s[1]
  <2>1. /\ Tail(s) \in Seq(Event) /\ Len(Tail(s)) = Len(s) - 1
        /\ \A k \in 1 .. Len(Tail(s)) : Tail(s)[k] = s[k + 1]
    BY <1>2, DB_HeadTail, Zenon
  <2>2. 1 \in 1 .. Len(s) /\ Head(s) = s[1]
    BY <1>0, <1>2
  <2>3. \A k \in 1 .. Len(Tail(s)) : ~(k < 1)
    BY <1>0, <2>1
  <2> QED BY <2>1, <2>2, <2>3, Zenon DEF Lacks
<1> QED BY <1>1, <1>2, Zenon

-----------------------------------------------------------------------------
\* An event of a stop is not a virtual one, and one that is not written yet has no thread
LEMMA DB_Events ==
    /\ Signals \cap Virtual = {} /\ "SIGSTOP" \in Signals
    /\ \A t \in Tids : \A s \in Signals :
          /\ ev(t, s) \in Event /\ ev(t, s).threadid = t /\ ev(t, s).debugevent = s
          /\ real(ev(t, s), t)
    /\ NoEvent \in Event /\ NoEvent.threadid = NoTid
    /\ Uninitialized \in Event /\ Uninitialized.threadid = NoTid
    /\ \A e \in Event : e.threadid \in {NoTid} \cup Tids
<1>1. Signals \cap Virtual = {} /\ "SIGSTOP" \in Signals
  BY Zenon DEF Signals, Virtual
<1>2. \A t \in Tids : \A s \in Signals : ev(t, s) \in Event /\ ev(t, s).threadid = t /\ ev(t, s).debugevent = s
  BY Zenon DEF ev, Event
<1> QED BY <1>1, <1>2, Zenon DEF ev, Event, real, NoEvent, Uninitialized

\* What the kernel does to a thread: r is k but for thread t, which is stopped by signal s;
\* which is told of; which gets a SIGSTOP; which goes on
Rest(r, k, t) == \A x \in Tids \ {t} : r[x] = k[x]
Hit(r, k, t, s) == /\ r \in [Tids -> Kernels] /\ Rest(r, k, t)
                   /\ r[t].st = "stop" /\ r[t].new /\ r[t].sig = s
Told(r, k, t) == /\ r \in [Tids -> Kernels] /\ Rest(r, k, t)
                 /\ r[t].st = k[t].st /\ ~r[t].new /\ r[t].sig = k[t].sig
Signalled(r, k, t) == /\ r \in [Tids -> Kernels] /\ Rest(r, k, t)
                      /\ r[t].st = k[t].st /\ r[t].new = k[t].new /\ r[t].sig = k[t].sig
GoesOn(r, k, t) == /\ r \in [Tids -> Kernels] /\ Rest(r, k, t)
                   /\ r[t].st = "run" /\ ~r[t].new

\* What the server does to its record of a thread: r is d but for thread t, whose flag is b;
\* which is suspended with event e; which is suspended again; which is resumed once
Flagged(r, d, t, b) ==
    /\ r \in [Tids -> Threads] /\ Rest(r, d, t) /\ r[t].isPaused = b
    /\ r[t].suspendCount = d[t].suspendCount /\ r[t].suspendedDevent = d[t].suspendedDevent
Kept(r, d, t, e) ==
    /\ r \in [Tids -> Threads] /\ Rest(r, d, t) /\ r[t].isPaused = d[t].isPaused
    /\ r[t].suspendCount > 0 /\ r[t].suspendedDevent = e
Raised(r, d, t) ==
    /\ r \in [Tids -> Threads] /\ Rest(r, d, t) /\ r[t].isPaused = d[t].isPaused
    /\ r[t].suspendCount > 0 /\ r[t].suspendedDevent = d[t].suspendedDevent
Lowered(r, d, t) ==
    /\ r \in [Tids -> Threads] /\ Rest(r, d, t) /\ r[t].isPaused = d[t].isPaused
    /\ r[t].suspendCount = d[t].suspendCount - 1 /\ r[t].suspendedDevent = d[t].suspendedDevent

\* What the kernel does to a thread
LEMMA DB_KernelUpdate ==
    ASSUME NEW k \in [Tids -> Kernels], NEW t \in Tids
    PROVE  /\ \A s \in Signals : Hit([k EXCEPT ![t].st = "stop", ![t].sig = s, ![t].new = TRUE], k, t, s)
           /\ Hit([k EXCEPT ![t] = [st |-> "stop", sig |-> "SIGSTOP", new |-> TRUE, pend |-> FALSE]],
                  k, t, "SIGSTOP")
           /\ Told([k EXCEPT ![t].new = FALSE], k, t)
           /\ Signalled(tkill(t, k), k, t)
           /\ k[t].st = "stop" => GoesOn(ptraceCont(t, k), k, t)
<1>0. k[t] \in Kernels
  BY Zenon
<1>1. ASSUME NEW s \in Signals
      PROVE  Hit([k EXCEPT ![t].st = "stop", ![t].sig = s, ![t].new = TRUE], k, t, s)
  <2> DEFINE m == [k[t] EXCEPT !.st = "stop", !.sig = s, !.new = TRUE]
  <2>1. m \in Kernels /\ m.st = "stop" /\ m.new /\ m.sig = s
    BY Zenon, <1>0 DEF Kernels
  <2>2. [k EXCEPT ![t].st = "stop", ![t].sig = s, ![t].new = TRUE] = [k EXCEPT ![t] = m]
    BY Zenon, <1>0 DEF Kernels
  <2> HIDE DEF m
  <2> QED BY <2>1, <2>2, ZenonT(40) DEF Hit, Rest
<1>2. Hit([k EXCEPT ![t] = [st |-> "stop", sig |-> "SIGSTOP", new |-> TRUE, pend |-> FALSE]],
          k, t, "SIGSTOP")
  <2> DEFINE m == [st |-> "stop", sig |-> "SIGSTOP", new |-> TRUE, pend |-> FALSE]
  <2>1. m \in Kernels /\ m.st = "stop" /\ m.new /\ m.sig = "SIGSTOP"
    BY Zenon DEF Kernels, Signals
  <2>2. [k EXCEPT ![t] = [st |-> "stop", sig |-> "SIGSTOP", new |-> TRUE, pend |-> FALSE]]
           = [k EXCEPT ![t] = m]
    BY Zenon
  <2> HIDE DEF m
  <2> QED BY Zenon, <2>1, <2>2 DEF Hit, Rest
<1>3. Told([k EXCEPT ![t].new = FALSE], k, t)
  <2> DEFINE m == [k[t] EXCEPT !.new = FALSE]
  <2>1. m \in Kernels /\ m.st = k[t].st /\ ~m.new /\ m.sig = k[t].sig
    BY Zenon, <1>0 DEF Kernels
  <2>2. [k EXCEPT ![t].new = FALSE] = [k EXCEPT ![t] = m]
    BY <1>0, Zenon DEF Kernels
  <2> HIDE DEF m
  <2> QED BY Zenon, <2>1, <2>2 DEF Told, Rest
<1>4. Signalled(tkill(t, k), k, t)
  <2> DEFINE m == [k[t] EXCEPT !.pend = TRUE]
  <2>1. m \in Kernels /\ m.st = k[t].st /\ m.new = k[t].new /\ m.sig = k[t].sig
    BY Zenon, <1>0 DEF Kernels
  <2>2. [k EXCEPT ![t].pend = TRUE] = [k EXCEPT ![t] = m]
    BY <1>0, Zenon DEF Kernels
  <2> HIDE DEF m
  <2> QED BY Zenon, <2>1, <2>2 DEF tkill, Signalled, Rest
<1>5. k[t].st = "stop" => GoesOn(ptraceCont(t, k), k, t)
  <2> DEFINE m == [k[t] EXCEPT !.st = "run", !.new = FALSE]
  <2>1. m \in Kernels /\ m.st = "run" /\ ~m.new
    BY Zenon, <1>0 DEF Kernels
  <2>2. [k EXCEPT ![t].st = "run", ![t].new = FALSE] = [k EXCEPT ![t] = m]
    BY Zenon, <1>0 DEF Kernels
  <2> HIDE DEF m
  <2> QED BY <2>1, <2>2, Zenon DEF ptraceCont, GoesOn, Rest
<1> QED BY Zenon, <1>1, <1>2, <1>3, <1>4, <1>5

\* What the server does to its record of a thread
LEMMA DB_ThreadUpdate ==
    ASSUME NEW d \in [Tids -> Threads], NEW t \in Tids
    PROVE  /\ Flagged([d EXCEPT ![t].isPaused = TRUE], d, t, TRUE)
           /\ Flagged([d EXCEPT ![t].isPaused = FALSE], d, t, FALSE)
           /\ \A e \in Event : Kept([d EXCEPT ![t].suspendedDevent = e, ![t].suspendCount = @ + 1], d, t, e)
           /\ Raised([d EXCEPT ![t].suspendCount = @ + 1], d, t)
           /\ d[t].suspendCount > 0 => Lowered([d EXCEPT ![t].suspendCount = @ - 1], d, t)
<1>0. d[t] \in Threads /\ d[t].suspendCount \in Nat
  BY Zenon DEF Threads
<1>1. ASSUME NEW b \in BOOLEAN PROVE Flagged([d EXCEPT ![t].isPaused = b], d, t, b)
  <2> DEFINE m == [d[t] EXCEPT !.isPaused = b]
  <2>1. /\ m \in Threads /\ m.isPaused = b /\ m.suspendCount = d[t].suspendCount
        /\ m.suspendedDevent = d[t].suspendedDevent
    BY <1>0, Zenon DEF Threads
  <2>2. [d EXCEPT ![t].isPaused = b] = [d EXCEPT ![t] = m]
    BY <1>0, Zenon DEF Threads
  <2> HIDE DEF m
  <2> QED BY <2>1, <2>2, Zenon DEF Flagged, Rest
<1>2. ASSUME NEW e \in Event
      PROVE  Kept([d EXCEPT ![t].suspendedDevent = e, ![t].suspendCount = @ + 1], d, t, e)
  <2> DEFINE n == d[t].suspendCount + 1
             m == [d[t] EXCEPT !.suspendedDevent = e, !.suspendCount = n]
  <2>0. n \in Nat /\ n > 0
    BY <1>0
  <2>2. [d EXCEPT ![t].suspendedDevent = e, ![t].suspendCount = @ + 1] = [d EXCEPT ![t] = m]
    BY Zenon, <1>0 DEF Threads
  <2> HIDE DEF n
  <2>1. m \in Threads /\ m.isPaused = d[t].isPaused /\ m.suspendCount = n /\ m.suspendedDevent = e
    BY Zenon, <1>0, <2>0 DEF Threads
  <2> HIDE DEF m
  <2> QED BY Zenon, <2>0, <2>1, <2>2 DEF Kept, Rest
<1>3. Raised([d EXCEPT ![t].suspendCount = @ + 1], d, t)
  <2> DEFINE n == d[t].suspendCount + 1
             m == [d[t] EXCEPT !.suspendCount = n]
  <2>0. n \in Nat /\ n > 0
    BY <1>0
  <2>2. [d EXCEPT ![t].suspendCount = @ + 1] = [d EXCEPT ![t] = m]
    BY <1>0, Zenon DEF Threads
  <2> HIDE DEF n
  <2>1. /\ m \in Threads /\ m.isPaused = d[t].isPaused /\ m.suspendCount = n
        /\ m.suspendedDevent = d[t].suspendedDevent
    BY <1>0, <2>0, Zenon DEF Threads
  <2> HIDE DEF m
  <2> QED BY Zenon, <2>0, <2>1, <2>2 DEF Raised, Rest
<1>4. ASSUME d[t].suspendCount > 0 PROVE Lowered([d EXCEPT ![t].suspendCount = @ - 1], d, t)
  <2> DEFINE n == d[t].suspendCount - 1
             m == [d[t] EXCEPT !.suspendCount = n]
  <2>0. n \in Nat /\ n = d[t].suspendCount - 1
    BY <1>0, <1>4
  <2>2. [d EXCEPT ![t].suspendCount = @ - 1] = [d EXCEPT ![t] = m]
    BY <1>0, Zenon DEF Threads
  <2> HIDE DEF n
  <2>1. /\ m \in Threads /\ m.isPaused = d[t].isPaused /\ m.suspendCount = n
        /\ m.suspendedDevent = d[t].suspendedDevent
    BY <1>0, <2>0, Zenon DEF Threads
  <2> HIDE DEF m
  <2> QED BY <2>0, <2>1, <2>2, Zenon DEF Lowered, Rest
<1> QED BY Zenon, <1>1, <1>2, <1>3, <1>4

-----------------------------------------------------------------------------
\* Frame g is frame f later in the same command: it has the event e of a thread it stopped;
\* at pc p, with no event; with a thread w that was stopped; with the result b
Alike(g, f) == g \in Frames /\ g.from = f.from /\ g.op = f.op /\ g.tid = f.tid /\ g.i = f.i
Holds(g, f, e) ==
    Alike(g, f) /\ g.pc = "act" /\ g.de = e /\ g.wtid = e.threadid /\ g.was = f.was
Reaches(g, f, p) == Alike(g, f) /\ g.pc = p /\ g.was = f.was
Uses(g, f, w) == Alike(g, f) /\ g.pc = "act" /\ g.was /\ g.wtid = w
Ends(g, f, b) ==
    Alike(g, f) /\ g.pc = "resume" /\ g.was = f.was /\ g.wtid = f.wtid /\ g.de = f.de /\ g.ok = b

\* What a command does to its own frame
LEMMA DB_FrameUpdate ==
    ASSUME NEW f \in Frames
    PROVE  /\ \A e \in Event : Holds([f EXCEPT !.pc = "act", !.de = e, !.wtid = e.threadid], f, e)
           /\ \A p \in {"entry", "wait", "check", "block", "act", "resume"} :
                 Reaches([f EXCEPT !.pc = p], f, p)
           /\ \A w \in Tids \cup {NoTid} : Uses([f EXCEPT !.pc = "act", !.was = TRUE, !.wtid = w], f, w)
           /\ \A b \in BOOLEAN : Ends([f EXCEPT !.pc = "resume", !.ok = b], f, b)
<1>1. ASSUME NEW e \in Event
      PROVE  Holds([f EXCEPT !.pc = "act", !.de = e, !.wtid = e.threadid], f, e)
  <2> DEFINE w == e.threadid
  <2>1. w \in Tids \cup {NoTid}
    BY DB_Events, Zenon
  <2> HIDE DEF w
  <2>2. [f EXCEPT !.pc = "act", !.de = e, !.wtid = w] \in Frames
    BY Zenon, <2>1 DEF Frames
  <2> QED BY <2>2, Zenon DEF Frames, Alike, Holds, w
<1>2. ASSUME NEW p \in {"entry", "wait", "check", "block", "act", "resume"}
      PROVE  Reaches([f EXCEPT !.pc = p], f, p)
  <2>2. [f EXCEPT !.pc = p] \in Frames
    BY Zenon DEF Frames
  <2> QED BY <2>2, Zenon DEF Frames, Alike, Reaches
<1>3. ASSUME NEW w \in Tids \cup {NoTid}
      PROVE  Uses([f EXCEPT !.pc = "act", !.was = TRUE, !.wtid = w], f, w)
  <2>2. [f EXCEPT !.pc = "act", !.was = TRUE, !.wtid = w] \in Frames
    BY Zenon DEF Frames
  <2> QED BY <2>2, Zenon DEF Frames, Alike, Uses
<1>4. ASSUME NEW b \in BOOLEAN PROVE Ends([f EXCEPT !.pc = "resume", !.ok = b], f, b)
  <2>2. [f EXCEPT !.pc = "resume", !.ok = b] \in Frames
    BY Zenon DEF Frames
  <2> QED BY <2>2, Zenon DEF Frames, Alike, Ends
<1> QED BY Zenon, <1>1, <1>2, <1>3, <1>4

\* The frame of a command that begins
LEMMA DB_FirstFrame ==
    ASSUME NEW who \in Clients \cup {NoTid}, NEW op \in Ops, NEW t \in Tids \cup {NoTid, AllThreads}
    PROVE  LET g == frame(who, op, t)
           IN  /\ g \in Frames /\ g.from = who /\ g.op = op /\ g.tid = t
               /\ g.pc = "entry" /\ ~g.was
<1>1. Uninitialized \in Event /\ 1 \in Tids
  BY DB_Events, DB_Tids, Zenon
<1> DEFINE u == Uninitialized
<1> HIDE DEF u
<1>2. [from |-> who, op |-> op, tid |-> t, i |-> 1, pc |-> "entry",
       was |-> FALSE, wtid |-> NoTid, de |-> u, ok |-> FALSE] \in Frames
  BY <1>1, Zenon DEF Frames, u
<1>3. frame(who, op, t) \in Frames
  BY <1>2, Zenon DEF frame, u
<1> QED BY <1>3, Zenon DEF frame

\* The frame of a command that goes on to the next thread
LEMMA DB_NewFrame ==
    ASSUME NEW who \in Clients \cup {NoTid}, NEW op \in Ops, NEW t \in Tids \cup {NoTid, AllThreads}
    PROVE  \A j \in Tids :
              LET g == [frame(who, op, t) EXCEPT !.i = j]
              IN  /\ g \in Frames /\ g.from = who /\ g.op = op /\ g.tid = t
                  /\ g.pc = "entry" /\ ~g.was
<1> DEFINE g == frame(who, op, t)
<1>1. g \in Frames /\ g.from = who /\ g.op = op /\ g.tid = t /\ g.pc = "entry" /\ ~g.was
  BY DB_FirstFrame
<1> HIDE DEF g
<1>2. ASSUME NEW j \in Tids PROVE [g EXCEPT !.i = j] \in Frames
  BY <1>1, Zenon DEF Frames
<1>3. ASSUME NEW j \in Tids
      PROVE  LET h == [g EXCEPT !.i = j]
             IN  h.from = g.from /\ h.op = g.op /\ h.tid = g.tid /\ h.pc = g.pc /\ h.was = g.was
  BY <1>1, Zenon DEF Frames
<1> QED BY <1>1, <1>2, <1>3, Zenon DEF g

\* Replacing and removing the first of a sequence of frames
LEMMA DB_Frames ==
    ASSUME NEW s \in Seq(Frames), s # <<>>, NEW f \in Frames
    PROVE  /\ s[1] \in Frames /\ Len(s) \in Nat \ {0} /\ (Len(s) = 2 => s[2] \in Frames)
           /\ LET w == <<f>> \o Tail(s)
              IN  /\ w \in Seq(Frames) /\ Len(w) = Len(s) /\ w # <<>> /\ w[1] = f
                  /\ Len(s) = 2 => w[2] = s[2]
           /\ LET w == Tail(s)
              IN  /\ w \in Seq(Frames) /\ Len(w) = Len(s) - 1
                  /\ Len(s) = 1 => w = <<>>
                  /\ Len(s) = 2 => w # <<>> /\ w[1] = s[2]
<1>1. s[1] \in Frames /\ Len(s) \in Nat \ {0} /\ (Len(s) = 2 => s[2] \in Frames)
  BY DB_EmptySeq, DB_ElementOf
<1> DEFINE z == Tail(s)
           a == <<f>>
<1>2. z \in Seq(Frames) /\ Len(z) = Len(s) - 1 /\ \A k \in 1 .. Len(z) : z[k] = s[k + 1]
  BY DB_HeadTail, Zenon
<1>3. a \in Seq(Frames) /\ Len(a) = 1 /\ a[1] = f
  OBVIOUS
<1> HIDE DEF z, a
<1>4. /\ a \o z \in Seq(Frames) /\ Len(a \o z) = Len(a) + Len(z)
      /\ \A k \in 1 .. Len(a) + Len(z) : (a \o z)[k] = IF k <= Len(a) THEN a[k] ELSE z[k - Len(a)]
  <2>1. a \in Seq(Frames) /\ z \in Seq(Frames)
    BY <1>2, <1>3, Zenon
  <2> QED BY <2>1, DB_Concat, Zenon
<1>5. Len(a \o z) = Len(s) /\ (a \o z)[1] = f /\ (Len(s) = 2 => (a \o z)[2] = z[1])
  BY <1>1, <1>2, <1>3, <1>4
<1>6. a \o z # <<>>
  BY <1>1, <1>4, <1>5, DB_EmptySeq, Zenon
<1>7. Len(s) = 2 => z[1] = s[2]
  BY <1>2
<1>8. (Len(s) = 1 => z = <<>>) /\ (Len(s) = 2 => z # <<>>)
  BY <1>1, <1>2, DB_EmptySeq
<1> QED BY <1>1, <1>2, <1>4, <1>5, <1>6, <1>7, <1>8, Zenon DEF z, a

-----------------------------------------------------------------------------
\* The debugger connection's side stays as it is
Steady == /\ debuggedThreadEvent' = debuggedThreadEvent /\ reported' = reported
          /\ \A x \in Tids : td'[x].suspendCount = td[x].suspendCount
          /\ NoVirtual => NoVirtual'

\* No call gets pending
Calling == /\ cmd' = cmd /\ call' \in [Clients -> {"none", "pending", "served", "answered"}]
           /\ \A c \in Clients : call'[c] = "pending" => call[c] = "pending"

\* The command outside the one that is executed is not disturbed
LEMMA DB_Outer ==
    ASSUME Steady, NEW f \in Frames, Shape(f), Founded(f), f.pc = "check"
    PROVE  Founded(f)' /\ Acting(f)'
<1>1. f.op \notin {"WaitForDebugEvent"} => aim(f) \in Tids
  BY DB_Tids, Zenon DEF Frames, Shape, aim, Ops, ThreadCommands, MemoryCommands,
     SuspendCommands, EventCommands
<1> QED BY <1>1, Zenon DEF Founded, Acting, Steady, aim

\* A command goes on with frame f
LEMMA DB_Replaced ==
    ASSUME DB_Types, DB_Stack, stack # <<>>, NEW f \in Frames, f.op = top.op,
           f.from = top.from, stack' = <<f>> \o Tail(stack), call' = call,
           Shape(f), Founded(f)', Acting(f)', Len(stack) = 2 => Steady
    PROVE  /\ stack' \in Seq(Frames) /\ DB_Stack'
           /\ heldEvent' = IF f.pc \in {"act", "resume"} /\ ~f.was THEN f.de ELSE NoEvent
<1>2. stack \in Seq(Frames)
  BY Zenon DEF DB_Types
<1> DEFINE w == <<f>> \o Tail(stack)
<1>3. /\ w \in Seq(Frames) /\ Len(w) = Len(stack) /\ w # <<>> /\ w[1] = f
      /\ Len(stack) = 2 => w[2] = stack[2]
      /\ Len(stack) = 2 => stack[2] \in Frames
  BY <1>2, DB_Frames, Zenon
<1>4. stack' = w
  BY Zenon
<1> HIDE DEF w
<1>5. top' = f
  BY <1>3, <1>4, Zenon DEF top
<1>6. Len(stack) = 2 => Founded(stack[2])' /\ stack'[2] = stack[2]
  BY Zenon, <1>3, <1>4, DB_Outer DEF DB_Stack
<1>7. DB_Stack'
  <2>1. Len(stack') \in 0 .. 2
    BY <1>3, <1>4, Zenon DEF DB_Stack
  <2>2. Shape(top)' /\ Founded(top)' /\ Acting(top)'
    BY <1>5, Zenon
  <2>3. ASSUME Len(stack') = 2
        PROVE  /\ top'.op \in ThreadCommands \cup MemoryCommands
               /\ top'.from \in Clients /\ call'[top'.from] = "served"
               /\ stack'[2].pc = "check" /\ Shape(stack'[2]) /\ Founded(stack[2])'
    BY Zenon, <1>3, <1>4, <1>5, <1>6, <2>3 DEF DB_Stack
  <2> QED BY <2>1, <2>2, <2>3, Zenon DEF DB_Stack
<1> QED BY Zenon, <1>3, <1>4, <1>5, <1>7 DEF heldEvent

\* A command returns
LEMMA DB_Return ==
    ASSUME DB_Types, DB_Stack, stack # <<>>, return, Len(stack) = 2 => Steady
    PROVE  /\ stack' \in Seq(Frames) /\ DB_Stack' /\ heldEvent' = NoEvent /\ Calling
           /\ top.op \notin ThreadCommands \cup MemoryCommands => stack' = <<>>
<1>2. stack \in Seq(Frames)
  BY Zenon DEF DB_Types
<1> DEFINE w == Tail(stack)
<1>3. /\ w \in Seq(Frames) /\ Len(w) = Len(stack) - 1 /\ Len(stack) \in Nat \ {0}
      /\ Len(stack) = 1 => w = <<>>
      /\ Len(stack) = 2 => w # <<>> /\ w[1] = stack[2] /\ stack[2] \in Frames
  <2>1. stack[1] \in Frames
    BY <1>2, DB_EmptySeq, DB_ElementOf
  <2> QED BY <1>2, <2>1, DB_Frames, Zenon
<1>4. stack' = w
  BY Zenon DEF return
<1> HIDE DEF w
<1>5. Len(stack) = 1 \/ Len(stack) = 2
  BY <1>3 DEF DB_Stack
<1>0. Calling
  <2>1. call \in [Clients -> {"none", "pending", "served", "answered"}]
    BY Zenon DEF DB_Types
  <2>2. CASE top.from \in Clients
    BY <2>1, <2>2, Zenon DEF Calling, return, FC!Answer
  <2>3. CASE top.from \notin Clients
    BY <2>1, <2>3, Zenon DEF Calling, return
  <2> QED BY <2>2, <2>3, Zenon
<1>6. CASE Len(stack) = 1
  <2>1. stack' = <<>> /\ Len(stack') = 0
    BY <1>3, <1>4, <1>6, Zenon
  <2> QED BY <1>0, <1>3, <1>4, <1>6, <2>1 DEF DB_Stack, heldEvent
<1>7. CASE Len(stack) = 2
  <2>1. stack' # <<>> /\ Len(stack') = 1 /\ top' = stack[2]
    BY <1>3, <1>4, <1>7 DEF top
  <2>2. stack[2].pc = "check" /\ Shape(stack[2]) /\ Founded(stack[2])
    BY <1>7, Zenon DEF DB_Stack
  <2>3. PICK g \in Frames : g = stack[2]
    BY <1>3, <1>7, Zenon
  <2>4. Founded(g)' /\ Acting(g)' /\ Shape(g)
    BY <1>7, <2>2, <2>3, DB_Outer, Zenon
  <2>5. top' = g
    BY <2>1, <2>3, Zenon
  <2>6. Shape(top)' /\ Founded(top)' /\ Acting(top)'
    BY <2>4, <2>5, Zenon
  <2>7. heldEvent' = NoEvent
    BY <2>2, <2>3, <2>5, Zenon DEF heldEvent
  <2>8. DB_Stack'
    BY <2>1, <2>6 DEF DB_Stack
  <2> QED BY <1>0, <1>3, <1>4, <1>7, <2>7, <2>8, Zenon DEF DB_Stack
<1> QED BY <1>5, <1>6, <1>7, Zenon

\* The list of threads, and the thread a command works on
LEMMA DB_Target ==
    ASSUME DB_Types, DB_Start, DB_Stack, stack # <<>>
    PROVE  /\ threadlist = Everyone /\ threadlist # <<>> /\ Len(threadlist) = NThreads /\ top \in Frames
           /\ \A t \in Tids : inList(t)
           /\ target = aim(top)
           /\ top.op \in ThreadCommands \cup SuspendCommands => aim(top) \in Tids
           /\ top.op \in SuspendCommands => aim(top) = top.tid
<1>1. threadlist = Everyone
  BY Zenon DEF DB_Start
<1>2. Everyone \in Seq(Tids) /\ Len(Everyone) = NThreads /\ \A t \in Tids : Everyone[t] = t
  BY DB_Tids DEF Everyone, Tids
<1>3. Everyone # <<>>
  BY <1>2, DB_EmptySeq, DB_Tids, DebuggerAssumption, Zenon
<1>4. \A t \in Tids : inList(t)
  BY <1>1, <1>2, Zenon DEF inList, Tids
<1>5. top \in Frames
  BY DB_EmptySeq, DB_ElementOf DEF DB_Types, top
<1>6. target = aim(top)
  BY <1>1, <1>2, <1>5, Zenon DEF target, aim, Frames
<1>7. top.op \in ThreadCommands \cup SuspendCommands => aim(top) \in Tids
  BY <1>5, Zenon DEF DB_Stack, Shape, aim, Frames, ThreadCommands, SuspendCommands
<1>8. top.op \in SuspendCommands => aim(top) = top.tid
  BY DB_Tids, Zenon DEF DB_Stack, Shape, aim
<1> QED BY <1>1, <1>2, <1>3, <1>4, <1>5, <1>6, <1>7, <1>8, Zenon

\* A command is done with a thread
LEMMA DB_Next ==
    ASSUME DB_Types, DB_Start, DB_Stack, stack # <<>>, nextThread, NoVirtual', Steady,
           top.op \in ThreadCommands \cup MemoryCommands
    PROVE  stack' \in Seq(Frames) /\ DB_Stack' /\ heldEvent' = NoEvent /\ Calling
<1>0. top \in Frames /\ Len(threadlist) = NThreads
  BY DB_Target, Zenon
<1>1. CASE top.tid = AllThreads /\ top.i < Len(threadlist)
  <2>1. top.i + 1 \in Tids
    BY <1>0, <1>1, DB_Tids DEF Frames, Tids
  <2> DEFINE h == [frame(top.from, top.op, top.tid) EXCEPT !.i = top.i + 1]
  <2>2. /\ h \in Frames /\ h.from = top.from /\ h.op = top.op /\ h.tid = top.tid
        /\ h.pc = "entry" /\ ~h.was
    <3>1. top.from \in Clients \cup {NoTid} /\ top.op \in Ops /\ top.tid \in Tids \cup {NoTid, AllThreads}
      BY <1>0, Zenon DEF Frames
    <3> QED BY ZenonT(40), <2>1, <3>1, DB_NewFrame
  <2>3. setTop(h) /\ call' = call /\ cmd' = cmd
    BY <1>1, Zenon DEF nextThread, callVars
  <2> HIDE DEF h
  <2>4. PICK f \in Frames : f = h
    BY <2>2, Zenon
  <2>5. Shape(f)
    BY <2>2, <2>4, Zenon DEF DB_Stack, Shape, ThreadCommands, MemoryCommands, SuspendCommands
  <2>6. Founded(f)'
    BY <2>2, <2>4, Zenon DEF Founded, ThreadCommands, MemoryCommands
  <2>7. Acting(f)'
    BY <2>2, <2>4, Zenon DEF Acting
  <2>8. f \in Frames /\ stack' = <<f>> \o Tail(stack) /\ f.op = top.op /\ f.from = top.from /\ f.pc = "entry"
    BY <2>2, <2>3, <2>4, Zenon DEF setTop
  <2>9. stack' \in Seq(Frames) /\ DB_Stack' /\ heldEvent' = NoEvent
    BY <2>3, <2>5, <2>6, <2>7, <2>8, DB_Replaced, Zenon
  <2>10. Calling
    BY <2>3, Zenon DEF Calling, DB_Types
  <2> QED BY <2>9, <2>10, Zenon
<1>2. CASE ~(top.tid = AllThreads /\ top.i < Len(threadlist))
  BY <1>2, DB_Return, Zenon DEF nextThread
<1> QED BY <1>1, <1>2, Zenon

-----------------------------------------------------------------------------
\* What is known of thread x stays as it is
Same(x) ==
    /\ kt'[x].st = kt[x].st /\ kt'[x].sig = kt[x].sig /\ kt'[x].new = kt[x].new
    /\ td'[x] = td[x]
    /\ Has(debugEventQueue', x) <=> Has(debugEventQueue, x)
    /\ heldEvent' = heldEvent \/ (heldEvent.threadid # x /\ heldEvent'.threadid # x)
    /\ debuggedThreadEvent' = debuggedThreadEvent
       \/ (~real(debuggedThreadEvent, x) /\ ~real(debuggedThreadEvent', x))

\* Every event of the queue was there, or is right
Within == \A k \in 1 .. Len(debugEventQueue') :
             \/ Right(debugEventQueue'[k], kt')
             \/ \E l \in 1 .. Len(debugEventQueue) : debugEventQueue'[k] = debugEventQueue[l]

\* No thread that a breakpoint or a signal has stopped is continued
StayStopped == \A t \in Tids : stopped(t) /\ kt[t].sig # "SIGSTOP" => kt'[t].st # "run"

\* A thread nothing happens to
LEMMA DB_Same ==
    ASSUME NEW x \in Tids, Same(x), DB_Held(x), DB_Signal(x)
    PROVE  DB_Held(x)' /\ DB_Signal(x)'
<1>1. /\ inQueue(x)' <=> inQueue(x)
      /\ inFrame(x)' <=> inFrame(x)
      /\ isCurrent(x)' <=> isCurrent(x)
      /\ isSuspended(x)' <=> isSuspended(x)
      /\ Taken(x)' <=> Taken(x)
  BY Zenon DEF Same, inQueue, inFrame, isCurrent, isSuspended, Taken
<1>2. DB_Held(x)'
  BY <1>1, Zenon DEF DB_Held, Same
<1>3. DB_Signal(x)'
  BY <1>1, Zenon DEF DB_Signal, Same, inFrame, isCurrent
<1> QED BY <1>2, <1>3, Zenon

\* A step that concerns thread t only
LEMMA DB_Moved ==
    ASSUME Core, NEW t \in Tids, \A x \in Tids \ {t} : Same(x), DB_Held(t)', DB_Signal(t)',
           Within, Once(debugEventQueue'), Taken(t) => kt'[t].sig = kt[t].sig
    PROVE  Core'
<1>1. \A x \in Tids : DB_Held(x)' /\ DB_Signal(x)'
  BY DB_Same, Zenon DEF Core
<1>2. ASSUME NEW k \in 1 .. Len(debugEventQueue') PROVE Right(debugEventQueue'[k], kt')
  <2>1. CASE \E l \in 1 .. Len(debugEventQueue) : debugEventQueue'[k] = debugEventQueue[l]
    <3>1. PICK l \in 1 .. Len(debugEventQueue) : debugEventQueue'[k] = debugEventQueue[l]
      BY <2>1, Zenon
    <3>2. PICK e : e = debugEventQueue[l]
      BY Zenon
    <3>3. Right(e, kt)
      BY <3>2, Zenon DEF Core, DB_Queue
    <3>4. e.debugevent \notin Virtual => Taken(e.threadid)
      BY <3>2, <3>3, Zenon DEF Core, DB_Held, inQueue, Has, real, Right
    <3>5. e.debugevent \notin Virtual => kt'[e.threadid].sig = kt[e.threadid].sig
      BY <3>3, <3>4, Zenon DEF Same, Right
    <3> QED BY <3>1, <3>2, <3>3, <3>5, Zenon DEF Right
  <2> QED BY <1>2, <2>1, Zenon DEF Within
<1> QED BY <1>1, <1>2, Zenon DEF Core, DB_Queue

\* A step that concerns no thread
LEMMA DB_Still ==
    ASSUME Core, \A x \in Tids : Same(x), Within, Once(debugEventQueue')
    PROVE  Core'
<1>1. 1 \in Tids
  BY DB_Tids, Zenon
<1>2. DB_Held(1)' /\ DB_Signal(1)'
  BY <1>1, DB_Same, Zenon DEF Core
<1>3. Taken(1) => kt'[1].sig = kt[1].sig
  BY <1>1, Zenon DEF Same
<1> QED BY <1>1, <1>2, <1>3, DB_Moved, Zenon

\* The calls on their way are not disturbed
LEMMA DB_Undisturbed ==
    ASSUME DB_Calls, Calling, NoVirtual => NoVirtual'
    PROVE  DB_Calls'
  BY Zenon DEF DB_Calls, Calling

\* The debugging goes on
LEMMA DB_Started ==
    ASSUME DB_Start, threadlist # <<>>, threadlist' = threadlist
    PROVE  DB_Start'
  BY Zenon DEF DB_Start

\* Every command of the debugger connection is alone on the stack
LEMMA DB_Alone ==
    ASSUME DB_Stack, stack # <<>>, stack \in Seq(Frames), top.op \notin ThreadCommands \cup MemoryCommands
    PROVE  Len(stack) # 2
  BY Zenon DEF DB_Stack

-----------------------------------------------------------------------------
\* A wait has the event of thread t, which was in the queue or came from the kernel: the
\* command, the suspended thread or the client has it now.
LEMMA DB_Got ==
    ASSUME DB_Inv, Setting, NEW t \in Tids,
           stack # <<>>, top.pc \in {"entry", "wait", "check", "block"},
           top.op \notin {"ResumeThread", "ContinueFromDebugEvent"},
           top.op \in ThreadCommands \cup SuspendCommands => t = aim(top),
           kt' \in [Tids -> Kernels],
           kt'[t].st = "stop" /\ ~kt'[t].new /\ kt'[t].sig = kt[t].sig,
           \A x \in Tids \ {t} : kt'[x].st = kt[x].st /\ kt'[x].sig = kt[x].sig /\ kt'[x].new = kt[x].new,
           debugEventQueue' \in Seq(Event), Within, Once(debugEventQueue'),
           ~Has(debugEventQueue', t),
           \A x \in Tids \ {t} : Has(debugEventQueue', x) <=> Has(debugEventQueue, x),
           NoVirtual => NoVirtual',
           ~isCurrent(t), ~isSuspended(t),
           gotEvent(ev(t, kt[t].sig), setPaused(t, TRUE, td)),
           killed' \in BOOLEAN, UNCHANGED <<stops, threadlist, dr, crashed>>
    PROVE  DB_Inv' /\ StayStopped
<1> DEFINE e == ev(t, kt[t].sig)
           data == setPaused(t, TRUE, td)
<1>1. /\ DB_Types /\ DB_Start /\ DB_Stack /\ DB_Calls /\ DB_Current /\ Core /\ ~crashed
  BY Zenon DEF DB_Inv
<1>2. threadlist # <<>> /\ inList(t) /\ top \in Frames /\ stack \in Seq(Frames)
  BY <1>1, DB_Target, Zenon DEF DB_Types
<1>3. kt[t].sig \in Signals
  BY <1>1, Zenon DEF DB_Types, Kernels
<1>4. e \in Event /\ e.threadid = t /\ real(e, t) /\ t # NoTid
  BY <1>3, DB_Events, DB_Tids, ZenonT(40)
<1>5. /\ data \in [Tids -> Threads] /\ data[t].isPaused
      /\ data[t].suspendCount = td[t].suspendCount
      /\ \A x \in Tids \ {t} : data[x] = td[x]
  <2>1. Flagged(data, td, t, TRUE)
    BY ZenonT(40), <1>1, <1>2, DB_ThreadUpdate DEF DB_Types, setPaused
  <2> QED BY Zenon, <2>1 DEF Flagged, Rest
<1>6. heldEvent = NoEvent /\ NoEvent.threadid = NoTid
  BY DB_Events, Zenon DEF heldEvent
<1>7. DB_Start' /\ StayStopped
  BY <1>1, <1>2, DB_Started, Zenon DEF StayStopped, stopped
<1>8. e = ev(t, kt'[t].sig)
  BY Zenon
<1>9. ~top.was /\ (NoVirtual' \/ top.op = "WaitForDebugEvent")
  <2>1. Shape(top) /\ Founded(top)
    BY <1>1, Zenon DEF DB_Stack
  <2>2. ~top.was
    BY <2>1, Zenon DEF Shape
  <2>3. NoVirtual \/ top.op \in EventCommands
    BY <2>1, Zenon DEF Founded
  <2> QED BY <2>2, <2>3, Zenon DEF EventCommands
<1>10. gotEvent(e, data)
  BY Zenon
<1> HIDE DEF e, data
<1>11. CASE top.op \in ThreadCommands \cup MemoryCommands
  <2>1. PICK f : f = [top EXCEPT !.pc = "act", !.de = e, !.wtid = e.threadid]
    BY Zenon
  <2>2. Alike(f, top) /\ f.pc = "act" /\ f.de = e /\ f.wtid = t /\ ~f.was
    <3>1. Holds(f, top, e)
      BY Zenon, <1>2, <1>4, <2>1, DB_FrameUpdate
    <3> QED BY <1>4, <1>9, <3>1, Zenon DEF Holds
  <2>3. stack' = <<f>> \o Tail(stack) /\ td' = data
        /\ UNCHANGED <<debuggedThreadEvent, reported, call, cmd>>
    <3>1. /\ setTop([top EXCEPT !.pc = "act", !.de = e, !.wtid = e.threadid]) /\ td' = data
          /\ UNCHANGED <<debuggedThreadEvent, reported, callVars>>
      BY Zenon, <1>10, <1>11 DEF gotEvent, ThreadCommands, MemoryCommands
    <3> QED BY <2>1, <3>1, Zenon DEF setTop, callVars
  <2>4. Steady /\ Calling
    BY <1>1, <1>5, <2>3, Zenon DEF Steady, Calling, DB_Types
  <2>5. Shape(f)
    BY <1>1, <1>11, <2>2, Zenon DEF DB_Stack, Shape, Alike, ThreadCommands, MemoryCommands,
       SuspendCommands
  <2>6. NoVirtual' /\ top.op # "WaitForDebugEvent" /\ top.op # "SuspendThread" /\ top.op # "ContinueFromDebugEvent"
    BY <1>9, <1>11, Zenon DEF ThreadCommands, MemoryCommands
  <2>7. Founded(f)'
    BY <2>2, <2>6, Zenon DEF Founded, Alike
  <2>8. aim(f) = aim(top)
    BY <2>2, Zenon DEF aim, Alike
  <2>9. Acting(f)'
    BY <1>4, <2>2, <2>8, Zenon DEF Acting, Alike
  <2>10. f \in Frames /\ f.op = top.op /\ f.from = top.from
    BY <2>2, Zenon DEF Alike
  <2>11. stack' \in Seq(Frames) /\ DB_Stack' /\ heldEvent' = e
    BY <1>1, <2>2, <2>3, <2>4, <2>5, <2>7, <2>9, <2>10, DB_Replaced, ZenonT(40)
  <2>12. \A x \in Tids \ {t} : Same(x)
    BY <1>4, <1>5, <1>6, <2>3, <2>11, DB_Tids, ZenonT(40) DEF Same
  <2>13. DB_Held(t)' /\ DB_Signal(t)'
    <3>1. inFrame(t)' /\ ~inQueue(t)' /\ ~isCurrent(t)' /\ ~isSuspended(t)'
      BY <1>4, <1>5, <2>3, <2>11, Zenon DEF inFrame, inQueue, isCurrent, isSuspended
    <3> QED BY <1>5, <1>8, <2>3, <2>11, <3>1, Zenon DEF DB_Held, DB_Signal, Taken
  <2>14. Core'
    BY <1>1, <2>12, <2>13, DB_Moved, ZenonT(40)
  <2>15. DB_Types'
    BY <1>1, <1>5, <2>3, <2>11, Zenon DEF DB_Types
  <2>16. DB_Current' /\ DB_Calls' /\ ~crashed'
    BY <1>1, <2>3, <2>4, DB_Undisturbed, Zenon DEF DB_Current
  <2> QED BY <1>7, <2>11, <2>14, <2>15, <2>16, Zenon DEF DB_Inv
<1>12. CASE top.op = "SuspendThread"
  <2>0. top.tid = t /\ reported.threadid # t
    BY Zenon, <1>1, <1>12, DB_Target DEF SuspendCommands, DB_Stack, Founded
  <2>1. /\ td' = [data EXCEPT ![t].suspendedDevent = e, ![t].suspendCount = @ + 1]
        /\ return /\ UNCHANGED <<debuggedThreadEvent, reported>>
    BY <1>10, <1>12, <2>0, Zenon DEF gotEvent, ThreadCommands, MemoryCommands
  <2>2. /\ td' \in [Tids -> Threads] /\ td'[t].isPaused /\ td'[t].suspendCount > 0
        /\ td'[t].suspendedDevent = e /\ \A x \in Tids \ {t} : td'[x] = td[x]
    <3>1. Kept(td', data, t, e)
      BY ZenonT(40), <1>4, <1>5, <2>1, DB_ThreadUpdate
    <3> QED BY ZenonT(40), <1>5, <3>1 DEF Kept, Rest
  <2>3. top.op \notin ThreadCommands \cup MemoryCommands /\ Len(stack) # 2
    BY <1>1, <1>2, <1>12, DB_Alone, Zenon DEF ThreadCommands, MemoryCommands
  <2>4. stack' \in Seq(Frames) /\ DB_Stack' /\ heldEvent' = NoEvent /\ Calling
    BY <1>1, <2>1, <2>3, DB_Return, Zenon
  <2>5. \A x \in Tids \ {t} : Same(x)
    BY <1>6, <2>1, <2>2, <2>4, DB_Tids, Zenon DEF Same
  <2>6. DB_Held(t)' /\ DB_Signal(t)'
    <3>1. ~inFrame(t)' /\ ~inQueue(t)' /\ ~isCurrent(t)' /\ isSuspended(t)'
      BY <1>4, <1>6, <2>1, <2>2, <2>4, Zenon DEF inFrame, inQueue, isCurrent, isSuspended
    <3> QED BY Zenon, <1>8, <2>2, <3>1 DEF DB_Held, DB_Signal, Taken
  <2>7. Core'
    BY <1>1, <2>5, <2>6, DB_Moved, Zenon
  <2>8. DB_Types'
    BY <1>1, <2>1, <2>2, <2>4, Zenon DEF DB_Types, Calling
  <2>9. DB_Current' /\ DB_Calls' /\ ~crashed'
    BY <1>1, <2>1, <2>4, DB_Undisturbed, Zenon DEF DB_Current
  <2> QED BY <1>7, <2>4, <2>7, <2>8, <2>9, Zenon DEF DB_Inv
<1>13. CASE top.op = "WaitForDebugEvent"
  <2>0. debuggedThreadEvent.threadid = NoTid
    BY <1>1, <1>13, DB_Tids, DB_Events, Zenon DEF DB_Stack, Founded, DB_Current
  <2>1. debuggedThreadEvent' = e /\ reported' = e /\ td' = data /\ return
    BY Zenon, <1>10, <1>13 DEF gotEvent, ThreadCommands, MemoryCommands
  <2>3. top.op \notin ThreadCommands \cup MemoryCommands /\ Len(stack) # 2
    BY Zenon, <1>1, <1>2, <1>13, DB_Alone DEF ThreadCommands, MemoryCommands
  <2>4. stack' \in Seq(Frames) /\ DB_Stack' /\ heldEvent' = NoEvent /\ Calling
    BY ZenonT(40), <1>1, <2>1, <2>3, DB_Return
  <2>5. \A x \in Tids \ {t} : Same(x)
    BY <1>4, <1>5, <1>6, <2>0, <2>1, <2>4, DB_Tids, ZenonT(40) DEF Same, real
  <2>6. DB_Held(t)' /\ DB_Signal(t)'
    <3>1. ~inFrame(t)' /\ ~inQueue(t)' /\ isCurrent(t)' /\ ~isSuspended(t)'
      BY <1>4, <1>5, <1>6, <2>1, <2>4, Zenon DEF inFrame, inQueue, isCurrent, isSuspended
    <3> QED BY Zenon, <1>5, <1>8, <2>1, <3>1 DEF DB_Held, DB_Signal, Taken
  <2>7. Core'
    BY Zenon, <1>1, <2>5, <2>6, DB_Moved
  <2>8. DB_Types'
    BY <1>1, <1>4, <1>5, <2>1, <2>4, Zenon DEF DB_Types, Calling
  <2>9. DB_Current' /\ DB_Calls' /\ ~crashed'
    BY Zenon, <1>1, <1>4, <2>1, <2>4, DB_Undisturbed DEF DB_Current
  <2> QED BY <1>7, <2>4, <2>7, <2>8, <2>9, Zenon DEF DB_Inv
<1>14. top.op \in ThreadCommands \cup MemoryCommands \cup {"SuspendThread", "WaitForDebugEvent"}
  BY Zenon, <1>2 DEF Frames, Ops, SuspendCommands, EventCommands
<1> QED BY <1>11, <1>12, <1>13, <1>14, Zenon

\* The kernel's view of every thread stays as it is, but for a pending SIGSTOP
Untouched == /\ kt' \in [Tids -> Kernels]
             /\ \A x \in Tids : kt'[x].st = kt[x].st /\ kt'[x].sig = kt[x].sig /\ kt'[x].new = kt[x].new

\* A step that changes only where the commands are
LEMMA DB_Silent ==
    ASSUME DB_Inv, threadlist # <<>>, stack' \in Seq(Frames), DB_Stack', heldEvent' = heldEvent, Calling,
           Untouched, killed' \in BOOLEAN, dr' \in [Tids -> BOOLEAN],
           UNCHANGED <<stops, threadlist, td, debugEventQueue, debuggedThreadEvent, reported, crashed>>
    PROVE  DB_Inv' /\ StayStopped
<1>1. /\ DB_Types /\ DB_Start /\ DB_Stack /\ DB_Calls /\ DB_Current /\ Core /\ ~crashed
  BY Zenon DEF DB_Inv
<1>2. DB_Types'
  BY <1>1, Zenon DEF DB_Types, Calling, Untouched
<1>3. DB_Calls'
  BY <1>1, DB_Undisturbed, Zenon DEF NoVirtual
<1>4. \A x \in Tids : Same(x)
  BY Zenon DEF Same, Untouched
<1>5. Within /\ Once(debugEventQueue')
  BY <1>1, Zenon DEF Within, Core, DB_Queue
<1>6. Core'
  BY <1>1, <1>4, <1>5, DB_Still, Zenon
<1>7. DB_Start' /\ DB_Current' /\ ~crashed'
  BY <1>1, DB_Started, Zenon DEF DB_Current
<1>8. StayStopped
  BY Zenon DEF StayStopped, stopped, Untouched
<1> QED BY <1>2, <1>3, <1>6, <1>7, <1>8, Zenon DEF DB_Inv

\* A command goes on with frame f
LEMMA DB_GoesOn ==
    ASSUME DB_Inv, stack # <<>>, NEW f, Alike(f, top), setTop(f), Shape(f), Founded(f), Acting(f),
           heldEvent = IF f.pc \in {"act", "resume"} /\ ~f.was THEN f.de ELSE NoEvent,
           Untouched, killed' \in BOOLEAN, dr' \in [Tids -> BOOLEAN],
           UNCHANGED <<stops, threadlist, td, debugEventQueue, debuggedThreadEvent, reported, crashed, callVars>>
    PROVE  DB_Inv' /\ StayStopped
<1>1. DB_Types /\ DB_Start /\ DB_Stack
  BY Zenon DEF DB_Inv
<1>2. threadlist # <<>>
  BY <1>1, DB_Target, Zenon
<1>3. Founded(f)' /\ Acting(f)'
  BY Zenon DEF Founded, Acting, NoVirtual
<1>4. Steady /\ Calling
  BY <1>1, Zenon DEF Steady, Calling, DB_Types, NoVirtual, callVars
<1>5. f \in Frames /\ f.op = top.op /\ f.from = top.from /\ stack' = <<f>> \o Tail(stack) /\ call' = call
  BY Zenon DEF Alike, setTop, callVars
<1>6. stack' \in Seq(Frames) /\ DB_Stack' /\ heldEvent' = heldEvent
  BY <1>1, <1>3, <1>4, <1>5, DB_Replaced, Zenon
<1> QED BY <1>2, <1>4, <1>6, DB_Silent, Zenon

\* waitpid() tells of thread t
LEMMA DB_Collect ==
    ASSUME DB_Inv, Setting, NEW t \in Tids, NEW k, Signalled(k, kt, t), collect(t, k),
           stack # <<>>, top.pc \in {"entry", "wait", "check", "block"},
           top.op \notin {"ResumeThread", "ContinueFromDebugEvent"},
           top.op \in ThreadCommands \cup SuspendCommands => t = aim(top),
           UNCHANGED <<killed, stops, threadlist, debugEventQueue, dr, crashed>>
    PROVE  DB_Inv' /\ StayStopped
<1>1. DB_Types /\ Core
  BY Zenon DEF DB_Inv
<1>2. DB_Held(t) /\ kt[t].new /\ kt[t].st = "stop" /\ ~Taken(t)
  BY Zenon, <1>1 DEF Core, DB_Held, collect, Signalled, Taken
<1>3. GetStopSignalFromThread(t) = kt[t].sig
  BY <1>2, Zenon DEF GetStopSignalFromThread, stopped
<1>4. gotEvent(ev(t, kt[t].sig), setPaused(t, TRUE, td))
  BY Zenon, <1>3 DEF collect
<1>5. Told(kt', k, t)
  BY Zenon, DB_KernelUpdate DEF collect, Signalled
<1>6. /\ kt' \in [Tids -> Kernels]
      /\ kt'[t].st = "stop" /\ ~kt'[t].new /\ kt'[t].sig = kt[t].sig
      /\ \A x \in Tids \ {t} : kt'[x] = kt[x]
  BY <1>2, <1>5, Zenon DEF Told, Signalled, Rest
<1>7. ~Has(debugEventQueue', t) /\ ~isCurrent(t) /\ ~isSuspended(t)
  BY Zenon, <1>2 DEF DB_Held, inQueue
<1>8. Within /\ Once(debugEventQueue') /\ debugEventQueue' \in Seq(Event) /\ killed' \in BOOLEAN
  BY <1>1, Zenon DEF Within, Core, DB_Queue, DB_Types
<1>9. (NoVirtual => NoVirtual') /\ \A x \in Tids : Has(debugEventQueue', x) <=> Has(debugEventQueue, x)
  BY Zenon DEF NoVirtual
<1> QED BY Zenon, <1>4, <1>6, <1>7, <1>8, <1>9, DB_Got

\* A command sends SIGSTOP to the running thread t and begins to wait for it
LEMMA DB_TkillAndWait ==
    ASSUME DB_Inv, Setting, NEW t \in Tids, tkillAndWait(t), ~td[t].isPaused,
           stack # <<>>, top.pc \in {"entry", "wait"}, t = aim(top),
           top.op \in ThreadCommands \cup {"SuspendThread"},
           UNCHANGED <<killed, stops, threadlist, debugEventQueue, dr, crashed>>
    PROVE  DB_Inv' /\ StayStopped
<1>1. DB_Types /\ DB_Start /\ DB_Stack /\ Core
  BY Zenon DEF DB_Inv
<1>2. kt \in [Tids -> Kernels] /\ top \in Frames
  BY <1>1, DB_Target, Zenon DEF DB_Types
<1>3. Signalled(tkill(t, kt), kt, t)
  BY Zenon, <1>2, DB_KernelUpdate
<1>4. top.op \notin {"ResumeThread", "ContinueFromDebugEvent"}
  BY Zenon DEF ThreadCommands
<1>5. CASE collect(t, tkill(t, kt))
  BY <1>3, <1>4, <1>5, DB_Collect, Zenon
<1>6. CASE /\ kt' = tkill(t, kt) /\ setTop([top EXCEPT !.pc = "wait"])
           /\ UNCHANGED <<td, debuggedThreadEvent, reported, callVars>>
  <2>1. PICK f : f = [top EXCEPT !.pc = "wait"]
    BY Zenon
  <2>2. Reaches(f, top, "wait")
    BY Zenon, <1>2, <2>1, DB_FrameUpdate
  <2>3. DB_Held(t) /\ ~Taken(t)
    BY <1>1, Zenon DEF Core, DB_Held
  <2>4. ~real(debuggedThreadEvent, t) /\ td[t].suspendCount = 0
    BY <1>1, <2>3, SMTT(30) DEF DB_Held, isCurrent, isSuspended, DB_Types, Threads
  <2>5. aim(f) = t /\ f.op = top.op /\ f.tid = top.tid /\ f.pc = "wait" /\ ~f.was
    BY <1>1, <2>2, Zenon DEF Reaches, Alike, aim, DB_Stack, Shape
  <2>6. Shape(top) /\ Founded(top)
    BY <1>1, Zenon DEF DB_Stack
  <2>7. Shape(f)
    BY <2>5, <2>6, Zenon DEF Shape, ThreadCommands, MemoryCommands, SuspendCommands
  <2>8. Founded(f)
    BY <2>4, <2>5, <2>6, Zenon DEF Founded, ThreadCommands, EventCommands
  <2>9. Acting(f)
    BY <2>5, Zenon DEF Acting
  <2>10. heldEvent = IF f.pc \in {"act", "resume"} /\ ~f.was THEN f.de ELSE NoEvent
    BY <2>5, Zenon DEF heldEvent
  <2>11. Untouched
    BY <1>3, <1>6, Zenon DEF Untouched, Signalled, Rest
  <2>12. Alike(f, top) /\ setTop(f) /\ killed' \in BOOLEAN /\ dr' \in [Tids -> BOOLEAN]
    BY <1>1, <1>6, <2>1, <2>2, Zenon DEF Reaches, DB_Types
  <2> QED BY <1>6, <2>7, <2>8, <2>9, <2>10, <2>11, <2>12, DB_GoesOn, ZenonT(40)
<1> QED BY <1>5, <1>6, Zenon DEF tkillAndWait

\* A command lets go the thread it has stopped, or leaves its event to WaitForDebugEvent
LEMMA DB_LetGo ==
    ASSUME DB_Inv, Setting, NEW t \in Tids, stack # <<>>, top.pc = "resume", ~top.was,
           top.op \in ThreadCommands \cup MemoryCommands, top.de.threadid = t,
           letGo(top.de, t, t), finished
    PROVE  DB_Inv' /\ StayStopped
<1>1. /\ DB_Types /\ DB_Start /\ DB_Stack /\ DB_Calls /\ DB_Current /\ Core /\ ~crashed
  BY Zenon DEF DB_Inv
<1>2. threadlist # <<>> /\ inList(t) /\ top \in Frames
  BY <1>1, DB_Target, Zenon
<1>3. heldEvent = top.de /\ inFrame(t)
  BY Zenon DEF heldEvent, inFrame
<1>4. DB_Held(t) /\ Taken(t) /\ ~inQueue(t) /\ ~isCurrent(t) /\ ~isSuspended(t) /\ top.de = ev(t, kt[t].sig)
  BY Zenon, <1>1, <1>3 DEF Core, DB_Held, DB_Signal
<1>5. kt[t].sig \in Signals /\ kt[t].st = "stop" /\ kt \in [Tids -> Kernels] /\ td \in [Tids -> Threads]
  BY <1>1, <1>4, Zenon DEF DB_Types, Kernels, Taken
<1>6. PICK e \in Event : e = top.de
  BY <1>2, Zenon DEF Frames
<1>7. e.threadid = t /\ e.debugevent = kt[t].sig /\ e.debugevent \notin Virtual /\ t # NoTid
  BY <1>4, <1>5, <1>6, DB_Events, DB_Tids
<1>8. NoVirtual
  BY Zenon, <1>1 DEF DB_Stack, Founded, EventCommands, ThreadCommands, MemoryCommands
<1>9. NoEvent.threadid = NoTid /\ \A x \in Tids \ {t} : heldEvent.threadid # x
  BY <1>3, <1>6, <1>7, DB_Events, Zenon
<1>10. nextThread /\ UNCHANGED <<killed, stops, threadlist, debuggedThreadEvent, dr, reported, crashed>>
  BY Zenon DEF finished
<1>11. DB_Start' /\ DB_Current' /\ ~crashed'
  BY <1>1, <1>2, <1>10, DB_Started, Zenon DEF DB_Current
<1>12. ASSUME td' \in [Tids -> Threads], \A x \in Tids : td'[x].suspendCount = td[x].suspendCount,
              kt' \in [Tids -> Kernels], debugEventQueue' \in Seq(Event), NoVirtual',
              heldEvent' = NoEvent => Core'
       PROVE  DB_Inv'
  <2>1. Steady
    BY <1>10, <1>12, Zenon DEF Steady
  <2>2. stack' \in Seq(Frames) /\ DB_Stack' /\ heldEvent' = NoEvent /\ Calling
    BY <1>1, <1>10, <1>12, <2>1, DB_Next, Zenon
  <2>3. DB_Types'
    BY <1>1, <1>10, <1>12, <2>2, Zenon DEF DB_Types, Calling
  <2>4. DB_Calls'
    BY <1>1, <1>12, <2>2, DB_Undisturbed, Zenon
  <2> QED BY <1>11, <1>12, <2>2, <2>3, <2>4, Zenon DEF DB_Inv
<1>13. CASE /\ ~bySigstop(e) /\ debugEventQueue' = AddDebugEventToQueue(e)
            /\ td' = setPaused(t, TRUE, td) /\ UNCHANGED kt
  <2>1. Flagged(td', td, t, TRUE)
    BY Zenon, <1>2, <1>5, <1>13, DB_ThreadUpdate DEF setPaused
  <2>2. /\ td' \in [Tids -> Threads] /\ \A x \in Tids : td'[x].suspendCount = td[x].suspendCount
        /\ td'[t].isPaused /\ \A x \in Tids \ {t} : td'[x] = td[x]
    BY <2>1, Zenon DEF Flagged, Rest
  <2>3. debugEventQueue \in Seq(Event) /\ Once(debugEventQueue) /\ ~Has(debugEventQueue, e.threadid)
    BY Zenon, <1>1, <1>4, <1>7 DEF DB_Types, Core, DB_Queue, inQueue
  <2>4. /\ debugEventQueue' \in Seq(Event) /\ Once(debugEventQueue') /\ Plain(debugEventQueue')
        /\ \A x : Has(debugEventQueue', x) <=> Has(debugEventQueue, x) \/ real(e, x)
        /\ \A k \in 1 .. Len(debugEventQueue') :
              \/ debugEventQueue'[k] = e
              \/ \E l \in 1 .. Len(debugEventQueue) : debugEventQueue'[k] = debugEventQueue[l]
    BY Zenon, <1>7, <1>8, <1>13, <2>3, DB_Added DEF AddDebugEventToQueue, NoVirtual
  <2>5. Within
    <3>1. Right(e, kt')
      BY Zenon, <1>4, <1>6, <1>7, <1>13 DEF Right
    <3> QED BY <2>4, <3>1, Zenon DEF Within
  <2>6. ASSUME heldEvent' = NoEvent PROVE Core'
    <3>1. \A x \in Tids \ {t} : Same(x)
      BY ZenonT(40), <1>7, <1>9, <1>10, <1>13, <2>2, <2>4, <2>6, DB_Tids DEF Same, real
    <3>2. DB_Held(t)' /\ DB_Signal(t)'
      <4>1. ~inFrame(t)' /\ inQueue(t)' /\ ~isCurrent(t)' /\ ~isSuspended(t)'
        BY ZenonT(40), <1>4, <1>7, <1>9, <1>10, <2>2, <2>4, <2>6 DEF inFrame, inQueue, isCurrent, isSuspended, real
      <4> QED BY Zenon, <1>4, <1>13, <2>2, <4>1 DEF DB_Held, DB_Signal, Taken
    <3> QED BY ZenonT(40), <1>1, <1>13, <2>4, <2>5, <3>1, <3>2, DB_Moved
  <2>7. DB_Inv'
    BY Zenon, <1>5, <1>12, <1>13, <2>2, <2>4, <2>6 DEF NoVirtual
  <2>8. StayStopped
    BY <1>13, Zenon DEF StayStopped, stopped
  <2> QED BY <2>7, <2>8, Zenon
<1>14. CASE /\ bySigstop(e) /\ kt' = ptraceCont(t, kt)
            /\ td' = setPaused(t, FALSE, td) /\ UNCHANGED debugEventQueue
  <2>1. Flagged(td', td, t, FALSE) /\ GoesOn(kt', kt, t)
    BY Zenon, <1>2, <1>5, <1>14, DB_ThreadUpdate, DB_KernelUpdate DEF setPaused
  <2>2. /\ td' \in [Tids -> Threads] /\ \A x \in Tids : td'[x].suspendCount = td[x].suspendCount
        /\ ~td'[t].isPaused /\ \A x \in Tids \ {t} : td'[x] = td[x]
    BY <2>1, Zenon DEF Flagged, Rest
  <2>3. /\ kt' \in [Tids -> Kernels] /\ kt'[t].st = "run" /\ ~kt'[t].new
        /\ \A x \in Tids \ {t} : kt'[x] = kt[x]
    BY <2>1, Zenon DEF GoesOn, Rest
  <2>4. debugEventQueue' \in Seq(Event) /\ Once(debugEventQueue') /\ NoVirtual' /\ ~Has(debugEventQueue', t)
    BY <1>1, <1>4, <1>8, <1>14, Zenon DEF DB_Types, Core, DB_Queue, inQueue, NoVirtual
  <2>5. kt'[t].sig = kt[t].sig
    BY <1>5, <1>14, Zenon DEF ptraceCont, Kernels
  <2>6. ASSUME heldEvent' = NoEvent PROVE Core'
    <3>1. \A x \in Tids \ {t} : Same(x)
      BY ZenonT(40), <1>9, <1>10, <1>14, <2>2, <2>3, <2>6, DB_Tids DEF Same
    <3>2. DB_Held(t)' /\ DB_Signal(t)'
      <4>1. ~inFrame(t)' /\ ~inQueue(t)' /\ ~isCurrent(t)' /\ ~isSuspended(t)'
        BY ZenonT(40), <1>4, <1>7, <1>9, <1>10, <2>2, <2>4, <2>6 DEF inFrame, inQueue, isCurrent, isSuspended
      <4> QED BY Zenon, <2>2, <2>3, <4>1 DEF DB_Held, DB_Signal, Taken
    <3>3. Within
      BY <1>14, Zenon DEF Within
    <3> QED BY ZenonT(40), <1>1, <2>4, <2>5, <3>1, <3>2, <3>3, DB_Moved
  <2>7. DB_Inv'
    BY <1>12, <2>2, <2>3, <2>4, <2>6, Zenon
  <2>8. kt[t].sig = "SIGSTOP"
    BY <1>7, <1>14, Zenon DEF bySigstop
  <2>9. StayStopped
    BY <2>3, <2>8, Zenon DEF StayStopped, stopped
  <2> QED BY <2>7, <2>9, Zenon
<1> QED BY Zenon, <1>6, <1>13, <1>14 DEF letGo

\* A command that found the thread stopped leaves it so
LEMMA DB_WasPaused ==
    ASSUME DB_Inv, stack # <<>>, top.pc = "resume", wasPaused, finished,
           top.op \in ThreadCommands \cup MemoryCommands
    PROVE  DB_Inv' /\ StayStopped
<1>1. DB_Types /\ DB_Start /\ DB_Stack
  BY Zenon DEF DB_Inv
<1>2. /\ nextThread /\ top.was
      /\ UNCHANGED <<kt, td, debugEventQueue, killed, stops, threadlist, debuggedThreadEvent, dr,
                     reported, crashed>>
  BY Zenon DEF finished, wasPaused
<1>3. NoVirtual /\ NoVirtual'
  BY Zenon, <1>1, <1>2 DEF DB_Stack, Founded, EventCommands, ThreadCommands, MemoryCommands, NoVirtual
<1>4. Steady
  BY <1>2, <1>3, Zenon DEF Steady
<1>5. stack' \in Seq(Frames) /\ DB_Stack' /\ heldEvent' = NoEvent /\ Calling
  BY <1>1, <1>2, <1>3, <1>4, DB_Next, Zenon
<1>6. heldEvent = NoEvent /\ threadlist # <<>>
  BY <1>1, <1>2, DB_Target, Zenon DEF heldEvent
<1>7. Untouched /\ killed' \in BOOLEAN /\ dr' \in [Tids -> BOOLEAN]
  BY <1>1, <1>2, Zenon DEF Untouched, DB_Types
<1> QED BY <1>2, <1>5, <1>6, <1>7, DB_Silent, Zenon

-----------------------------------------------------------------------------
\* The place of a thread's event in the queue, once the create events are handled
LEMMA DB_QueuedAt ==
    ASSUME Core, DB_Types, NoVirtual, NEW t \in Tids
    PROVE  /\ inQueue(t) => queuedAt(t) # {}
           /\ \A j \in queuedAt(t) : j \in 1 .. Len(debugEventQueue) /\ debugEventQueue[j].threadid = t
<1> DEFINE q == debugEventQueue
<1>0. t # AllThreads /\ Len(q) \in Nat
  BY DB_Tids DEF DB_Types
<1>1. ASSUME inQueue(t) PROVE queuedAt(t) # {}
  <2>1. PICK k \in 1 .. Len(q) : real(q[k], t)
    BY <1>1, Zenon DEF inQueue, Has
  <2>2. ASSUME NEW j \in 1 .. k - 1 PROVE q[j].threadid # t
    <3>1. j \in 1 .. Len(q) /\ j # k
      BY <1>0
    <3>2. ~real(q[j], t)
      BY <2>1, <3>1, Zenon DEF Core, DB_Queue, Once
    <3> QED BY <3>1, <3>2, Zenon DEF real, NoVirtual, Plain
  <2>3. k \in queuedAt(t)
    BY <1>0, <2>1, <2>2, Zenon DEF queuedAt, real
  <2> QED BY <2>3, Zenon
<1>2. \A j \in queuedAt(t) : j \in 1 .. Len(q) /\ q[j].threadid = t
  BY <1>0, Zenon DEF queuedAt
<1> QED BY <1>1, <1>2, Zenon

\* An event is taken out of the queue
LEMMA DB_TakeOut ==
    ASSUME Core, DB_Types, NEW j \in 1 .. Len(debugEventQueue),
           Lacks(debugEventQueue', debugEventQueue, j)
    PROVE  /\ debugEventQueue' \in Seq(Event) /\ Within /\ Once(debugEventQueue')
           /\ \A x \in Tids :
                 Has(debugEventQueue', x) <=> Has(debugEventQueue, x) /\ ~real(debugEventQueue[j], x)
           /\ NoVirtual => NoVirtual'
<1>1. PICK w : w = debugEventQueue'
  BY Zenon
<1>2. debugEventQueue \in Seq(Event) /\ Once(debugEventQueue) /\ Lacks(w, debugEventQueue, j)
  BY <1>1, Zenon DEF DB_Types, Core, DB_Queue
<1>3. /\ \A k \in 1 .. Len(w) : \E l \in 1 .. Len(debugEventQueue) : w[k] = debugEventQueue[l]
      /\ Once(w) /\ \A t \in Tids : Has(w, t) <=> Has(debugEventQueue, t) /\ ~real(debugEventQueue[j], t)
      /\ Plain(debugEventQueue) => Plain(w)
  BY <1>2, DB_Removed
<1>4. w \in Seq(Event)
  BY <1>2, Zenon DEF Lacks
<1> QED BY <1>1, <1>3, <1>4, Zenon DEF Within, NoVirtual

\* A real event of the queue is the one of a stopped thread that nobody else has
LEMMA DB_Queued ==
    ASSUME Core, NEW j \in 1 .. Len(debugEventQueue), debugEventQueue[j].debugevent \notin Virtual,
           NEW t, t = debugEventQueue[j].threadid
    PROVE  /\ t \in Tids /\ real(debugEventQueue[j], t) /\ Taken(t)
           /\ ~isCurrent(t) /\ ~isSuspended(t) /\ td[t].isPaused
           /\ debugEventQueue[j] = ev(t, kt[t].sig)
<1>1. Right(debugEventQueue[j], kt) /\ real(debugEventQueue[j], t)
  BY Zenon DEF Core, DB_Queue, real
<1>2. t \in Tids /\ inQueue(t)
  BY <1>1, Zenon DEF Right, inQueue, Has
<1> QED BY Zenon, <1>1, <1>2 DEF Core, DB_Held, Right

-----------------------------------------------------------------------------
\* A command uses thread w, the thread it is about being paused
LEMMA DB_WhenPaused ==
    ASSUME DB_Inv, Setting, at("entry"), NEW w \in Tids \cup {NoTid}, whenPaused(w),
           top.op \in ThreadCommands,
           top.op # "RemoveBreakpoint" => w \in Tids /\ td[w].isPaused,
           UNCHANGED <<killed, stops, threadlist, debugEventQueue, dr>>
    PROVE  DB_Inv' /\ StayStopped
<1>1. DB_Types /\ DB_Start /\ DB_Stack /\ stack # <<>> /\ top.pc = "entry"
  BY Zenon DEF DB_Inv, at
<1>2. top \in Frames /\ Shape(top) /\ Founded(top)
  BY Zenon, <1>1, DB_Target DEF DB_Stack
<1>3. PICK f : f = [top EXCEPT !.pc = "act", !.was = TRUE, !.wtid = w]
  BY Zenon
<1>4. Uses(f, top, w)
  BY Zenon, <1>2, <1>3, DB_FrameUpdate
<1>5. f.op = top.op /\ f.tid = top.tid /\ f.pc = "act" /\ f.was /\ f.wtid = w /\ Alike(f, top)
  BY Zenon, <1>4 DEF Uses, Alike
<1>6. Shape(f)
  BY <1>2, <1>5, Zenon DEF Shape, ThreadCommands, MemoryCommands, SuspendCommands
<1>7. Founded(f)
  BY Zenon, <1>2, <1>5 DEF Founded, ThreadCommands, EventCommands
<1>8. Acting(f)
  BY <1>5, Zenon DEF Acting
<1>9. heldEvent = IF f.pc \in {"act", "resume"} /\ ~f.was THEN f.de ELSE NoEvent
  BY <1>1, <1>5, Zenon DEF heldEvent
<1>10. setTop(f) /\ UNCHANGED <<kt, td, debuggedThreadEvent, reported, callVars, crashed>>
  BY <1>3, Zenon DEF whenPaused
<1>11. Untouched /\ killed' \in BOOLEAN /\ dr' \in [Tids -> BOOLEAN]
  BY <1>1, <1>10, Zenon DEF Untouched, DB_Types
<1> QED BY ZenonT(40), <1>1, <1>5, <1>6, <1>7, <1>8, <1>9, <1>10, <1>11, DB_GoesOn

\* A command stops the running thread it is about
LEMMA DB_WhenRunning ==
    ASSUME DB_Inv, Setting, at("entry"), whenRunning, top.op \in ThreadCommands,
           UNCHANGED <<killed, stops, threadlist, debugEventQueue, dr>>
    PROVE  DB_Inv' /\ StayStopped
<1>1. DB_Types /\ DB_Start /\ DB_Stack /\ stack # <<>> /\ top.pc = "entry"
  BY Zenon DEF DB_Inv, at
<1>2. target = aim(top) /\ aim(top) \in Tids
  BY <1>1, DB_Target, Zenon
<1>3. PICK t \in Tids : t = target
  BY <1>2, Zenon
<1>4. tkillAndWait(t) /\ ~td[t].isPaused /\ crashed' = crashed
  BY <1>3, Zenon DEF whenRunning
<1> QED BY <1>1, <1>2, <1>3, <1>4, DB_TkillAndWait, Zenon

\* A command that has a stopped thread uses it
LEMMA DB_Uses ==
    ASSUME DB_Inv, Setting, at("act"), top.op \in ThreadCommands \cup MemoryCommands,
           NEW b \in BOOLEAN, top.op = "GetThreadContext" /\ ~top.was => b,
           setTop([top EXCEPT !.pc = "resume", !.ok = b]), dr' \in [Tids -> BOOLEAN],
           UNCHANGED <<kernelVars, threadlist, td, debugEventQueue, debuggedThreadEvent,
                       reported, callVars, crashed>>
    PROVE  DB_Inv' /\ StayStopped
<1>1. DB_Types /\ DB_Start /\ DB_Stack /\ stack # <<>> /\ top.pc = "act"
  BY Zenon DEF DB_Inv, at
<1>2. top \in Frames /\ Shape(top) /\ Founded(top) /\ Acting(top)
  BY <1>1, DB_Target, Zenon DEF DB_Stack
<1>3. PICK f : f = [top EXCEPT !.pc = "resume", !.ok = b]
  BY Zenon
<1>4. Ends(f, top, b)
  BY Zenon, <1>2, <1>3, DB_FrameUpdate
<1>5. /\ f.op = top.op /\ f.tid = top.tid /\ f.pc = "resume" /\ f.was = top.was /\ f.wtid = top.wtid
      /\ f.de = top.de /\ f.ok = b /\ Alike(f, top) /\ aim(f) = aim(top)
  BY <1>4, Zenon DEF Ends, Alike, aim
<1>6. Shape(f)
  BY <1>2, <1>5, Zenon DEF Shape, ThreadCommands, MemoryCommands, SuspendCommands
<1>7. Founded(f)
  BY <1>2, <1>5, Zenon DEF Founded, ThreadCommands, MemoryCommands, EventCommands
<1>8. Acting(f)
  BY <1>1, <1>2, <1>5, Zenon DEF Acting
<1>9. heldEvent = IF f.pc \in {"act", "resume"} /\ ~f.was THEN f.de ELSE NoEvent
  BY <1>1, <1>5, Zenon DEF heldEvent
<1>10. setTop(f) /\ UNCHANGED <<kt, killed, stops>>
  BY <1>3, Zenon DEF kernelVars
<1>11. Untouched /\ killed' \in BOOLEAN
  BY <1>1, <1>10, Zenon DEF Untouched, DB_Types
<1> QED BY <1>1, <1>5, <1>6, <1>7, <1>8, <1>9, <1>10, <1>11, DB_GoesOn, ZenonT(40)

\* SetBreakpoint, RemoveBreakpoint and GetThreadContext use the registers of the thread
LEMMA DB_Access ==
    ASSUME DB_Inv, Setting, SetBreakpoint_Poke \/ RemoveBreakpoint_Poke \/ GetThreadContext_Regs
    PROVE  DB_Inv' /\ StayStopped
<1>1. DB_Types /\ DB_Start /\ DB_Stack /\ Core /\ stack # <<>> /\ at("act") /\ top.pc = "act"
  BY Zenon DEF DB_Inv, at, SetBreakpoint_Poke, RemoveBreakpoint_Poke, GetThreadContext_Regs,
     access
<1>2. top.op \in ThreadCommands
  BY Zenon DEF SetBreakpoint_Poke, RemoveBreakpoint_Poke, GetThreadContext_Regs, access,
     ThreadCommands
<1>3. /\ setTop([top EXCEPT !.pc = "resume", !.ok = stopped(top.wtid)])
      /\ UNCHANGED <<kernelVars, threadlist, td, debugEventQueue, debuggedThreadEvent,
                     reported, callVars, crashed>>
  BY Zenon DEF SetBreakpoint_Poke, RemoveBreakpoint_Poke, GetThreadContext_Regs, access
<1>4. dr \in [Tids -> BOOLEAN]
  BY <1>1, Zenon DEF DB_Types
<1>5. dr' \in [Tids -> BOOLEAN]
  BY Zenon, <1>4 DEF SetBreakpoint_Poke, RemoveBreakpoint_Poke, GetThreadContext_Regs, access
<1>6. PICK b \in BOOLEAN : b = stopped(top.wtid)
  BY Zenon DEF stopped
<1>7. ASSUME ~top.was PROVE b
  <2>1. top.de.threadid \in Tids /\ top.wtid = top.de.threadid
    BY <1>1, <1>7, Zenon DEF DB_Stack, Acting
  <2>2. inFrame(top.wtid)
    BY <1>1, <1>7, <2>1, Zenon DEF inFrame, heldEvent
  <2> QED BY Zenon, <1>1, <1>6, <2>1, <2>2 DEF Core, DB_Held, Taken, stopped
<1> QED BY ZenonT(40), <1>1, <1>2, <1>3, <1>5, <1>6, <1>7, DB_Uses

\* The memory is read or written
LEMMA DB_Transfer ==
    ASSUME DB_Inv, Setting, ReadProcessMemoryDebug_Read \/ WriteProcessMemoryDebug_Poke
    PROVE  DB_Inv' /\ StayStopped
<1>1. PICK b \in BOOLEAN : transfer("ReadProcessMemory", b) \/ transfer("WriteProcessMemory", b)
  BY Zenon DEF ReadProcessMemoryDebug_Read, WriteProcessMemoryDebug_Poke, stopped
<1>2. /\ at("act") /\ top.op \in MemoryCommands /\ setTop([top EXCEPT !.pc = "resume", !.ok = b])
      /\ top.op # "GetThreadContext"
      /\ UNCHANGED <<kernelVars, threadlist, td, debugEventQueue, debuggedThreadEvent, dr,
                     reported, callVars, crashed>>
  BY <1>1, Zenon DEF transfer, MemoryCommands
<1>3. dr' \in [Tids -> BOOLEAN]
  BY <1>2, Zenon DEF DB_Inv, DB_Types
<1> QED BY Zenon, <1>2, <1>3, DB_Uses

\* What a command has read into its DebugEvent is what it gets from it
LEMMA DB_Read ==
    ASSUME DB_Inv, stack # <<>>, top.pc = "resume", ~top.was, NEW t, NEW e \in read(top.de, t)
    PROVE  e = top.de /\ top.de.threadid \in Tids /\ top.wtid = top.de.threadid
<1>1. top.de.threadid \in Tids /\ top.wtid = top.de.threadid
  BY Zenon DEF DB_Inv, DB_Stack, Acting
<1>2. top.de # Uninitialized
  BY <1>1, DB_Events, DB_Tids
<1> QED BY <1>1, <1>2 DEF read

\* The commands end
LEMMA DB_Resume ==
    ASSUME DB_Inv, Setting,
           \/ SetBreakpoint_Resume \/ RemoveBreakpoint_Resume \/ GetThreadContext_Resume
           \/ ReadProcessMemoryDebug_Resume \/ WriteProcessMemoryDebug_Resume
    PROVE  DB_Inv' /\ StayStopped
<1>1. DB_Types /\ DB_Start /\ DB_Stack /\ stack # <<>> /\ top.pc = "resume" /\ finished
  BY Zenon DEF DB_Inv, at, SetBreakpoint_Resume, RemoveBreakpoint_Resume,
     GetThreadContext_Resume, ReadProcessMemoryDebug_Resume, WriteProcessMemoryDebug_Resume
<1>2. top.op \in ThreadCommands \cup MemoryCommands
  BY Zenon DEF SetBreakpoint_Resume, RemoveBreakpoint_Resume, GetThreadContext_Resume,
     ReadProcessMemoryDebug_Resume, WriteProcessMemoryDebug_Resume, ThreadCommands,
     MemoryCommands
<1>3. CASE wasPaused
  BY <1>1, <1>2, <1>3, DB_WasPaused, Zenon
<1>4. ASSUME ~top.was PROVE Acting(top) /\ top.de.threadid \in Tids /\ top.wtid = top.de.threadid
  BY <1>1, <1>4, Zenon DEF DB_Stack, Acting
<1>5. ASSUME ~top.was, letGo(top.de, top.de.threadid, top.de.threadid) PROVE DB_Inv' /\ StayStopped
  <2>1. PICK t \in Tids : t = top.de.threadid
    BY <1>4, <1>5, Zenon
  <2> QED BY <1>1, <1>2, <1>5, <2>1, DB_LetGo, Zenon
<1>6. CASE SetBreakpoint_Resume /\ ~wasPaused
  <2>1. ~top.was /\ \E e \in read(top.de, target) : letGo(e, top.wtid, target)
    BY <1>6, Zenon DEF SetBreakpoint_Resume
  <2>2. top.op \in ThreadCommands
    BY <1>6, Zenon DEF SetBreakpoint_Resume, ThreadCommands
  <2>3. target = top.de.threadid
    BY <1>1, <1>4, <2>1, <2>2, DB_Target, Zenon DEF Acting
  <2>4. letGo(top.de, top.de.threadid, top.de.threadid)
    BY <1>1, <2>1, <2>3, DB_Read, Zenon
  <2> QED BY <1>5, <2>1, <2>4, Zenon
<1>7. CASE RemoveBreakpoint_Resume /\ ~wasPaused
  <2>1. ~top.was /\ \E e \in read(top.de, target) : letGo(e, top.wtid, target)
    BY <1>7, Zenon DEF RemoveBreakpoint_Resume
  <2>2. top.op \in ThreadCommands
    BY <1>7, Zenon DEF RemoveBreakpoint_Resume, ThreadCommands
  <2>3. target = top.de.threadid
    BY <1>1, <1>4, <2>1, <2>2, DB_Target, Zenon DEF Acting
  <2>4. letGo(top.de, top.de.threadid, top.de.threadid)
    BY <1>1, <2>1, <2>3, DB_Read, Zenon
  <2> QED BY <1>5, <2>1, <2>4, Zenon
<1>8. CASE GetThreadContext_Resume /\ ~wasPaused
  <2>1. /\ ~top.was
        /\ \E e \in read(top.de, target) : letGo(e, IF top.ok THEN e.threadid ELSE NoTid, target)
    BY <1>8, Zenon DEF GetThreadContext_Resume
  <2>2. top.op \in ThreadCommands /\ top.op = "GetThreadContext"
    BY <1>8, Zenon DEF GetThreadContext_Resume, ThreadCommands
  <2>3. target = top.de.threadid /\ top.ok
    BY <1>1, <1>4, <2>1, <2>2, DB_Target, Zenon DEF Acting
  <2>4. \E e \in read(top.de, target) : letGo(e, e.threadid, target)
    BY <2>1, <2>3, Zenon
  <2>5. letGo(top.de, top.de.threadid, top.de.threadid)
    BY <1>1, <2>1, <2>3, <2>4, DB_Read, Zenon
  <2> QED BY <1>5, <2>1, <2>5, Zenon
<1>9. CASE ReadProcessMemoryDebug_Resume /\ ~wasPaused
  BY <1>5, <1>9, Zenon DEF ReadProcessMemoryDebug_Resume
<1>10. CASE WriteProcessMemoryDebug_Resume /\ ~wasPaused
  <2>1. ~top.was /\ \E e \in read(top.de, NoTid) : letGo(e, e.threadid, e.threadid)
    BY <1>10, Zenon DEF WriteProcessMemoryDebug_Resume
  <2>2. letGo(top.de, top.de.threadid, top.de.threadid)
    BY <1>1, <2>1, DB_Read, Zenon
  <2> QED BY <1>5, <2>1, <2>2, Zenon
<1> QED BY <1>3, <1>6, <1>7, <1>8, <1>9, <1>10, ZenonT(40)

\* The wait for whichever thread stops first ends
LEMMA DB_InfiniteWait ==
    ASSUME DB_Inv, Setting, InfiniteWait \/ InfiniteWait_Fails
    PROVE  DB_Inv' /\ StayStopped
<1>1. DB_Types /\ DB_Start /\ DB_Stack /\ Core /\ stack # <<>> /\ top.pc = "block"
  BY Zenon DEF DB_Inv, at, InfiniteWait, InfiniteWait_Fails
<1>2. ~InfiniteWait_Fails
  BY <1>1, DB_Tids, Zenon DEF InfiniteWait_Fails, Core, DB_Held
<1>3. PICK t \in Tids : collect(t, kt)
  BY <1>2, Zenon DEF InfiniteWait
<1>4. UNCHANGED <<killed, stops, threadlist, debugEventQueue, dr, crashed>>
  BY <1>2, Zenon DEF InfiniteWait
<1>5. top.op \notin ThreadCommands \cup SuspendCommands \cup EventCommands
  BY <1>1, Zenon DEF DB_Stack, Shape, SuspendCommands, EventCommands
<1>6. top.op \notin {"ResumeThread", "ContinueFromDebugEvent"}
  BY <1>5, Zenon DEF SuspendCommands, EventCommands
<1>7. Signalled(kt, kt, t)
  BY <1>1, Zenon DEF Signalled, Rest, DB_Types
<1> QED BY <1>1, <1>3, <1>4, <1>5, <1>6, <1>7, DB_Collect, ZenonT(40)

-----------------------------------------------------------------------------
\* A command of the debugger connection returns
LEMMA DB_OwnReturn ==
    ASSUME DB_Inv, stack # <<>>, top.op \in SuspendCommands \cup EventCommands, return,
           crashed' = crashed, threadlist' = threadlist
    PROVE  /\ stack' \in Seq(Frames) /\ DB_Stack' /\ heldEvent' = NoEvent /\ Calling
           /\ heldEvent = NoEvent /\ DB_Start' /\ ~crashed'
<1>1. DB_Types /\ DB_Start /\ DB_Stack /\ ~crashed /\ stack \in Seq(Frames)
  BY Zenon DEF DB_Inv, DB_Types
<1>2. top.op \notin ThreadCommands \cup MemoryCommands
  BY Zenon DEF SuspendCommands, EventCommands, ThreadCommands, MemoryCommands
<1>3. Len(stack) # 2
  BY <1>1, <1>2, DB_Alone, Zenon
<1>4. stack' \in Seq(Frames) /\ DB_Stack' /\ heldEvent' = NoEvent /\ Calling
  BY <1>1, <1>3, DB_Return, Zenon
<1>5. heldEvent = NoEvent
  BY <1>1, Zenon DEF heldEvent, DB_Stack, Shape, SuspendCommands, EventCommands
<1>6. DB_Start'
  BY <1>1, DB_Target, DB_Started, Zenon
<1> QED BY <1>1, <1>4, <1>5, <1>6, Zenon

\* SuspendThread finds the thread paused: it is suspended already, or its event is queued
LEMMA DB_SuspendPaused ==
    ASSUME DB_Inv, Setting, SuspendPaused
    PROVE  DB_Inv' /\ StayStopped
<1>1. /\ DB_Types /\ DB_Start /\ DB_Stack /\ DB_Calls /\ DB_Current /\ Core /\ ~crashed
      /\ stack # <<>> /\ top.pc = "entry" /\ top.op = "SuspendThread" /\ td[top.tid].isPaused
  BY Zenon DEF DB_Inv, at, SuspendPaused
<1>2. top.tid \in Tids /\ Founded(top)
  BY <1>1, Zenon DEF DB_Stack, Shape, SuspendCommands
<1>3. PICK t \in Tids : t = top.tid
  BY <1>2, Zenon
<1>4. reported.threadid # t /\ NoVirtual
  BY <1>1, <1>2, <1>3, Zenon DEF Founded, EventCommands
<1>5. debuggedThreadEvent.threadid # t
  BY <1>1, <1>4, DB_Tids, Zenon DEF DB_Current
<1>6. heldEvent = NoEvent /\ NoEvent.threadid = NoTid /\ t # NoTid
  BY <1>1, DB_Events, DB_Tids, Zenon DEF heldEvent
<1>7. DB_Held(t) /\ DB_Signal(t) /\ Taken(t) /\ (inQueue(t) \/ isSuspended(t)) /\ ~isCurrent(t)
  BY Zenon, <1>1, <1>3, <1>5, <1>6 DEF Core, DB_Held, inFrame, isCurrent, real
<1>8. td[t].suspendCount = 0 => ~isSuspended(t)
  BY DEF isSuspended
<1>9. kt' = kt /\ UNCHANGED <<killed, stops, threadlist, debuggedThreadEvent, dr, reported>>
  BY Zenon DEF SuspendPaused, kernelVars
<1>10. StayStopped
  BY <1>9, Zenon DEF StayStopped, stopped
<1>11. ASSUME return, crashed' = crashed, td' \in [Tids -> Threads], debugEventQueue' \in Seq(Event),
              NoVirtual', heldEvent' = NoEvent => Core'
       PROVE  DB_Inv'
  <2>1. top.op \in SuspendCommands \cup EventCommands
    BY <1>1, Zenon DEF SuspendCommands
  <2>2. /\ stack' \in Seq(Frames) /\ DB_Stack' /\ heldEvent' = NoEvent /\ Calling
        /\ DB_Start' /\ ~crashed'
    BY <1>1, <1>9, <1>11, <2>1, DB_OwnReturn, ZenonT(40)
  <2>3. DB_Types'
    BY <1>1, <1>9, <1>11, <2>2, ZenonT(40) DEF DB_Types, Calling
  <2>4. DB_Current' /\ DB_Calls'
    BY <1>1, <1>9, <1>11, <2>2, DB_Undisturbed, ZenonT(40) DEF DB_Current
  <2> QED BY <1>11, <2>2, <2>3, <2>4, Zenon DEF DB_Inv
<1>12. CASE /\ td[t].suspendCount > 0 /\ td' = [td EXCEPT ![t].suspendCount = @ + 1]
            /\ return /\ UNCHANGED <<debugEventQueue, crashed>>
  <2>1. Raised(td', td, t)
    BY Zenon, <1>1, <1>12, DB_ThreadUpdate DEF DB_Types
  <2>2. /\ td' \in [Tids -> Threads] /\ td'[t].isPaused = td[t].isPaused /\ td'[t].suspendCount > 0
        /\ td'[t].suspendedDevent = td[t].suspendedDevent /\ \A x \in Tids \ {t} : td'[x] = td[x]
    BY <2>1, Zenon DEF Raised, Rest
  <2>3. ASSUME heldEvent' = NoEvent PROVE Core'
    <3>1. \A x \in Tids \ {t} : Same(x)
      BY <1>6, <1>9, <1>12, <2>2, <2>3, ZenonT(40) DEF Same
    <3>2. /\ ~inFrame(t)' /\ ~isCurrent(t)' /\ isSuspended(t)' /\ (inQueue(t)' <=> inQueue(t))
          /\ isSuspended(t)
      BY <1>6, <1>7, <1>9, <1>12, <2>2, <2>3, ZenonT(40) DEF inFrame, inQueue, isCurrent,
         isSuspended
    <3>3. DB_Held(t)' /\ DB_Signal(t)'
      BY ZenonT(40), <1>7, <1>9, <2>2, <3>2 DEF DB_Held, DB_Signal, Taken
    <3>4. Within /\ Once(debugEventQueue')
      BY <1>1, <1>12, Zenon DEF Within, Core, DB_Queue
    <3> QED BY ZenonT(40), <1>1, <1>9, <3>1, <3>3, <3>4, DB_Moved
  <2>4. debugEventQueue' \in Seq(Event) /\ NoVirtual'
    BY <1>1, <1>4, <1>12, Zenon DEF DB_Types, NoVirtual
  <2>5. DB_Inv'
    BY <1>11, <1>12, <2>2, <2>3, <2>4, ZenonT(40)
  <2> QED BY <1>10, <2>5, Zenon
<1>13. CASE /\ td[t].suspendCount = 0
            /\ \E i \in queuedAt(t) :
                  /\ td' = [td EXCEPT ![t].suspendedDevent = debugEventQueue[i], ![t].suspendCount = @ + 1]
                  /\ debugEventQueue' = withoutIndex(debugEventQueue, i)
            /\ return /\ crashed' = crashed
  <2>1. PICK j \in queuedAt(t) :
              /\ td' = [td EXCEPT ![t].suspendedDevent = debugEventQueue[j], ![t].suspendCount = @ + 1]
              /\ debugEventQueue' = withoutIndex(debugEventQueue, j)
    BY ZenonT(40), <1>13
  <2>2. j \in 1 .. Len(debugEventQueue) /\ debugEventQueue[j].threadid = t
    BY <1>1, <1>4, DB_QueuedAt, ZenonT(40)
  <2>3. real(debugEventQueue[j], t) /\ debugEventQueue[j] = ev(t, kt[t].sig)
    BY Zenon, <1>1, <1>4, <2>2, DB_Queued DEF NoVirtual, Plain
  <2>4. debugEventQueue \in Seq(Event) /\ debugEventQueue[j] \in Event
    BY Zenon, <1>1, <2>2, DB_ElementOf DEF DB_Types
  <2>5. Kept(td', td, t, debugEventQueue[j])
    BY Zenon, <1>1, <2>1, <2>4, DB_ThreadUpdate DEF DB_Types
  <2>6. /\ td' \in [Tids -> Threads] /\ td'[t].isPaused = td[t].isPaused /\ td'[t].suspendCount > 0
        /\ td'[t].suspendedDevent = ev(t, kt[t].sig) /\ \A x \in Tids \ {t} : td'[x] = td[x]
    BY <2>3, <2>5, Zenon DEF Kept, Rest
  <2>7. Lacks(debugEventQueue', debugEventQueue, j)
    BY <2>1, <2>2, <2>4, DB_Taken, ZenonT(40)
  <2>8. /\ debugEventQueue' \in Seq(Event) /\ Within /\ Once(debugEventQueue')
        /\ \A x \in Tids :
              Has(debugEventQueue', x) <=> Has(debugEventQueue, x) /\ ~real(debugEventQueue[j], x)
        /\ NoVirtual => NoVirtual'
    BY Zenon, <1>1, <2>2, <2>7, DB_TakeOut
  <2>9. ASSUME heldEvent' = NoEvent PROVE Core'
    <3>1. \A x \in Tids \ {t} : Same(x)
      BY ZenonT(40), <1>6, <1>9, <2>3, <2>6, <2>8, <2>9 DEF Same, real
    <3>2. ~inFrame(t)' /\ ~isCurrent(t)' /\ isSuspended(t)' /\ ~inQueue(t)'
      BY ZenonT(40), <1>6, <1>7, <1>9, <2>3, <2>6, <2>8, <2>9 DEF inFrame, inQueue, isCurrent, isSuspended
    <3>3. DB_Held(t)' /\ DB_Signal(t)'
      BY ZenonT(40), <1>7, <1>9, <2>6, <3>2 DEF DB_Held, DB_Signal, Taken
    <3> QED BY ZenonT(40), <1>1, <1>9, <2>8, <3>1, <3>3, DB_Moved
  <2>10. DB_Inv'
    BY <1>4, <1>11, <1>13, <2>6, <2>8, <2>9, ZenonT(40)
  <2> QED BY <1>10, <2>10, ZenonT(40)
<1>14. td[t].suspendCount = 0 => queuedAt(t) # {}
  BY ZenonT(40), <1>1, <1>4, <1>7, <1>8, DB_QueuedAt
<1> QED BY <1>3, <1>5, <1>12, <1>13, <1>14, ZenonT(40) DEF SuspendPaused

\* SuspendThread stops the running thread
LEMMA DB_SuspendRunning ==
    ASSUME DB_Inv, Setting, SuspendRunning
    PROVE  DB_Inv' /\ StayStopped
<1>1. DB_Types /\ DB_Start /\ DB_Stack /\ stack # <<>> /\ top.pc = "entry" /\ top.op = "SuspendThread"
  BY Zenon DEF DB_Inv, at, SuspendRunning
<1>2. aim(top) = top.tid /\ top.tid \in Tids
  BY <1>1, DB_Target, Zenon DEF SuspendCommands
<1>3. PICK t \in Tids : t = top.tid
  BY <1>2, Zenon
<1>4. /\ tkillAndWait(t) /\ ~td[t].isPaused
      /\ UNCHANGED <<killed, stops, threadlist, debugEventQueue, dr, crashed>>
  BY <1>3, Zenon DEF SuspendRunning
<1> QED BY ZenonT(40), <1>1, <1>2, <1>3, <1>4, DB_TkillAndWait

\* ResumeThread: the thread stays suspended, goes on, or has its event put in the queue
LEMMA DB_ResumeThread ==
    ASSUME DB_Inv, Setting, ResumeThread
    PROVE  DB_Inv' /\ StayStopped
<1>1. /\ DB_Types /\ DB_Start /\ DB_Stack /\ DB_Calls /\ DB_Current /\ Core /\ ~crashed
      /\ stack # <<>> /\ top.pc = "entry" /\ top.op = "ResumeThread"
  BY Zenon DEF DB_Inv, at, ResumeThread
<1>2. top.tid \in Tids /\ Founded(top) /\ threadlist # <<>>
  BY <1>1, DB_Target, Zenon DEF DB_Stack, Shape, SuspendCommands
<1>3. PICK t \in Tids : t = top.tid
  BY <1>2, Zenon
<1>4. NoVirtual
  BY <1>1, <1>2, Zenon DEF Founded, EventCommands
<1>5. return /\ UNCHANGED <<killed, stops, threadlist, debuggedThreadEvent, dr, reported, crashed>>
  BY Zenon DEF ResumeThread
<1>6. /\ stack' \in Seq(Frames) /\ DB_Stack' /\ heldEvent' = NoEvent /\ Calling
      /\ heldEvent = NoEvent /\ DB_Start' /\ ~crashed'
  BY <1>1, <1>5, DB_OwnReturn, Zenon DEF SuspendCommands
<1>7. NoEvent.threadid = NoTid /\ t # NoTid
  BY DB_Events, DB_Tids, Zenon
<1>8. DB_Held(t) /\ DB_Signal(t) /\ kt \in [Tids -> Kernels] /\ td \in [Tids -> Threads]
  BY <1>1, Zenon DEF Core, DB_Types
<1>9. td[t].suspendCount \in Nat
  BY <1>8, Zenon DEF Threads
<1>10. ASSUME td' \in [Tids -> Threads], kt' \in [Tids -> Kernels], debugEventQueue' \in Seq(Event),
              NoVirtual', Core'
       PROVE  DB_Inv'
  <2>1. DB_Types'
    BY <1>1, <1>5, <1>6, <1>10, ZenonT(40) DEF DB_Types, Calling
  <2>2. DB_Current' /\ DB_Calls'
    BY <1>1, <1>5, <1>6, <1>10, DB_Undisturbed, ZenonT(40) DEF DB_Current
  <2> QED BY <1>6, <1>10, <2>1, <2>2, ZenonT(40) DEF DB_Inv
<1>11. CASE UNCHANGED <<kt, td, debugEventQueue>>
  <2>1. Untouched /\ killed' \in BOOLEAN /\ dr' \in [Tids -> BOOLEAN]
    BY <1>1, <1>5, <1>11, ZenonT(40) DEF Untouched, DB_Types
  <2> QED BY <1>2, <1>5, <1>6, <1>11, <2>1, DB_Silent, ZenonT(40)
<1>12. ASSUME td[t].suspendCount > 0
       PROVE  /\ Taken(t) /\ ~inQueue(t) /\ ~isCurrent(t) /\ isSuspended(t) /\ kt[t].st = "stop"
              /\ td[t].suspendedDevent = ev(t, kt[t].sig) /\ td[t].suspendedDevent \in Event
              /\ td[t].suspendedDevent.threadid = t /\ td[t].suspendedDevent.debugevent = kt[t].sig
              /\ kt[t].sig \in Signals
              /\ Lowered([td EXCEPT ![t].suspendCount = @ - 1], td, t)
  <2>1. isSuspended(t)
    BY <1>12, Zenon DEF isSuspended
  <2>2. kt[t].sig \in Signals
    BY <1>8, Zenon DEF Kernels
  <2>3. Lowered([td EXCEPT ![t].suspendCount = @ - 1], td, t)
    BY Zenon, <1>8, <1>12, DB_ThreadUpdate
  <2> QED BY <1>8, <2>1, <2>2, <2>3, DB_Events, SMTT(30) DEF DB_Held, DB_Signal, Taken
<1>13. CASE /\ td[t].suspendCount > 1 /\ td' = [td EXCEPT ![t].suspendCount = @ - 1]
            /\ UNCHANGED <<kt, debugEventQueue>>
  <2>1. Lowered(td', td, t) /\ td[t].suspendCount > 0
    BY <1>9, <1>12, <1>13
  <2>2. /\ td' \in [Tids -> Threads] /\ td'[t].isPaused = td[t].isPaused /\ td'[t].suspendCount > 0
        /\ td'[t].suspendedDevent = td[t].suspendedDevent /\ \A x \in Tids \ {t} : td'[x] = td[x]
    BY <1>9, <1>13, <2>1 DEF Lowered, Rest
  <2>3. \A x \in Tids \ {t} : Same(x)
    BY <1>5, <1>6, <1>13, <2>2, ZenonT(40) DEF Same
  <2>4. ~inFrame(t)' /\ ~isCurrent(t)' /\ isSuspended(t)' /\ ~inQueue(t)'
    BY <1>5, <1>6, <1>7, <1>12, <1>13, <2>1, <2>2, ZenonT(40) DEF inFrame, inQueue, isCurrent,
       isSuspended
  <2>5. DB_Held(t)' /\ DB_Signal(t)'
    BY <1>8, <1>12, <1>13, <2>1, <2>2, <2>4, ZenonT(40) DEF DB_Held, DB_Signal, Taken
  <2>6. Within /\ Once(debugEventQueue') /\ debugEventQueue' \in Seq(Event) /\ NoVirtual'
    BY <1>1, <1>4, <1>13, ZenonT(40) DEF Within, Core, DB_Queue, DB_Types, NoVirtual
  <2>7. Core'
    BY <1>1, <1>13, <2>3, <2>5, <2>6, DB_Moved, ZenonT(40)
  <2>8. DB_Inv'
    BY <1>8, <1>10, <1>13, <2>2, <2>6, <2>7, ZenonT(40)
  <2>9. StayStopped
    BY <1>13, Zenon DEF StayStopped, stopped
  <2> QED BY <2>8, <2>9, Zenon
<1>14. CASE /\ td[t].suspendCount = 1 /\ bySigstop(td[t].suspendedDevent)
            /\ kt' = ptraceCont(td[t].suspendedDevent.threadid, kt)
            /\ td' = [[td EXCEPT ![t].suspendCount = @ - 1] EXCEPT ![t].isPaused = FALSE]
            /\ UNCHANGED debugEventQueue
  <2>0. PICK d : d = [td EXCEPT ![t].suspendCount = @ - 1]
    BY Zenon
  <2>1. Lowered(d, td, t) /\ td[t].suspendCount > 0
    BY <1>9, <1>12, <1>14, <2>0, SMTT(30)
  <2>2. td' = [d EXCEPT ![t].isPaused = FALSE] /\ d \in [Tids -> Threads]
    BY <1>14, <2>0, <2>1, Zenon DEF Lowered
  <2>3. Flagged(td', d, t, FALSE)
    BY Zenon, <2>2, DB_ThreadUpdate
  <2>4. /\ td' \in [Tids -> Threads] /\ ~td'[t].isPaused /\ td'[t].suspendCount = 0
        /\ \A x \in Tids \ {t} : td'[x] = td[x]
    BY <1>9, <1>14, <2>1, <2>3, SMTT(30) DEF Lowered, Flagged, Rest
  <2>5. GoesOn(kt', kt, t) /\ kt'[t].sig = kt[t].sig
    <3>1. kt' = ptraceCont(t, kt) /\ kt[t].st = "stop"
      BY <1>12, <1>14, <2>1, Zenon
    <3>2. GoesOn(kt', kt, t)
      BY Zenon, <1>8, <3>1, DB_KernelUpdate
    <3> QED BY <1>8, <3>1, <3>2, ZenonT(40) DEF ptraceCont, Kernels
  <2>6. /\ kt' \in [Tids -> Kernels] /\ kt'[t].st = "run" /\ ~kt'[t].new
        /\ \A x \in Tids \ {t} : kt'[x] = kt[x]
    BY <2>5, Zenon DEF GoesOn, Rest
  <2>7. \A x \in Tids \ {t} : Same(x)
    BY <1>5, <1>6, <1>14, <2>4, <2>6, ZenonT(40) DEF Same
  <2>8. ~inFrame(t)' /\ ~isCurrent(t)' /\ ~isSuspended(t)' /\ ~inQueue(t)'
    BY <1>5, <1>6, <1>7, <1>12, <1>14, <2>1, <2>4, SMTT(30) DEF inFrame, inQueue, isCurrent,
       isSuspended
  <2>9. DB_Held(t)' /\ DB_Signal(t)'
    BY ZenonT(40), <2>4, <2>6, <2>8 DEF DB_Held, DB_Signal, Taken
  <2>10. Within /\ Once(debugEventQueue') /\ debugEventQueue' \in Seq(Event) /\ NoVirtual'
    BY <1>1, <1>4, <1>14, Zenon DEF Within, Core, DB_Queue, DB_Types, NoVirtual
  <2>11. Core'
    BY ZenonT(40), <1>1, <2>5, <2>7, <2>9, <2>10, DB_Moved
  <2>12. DB_Inv'
    BY <1>10, <2>4, <2>6, <2>10, <2>11, ZenonT(40)
  <2>13. kt[t].sig = "SIGSTOP"
    BY <1>12, <1>14, <2>1, Zenon DEF bySigstop
  <2>14. StayStopped
    BY <2>6, <2>13, Zenon DEF StayStopped, stopped
  <2> QED BY <2>12, <2>14, Zenon
<1>15. CASE /\ td[t].suspendCount = 1 /\ td' = [td EXCEPT ![t].suspendCount = @ - 1]
            /\ debugEventQueue' = AddDebugEventToQueue(td[t].suspendedDevent) /\ UNCHANGED kt
  <2>1. Lowered(td', td, t) /\ td[t].suspendCount > 0
    BY <1>9, <1>12, <1>15, SMTT(30)
  <2>2. /\ td' \in [Tids -> Threads] /\ td'[t].isPaused = td[t].isPaused /\ td'[t].suspendCount = 0
        /\ \A x \in Tids \ {t} : td'[x] = td[x]
    BY <1>9, <1>15, <2>1, SMTT(30) DEF Lowered, Rest
  <2>3. PICK e \in Event : e = td[t].suspendedDevent
    BY <1>12, <2>1, Zenon
  <2>4. e.threadid = t /\ e = ev(t, kt[t].sig) /\ e.debugevent \notin Virtual
    BY <1>12, <2>1, <2>3, DB_Events, ZenonT(40)
  <2>5. debugEventQueue \in Seq(Event) /\ Once(debugEventQueue) /\ ~Has(debugEventQueue, e.threadid)
    BY <1>1, <1>12, <2>1, <2>4, ZenonT(40) DEF DB_Types, Core, DB_Queue, inQueue
  <2>6. /\ debugEventQueue' \in Seq(Event) /\ Once(debugEventQueue') /\ Plain(debugEventQueue')
        /\ \A x : Has(debugEventQueue', x) <=> Has(debugEventQueue, x) \/ real(e, x)
        /\ \A k \in 1 .. Len(debugEventQueue') :
              \/ debugEventQueue'[k] = e
              \/ \E l \in 1 .. Len(debugEventQueue) : debugEventQueue'[k] = debugEventQueue[l]
    BY <1>4, <1>15, <2>3, <2>4, <2>5, DB_Added, SMTT(30) DEF AddDebugEventToQueue, NoVirtual
  <2>7. Within
    <3>1. Right(e, kt')
      BY <1>15, <2>4, Zenon DEF Right
    <3> QED BY <2>6, <3>1, Zenon DEF Within
  <2>8. \A x \in Tids \ {t} : Same(x)
    BY <1>5, <1>6, <1>15, <2>2, <2>4, <2>6, ZenonT(40) DEF Same, real
  <2>9. ~inFrame(t)' /\ ~isCurrent(t)' /\ ~isSuspended(t)' /\ inQueue(t)'
    BY <1>5, <1>6, <1>7, <1>12, <2>1, <2>2, <2>4, <2>6, SMTT(30) DEF inFrame, inQueue,
       isCurrent, isSuspended, real
  <2>10. DB_Held(t)' /\ DB_Signal(t)'
    BY <1>8, <1>12, <1>15, <2>1, <2>2, <2>9, ZenonT(40) DEF DB_Held, DB_Signal, Taken
  <2>11. Core'
    BY <1>1, <1>15, <2>6, <2>7, <2>8, <2>10, DB_Moved, ZenonT(40)
  <2>12. DB_Inv'
    BY <1>8, <1>10, <1>15, <2>2, <2>6, <2>11, ZenonT(40) DEF NoVirtual
  <2>13. StayStopped
    BY <1>15, Zenon DEF StayStopped, stopped
  <2> QED BY <2>12, <2>13, Zenon
<1> QED BY <1>3, <1>11, <1>13, <1>14, <1>15, ZenonT(40) DEF ResumeThread
=============================================================================
