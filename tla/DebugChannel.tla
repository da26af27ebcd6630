---------------------------- MODULE DebugChannel ----------------------------
(***************************************************************************)
(* How a debugger command reaches the one thread that may execute it.      *)
(*                                                                         *)
(* ptrace only works from the thread that attached, so an API function     *)
(* called on any other connection thread locks debugsocketmutex, writes    *)
(* the command to p->debuggerClient, posts sem_DebugThreadEvent and reads  *)
(* the answer (ceserver/api.c).  The debugger thread picks the command up  *)
(* in one of two places: the select() of its own connection loop           *)
(* (ceserver.c, newconnection), or the timed wait for a debug event that a *)
(* command it is already executing is in (WaitForDebugEventNative), which  *)
(* dispatches the forwarded command on top of the interrupted one.         *)
(*                                                                         *)
(* A command is identified by the client that sent it, an answer by the    *)
(* command it answers; what the commands do is the subject of Debugger.    *)
(***************************************************************************)
EXTENDS Naturals, Sequences

CONSTANTS
    Clients,    \* connection threads other than the debugger thread
    Own,        \* stands for the debugger thread's own connection
    NoClient,   \* nobody holds debugsocketmutex
    SemMax,     \* SEM_VALUE_MAX: sem_post fails beyond it, unnoticed
    Tracees,    \* threads of the debugged process
    MaxWaits    \* how often one command enters the timed wait (10 per thread)

ASSUME ChannelAssumption ==
    /\ Own \notin Clients
    /\ NoClient \notin Clients
    /\ SemMax \in Nat \ {0}
    /\ Tracees \in Nat
    /\ MaxWaits \in Nat

VARIABLES
    debugsocketmutex,   \* its holder
    pc,                 \* where each client is in the forwarding code
    got,                \* the answer each client last read
    debuggerServer,     \* commands readable at the debugger thread's end
    debuggerClient,     \* answers readable at the clients' end
    sem,                \* sem_DebugThreadEvent
    running,            \* tracee threads that can still stop and raise SIGCHLD
    own,                \* the debugger connection: command sent or not
    currentsocket,      \* the socket newconnection served last
    stack               \* DispatchCommand activations, innermost first

vars == <<debugsocketmutex, pc, got, debuggerServer, debuggerClient, sem,
          running, own, currentsocket, stack>>
clientVars == <<debugsocketmutex, pc, got>>
serverVars == <<running, own, currentsocket, stack>>

Frame == [from : Clients \cup {Own}, pc : {"run", "wait", "check"}, waits : Nat]

frame(x) == [from |-> x, pc |-> "run", waits |-> 0]

\* sem_post as if the semaphore had no largest value.
sem_post_unbounded == sem' = sem + 1

sem_post == sem' = IF sem < SemMax THEN sem + 1 ELSE sem

Init ==
    /\ debugsocketmutex = NoClient
    /\ pc = [c \in Clients |-> "idle"]
    /\ got = [c \in Clients |-> c]
    /\ debuggerServer = <<>>
    /\ debuggerClient = <<>>
    /\ sem = 0
    /\ running = Tracees
    /\ own = "idle"
    /\ currentsocket = "s"
    /\ stack = <<>>
-----------------------------------------------------------------------------
(* The forwarding client.                                                  *)

goto(c, from, to) ==
    /\ pc[c] = from
    /\ pc' = [pc EXCEPT ![c] = to]

\* The client's connection thread enters an API function and finds that it
\* is not p->debuggerThreadID.
Issue(c) ==
    /\ goto(c, "idle", "lock")
    /\ UNCHANGED <<debugsocketmutex, got, debuggerServer, debuggerClient, sem>>
    /\ UNCHANGED serverVars

\* The client does not wait for the mutex.
Lock_nowait(c) ==
    /\ goto(c, "lock", "send")
    /\ debugsocketmutex' = c
    /\ UNCHANGED <<got, debuggerServer, debuggerClient, sem>>
    /\ UNCHANGED serverVars

Lock(c) ==
    /\ goto(c, "lock", "send")
    /\ debugsocketmutex = NoClient
    /\ debugsocketmutex' = c
    /\ UNCHANGED <<got, debuggerServer, debuggerClient, sem>>
    /\ UNCHANGED serverVars

Send(c) ==
    /\ goto(c, "send", "wake")
    /\ debuggerServer' = Append(debuggerServer, c)
    /\ UNCHANGED <<debugsocketmutex, got, debuggerClient, sem>>
    /\ UNCHANGED serverVars

WakeDebuggerThread(c) ==
    /\ goto(c, "wake", "recv")
    /\ sem_post
    /\ UNCHANGED <<debugsocketmutex, got, debuggerServer, debuggerClient>>
    /\ UNCHANGED serverVars

Recv(c) ==
    /\ goto(c, "recv", "unlock")
    /\ debuggerClient # <<>>
    /\ got' = [got EXCEPT ![c] = Head(debuggerClient)]
    /\ debuggerClient' = Tail(debuggerClient)
    /\ UNCHANGED <<debugsocketmutex, debuggerServer, sem>>
    /\ UNCHANGED serverVars

Unlock(c) ==
    /\ goto(c, "unlock", "idle")
    /\ debugsocketmutex' = NoClient
    /\ UNCHANGED <<got, debuggerServer, debuggerClient, sem>>
    /\ UNCHANGED serverVars
-----------------------------------------------------------------------------
(* The world around: the tracee and the debugger connection's client.      *)

\* A tracee thread stops or dies; the SIGCHLD handler posts the semaphore.
mychildhandler ==
    /\ running > 0
    /\ running' = running - 1
    /\ sem_post
    /\ UNCHANGED clientVars
    /\ UNCHANGED <<debuggerServer, debuggerClient, own, currentsocket, stack>>

\* The debugger connection's client sends its next command, having had the
\* answer to the one before.
OwnSend ==
    /\ own = "idle"
    /\ own' = "sent"
    /\ UNCHANGED clientVars
    /\ UNCHANGED <<debuggerServer, debuggerClient, sem, running, currentsocket, stack>>
-----------------------------------------------------------------------------
(* The debugger thread.                                                    *)

top == Head(stack)
setTop(f) == stack' = <<f>> \o Tail(stack)

\* No alternation: the debugger's own connection goes first.
debugfdTurn_last == own # "sent"

\* When debugfd is readable it is served, unless s is readable too and
\* debugfd was served last.
debugfdTurn == own # "sent" \/ currentsocket = "s"

SelectOwn ==
    /\ stack = <<>>
    /\ own = "sent"
    /\ debuggerServer = <<>> \/ ~debugfdTurn
    /\ own' = "served"
    /\ currentsocket' = "s"
    /\ stack' = <<frame(Own)>>
    /\ UNCHANGED clientVars
    /\ UNCHANGED <<debuggerServer, debuggerClient, sem, running>>

SelectForwarded ==
    /\ stack = <<>>
    /\ debuggerServer # <<>>
    /\ debugfdTurn
    /\ currentsocket' = "debugfd"
    /\ stack' = <<frame(Head(debuggerServer))>>
    /\ debuggerServer' = Tail(debuggerServer)
    /\ UNCHANGED clientVars
    /\ UNCHANGED <<debuggerClient, sem, running, own>>

\* The command being executed has to wait for a debug event.
EnterWait ==
    /\ stack # <<>>
    /\ top.pc = "run" /\ top.waits < MaxWaits
    /\ setTop([top EXCEPT !.pc = "wait", !.waits = @ + 1])
    /\ UNCHANGED clientVars
    /\ UNCHANGED <<debuggerServer, debuggerClient, sem, running, own, currentsocket>>

\* sem_timedwait succeeds; CheckForAndDispatchCommand finds a forwarded
\* command and executes it on top of the waiting one.
DispatchInWait ==
    /\ stack # <<>>
    /\ top.pc = "wait" /\ sem > 0
    /\ debuggerServer # <<>>
    /\ sem' = sem - 1
    /\ stack' = <<frame(Head(debuggerServer)), [top EXCEPT !.pc = "check"]>> \o Tail(stack)
    /\ debuggerServer' = Tail(debuggerServer)
    /\ UNCHANGED clientVars
    /\ UNCHANGED <<debuggerClient, running, own, currentsocket>>

\* sem_timedwait succeeds and no forwarded command is there.
SemWake ==
    /\ stack # <<>>
    /\ top.pc = "wait" /\ sem > 0
    /\ debuggerServer = <<>>
    /\ sem' = sem - 1
    /\ setTop([top EXCEPT !.pc = "check"])
    /\ UNCHANGED clientVars
    /\ UNCHANGED <<debuggerServer, debuggerClient, running, own, currentsocket>>

\* The wait looks for an event, and either returns with it or goes on.
CheckEvents ==
    /\ stack # <<>>
    /\ top.pc = "check"
    /\ \E p \in {"run", "wait"} : setTop([top EXCEPT !.pc = p])
    /\ UNCHANGED clientVars
    /\ UNCHANGED <<debuggerServer, debuggerClient, sem, running, own, currentsocket>>

\* sem_timedwait fails with ETIMEDOUT: the semaphore is still 0.
Timeout ==
    /\ stack # <<>>
    /\ top.pc = "wait" /\ sem = 0
    /\ setTop([top EXCEPT !.pc = "run"])
    /\ UNCHANGED clientVars
    /\ UNCHANGED <<debuggerServer, debuggerClient, sem, running, own, currentsocket>>

\* Every answer is sent to the socket the select loop served last.
Finish_wrongSocket ==
    /\ stack # <<>>
    /\ top.pc = "run"
    /\ IF currentsocket = "s"
       THEN own' = "idle" /\ UNCHANGED debuggerClient
       ELSE UNCHANGED own /\ debuggerClient' = Append(debuggerClient, top.from)
    /\ stack' = Tail(stack)
    /\ \E n \in running .. Tracees : running' = n
    /\ UNCHANGED clientVars
    /\ UNCHANGED <<debuggerServer, sem, currentsocket>>

\* The command is done: its answer goes to the socket it came from, and the
\* wait it interrupted, if any, goes on.  It may have continued tracees.
Finish ==
    /\ stack # <<>>
    /\ top.pc = "run"
    /\ IF top.from = Own
       THEN own' = "idle" /\ UNCHANGED debuggerClient
       ELSE UNCHANGED own /\ debuggerClient' = Append(debuggerClient, top.from)
    /\ stack' = Tail(stack)
    /\ \E n \in running .. Tracees : running' = n
    /\ UNCHANGED clientVars
    /\ UNCHANGED <<debuggerServer, sem, currentsocket>>
-----------------------------------------------------------------------------
Client(c) == \/ Issue(c) \/ Lock(c) \/ Send(c)
             \/ WakeDebuggerThread(c) \/ Recv(c) \/ Unlock(c)

DebuggerThread == \/ SelectOwn \/ SelectForwarded \/ EnterWait \/ DispatchInWait
                  \/ SemWake \/ CheckEvents \/ Timeout \/ Finish

Next == (\E c \in Clients : Client(c)) \/ mychildhandler \/ OwnSend \/ DebuggerThread

Spec == Init /\ [][Next]_vars

\* Threads that can run do run: a client past the mutex, and the debugger
\* thread, whose handlers finish and whose timed waits time out.  Nothing is
\* assumed of the tracee, of the debugger connection's client, of when calls
\* are made, or of who gets the mutex.
Fairness ==
    /\ \A c \in Clients : WF_vars(Send(c) \/ WakeDebuggerThread(c) \/ Recv(c) \/ Unlock(c))
    /\ WF_vars(SelectOwn \/ SelectForwarded)
    /\ WF_vars(DispatchInWait \/ SemWake \/ CheckEvents \/ Timeout \/ Finish)

FairSpec == Spec /\ Fairness
-----------------------------------------------------------------------------
(* Properties.                                                             *)

\* The variables of the channel have their types; the semaphore stays within
\* SEM_VALUE_MAX however often mychildhandler and the clients post it.
TypeOK ==
    /\ debugsocketmutex \in Clients \cup {NoClient}
    /\ pc \in [Clients -> {"idle", "lock", "send", "wake", "recv", "unlock"}]
    /\ got \in [Clients -> Clients]
    /\ debuggerServer \in Seq(Clients)
    /\ debuggerClient \in Seq(Clients)
    /\ sem \in 0 .. SemMax
    /\ running \in 0 .. Tracees
    /\ own \in {"idle", "sent", "served"}
    /\ currentsocket \in {"s", "debugfd"}
    /\ stack \in Seq(Frame)

(***************************************************************************)
(* A command executed inside another command's wait can itself wait, and   *)
(* that wait dispatches too: the C stack of the debugger thread would grow *)
(* with every client that forwards a command.  It does not: at most one    *)
(* forwarded command is nested, on top of a command of the debugger's own  *)
(* connection, because the forwarding client keeps debugsocketmutex until  *)
(* it has the answer.                                                      *)
(***************************************************************************)
NestingBounded ==
    /\ Len(stack) <= 2
    /\ \A i \in 1 .. Len(stack) : stack[i].from # Own => i = 1

(***************************************************************************)
(* A client that has read an answer has read the answer to its own         *)
(* command, although all clients share one socketpair and answers carry no *)
(* identification.                                                         *)
(***************************************************************************)
OwnAnswer == \A c \in Clients : got[c] = c

\* Nothing of a forwarded call is anywhere in the channel.
Quiet == /\ debuggerServer = <<>> /\ debuggerClient = <<>>
         /\ \A i \in 1 .. Len(stack) : stack[i].from = Own

\* The three places c's call can be: unread, being executed, answered.
Queued(c) == /\ debuggerServer = <<c>> /\ debuggerClient = <<>>
             /\ \A i \in 1 .. Len(stack) : stack[i].from = Own
Serving(c) == /\ debuggerServer = <<>> /\ debuggerClient = <<>>
              /\ \E i \in 1 .. Len(stack) : stack[i].from = c
              /\ \A i \in 1 .. Len(stack) : stack[i].from \in {c, Own}
Replied(c) == /\ debuggerServer = <<>> /\ debuggerClient = <<c>>
              /\ \A i \in 1 .. Len(stack) : stack[i].from = Own

(***************************************************************************)
(* All clients share one socketpair, and what it carries belongs to the    *)
(* holder of debugsocketmutex: from sending to reading, the holder's call  *)
(* is in exactly one place; before and after, and whenever the mutex is    *)
(* free, no command is unread, none is executed for a client, and no       *)
(* answer is left for the next client to mistake for its own.              *)
(***************************************************************************)
OneCallInTransit ==
    /\ debugsocketmutex = NoClient => Quiet
    /\ \A c \in Clients :
         /\ debugsocketmutex = c <=> pc[c] \in {"send", "wake", "recv", "unlock"}
         /\ pc[c] \in {"send", "unlock"} => Quiet
         /\ pc[c] \in {"wake", "recv"} => Queued(c) \/ Serving(c) \/ Replied(c)

(***************************************************************************)
(* A client that has sent its command gets the answer, wherever the        *)
(* debugger thread is and even if the debugger's own connection never      *)
(* pauses: newconnection alternates between its two sockets.  (From "wake" *)
(* the only way back to these three places is by the answer.)              *)
(***************************************************************************)
AlwaysAnswered == \A c \in Clients : []<>(pc[c] \in {"idle", "lock", "send"})

\* How far a client's call has come, as ForwardedCalls sees it.
callOf(c) ==
    CASE pc[c] = "idle" -> "none"
      [] pc[c] \in {"lock", "send"} -> "pending"
      [] pc[c] = "unlock" -> "answered"
      [] pc[c] \in {"wake", "recv"} ->
            IF \E i \in 1 .. Len(debuggerServer) : debuggerServer[i] = c THEN "pending"
            ELSE IF \E i \in 1 .. Len(stack) : stack[i].from = c THEN "served"
            ELSE IF \E i \in 1 .. Len(debuggerClient) : debuggerClient[i] = c THEN "answered"
            ELSE "lost"

FC == INSTANCE ForwardedCalls WITH call <- [c \in Clients |-> callOf(c)]

(***************************************************************************)
(* The mechanism implements ForwardedCalls: calls are taken up one at a    *)
(* time, each is executed exactly once, and only then does its caller      *)
(* return.                                                                 *)
(***************************************************************************)
ImplementsForwardedCalls == FC!Spec

\* Forwarded calls never mix: one at a time is under way, the debugger thread nests
\* no second one, and the answer a client reads is its own.
CallsKeptApart == NestingBounded /\ OneCallInTransit /\ OwnAnswer
=============================================================================
