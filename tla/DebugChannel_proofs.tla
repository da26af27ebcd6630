------------------------ MODULE DebugChannel_proofs ------------------------
(***************************************************************************)
(* Proofs about DebugChannel, for every set of clients, every semaphore    *)
(* limit, every number of tracees and every bound on waits.                *)
(***************************************************************************)
EXTENDS DebugChannel, SequenceTheorems, TLAPS

\* The shapes of the debugger thread's stack: idle, one command, or a
\* forwarded command on top of one of the debugger's own connection.
StackShape ==
    \/ stack = <<>>
    \/ \E f \in Frame : stack = <<f>>
    \/ \E f \in Frame, g \in Frame :
          f.from # Own /\ g.from = Own /\ stack = <<f, g>>

Inv == TypeOK /\ StackShape /\ OneCallInTransit /\ OwnAnswer

\* Pushing a frame on a one-frame stack.
LEMMA PairConcat ==
    ASSUME NEW S, NEW f \in S, NEW g \in S
    PROVE  <<f>> \o <<g>> = <<f, g>>
<1> DEFINE s == <<f>> \o <<g>>
<1>1. s \in Seq(S) /\ Len(s) = 2 /\ s[1] = f /\ s[2] = g
  OBVIOUS
<1>2. <<f, g>> \in Seq(S) /\ Len(<<f, g>>) = 2
  OBVIOUS
<1> HIDE DEF s
<1>3. \A i \in 1 .. 2 : s[i] = <<f, g>>[i]
  BY <1>1
<1>4. s = <<f, g>>
  BY <1>1, <1>2, <1>3, SeqEqual
<1> QED
  BY <1>4 DEF s

\* What a command does to its own frame leaves its origin alone.
LEMMA FrameUpdate ==
    ASSUME NEW f \in Frame, NEW p \in {"run", "wait", "check"}
    PROVE  /\ [f EXCEPT !.pc = p] \in Frame
           /\ [f EXCEPT !.pc = p].from = f.from
           /\ [f EXCEPT !.pc = p, !.waits = @ + 1] \in Frame
           /\ [f EXCEPT !.pc = p, !.waits = @ + 1].from = f.from
<1>1. f.waits + 1 \in Nat
  BY DEF Frame
<1>2. [f EXCEPT !.pc = p] \in Frame /\ [f EXCEPT !.pc = p].from = f.from
  BY DEF Frame
<1> DEFINE n == f.waits + 1
           g == [f EXCEPT !.pc = p, !.waits = n]
<1>3. n \in Nat
  BY <1>1
<1> HIDE DEF n
<1>4. g \in Frame /\ g.from = f.from
  BY Zenon, <1>3 DEF Frame
<1> QED
  BY <1>2, <1>4 DEF n

\* Replacing the top frame by one with the same origin.
LEMMA SetTop ==
    ASSUME Inv, stack # <<>>, NEW f \in Frame, f.from = top.from, setTop(f)
    PROVE  /\ stack' \in Seq(Frame) /\ StackShape'
           /\ Len(stack') = Len(stack)
           /\ \A i \in 1 .. Len(stack) : stack'[i].from = stack[i].from
<1>1. CASE \E a \in Frame : stack = <<a>>
  <2>1. PICK a \in Frame : stack = <<a>>
    BY <1>1
  <2>2. stack' = <<f>>
    BY <2>1 DEF setTop
  <2>3. f.from = a.from
    BY <2>1 DEF top
  <2> QED
    BY <2>1, <2>2, <2>3 DEF StackShape
<1>2. CASE \E a \in Frame, b \in Frame : a.from # Own /\ b.from = Own /\ stack = <<a, b>>
  <2>1. PICK a \in Frame, b \in Frame : a.from # Own /\ b.from = Own /\ stack = <<a, b>>
    BY <1>2
  <2>2. stack' = <<f, b>>
    <3>1. Tail(stack) = <<b>>
      BY <2>1
    <3> QED
      BY Zenon, <3>1, PairConcat DEF setTop
  <2>3. f.from = a.from
    BY <2>1 DEF top
  <2>4. Len(stack') = 2 /\ Len(stack) = 2 /\ stack'[1] = f /\ stack'[2] = b
        /\ stack[1] = a /\ stack[2] = b
    BY <2>1, <2>2
  <2>5. stack' \in Seq(Frame) /\ StackShape'
    BY <2>1, <2>2, <2>3 DEF StackShape
  <2> QED
    BY <2>3, <2>4, <2>5
<1> QED
  BY <1>1, <1>2 DEF Inv, StackShape

\* No call is in transit when ceserver starts to debug
LEMMA InitInv == Init => Inv
  BY ChannelAssumption DEF Init, Inv, TypeOK, StackShape, OneCallInTransit, OwnAnswer, Quiet

\* The debugger thread's steps that only change the top frame.
LEMMA TopInv ==
    ASSUME Inv, EnterWait \/ SemWake \/ CheckEvents \/ Timeout
    PROVE  Inv'
<1>1. PICK f \in Frame : stack # <<>> /\ f.from = top.from /\ setTop(f)
  <2>1. stack # <<>> /\ top \in Frame
    BY DEF Inv, TypeOK, top, EnterWait, SemWake, CheckEvents, Timeout
  <2> QED
    BY Zenon, <2>1, FrameUpdate DEF EnterWait, SemWake, CheckEvents, Timeout
<1>2. /\ stack' \in Seq(Frame) /\ StackShape' /\ Len(stack') = Len(stack)
      /\ \A i \in 1 .. Len(stack) : stack'[i].from = stack[i].from
  BY <1>1, SetTop
<1>3. /\ UNCHANGED <<debugsocketmutex, pc, got, debuggerServer, debuggerClient>>
      /\ UNCHANGED <<running, own, currentsocket>>
      /\ sem' \in 0 .. SemMax
  BY SMTT(30), ChannelAssumption
  DEF Inv, TypeOK, EnterWait, SemWake, CheckEvents, Timeout, clientVars
<1>4. Len(stack) \in Nat
  BY DEF Inv, TypeOK
<1>5. TypeOK' /\ OwnAnswer'
  BY <1>2, <1>3 DEF Inv, TypeOK, OwnAnswer
<1>6. OneCallInTransit'
  BY SMTT(30), <1>2, <1>3, <1>4 DEF Inv, OneCallInTransit, Quiet, Queued, Serving, Replied
<1> QED
  BY <1>2, <1>5, <1>6 DEF Inv

\* The select() loop starts a command of the debugger's own connection.
LEMMA SelectOwnInv == ASSUME Inv, SelectOwn PROVE Inv'
<1>1. frame(Own) \in Frame /\ frame(Own).from = Own
  BY DEF frame, Frame
<1>2. stack' = <<frame(Own)>> /\ stack = <<>>
  BY DEF SelectOwn
<1>3. StackShape' /\ stack' \in Seq(Frame)
  BY <1>1, <1>2 DEF StackShape
<1>4. Len(stack') = 1 /\ stack'[1].from = Own
  BY <1>1, <1>2
<1>5. TypeOK' /\ OwnAnswer'
  BY <1>3 DEF Inv, TypeOK, OwnAnswer, SelectOwn, clientVars
<1>6. Len(stack) = 0
  BY <1>2
<1>7. OneCallInTransit'
  BY <1>4, <1>6
  DEF Inv, OneCallInTransit, Quiet, Queued, Serving, Replied, SelectOwn, clientVars
<1> QED
  BY <1>3, <1>5, <1>7 DEF Inv

\* An unread command is the mutex holder's, and it is the only one.
LEMMA Unread ==
    ASSUME Inv, debuggerServer # <<>>
    PROVE  \E c \in Clients :
             /\ debugsocketmutex = c /\ pc[c] \in {"wake", "recv"} /\ Queued(c)
             /\ Head(debuggerServer) = c /\ Tail(debuggerServer) = <<>>
<1>1. debugsocketmutex # NoClient
  BY DEF Inv, OneCallInTransit, Quiet
<1>2. PICK c \in Clients : debugsocketmutex = c
  BY <1>1 DEF Inv, TypeOK
<1>3. pc[c] \in {"wake", "recv"} /\ Queued(c)
  BY <1>2 DEF Inv, OneCallInTransit, Quiet, Queued, Serving, Replied
<1>4. debuggerServer = <<c>>
  BY <1>3 DEF Queued
<1> QED
  BY <1>2, <1>3, <1>4

\* The select() loop starts a forwarded command.
LEMMA SelectForwardedInv == ASSUME Inv, SelectForwarded PROVE Inv'
<1>1. PICK c \in Clients :
             /\ debugsocketmutex = c /\ pc[c] \in {"wake", "recv"} /\ Queued(c)
             /\ Head(debuggerServer) = c /\ Tail(debuggerServer) = <<>>
  BY Unread DEF SelectForwarded
<1>2. frame(c) \in Frame /\ frame(c).from = c /\ c # Own
  BY ChannelAssumption DEF frame, Frame
<1>3. stack' = <<frame(c)>> /\ debuggerServer' = <<>>
  BY <1>1 DEF SelectForwarded
<1>4. StackShape' /\ stack' \in Seq(Frame)
  BY <1>2, <1>3 DEF StackShape
<1>5. Len(stack') = 1 /\ stack'[1].from = c
  BY <1>2, <1>3
<1>6. TypeOK' /\ OwnAnswer'
  BY <1>3, <1>4 DEF Inv, TypeOK, OwnAnswer, SelectForwarded, clientVars
<1>7. Serving(c)'
  BY <1>1, <1>3, <1>5 DEF Serving, Queued, SelectForwarded
<1>8. OneCallInTransit'
  BY <1>1, <1>7, ChannelAssumption
  DEF Inv, TypeOK, OneCallInTransit, SelectForwarded, clientVars
<1> QED
  BY <1>4, <1>6, <1>8 DEF Inv

\* A forwarded command is dispatched inside a wait: the command that waits is
\* of the debugger's own connection, so the stack grows to two at most.
LEMMA DispatchInWaitInv == ASSUME Inv, DispatchInWait PROVE Inv'
<1>1. PICK c \in Clients :
             /\ debugsocketmutex = c /\ pc[c] \in {"wake", "recv"} /\ Queued(c)
             /\ Head(debuggerServer) = c /\ Tail(debuggerServer) = <<>>
  BY Unread DEF DispatchInWait
<1>2. frame(c) \in Frame /\ frame(c).from = c /\ c # Own
  BY ChannelAssumption DEF frame, Frame
<1>3. PICK a \in Frame : stack = <<a>> /\ a.from = Own
  <2>1. \A i \in 1 .. Len(stack) : stack[i].from = Own
    BY <1>1 DEF Queued
  <2>2. ASSUME NEW f \in Frame, NEW g \in Frame, f.from # Own, stack = <<f, g>>
        PROVE  FALSE
    BY <2>1, <2>2
  <2>3. ASSUME NEW f \in Frame, stack = <<f>>
        PROVE  f.from = Own
    BY <2>1, <2>3
  <2> QED
    BY <2>2, <2>3 DEF Inv, StackShape, DispatchInWait
<1>a. PICK b \in Frame : b = [a EXCEPT !.pc = "check"]
  BY Zenon, FrameUpdate
<1>4. b.from = Own
  BY Zenon, <1>3, <1>a, FrameUpdate
<1>5. stack' = <<frame(c), b>> /\ debuggerServer' = <<>>
  <2>1. top = a /\ Tail(stack) = <<>>
    BY <1>3 DEF top
  <2>2. stack' = <<frame(c), b>> \o <<>> /\ debuggerServer' = <<>>
    BY Zenon, <1>1, <1>a, <2>1 DEF DispatchInWait
  <2>3. <<frame(c), b>> \in Seq(Frame)
    BY <1>2
  <2> QED
    BY <2>2, <2>3, ConcatEmptySeq
<1>6. StackShape' /\ stack' \in Seq(Frame)
  BY <1>2, <1>4, <1>5 DEF StackShape
<1>7. Len(stack') = 2 /\ stack'[1].from = c /\ stack'[2].from = Own
  BY <1>2, <1>4, <1>5
<1>8. sem' \in 0 .. SemMax
  BY ChannelAssumption DEF Inv, TypeOK, DispatchInWait
<1>9. TypeOK' /\ OwnAnswer'
  BY <1>5, <1>6, <1>8 DEF Inv, TypeOK, OwnAnswer, DispatchInWait, clientVars
<1>10. Serving(c)'
  <2>1. debuggerServer' = <<>> /\ debuggerClient' = <<>>
    BY <1>1, <1>5 DEF Queued, DispatchInWait
  <2>2. 1 \in 1 .. Len(stack') /\ 1 .. Len(stack') = {1, 2}
    BY <1>7
  <2> QED
    BY <1>7, <2>1, <2>2 DEF Serving
<1>11. OneCallInTransit'
  BY <1>1, <1>10, ChannelAssumption
  DEF Inv, TypeOK, OneCallInTransit, DispatchInWait, clientVars
<1> QED
  BY <1>6, <1>9, <1>11 DEF Inv

\* A forwarded command on top of the stack is the mutex holder's.
LEMMA Forwarded ==
    ASSUME Inv, stack # <<>>, top.from # Own
    PROVE  \E c \in Clients : /\ top.from = c /\ debugsocketmutex = c
                             /\ pc[c] \in {"wake", "recv"} /\ Serving(c)
<1>1. top \in Frame /\ Len(stack) > 0 /\ stack[1] = top
  BY DEF Inv, TypeOK, top
<1>2. PICK c \in Clients : top.from = c
  BY <1>1 DEF Frame
<1>3. ~Quiet /\ \A d \in Clients : ~Queued(d) /\ ~Replied(d)
  BY <1>1 DEF Quiet, Queued, Replied, Inv, TypeOK
<1>4. PICK d \in Clients : debugsocketmutex = d /\ pc[d] \in {"wake", "recv"} /\ Serving(d)
  BY <1>3 DEF Inv, TypeOK, OneCallInTransit
<1>5. d = c
  BY <1>1, <1>2, <1>4 DEF Serving, Inv, TypeOK
<1> QED
  BY <1>2, <1>4, <1>5

\* A command is done and answered.
LEMMA FinishInv == ASSUME Inv, Finish PROVE Inv'
<1>1. running' \in 0 .. Tracees
  BY ChannelAssumption DEF Finish, Inv, TypeOK
<1>2. CASE \E a \in Frame : stack = <<a>> /\ a.from = Own
  <2>1. PICK a \in Frame : stack = <<a>> /\ a.from = Own
    BY <1>2
  <2>2. stack' = <<>> /\ top.from = Own /\ Len(stack) = 1 /\ stack[1].from = Own
    BY <2>1 DEF Finish, top
  <2>3. Len(stack') = 0
    BY <2>2
  <2>4. TypeOK' /\ OwnAnswer' /\ StackShape'
    BY <1>1, <2>2 DEF Inv, TypeOK, OwnAnswer, StackShape, Finish, clientVars
  <2>5. OneCallInTransit'
    <3>1. UNCHANGED <<debugsocketmutex, pc, debuggerServer, debuggerClient>>
      BY <2>2 DEF Finish, clientVars
    <3>2. \A c \in Clients : ~Serving(c)
      BY <2>2, ChannelAssumption DEF Serving
    <3>3. /\ Quiet => Quiet'
          /\ \A c \in Clients : (Queued(c) => Queued(c)') /\ (Replied(c) => Replied(c)')
      BY <2>3, <3>1 DEF Quiet, Queued, Replied
    <3> QED
      BY <3>1, <3>2, <3>3 DEF Inv, OneCallInTransit
  <2> QED
    BY <2>4, <2>5 DEF Inv
<1>3. CASE top.from # Own
  <2>1. stack # <<>>
    BY DEF Finish
  <2>2. PICK c \in Clients : /\ top.from = c /\ debugsocketmutex = c
                            /\ pc[c] \in {"wake", "recv"} /\ Serving(c)
    BY <1>3, <2>1, Forwarded
  <2>4. /\ stack' = <<>> \/ \E b \in Frame : stack' = <<b>> /\ b.from = Own
        /\ stack' \in Seq(Frame)
    <3>1. CASE \E f \in Frame : stack = <<f>>
      BY <3>1 DEF Finish
    <3>2. CASE \E f \in Frame, b \in Frame : b.from = Own /\ stack = <<f, b>>
      <4>1. PICK f \in Frame, b \in Frame : b.from = Own /\ stack = <<f, b>>
        BY <3>2
      <4>2. stack' = <<b>>
        BY <4>1 DEF Finish
      <4> QED
        BY <4>1, <4>2
    <3> QED
      BY <2>1, <3>1, <3>2 DEF Inv, StackShape
  <2>5. \A i \in 1 .. Len(stack') : stack'[i].from = Own
    BY <2>4
  <2>6. debuggerServer' = <<>> /\ debuggerClient' = <<c>>
    BY <1>3, <2>2 DEF Finish, Serving
  <2>7. Replied(c)'
    BY <2>5, <2>6 DEF Replied
  <2>8. TypeOK' /\ OwnAnswer' /\ StackShape'
    BY <1>1, <1>3, <2>4, <2>6 DEF Inv, TypeOK, OwnAnswer, StackShape, Finish, clientVars
  <2>9. OneCallInTransit'
    BY <2>2, <2>7, ChannelAssumption
    DEF Inv, TypeOK, OneCallInTransit, Finish, clientVars
  <2> QED
    BY <2>8, <2>9 DEF Inv
<1> QED
  <2>1. ASSUME NEW f \in Frame, stack = <<f>>
        PROVE  top = f
    BY <2>1 DEF top
  <2>2. ASSUME NEW f \in Frame, NEW g \in Frame, stack = <<f, g>>
        PROVE  top = f
    BY <2>2 DEF top
  <2> QED
    BY <1>2, <1>3, <2>1, <2>2 DEF Inv, StackShape, Finish

\* The steps of a client, and those of the world around.
LEMMA ClientInv == ASSUME Inv, NEW c \in Clients, Client(c) PROVE Inv'
<1>1. UNCHANGED stack /\ StackShape'
  BY DEF Inv, StackShape, Client, Issue, Lock, Send, WakeDebuggerThread, Recv, Unlock, serverVars
<1>2. CASE Issue(c)
  <2>1. TypeOK' /\ OwnAnswer'
    BY <1>2 DEF Inv, TypeOK, OwnAnswer, Issue, goto, serverVars
  <2>2. OneCallInTransit'
    BY <1>2
    DEF Inv, TypeOK, OneCallInTransit, Quiet, Queued, Serving, Replied, Issue, goto, serverVars
  <2> QED
    BY <1>1, <2>1, <2>2 DEF Inv
<1>3. CASE Lock(c)
  <2>1. TypeOK' /\ OwnAnswer'
    BY <1>3 DEF Inv, TypeOK, OwnAnswer, Lock, goto, serverVars
  <2>2. OneCallInTransit'
    BY <1>3, ChannelAssumption
    DEF Inv, TypeOK, OneCallInTransit, Quiet, Queued, Serving, Replied, Lock, goto, serverVars
  <2> QED
    BY <1>1, <2>1, <2>2 DEF Inv
<1>4. CASE Send(c)
  <2>1. Quiet /\ debugsocketmutex = c
    BY <1>4 DEF Inv, OneCallInTransit, Send, goto
  <2>2. debuggerServer' = <<c>>
    BY <1>4, <2>1 DEF Send, Quiet
  <2>3. TypeOK' /\ OwnAnswer'
    BY <1>4, <2>2 DEF Inv, TypeOK, OwnAnswer, Send, goto, serverVars
  <2>4. Queued(c)'
    BY <1>1, <1>4, <2>1, <2>2 DEF Quiet, Queued, Send
  <2>5. OneCallInTransit'
    BY <1>4, <2>1, <2>4, ChannelAssumption
    DEF Inv, TypeOK, OneCallInTransit, Send, goto
  <2> QED
    BY <1>1, <2>3, <2>5 DEF Inv
<1>5. CASE WakeDebuggerThread(c)
  <2>1. TypeOK' /\ OwnAnswer'
    BY <1>5, ChannelAssumption
    DEF Inv, TypeOK, OwnAnswer, WakeDebuggerThread, goto, sem_post, serverVars
  <2>2. OneCallInTransit'
    BY <1>1, <1>5, ChannelAssumption
    DEF Inv, TypeOK, OneCallInTransit, Quiet, Queued, Serving, Replied, WakeDebuggerThread, goto
  <2> QED
    BY <1>1, <2>1, <2>2 DEF Inv
<1>6. CASE Recv(c)
  <2>1. debugsocketmutex = c /\ Replied(c)
    BY <1>6 DEF Inv, OneCallInTransit, Queued, Serving, Recv, goto
  <2>2. debuggerClient' = <<>> /\ got'[c] = c /\ got' \in [Clients -> Clients]
    BY <1>6, <2>1 DEF Inv, TypeOK, Recv, Replied
  <2>3. TypeOK' /\ OwnAnswer'
    BY <1>6, <2>2 DEF Inv, TypeOK, OwnAnswer, Recv, goto, serverVars
  <2>4. Quiet'
    BY <1>1, <1>6, <2>1, <2>2 DEF Quiet, Replied, Recv
  <2>5. OneCallInTransit'
    BY <1>6, <2>1, <2>4, ChannelAssumption
    DEF Inv, TypeOK, OneCallInTransit, Recv, goto
  <2> QED
    BY <1>1, <2>3, <2>5 DEF Inv
<1>7. CASE Unlock(c)
  <2>1. TypeOK' /\ OwnAnswer'
    BY <1>7 DEF Inv, TypeOK, OwnAnswer, Unlock, goto, serverVars
  <2>2. Quiet' /\ debugsocketmutex = c
    BY <1>1, <1>7 DEF Inv, OneCallInTransit, Quiet, Unlock, goto
  <2>3. OneCallInTransit'
    BY SMTT(30), <1>7, <2>2, ChannelAssumption
    DEF Inv, TypeOK, OneCallInTransit, Unlock, goto
  <2> QED
    BY <1>1, <2>1, <2>3 DEF Inv
<1> QED
  BY <1>2, <1>3, <1>4, <1>5, <1>6, <1>7 DEF Client

\* The SIGCHLD handler and the debugger connection leave the forwarded call alone
LEMMA WorldInv == ASSUME Inv, mychildhandler \/ OwnSend PROVE Inv'
<1>1. UNCHANGED <<stack, debugsocketmutex, pc, got, debuggerServer, debuggerClient>>
  BY DEF mychildhandler, OwnSend, clientVars
<1>2. TypeOK'
  BY SMTT(30), <1>1, ChannelAssumption DEF Inv, TypeOK, mychildhandler, OwnSend, sem_post
<1> QED
  BY <1>1, <1>2
  DEF Inv, StackShape, OneCallInTransit, OwnAnswer, Quiet, Queued, Serving, Replied

\* Every step keeps the inductive invariant
LEMMA NextInv == Inv /\ [Next]_vars => Inv'
<1> SUFFICES ASSUME Inv, [Next]_vars PROVE Inv'
  OBVIOUS
<1>1. CASE UNCHANGED vars
  BY <1>1
  DEF vars, Inv, TypeOK, StackShape, OneCallInTransit, OwnAnswer, Quiet, Queued, Serving, Replied
<1> QED
  BY <1>1, ClientInv, WorldInv, SelectOwnInv, SelectForwardedInv, DispatchInWaitInv,
     TopInv, FinishInv
  DEF Next, DebuggerThread

\* The inductive invariant holds in every state
LEMMA AlwaysInv == Spec => []Inv
  BY InitInv, NextInv, PTL DEF Spec

\* Every variable keeps its type; in particular the semaphore stays within
\* its limit and stack holds dispatch activations only.
THEOREM TypeCorrect == Spec => []TypeOK
  BY AlwaysInv, PTL DEF Inv

\* The debugger thread never nests more than one forwarded command, however
\* many clients forward commands while it waits for debug events.
THEOREM NestingIsBounded == Spec => []NestingBounded
<1>1. ASSUME Inv PROVE NestingBounded
  <2>1. CASE stack = <<>>
    BY <2>1 DEF NestingBounded
  <2>2. CASE \E f \in Frame : stack = <<f>>
    BY <2>2 DEF NestingBounded
  <2>3. CASE \E f \in Frame, g \in Frame : g.from = Own /\ stack = <<f, g>>
    <3>1. Len(stack) = 2 /\ stack[2].from = Own
      BY <2>3
    <3> QED
      BY <3>1 DEF NestingBounded
  <2> QED
    BY <1>1, <2>1, <2>2, <2>3 DEF Inv, StackShape
<1> QED
  BY <1>1, AlwaysInv, PTL

\* Between sending and reading, the call of the holder of debugsocketmutex is
\* in exactly one place; at all other times the channel is empty.
THEOREM CallsDoNotMix == Spec => []OneCallInTransit
  BY AlwaysInv, PTL DEF Inv

\* The answer a client reads from the shared socketpair is its own.
THEOREM AnswersMatch == Spec => []OwnAnswer
  BY AlwaysInv, PTL DEF Inv
-----------------------------------------------------------------------------
(* The refinement of ForwardedCalls.                                       *)

bar == [c \in Clients |-> callOf(c)]

\* How far c's call has come, in terms of OneCallInTransit.
LEMMA CallOf ==
    ASSUME Inv, NEW c \in Clients
    PROVE  /\ pc[c] = "idle" => callOf(c) = "none"
           /\ pc[c] \in {"lock", "send"} => callOf(c) = "pending"
           /\ pc[c] = "unlock" => callOf(c) = "answered"
           /\ pc[c] \in {"wake", "recv"} =>
                /\ Queued(c) => callOf(c) = "pending"
                /\ Serving(c) => callOf(c) = "served"
                /\ Replied(c) => callOf(c) = "answered"
<1>1. pc[c] \in {"idle", "lock", "send", "wake", "recv", "unlock"}
  BY DEF Inv, TypeOK
<1>2. c # Own
  BY ChannelAssumption
<1>3. ASSUME pc[c] \in {"wake", "recv"}, Queued(c) PROVE callOf(c) = "pending"
  <2>1. Len(debuggerServer) = 1 /\ debuggerServer[1] = c
    BY <1>3 DEF Queued
  <2>2. \E i \in 1 .. Len(debuggerServer) : debuggerServer[i] = c
    BY <2>1
  <2> QED
    BY <1>3, <2>2 DEF callOf
<1>4. ASSUME pc[c] \in {"wake", "recv"}, Serving(c) \/ Replied(c)
      PROVE  ~ \E i \in 1 .. Len(debuggerServer) : debuggerServer[i] = c
  BY <1>4 DEF Serving, Replied
<1>5. ASSUME pc[c] \in {"wake", "recv"}, Serving(c) PROVE callOf(c) = "served"
  BY <1>4, <1>5 DEF callOf, Serving
<1>6. ASSUME pc[c] \in {"wake", "recv"}, Replied(c) PROVE callOf(c) = "answered"
  <2>1. Len(debuggerClient) = 1 /\ debuggerClient[1] = c
    BY <1>6 DEF Replied
  <2>2. \E i \in 1 .. Len(debuggerClient) : debuggerClient[i] = c
    BY <2>1
  <2> QED
    BY <1>2, <1>4, <1>6, <2>2 DEF callOf, Replied
<1>7. /\ pc[c] = "idle" => callOf(c) = "none"
      /\ pc[c] \in {"lock", "send"} => callOf(c) = "pending"
      /\ pc[c] = "unlock" => callOf(c) = "answered"
  BY <1>1 DEF callOf
<1> QED
  BY <1>3, <1>5, <1>6, <1>7

CallFacts ==
    \A c \in Clients :
       /\ pc[c] = "idle" => callOf(c) = "none"
       /\ pc[c] \in {"lock", "send"} => callOf(c) = "pending"
       /\ pc[c] = "unlock" => callOf(c) = "answered"
       /\ pc[c] \in {"wake", "recv"} =>
            /\ Queued(c) => callOf(c) = "pending"
            /\ Serving(c) => callOf(c) = "served"
            /\ Replied(c) => callOf(c) = "answered"

\* How far a call has come, by where its client is
LEMMA CallFactsNow == Inv => CallFacts
  BY Zenon, CallOf DEF CallFacts

\* The same in the next state
LEMMA CallFactsNext == Inv' => CallFacts'
  BY CallFactsNow, PTL

\* A client without the mutex has not been served or answered.
LEMMA Others ==
    ASSUME Inv, NEW c \in Clients, NEW d \in Clients, debugsocketmutex = c, d # c
    PROVE  pc[d] \in {"idle", "lock"} /\ callOf(d) \in {"none", "pending"}
<1>1. pc[d] \in {"idle", "lock"}
  BY DEF Inv, TypeOK, OneCallInTransit
<1> QED
  BY <1>1, CallOf

\* At first no client has made a call
LEMMA InitRefines == Init => FC!Init
<1> SUFFICES ASSUME Init PROVE FC!Init
  OBVIOUS
<1>1. \A c \in Clients : callOf(c) = "none"
  BY Zenon DEF Init, callOf
<1> QED
  BY <1>1 DEF FC!Init

\* A step that changes at most c's call is a step of ForwardedCalls when
\* c's call moves as ForwardedCalls says.
LEMMA StepOf ==
    ASSUME NEW c \in Clients,
           \A d \in Clients \ {c} : callOf(d)' = callOf(d),
           \/ callOf(c)' = callOf(c)
           \/ callOf(c) = "none" /\ callOf(c)' = "pending"
           \/ /\ callOf(c) = "pending" /\ callOf(c)' = "served"
              /\ \A d \in Clients \ {c} : callOf(d) \notin {"served", "answered"}
           \/ callOf(c) = "served" /\ callOf(c)' = "answered"
           \/ callOf(c) = "answered" /\ callOf(c)' = "none"
    PROVE  [FC!Next]_bar
<1>1. bar' = [bar EXCEPT ![c] = callOf(c)']
  BY Zenon DEF bar
<1>2. bar[c] = callOf(c) /\ \A d \in Clients : bar[d] = callOf(d)
  BY DEF bar
<1>3. CASE callOf(c)' = callOf(c)
  BY <1>1, <1>3 DEF bar
<1>4. CASE callOf(c) = "none" /\ callOf(c)' = "pending"
  <2>1. FC!Issue(c)
    BY <1>1, <1>4 DEF FC!Issue, bar
  <2> QED
    BY <2>1 DEF FC!Next
<1>5. CASE /\ callOf(c) = "pending" /\ callOf(c)' = "served"
           /\ \A d \in Clients \ {c} : callOf(d) \notin {"served", "answered"}
  <2>1. FC!Serve(c)
    BY <1>1, <1>5 DEF FC!Serve, bar
  <2> QED
    BY <2>1 DEF FC!Next
<1>6. CASE callOf(c) = "served" /\ callOf(c)' = "answered"
  <2>1. FC!Answer(c)
    BY <1>1, <1>6 DEF FC!Answer, bar
  <2> QED
    BY <2>1 DEF FC!Next
<1>7. CASE callOf(c) = "answered" /\ callOf(c)' = "none"
  <2>1. FC!Return(c)
    BY <1>1, <1>7 DEF FC!Return, bar
  <2> QED
    BY <2>1 DEF FC!Next
<1> QED
  BY <1>3, <1>4, <1>5, <1>6, <1>7

\* Every step of the mechanism is a step of ForwardedCalls or changes no call.
LEMMA NextRefines == Inv /\ Inv' /\ [Next]_vars => [FC!Next]_bar
<1> SUFFICES ASSUME Inv, Inv', [Next]_vars PROVE [FC!Next]_bar
  OBVIOUS
<1>0. CallFacts /\ CallFacts'
  BY CallFactsNow, CallFactsNext
<1>1. ASSUME UNCHANGED <<pc, debuggerServer, debuggerClient, stack>> PROVE [FC!Next]_bar
  BY <1>1 DEF bar, callOf
<1>2. ASSUME NEW c \in Clients, Client(c) PROVE [FC!Next]_bar
  <2>1. UNCHANGED stack /\ \A d \in Clients \ {c} : pc'[d] = pc[d]
    BY <1>2 DEF Client, Issue, Lock, Send, WakeDebuggerThread, Recv, Unlock, goto, serverVars,
                Inv, TypeOK
  <2>2. CASE Issue(c)
    <3>1. \A d \in Clients \ {c} : callOf(d)' = callOf(d)
      BY Zenon, <2>1, <2>2 DEF callOf, Issue
    <3>2. callOf(c) = "none" /\ callOf(c)' = "pending"
      BY <1>0, <2>2 DEF CallFacts, Issue, goto, Inv, TypeOK
    <3> QED
      BY <3>1, <3>2, StepOf
  <2>3. CASE Lock(c)
    <3>1. \A d \in Clients \ {c} : callOf(d)' = callOf(d)
      BY Zenon, <2>1, <2>3 DEF callOf, Lock
    <3>2. callOf(c) = "pending" /\ callOf(c)' = "pending"
      BY <1>0, <2>3 DEF CallFacts, Lock, goto, Inv, TypeOK
    <3> QED
      BY <3>1, <3>2, StepOf
  <2>4. CASE Send(c)
    <3>1. debugsocketmutex = c
      BY <2>4 DEF Send, goto, Inv, OneCallInTransit
    <3>2. \A d \in Clients \ {c} : callOf(d)' = callOf(d)
      <4>1. ASSUME NEW d \in Clients \ {c} PROVE callOf(d)' = callOf(d)
        <5>1. pc[d] \in {"idle", "lock"} /\ pc'[d] = pc[d]
          BY <2>1, <3>1, Others
        <5> QED
          BY <5>1 DEF callOf
      <4> QED
        BY <4>1
    <3>a. pc[c] = "send" /\ pc'[c] = "wake" /\ Quiet
      BY <2>4 DEF Send, goto, Inv, TypeOK, OneCallInTransit
    <3>b. debuggerServer' = <<c>>
      BY <2>4, <3>a DEF Send, Quiet
    <3>3. pc[c] = "send" /\ pc'[c] = "wake" /\ Queued(c)'
      BY SMTT(30), <2>1, <2>4, <3>a, <3>b DEF Send, Quiet, Queued
    <3>4. callOf(c) = "pending" /\ callOf(c)' = "pending"
      BY <1>0, <3>3 DEF CallFacts
    <3> QED
      BY <3>2, <3>4, StepOf
  <2>5. CASE WakeDebuggerThread(c)
    <3>1. UNCHANGED <<debuggerServer, debuggerClient, stack>> /\ pc[c] = "wake" /\ pc'[c] = "recv"
      BY <2>5 DEF WakeDebuggerThread, goto, serverVars, Inv, TypeOK
    <3>2. \A d \in Clients : callOf(d)' = callOf(d)
      BY ZenonT(40), <2>1, <3>1 DEF callOf
    <3> QED
      BY <3>2, StepOf
  <2>6. CASE Recv(c)
    <3>1. UNCHANGED <<debuggerServer, stack>> /\ pc[c] = "recv" /\ pc'[c] = "unlock"
      BY <2>6 DEF Recv, goto, serverVars, Inv, TypeOK
    <3>2. \A d \in Clients \ {c} : pc[d] \in {"idle", "lock"} /\ callOf(d)' = callOf(d)
      <4>1. debugsocketmutex = c
        BY SMTT(30), <3>1 DEF Inv, OneCallInTransit
      <4> QED
        BY SMTT(30), <2>1, <4>1, Others DEF callOf
    <3>3. Replied(c)
      BY ZenonT(40), <2>6, <3>1 DEF Recv, Inv, OneCallInTransit, Queued, Serving
    <3>4. callOf(c) = "answered" /\ callOf(c)' = "answered"
      BY <1>0, <3>1, <3>3 DEF CallFacts
    <3> QED
      BY <3>2, <3>4, StepOf
  <2>7. CASE Unlock(c)
    <3>1. UNCHANGED <<debuggerServer, debuggerClient, stack>> /\ pc[c] = "unlock" /\ pc'[c] = "idle"
      BY <2>7 DEF Unlock, goto, serverVars, Inv, TypeOK
    <3>2. \A d \in Clients \ {c} : callOf(d)' = callOf(d)
      BY ZenonT(40), <2>1, <3>1 DEF callOf
    <3>3. callOf(c) = "answered" /\ callOf(c)' = "none"
      BY <1>0, <3>1 DEF CallFacts
    <3> QED
      BY <3>2, <3>3, StepOf
  <2> QED
    BY <1>2, <2>2, <2>3, <2>4, <2>5, <2>6, <2>7 DEF Client
<1>3. ASSUME mychildhandler \/ OwnSend PROVE [FC!Next]_bar
  BY <1>1, <1>3 DEF mychildhandler, OwnSend, clientVars
<1>4. ASSUME EnterWait \/ SemWake \/ CheckEvents \/ Timeout PROVE [FC!Next]_bar
  <2>1. PICK f \in Frame : stack # <<>> /\ f.from = top.from /\ setTop(f)
    <3>1. stack # <<>> /\ top \in Frame
      BY <1>4 DEF Inv, TypeOK, top, EnterWait, SemWake, CheckEvents, Timeout
    <3> QED
      BY Zenon, <1>4, <3>1, FrameUpdate DEF EnterWait, SemWake, CheckEvents, Timeout
  <2>2. /\ Len(stack') = Len(stack)
        /\ \A i \in 1 .. Len(stack) : stack'[i].from = stack[i].from
    BY <2>1, SetTop
  <2>3. UNCHANGED <<pc, debuggerServer, debuggerClient>>
    BY <1>4 DEF EnterWait, SemWake, CheckEvents, Timeout, clientVars
  <2> QED
    BY <2>2, <2>3 DEF bar, callOf
<1>5. ASSUME SelectOwn PROVE [FC!Next]_bar
  <2>1. UNCHANGED <<pc, debuggerServer, debuggerClient>> /\ Len(stack) = 0
        /\ Len(stack') = 1 /\ stack'[1].from = Own
    BY <1>5 DEF SelectOwn, clientVars, frame
  <2>2. \A c \in Clients :
           (\E i \in 1 .. Len(stack') : stack'[i].from = c)
              <=> (\E i \in 1 .. Len(stack) : stack[i].from = c)
    BY <2>1, ChannelAssumption
  <2>3. \A c \in Clients : callOf(c)' = callOf(c)
    BY <2>1, <2>2 DEF callOf
  <2> QED
    BY <2>3 DEF bar
<1>6. ASSUME SelectForwarded \/ DispatchInWait PROVE [FC!Next]_bar
  <2>1. UNCHANGED <<pc, debugsocketmutex>> /\ debuggerServer # <<>>
    BY <1>6 DEF SelectForwarded, DispatchInWait, clientVars
  <2>2. PICK c \in Clients :
             /\ debugsocketmutex = c /\ pc[c] \in {"wake", "recv"} /\ Queued(c)
             /\ Head(debuggerServer) = c /\ Tail(debuggerServer) = <<>>
    BY <2>1, Unread
  <2>3. \A d \in Clients \ {c} : /\ pc[d] \in {"idle", "lock"}
                                 /\ callOf(d) \in {"none", "pending"}
    BY <2>2, Others
  <2>4. \A d \in Clients \ {c} : callOf(d)' = callOf(d)
    BY <2>1, <2>3 DEF callOf
  <2>5. debuggerServer' = <<>> /\ debuggerClient' = <<>>
    BY <1>6, <2>2 DEF SelectForwarded, DispatchInWait, Queued
  <2>6. Serving(c)'
    BY <2>1, <2>2, <2>5 DEF Inv, OneCallInTransit, Queued, Replied
  <2>7. callOf(c) = "pending" /\ callOf(c)' = "served"
    BY <1>0, <2>1, <2>2, <2>6 DEF CallFacts
  <2> QED
    BY <2>3, <2>4, <2>7, StepOf
<1>7. ASSUME Finish PROVE [FC!Next]_bar
  <2>1. UNCHANGED <<pc, debugsocketmutex, debuggerServer>>
    BY <1>7 DEF Finish, clientVars
  <2>2. CASE top.from = Own
    <3>1. UNCHANGED debuggerClient
      BY <1>7, <2>2 DEF Finish
    <3>2. \A c \in Clients : ~Serving(c)
      <4>1. ASSUME NEW c \in Clients, Serving(c) PROVE FALSE
        <5>1. CASE \E f \in Frame : stack = <<f>>
          BY <2>2, <4>1, <5>1, ChannelAssumption DEF Serving, top
        <5>2. CASE \E f \in Frame, g \in Frame : f.from # Own /\ stack = <<f, g>>
          BY <2>2, <5>2 DEF top
        <5> QED
          BY <1>7, <5>1, <5>2 DEF Inv, StackShape, Finish
      <4> QED
        BY SMTT(30), <4>1
    <3>3. \A c \in Clients : ~Serving(c)'
      <4>1. ASSUME NEW c \in Clients, Serving(c)' PROVE FALSE
        <5>1. pc[c] \in {"wake", "recv"}
          BY <2>1, <4>1, ChannelAssumption
          DEF Inv, TypeOK, OneCallInTransit, Serving, Quiet, Queued, Replied
        <5> QED
          BY SMTT(30), <2>1, <3>1, <3>2, <4>1, <5>1 DEF Inv, OneCallInTransit, Queued, Replied, Serving
      <4> QED
        BY <4>1
    <3>4. ASSUME NEW c \in Clients PROVE callOf(c)' = callOf(c)
      <4>1. pc[c] \in {"wake", "recv"} =>
              \/ Queued(c) /\ Queued(c)'
              \/ Replied(c) /\ Replied(c)'
        BY <2>1, <3>1, <3>2, <3>3 DEF Inv, OneCallInTransit, Queued, Replied
      <4> QED
        BY SMTT(30), <1>0, <2>1, <4>1 DEF CallFacts, Inv, TypeOK
    <3> QED
      BY <3>4 DEF bar
  <2>3. CASE top.from # Own
    <3>1. stack # <<>>
      BY <1>7 DEF Finish
    <3>3. PICK c \in Clients : /\ top.from = c /\ debugsocketmutex = c
                              /\ pc[c] \in {"wake", "recv"} /\ Serving(c)
      BY <2>3, <3>1, Forwarded
    <3>4. debuggerClient' = <<c>>
      BY SMTT(30), <1>7, <2>3, <3>3 DEF Finish, Serving
    <3>5. Replied(c)'
      BY <2>1, <3>3, <3>4 DEF Inv, OneCallInTransit, Queued, Serving
    <3>6. \A d \in Clients \ {c} : callOf(d)' = callOf(d)
      BY SMTT(30), <2>1, <3>3, Others DEF callOf
    <3>7. callOf(c) = "served" /\ callOf(c)' = "answered"
      BY <1>0, <2>1, <3>3, <3>5 DEF CallFacts
    <3> QED
      BY <3>6, <3>7, StepOf
  <2> QED
    BY <2>2, <2>3
<1> QED
  BY <1>1, <1>2, <1>3, <1>4, <1>5, <1>6, <1>7 DEF Next, DebuggerThread, vars

\* The mutex, the socketpair, the semaphore and the nested dispatch together
\* implement ForwardedCalls: one call at a time, each executed exactly once
\* before its caller returns.
THEOREM Refinement == Spec => ImplementsForwardedCalls
<1>1. Inv /\ Inv' /\ [Next]_vars => [FC!Next]_[c \in Clients |-> callOf(c)]
  BY NextRefines DEF bar
<1> QED
  BY <1>1, AlwaysInv, InitRefines, PTL DEF Spec, ImplementsForwardedCalls, FC!Spec

\* Together: forwarded calls never mix, for any number of clients.
THEOREM CallsStayApart == Spec => []CallsKeptApart
  BY NestingIsBounded, CallsDoNotMix, AnswersMatch, PTL DEF CallsKeptApart
=============================================================================
