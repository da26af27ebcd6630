--------------------------- MODULE ForwardedCalls ---------------------------
(***************************************************************************)
(* What forwarding a debugger command promises, whatever the machinery     *)
(* that does it: a connection thread that is not the debugger thread hands *)
(* a call over, the debugger thread serves one forwarded call at a time,   *)
(* and every caller gets back the answer to the call it made.              *)
(*                                                                         *)
(* ceserver/api.c forwards this way in SetBreakpoint, RemoveBreakpoint,    *)
(* GetThreadContext, SuspendThread, ResumeThread, ReadProcessMemoryDebug   *)
(* and WriteProcessMemoryDebug.  DebugChannel is the mechanism; Debugger   *)
(* uses this specification as its callers.                                 *)
(***************************************************************************)
CONSTANT Clients    \* the connection threads that are not the debugger thread

VARIABLE call       \* how far each client's call has come

Init == call = [c \in Clients |-> "none"]

\* A client makes a call: it is on its way to the debugger thread.
Issue(c) ==
    /\ call[c] = "none"
    /\ call' = [call EXCEPT ![c] = "pending"]

\* The debugger thread takes the call up; no other call is in progress.
Serve(c) ==
    /\ call[c] = "pending"
    /\ \A d \in Clients : call[d] \notin {"served", "answered"}
    /\ call' = [call EXCEPT ![c] = "served"]

\* The debugger thread has executed the call and sent the answer.
Answer(c) ==
    /\ call[c] = "served"
    /\ call' = [call EXCEPT ![c] = "answered"]

\* The client has its answer.
Return(c) ==
    /\ call[c] = "answered"
    /\ call' = [call EXCEPT ![c] = "none"]

Next == \E c \in Clients : Issue(c) \/ Serve(c) \/ Answer(c) \/ Return(c)

Spec == Init /\ [][Next]_call
=============================================================================
