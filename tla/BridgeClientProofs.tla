------------------------- MODULE BridgeClientProofs -------------------------
(***************************************************************************)
(* Proofs about BridgeClient, for any workspaces and tools, any number of  *)
(* calls and any number of mishaps.                                        *)
(***************************************************************************)
EXTENDS BridgeClient, TLAPS

Roots == Workspace \cup {NoRoot}

Results == {"none", "ok", "BRIDGE_TIMEOUT", "BRIDGE_RECONNECT_REQUIRED"} \cup Unsent

Calls ==
    [tool : Tool \cup {"none"}, root : Roots,
     pc : {"idle", "link", "dial", "linked", "await", "pause", "done"},
     conn : Nat, restore : Roots, polling : BOOLEAN, retried : BOOLEAN, attempt : Nat,
     alone : BOOLEAN, result : Results]

Requests ==
    [conn : Nat, tool : Tool \cup {"none", "connect_workspace"}, root : Roots,
     at : {"none", "sent", "window", "answered"},
     answer : {"none", "ok", "tool_error", "lost"}]

Clients == [conn : Nat, root : Roots, bound : BOOLEAN, dialer : Nat]

ClientTypeOK ==
    /\ client \in Clients
    /\ call \in [Call -> Calls]
    /\ request \in [Call -> Requests]
    /\ registered \subseteq Workspace
    /\ executed \in [Call -> Nat]
    /\ mishaps \in Nat

(* The change of a call has been handed to the daemon, and no more than    *)
(* that is known of it: the call waits for its answer, or has returned     *)
(* with a result that leaves it open.                                      *)
Sent(k) ==
    \/ call[k].pc = "await" /\ call[k].restore = NoRoot
    \/ call[k].pc = "done" /\ call[k].result \notin Unsent

WriteRequest(k) == request[k].at # "none" /\ request[k].tool \in Writes

(* A request for a change, and a change, belong to a call that has sent    *)
(* it; while the request is under way nothing has been changed by it.      *)
RequestsAreSent(k) ==
    /\ WriteRequest(k) \/ executed[k] # 0 => call[k].tool \in Writes /\ Sent(k)
    /\ WriteRequest(k) /\ request[k].at # "answered" => executed[k] = 0
    /\ executed[k] <= 1

AnswersAreTrue(k) ==
    WriteRequest(k) /\ request[k].at = "answered" =>
        /\ request[k].answer = "ok" => executed[k] = 1
        /\ request[k].answer = "tool_error" => executed[k] = 0

(* A call that changes something polls only to restore its workspace, and  *)
(* what it waits for otherwise is the answer to its change.                *)
WritesWait(k) ==
    /\ call[k].pc \in {"link", "dial", "linked"} => call[k].restore = NoRoot
    /\ call[k].tool \in Writes =>
          /\ call[k].pc = "pause" \/ call[k].polling => call[k].restore # NoRoot
          /\ call[k].pc = "await" /\ call[k].restore = NoRoot /\ request[k].at # "none"
                => WriteRequest(k)
          /\ call[k].result # "none" => call[k].pc = "done"
          /\ call[k].result = "ok" => executed[k] = 1

OnceAt(k) == RequestsAreSent(k) /\ AnswersAreTrue(k) /\ WritesWait(k)

OnceInv == \A k \in Call : OnceAt(k)

-----------------------------------------------------------------------------
LEMMA IdleType == Idle \in Calls
  BY DEF Idle, Calls, Roots, Results, NoConn

LEMMA NoRequestType == NoRequest \in Requests
  BY DEF NoRequest, Requests, Roots, NoConn

LEMMA TypesInit == Init => ClientTypeOK
<1> SUFFICES ASSUME Init PROVE ClientTypeOK
  OBVIOUS
<1>1. client \in Clients
  BY DEF Init, Clients, Roots, NoConn
<1>2. registered \subseteq Workspace
  BY DEF Init
<1> QED
  BY <1>1, <1>2, IdleType, NoRequestType DEF Init, ClientTypeOK

LEMMA ReturnType ==
  ASSUME ClientTypeOK, NEW k \in Call, NEW result \in Results, Return(k, result)
  PROVE  call' \in [Call -> Calls]
<1>1. call[k].tool \in Tool \cup {"none"}
  BY DEF ClientTypeOK, Calls
<1>2. /\ [Idle EXCEPT !.tool = call[k].tool, !.pc = "done", !.result = result] \in Calls
      /\ [Idle EXCEPT !.pc = "done"] \in Calls
  BY <1>1 DEF Idle, Calls, Roots, NoConn, Results
<1> QED
  BY <1>2 DEF ClientTypeOK, Return

LEMMA SendType ==
  ASSUME ClientTypeOK, NEW k \in Call, NEW c \in Nat, NEW r \in Roots,
         NEW tool \in Tool \cup {"none", "connect_workspace"}, Send(k, c, tool, r)
  PROVE  request' \in [Call -> Requests]
<1>1. [conn |-> c, tool |-> tool, root |-> r,
       at |-> IF c \in open THEN "sent" ELSE "answered",
       answer |-> IF c \in open THEN "none" ELSE "lost"] \in Requests
  BY DEF Requests
<1> QED
  BY <1>1 DEF ClientTypeOK, Send

LEMMA ConsumedType ==
  ASSUME ClientTypeOK, NEW k \in Call, Consumed(k)
  PROVE  request' \in [Call -> Requests]
  BY NoRequestType DEF ClientTypeOK, Consumed

LEMMA AnswerType ==
  ASSUME ClientTypeOK, NEW k \in Call, NEW answer \in {"ok", "tool_error", "lost"},
         Answer(k, answer)
  PROVE  request' \in [Call -> Requests]
<1>1. [request[k] EXCEPT !.at = "answered", !.answer = answer] \in Requests
  BY DEF ClientTypeOK, Requests
<1> QED
  BY <1>1, NoRequestType DEF ClientTypeOK, Answer

LEMMA InvalidatedType ==
  ASSUME ClientTypeOK, NEW c
  PROVE  Invalidated(c) \in Clients
  BY DEF ClientTypeOK, Clients, Invalidated, NoConn

(* What a step writes into the record of its call.                         *)
LEMMA CallFields ==
  ASSUME ClientTypeOK, NEW k \in Call
  PROVE  /\ call[k] \in Calls /\ call[k].tool \in Tool \cup {"none"}
         /\ call[k].root \in Roots /\ call[k].restore \in Roots /\ call[k].conn \in Nat
         /\ client.conn \in Nat /\ client.root \in Roots
  BY DEF ClientTypeOK, Calls, Clients

LEMMA EditType ==
  ASSUME NEW c \in Calls
  PROVE  /\ \A b \in BOOLEAN : [c EXCEPT !.alone = b] \in Calls
         /\ \A b \in BOOLEAN, r \in Roots : [c EXCEPT !.restore = r, !.polling = b] \in Calls
         /\ \A n \in Nat : [c EXCEPT !.pc = "dial", !.attempt = n] \in Calls
         /\ \A r \in Roots : [c EXCEPT !.restore = r, !.pc = "await"] \in Calls
         /\ \A b \in BOOLEAN : [c EXCEPT !.pc = "pause", !.polling = b] \in Calls
  BY DEF Calls

LEMMA ClosedType ==
  ASSUME ClientTypeOK, NEW cs, Close(cs)
  PROVE  request' \in [Call -> Requests]
<1>1. \A k \in Call : [request[k] EXCEPT !.at = "answered", !.answer = "lost"] \in Requests
  BY DEF ClientTypeOK, Requests
<1> QED
  BY <1>1 DEF ClientTypeOK, Close

LEMMA TypesNext == ClientTypeOK /\ [Next]_vars => ClientTypeOK'
<1> SUFFICES ASSUME ClientTypeOK, [Next]_vars PROVE ClientTypeOK'
  OBVIOUS
<1> USE BridgeClientAssumption DEF Fine, Mishap, daemon
<1>1. ASSUME NEW k \in Call, ClientStep(k) PROVE ClientTypeOK'
  <2> USE CallFields DEF Calls, Clients, ClientTypeOK
  <2>1. CASE UseConnection(k)
    BY <2>1 DEF UseConnection
  <2>2. CASE LockReconnect(k)
    <3>1. k \in Nat
      BY BridgeClientAssumption DEF Call
    <3>2. [client EXCEPT !.dialer = k] \in Clients
      BY <3>1
    <3> HIDE DEF Calls
    <3>3. [call[k] EXCEPT !.pc = "dial", !.attempt = 0] \in Calls
      BY EditType
    <3> QED
      BY <2>2, <3>2, <3>3 DEF LockReconnect
  <2>3. CASE Reconnect(k)
    BY <2>3 DEF Reconnect
  <2>4. CASE BeginRestore(k)
    <3>1. request' \in [Call -> Requests]
      BY <2>4, SendType DEF BeginRestore
    <3> HIDE DEF Calls
    <3>2. \A j \in Call : [call[j] EXCEPT !.alone = FALSE] \in Calls
      BY EditType
    <3>3. [call[k] EXCEPT !.restore = client.root, !.pc = "await"] \in Calls
      BY EditType
    <3> QED
      BY <2>4, <3>1, <3>2, <3>3 DEF BeginRestore
  <2>5. CASE RequestTool(k)
    <3>1. request' \in [Call -> Requests]
      BY <2>5, SendType DEF RequestTool
    <3>2. call' \in [Call -> Calls]
      BY <2>5 DEF RequestTool
    <3> QED
      BY <2>5, <3>1, <3>2 DEF RequestTool
  <2>6. CASE Poll(k)
    <3>1. request' \in [Call -> Requests]
      BY <2>6, SendType DEF Poll
    <3>2. call' \in [Call -> Calls]
      BY <2>6 DEF Poll
    <3> QED
      BY <2>6, <3>1, <3>2 DEF Poll
  <2>7. CASE Restored(k)
    <3>1. request' \in [Call -> Requests]
      BY <2>7, SendType DEF Restored
    <3>2. call' \in [Call -> Calls]
      <4> HIDE DEF Calls, Clients
      <4>1. [call[k] EXCEPT !.restore = NoRoot, !.polling = FALSE] \in Calls
        BY EditType DEF Roots
      <4> QED
        BY <2>7, <4>1 DEF Restored
    <3>3. client' \in Clients
      BY <2>7 DEF Restored
    <3> QED
      BY <2>7, <3>1, <3>2, <3>3 DEF Restored
  <2>8. CASE Complete(k)
    <3>1. request' \in [Call -> Requests] /\ call' \in [Call -> Calls]
      BY <2>8, ReturnType, ConsumedType DEF Complete, Results
    <3>2. client' \in Clients
      <4>1. [client EXCEPT !.root = call[k].root, !.bound = TRUE] \in Clients
        OBVIOUS
      <4> HIDE DEF Clients
      <4> QED
        BY <2>8, <4>1 DEF Complete
    <3> QED
      BY <2>8, <3>1, <3>2 DEF Complete
  <2>9. CASE Pause(k)
    <3>1. request' \in [Call -> Requests]
      BY <2>9, ConsumedType DEF Pause
    <3>2. call' \in [Call -> Calls]
      <4> HIDE DEF Calls
      <4>1. [call[k] EXCEPT !.pc = "pause", !.polling = TRUE] \in Calls
        BY EditType
      <4> QED
        BY <2>9, <4>1 DEF Pause
    <3> QED
      BY <2>9, <3>1, <3>2 DEF Pause
  <2>10. CASE Refused(k)
    BY <2>10, ReturnType, ConsumedType DEF Refused, Results, Unsent
  <2>11. CASE ConnectionError(k)
    BY <2>11, ReturnType, ConsumedType, InvalidatedType DEF ConnectionError, Results, Unsent, Roots
  <2> QED
    BY <1>1, <2>1, <2>2, <2>3, <2>4, <2>5, <2>6, <2>7, <2>8, <2>9, <2>10, <2>11
    DEF ClientStep
<1>2. ASSUME NEW k \in Call, DaemonHandles(k) PROVE ClientTypeOK'
  BY <1>2, AnswerType DEF DaemonHandles, ClientTypeOK, Requests, Roots
<1>3. ASSUME NEW k \in Call, WindowExecutes(k) \/ WindowRefuses(k) PROVE ClientTypeOK'
  BY <1>3, AnswerType, NoRequestType DEF WindowExecutes, WindowRefuses, WindowAnswers, ClientTypeOK
<1>4. ASSUME NEW k \in Call, PollingExpires(k) PROVE ClientTypeOK'
  BY <1>4, ReturnType DEF PollingExpires, ClientTypeOK, Results, Unsent
<1>5. ASSUME NEW k \in Call, NEW tool \in Tool, NEW r \in Workspace \cup {NoRoot},
             StartCall(k, tool, r)
      PROVE  ClientTypeOK'
  <2>1. \A j \in Call : [call[j] EXCEPT !.alone = @ /\ r = NoRoot] \in Calls
    <3>1. \A j \in Call : (call[j].alone /\ r = NoRoot) \in BOOLEAN
      OBVIOUS
    <3> QED
      BY <3>1, EditType DEF ClientTypeOK
  <2>2. [Idle EXCEPT !.tool = tool, !.root = r, !.pc = "link",
                     !.alone = r # NoRoot /\ Underway = {}] \in Calls
    BY DEF Idle, Calls, Roots, Results, NoConn
  <2> QED
    BY <1>5, <2>1, <2>2 DEF StartCall, ClientTypeOK
<1>6. ASSUME NEW r \in Workspace, Register(r) PROVE ClientTypeOK'
  BY <1>6 DEF Register, ClientTypeOK
<1>7. ASSUME NEW k \in Call, ConnectFails(k) \/ HelloLost(k) \/ RequestTimesOut(k)
      PROVE  ClientTypeOK'
  BY <1>7, ReturnType
  DEF ConnectFails, HelloLost, RequestTimesOut, ClientTypeOK, Calls, Clients, Results, Unsent
<1>8. ASSUME NEW r \in Workspace, WindowGoes(r) PROVE ClientTypeOK'
  <2>1. \A k \in Call : [request[k] EXCEPT !.at = "answered", !.answer = "lost"] \in Requests
    BY DEF ClientTypeOK, Requests
  <2>2. request' \in [Call -> Requests]
    BY <1>8, <2>1 DEF WindowGoes, ClientTypeOK
  <2>3. executed' \in [Call -> Nat]
    <3>1. PICK done \in SUBSET Call :
             executed' = [k \in Call |-> executed[k] + IF k \in done THEN 1 ELSE 0]
      BY <1>8 DEF WindowGoes
    <3>2. \A k \in Call : executed[k] + (IF k \in done THEN 1 ELSE 0) \in Nat
      BY DEF ClientTypeOK
    <3> QED
      BY <3>1, <3>2
  <2>4. /\ registered' = registered \ {r} /\ mishaps' = mishaps + 1
        /\ UNCHANGED <<client, call>>
    BY <1>8 DEF WindowGoes
  <2> QED
    BY <2>2, <2>3, <2>4 DEF ClientTypeOK
<1>9. ASSUME NEW c \in Conn, ConnectionBreaks(c) PROVE ClientTypeOK'
  BY <1>9, ClosedType DEF ConnectionBreaks, ClientTypeOK
<1>10. CASE DaemonDies
  BY <1>10, ClosedType DEF DaemonDies, ClientTypeOK
<1>11. CASE UNCHANGED vars
  BY <1>11 DEF vars, ClientTypeOK
<1> QED
  BY <1>1, <1>2, <1>3, <1>4, <1>5, <1>6, <1>7, <1>8, <1>9, <1>10, <1>11 DEF Next, Trouble

-----------------------------------------------------------------------------
(* What concerns the change of a call is the same after the step.          *)
Same(k) ==
    /\ call'[k].tool = call[k].tool /\ call'[k].pc = call[k].pc
    /\ call'[k].restore = call[k].restore /\ call'[k].polling = call[k].polling
    /\ call'[k].result = call[k].result
    /\ request'[k] = request[k]
    /\ executed'[k] = executed[k]

LEMMA SameKeeps ==
  ASSUME NEW k \in Call, OnceAt(k), Same(k)
  PROVE  OnceAt(k)'
  BY DEF OnceAt, Same, RequestsAreSent, AnswersAreTrue, WritesWait, WriteRequest, Sent

LEMMA ReturnFields ==
  ASSUME ClientTypeOK, NEW k \in Call, NEW result, Return(k, result)
  PROVE  /\ call'[k].pc = "done" /\ call'[k].restore = NoRoot /\ call'[k].polling = FALSE
         /\ call[k].tool \in Writes =>
               call'[k].tool = call[k].tool /\ call'[k].result = result
         /\ call[k].tool \notin Writes =>
               call'[k].tool \notin Writes /\ call'[k].result = "none"
  BY DEF ClientTypeOK, Return, Idle, Writes

(* A call that has not sent its change returns without it, or sees its     *)
(* restore under way; a call that has sent it returns with what it knows.  *)
LEMMA ReturnKeeps ==
  ASSUME ClientTypeOK, NEW k \in Call, OnceAt(k), NEW result, Return(k, result),
         request'[k] \in {request[k], NoRequest}, executed' = executed,
         call[k].tool \in Writes /\ result \in Unsent =>
            (executed[k] = 0 /\ request'[k] = NoRequest) \/ ~Sent(k),
         call[k].tool \in Writes /\ result = "ok" => executed[k] = 1
  PROVE  OnceAt(k)'
<1>1. CASE call[k].tool \in Writes
  <2>1. /\ call'[k].pc = "done" /\ call'[k].restore = NoRoot /\ call'[k].polling = FALSE
        /\ call'[k].tool = call[k].tool /\ call'[k].result = result
    BY <1>1, ReturnFields
  <2> QED
    BY <1>1, <2>1 DEF OnceAt, RequestsAreSent, AnswersAreTrue, WritesWait, WriteRequest, Sent,
                      NoRequest
<1>2. CASE call[k].tool \notin Writes
  <2>1. /\ call'[k].pc = "done" /\ call'[k].restore = NoRoot
        /\ call'[k].tool \notin Writes
    BY <1>2, ReturnFields
  <2> QED
    BY <1>2, <2>1 DEF OnceAt, RequestsAreSent, AnswersAreTrue, WritesWait, WriteRequest,
                      NoRequest
<1> QED
  BY <1>1, <1>2

(* A call that goes on without an answer to its change has not made it.    *)
LEMMA ProgressKeeps ==
  ASSUME NEW k \in Call, OnceAt(k), ~Sent(k) \/ call[k].tool \notin Writes,
         call'[k].tool = call[k].tool, call'[k].result = call[k].result,
         call'[k].pc \in {"link", "dial", "linked", "await", "pause"},
         call'[k].pc \in {"link", "dial", "linked"} => call'[k].restore = NoRoot,
         call'[k].pc = "pause" \/ call'[k].polling =>
             call'[k].restore # NoRoot \/ call[k].tool \notin Writes,
         executed' = executed,
         \/ request'[k] \in {request[k], NoRequest} /\ call'[k].pc # "await"
         \/ /\ call'[k].pc = "await"
            /\ request'[k].tool =
                  IF call'[k].restore # NoRoot THEN "connect_workspace" ELSE call[k].tool
            /\ request'[k].at \in {"sent", "answered"}
            /\ request'[k].at = "answered" => request'[k].answer = "lost",
         call[k].pc # "done"
  PROVE  OnceAt(k)'
<1>1. ~WriteRequest(k) /\ executed[k] = 0
  BY DEF OnceAt, RequestsAreSent
<1>2. WriteRequest(k)' => /\ call'[k].pc = "await" /\ call'[k].restore = NoRoot
                          /\ request'[k].at = "answered" => request'[k].answer = "lost"
  BY <1>1 DEF WriteRequest, NoRequest, Writes
<1>3. RequestsAreSent(k)' /\ AnswersAreTrue(k)'
  BY <1>1, <1>2 DEF RequestsAreSent, AnswersAreTrue, WriteRequest, Sent, NoRequest, Writes
<1>4. WritesWait(k)'
  BY <1>1 DEF WritesWait, WriteRequest, OnceAt
<1> QED
  BY <1>3, <1>4 DEF OnceAt

LEMMA SendFields ==
  ASSUME ClientTypeOK, NEW k \in Call, NEW c, NEW tool, NEW r, Send(k, c, tool, r)
  PROVE  /\ request'[k].tool = tool
         /\ request'[k].at \in {"sent", "answered"}
         /\ request'[k].at = "answered" => request'[k].answer = "lost"
         /\ \A j \in Call \ {k} : request'[j] = request[j]
  BY DEF Send, ClientTypeOK

LEMMA OthersKept ==
  ASSUME ClientTypeOK, OnceInv, NEW k \in Call, \A j \in Call \ {k} : Same(j), OnceAt(k)'
  PROVE  OnceInv'
  BY SameKeeps DEF OnceInv

LEMMA AloneSame ==
  ASSUME ClientTypeOK, NEW j \in Call, NEW b \in BOOLEAN,
         call'[j] = [call[j] EXCEPT !.alone = b],
         request'[j] = request[j], executed'[j] = executed[j]
  PROVE  Same(j)
  BY DEF ClientTypeOK, Calls, Same

LEMMA OnceClient ==
  ASSUME ClientTypeOK, OnceInv, NEW k \in Call, ClientStep(k)
  PROVE  OnceInv'
<1> USE DEF ClientTypeOK
<1>1. OnceAt(k) /\ client.root \in Roots /\ call[k].tool \in Tool \cup {"none"}
  BY CallFields DEF OnceInv
<1>2. CASE UseConnection(k) \/ LockReconnect(k) \/ Reconnect(k)
  <2>1. \A j \in Call \ {k} : Same(j)
    BY <1>2 DEF UseConnection, LockReconnect, Reconnect, Same
  <2>2. /\ call[k].pc \in {"link", "dial"} /\ call'[k].pc \in {"linked", "dial"}
        /\ call'[k].tool = call[k].tool /\ call'[k].restore = call[k].restore
        /\ call'[k].result = call[k].result /\ call'[k].polling = call[k].polling
        /\ request' = request /\ executed' = executed
    BY <1>2 DEF UseConnection, LockReconnect, Reconnect, Calls
  <2>3. OnceAt(k)'
    BY <1>1, <2>2, ProgressKeeps DEF OnceAt, WritesWait, Sent
  <2> QED
    BY <2>1, <2>3, OthersKept
<1>3. CASE BeginRestore(k)
  <2>1. \A j \in Call \ {k} : Same(j)
    <3>1. /\ \A j \in Call \ {k} : call'[j] = [call[j] EXCEPT !.alone = FALSE]
          /\ executed' = executed
          /\ \A j \in Call \ {k} : request'[j] = request[j]
      BY <1>3, SendFields DEF BeginRestore
    <3> QED
      BY <3>1, AloneSame
  <2>2. /\ call[k].pc = "linked" /\ call'[k].pc = "await"
        /\ call'[k].tool = call[k].tool /\ call'[k].restore = client.root
        /\ client.root # NoRoot
        /\ call'[k].result = call[k].result
        /\ request'[k].tool = "connect_workspace" /\ executed' = executed
        /\ request'[k].at \in {"sent", "answered"}
        /\ request'[k].at = "answered" => request'[k].answer = "lost"
    <3>1. /\ call'[k] = [call[k] EXCEPT !.restore = client.root, !.pc = "await"]
          /\ call[k].pc = "linked" /\ client.root # NoRoot
          /\ Send(k, call[k].conn, "connect_workspace", client.root)
          /\ executed' = executed
      BY <1>3 DEF BeginRestore
    <3>2. call[k] \in Calls
      OBVIOUS
    <3> QED
      BY <3>1, <3>2, SendFields DEF Calls
  <2>3. OnceAt(k)'
    BY <1>1, <2>2, ProgressKeeps DEF OnceAt, WritesWait, Sent
  <2> QED
    BY <2>1, <2>3, OthersKept
<1>4. CASE RequestTool(k)
  <2>1. \A j \in Call \ {k} : Same(j)
    BY <1>4, SendFields DEF RequestTool, Same
  <2>2. /\ call[k].pc = "linked" /\ call'[k].pc = "await"
        /\ call'[k].tool = call[k].tool /\ call'[k].restore = call[k].restore
        /\ call'[k].result = call[k].result /\ call'[k].polling = call[k].polling
        /\ request'[k].tool = call[k].tool /\ executed' = executed
        /\ request'[k].at \in {"sent", "answered"}
        /\ request'[k].at = "answered" => request'[k].answer = "lost"
    BY <1>4, SendFields DEF RequestTool, Calls
  <2>3. OnceAt(k)'
    BY <1>1, <2>2, ProgressKeeps DEF OnceAt, WritesWait, Sent
  <2> QED
    BY <2>1, <2>3, OthersKept
<1>5. CASE Poll(k)
  <2>1. \A j \in Call \ {k} : Same(j)
    BY <1>5, SendFields DEF Poll, Same
  <2>2. /\ call[k].pc = "pause" /\ call'[k].pc = "await"
        /\ call'[k].tool = call[k].tool /\ call'[k].restore = call[k].restore
        /\ call'[k].result = call[k].result /\ call'[k].polling = call[k].polling
        /\ request'[k].tool =
              IF call[k].restore # NoRoot THEN "connect_workspace" ELSE call[k].tool
        /\ executed' = executed
        /\ request'[k].at \in {"sent", "answered"}
        /\ request'[k].at = "answered" => request'[k].answer = "lost"
    BY <1>5, SendFields DEF Poll, Restoring, Calls
  <2>3. OnceAt(k)'
    BY <1>1, <2>2, ProgressKeeps DEF OnceAt, WritesWait, Sent
  <2> QED
    BY <2>1, <2>3, OthersKept
<1>6. CASE Restored(k)
  <2>1. \A j \in Call \ {k} : Same(j)
    BY <1>6, SendFields DEF Restored, Same
  <2>2. /\ call[k].pc = "await" /\ call[k].restore # NoRoot
        /\ call'[k].pc = "await" /\ call'[k].tool = call[k].tool
        /\ call'[k].restore = NoRoot /\ call'[k].polling = FALSE
        /\ call'[k].result = call[k].result
        /\ request'[k].tool = call[k].tool /\ executed' = executed
        /\ request'[k].at \in {"sent", "answered"}
        /\ request'[k].at = "answered" => request'[k].answer = "lost"
    BY <1>6, SendFields DEF Restored, Answered, Restoring, Calls
  <2>3. OnceAt(k)'
    BY <1>1, <2>2, ProgressKeeps DEF Sent
  <2> QED
    BY <2>1, <2>3, OthersKept
<1>7. CASE Complete(k)
  <2>1. \A j \in Call \ {k} : Same(j)
    BY <1>7 DEF Complete, Return, Consumed, Same
  <2>2. /\ call[k].pc = "await" /\ call[k].restore = NoRoot
        /\ request[k].at = "answered" /\ request[k].answer = "ok"
        /\ Return(k, "ok") /\ executed' = executed
        /\ request'[k] \in {request[k], NoRequest}
    BY <1>7 DEF Complete, Answered, Restoring, Consumed
  <2>3. call[k].tool \in Writes => executed[k] = 1
    BY <1>1, <2>2 DEF OnceAt, AnswersAreTrue, WritesWait
  <2>4. OnceAt(k)'
    BY <1>1, <2>2, <2>3, ReturnKeeps DEF Unsent
  <2> QED
    BY <2>1, <2>4, OthersKept
<1>8. CASE Pause(k)
  <2>1. \A j \in Call \ {k} : Same(j)
    BY <1>8 DEF Pause, Consumed, Same
  <2>2. /\ call[k].pc = "await" /\ call'[k].pc = "pause"
        /\ call'[k].tool = call[k].tool /\ call'[k].restore = call[k].restore
        /\ call'[k].result = call[k].result
        /\ request[k].tool \notin Writes /\ request[k].at = "answered"
        /\ request'[k] \in {request[k], NoRequest} /\ executed' = executed
    BY <1>8 DEF Pause, Answered, Consumed, Writes, Calls
  <2>3. call[k].tool \in Writes => call[k].restore # NoRoot
    BY <1>1, <2>2 DEF OnceAt, WritesWait, WriteRequest
  <2>4. OnceAt(k)'
    BY <1>1, <2>2, <2>3, ProgressKeeps DEF Sent
  <2> QED
    BY <2>1, <2>4, OthersKept
<1>9. CASE Refused(k)
  <2>1. \A j \in Call \ {k} : Same(j)
    BY <1>9 DEF Refused, Return, Consumed, Same
  <2>2. /\ call[k].pc = "await" /\ request[k].at = "answered"
        /\ request[k].answer = "tool_error"
        /\ Return(k, "tool_error") /\ executed' = executed
        /\ request'[k] = NoRequest
    BY <1>9 DEF Refused, Answered, Consumed
  <2>3. call[k].tool \in Writes => executed[k] = 0 \/ ~Sent(k)
    BY <1>1, <2>2 DEF OnceAt, AnswersAreTrue, WritesWait, Sent
  <2>4. OnceAt(k)'
    BY <1>1, <2>2, <2>3, ReturnKeeps
  <2> QED
    BY <2>1, <2>4, OthersKept
<1>10. CASE ConnectionError(k)
  <2>1. \A j \in Call \ {k} : Same(j)
    BY <1>10 DEF ConnectionError, Return, Consumed, Same
  <2>2. /\ call[k].pc = "await" /\ executed' = executed
        /\ request'[k] \in {request[k], NoRequest}
    BY <1>10 DEF ConnectionError, Answered, Consumed
  <2>3. CASE ~call[k].retried /\ (Restoring(k) \/ Retryable(call[k].tool))
    <3>1. /\ call'[k].pc = "link" /\ call'[k].tool = call[k].tool
          /\ call'[k].restore = NoRoot /\ call'[k].polling = FALSE
          /\ call'[k].result = call[k].result
      BY <1>10, <2>3 DEF ConnectionError, Calls
    <3>2. ~Sent(k) \/ call[k].tool \notin Writes
      BY <2>2, <2>3 DEF Restoring, Retryable, Sent, Reads, Writes
    <3>3. OnceAt(k)'
      BY <1>1, <2>2, <3>1, <3>2, ProgressKeeps
    <3> QED
      BY <2>1, <3>3, OthersKept
  <2>4. CASE ~(~call[k].retried /\ (Restoring(k) \/ Retryable(call[k].tool)))
    <3>1. Return(k, IF Restoring(k) THEN "NOT_RESTORED" ELSE "BRIDGE_RECONNECT_REQUIRED")
      BY <1>10, <2>4 DEF ConnectionError
    <3>2. Restoring(k) => ~Sent(k)
      BY <2>2 DEF Restoring, Sent
    <3>3. OnceAt(k)'
      BY <1>1, <2>2, <3>1, <3>2, ReturnKeeps DEF Unsent
    <3> QED
      BY <2>1, <3>3, OthersKept
  <2> QED
    BY <2>3, <2>4
<1> QED
  BY <1>2, <1>3, <1>4, <1>5, <1>6, <1>7, <1>8, <1>9, <1>10 DEF ClientStep

LEMMA OnceReturns ==
  ASSUME ClientTypeOK, OnceInv, NEW k \in Call,
         ConnectFails(k) \/ HelloLost(k) \/ PollingExpires(k) \/ RequestTimesOut(k)
  PROVE  OnceInv'
<1> USE DEF ClientTypeOK
<1>1. OnceAt(k)
  BY DEF OnceInv
<1>2. \A j \in Call \ {k} : Same(j)
  BY DEF ConnectFails, HelloLost, PollingExpires, RequestTimesOut, Return, Same
<1>3. request' = request /\ executed' = executed
  BY DEF ConnectFails, HelloLost, PollingExpires, RequestTimesOut
<1>4. CASE call[k].pc = "dial" /\ \E result \in Unsent : Return(k, result)
  <2>1. PICK result \in Unsent : Return(k, result)
    BY <1>4
  <2>2. ~Sent(k) /\ result # "ok"
    BY <1>4 DEF Sent, Unsent
  <2>3. OnceAt(k)'
    BY <1>1, <1>3, <2>1, <2>2, ReturnKeeps
  <2> QED
    BY <1>2, <2>3, OthersKept
<1>5. CASE HelloLost(k) /\ call[k].attempt = 0
  <2>1. Same(k)
    BY <1>5 DEF HelloLost, Same, Calls
  <2> QED
    BY <1>1, <1>2, <2>1, SameKeeps, OthersKept
<1>6. CASE PollingExpires(k)
  <2>1. PICK result \in {"WORKSPACE_RECONNECT_FAILED", "tool_error"} : Return(k, result)
    BY <1>6 DEF PollingExpires
  <2>2. call[k].tool \in Writes => ~Sent(k)
    BY <1>1, <1>6 DEF PollingExpires, OnceAt, WritesWait, Sent
  <2>3. OnceAt(k)'
    BY <1>1, <1>3, <2>1, <2>2, ReturnKeeps
  <2> QED
    BY <1>2, <2>3, OthersKept
<1>7. CASE RequestTimesOut(k)
  <2>1. Return(k, "BRIDGE_TIMEOUT")
    BY <1>7 DEF RequestTimesOut
  <2>2. OnceAt(k)'
    BY <1>1, <1>3, <2>1, ReturnKeeps DEF Unsent
  <2> QED
    BY <1>2, <2>2, OthersKept
<1> QED
  BY <1>4, <1>5, <1>6, <1>7 DEF ConnectFails, HelloLost, Unsent

(* What the daemon and the windows do to the request of a call.            *)
LEMMA OnceDaemon ==
  ASSUME ClientTypeOK, OnceInv, NEW k \in Call,
         DaemonHandles(k) \/ WindowExecutes(k) \/ WindowRefuses(k)
  PROVE  OnceInv'
<1> USE DEF ClientTypeOK
<1>1. OnceAt(k) /\ request[k] \in Requests /\ executed[k] \in Nat
  BY DEF OnceInv
<1>2. call' = call
  BY DEF DaemonHandles, WindowExecutes, WindowRefuses, WindowAnswers
<1>3. \A j \in Call \ {k} : Same(j)
  BY <1>2 DEF DaemonHandles, WindowExecutes, WindowRefuses, WindowAnswers, Answer, Same
<1>4. CASE DaemonHandles(k)
  <2>1. /\ request[k].at = "sent" /\ executed' = executed
        /\ \/ request'[k] = NoRequest /\ call[k].pc # "await"
           \/ /\ request'[k].tool = request[k].tool
              /\ \/ request'[k].at = "window"
                 \/ /\ request'[k].at = "answered"
                    /\ \/ request'[k].answer = "tool_error"
                       \/ request[k].tool = "list_workspaces"
    <3>1. \/ /\ request[k].tool = "list_workspaces"
             /\ Answer(k, IF registered = {} THEN "tool_error" ELSE "ok")
          \/ \E target : request' = [request EXCEPT ![k].at = "window", ![k].root = target]
          \/ Answer(k, "tool_error")
      BY <1>4 DEF DaemonHandles
    <3>2. ASSUME NEW answer, Answer(k, answer)
          PROVE  \/ request'[k] = NoRequest /\ call[k].pc # "await"
                 \/ /\ request'[k].tool = request[k].tool /\ request'[k].at = "answered"
                    /\ request'[k].answer = answer
      BY <1>1, <3>2 DEF Answer, Requests
    <3>3. ASSUME NEW target, request' = [request EXCEPT ![k].at = "window", ![k].root = target]
          PROVE  request'[k].tool = request[k].tool /\ request'[k].at = "window"
      BY <1>1, <3>3 DEF Requests
    <3>4. request[k].at = "sent" /\ executed' = executed
      BY <1>4 DEF DaemonHandles
    <3> QED
      BY <3>1, <3>2, <3>3, <3>4
  <2>2. OnceAt(k)'
    BY <1>1, <1>2, <2>1
    DEF OnceAt, RequestsAreSent, AnswersAreTrue, WritesWait, WriteRequest, Sent, NoRequest, Writes
  <2> QED
    BY <1>3, <2>2, OthersKept
<1>5. CASE WindowExecutes(k) \/ WindowRefuses(k)
  <2>1. PICK answer \in {"ok", "tool_error"} : WindowAnswers(k, answer)
    BY <1>5 DEF WindowExecutes, WindowRefuses
  <2>2. /\ request[k].at = "window"
        /\ executed'[k] = IF answer = "ok" /\ request[k].tool \in Writes THEN executed[k] + 1
                          ELSE executed[k]
        /\ \/ request'[k] = NoRequest
           \/ /\ request'[k].tool = request[k].tool
              /\ request'[k].at = "answered" /\ request'[k].answer = answer
    <3>1. request[k].at = "window" /\ (Answer(k, answer) \/ request'[k] = NoRequest)
      BY <2>1 DEF WindowAnswers
    <3>2. executed'[k] = IF answer = "ok" /\ request[k].tool \in Writes THEN executed[k] + 1
                         ELSE executed[k]
      BY <1>1, <2>1 DEF WindowAnswers
    <3>3. Answer(k, answer) =>
             \/ request'[k] = NoRequest
             \/ /\ request'[k].tool = request[k].tool
                /\ request'[k].at = "answered" /\ request'[k].answer = answer
      BY <1>1 DEF Answer, Requests
    <3> QED
      BY <3>1, <3>2, <3>3
  <2>3. OnceAt(k)'
    BY <1>1, <1>2, <2>2
    DEF OnceAt, RequestsAreSent, AnswersAreTrue, WritesWait, WriteRequest, Sent, NoRequest
  <2> QED
    BY <1>3, <2>3, OthersKept
<1> QED
  BY <1>4, <1>5

(* Requests that are lost where they stand, carried out or not.            *)
LEMMA LostKeeps ==
  ASSUME ClientTypeOK, NEW k \in Call, OnceAt(k), call'[k] = call[k],
         request[k].at \in {"sent", "window"},
         request'[k] = [request[k] EXCEPT !.at = "answered", !.answer = "lost"],
         \/ executed'[k] = executed[k]
         \/ executed'[k] = executed[k] + 1 /\ request[k].tool \in Writes
  PROVE  OnceAt(k)'
<1>1. /\ request'[k].at = "answered" /\ request'[k].answer = "lost"
      /\ request'[k].tool = request[k].tool
  BY DEF ClientTypeOK, Requests
<1>2. executed[k] \in Nat
  BY DEF ClientTypeOK
<1> QED
  BY <1>1, <1>2
  DEF OnceAt, RequestsAreSent, AnswersAreTrue, WritesWait, WriteRequest, Sent

LEMMA OnceNext == ClientTypeOK /\ OnceInv /\ [Next]_vars => OnceInv'
<1> SUFFICES ASSUME ClientTypeOK, OnceInv, [Next]_vars
             PROVE  OnceInv'
  OBVIOUS
<1>1. ASSUME NEW k \in Call, ClientStep(k) \/ DaemonHandles(k) \/ WindowExecutes(k)
                                 \/ PollingExpires(k)
      PROVE  OnceInv'
  BY <1>1, OnceClient, OnceDaemon, OnceReturns
<1>2. ASSUME NEW k \in Call, NEW tool \in Tool, NEW r \in Workspace \cup {NoRoot},
             StartCall(k, tool, r)
      PROVE  OnceInv'
  <2>1. /\ call[k].pc = "idle" /\ request' = request /\ executed' = executed
        /\ call'[k] = [Idle EXCEPT !.tool = tool, !.root = r, !.pc = "link",
                                   !.alone = r # NoRoot /\ Underway = {}]
        /\ \A j \in Call \ {k} : call'[j] = [call[j] EXCEPT !.alone = @ /\ r = NoRoot]
    BY <1>2 DEF StartCall
  <2>2. \A j \in Call \ {k} : Same(j)
    <3>1. \A j \in Call : (call[j].alone /\ r = NoRoot) \in BOOLEAN
      OBVIOUS
    <3> QED
      BY <2>1, <3>1, AloneSame
  <2>3. /\ call'[k].pc = "link" /\ call'[k].restore = NoRoot /\ call'[k].polling = FALSE
        /\ call'[k].result = "none"
    BY <2>1 DEF Idle
  <2>4. OnceAt(k)'
    BY <2>1, <2>3
    DEF OnceInv, OnceAt, RequestsAreSent, AnswersAreTrue, WritesWait, WriteRequest, Sent
  <2> QED
    BY <2>2, <2>4, OthersKept
<1>3. ASSUME NEW k \in Call, ConnectFails(k) \/ HelloLost(k) \/ RequestTimesOut(k)
                                 \/ WindowRefuses(k)
      PROVE  OnceInv'
  BY <1>3, OnceReturns, OnceDaemon
<1>4. ASSUME NEW r \in Workspace, WindowGoes(r) PROVE OnceInv'
  <2>1. PICK done \in SUBSET {k \in Call : /\ request[k].at = "window"
                                          /\ request[k].tool \in Writes} :
           executed' = [k \in Call |-> executed[k] + IF k \in done THEN 1 ELSE 0]
           /\ done \subseteq {k \in Call : request[k].root = r}
    BY <1>4 DEF WindowGoes
  <2>2. ASSUME NEW k \in Call PROVE OnceAt(k)'
    <3>1. call'[k] = call[k] /\ executed[k] \in Nat /\ OnceAt(k)
      BY <1>4 DEF WindowGoes, ClientTypeOK, OnceInv
    <3>2. CASE request[k].at = "window" /\ request[k].root = r
      <4>1. request'[k] = [request[k] EXCEPT !.at = "answered", !.answer = "lost"]
        BY <1>4, <3>2 DEF WindowGoes
      <4>2. \/ executed'[k] = executed[k]
            \/ executed'[k] = executed[k] + 1 /\ request[k].tool \in Writes
        BY <2>1, <3>1
      <4> QED
        BY <3>1, <3>2, <4>1, <4>2, LostKeeps
    <3>3. CASE ~(request[k].at = "window" /\ request[k].root = r)
      <4>1. request'[k] = request[k]
        BY <1>4, <3>3 DEF WindowGoes
      <4>2. executed'[k] = executed[k]
        BY <2>1, <3>1, <3>3
      <4> QED
        BY <3>1, <4>1, <4>2, SameKeeps DEF Same
    <3> QED
      BY <3>2, <3>3
  <2> QED
    BY <2>2 DEF OnceInv
<1>5. ASSUME NEW cs, Close(cs), UNCHANGED <<call, executed>> PROVE OnceInv'
  <2>1. ASSUME NEW k \in Call PROVE OnceAt(k)'
    <3>1. OnceAt(k) /\ call'[k] = call[k] /\ executed'[k] = executed[k]
      BY <1>5 DEF OnceInv
    <3>2. \/ request'[k] = request[k]
          \/ /\ request[k].at = "sent"
             /\ request'[k] = [request[k] EXCEPT !.at = "answered", !.answer = "lost"]
      BY <1>5 DEF Close
    <3> QED
      BY <3>1, <3>2, SameKeeps, LostKeeps DEF Same
  <2> QED
    BY <2>1 DEF OnceInv
<1>6. CASE DaemonDies \/ \E c \in Conn : ConnectionBreaks(c)
  BY <1>5, <1>6 DEF DaemonDies, ConnectionBreaks
<1>7. CASE (\E r \in Workspace : Register(r)) \/ UNCHANGED vars
  <2>1. UNCHANGED <<call, request, executed>>
    BY <1>7 DEF Register, vars
  <2> QED
    BY <2>1, SameKeeps DEF OnceInv, Same
<1> QED
  BY <1>1, <1>2, <1>3, <1>4, <1>6, <1>7 DEF Next, Trouble

(* ChangesHappenOnce: whatever breaks and is retried, a change is made at  *)
(* most once, is made if the agent was told so, and is not made later if   *)
(* the agent was told that it was not sent.                                *)
THEOREM RetriesAreSafe == Spec => []ChangesHappenOnce
<1>1. Init => OnceInv
  BY DEF Init, OnceInv, OnceAt, RequestsAreSent, AnswersAreTrue, WritesWait, WriteRequest,
         Idle, NoRequest, Writes
<1>2. ClientTypeOK /\ OnceInv => ChangesHappenOnce
  BY DEF ClientTypeOK, OnceInv, OnceAt, RequestsAreSent, WritesWait, Sent, ChangesHappenOnce,
         Unsent
<1> QED
  BY <1>1, <1>2, TypesInit, TypesNext, OnceNext, PTL DEF Spec

-----------------------------------------------------------------------------
(* Where the session is.                                                   *)

ConnectRequest(k) ==
    request[k].tool = "connect_workspace" /\ request[k].at \in {"sent", "window"}

(* A connection that is not open is older than the last mishap, so that    *)
(* the next one to be made has never been used.                            *)
OpenOrOld(c) == c \in open \/ c <= mishaps

ConnectionsAreNumbered ==
    /\ mishaps <= MaxMishaps
    /\ open \subseteq 1 .. 1 + mishaps
    /\ 1 + mishaps \in open => client.conn = 1 + mishaps
    /\ OpenOrOld(client.conn)
    /\ \A k \in Call : /\ OpenOrOld(call[k].conn) /\ OpenOrOld(request[k].conn)
                       /\ call[k].pc = "dial" => client.dialer = k /\ ~Live

BindingsAreTyped ==
    /\ binding \in [Conn -> Roots \cup {"none", "stale", "refused"}]
    /\ \A c \in Conn \ open : binding[c] = "none"

(* A call has a root if it connects, and restores one if it does not.      *)
CallsAreShaped ==
    \A k \in Call :
        /\ call[k].pc \notin {"idle", "done"} =>
              (call[k].root # NoRoot <=> call[k].tool = "connect_workspace")
        /\ call[k].alone => call[k].tool = "connect_workspace"
        /\ Restoring(k) => /\ call[k].pc \in {"await", "pause"}
                           /\ call[k].tool # "connect_workspace"
                           /\ call[k].restore \in told

Target(k) == IF Restoring(k) THEN call[k].restore ELSE call[k].root

(* The request a call waits for is its own, unless it was dropped with its *)
(* connection; once it has been answered the session is bound, and if no   *)
(* other connect was under way, to the root that was asked for.            *)
Awaiting(k) ==
    \/ request[k] = NoRequest /\ call[k].conn \notin open
    \/ /\ request[k].conn = call[k].conn /\ request[k].at # "none"
       /\ request[k].tool = IF Restoring(k) THEN "connect_workspace" ELSE call[k].tool
       /\ request[k].tool = "connect_workspace" => request[k].root = Target(k)
       /\ request[k].at = "answered" =>
             /\ request[k].answer = "lost" => call[k].conn <= mishaps
             /\ /\ request[k].answer = "ok" /\ request[k].tool = "connect_workspace"
                /\ call[k].conn \in open
                => /\ binding[call[k].conn] # "none"
                   /\ call[k].alone /\ binding[call[k].conn] \in Workspace =>
                         binding[call[k].conn] = call[k].root

(* Of a connect that no call waits for any more, the agent was told.       *)
RequestsAreKnown ==
    \A k \in Call :
        /\ call[k].pc = "await" => Awaiting(k)
        /\ call[k].pc # "await" /\ ConnectRequest(k) /\ request[k].conn \in open =>
              request[k].root \in told

AloneIsAlone ==
    \A k, j \in Call :
        call[k].alone /\ j # k => Connecting(j) = {} /\ ~ConnectRequest(j)

(* The client's session is bound to a root the agent was told of, or one   *)
(* that a call is connecting it to.                                        *)
Explained(c) ==
    \/ binding[c] \in told
    \/ \E k \in Call : /\ call[k].conn = c /\ call[k].pc \in {"await", "pause"}
                       /\ binding[c] \in {call[k].root, call[k].restore} \ {NoRoot}

SessionIsKnown ==
    /\ client.root # NoRoot => client.root \in told
    /\ Live => /\ client.bound => binding[client.conn] # "none"
               /\ binding[client.conn] \in Workspace => Explained(client.conn)

SessionInv ==
    /\ ClientTypeOK /\ ConnectionsAreNumbered /\ BindingsAreTyped /\ CallsAreShaped
    /\ RequestsAreKnown /\ AloneIsAlone /\ SessionIsKnown

-----------------------------------------------------------------------------
(* How a step moves its call, and what it leaves of it.                    *)
Moved(k, pc, conn, restore) ==
    /\ call'[k].pc = pc /\ call'[k].conn = conn /\ call'[k].restore = restore
    /\ call'[k].root = call[k].root /\ call'[k].tool = call[k].tool
    /\ call'[k].alone = call[k].alone
    /\ \A j \in Call \ {k} : call'[j] = call[j]

Returned(k) ==
    /\ call'[k].pc = "done" /\ call'[k].conn = NoConn /\ call'[k].restore = NoRoot
    /\ call'[k].root = NoRoot /\ ~call'[k].alone
    /\ \A j \in Call \ {k} : call'[j] = call[j]

LEMMA ReturnMoves ==
  ASSUME ClientTypeOK, NEW k \in Call, NEW result, Return(k, result)
  PROVE  Returned(k)
  BY DEF ClientTypeOK, Return, Idle, Returned

(* The request a call sends.                                               *)
Requested(k, c, tool, r) ==
    /\ request'[k].conn = c /\ request'[k].tool = tool /\ request'[k].root = r
    /\ request'[k].at = IF c \in open THEN "sent" ELSE "answered"
    /\ request'[k].answer = IF c \in open THEN "none" ELSE "lost"
    /\ \A j \in Call \ {k} : request'[j] = request[j]

LEMMA SendRequests ==
  ASSUME ClientTypeOK, NEW k \in Call, NEW c, NEW tool, NEW r, Send(k, c, tool, r)
  PROVE  Requested(k, c, tool, r)
  BY DEF Send, ClientTypeOK, Requested

LEMMA Numbers ==
  ASSUME SessionInv
  PROVE  /\ mishaps \in Nat /\ MaxMishaps \in Nat /\ client.conn \in Nat
         /\ 1 + mishaps \in Conn /\ open \subseteq Conn /\ NoConn \notin open
         /\ NoConn <= mishaps
         /\ \A k \in Call : call[k].conn \in Nat /\ request[k].conn \in Nat /\ k # 0
<1>1. mishaps \in Nat /\ MaxMishaps \in Nat /\ client.conn \in Nat
      /\ \A k \in Call : call[k].conn \in Nat /\ request[k].conn \in Nat
  BY BridgeClientAssumption DEF SessionInv, ClientTypeOK, Clients, Calls, Requests
<1> QED
  BY <1>1 DEF SessionInv, ConnectionsAreNumbered, Conn, NoConn, Call

LEMMA LinkSteps ==
  ASSUME SessionInv, NEW k \in Call,
         UseConnection(k) \/ LockReconnect(k) \/ Reconnect(k)
  PROVE  /\ ConnectionsAreNumbered' /\ BindingsAreTyped' /\ CallsAreShaped'
         /\ RequestsAreKnown' /\ AloneIsAlone' /\ SessionIsKnown'
<1> USE DEF SessionInv
<1>1. CASE UseConnection(k)
  <2>1. /\ call[k].pc = "link" /\ Moved(k, "linked", client.conn, call[k].restore) /\ Live
        /\ UNCHANGED <<client, request, open, binding, registered, executed, told, mishaps>>
    BY <1>1 DEF UseConnection, Moved, ClientTypeOK, Calls, Fine, daemon
  <2>2. ConnectionsAreNumbered' /\ BindingsAreTyped' /\ CallsAreShaped'
    BY <2>1 DEF ConnectionsAreNumbered, BindingsAreTyped, CallsAreShaped, Moved, Restoring, Live, OpenOrOld
  <2>3. RequestsAreKnown'
    BY <2>1 DEF RequestsAreKnown, Awaiting, Moved, Restoring, ConnectRequest, Target
  <2>4. AloneIsAlone'
    BY <2>1 DEF AloneIsAlone, Moved, Connecting, ConnectRequest
  <2>5. SessionIsKnown'
    BY <2>1 DEF SessionIsKnown, Explained, Moved, Live
  <2> QED
    BY <2>2, <2>3, <2>4, <2>5
<1>2. CASE LockReconnect(k)
  <2>1. /\ call[k].pc = "link" /\ Moved(k, "dial", call[k].conn, call[k].restore) /\ ~Live
        /\ client.dialer = 0 /\ client'.dialer = k /\ client'.conn = client.conn
        /\ client'.bound = client.bound /\ client'.root = client.root
        /\ UNCHANGED <<request, open, binding, registered, executed, told, mishaps>>
    BY <1>2 DEF LockReconnect, Moved, ClientTypeOK, Calls, Clients, Fine, daemon
  <2>2. ConnectionsAreNumbered'
    BY <2>1, Numbers DEF ConnectionsAreNumbered, Moved, Live, OpenOrOld
  <2>3. BindingsAreTyped' /\ CallsAreShaped'
    BY <2>1 DEF BindingsAreTyped, CallsAreShaped, Moved, Restoring
  <2>4. RequestsAreKnown'
    BY <2>1 DEF RequestsAreKnown, Awaiting, Moved, Restoring, ConnectRequest, Target
  <2>5. AloneIsAlone'
    BY <2>1 DEF AloneIsAlone, Moved, Connecting, ConnectRequest
  <2>6. SessionIsKnown'
    BY <2>1 DEF SessionIsKnown, Explained, Moved, Live
  <2> QED
    BY <2>2, <2>3, <2>4, <2>5, <2>6
<1>3. CASE Reconnect(k)
  <2> DEFINE c == 1 + mishaps
  <2>1. /\ call[k].pc = "dial" /\ Moved(k, "linked", c, call[k].restore)
        /\ client'.dialer = 0 /\ client'.conn = c
        /\ client'.bound = FALSE /\ client'.root = client.root
        /\ open' = open \cup {c}
        /\ UNCHANGED <<request, binding, registered, executed, told, mishaps>>
    BY <1>3 DEF Reconnect, Moved, ClientTypeOK, Calls, Clients, Fine
  <2>2. ~Live /\ c \notin open /\ c \in Conn
    BY <2>1, Numbers DEF ConnectionsAreNumbered, Live
  <2>3. \A d \in Nat : OpenOrOld(d) => OpenOrOld(d)' /\ d # c
    BY <2>1, <2>2, Numbers DEF OpenOrOld
  <2>4. ConnectionsAreNumbered'
    <3>1. \A j \in Call : call'[j].pc # "dial"
      BY <2>1 DEF Moved, ConnectionsAreNumbered
    <3>2. open' \subseteq 1 .. 1 + mishaps
      <4>1. c \in 1 .. 1 + mishaps
        BY Numbers
      <4> QED
        BY <2>1, <4>1 DEF ConnectionsAreNumbered
    <3>3. \A j \in Call : OpenOrOld(call[j].conn)' /\ OpenOrOld(request[j].conn)'
      <4> SUFFICES ASSUME NEW j \in Call
                   PROVE  OpenOrOld(call[j].conn)' /\ OpenOrOld(request[j].conn)'
        OBVIOUS
      <4>1. OpenOrOld(call[j].conn) /\ OpenOrOld(request[j].conn)
        BY DEF ConnectionsAreNumbered
      <4>2. call'[j].conn \in {call[j].conn, c}
        BY <2>1 DEF Moved
      <4> QED
        BY <2>1, <4>1, <4>2 DEF OpenOrOld
    <3> QED
      BY <2>1, <2>2, <3>1, <3>2, <3>3 DEF ConnectionsAreNumbered, OpenOrOld
  <2>5. BindingsAreTyped' /\ CallsAreShaped'
    BY <2>1, <2>2 DEF BindingsAreTyped, CallsAreShaped, Moved, Restoring
  <2>6. RequestsAreKnown'
    BY <2>1, <2>2, <2>3, Numbers
    DEF RequestsAreKnown, Awaiting, Moved, Restoring, ConnectRequest, Target, ConnectionsAreNumbered
  <2>7. AloneIsAlone'
    BY <2>1 DEF AloneIsAlone, Moved, Connecting, ConnectRequest
  <2>8. SessionIsKnown'
    <3>1. binding[c] = "none"
      BY <2>2 DEF BindingsAreTyped
    <3> QED
      BY <2>1, <3>1, BridgeClientAssumption DEF SessionIsKnown
  <2> QED
    BY <2>4, <2>5, <2>6, <2>7, <2>8
<1> QED
  BY <1>1, <1>2, <1>3

(* A call that sends a request, its own or one to restore its workspace:   *)
(* of the others no more than being alone may change.                      *)
Sends(k, restore) ==
    /\ call'[k].pc = "await" /\ call'[k].conn = call[k].conn /\ call'[k].restore = restore
    /\ call'[k].root = call[k].root /\ call'[k].tool = call[k].tool
    /\ call'[k].alone = call[k].alone
    /\ \A j \in Call \ {k} :
          /\ call'[j].pc = call[j].pc /\ call'[j].conn = call[j].conn
          /\ call'[j].restore = call[j].restore /\ call'[j].root = call[j].root
          /\ call'[j].tool = call[j].tool
          /\ call'[j].alone => call[j].alone /\ (restore = NoRoot \/ restore = call[k].restore)

LEMMA SendSteps ==
  ASSUME SessionInv, NEW k \in Call, NEW tool, NEW r, NEW restore \in Roots,
         call[k].pc \in {"linked", "pause", "await"},
         Requested(k, call[k].conn, tool, r),
         Sends(k, restore),
         tool = IF restore # NoRoot THEN "connect_workspace" ELSE call[k].tool,
         tool = "connect_workspace" =>
            r = (IF restore # NoRoot THEN restore ELSE call[k].root),
         restore # NoRoot => restore \in told /\ call[k].tool # "connect_workspace",
         client'.conn = client.conn, client'.root = client.root,
         client'.dialer = client.dialer,
         client'.bound /\ Live => binding[client.conn] # "none",
         UNCHANGED <<open, binding, told, mishaps>>
  PROVE  /\ ConnectionsAreNumbered' /\ BindingsAreTyped' /\ CallsAreShaped'
         /\ RequestsAreKnown' /\ AloneIsAlone' /\ SessionIsKnown'
<1> USE DEF SessionInv
<1>1. ConnectionsAreNumbered'
  <2>1. ASSUME NEW j \in Call
        PROVE  /\ OpenOrOld(call[j].conn)' /\ OpenOrOld(request[j].conn)'
               /\ call'[j].pc = "dial" => client.dialer = j /\ ~Live
    BY DEF ConnectionsAreNumbered, Sends, Requested, OpenOrOld
  <2> QED
    BY <2>1 DEF ConnectionsAreNumbered, OpenOrOld, Live
<1>2. BindingsAreTyped'
  BY DEF BindingsAreTyped
<1>3. CallsAreShaped'
  BY DEF CallsAreShaped, Sends, Restoring
<1>4. RequestsAreKnown'
  <2>1. Awaiting(k)'
    <3>1. call[k].conn \notin open => call[k].conn <= mishaps
      BY DEF ConnectionsAreNumbered, OpenOrOld
    <3> QED
      BY <3>1 DEF Awaiting, Sends, Requested, Restoring, Target
  <2>2. ASSUME NEW j \in Call \ {k}
        PROVE  /\ call'[j].pc = "await" => Awaiting(j)'
               /\ call'[j].pc # "await" /\ ConnectRequest(j)' /\ request'[j].conn \in open' =>
                     request'[j].root \in told'
    BY DEF RequestsAreKnown, Awaiting, Sends, Requested, Restoring, Target, ConnectRequest
  <2> QED
    BY <2>1, <2>2 DEF RequestsAreKnown, Sends
<1>5. AloneIsAlone'
  <2>1. ASSUME NEW i \in Call, NEW j \in Call, call'[i].alone, j # i
        PROVE  Connecting(j)' = {} /\ ~ConnectRequest(j)'
    <3>1. call[i].alone /\ Connecting(j) = {} /\ ~ConnectRequest(j)
      BY <2>1 DEF AloneIsAlone, Sends
    <3>2. CASE j # k
      BY <3>1, <3>2 DEF Sends, Requested, Connecting, ConnectRequest
    <3>3. CASE j = k
      <4>1. call[k].root = NoRoot /\ call[k].restore = NoRoot
        BY <3>1, <3>3 DEF Connecting
      <4>2. restore = NoRoot
        BY <2>1, <3>3, <4>1 DEF Sends
      <4>3. tool # "connect_workspace"
        BY <4>1, <4>2 DEF CallsAreShaped
      <4> QED
        BY <3>3, <4>1, <4>2, <4>3 DEF Sends, Requested, Connecting, ConnectRequest
    <3> QED
      BY <3>2, <3>3
  <2> QED
    BY <2>1 DEF AloneIsAlone
<1>6. SessionIsKnown'
  <2>1. Explained(client.conn) => Explained(client.conn)'
    <3>1. call[k].restore # NoRoot => call[k].restore \in told
      BY DEF CallsAreShaped, Restoring
    <3> QED
      BY <3>1 DEF Explained, Sends
  <2> QED
    BY <2>1 DEF SessionIsKnown, Live
<1> QED
  BY <1>1, <1>2, <1>3, <1>4, <1>5, <1>6

LEMMA AwaitSteps ==
  ASSUME SessionInv, NEW k \in Call,
         BeginRestore(k) \/ RequestTool(k) \/ Poll(k) \/ Restored(k)
  PROVE  /\ ConnectionsAreNumbered' /\ BindingsAreTyped' /\ CallsAreShaped'
         /\ RequestsAreKnown' /\ AloneIsAlone' /\ SessionIsKnown'
<1> USE DEF SessionInv
<1>1. client.root \in Roots /\ call[k].restore \in Roots /\ NoRoot \in Roots
  BY DEF ClientTypeOK, Clients, Calls, Roots
<1>2. CASE BeginRestore(k)
  <2>1. /\ call[k].pc = "linked" /\ client.root # NoRoot /\ ~client.bound
        /\ call[k].tool # "connect_workspace"
        /\ Requested(k, call[k].conn, "connect_workspace", client.root)
        /\ UNCHANGED <<client, open, binding, told, mishaps>>
    BY <1>2, SendRequests DEF BeginRestore, NeedsWorkspace, Fine, daemon
  <2>2. Sends(k, client.root)
    <3>1. /\ call'[k] = [call[k] EXCEPT !.restore = client.root, !.pc = "await"]
          /\ \A j \in Call \ {k} : call'[j] = [call[j] EXCEPT !.alone = FALSE]
      BY <1>2 DEF BeginRestore
    <3>2. \A j \in Call : call[j] \in Calls
      BY DEF ClientTypeOK
    <3>3. /\ call'[k].pc = "await" /\ call'[k].conn = call[k].conn
          /\ call'[k].restore = client.root /\ call'[k].root = call[k].root
          /\ call'[k].tool = call[k].tool /\ call'[k].alone = call[k].alone
      BY <3>1, <3>2 DEF Calls
    <3>4. ASSUME NEW j \in Call \ {k}
          PROVE  /\ call'[j].pc = call[j].pc /\ call'[j].conn = call[j].conn
                 /\ call'[j].restore = call[j].restore /\ call'[j].root = call[j].root
                 /\ call'[j].tool = call[j].tool /\ ~call'[j].alone
      <4>1. call'[j] = [call[j] EXCEPT !.alone = FALSE] /\ call[j] \in Calls
        BY <3>1, <3>2
      <4> QED
        BY <4>1 DEF Calls
    <3> QED
      BY <3>3, <3>4 DEF Sends
  <2>3. client.root \in told
    BY <2>1 DEF SessionIsKnown
  <2> QED
    BY <1>1, <2>1, <2>2, <2>3, SendSteps
<1>3. CASE RequestTool(k)
  <2>1. /\ call[k].pc = "linked" /\ call[k].restore = NoRoot
        /\ Requested(k, call[k].conn, call[k].tool, call[k].root)
        /\ UNCHANGED <<client, open, binding, told, mishaps>>
    BY <1>3, SendRequests DEF RequestTool, Fine, daemon, CallsAreShaped, Restoring
  <2>2. Sends(k, NoRoot)
    BY <1>3, <2>1 DEF RequestTool, Sends, ClientTypeOK, Calls
  <2> QED
    BY <1>1, <2>1, <2>2, SendSteps DEF SessionIsKnown
<1>4. CASE Poll(k)
  <2>1. /\ call[k].pc = "pause"
        /\ UNCHANGED <<client, open, binding, told, mishaps>>
        /\ IF call[k].restore # NoRoot
           THEN Requested(k, call[k].conn, "connect_workspace", call[k].restore)
           ELSE Requested(k, call[k].conn, call[k].tool, call[k].root)
    BY <1>4, SendRequests DEF Poll, Restoring, Fine, daemon
  <2>2. Sends(k, call[k].restore)
    BY <1>4 DEF Poll, Sends, ClientTypeOK, Calls
  <2>3. call[k].restore # NoRoot =>
           call[k].restore \in told /\ call[k].tool # "connect_workspace"
    BY DEF CallsAreShaped, Restoring
  <2> QED
    BY <1>1, <2>1, <2>2, <2>3, SendSteps DEF SessionIsKnown
<1>5. CASE Restored(k)
  <2>1. /\ call[k].pc = "await" /\ call[k].restore # NoRoot
        /\ request[k].at = "answered" /\ request[k].answer = "ok"
        /\ Requested(k, call[k].conn, call[k].tool, call[k].root)
        /\ UNCHANGED <<open, binding, told, mishaps>>
        /\ client' = IF Current(call[k].conn) THEN [client EXCEPT !.bound = TRUE] ELSE client
    BY <1>5, SendRequests DEF Restored, Answered, Restoring, Fine, daemon
  <2>2. Sends(k, NoRoot)
    <3>1. /\ call'[k] = [call[k] EXCEPT !.restore = NoRoot, !.polling = FALSE]
          /\ call[k] \in Calls
          /\ \A j \in Call \ {k} : call'[j] = call[j]
      BY <1>5 DEF Restored, ClientTypeOK
    <3>2. /\ call'[k].pc = call[k].pc /\ call'[k].conn = call[k].conn
          /\ call'[k].restore = NoRoot /\ call'[k].root = call[k].root
          /\ call'[k].tool = call[k].tool /\ call'[k].alone = call[k].alone
      BY <3>1 DEF Calls
    <3> QED
      BY <2>1, <3>1, <3>2 DEF Sends
  <2>3. /\ client'.conn = client.conn /\ client'.root = client.root
        /\ client'.dialer = client.dialer
        /\ client'.bound => client.bound \/ Current(call[k].conn)
    BY <2>1 DEF ClientTypeOK, Clients
  <2>4. Current(call[k].conn) /\ Live => binding[client.conn] # "none"
    BY <2>1 DEF RequestsAreKnown, Awaiting, Restoring, Current, Live, NoRequest
  <2> QED
    BY <1>1, <2>1, <2>2, <2>3, <2>4, SendSteps DEF SessionIsKnown
<1> QED
  BY <1>2, <1>3, <1>4, <1>5

(* A call that returns: of what it may have bound the session to, the      *)
(* agent is told, or the connection is not the client's any more.          *)
LEMMA ReturnSteps ==
  ASSUME SessionInv, NEW k \in Call, Returned(k),
         request'[k] = request[k] \/ request'[k] = NoRequest,
         \A j \in Call \ {k} : request'[j] = request[j],
         ConnectRequest(k) /\ request'[k] = request[k] /\ request[k].conn \in open =>
            request[k].root \in told',
         told \subseteq told' \/ call[k].alone,
         client'.root # NoRoot => client'.root \in told',
         client'.conn = client.conn \/ (client'.conn = NoConn /\ client.conn <= mishaps),
         client'.dialer = client.dialer \/ call[k].pc = "dial",
         client'.conn \in open =>
            /\ client'.bound => binding[client'.conn] # "none"
            /\ \/ /\ told \subseteq told'
                  /\ \/ {call[k].root, call[k].restore} \ {NoRoot} \subseteq told'
                     \/ client.conn # call[k].conn
                     \/ call[k].pc \notin {"await", "pause"}
               \/ binding[client'.conn] \in Workspace => binding[client'.conn] \in told',
         mishaps' = mishaps \/ Mishap,
         UNCHANGED <<open, binding>>
  PROVE  /\ ConnectionsAreNumbered' /\ BindingsAreTyped' /\ CallsAreShaped'
         /\ RequestsAreKnown' /\ AloneIsAlone' /\ SessionIsKnown'
<1> USE DEF SessionInv
<1> DEFINE n == mishaps'
<1>1. /\ n \in Nat /\ mishaps <= n /\ n <= MaxMishaps
      /\ \A c \in Nat : OpenOrOld(c) => OpenOrOld(c)'
      /\ OpenOrOld(NoConn)'
      /\ 1 + n \in open => n = mishaps
      /\ open \subseteq 1 .. 1 + n
  BY Numbers DEF Mishap, OpenOrOld, ConnectionsAreNumbered, NoConn
<1>2. NoConn \notin open
  BY Numbers
<1>3. ConnectionsAreNumbered'
  <2>1. ASSUME NEW j \in Call
        PROVE  /\ OpenOrOld(call[j].conn)' /\ OpenOrOld(request[j].conn)'
               /\ call'[j].pc = "dial" => client'.dialer = j /\ client'.conn \notin open
    <3>1. /\ OpenOrOld(call[j].conn)
          /\ OpenOrOld(request[j].conn) /\ call[j].conn \in Nat /\ request[j].conn \in Nat
          /\ call[j].pc = "dial" => client.dialer = j /\ client.conn \notin open
      BY Numbers DEF ConnectionsAreNumbered, Live
    <3>2. call'[j] = call[j] \/ (j = k /\ call'[j].conn = NoConn /\ call'[j].pc = "done")
      BY DEF Returned
    <3>3. request'[j].conn = request[j].conn \/ request'[j].conn = NoConn
      BY DEF NoRequest
    <3>4. call[k].pc = "dial" => client.dialer = k
      BY DEF ConnectionsAreNumbered
    <3>5. OpenOrOld(call[j].conn)' /\ OpenOrOld(request[j].conn)'
      <4>1. OpenOrOld(call[j].conn) => (call[j].conn \in open \/ call[j].conn <= n)
        BY <1>1, <3>1 DEF OpenOrOld
      <4>2. OpenOrOld(request[j].conn) => (request[j].conn \in open \/ request[j].conn <= n)
        BY <1>1, <3>1 DEF OpenOrOld
      <4>3. NoConn <= n
        BY <1>1 DEF NoConn
      <4> QED
        BY <3>1, <3>2, <3>3, <4>1, <4>2, <4>3 DEF OpenOrOld
    <3>6. call'[j].pc = "dial" => client'.dialer = j /\ client'.conn \notin open
      BY <1>2, <3>1, <3>2, <3>4 DEF Returned
    <3> QED
      BY <3>5, <3>6
  <2>2. OpenOrOld(client.conn)' /\ (1 + n \in open => client'.conn = 1 + n)
    <3>1. OpenOrOld(client.conn) /\ (1 + mishaps \in open => client.conn = 1 + mishaps)
      BY DEF ConnectionsAreNumbered
    <3>2. client.conn \in Nat
      BY Numbers
    <3> QED
      BY <1>1, <3>1, <3>2, Numbers
  <2>3. \A c \in Conn \ open : binding[c] = "none"
    BY DEF BindingsAreTyped
  <2> QED
    BY <1>1, <2>1, <2>2 DEF ConnectionsAreNumbered, Live
<1>4. BindingsAreTyped'
  BY DEF BindingsAreTyped
<1>5. ASSUME NEW j \in Call \ {k}
      PROVE  /\ Restoring(j) => call[j].restore \in told'
             /\ ConnectRequest(j) /\ call[j].pc # "await" /\ request[j].conn \in open =>
                   request[j].root \in told'
  <2>1. CASE told \subseteq told'
    BY <2>1 DEF CallsAreShaped, RequestsAreKnown
  <2>2. CASE call[k].alone
    <3>1. Connecting(j) = {} /\ ~ConnectRequest(j)
      BY <2>2 DEF AloneIsAlone
    <3>2. ~Restoring(j)
      BY <3>1 DEF Connecting, Restoring, CallsAreShaped
    <3> QED
      BY <3>1, <3>2
  <2> QED
    BY <2>1, <2>2
<1>6. CallsAreShaped'
  BY <1>5 DEF CallsAreShaped, Returned, Restoring
<1>7. RequestsAreKnown'
  <2>1. ASSUME NEW j \in Call \ {k}, call'[j].pc = "await"
        PROVE  Awaiting(j)'
    <3>1. call'[j] = call[j] /\ request'[j] = request[j] /\ Awaiting(j)
      BY <2>1 DEF Returned, RequestsAreKnown
    <3>2. call[j].conn <= mishaps => call[j].conn <= mishaps'
      BY <1>1, Numbers
    <3> QED
      BY <3>1, <3>2 DEF Awaiting, Restoring, Target
  <2> QED
    BY <1>5, <2>1 DEF RequestsAreKnown, Returned, ConnectRequest, NoRequest
<1>8. AloneIsAlone'
  BY DEF AloneIsAlone, Returned, Connecting, ConnectRequest, NoRequest
<1>9. SessionIsKnown'
  <2>1. ASSUME client'.conn \in open, binding[client'.conn] \in Workspace,
               binding[client'.conn] \notin told'
        PROVE  Explained(client.conn)'
    <3>1. /\ client'.conn = client.conn /\ told \subseteq told'
          /\ \/ {call[k].root, call[k].restore} \ {NoRoot} \subseteq told'
             \/ client.conn # call[k].conn
             \/ call[k].pc \notin {"await", "pause"}
      BY <1>2, <2>1
    <3>2. PICK j \in Call :
             /\ call[j].conn = client.conn /\ call[j].pc \in {"await", "pause"}
             /\ binding[client.conn] \in {call[j].root, call[j].restore} \ {NoRoot}
      BY <2>1, <3>1 DEF SessionIsKnown, Explained, Live
    <3>3. j # k
      BY <2>1, <3>1, <3>2
    <3> QED
      BY <3>1, <3>2, <3>3 DEF Explained, Returned
  <2> QED
    BY <2>1 DEF SessionIsKnown, Explained, Live
<1> QED
  BY <1>3, <1>4, <1>6, <1>7, <1>8, <1>9

LEMMA EndSteps ==
  ASSUME SessionInv, NEW k \in Call,
         \/ ConnectFails(k) \/ PollingExpires(k) \/ RequestTimesOut(k)
         \/ Complete(k) \/ Refused(k)
  PROVE  /\ ConnectionsAreNumbered' /\ BindingsAreTyped' /\ CallsAreShaped'
         /\ RequestsAreKnown' /\ AloneIsAlone' /\ SessionIsKnown'
<1> USE DEF SessionInv
<1> DEFINE roots == {call[k].root, call[k].restore} \ {NoRoot}
<1>1. SessionIsKnown /\ CallsAreShaped /\ (call[k].pc = "dial" => ~Live)
  BY DEF ConnectionsAreNumbered
<1>2. CASE ConnectFails(k)
  <2>1. /\ call[k].pc = "dial" /\ ~Live /\ Returned(k) /\ Mishap
        /\ client'.conn = client.conn /\ client'.root = client.root
        /\ UNCHANGED <<request, open, binding, told>>
    BY <1>1, <1>2, ReturnMoves DEF ConnectFails, daemon, ClientTypeOK, Clients
  <2>2. ConnectRequest(k) /\ request[k].conn \in open => request[k].root \in told
    BY <2>1 DEF RequestsAreKnown
  <2> QED
    BY <1>1, <2>1, <2>2, ReturnSteps DEF SessionIsKnown, Live
<1>3. CASE PollingExpires(k) \/ RequestTimesOut(k)
  <2>1. /\ call[k].pc \in {"pause", "await"} /\ Returned(k) /\ (Mishap \/ mishaps' = mishaps)
        /\ told' = told \cup roots
        /\ UNCHANGED <<client, request, open, binding>>
    BY <1>3, ReturnMoves DEF PollingExpires, RequestTimesOut, Connecting, daemon, Fine
  <2>2. ConnectRequest(k) /\ request[k].conn \in open => request[k].root \in told'
    <3>1. CASE call[k].pc = "await"
      <4>1. ConnectRequest(k) => request[k].root = Target(k) /\ Target(k) # NoRoot
        <5>1. ConnectRequest(k) =>
                 /\ request[k].root = Target(k)
                 /\ Restoring(k) \/ call[k].tool = "connect_workspace"
          BY <3>1 DEF RequestsAreKnown, Awaiting, ConnectRequest, NoRequest
        <5> QED
          BY <3>1, <5>1 DEF CallsAreShaped, Restoring, Target
      <4> QED
        BY <2>1, <4>1 DEF Target
    <3>2. CASE call[k].pc # "await"
      BY <2>1, <3>2 DEF RequestsAreKnown
    <3> QED
      BY <3>1, <3>2
  <2> QED
    BY <1>1, <2>1, <2>2, ReturnSteps DEF SessionIsKnown, Live
<1>4. CASE Complete(k)
  <2>1. /\ call[k].pc = "await" /\ call[k].restore = NoRoot
        /\ request[k].at = "answered" /\ request[k].answer = "ok"
        /\ Returned(k) /\ mishaps' = mishaps
        /\ request' = [request EXCEPT ![k] = NoRequest]
        /\ UNCHANGED <<open, binding>>
    BY <1>4, ReturnMoves DEF Complete, Answered, Restoring, Consumed, daemon, Fine
  <2>2. request'[k] = NoRequest /\ \A j \in Call \ {k} : request'[j] = request[j]
    BY <2>1 DEF ClientTypeOK
  <2>3. CASE call[k].tool # "connect_workspace"
    <3>1. UNCHANGED <<client, told>> /\ roots = {}
      BY <1>1, <1>4, <2>1, <2>3 DEF Complete, CallsAreShaped
    <3> QED
      BY <1>1, <2>1, <2>2, <3>1, ReturnSteps DEF SessionIsKnown, Live, NoRequest, ConnectRequest
  <2>4. CASE call[k].tool = "connect_workspace" /\ ~Current(call[k].conn)
    <3>1. UNCHANGED client /\ told' = told \cup {call[k].root}
      BY <1>4, <2>4 DEF Complete
    <3> QED
      BY <1>1, <2>1, <2>2, <3>1, ReturnSteps
      DEF SessionIsKnown, Live, NoRequest, ConnectRequest, Current
  <2>5. CASE call[k].tool = "connect_workspace" /\ Current(call[k].conn)
    <3>1. /\ client'.conn = client.conn /\ client'.root = call[k].root
          /\ client'.dialer = client.dialer
          /\ call[k].root \in told'
          /\ \/ told' = told \cup {call[k].root}
             \/ call[k].alone /\ told' = {call[k].root}
      BY <1>4, <2>5 DEF Complete, ClientTypeOK, Clients
    <3>2. client.conn \in open =>
             /\ binding[client.conn] # "none"
             /\ call[k].alone /\ binding[client.conn] \in Workspace =>
                   binding[client.conn] = call[k].root
      BY <2>1, <2>5 DEF RequestsAreKnown, Awaiting, Restoring, Current, NoRequest
    <3> QED
      BY <2>1, <2>2, <3>1, <3>2, ReturnSteps DEF NoRequest, ConnectRequest
  <2> QED
    BY <2>3, <2>4, <2>5
<1>5. CASE Refused(k)
  <2>1. /\ call[k].pc = "await"
        /\ request[k].at = "answered" /\ request[k].tool # "connect_workspace"
        /\ Returned(k) /\ mishaps' = mishaps
        /\ request' = [request EXCEPT ![k] = NoRequest]
        /\ UNCHANGED <<client, told, open, binding>>
    BY <1>5, ReturnMoves DEF Refused, Answered, Consumed, daemon, Fine
  <2>2. request'[k] = NoRequest /\ \A j \in Call \ {k} : request'[j] = request[j]
    BY <2>1 DEF ClientTypeOK
  <2>3. roots = {}
    BY <2>1 DEF RequestsAreKnown, Awaiting, Restoring, CallsAreShaped, NoRequest
  <2> QED
    BY <1>1, <2>1, <2>2, <2>3, ReturnSteps DEF SessionIsKnown, Live, NoRequest, ConnectRequest
<1> QED
  BY <1>2, <1>3, <1>4, <1>5

(* A call that goes on without a request.                                  *)
LEMMA StaySteps ==
  ASSUME SessionInv, NEW k \in Call, Pause(k) \/ HelloLost(k) \/ ConnectionError(k)
  PROVE  /\ ConnectionsAreNumbered' /\ BindingsAreTyped' /\ CallsAreShaped'
         /\ RequestsAreKnown' /\ AloneIsAlone' /\ SessionIsKnown'
<1> USE DEF SessionInv
<1>1. SessionIsKnown /\ CallsAreShaped /\ (call[k].pc = "dial" => client.dialer = k /\ ~Live)
  BY DEF ConnectionsAreNumbered
<1>2. CASE Pause(k)
  <2>1. /\ call[k].pc = "await" /\ request[k].at = "answered"
        /\ Moved(k, "pause", call[k].conn, call[k].restore)
        /\ request' = [request EXCEPT ![k] = NoRequest]
        /\ UNCHANGED <<client, open, binding, told, mishaps>>
    BY <1>2 DEF Pause, Answered, Consumed, Moved, ClientTypeOK, Calls, daemon, Fine
  <2>2. request'[k] = NoRequest /\ \A j \in Call \ {k} : request'[j] = request[j]
    BY <2>1 DEF ClientTypeOK
  <2>3. ConnectionsAreNumbered'
    <3>1. OpenOrOld(NoConn)
      BY Numbers DEF OpenOrOld
    <3> QED
      BY <2>1, <2>2, <3>1 DEF ConnectionsAreNumbered, Moved, OpenOrOld, NoRequest, Live
  <2>4. BindingsAreTyped' /\ CallsAreShaped'
    BY <2>1 DEF BindingsAreTyped, CallsAreShaped, Moved, Restoring
  <2>5. RequestsAreKnown'
    BY <2>1, <2>2 DEF RequestsAreKnown, Awaiting, Moved, Restoring, ConnectRequest, Target, NoRequest
  <2>6. AloneIsAlone'
    BY <2>1, <2>2 DEF AloneIsAlone, Moved, Connecting, ConnectRequest, NoRequest
  <2>7. SessionIsKnown'
    BY <2>1 DEF SessionIsKnown, Explained, Moved, Live
  <2> QED
    BY <2>3, <2>4, <2>5, <2>6, <2>7
<1>3. CASE HelloLost(k) /\ call[k].attempt # 0
  <2>1. /\ call[k].pc = "dial" /\ Returned(k) /\ Mishap
        /\ client'.conn = client.conn /\ client'.root = client.root
        /\ UNCHANGED <<request, open, binding, told>>
    BY <1>3, ReturnMoves DEF HelloLost, daemon, ClientTypeOK, Clients
  <2>2. ConnectRequest(k) /\ request[k].conn \in open => request[k].root \in told
    BY <2>1 DEF RequestsAreKnown
  <2> QED
    BY <1>1, <2>1, <2>2, ReturnSteps DEF SessionIsKnown, Live
<1>4. CASE HelloLost(k) /\ call[k].attempt = 0
  <2>1. /\ Moved(k, call[k].pc, call[k].conn, call[k].restore)
        /\ mishaps' = mishaps + 1 /\ mishaps < MaxMishaps
        /\ UNCHANGED <<client, request, open, binding, told>>
    BY <1>4 DEF HelloLost, Moved, ClientTypeOK, Calls, daemon, Mishap
  <2>2. mishaps + 1 <= MaxMishaps /\ \A c \in Nat : OpenOrOld(c) => OpenOrOld(c)'
    BY <2>1, Numbers DEF OpenOrOld
  <2>3. open \subseteq 1 .. 1 + mishaps' /\ 1 + mishaps' \notin open
    BY <2>1, Numbers DEF ConnectionsAreNumbered
  <2>4. ConnectionsAreNumbered'
    <3>1. ASSUME NEW j \in Call
          PROVE  /\ OpenOrOld(call[j].conn)' /\ OpenOrOld(request[j].conn)'
                 /\ call'[j].pc = "dial" => client'.dialer = j /\ ~Live'
      <4>1. call'[j].conn = call[j].conn /\ call'[j].pc = call[j].pc
        BY <2>1 DEF Moved
      <4>2. OpenOrOld(call[j].conn) /\ OpenOrOld(request[j].conn)
        BY DEF ConnectionsAreNumbered
      <4>3. OpenOrOld(call[j].conn)' /\ OpenOrOld(request[j].conn)'
        BY <2>1, <2>2, <4>1, <4>2, Numbers DEF OpenOrOld
      <4> QED
        BY <2>1, <4>1, <4>3 DEF ConnectionsAreNumbered, Live
    <3>2. OpenOrOld(client.conn)'
      BY <2>1, <2>2, Numbers DEF ConnectionsAreNumbered, OpenOrOld
    <3> QED
      BY <2>1, <2>2, <2>3, <3>1, <3>2 DEF ConnectionsAreNumbered
  <2>5. BindingsAreTyped' /\ CallsAreShaped'
    BY <2>1 DEF BindingsAreTyped, CallsAreShaped, Moved, Restoring
  <2>6. RequestsAreKnown'
    <3>1. \A j \in Call : call[j].conn <= mishaps => call[j].conn <= mishaps'
      BY <2>1, Numbers
    <3> QED
      BY <2>1, <3>1 DEF RequestsAreKnown, Awaiting, Moved, Restoring, ConnectRequest, Target
  <2>7. AloneIsAlone'
    BY <2>1 DEF AloneIsAlone, Moved, Connecting, ConnectRequest
  <2>8. SessionIsKnown'
    BY <2>1 DEF SessionIsKnown, Explained, Moved, Live
  <2> QED
    BY <2>4, <2>5, <2>6, <2>7, <2>8
<1>5. CASE ConnectionError(k)
  <2>1. /\ call[k].pc = "await"
        /\ request[k].at # "answered" => request[k].conn \notin open
        /\ request[k].at = "answered" => request[k].answer = "lost"
        /\ client' = Invalidated(call[k].conn)
        /\ request' = [request EXCEPT ![k] = IF request[k].at = "answered" THEN NoRequest
                                             ELSE request[k]]
        /\ UNCHANGED <<open, binding, told, mishaps>>
    BY <1>5 DEF ConnectionError, Answered, Consumed, daemon, Fine
  <2>2. /\ request'[k] = request[k] \/ request'[k] = NoRequest
        /\ ConnectRequest(k)' => request[k].conn \notin open
        /\ ConnectRequest(k) => request[k].conn \notin open
        /\ \A j \in Call \ {k} : request'[j] = request[j]
    BY <2>1 DEF ClientTypeOK, ConnectRequest, NoRequest
  <2>3. call[k].conn <= mishaps
    <3>1. call[k].conn \notin open => call[k].conn <= mishaps
      BY DEF ConnectionsAreNumbered, OpenOrOld
    <3> QED
      BY <2>1, <3>1 DEF RequestsAreKnown, Awaiting, NoRequest
  <2>4. /\ \/ client' = client /\ client.conn # call[k].conn
           \/ client'.conn = NoConn /\ client.conn = call[k].conn
        /\ client'.dialer = client.dialer /\ client'.root = client.root
    BY <2>1 DEF Invalidated, Current, ClientTypeOK, Clients
  <2>5. CASE ~call[k].retried /\ (Restoring(k) \/ Retryable(call[k].tool))
    <3>1. Moved(k, "link", call[k].conn, NoRoot)
      <4>1. /\ call[k] \in Calls
            /\ call' = [call EXCEPT ![k] = [call[k] EXCEPT !.pc = "link", !.retried = TRUE,
                                              !.restore = NoRoot, !.polling = FALSE]]
        BY <1>5, <2>5 DEF ConnectionError, ClientTypeOK
      <4> QED
        BY <4>1 DEF Moved, ClientTypeOK, Calls
    <3>2. ConnectionsAreNumbered'
      <4>1. ASSUME NEW j \in Call
            PROVE  /\ OpenOrOld(call[j].conn)' /\ OpenOrOld(request[j].conn)'
                   /\ call'[j].pc = "dial" => client'.dialer = j /\ ~Live'
        <5>1. call'[j].conn = call[j].conn /\ (call'[j].pc = "dial" => call[j].pc = "dial")
          BY <3>1 DEF Moved
        <5>2. request'[j].conn = request[j].conn \/ request'[j].conn = NoConn
          BY <2>2 DEF NoRequest
        <5>3. /\ OpenOrOld(call[j].conn) /\ OpenOrOld(request[j].conn)
              /\ call[j].pc = "dial" => client.dialer = j /\ ~Live
          BY DEF ConnectionsAreNumbered
        <5>4. OpenOrOld(call[j].conn)' /\ OpenOrOld(request[j].conn)'
          BY <2>1, <5>1, <5>2, <5>3, Numbers DEF OpenOrOld
        <5> QED
          BY <2>1, <2>4, <5>1, <5>3, <5>4, Numbers DEF Live
      <4>2. OpenOrOld(client.conn)' /\ (1 + mishaps \in open => client'.conn = 1 + mishaps)
        BY <2>1, <2>3, <2>4, Numbers DEF ConnectionsAreNumbered, OpenOrOld
      <4> QED
        BY <2>1, <4>1, <4>2 DEF ConnectionsAreNumbered
    <3>3. BindingsAreTyped' /\ CallsAreShaped'
      BY <2>1, <3>1 DEF BindingsAreTyped, CallsAreShaped, Moved, Restoring
    <3>4. RequestsAreKnown'
      BY <2>1, <2>2, <3>1
      DEF RequestsAreKnown, Awaiting, Moved, Restoring, ConnectRequest, Target, NoRequest
    <3>5. AloneIsAlone'
      BY <2>1, <2>2, <3>1 DEF AloneIsAlone, Moved, Connecting, ConnectRequest, NoRequest
    <3>6. SessionIsKnown'
      BY <2>1, <2>4, <3>1, Numbers DEF SessionIsKnown, Explained, Moved, Live
    <3> QED
      BY <3>2, <3>3, <3>4, <3>5, <3>6
  <2>6. CASE ~(~call[k].retried /\ (Restoring(k) \/ Retryable(call[k].tool)))
    <3>1. Returned(k)
      BY <1>5, <2>6, ReturnMoves DEF ConnectionError
    <3>2. client'.conn \in open =>
             /\ client'.bound => binding[client'.conn] # "none"
             /\ client'.conn = client.conn /\ client.conn # call[k].conn
      BY <1>1, <2>4, Numbers DEF SessionIsKnown, Live
    <3> QED
      BY <1>1, <2>1, <2>2, <2>3, <2>4, <3>1, <3>2, ReturnSteps DEF SessionIsKnown
  <2> QED
    BY <2>5, <2>6
<1> QED
  BY <1>2, <1>3, <1>4, <1>5

LEMMA UnderwayHas ==
  ASSUME NEW j \in Call
  PROVE  /\ Connecting(j) \subseteq Underway
         /\ ConnectRequest(j) => request[j].root \in Underway
<1>1. Connecting(j) \subseteq UNION {Connecting(k) : k \in Call}
  OBVIOUS
<1>2. ASSUME ConnectRequest(j) PROVE request[j].root \in Underway
  <2> DEFINE asked == {i \in Call : /\ request[i].tool = "connect_workspace"
                                    /\ request[i].at \in {"sent", "window"}}
  <2>1. j \in asked
    BY <1>2 DEF ConnectRequest
  <2>2. request[j].root \in {request[k].root : k \in asked}
    BY <2>1
  <2> QED
    BY <2>2 DEF Underway
<1>3. Connecting(j) \subseteq Underway
  BY <1>1 DEF Underway
<1> QED
  BY <1>2, <1>3

LEMMA StartSteps ==
  ASSUME SessionInv, NEW k \in Call, NEW tool \in Tool, NEW r \in Workspace \cup {NoRoot},
         StartCall(k, tool, r)
  PROVE  /\ ConnectionsAreNumbered' /\ BindingsAreTyped' /\ CallsAreShaped'
         /\ RequestsAreKnown' /\ AloneIsAlone' /\ SessionIsKnown'
<1> USE DEF SessionInv
<1>1. /\ call[k].pc = "idle" /\ ((r = NoRoot) = (tool # "connect_workspace"))
      /\ call'[k] = [Idle EXCEPT !.tool = tool, !.root = r, !.pc = "link",
                                 !.alone = r # NoRoot /\ Underway = {}]
      /\ \A j \in Call \ {k} : call'[j] = [call[j] EXCEPT !.alone = @ /\ r = NoRoot]
      /\ UNCHANGED <<client, request, open, binding, told, mishaps>>
  BY DEF StartCall, Fine, daemon
<1>2. /\ call'[k].pc = "link" /\ call'[k].tool = tool /\ call'[k].root = r
      /\ call'[k].restore = NoRoot /\ call'[k].conn = NoConn
      /\ call'[k].alone => r # NoRoot /\ Underway = {}
  BY <1>1 DEF Idle
<1>3. ASSUME NEW j \in Call \ {k}
      PROVE  /\ call'[j].pc = call[j].pc /\ call'[j].conn = call[j].conn
             /\ call'[j].restore = call[j].restore /\ call'[j].root = call[j].root
             /\ call'[j].tool = call[j].tool
             /\ call'[j].alone => call[j].alone /\ r = NoRoot
  <2>1. call'[j] = [call[j] EXCEPT !.alone = @ /\ r = NoRoot] /\ call[j] \in Calls
    BY <1>1 DEF ClientTypeOK
  <2> QED
    BY <2>1 DEF Calls
<1>4. ConnectionsAreNumbered'
  <2>1. OpenOrOld(NoConn)
    BY Numbers DEF OpenOrOld
  <2> QED
    BY <1>1, <1>2, <1>3, <2>1 DEF ConnectionsAreNumbered, OpenOrOld, Live
<1>5. BindingsAreTyped' /\ CallsAreShaped'
  <2>1. BindingsAreTyped'
    BY <1>1 DEF BindingsAreTyped
  <2>2. r # NoRoot <=> tool = "connect_workspace"
    BY <1>1
  <2>3. /\ call'[k].root # NoRoot <=> call'[k].tool = "connect_workspace"
        /\ call'[k].alone => call'[k].tool = "connect_workspace"
        /\ ~Restoring(k)'
    BY <1>2, <2>2 DEF Restoring
  <2>4. ASSUME NEW j \in Call \ {k}
        PROVE  /\ call'[j].pc \notin {"idle", "done"} =>
                     (call'[j].root # NoRoot <=> call'[j].tool = "connect_workspace")
               /\ call'[j].alone => call'[j].tool = "connect_workspace"
               /\ Restoring(j)' => /\ call'[j].pc \in {"await", "pause"}
                                   /\ call'[j].tool # "connect_workspace"
                                   /\ call'[j].restore \in told'
    BY <1>1, <1>3 DEF CallsAreShaped, Restoring
  <2> QED
    BY <2>1, <2>3, <2>4 DEF CallsAreShaped
<1>6. RequestsAreKnown'
  <2>1. ASSUME NEW j \in Call \ {k}, call'[j].pc = "await"
        PROVE  Awaiting(j)'
    <3>1. Awaiting(j)
      BY <1>3, <2>1 DEF RequestsAreKnown
    <3> QED
      BY <1>1, <1>3, <3>1 DEF Awaiting, Restoring, Target
  <2> QED
    BY <1>1, <1>2, <1>3, <2>1 DEF RequestsAreKnown, ConnectRequest
<1>7. AloneIsAlone'
  <2>1. ASSUME NEW i \in Call, NEW j \in Call, call'[i].alone, j # i
        PROVE  Connecting(j)' = {} /\ ~ConnectRequest(j)'
    <3>1. CASE i = k
      <4>1. Underway = {}
        BY <1>2, <2>1, <3>1
      <4>2. Connecting(j) \subseteq Underway /\ (ConnectRequest(j) => request[j].root \in Underway)
        BY UnderwayHas
      <4>3. Connecting(j) = {} /\ ~ConnectRequest(j)
        BY <4>1, <4>2
      <4>4. Connecting(j)' = Connecting(j) /\ ConnectRequest(j)' = ConnectRequest(j)
        BY <1>1, <1>3, <2>1, <3>1 DEF Connecting, ConnectRequest
      <4> QED
        BY <4>3, <4>4
    <3>2. CASE i # k
      <4>1. Connecting(j) = {} /\ ~ConnectRequest(j) /\ r = NoRoot
        BY <1>3, <2>1, <3>2 DEF AloneIsAlone
      <4>2. ConnectRequest(j)' = ConnectRequest(j)
        BY <1>1 DEF ConnectRequest
      <4>3. CASE j = k
        BY <1>2, <4>1, <4>2, <4>3 DEF Connecting
      <4>4. CASE j # k
        <5>1. Connecting(j)' = Connecting(j)
          BY <1>3, <4>4 DEF Connecting
        <5> QED
          BY <4>1, <4>2, <5>1
      <4> QED
        BY <4>3, <4>4
    <3> QED
      BY <3>1, <3>2
  <2> QED
    BY <2>1 DEF AloneIsAlone
<1>8. SessionIsKnown'
  <2>1. Explained(client.conn) => Explained(client.conn)'
    BY <1>1, <1>2, <1>3 DEF Explained
  <2> QED
    BY <1>1, <2>1 DEF SessionIsKnown, Live
<1> QED
  BY <1>4, <1>5, <1>6, <1>7, <1>8

(* The daemon answers a request or passes it on.                           *)
LEMMA HandleSteps ==
  ASSUME SessionInv, NEW k \in Call, DaemonHandles(k)
  PROVE  /\ ConnectionsAreNumbered' /\ BindingsAreTyped' /\ CallsAreShaped'
         /\ RequestsAreKnown' /\ AloneIsAlone' /\ SessionIsKnown'
<1> USE DEF SessionInv
<1>1. UNCHANGED <<client, call, open, binding, told, mishaps>>
  BY DEF DaemonHandles, Fine
<1>2. /\ \A j \in Call \ {k} : request'[j] = request[j]
      /\ \/ request'[k] = NoRequest /\ call[k].pc # "await"
         \/ /\ request'[k].tool = request[k].tool /\ request'[k].conn = request[k].conn
            /\ request[k].at = "sent"
            /\ request'[k].tool = "connect_workspace" => request'[k].root = request[k].root
            /\ \/ request'[k].at = "window"
               \/ /\ request'[k].at = "answered"
                  /\ request'[k].answer \in {"ok", "tool_error"}
                  /\ request'[k].answer = "ok" => request'[k].tool = "list_workspaces"
  <2>1. request[k] \in Requests
    BY DEF ClientTypeOK
  <2>2. ASSUME NEW answer \in {"ok", "tool_error"}, Answer(k, answer)
        PROVE  /\ \A j \in Call \ {k} : request'[j] = request[j]
               /\ \/ request'[k] = NoRequest /\ call[k].pc # "await"
                  \/ /\ request'[k].tool = request[k].tool
                     /\ request'[k].conn = request[k].conn
                     /\ request'[k].root = request[k].root
                     /\ request'[k].at = "answered" /\ request'[k].answer = answer
    <3>1. \/ request'[k] = NoRequest /\ call[k].pc # "await"
          \/ request'[k] = [request[k] EXCEPT !.at = "answered", !.answer = answer]
      BY <2>2 DEF Answer, ClientTypeOK
    <3> QED
      BY <2>1, <2>2, <3>1 DEF Answer, ClientTypeOK, Requests
  <2>3. CASE request[k].tool = "list_workspaces"
    <3>1. PICK answer \in {"ok", "tool_error"} : Answer(k, answer) /\ request[k].at = "sent"
      BY <2>3 DEF DaemonHandles
    <3> QED
      BY <2>2, <2>3, <3>1
  <2>4. CASE request[k].tool # "list_workspaces"
    <3> DEFINE target == IF request[k].tool = "connect_workspace" THEN request[k].root
                         ELSE binding[request[k].conn]
    <3>1. /\ request[k].at = "sent"
          /\ \/ request' = [request EXCEPT ![k].at = "window", ![k].root = target]
             \/ Answer(k, "tool_error")
      BY <2>4 DEF DaemonHandles
    <3>2. CASE Answer(k, "tool_error")
      BY <2>2, <3>1, <3>2
    <3>3. CASE request' = [request EXCEPT ![k].at = "window", ![k].root = target]
      <4>1. /\ \A j \in Call \ {k} : request'[j] = request[j]
            /\ request'[k] = [request[k] EXCEPT !.at = "window", !.root = target]
        BY <3>3 DEF ClientTypeOK
      <4> QED
        BY <2>1, <3>1, <4>1 DEF Requests
    <3> QED
      BY <3>1, <3>2, <3>3
  <2> QED
    BY <2>3, <2>4
<1>3. ConnectionsAreNumbered'
  <2>1. OpenOrOld(NoConn)
    BY Numbers DEF OpenOrOld
  <2>2. \A j \in Call : request'[j].conn = request[j].conn \/ request'[j].conn = NoConn
    BY <1>2 DEF NoRequest
  <2> QED
    BY <1>1, <2>1, <2>2 DEF ConnectionsAreNumbered, OpenOrOld, Live
<1>4. BindingsAreTyped' /\ CallsAreShaped'
  BY <1>1 DEF BindingsAreTyped, CallsAreShaped, Restoring
<1>5. RequestsAreKnown'
  <2>1. ASSUME NEW j \in Call, call'[j].pc = "await"
        PROVE  Awaiting(j)'
    <3>1. Awaiting(j)
      BY <1>1, <2>1 DEF RequestsAreKnown
    <3> QED
      BY <1>1, <1>2, <2>1, <3>1 DEF Awaiting, Restoring, Target, NoRequest
  <2>2. ASSUME NEW j \in Call, call'[j].pc # "await", ConnectRequest(j)', request'[j].conn \in open'
        PROVE  request'[j].root \in told'
    BY <1>1, <1>2, <2>2 DEF RequestsAreKnown, ConnectRequest, NoRequest
  <2> QED
    BY <2>1, <2>2 DEF RequestsAreKnown
<1>6. AloneIsAlone'
  BY <1>1, <1>2 DEF AloneIsAlone, Connecting, ConnectRequest, NoRequest
<1>7. SessionIsKnown'
  BY <1>1 DEF SessionIsKnown, Explained, Live
<1> QED
  BY <1>3, <1>4, <1>5, <1>6, <1>7

(* A window answers: the session it binds is that of a call which waits    *)
(* for it, or of one whose root the agent was told.                        *)
LEMMA WindowSteps ==
  ASSUME SessionInv, NEW k \in Call, NEW answer \in {"ok", "tool_error"},
         WindowAnswers(k, answer), mishaps' = mishaps \/ Mishap
  PROVE  /\ ConnectionsAreNumbered' /\ BindingsAreTyped' /\ CallsAreShaped'
         /\ RequestsAreKnown' /\ AloneIsAlone' /\ SessionIsKnown'
<1> USE DEF SessionInv
<1> DEFINE q == request[k]
<1>1. /\ q.at = "window" /\ UNCHANGED <<client, call, open, told>>
  BY DEF WindowAnswers
<1>2. /\ mishaps' \in Nat /\ mishaps <= mishaps' /\ mishaps' <= MaxMishaps
      /\ \A c \in Nat : OpenOrOld(c) => OpenOrOld(c)'
      /\ OpenOrOld(NoConn)'
      /\ 1 + mishaps' \in open => mishaps' = mishaps
      /\ open \subseteq 1 .. 1 + mishaps'
  BY <1>1, Numbers DEF Mishap, OpenOrOld, ConnectionsAreNumbered, NoConn
<1>3. /\ \A j \in Call \ {k} : request'[j] = request[j]
      /\ \/ request'[k] = NoRequest /\ (call[k].pc = "await" => q.conn \notin open)
         \/ /\ request'[k].tool = q.tool /\ request'[k].conn = q.conn
            /\ request'[k].root = q.root
            /\ request'[k].at = "answered" /\ request'[k].answer = answer
            /\ q.conn \in open
  <2>1. q \in Requests
    BY DEF ClientTypeOK
  <2>2. CASE q.conn \in open
    <3>1. /\ \A j \in Call \ {k} : request'[j] = request[j]
          /\ \/ request'[k] = NoRequest /\ call[k].pc # "await"
             \/ request'[k] = [q EXCEPT !.at = "answered", !.answer = answer]
      BY <2>2 DEF WindowAnswers, Answer, ClientTypeOK
    <3> QED
      BY <2>1, <2>2, <3>1 DEF Requests
  <2>3. CASE q.conn \notin open
    BY <2>3 DEF WindowAnswers, ClientTypeOK
  <2> QED
    BY <2>2, <2>3
<1>4. binding' = IF q.conn \in open /\ q.tool = "connect_workspace"
                 THEN [binding EXCEPT ![q.conn] = IF answer = "ok" THEN q.root ELSE "refused"]
                 ELSE binding
  BY DEF WindowAnswers
<1>5. /\ \A c \in Conn : c # q.conn => binding'[c] = binding[c]
      /\ q.conn \in open => q.conn \in Conn
      /\ q.conn \in open /\ q.tool = "connect_workspace" =>
            binding'[q.conn] = IF answer = "ok" THEN q.root ELSE "refused"
      /\ ~(q.conn \in open /\ q.tool = "connect_workspace") => binding' = binding
  BY <1>4, Numbers DEF BindingsAreTyped
<1>6. q.root \in Roots
  BY DEF ClientTypeOK, Requests
<1>7. ConnectionsAreNumbered'
  <2>1. \A j \in Call : /\ OpenOrOld(call[j].conn)'
                       /\ OpenOrOld(request[j].conn)'
    <3> SUFFICES ASSUME NEW j \in Call
                 PROVE  OpenOrOld(call[j].conn)' /\ OpenOrOld(request[j].conn)'
      OBVIOUS
    <3>1. OpenOrOld(call[j].conn) /\ OpenOrOld(request[j].conn)
      BY DEF ConnectionsAreNumbered
    <3>2. request'[j].conn = request[j].conn \/ request'[j].conn = NoConn
      BY <1>3 DEF NoRequest
    <3> QED
      BY <1>1, <1>2, <3>1, <3>2, Numbers DEF OpenOrOld
  <2>2. OpenOrOld(client.conn)' /\ (1 + mishaps' \in open => client.conn = 1 + mishaps')
    BY <1>1, <1>2, Numbers DEF ConnectionsAreNumbered, OpenOrOld
  <2> QED
    BY <1>1, <1>2, <2>1, <2>2 DEF ConnectionsAreNumbered, Live
<1>8. BindingsAreTyped'
  BY <1>1, <1>4, <1>5, <1>6 DEF BindingsAreTyped
<1>9. CallsAreShaped'
  BY <1>1 DEF CallsAreShaped, Restoring
<1>10. AloneIsAlone'
  BY <1>1, <1>3 DEF AloneIsAlone, Connecting, ConnectRequest, NoRequest
<1>11. RequestsAreKnown'
  <2>1. ASSUME NEW j \in Call, call'[j].pc = "await"
        PROVE  Awaiting(j)'
    <3>1. Awaiting(j) /\ call'[j] = call[j]
      BY <1>1, <2>1 DEF RequestsAreKnown
    <3>2. call[j].conn <= mishaps => call[j].conn <= mishaps'
      BY <1>2, Numbers
    <3>3. CASE j = k
      <4>1. CASE request'[k] = NoRequest
        BY <1>1, <1>3, <2>1, <3>1, <3>3, <4>1 DEF Awaiting, NoRequest
      <4>2. CASE request'[k] # NoRequest
        <5>1. /\ q.tool = "connect_workspace" => q.root = Target(k)
              /\ q.conn = call[k].conn
              /\ q.tool = IF Restoring(k) THEN "connect_workspace" ELSE call[k].tool
          BY <1>1, <3>1, <3>3 DEF Awaiting, NoRequest
        <5>2. answer = "ok" /\ q.tool = "connect_workspace" =>
                 /\ binding'[call[k].conn] # "none"
                 /\ call[k].alone => binding'[call[k].conn] = call[k].root
          <6>1. call[k].alone => ~Restoring(k)
            BY DEF CallsAreShaped
          <6> QED
            BY <1>3, <1>5, <1>6, <4>2, <5>1, <6>1, BridgeClientAssumption DEF Roots, Target
        <5> QED
          BY <1>1, <1>3, <3>1, <3>3, <4>2, <5>1, <5>2 DEF Awaiting, Restoring, Target
      <4> QED
        BY <4>1, <4>2
    <3>4. CASE j # k
      <4>1. request'[j] = request[j]
        BY <1>3, <3>4
      <4>2. CASE binding'[call[j].conn] = binding[call[j].conn]
        BY <1>1, <3>1, <3>2, <4>1, <4>2 DEF Awaiting, Restoring, Target
      <4>3. CASE call[j].conn = q.conn /\ q.conn \in open /\ q.tool = "connect_workspace"
        <5>1. ~call[j].alone
          BY <1>1, <3>4, <4>3 DEF AloneIsAlone, ConnectRequest
        <5>2. binding'[call[j].conn] # "none"
          BY <1>5, <1>6, <4>3, BridgeClientAssumption DEF Roots
        <5> QED
          BY <1>1, <3>1, <3>2, <4>1, <5>1, <5>2 DEF Awaiting, Restoring, Target
      <4>4. CASE call[j].conn \notin open
        BY <1>1, <3>1, <3>2, <4>1, <4>4 DEF Awaiting, Restoring, Target
      <4> QED
        BY <1>5, <4>2, <4>3, <4>4, Numbers
    <3> QED
      BY <3>3, <3>4
  <2>2. ASSUME NEW j \in Call, call'[j].pc # "await", ConnectRequest(j)', request'[j].conn \in open'
        PROVE  request'[j].root \in told'
    <3>1. j # k /\ request'[j] = request[j]
      BY <1>3, <2>2 DEF ConnectRequest, NoRequest
    <3> QED
      BY <1>1, <2>2, <3>1 DEF RequestsAreKnown, ConnectRequest
  <2> QED
    BY <2>1, <2>2 DEF RequestsAreKnown
<1>12. SessionIsKnown'
  <2>1. CASE ~(q.conn = client.conn /\ q.conn \in open /\ q.tool = "connect_workspace")
    <3>1. Live => binding'[client.conn] = binding[client.conn]
      BY <1>5, <2>1, Numbers DEF Live
    <3> QED
      BY <1>1, <3>1 DEF SessionIsKnown, Explained, Live
  <2>2. CASE q.conn = client.conn /\ q.conn \in open /\ q.tool = "connect_workspace"
    <3>1. binding'[client.conn] = IF answer = "ok" THEN q.root ELSE "refused"
      BY <1>5, <2>2
    <3>2. binding'[client.conn] # "none"
      BY <1>6, <3>1, BridgeClientAssumption DEF Roots
    <3>3. binding'[client.conn] \in Workspace => Explained(client.conn)'
      <4> SUFFICES ASSUME binding'[client.conn] \in Workspace
                   PROVE  Explained(client.conn)'
        OBVIOUS
      <4>1. binding'[client.conn] = q.root /\ q.root \in Workspace /\ q.root # NoRoot
        BY <3>1, BridgeClientAssumption
      <4>2. CASE call[k].pc = "await"
        <5>1. q.root = Target(k) /\ call[k].conn = client.conn
          BY <1>1, <2>2, <4>2 DEF RequestsAreKnown, Awaiting, NoRequest
        <5> QED
          BY <1>1, <4>1, <4>2, <5>1 DEF Explained, Target
      <4>3. CASE call[k].pc # "await"
        <5>1. q.root \in told
          BY <1>1, <2>2, <4>3 DEF RequestsAreKnown, ConnectRequest
        <5> QED
          BY <1>1, <4>1, <5>1 DEF Explained
      <4> QED
        BY <4>2, <4>3
    <3> QED
      BY <1>1, <3>2, <3>3 DEF SessionIsKnown, Live
  <2> QED
    BY <2>1, <2>2
<1> QED
  BY <1>7, <1>8, <1>9, <1>10, <1>11, <1>12

(* What dies takes requests with it and sessions; the rest stays.          *)
LEMMA LossSteps ==
  ASSUME SessionInv, Mishap, UNCHANGED <<client, call, told>>, open' \subseteq open,
         BindingsAreTyped',
         \A c \in open' : binding'[c] = binding[c] \/ binding'[c] = "stale",
         \A k \in Call :
            \/ request'[k] = request[k]
            \/ /\ request[k].at # "none" /\ request'[k].at = "answered"
               /\ request'[k].answer = "lost" /\ request'[k].conn = request[k].conn
               /\ request'[k].tool = request[k].tool /\ request'[k].root = request[k].root
  PROVE  /\ ConnectionsAreNumbered' /\ BindingsAreTyped' /\ CallsAreShaped'
         /\ RequestsAreKnown' /\ AloneIsAlone' /\ SessionIsKnown'
<1> USE DEF SessionInv
<1>1. /\ mishaps' = mishaps + 1 /\ mishaps' <= MaxMishaps
      /\ \A c \in Nat : OpenOrOld(c) => c <= mishaps'
      /\ open' \subseteq 1 .. 1 + mishaps' /\ 1 + mishaps' \notin open'
  <2>1. mishaps' = mishaps + 1 /\ mishaps < MaxMishaps
    BY DEF Mishap
  <2>2. open \subseteq 1 .. 1 + mishaps
    BY DEF ConnectionsAreNumbered
  <2> QED
    BY <2>1, <2>2, Numbers DEF OpenOrOld
<1>2. \A k \in Call : request'[k].conn = request[k].conn
  OBVIOUS
<1>3. ConnectionsAreNumbered'
  <2>1. /\ OpenOrOld(client.conn)'
        /\ \A k \in Call : OpenOrOld(call[k].conn)' /\ OpenOrOld(request[k].conn)'
    <3>1. client.conn <= mishaps'
      BY <1>1, Numbers DEF ConnectionsAreNumbered
    <3>2. \A k \in Call : call[k].conn <= mishaps' /\ request[k].conn <= mishaps'
      BY <1>1, Numbers DEF ConnectionsAreNumbered
    <3> QED
      BY <1>2, <3>1, <3>2 DEF OpenOrOld
  <2>2. \A k \in Call : call'[k].pc = "dial" => client'.dialer = k /\ ~Live'
    BY DEF ConnectionsAreNumbered, Live
  <2> QED
    BY <1>1, <2>1, <2>2 DEF ConnectionsAreNumbered
<1>4. CallsAreShaped'
  BY DEF CallsAreShaped, Restoring
<1>5. \A k \in Call : ConnectRequest(k)' => ConnectRequest(k) /\ request'[k] = request[k]
  BY DEF ConnectRequest
<1>6. RequestsAreKnown'
  <2>1. ASSUME NEW k \in Call, call'[k].pc = "await"
        PROVE  Awaiting(k)'
    <3>1. Awaiting(k) /\ call'[k] = call[k]
      BY <2>1 DEF RequestsAreKnown
    <3>2. call[k].conn <= mishaps'
      BY <1>1, Numbers DEF ConnectionsAreNumbered
    <3>3. CASE request[k] = NoRequest /\ call[k].conn \notin open
      <4>1. request'[k] = request[k]
        BY <3>3 DEF NoRequest
      <4> QED
        BY <3>1, <3>3, <4>1 DEF Awaiting, NoRequest
    <3>4. CASE request'[k] = request[k] /\ ~(request[k] = NoRequest /\ call[k].conn \notin open)
      <4>1. /\ request[k].conn = call[k].conn /\ request[k].at # "none"
            /\ request[k].tool = IF Restoring(k) THEN "connect_workspace" ELSE call[k].tool
            /\ request[k].tool = "connect_workspace" => request[k].root = Target(k)
        BY <3>1, <3>4 DEF Awaiting
      <4>2. ASSUME request[k].at = "answered", request[k].answer = "ok",
                   request[k].tool = "connect_workspace", call[k].conn \in open'
            PROVE  /\ binding'[call[k].conn] # "none"
                   /\ call[k].alone /\ binding'[call[k].conn] \in Workspace =>
                         binding'[call[k].conn] = call[k].root
        <5>1. /\ binding[call[k].conn] # "none"
              /\ call[k].alone /\ binding[call[k].conn] \in Workspace =>
                    binding[call[k].conn] = call[k].root
          BY <3>1, <3>4, <4>2 DEF Awaiting
        <5> QED
          BY <4>2, <5>1, BridgeClientAssumption
      <4>3. (Restoring(k))' = Restoring(k) /\ (Target(k))' = Target(k)
        BY <3>1 DEF Restoring, Target
      <4> QED
        BY <3>1, <3>2, <3>4, <4>1, <4>2, <4>3 DEF Awaiting
    <3>5. CASE request'[k] # request[k] /\ ~(request[k] = NoRequest /\ call[k].conn \notin open)
      BY <3>1, <3>2, <3>5 DEF Awaiting, Restoring, Target
    <3> QED
      BY <3>3, <3>4, <3>5
  <2>2. ASSUME NEW k \in Call, call'[k].pc # "await", ConnectRequest(k)',
               request'[k].conn \in open'
        PROVE  request'[k].root \in told'
    BY <1>2, <1>5, <2>2 DEF RequestsAreKnown
  <2> QED
    BY <2>1, <2>2 DEF RequestsAreKnown
<1>7. AloneIsAlone'
  BY <1>5 DEF AloneIsAlone, Connecting
<1>8. SessionIsKnown'
  BY BridgeClientAssumption DEF SessionIsKnown, Live, Explained
<1> QED
  BY <1>3, <1>4, <1>6, <1>7, <1>8

LEMMA CloseSteps ==
  ASSUME SessionInv, NEW cs, cs \subseteq open, Close(cs), Mishap, UNCHANGED <<client, call, told>>,
         binding' = [c \in Conn |-> IF c \in cs THEN "none" ELSE binding[c]]
  PROVE  /\ ConnectionsAreNumbered' /\ BindingsAreTyped' /\ CallsAreShaped'
         /\ RequestsAreKnown' /\ AloneIsAlone' /\ SessionIsKnown'
<1>1. /\ open' = open \ cs /\ open \subseteq Conn
      /\ binding \in [Conn -> Roots \cup {"none", "stale", "refused"}]
      /\ \A c \in Conn \ open : binding[c] = "none"
  BY Numbers DEF SessionInv, BindingsAreTyped, Close
<1>2. BindingsAreTyped'
  BY <1>1 DEF BindingsAreTyped
<1>3. \A c \in open' : binding'[c] = binding[c]
  BY <1>1
<1>4. ASSUME NEW k \in Call
      PROVE  \/ request'[k] = request[k]
             \/ /\ request[k].at # "none" /\ request'[k].at = "answered"
                /\ request'[k].answer = "lost" /\ request'[k].conn = request[k].conn
                /\ request'[k].tool = request[k].tool /\ request'[k].root = request[k].root
  <2>1. request[k] \in Requests
    BY DEF SessionInv, ClientTypeOK
  <2>2. \/ request'[k] = request[k]
        \/ /\ request[k].at = "sent"
           /\ request'[k] = [request[k] EXCEPT !.at = "answered", !.answer = "lost"]
    BY DEF Close
  <2> QED
    BY <2>1, <2>2 DEF Requests
<1> QED
  BY <1>1, <1>2, <1>3, <1>4, LossSteps

LEMMA TroubleSteps ==
  ASSUME SessionInv,
         \/ \E r \in Workspace : WindowGoes(r)
         \/ \E c \in Conn : ConnectionBreaks(c)
         \/ DaemonDies
  PROVE  /\ ConnectionsAreNumbered' /\ BindingsAreTyped' /\ CallsAreShaped'
         /\ RequestsAreKnown' /\ AloneIsAlone' /\ SessionIsKnown'
<1>1. /\ binding \in [Conn -> Roots \cup {"none", "stale", "refused"}] /\ open \subseteq Conn
      /\ \A c \in Conn \ open : binding[c] = "none"
  BY Numbers DEF SessionInv, BindingsAreTyped
<1>2. CASE \E r \in Workspace : WindowGoes(r)
  <2>1. PICK r \in Workspace : WindowGoes(r)
    BY <1>2
  <2>2. /\ Mishap /\ UNCHANGED <<client, call, open, told>>
        /\ binding' = [c \in Conn |-> IF binding[c] = r THEN "stale" ELSE binding[c]]
    BY <2>1 DEF WindowGoes
  <2>3. BindingsAreTyped'
    BY <1>1, <2>2, BridgeClientAssumption DEF BindingsAreTyped
  <2>4. \A c \in open' : binding'[c] = binding[c] \/ binding'[c] = "stale"
    BY <1>1, <2>2
  <2>5. ASSUME NEW k \in Call
        PROVE  \/ request'[k] = request[k]
               \/ /\ request[k].at # "none" /\ request'[k].at = "answered"
                  /\ request'[k].answer = "lost" /\ request'[k].conn = request[k].conn
                  /\ request'[k].tool = request[k].tool /\ request'[k].root = request[k].root
    <3>1. request[k] \in Requests
      BY DEF SessionInv, ClientTypeOK
    <3>2. \/ request'[k] = request[k]
          \/ /\ request[k].at = "window"
             /\ request'[k] = [request[k] EXCEPT !.at = "answered", !.answer = "lost"]
      BY <2>1 DEF WindowGoes
    <3> QED
      BY <3>1, <3>2 DEF Requests
  <2> QED
    BY <2>2, <2>3, <2>4, <2>5, LossSteps
<1>3. CASE \E c \in Conn : ConnectionBreaks(c)
  <2>1. PICK c \in Conn : ConnectionBreaks(c)
    BY <1>3
  <2>2. /\ {c} \subseteq open /\ Close({c}) /\ Mishap /\ UNCHANGED <<client, call, told>>
        /\ binding' = [d \in Conn |-> IF d \in {c} THEN "none" ELSE binding[d]]
    BY <1>1, <2>1 DEF ConnectionBreaks
  <2> QED
    BY <2>2, CloseSteps
<1>4. CASE DaemonDies
  <2>1. /\ Close(open) /\ Mishap /\ UNCHANGED <<client, call, told>>
        /\ binding' = [d \in Conn |-> "none"]
    BY <1>4 DEF DaemonDies
  <2>2. binding' = [d \in Conn |-> IF d \in open THEN "none" ELSE binding[d]]
    BY <1>1, <2>1
  <2> QED
    BY <2>1, <2>2, CloseSteps
<1> QED
  BY <1>2, <1>3, <1>4

LEMMA SessionInit == Init => SessionInv
<1> SUFFICES ASSUME Init PROVE SessionInv
  OBVIOUS
<1>1. PICK r \in Workspace \cup {NoRoot}, serving \in BOOLEAN :
         LET bound == serving /\ r # NoRoot IN
         /\ client = [conn |-> IF serving THEN 1 ELSE NoConn,
                      root |-> r, bound |-> bound, dialer |-> 0]
         /\ open = IF serving THEN {1} ELSE {}
         /\ binding = [c \in Conn |-> IF c = 1 /\ bound THEN r ELSE "none"]
         /\ told = {r} \ {NoRoot}
  BY DEF Init
<1>2. /\ call = [k \in Call |-> Idle] /\ request = [k \in Call |-> NoRequest] /\ mishaps = 0
  BY DEF Init
<1>3. MaxMishaps \in Nat /\ 1 \in Conn
  BY BridgeClientAssumption DEF Conn
<1>4. ConnectionsAreNumbered
  BY <1>1, <1>2, <1>3 DEF ConnectionsAreNumbered, OpenOrOld, NoConn, Idle, NoRequest
<1>5. BindingsAreTyped
  BY <1>1, <1>3 DEF BindingsAreTyped, Roots
<1>6. CallsAreShaped /\ RequestsAreKnown /\ AloneIsAlone
  BY <1>2 DEF CallsAreShaped, RequestsAreKnown, AloneIsAlone, Restoring, ConnectRequest,
              Idle, NoRequest
<1>7. SessionIsKnown
  <2>1. client.root = r /\ (client.bound => client.conn = 1 /\ r # NoRoot)
    BY <1>1
  <2>2. Live => client.conn = 1 /\ binding[1] \in {r, "none"} /\ (client.bound => binding[1] = r)
    BY <1>1, <1>3 DEF Live, NoConn
  <2> QED
    BY <1>1, <2>1, <2>2, BridgeClientAssumption DEF SessionIsKnown, Explained
<1> QED
  BY <1>4, <1>5, <1>6, <1>7, TypesInit DEF SessionInv

LEMMA SessionNext == SessionInv /\ [Next]_vars => SessionInv'
<1> SUFFICES ASSUME SessionInv, [Next]_vars PROVE SessionInv'
  OBVIOUS
<1> DEFINE Kept == /\ ConnectionsAreNumbered' /\ BindingsAreTyped' /\ CallsAreShaped'
                   /\ RequestsAreKnown' /\ AloneIsAlone' /\ SessionIsKnown'
<1>1. ASSUME NEW k \in Call, ClientStep(k) \/ DaemonHandles(k) \/ WindowExecutes(k)
                                 \/ PollingExpires(k)
      PROVE  Kept
  <2>1. CASE UseConnection(k) \/ LockReconnect(k) \/ Reconnect(k)
    BY <2>1, LinkSteps
  <2>2. CASE BeginRestore(k) \/ RequestTool(k) \/ Poll(k) \/ Restored(k)
    BY <2>2, AwaitSteps
  <2>3. CASE Complete(k) \/ Refused(k) \/ PollingExpires(k)
    BY <2>3, EndSteps
  <2>4. CASE Pause(k) \/ ConnectionError(k)
    BY <2>4, StaySteps
  <2>5. CASE DaemonHandles(k)
    BY <2>5, HandleSteps
  <2>6. CASE WindowExecutes(k)
    BY <2>6, WindowSteps DEF WindowExecutes, Fine
  <2> HIDE DEF Kept
  <2> QED
    BY <1>1, <2>1, <2>2, <2>3, <2>4, <2>5, <2>6 DEF ClientStep
<1>2. ASSUME NEW k \in Call, NEW tool \in Tool, NEW r \in Workspace \cup {NoRoot},
             StartCall(k, tool, r)
      PROVE  Kept
  BY <1>2, StartSteps
<1>3. ASSUME NEW k \in Call, ConnectFails(k) \/ HelloLost(k) \/ RequestTimesOut(k)
                                 \/ WindowRefuses(k)
      PROVE  Kept
  BY <1>3, EndSteps, StaySteps, WindowSteps DEF WindowRefuses
<1>4. ASSUME \/ \E r \in Workspace : WindowGoes(r)
             \/ \E c \in Conn : ConnectionBreaks(c)
             \/ DaemonDies
      PROVE  Kept
  BY <1>4, TroubleSteps
<1>5. ASSUME (\E r \in Workspace : Register(r)) \/ UNCHANGED vars
      PROVE  Kept
  <2>1. /\ client' = client /\ call' = call /\ request' = request /\ open' = open
        /\ binding' = binding /\ told' = told /\ mishaps' = mishaps
    BY <1>5 DEF Register, Fine, vars, daemon
  <2>2. ConnectionsAreNumbered'
    BY <2>1 DEF SessionInv, ConnectionsAreNumbered, OpenOrOld, Live
  <2>3. BindingsAreTyped' /\ CallsAreShaped'
    BY <2>1 DEF SessionInv, BindingsAreTyped, CallsAreShaped, Restoring
  <2>4. RequestsAreKnown'
    BY <2>1 DEF SessionInv, RequestsAreKnown, ConnectRequest, Connecting, Awaiting, Target, Restoring
  <2>5. AloneIsAlone'
    BY <2>1 DEF SessionInv, AloneIsAlone, ConnectRequest, Connecting, Awaiting, Target, Restoring
  <2>6. SessionIsKnown'
    BY <2>1 DEF SessionInv, SessionIsKnown, Explained, Connecting, Live
  <2> QED
    BY <2>2, <2>3, <2>4, <2>5, <2>6
<1>6. ClientTypeOK'
  BY TypesNext DEF SessionInv
<1> HIDE DEF Kept
<1>7. Kept
  BY <1>1, <1>2, <1>3, <1>4, <1>5 DEF Next, Trouble
<1> QED
  BY <1>6, <1>7 DEF SessionInv, Kept

(* SessionIsWhereTold: whatever breaks, the agent's session is bound to no *)
(* workspace but one the agent connected to or has a connect under way to, *)
(* and a new session is never taken for bound before anything was          *)
(* connected in it.                                                        *)
THEOREM SessionsAreWhereTold == Spec => []SessionIsWhereTold
<1>1. SessionInv => SessionIsWhereTold
  <2> SUFFICES ASSUME SessionInv, Live
               PROVE  /\ binding[client.conn] \in Workspace =>
                            binding[client.conn] \in told \cup Underway
                      /\ client.bound /\ Underway = {} => binding[client.conn] # "none"
    BY DEF SessionIsWhereTold
  <2>1. /\ client.bound => binding[client.conn] # "none"
        /\ binding[client.conn] \in Workspace => Explained(client.conn)
    BY DEF SessionInv, SessionIsKnown
  <2>2. ASSUME NEW k \in Call, call[k].pc \in {"await", "pause"},
               binding[client.conn] \in {call[k].root, call[k].restore} \ {NoRoot}
        PROVE  binding[client.conn] \in Underway
    <3>1. binding[client.conn] \in Connecting(k)
      BY <2>2 DEF Connecting
    <3> QED
      BY <3>1, UnderwayHas
  <2> QED
    BY <2>1, <2>2 DEF Explained
<1> QED
  BY <1>1, SessionInit, SessionNext, PTL DEF Spec
-----------------------------------------------------------------------------
(* Nobody waits for nothing.                                               *)

(* The guards of what takes a call on: a client step of its own, or the    *)
(* daemon or a window that has its request.                                *)
CanGoOn(k) ==
    \/ call[k].pc = "link" /\ (Live \/ client.dialer = 0)
    \/ call[k].pc \in {"dial", "linked", "pause"}
    \/ /\ call[k].pc = "await"
       /\ \/ request[k].at \in {"sent", "window"}
          \/ request[k].at = "answered" /\ request[k].answer \in {"ok", "tool_error", "lost"}
          \/ request[k].at # "answered" /\ request[k].conn \notin open

(* NoCallIsStuck by its guards; also, one call at a time connects.         *)
CallsCanGoOn ==
    /\ \A k \in Call :
          call[k].pc \notin {"idle", "done"} =>
              \/ CanGoOn(k)
              \/ /\ call[k].pc = "link"
                 /\ client.dialer \in Call \ {k} /\ CanGoOn(client.dialer)
    /\ \A j, k \in Call : call[j].pc = "dial" /\ call[k].pc = "dial" => j = k

(* The reconnect mutex is with a call that dials.                          *)
DialerDials == client.dialer # 0 => client.dialer \in Call /\ call[client.dialer].pc = "dial"

(* A request that is nowhere is on no connection, so that its call finds   *)
(* the connection closed; one that is answered has an answer.              *)
RequestIsSomewhere(k) ==
    /\ request[k].at = "none" => request[k].conn = NoConn
    /\ request[k].at = "answered" => request[k].answer # "none"

WaitInv == DialerDials /\ \A k \in Call : RequestIsSomewhere(k)

(* What a step makes of a request.                                         *)
RequestMoves(k) ==
    \/ request'[k] = request[k]
    \/ request'[k] = NoRequest
    \/ request'[k].at \in {"sent", "window"}
    \/ request'[k].at = "answered" /\ request'[k].answer # "none"

LEMMA ClientRequests ==
  ASSUME ClientTypeOK, NEW k \in Call, ClientStep(k)
  PROVE  \A j \in Call : RequestMoves(j)
<1>1. CASE UseConnection(k) \/ LockReconnect(k) \/ Reconnect(k)
  BY <1>1 DEF UseConnection, LockReconnect, Reconnect, RequestMoves
<1>2. CASE BeginRestore(k) \/ RequestTool(k) \/ Poll(k) \/ Restored(k)
  <2>1. PICK c, tool, r : Send(k, c, tool, r)
    BY <1>2 DEF BeginRestore, RequestTool, Poll, Restored
  <2> QED
    BY <2>1, SendFields DEF RequestMoves
<1>3. CASE Complete(k) \/ Pause(k) \/ Refused(k) \/ ConnectionError(k)
  <2>1. Consumed(k)
    BY <1>3 DEF Complete, Pause, Refused, ConnectionError
  <2> QED
    BY <2>1 DEF Consumed, ClientTypeOK, RequestMoves
<1> QED
  BY <1>1, <1>2, <1>3 DEF ClientStep

LEMMA AnswerRequests ==
  ASSUME ClientTypeOK, NEW k \in Call, NEW answer, Answer(k, answer), answer # "none"
  PROVE  \A j \in Call : RequestMoves(j)
<1>1. request[k] \in Requests
  BY DEF ClientTypeOK
<1>2. [request[k] EXCEPT !.at = "answered", !.answer = answer].at = "answered"
      /\ [request[k] EXCEPT !.at = "answered", !.answer = answer].answer = answer
  BY <1>1 DEF Requests
<1> QED
  BY <1>2 DEF Answer, ClientTypeOK, RequestMoves

LEMMA DaemonRequests ==
  ASSUME ClientTypeOK, NEW k \in Call,
         DaemonHandles(k) \/ WindowExecutes(k) \/ WindowRefuses(k)
  PROVE  \A j \in Call : RequestMoves(j)
<1>1. CASE DaemonHandles(k)
  <2>1. \/ Answer(k, "tool_error") \/ Answer(k, "ok")
        \/ \E r : request' = [request EXCEPT ![k].at = "window", ![k].root = r]
    BY <1>1 DEF DaemonHandles
  <2>2. ASSUME NEW r, request' = [request EXCEPT ![k].at = "window", ![k].root = r]
        PROVE  \A j \in Call : RequestMoves(j)
    <3>1. request'[k].at = "window" /\ \A j \in Call \ {k} : request'[j] = request[j]
      BY <2>2 DEF ClientTypeOK, Requests
    <3> QED
      BY <3>1 DEF RequestMoves
  <2> QED
    BY <2>1, <2>2, AnswerRequests
<1>2. CASE WindowExecutes(k) \/ WindowRefuses(k)
  <2>1. PICK answer \in {"ok", "tool_error"} :
           Answer(k, answer) \/ request' = [request EXCEPT ![k] = NoRequest]
    BY <1>2 DEF WindowExecutes, WindowRefuses, WindowAnswers
  <2> QED
    BY <2>1, AnswerRequests DEF ClientTypeOK, RequestMoves
<1> QED
  BY <1>1, <1>2

LEMMA LostRequests ==
  ASSUME ClientTypeOK,
         \/ \E r \in Workspace : WindowGoes(r)
         \/ \E cs : Close(cs)
  PROVE  \A j \in Call : RequestMoves(j)
<1> SUFFICES ASSUME NEW j \in Call PROVE RequestMoves(j)
  OBVIOUS
<1>1. request'[j] \in {request[j], [request[j] EXCEPT !.at = "answered", !.answer = "lost"]}
  BY DEF WindowGoes, Close
<1>2. [request[j] EXCEPT !.at = "answered", !.answer = "lost"].at = "answered"
      /\ [request[j] EXCEPT !.at = "answered", !.answer = "lost"].answer = "lost"
  BY DEF ClientTypeOK, Requests
<1> QED
  BY <1>1, <1>2 DEF RequestMoves

LEMMA RequestsMove ==
  ASSUME ClientTypeOK, [Next]_vars
  PROVE  \A j \in Call : RequestMoves(j)
<1>1. ASSUME NEW k \in Call,
             PollingExpires(k) \/ ConnectFails(k) \/ HelloLost(k) \/ RequestTimesOut(k)
      PROVE  \A j \in Call : RequestMoves(j)
  BY <1>1 DEF PollingExpires, ConnectFails, HelloLost, RequestTimesOut, RequestMoves
<1>2. ASSUME NEW k \in Call, NEW tool, NEW r, StartCall(k, tool, r)
      PROVE  \A j \in Call : RequestMoves(j)
  BY <1>2 DEF StartCall, RequestMoves
<1>3. CASE (\E r \in Workspace : Register(r)) \/ UNCHANGED vars
  BY <1>3 DEF Register, vars, RequestMoves
<1>4. CASE DaemonDies \/ \E c \in Conn : ConnectionBreaks(c)
  BY <1>4, LostRequests DEF DaemonDies, ConnectionBreaks
<1> QED
  BY <1>1, <1>2, <1>3, <1>4, ClientRequests, DaemonRequests, LostRequests DEF Next, Trouble

(* Who holds the mutex keeps it until it has connected or given up.        *)
LEMMA DialerKept ==
  ASSUME ClientTypeOK, DialerDials,
         client'.dialer = client.dialer,
         \A j \in Call : call[j].pc = "dial" => call'[j].pc = "dial"
  PROVE  DialerDials'
  BY DEF DialerDials

LEMMA DialerNext == ClientTypeOK /\ DialerDials /\ [Next]_vars => DialerDials'
<1> SUFFICES ASSUME ClientTypeOK, DialerDials, [Next]_vars PROVE DialerDials'
  OBVIOUS
<1> USE DEF ClientTypeOK
<1>1. ASSUME NEW k \in Call, LockReconnect(k) PROVE DialerDials'
  BY <1>1 DEF LockReconnect, DialerDials, Clients, Calls
<1>2. ASSUME NEW k \in Call, Reconnect(k) \/ ConnectFails(k) PROVE DialerDials'
  BY <1>2 DEF Reconnect, ConnectFails, DialerDials, Clients
<1>3. ASSUME NEW k \in Call, HelloLost(k) PROVE DialerDials'
  <2>1. CASE call[k].attempt = 0
    <3>1. client' = client /\ \A j \in Call : call'[j].pc = call[j].pc
      BY <1>3, <2>1 DEF HelloLost, Calls
    <3> QED
      BY <3>1, DialerKept
  <2>2. CASE call[k].attempt # 0
    BY <1>3, <2>2 DEF HelloLost, DialerDials, Clients
  <2> QED
    BY <2>1, <2>2
<1>4. ASSUME NEW k \in Call,
             \/ UseConnection(k) \/ BeginRestore(k) \/ RequestTool(k) \/ Poll(k)
             \/ Restored(k) \/ Complete(k) \/ Pause(k) \/ Refused(k) \/ ConnectionError(k)
             \/ PollingExpires(k) \/ RequestTimesOut(k)
      PROVE  DialerDials'
  <2>1. call[k].pc # "dial"
    BY <1>4 DEF UseConnection, BeginRestore, RequestTool, Poll, Restored, Complete, Pause, Refused,
                ConnectionError, PollingExpires, RequestTimesOut, Answered
  <2>2. \A j \in Call \ {k} : call'[j].pc = call[j].pc
    <3>1. CASE BeginRestore(k)
      BY <3>1 DEF BeginRestore, Calls
    <3>2. CASE ~BeginRestore(k)
      BY <1>4, <3>2 DEF UseConnection, RequestTool, Poll, Restored, Complete, Pause, Refused,
                ConnectionError, PollingExpires, RequestTimesOut, Return
    <3> QED
      BY <3>1, <3>2
  <2>3. client'.dialer = client.dialer
    BY <1>4 DEF UseConnection, BeginRestore, RequestTool, Poll, Restored, Complete, Pause, Refused,
                ConnectionError, PollingExpires, RequestTimesOut, Invalidated, Clients
  <2> QED
    BY <2>1, <2>2, <2>3, DialerKept
<1>5. ASSUME NEW k \in Call, NEW tool, NEW r, StartCall(k, tool, r) PROVE DialerDials'
  <2>1. /\ client' = client /\ call[k].pc = "idle"
        /\ \A j \in Call \ {k} : call'[j].pc = call[j].pc
    BY <1>5 DEF StartCall, Calls
  <2> QED
    BY <2>1, DialerKept
<1>6. ASSUME UNCHANGED <<client, call>> PROVE DialerDials'
  BY <1>6, DialerKept
<1>7. ASSUME NEW k \in Call, DaemonHandles(k) \/ WindowExecutes(k) \/ WindowRefuses(k)
      PROVE  DialerDials'
  BY <1>6, <1>7 DEF DaemonHandles, WindowExecutes, WindowRefuses, WindowAnswers
<1>8. ASSUME \/ \E r \in Workspace : Register(r) \/ WindowGoes(r)
             \/ \E c \in Conn : ConnectionBreaks(c)
             \/ DaemonDies
             \/ UNCHANGED vars
      PROVE  DialerDials'
  BY <1>6, <1>8 DEF Register, WindowGoes, ConnectionBreaks, DaemonDies, vars
<1> QED
  BY <1>1, <1>2, <1>3, <1>4, <1>5, <1>7, <1>8 DEF Next, Trouble, ClientStep

(* CallsCanGoOn: whatever fails, a tool call that has not returned can go  *)
(* on, or waits for one that is connecting and can.                        *)
THEOREM NobodyWaitsForNothing == Spec => []CallsCanGoOn
<1>1. Init => WaitInv
  BY DEF Init, WaitInv, DialerDials, RequestIsSomewhere, NoRequest
<1>2. SessionInv /\ WaitInv /\ [Next]_vars => WaitInv'
  <2> SUFFICES ASSUME SessionInv, WaitInv, [Next]_vars PROVE WaitInv'
    OBVIOUS
  <2>1. ClientTypeOK /\ DialerDials'
    BY DialerNext DEF SessionInv, WaitInv
  <2>2. \A j \in Call : RequestIsSomewhere(j)'
    BY <2>1, RequestsMove DEF WaitInv, RequestMoves, RequestIsSomewhere, NoRequest
  <2> QED
    BY <2>1, <2>2 DEF WaitInv
<1>3. SessionInv /\ WaitInv => CallsCanGoOn
  <2> SUFFICES ASSUME SessionInv, WaitInv PROVE CallsCanGoOn
    OBVIOUS
  <2>1. ASSUME NEW k \in Call, call[k].pc \notin {"idle", "done"}
        PROVE  \/ CanGoOn(k)
               \/ /\ call[k].pc = "link"
                  /\ client.dialer \in Call \ {k} /\ CanGoOn(client.dialer)
    <3>1. call[k] \in Calls /\ request[k] \in Requests /\ RequestIsSomewhere(k) /\ DialerDials
      BY DEF SessionInv, ClientTypeOK, WaitInv
    <3>2. CASE call[k].pc = "await"
      BY <3>1, <3>2, Numbers DEF Requests, RequestIsSomewhere, CanGoOn
    <3>3. CASE call[k].pc = "link"
      BY <3>1, <3>3 DEF DialerDials, CanGoOn
    <3> QED
      BY <2>1, <3>1, <3>2, <3>3 DEF Calls, CanGoOn
  <2>2. \A j, k \in Call : call[j].pc = "dial" /\ call[k].pc = "dial" => j = k
    BY DEF SessionInv, ConnectionsAreNumbered
  <2> QED
    BY <2>1, <2>2 DEF CallsCanGoOn
<1> QED
  BY <1>1, <1>2, <1>3, SessionInit, SessionNext, PTL DEF Spec
=============================================================================
