---------------------------- MODULE BridgeClient ----------------------------
(***************************************************************************)
(* The MCP frontend of an agent (mcp_server.rs).  BridgeClient keeps one   *)
(* connection to the daemon, makes another when that has closed, restores  *)
(* the workspace the agent had connected to, and repeats a tool call whose *)
(* connection broke when repeating it changes nothing.  The agent may have *)
(* several tool calls under way; each is a task of its own and the client  *)
(* state is locked only while it is read or written.                       *)
(*                                                                         *)
(* The daemon and the windows are here what the client sees of them; their *)
(* own module is Bridge.  The daemon dies and is launched again, windows   *)
(* go and come back, requests take too long.                               *)
(***************************************************************************)
EXTENDS Naturals

CONSTANTS Workspace,     \* the workspace roots windows may register
          NoRoot,
          Tool,          \* the tools the agent calls
          MaxCalls,      \* bound: tool calls of the agent
          MaxMishaps     \* bound: see Mishap

ASSUME BridgeClientAssumption ==
    /\ Tool \subseteq {"list_workspaces", "connect_workspace", "read_comments", "reply_comment"}
    /\ NoRoot \notin Workspace
    /\ {"none", "stale", "refused"} \cap (Workspace \cup {NoRoot}) = {}
    /\ MaxCalls \in Nat \ {0}
    /\ MaxMishaps \in Nat

NoConn == 0
Conn == 1 .. MaxMishaps + 1
Call == 1 .. MaxCalls

Reads == {"list_workspaces", "read_comments"}
Writes == {"reply_comment"}

VARIABLES client,      \* BridgeClientState, and who holds the reconnect mutex
          call,        \* the tool calls
          request,     \* the last request of each call, wherever it is
          open,        \* the connections that are open
          binding,     \* the daemon's session_bindings, by connection
          registered,  \* the workspaces that have a window at the daemon
          executed,    \* how often each call's change was carried out
          told,        \* where the agent may take its session to be
          mishaps

daemon == <<open, binding, registered>>
vars == <<client, call, request, daemon, executed, told, mishaps>>

(* A session has a workspace, none yet ("none"), lost its window ("stale") *)
(* or was unbound by a connect the window refused ("refused").  A          *)
(* connection that a mishap made necessary is numbered by the mishaps.     *)

Idle == [tool |-> "none", root |-> NoRoot, pc |-> "idle", conn |-> NoConn,
         restore |-> NoRoot, polling |-> FALSE, retried |-> FALSE, attempt |-> 0,
         alone |-> FALSE, result |-> "none"]

NoRequest == [conn |-> NoConn, tool |-> "none", root |-> NoRoot, at |-> "none",
              answer |-> "none"]

(* run() connects before it serves.  Since then the agent may have         *)
(* connected to a workspace, and the daemon may have died.                 *)
Init ==
    /\ \E r \in Workspace \cup {NoRoot}, serving \in BOOLEAN :
          LET bound == serving /\ r # NoRoot IN
          /\ client = [conn |-> IF serving THEN 1 ELSE NoConn,
                       root |-> r, bound |-> bound, dialer |-> 0]
          /\ open = IF serving THEN {1} ELSE {}
          /\ registered = IF serving THEN Workspace ELSE {}
          /\ binding = [c \in Conn |-> IF c = 1 /\ bound THEN r ELSE "none"]
          /\ told = {r} \ {NoRoot}
    /\ call = [k \in Call |-> Idle]
    /\ request = [k \in Call |-> NoRequest]
    /\ executed = [k \in Call |-> 0]
    /\ mishaps = 0

(* What goes wrong a bounded number of times: the daemon or a window dies,  *)
(* a connection breaks or cannot be made, an answer takes too long, a      *)
(* window refuses.                                                         *)
Mishap ==
    /\ mishaps < MaxMishaps
    /\ mishaps' = mishaps + 1

Fine == UNCHANGED mishaps

-----------------------------------------------------------------------------
(* What the client sees of itself.                                         *)

Live == client.conn \in open              \* live_connection
Current(c) == client.conn = c             \* by peer id
Retryable_Always(tool) == tool \in Tool  \* a mutation: whatever it changes
Retryable(tool) == tool \in Reads \cup {"connect_workspace"}
NeedsWorkspace(tool) == tool \notin {"list_workspaces", "connect_workspace"}
Restoring(k) == call[k].restore # NoRoot

Return(k, result) ==
    call' = [call EXCEPT ![k] = IF @.tool \in Writes
                                THEN [Idle EXCEPT !.tool = call[k].tool, !.pc = "done",
                                                  !.result = result]
                                ELSE [Idle EXCEPT !.pc = "done"]]

(* The root a call is connecting or restoring its session to.              *)
Connecting(k) ==
    IF call[k].pc \in {"idle", "done"} THEN {} ELSE {call[k].root, call[k].restore} \ {NoRoot}

(* The roots of the connects under way: with a call, or with the daemon or *)
(* a window although no call waits for them any more.                      *)
Underway ==
    (UNION {Connecting(k) : k \in Call})
        \cup {request[k].root : k \in {j \in Call : /\ request[j].tool = "connect_workspace"
                                                    /\ request[j].at \in {"sent", "window"}}}

(* ServerHandler::call_tool.                                               *)
StartCall(k, tool, r) ==
    /\ call[k].pc = "idle"
    /\ \A j \in 1 .. k - 1 : call[j].pc # "idle"
    /\ (r = NoRoot) = (tool # "connect_workspace")
    /\ call' = [j \in Call |->
                   IF j = k THEN [Idle EXCEPT !.tool = tool, !.root = r, !.pc = "link",
                                              !.alone = r # NoRoot /\ Underway = {}]
                   ELSE [call[j] EXCEPT !.alone = @ /\ r = NoRoot]]
    /\ Fine
    /\ UNCHANGED <<client, request, daemon, executed, told>>

-----------------------------------------------------------------------------
(* connection(): the live one, or a new one made by whoever gets the       *)
(* reconnect mutex first.                                                  *)

UseConnection(k) ==
    /\ call[k].pc = "link"
    /\ Live
    /\ call' = [call EXCEPT ![k].conn = client.conn, ![k].pc = "linked"]
    /\ Fine
    /\ UNCHANGED <<client, request, daemon, executed, told>>

LockReconnect(k) ==
    /\ call[k].pc = "link"
    /\ ~Live
    /\ client.dialer = 0
    /\ client' = [client EXCEPT !.dialer = k]
    /\ call' = [call EXCEPT ![k].pc = "dial", ![k].attempt = 0]
    /\ Fine
    /\ UNCHANGED <<request, daemon, executed, told>>

(* A mutation: the new session is taken for bound if the last one was.     *)
Reconnect_KeepsBound(k) ==
    /\ call[k].pc = "dial"
    /\ open' = open \cup {1 + mishaps}
    /\ client' = [client EXCEPT !.conn = 1 + mishaps, !.dialer = 0]
    /\ call' = [call EXCEPT ![k].conn = 1 + mishaps, ![k].pc = "linked"]
    /\ Fine
    /\ UNCHANGED <<request, binding, registered, executed, told>>

(* connect_or_launch and the answer to mcp_hello: a new session, to which  *)
(* no workspace is bound yet.                                              *)
Reconnect(k) ==
    /\ call[k].pc = "dial"
    /\ open' = open \cup {1 + mishaps}
    /\ client' = [client EXCEPT !.conn = 1 + mishaps, !.bound = FALSE, !.dialer = 0]
    /\ call' = [call EXCEPT ![k].conn = 1 + mishaps, ![k].pc = "linked"]
    /\ Fine
    /\ UNCHANGED <<request, binding, registered, executed, told>>

(* A mutation: the reconnect mutex is not given up after a failure.        *)
ConnectFails_KeepsMutex(k) ==
    /\ call[k].pc = "dial"
    /\ Mishap
    /\ Return(k, "BRIDGE_CONNECT_FAILED")
    /\ UNCHANGED <<client, request, daemon, executed, told>>

(* The endpoint cannot be reached and no daemon comes up within 5 s.       *)
ConnectFails(k) ==
    /\ call[k].pc = "dial"
    /\ Mishap
    /\ client' = [client EXCEPT !.dialer = 0]
    /\ Return(k, "BRIDGE_CONNECT_FAILED")
    /\ UNCHANGED <<request, daemon, executed, told>>

(* The daemon closes before it has answered mcp_hello; one more attempt.   *)
HelloLost(k) ==
    /\ call[k].pc = "dial"
    /\ Mishap
    /\ IF call[k].attempt = 0
       THEN call' = [call EXCEPT ![k].attempt = 1] /\ UNCHANGED client
       ELSE Return(k, "BRIDGE_DISCONNECTED") /\ client' = [client EXCEPT !.dialer = 0]
    /\ UNCHANGED <<request, daemon, executed, told>>

-----------------------------------------------------------------------------
(* Requests.  A request on a closed connection is lost where it stands.    *)

Send(k, c, tool, r) ==
    request' = [request EXCEPT ![k] =
                   [conn |-> c, tool |-> tool, root |-> r,
                    at |-> IF c \in open THEN "sent" ELSE "answered",
                    answer |-> IF c \in open THEN "none" ELSE "lost"]]

(* restore_workspace, up to its request; without need of it, or after it,  *)
(* request_tool of the call itself.                                        *)
BeginRestore(k) ==
    /\ call[k].pc = "linked"
    /\ NeedsWorkspace(call[k].tool)
    /\ Current(call[k].conn) /\ ~client.bound /\ client.root # NoRoot
    /\ Send(k, call[k].conn, "connect_workspace", client.root)
    /\ call' = [j \in Call |->
                   IF j = k THEN [call[j] EXCEPT !.restore = client.root, !.pc = "await"]
                   ELSE [call[j] EXCEPT !.alone = FALSE]]
    /\ Fine
    /\ UNCHANGED <<client, daemon, executed, told>>

RequestTool(k) ==
    /\ call[k].pc = "linked"
    /\ ~(/\ NeedsWorkspace(call[k].tool)
         /\ Current(call[k].conn) /\ ~client.bound /\ client.root # NoRoot)
    /\ Send(k, call[k].conn, call[k].tool, call[k].root)
    /\ call' = [call EXCEPT ![k].pc = "await"]
    /\ Fine
    /\ UNCHANGED <<client, daemon, executed, told>>

(* wait_for_workspace and wait_for_workspace_connection, every 100 ms.     *)
Poll(k) ==
    /\ call[k].pc = "pause"
    /\ IF Restoring(k) THEN Send(k, call[k].conn, "connect_workspace", call[k].restore)
       ELSE Send(k, call[k].conn, call[k].tool, call[k].root)
    /\ call' = [call EXCEPT ![k].pc = "await"]
    /\ Fine
    /\ UNCHANGED <<client, daemon, executed, told>>

(* ... for 15 s, after which the first answer is the answer; the request   *)
(* that is under way is forgotten, not recalled.                           *)
PollingExpires(k) ==
    /\ \/ call[k].pc = "pause"
       \/ call[k].pc = "await" /\ call[k].polling /\ request[k].answer \in {"none", "tool_error"}
    /\ IF Restoring(k) THEN Return(k, "WORKSPACE_RECONNECT_FAILED") ELSE Return(k, "tool_error")
    /\ told' = told \cup Connecting(k)
    /\ Fine
    /\ UNCHANGED <<client, request, daemon, executed>>

(* RpcPeer::request gives up after 30 s, the client's or the daemon's; the *)
(* window is not told.                                                     *)
RequestTimesOut(k) ==
    /\ call[k].pc = "await"
    /\ request[k].at # "answered"
    /\ request[k].conn \in open
    /\ Mishap
    /\ Return(k, "BRIDGE_TIMEOUT")
    /\ told' = told \cup Connecting(k)
    /\ UNCHANGED <<client, request, daemon, executed>>

-----------------------------------------------------------------------------
(* Answers.  One that has arrived is read also after the connection closed.*)

Answered(k, answer) ==
    /\ call[k].pc = "await"
    /\ IF request[k].at = "answered" THEN request[k].answer = answer
       ELSE answer = "lost" /\ request[k].conn \notin open

Consumed(k) ==
    request' = [request EXCEPT ![k] = IF @.at = "answered" THEN NoRequest ELSE @]

(* The workspace is restored: bound, if this is still the connection.      *)
Restored(k) ==
    /\ Answered(k, "ok")
    /\ Restoring(k)
    /\ client' = IF Current(call[k].conn) THEN [client EXCEPT !.bound = TRUE] ELSE client
    /\ call' = [call EXCEPT ![k].restore = NoRoot, ![k].polling = FALSE]
    /\ Send(k, call[k].conn, call[k].tool, call[k].root)
    /\ Fine
    /\ UNCHANGED <<daemon, executed, told>>

(* The agent gets its result; a connect is remembered, if this is still    *)
(* the connection.  The agent then takes its session to be there, unless   *)
(* another connect was under way at the same time.                         *)
Complete(k) ==
    /\ Answered(k, "ok")
    /\ ~Restoring(k)
    /\ Return(k, "ok")
    /\ IF call[k].tool = "connect_workspace" /\ Current(call[k].conn)
       THEN client' = [client EXCEPT !.root = call[k].root, !.bound = TRUE]
       ELSE UNCHANGED client
    /\ told' = IF call[k].tool # "connect_workspace" THEN told
               ELSE IF Current(call[k].conn) /\ call[k].alone THEN {call[k].root}
               ELSE told \cup {call[k].root}
    /\ Consumed(k)
    /\ Fine
    /\ UNCHANGED <<daemon, executed>>

(* No workspace is listed yet, or none with that root.                     *)
Pause(k) ==
    /\ Answered(k, "tool_error")
    /\ request[k].tool \in {"list_workspaces", "connect_workspace"}
    /\ call' = [call EXCEPT ![k].pc = "pause", ![k].polling = TRUE]
    /\ Consumed(k)
    /\ Fine
    /\ UNCHANGED <<client, daemon, executed, told>>

Refused(k) ==
    /\ Answered(k, "tool_error")
    /\ request[k].tool \notin {"list_workspaces", "connect_workspace"}
    /\ Return(k, "tool_error")
    /\ Consumed(k)
    /\ Fine
    /\ UNCHANGED <<client, daemon, executed, told>>

Invalidated(c) ==
    IF Current(c) THEN [client EXCEPT !.conn = NoConn, !.bound = FALSE] ELSE client

(* A connection error: once again, if nothing has been changed by it.      *)
ConnectionError(k) ==
    /\ Answered(k, "lost")
    /\ client' = Invalidated(call[k].conn)
    /\ IF ~call[k].retried /\ (Restoring(k) \/ Retryable(call[k].tool))
       THEN call' = [call EXCEPT ![k].pc = "link", ![k].retried = TRUE, ![k].restore = NoRoot,
                                    ![k].polling = FALSE]
       ELSE Return(k, IF Restoring(k) THEN "NOT_RESTORED" ELSE "BRIDGE_RECONNECT_REQUIRED")
    /\ Consumed(k)
    /\ Fine
    /\ UNCHANGED <<daemon, executed, told>>

-----------------------------------------------------------------------------
(* The daemon and the windows.                                             *)

Answer(k, answer) ==
    request' = [request EXCEPT ![k] = IF call[k].pc # "await" THEN NoRequest
                                      ELSE [@ EXCEPT !.at = "answered", !.answer = answer]]

(* DaemonState::call_tool, up to the request to the window.                *)
DaemonHandles(k) ==
    /\ request[k].at = "sent"
    /\ LET q == request[k]
           target == IF q.tool = "connect_workspace" THEN q.root ELSE binding[q.conn]
       IN  IF q.tool = "list_workspaces"
           THEN Answer(k, IF registered = {} THEN "tool_error" ELSE "ok")
           ELSE IF target \in registered
           THEN request' = [request EXCEPT ![k].at = "window", ![k].root = target]
           ELSE Answer(k, "tool_error")
    /\ Fine
    /\ UNCHANGED <<client, call, open, binding, registered, executed, told>>

(* A window connects the session to its active review or runs the tool,    *)
(* also when the session has gone meanwhile; from its answer on the daemon *)
(* binds the session or takes its binding away.                            *)
WindowAnswers(k, answer) ==
    /\ request[k].at = "window"
    /\ LET q == request[k] IN
          /\ executed' = IF answer = "ok" /\ q.tool \in Writes
                         THEN [executed EXCEPT ![k] = @ + 1] ELSE executed
          /\ IF q.conn \in open
             THEN /\ Answer(k, answer)
                  /\ binding' = IF q.tool # "connect_workspace" THEN binding
                                ELSE [binding EXCEPT ![q.conn] =
                                         IF answer = "ok" THEN q.root ELSE "refused"]
             ELSE /\ request' = [request EXCEPT ![k] = NoRequest]
                  /\ UNCHANGED binding
    /\ UNCHANGED <<client, call, open, registered, told>>

WindowExecutes(k) == Fine /\ WindowAnswers(k, "ok")

(* There is no active review to connect to, or the tool refuses.           *)
WindowRefuses(k) == Mishap /\ WindowAnswers(k, "tool_error")

Register(r) ==
    /\ registered' = registered \cup {r}
    /\ r \notin registered
    /\ Fine
    /\ UNCHANGED <<client, call, request, open, binding, executed, told>>

(* remove_peer for a window: its sessions are stale, and what it had in    *)
(* hand is lost to the daemon, whether it was carried out or not.          *)
WindowGoes(r) ==
    /\ r \in registered
    /\ Mishap
    /\ registered' = registered \ {r}
    /\ binding' = [c \in Conn |-> IF binding[c] = r THEN "stale" ELSE binding[c]]
    /\ LET lost == {k \in Call : request[k].at = "window" /\ request[k].root = r} IN
          /\ \E done \in SUBSET {k \in lost : request[k].tool \in Writes} :
                executed' = [k \in Call |-> executed[k] + IF k \in done THEN 1 ELSE 0]
          /\ request' = [k \in Call |->
                            IF k \in lost
                            THEN [request[k] EXCEPT !.at = "answered", !.answer = "lost"]
                            ELSE request[k]]
    /\ UNCHANGED <<client, call, open, told>>

(* Connections close: what was sent and not read is lost, what a window    *)
(* has in hand it finishes, and what has arrived the client may still read.*)
Close(cs) ==
    /\ open' = open \ cs
    /\ request' = [k \in Call |->
                      IF request[k].conn \in cs /\ request[k].at = "sent"
                      THEN [request[k] EXCEPT !.at = "answered", !.answer = "lost"]
                      ELSE request[k]]

ConnectionBreaks(c) ==
    /\ c \in open
    /\ Mishap
    /\ Close({c})
    /\ binding' = [binding EXCEPT ![c] = "none"]
    /\ UNCHANGED <<client, call, registered, executed, told>>

DaemonDies ==
    /\ Mishap
    /\ Close(open)
    /\ binding' = [c \in Conn |-> "none"]
    /\ registered' = {}
    /\ UNCHANGED <<client, call, executed, told>>

-----------------------------------------------------------------------------
ClientStep(k) ==
    \/ UseConnection(k) \/ LockReconnect(k) \/ Reconnect(k)
    \/ BeginRestore(k) \/ RequestTool(k) \/ Poll(k)
    \/ Restored(k) \/ Complete(k) \/ Pause(k) \/ Refused(k)
    \/ ConnectionError(k)

Trouble ==
    \/ \E k \in Call : \/ ConnectFails(k) \/ HelloLost(k) \/ RequestTimesOut(k)
                       \/ WindowRefuses(k)
    \/ \E r \in Workspace : WindowGoes(r)
    \/ \E c \in Conn : ConnectionBreaks(c)
    \/ DaemonDies

Next ==
    \/ \E k \in Call : ClientStep(k) \/ DaemonHandles(k) \/ WindowExecutes(k) \/ PollingExpires(k)
    \/ \E k \in Call, tool \in Tool, r \in Workspace \cup {NoRoot} : StartCall(k, tool, r)
    \/ \E r \in Workspace : Register(r)
    \/ Trouble

Spec == Init /\ [][Next]_vars

-----------------------------------------------------------------------------
(* A change is made at most once whatever breaks and is retried; one that  *)
(* was reported done was made; and one that was not sent, for want of a    *)
(* connection or of its workspace, is not made later either.               *)
Unsent == {"BRIDGE_CONNECT_FAILED", "BRIDGE_DISCONNECTED", "NOT_RESTORED",
           "WORKSPACE_RECONNECT_FAILED", "tool_error"}

ChangesHappenOnce ==
    \A k \in Call :
        call[k].tool \in Writes =>
            /\ executed[k] <= 1
            /\ call[k].result = "ok" => executed[k] = 1
            /\ call[k].result \in Unsent => executed[k] = 0

(* The session is bound to no workspace but the one the agent connected to *)
(* last, or one whose connect was under way with it; and the client does   *)
(* not take a new session for bound, so that a reconnect is followed by a  *)
(* restore before the next tool.  A session that a refused connect or a    *)
(* closed window has unbound it may take for bound: its next tool is told. *)
SessionIsWhereTold ==
    Live => LET bound == binding[client.conn] IN
               /\ bound \in Workspace => bound \in told \cup Underway
               /\ client.bound /\ Underway = {} => bound # "none"

(* A tool call that has not returned can go on, or waits for one that can  *)
(* to give up the reconnect mutex: no answer, no failed attempt to connect *)
(* and no broken connection leaves a call behind.                          *)
GoesOn(k) ==
    ENABLED (\/ ClientStep(k) \/ DaemonHandles(k) \/ WindowExecutes(k) \/ PollingExpires(k))

NoCallIsStuck ==
    \A k \in Call :
        call[k].pc \notin {"idle", "done"} =>
            \/ GoesOn(k)
            \/ call[k].pc = "link" /\ client.dialer # 0 /\ GoesOn(client.dialer)

=============================================================================
