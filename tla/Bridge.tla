------------------------------- MODULE Bridge -------------------------------
(***************************************************************************)
(* The MCP bridge of one user: the daemon (daemon.rs over protocol.rs), to *)
(* which the VS Code windows (BridgeRuntime over BridgeRpcPeer) register   *)
(* their workspace, and to which the MCP frontends of the agents connect.  *)
(* The daemon forwards the tool calls of a frontend's session to the       *)
(* window the session is connected to.  What the session is bound to in    *)
(* the window is in ReviewService.                                         *)
(*                                                                         *)
(* A connection, the registration made over it and the session opened over *)
(* it have one number: each connection has at most one of either.  The     *)
(* daemon runs every request in a task of its own, also after the          *)
(* connection it came by has closed.  A frontend makes one connection;     *)
(* what it does when that breaks (BridgeClient) is not in this module.     *)
(***************************************************************************)
EXTENDS Naturals, FiniteSets, Sequences

CONSTANTS Window, Frontend,
          Root,             \* the workspace each window opened
          Mishaps,          \* what may go wrong, see Mishap
          Limit,            \* connections served at once, 64 in the code
          MaxConnection,    \* bound: connections at a time, closed ones included
          MaxCalls,         \* bound: calls of a session in flight
          MaxMishaps        \* bound: mishaps

NoConn == 0
Conn == 1 .. MaxConnection
Slot == 1 .. MaxCalls
Client == Window \cup Frontend
Workspace == {Root[w] : w \in Window}

ASSUME BridgeAssumption ==
    /\ Window \cap Frontend = {}
    /\ DOMAIN Root = Window
    /\ Mishaps \subseteq {"daemon", "connect", "slow", "silence", "toggle", "death"}
    /\ Limit \in Nat \ {0}
    /\ MaxConnection \in Nat
    /\ MaxCalls \in Nat \ {0}
    /\ MaxMishaps \in Nat

VARIABLES up,         \* the daemon runs
          data,       \* DaemonData, the count of connections, and farewells
          link,       \* the daemon's end of each connection
          hungUp,     \* the connections whose client has closed its end
          task,       \* the requests of each connection
          outbox,     \* what the daemon has sent to a window and it has not read
          phase,      \* where each window and frontend is
          peer,       \* its connection
          timer,      \* a window's reconnect timer: armed, or fired and waiting
          contexts,   \* what each session is to a window
          mishaps

Net == <<link, hungUp, task, outbox>>
Runtime == <<phase, peer, timer, contexts>>
vars == <<up, data, Net, Runtime, mishaps>>

(* A workspace is registered with the number of its registration; roles,   *)
(* session_bindings, session_owners and stale_sessions go by the number.   *)
(* A farewell is the window a disconnected frontend's handler has yet to   *)
(* tell that the session is over.                                          *)
EmptyData == [roles |-> [c \in Conn |-> "none"], workspaces |-> {},
              bindings |-> [c \in Conn |-> NoConn], owners |-> {}, stale |-> {},
              connections |-> 0, farewell |-> [c \in Conn |-> NoConn]]

NoTask == [method |-> "none", root |-> {}, step |-> "none", target |-> NoConn]

(* A session is "kept" by a window that has a context of it.  "connected"  *)
(* is not in the code: connect_workspace has succeeded for the session     *)
(* over the connection the window holds.                                   *)
Unknown == [c \in Conn |-> {}]

Init ==
    /\ up = FALSE
    /\ data = EmptyData
    /\ link = [c \in Conn |-> "unused"]
    /\ hungUp = {}
    /\ task = [i \in Conn \X Slot |-> NoTask]
    /\ outbox = [c \in Conn |-> <<>>]
    /\ phase = [x \in Client |-> "closed"]
    /\ peer = [x \in Client |-> NoConn]
    /\ timer = [w \in Window |-> {}]
    /\ contexts = [w \in Window |-> Unknown]
    /\ mishaps = 0

(* What goes wrong goes wrong a bounded number of times: the daemon dies   *)
(* or exits under a connecting client, a connection cannot be made, a tool *)
(* runs for over 30 s, the daemon does not answer a registration for 30 s, *)
(* the setting is switched, a window or a frontend dies.                   *)
Mishap(kind) ==
    /\ kind \in Mishaps
    /\ mishaps < MaxMishaps
    /\ mishaps' = mishaps + 1

Fine == UNCHANGED mishaps

-----------------------------------------------------------------------------
(* Connections.  A client's end is open until it hangs up or finds that    *)
(* the daemon has closed; the daemon serves an open link, stops reading a  *)
(* broken one, and has forgotten one that is gone.                         *)

(* The number of a connection that is gone is used again when nothing is   *)
(* left of it, so the bound is on the connections there is a trace of.     *)
Traceless(c) ==
    /\ link[c] \in {"unused", "gone"}
    /\ \A x \in Client : peer[x] # c
    /\ \A k \in Slot : task[<<c, k>>].step \in {"none", "sent", "done", "duplicate"}
    /\ \A i \in Conn \X Slot : task[i].target # c
    /\ data.roles[c] = "none" /\ c \notin data.owners \cup data.stale
    /\ \A s \in Conn : data.bindings[s] # c
    /\ data.bindings[c] = NoConn /\ data.farewell[c] = NoConn
    /\ \A s \in Conn : data.farewell[s] # c
    /\ \A w \in Window : "kept" \notin contexts[w][c]
    /\ \A b \in {peer[w] : w \in Window} \ {NoConn} :
          \A n \in DOMAIN outbox[b] : outbox[b][n].session # c

Fresh(c) == Traceless(c) /\ \A b \in 1 .. c - 1 : ~Traceless(b)

Dial(x, c, method, root, next) ==
    /\ up
    /\ Fresh(c)
    /\ link' = [link EXCEPT ![c] = "pending"]
    /\ hungUp' = hungUp \ {c}
    /\ task' = [i \in Conn \X Slot |->
                   IF i = <<c, 1>>
                   THEN [NoTask EXCEPT !.method = method, !.root = root, !.step = "sent"]
                   ELSE IF i[1] = c THEN NoTask ELSE task[i]]
    /\ outbox' = [outbox EXCEPT ![c] = <<>>]
    /\ peer' = [peer EXCEPT ![x] = c]
    /\ phase' = [phase EXCEPT ![x] = next]
    /\ contexts' = [w \in Window |-> [contexts[w] EXCEPT ![c] = {}]]

(* listen and reserve_connection.                                          *)
Accept(c) ==
    /\ up
    /\ link[c] = "pending"
    /\ IF data.connections < Limit
       THEN /\ data' = [data EXCEPT !.connections = @ + 1]
            /\ link' = [link EXCEPT ![c] = "open"]
       ELSE /\ link' = [link EXCEPT ![c] = "gone"]
            /\ UNCHANGED data
    /\ Fine
    /\ UNCHANGED <<up, hungUp, task, outbox, Runtime>>

(* The read loop spawns a task for every request ...                       *)
Read(c, k) ==
    /\ link[c] = "open"
    /\ task[<<c, k>>].step = "sent"
    /\ task' = [task EXCEPT ![<<c, k>>].step = "spawned"]
    /\ Fine
    /\ UNCHANGED <<up, data, link, hungUp, outbox, Runtime>>

(* ... and after the last one finds the end of the stream (mark_closed).   *)
EndOfStream(c) ==
    /\ link[c] = "open"
    /\ c \in hungUp
    /\ \A k \in Slot : task[<<c, k>>].step # "sent"
    /\ link' = [link EXCEPT ![c] = "broken"]
    /\ Fine
    /\ UNCHANGED <<up, data, hungUp, task, outbox, Runtime>>

Registered(id) == \E w \in data.workspaces : w.id = id

(* The window a session is bound to, if it is still registered: whoever    *)
(* ends the binding has it close the session's context.                    *)
WindowOf(s) == IF Registered(data.bindings[s]) THEN data.bindings[s] ELSE NoConn

(* RpcPeer::request, up to the message: it is sent over a connection that   *)
(* has not closed.  (One that closes while the message is written may as   *)
(* well close after it.)                                                   *)
Send(e, message) ==
    outbox' = IF link[e] = "open" THEN [outbox EXCEPT ![e] = Append(@, message)] ELSE outbox

Close(s) == [kind |-> "close", session |-> s, slot |-> 1]

(* remove_peer, up to where it gives back the lock ...                     *)
RemovePeer(c) ==
    /\ link[c] = "broken"
    /\ link' = [link EXCEPT ![c] = "closing"]
    /\ LET rest == [data EXCEPT !.roles[c] = "none"]
           bound == {s \in Conn : data.bindings[s] = c}
       IN  data' = CASE data.roles[c] = "extension" ->
                          [rest EXCEPT
                              !.workspaces = {w \in @ : w.id # c},
                              !.bindings = [s \in Conn |-> IF s \in bound THEN NoConn
                                                           ELSE data.bindings[s]],
                              !.stale = @ \cup bound]
                     [] data.roles[c] = "mcp" /\ c \in data.owners ->
                          [rest EXCEPT !.bindings[c] = NoConn, !.owners = @ \ {c},
                                       !.stale = @ \ {c}, !.farewell[c] = WindowOf(c)]
                     [] OTHER -> rest
    /\ Fine
    /\ UNCHANGED <<up, hungUp, task, outbox, Runtime>>

(* ... and its close_session request.                                      *)
Farewell(c) ==
    /\ data.farewell[c] # NoConn
    /\ Send(data.farewell[c], Close(c))
    /\ data' = [data EXCEPT !.farewell[c] = NoConn]
    /\ Fine
    /\ UNCHANGED <<up, link, hungUp, task, Runtime>>

(* A mutation: the connection is not given back.                           *)
Forget_KeepsCount(c) ==
    /\ link[c] = "closing"
    /\ data.farewell[c] = NoConn
    /\ link' = [link EXCEPT ![c] = "gone"]
    /\ Fine
    /\ UNCHANGED <<up, data, hungUp, task, outbox, Runtime>>

(* The end of disconnected, when the window has answered, or nobody had to *)
(* be told: one connection less, and the daemon's end of this one closes.  *)
Forget(c) ==
    /\ link[c] = "closing"
    /\ data.farewell[c] = NoConn
    /\ data' = [data EXCEPT !.connections = @ - 1]
    /\ link' = [link EXCEPT ![c] = "gone"]
    /\ Fine
    /\ UNCHANGED <<up, hungUp, task, outbox, Runtime>>

-----------------------------------------------------------------------------
(* The daemon's handlers.  Each takes the lock of DaemonData once, and a   *)
(* forwarded call a second time when the window has answered.  What they   *)
(* have to tell a window they send after they have given it back, so       *)
(* another request may be sent first.                                      *)

Runs(c, k, method) == task[<<c, k>>].method = method /\ task[<<c, k>>].step = "spawned"

Answer(c, k, outcome) == task' = [task EXCEPT ![<<c, k>>].step = outcome]

End(c, k) == task' = [task EXCEPT ![<<c, k>>] = NoTask]

(* A mutation: a registration replaces the one the map has.                *)
Taken_Never(root) == FALSE

(* DUPLICATE_WORKSPACE.  (A window has one workspace, so this comes before *)
(* DUPLICATE_INSTANCE.)                                                    *)
Taken(root) == \E w \in data.workspaces : w.root = root

RegisterWorkspace(c) ==
    /\ Runs(c, 1, "register")
    /\ IF Taken(task[<<c, 1>>].root)
       THEN /\ Answer(c, 1, "duplicate")
            /\ UNCHANGED data
       ELSE /\ Answer(c, 1, "done")
            /\ data' = [data EXCEPT !.roles[c] = "extension",
                                    !.workspaces = {w \in @ : w.root # task[<<c, 1>>].root}
                                       \cup {[root |-> task[<<c, 1>>].root, id |-> c]}]
    /\ Fine
    /\ UNCHANGED <<up, link, hungUp, outbox, Runtime>>

McpHello(c) ==
    /\ Runs(c, 1, "hello")
    /\ data' = [data EXCEPT !.roles[c] = "mcp"]
    /\ Answer(c, 1, "done")
    /\ Fine
    /\ UNCHANGED <<up, link, hungUp, outbox, Runtime>>

(* A mutation: a stale session goes on with a window that is there.        *)
Target_OfStale(c, k) ==
    IF task[<<c, k>>].method = "connect"
    THEN {w.id : w \in {v \in data.workspaces : v.root = task[<<c, k>>].root}}
    ELSE {w.id : w \in {v \in data.workspaces : v.id = data.bindings[c] \/ c \in data.stale}}

(* find_workspace for connect_workspace, else the session's registration.  *)
Target(c, k) ==
    IF task[<<c, k>>].method = "connect"
    THEN {w.id : w \in {v \in data.workspaces : v.root = task[<<c, k>>].root}}
    ELSE {w.id : w \in {v \in data.workspaces : v.id = data.bindings[c]}}

(* call_tool up to where it gives back the lock.  Without a target the     *)
(* answer is an error.                                                     *)
CallTool(c, k) ==
    /\ \E method \in {"connect", "call", "list"} : Runs(c, k, method)
    /\ data' = IF data.roles[c] = "mcp" THEN [data EXCEPT !.owners = @ \cup {c}] ELSE data
    /\ \/ /\ data.roles[c] # "mcp" \/ task[<<c, k>>].method = "list" \/ Target(c, k) = {}
          /\ End(c, k)
       \/ /\ data.roles[c] = "mcp"
          /\ task[<<c, k>>].method # "list"
          /\ \E e \in Target(c, k) :
                task' = [task EXCEPT ![<<c, k>>].step = "picked", ![<<c, k>>].target = e]
    /\ Fine
    /\ UNCHANGED <<up, link, hungUp, outbox, Runtime>>

(* The request to the window; BRIDGE_DISCONNECTED if it has left.          *)
Forward(c, k) ==
    /\ task[<<c, k>>].step = "picked"
    /\ LET e == task[<<c, k>>].target
       IN  /\ Send(e, [kind |-> task[<<c, k>>].method, session |-> c, slot |-> k])
           /\ IF link[e] = "open" THEN Answer(c, k, "waiting") ELSE End(c, k)
    /\ Fine
    /\ UNCHANGED <<up, data, link, hungUp, Runtime>>

(* The window's connection closes before it has answered.                  *)
CallFails(c, k) ==
    /\ task[<<c, k>>].step \in {"waiting", "running", "late"}
    /\ link[task[<<c, k>>].target] \in {"broken", "closing", "gone"}
    /\ End(c, k)
    /\ Fine
    /\ UNCHANGED <<up, data, link, hungUp, outbox, Runtime>>

(* The end of a task whose session is to be closed in window e, or none.   *)
EndsWith(c, k, e) ==
    task' = [task EXCEPT ![<<c, k>>] = IF e # NoConn THEN [@ EXCEPT !.step = "closing", !.target = e]
                                       ELSE IF @.method = "close" THEN [@ EXCEPT !.step = "done"]
                                       ELSE NoTask]

(* call_tool after the window has answered connect_workspace.              *)
FinishConnect(c, k) ==
    /\ task[<<c, k>>].step \in {"connected", "refused"}
    /\ data' = IF task[<<c, k>>].step = "connected"
               THEN [data EXCEPT !.bindings[c] = task[<<c, k>>].target, !.stale = @ \ {c}]
               ELSE [data EXCEPT !.bindings[c] = NoConn]
    /\ EndsWith(c, k, IF data.bindings[c] # task[<<c, k>>].target THEN WindowOf(c) ELSE NoConn)
    /\ Fine
    /\ UNCHANGED <<up, link, hungUp, outbox, Runtime>>

CloseSession(c, k) ==
    /\ Runs(c, k, "close")
    /\ IF c \in data.owners
       THEN /\ data' = [data EXCEPT !.bindings[c] = NoConn, !.owners = @ \ {c},
                                    !.stale = @ \ {c}]
            /\ EndsWith(c, k, WindowOf(c))
       ELSE /\ EndsWith(c, k, NoConn)
            /\ UNCHANGED data
    /\ Fine
    /\ UNCHANGED <<up, link, hungUp, outbox, Runtime>>

(* The close_session request of either.                                    *)
TellWindow(c, k) ==
    /\ task[<<c, k>>].step = "closing"
    /\ Send(task[<<c, k>>].target, Close(c))
    /\ task' = [task EXCEPT ![<<c, k>>] = IF @.method = "close"
                                         THEN [@ EXCEPT !.step = "done", !.target = NoConn]
                                         ELSE NoTask]
    /\ Fine
    /\ UNCHANGED <<up, data, link, hungUp, Runtime>>

-----------------------------------------------------------------------------
(* The daemon's process.  The lock on the daemon's lock file admits one.   *)

Gone ==
    /\ up' = FALSE
    /\ data' = EmptyData
    /\ link' = [c \in Conn |-> IF link[c] = "unused" THEN "unused" ELSE "gone"]
    /\ task' = [i \in Conn \X Slot |-> NoTask]
    /\ outbox' = [c \in Conn |-> <<>>]
    /\ UNCHANGED <<hungUp, Runtime>>

(* After 30 s without a new connection, when there is none.  A client that *)
(* connects in that moment is dropped.                                     *)
IdleExit ==
    /\ up
    /\ data.connections = 0
    /\ IF \E x \in Client : phase[x] = "connecting" \/ \E c \in Conn : link[c] = "pending"
       THEN Mishap("daemon")
       ELSE Fine
    /\ Gone

DaemonDies ==
    /\ up
    /\ Mishap("daemon")
    /\ Gone

(* connectOrLaunch: whoever cannot connect launches a daemon.              *)
Launch(x) ==
    /\ phase[x] = "connecting"
    /\ ~up
    /\ up' = TRUE
    /\ Fine
    /\ UNCHANGED <<data, Net, Runtime>>

-----------------------------------------------------------------------------
(* BridgeRuntime.  Its operations (start, restart, configure, dispose) run *)
(* one at a time, so each begins when the window is settled.               *)

Settled(w) == phase[w] \in {"disabled", "registered", "error", "taken"}

Hold(w) == peer[w] # NoConn

(* Mutation: the connection is dropped without being closed.               *)
StopConnection_KeepsOpen(w) ==
    /\ peer' = [peer EXCEPT ![w] = NoConn]
    /\ contexts' = [contexts EXCEPT ![w] = Unknown]
    /\ UNCHANGED hungUp

(* #stopConnection, the timer apart.                                       *)
StopConnection(w) ==
    /\ hungUp' = hungUp \cup ({peer[w]} \ {NoConn})
    /\ peer' = [peer EXCEPT ![w] = NoConn]
    /\ contexts' = [contexts EXCEPT ![w] = Unknown]

(* A window is opened.  The repository's lock keeps the service, and with  *)
(* it the bridge, from a second window of the workspace while the first is *)
(* open; deactivate disposes of the bridge before it releases the lock.    *)
Open(w) ==
    /\ phase[w] = "closed"
    /\ \A v \in Window \ {w} : Root[v] = Root[w] => phase[v] \in {"closed", "disposed"}
    /\ phase' = [phase EXCEPT ![w] = "connecting"]
    /\ Fine
    /\ UNCHANGED <<up, data, Net, peer, timer, contexts>>

Connect(w) ==
    /\ phase[w] = "connecting"
    /\ \E c \in Conn : Dial(w, c, "register", Root[w], "registering")
    /\ Fine
    /\ UNCHANGED <<up, data, timer>>

ConnectFails(w) ==
    /\ phase[w] = "connecting"
    /\ Mishap("connect")
    /\ phase' = [phase EXCEPT ![w] = "error"]
    /\ timer' = [timer EXCEPT ![w] = @ \cup {"armed"}]
    /\ UNCHANGED <<up, data, Net, peer, contexts>>

(* The answer to the registration.  A duplicate is permanent: the runtime  *)
(* says that the workspace is taken, and does not try again.               *)
Confirmed(w) ==
    /\ phase[w] = "registering"
    /\ link[peer[w]] # "gone"
    /\ task[<<peer[w], 1>>].step = "done"
    /\ phase' = [phase EXCEPT ![w] = "registered"]
    /\ task' = [task EXCEPT ![<<peer[w], 1>>].step = "none"]
    /\ Fine
    /\ UNCHANGED <<up, data, link, hungUp, outbox, peer, timer, contexts>>

Rejected(w) ==
    /\ phase[w] = "registering"
    /\ link[peer[w]] # "gone"
    /\ task[<<peer[w], 1>>].step = "duplicate"
    /\ StopConnection(w)
    /\ phase' = [phase EXCEPT ![w] = "taken"]
    /\ timer' = [timer EXCEPT ![w] = @ \ {"armed"}]
    /\ Fine
    /\ UNCHANGED <<up, data, link, task, outbox>>

(* BRIDGE_TIMEOUT of the registration.                                     *)
RegisterTimesOut(w) ==
    /\ phase[w] = "registering"
    /\ Mishap("silence")
    /\ StopConnection(w)
    /\ phase' = [phase EXCEPT ![w] = "error"]
    /\ timer' = [timer EXCEPT ![w] = @ \cup {"armed"}]
    /\ UNCHANGED <<up, data, link, task, outbox>>

(* A mutation: nobody reconnects.                                          *)
Disconnected_NoTimer(w) ==
    /\ phase[w] \in {"registering", "registered"}
    /\ link[peer[w]] = "gone"
    /\ StopConnection(w)
    /\ phase' = [phase EXCEPT ![w] = "error"]
    /\ Fine
    /\ UNCHANGED <<up, data, link, task, outbox, timer>>

(* #handleDisconnect; while registering, followed by the error path of     *)
(* #connectAndRegister, which comes to the same.                           *)
Disconnected(w) ==
    /\ phase[w] \in {"registering", "registered"}
    /\ link[peer[w]] = "gone"
    /\ StopConnection(w)
    /\ phase' = [phase EXCEPT ![w] = "error"]
    /\ timer' = [timer EXCEPT ![w] = @ \cup {"armed"}]
    /\ Fine
    /\ UNCHANGED <<up, data, link, task, outbox>>

(* The timer queues a start, which runs when its turn comes.               *)
TimerFires(w) ==
    /\ "armed" \in timer[w]
    /\ timer' = [timer EXCEPT ![w] = {"fired"}]
    /\ Fine
    /\ UNCHANGED <<up, data, Net, phase, peer, contexts>>

Start(w) ==
    /\ "fired" \in timer[w]
    /\ Settled(w) \/ phase[w] = "disposed"
    /\ timer' = [timer EXCEPT ![w] = @ \ {"fired"}]
    /\ phase' = IF phase[w] \in {"error", "taken"} THEN [phase EXCEPT ![w] = "connecting"] ELSE phase
    /\ Fine
    /\ UNCHANGED <<up, data, Net, peer, contexts>>

(* The user chooses Reconnect, which the status offers after an error.     *)
Restart(w) ==
    /\ phase[w] \in {"error", "taken"}
    /\ Mishap("toggle")
    /\ StopConnection(w)
    /\ timer' = [timer EXCEPT ![w] = @ \ {"armed"}]
    /\ phase' = [phase EXCEPT ![w] = "connecting"]
    /\ UNCHANGED <<up, data, link, task, outbox>>

Disable(w) ==
    /\ Settled(w)
    /\ phase[w] # "disabled"
    /\ Mishap("toggle")
    /\ StopConnection(w)
    /\ timer' = [timer EXCEPT ![w] = @ \ {"armed"}]
    /\ phase' = [phase EXCEPT ![w] = "disabled"]
    /\ UNCHANGED <<up, data, link, task, outbox>>

Enable(w) ==
    /\ phase[w] = "disabled"
    /\ phase' = [phase EXCEPT ![w] = "connecting"]
    /\ Fine
    /\ UNCHANGED <<up, data, Net, peer, timer, contexts>>

(* The window closes, or its process dies.                                 *)
Dispose(w) ==
    /\ phase[w] \notin {"closed", "disposed"}
    /\ IF Settled(w) THEN Fine ELSE Mishap("death")
    /\ StopConnection(w)
    /\ timer' = [timer EXCEPT ![w] = @ \ {"armed"}]
    /\ phase' = [phase EXCEPT ![w] = "disposed"]
    /\ UNCHANGED <<up, data, link, task, outbox>>

(* #handleRequest.  A call makes the session's context if there is none,   *)
(* also when a close_session that was sent later has overtaken it.         *)
Handle(w) ==
    /\ Hold(w)
    /\ outbox[peer[w]] # <<>>
    /\ LET m == Head(outbox[peer[w]])
           i == <<m.session, m.slot>>
       IN  IF m.kind = "close"
           THEN /\ contexts' = [contexts EXCEPT ![w][m.session] = @ \ {"kept"}]
                /\ UNCHANGED task
           ELSE /\ contexts' = [contexts EXCEPT ![w][m.session] = @ \cup {"kept"}]
                /\ task' = IF task[i].step = "waiting" /\ task[i].target = peer[w]
                           THEN [task EXCEPT ![i].step = "running"]
                           ELSE task
    /\ outbox' = [outbox EXCEPT ![peer[w]] = Tail(@)]
    /\ Fine
    /\ UNCHANGED <<up, data, link, hungUp, phase, peer, timer>>

RunningIn(w, c, k) == Hold(w) /\ task[<<c, k>>].target = peer[w] /\ link[peer[w]] = "open"

(* connectWorkspace succeeds if the workspace has an active review.        *)
Reply(w, c, k) ==
    /\ RunningIn(w, c, k)
    /\ task[<<c, k>>].step = "running"
    /\ \/ /\ task[<<c, k>>].method = "connect"
          /\ Answer(c, k, "connected")
          /\ contexts' = [contexts EXCEPT ![w][c] = @ \cup {"connected"}]
       \/ /\ task[<<c, k>>].method = "connect"
          /\ Answer(c, k, "refused")
          /\ UNCHANGED contexts
       \/ /\ task[<<c, k>>].method # "connect"
          /\ End(c, k)
          /\ UNCHANGED contexts
    /\ Fine
    /\ UNCHANGED <<up, data, link, hungUp, outbox, phase, peer, timer>>

(* A tool runs for over 30 s.  The frontend's request times out first, the *)
(* daemon's next; the daemon's late answer is an unknown response to the   *)
(* frontend, which ends its connection ...                                 *)
TooSlow(c, k) ==
    /\ task[<<c, k>>].step = "running"
    /\ Mishap("slow")
    /\ Answer(c, k, "late")
    /\ hungUp' = hungUp \cup {c}
    /\ UNCHANGED <<up, data, link, outbox, Runtime>>

(* ... and the window's late answer is one to the daemon, which ends the   *)
(* window's.                                                               *)
ReplyLate(w, c, k) ==
    /\ RunningIn(w, c, k)
    /\ task[<<c, k>>].step = "late"
    /\ End(c, k)
    /\ link' = [link EXCEPT ![peer[w]] = "broken"]
    /\ Fine
    /\ UNCHANGED <<up, data, hungUp, outbox, Runtime>>

-----------------------------------------------------------------------------
(* An MCP frontend: mcp_hello, tool calls, close_session, and the end.     *)

Greet(f) ==
    /\ phase[f] \in {"closed", "connecting"}
    /\ IF up
       THEN \E c \in Conn : Dial(f, c, "hello", {}, "greeting")
       ELSE phase' = [phase EXCEPT ![f] = "connecting"] /\ UNCHANGED <<Net, peer, contexts>>
    /\ Fine
    /\ UNCHANGED <<up, data, timer>>

Welcomed(f) ==
    /\ phase[f] = "greeting"
    /\ task[<<peer[f], 1>>].step = "done"
    /\ phase' = [phase EXCEPT ![f] = "ready"]
    /\ End(peer[f], 1)
    /\ Fine
    /\ UNCHANGED <<up, data, link, hungUp, outbox, peer, timer, contexts>>

Ask(f, k) ==
    /\ phase[f] = "ready"
    /\ task[<<peer[f], k>>] = NoTask
    /\ \E method \in {"connect", "call", "list", "close"}, root \in Workspace \cup {{}} :
          /\ (method = "connect") <=> (root # {})
          /\ task' = [task EXCEPT ![<<peer[f], k>>] = [NoTask EXCEPT
                         !.method = method, !.root = root, !.step = "sent"]]
          /\ phase' = IF method = "close" THEN [phase EXCEPT ![f] = "leaving"] ELSE phase
    /\ Fine
    /\ UNCHANGED <<up, data, link, hungUp, outbox, peer, timer, contexts>>

(* The connection ends: after close_session, when the daemon has closed    *)
(* it, or when the frontend dies.                                          *)
Leave(f) ==
    /\ Hold(f)
    /\ \/ link[peer[f]] = "gone" /\ Fine
       \/ /\ phase[f] = "leaving"
          /\ \E k \in Slot : task[<<peer[f], k>>].method = "close" /\ task[<<peer[f], k>>].step = "done"
          /\ Fine
       \/ peer[f] \in hungUp /\ Fine
       \/ Mishap("death")
    /\ hungUp' = hungUp \cup {peer[f]}
    /\ peer' = [peer EXCEPT ![f] = NoConn]
    /\ phase' = [phase EXCEPT ![f] = "left"]
    /\ UNCHANGED <<up, data, link, task, outbox, timer, contexts>>

-----------------------------------------------------------------------------
Serve(c, k) ==
    \/ Read(c, k) \/ CallTool(c, k) \/ Forward(c, k) \/ CallFails(c, k)
    \/ FinishConnect(c, k) \/ CloseSession(c, k) \/ TellWindow(c, k)

Daemon ==
    \/ \E c \in Conn : Accept(c) \/ EndOfStream(c) \/ RemovePeer(c) \/ Farewell(c)
                       \/ Forget(c) \/ RegisterWorkspace(c) \/ McpHello(c)
    \/ \E c \in Conn, k \in Slot : Serve(c, k)
    \/ \E x \in Client : Launch(x)

Keep(w) ==
    \/ Connect(w) \/ Confirmed(w) \/ Rejected(w) \/ Disconnected(w)
    \/ TimerFires(w) \/ Start(w)

Work(w) ==
    \/ Keep(w) \/ Handle(w)
    \/ \E c \in Conn, k \in Slot : Reply(w, c, k) \/ ReplyLate(w, c, k)

User(w) == Open(w) \/ Restart(w) \/ Disable(w) \/ Enable(w) \/ Dispose(w)

Talk(f) == Greet(f) \/ Welcomed(f) \/ Leave(f)

Next ==
    \/ Daemon \/ IdleExit \/ DaemonDies
    \/ \E w \in Window : Work(w) \/ User(w) \/ ConnectFails(w) \/ RegisterTimesOut(w)
    \/ \E f \in Frontend : Talk(f) \/ \E k \in Slot : Ask(f, k)
    \/ \E c \in Conn, k \in Slot : TooSlow(c, k)

Spec == Init /\ [][Next]_vars

(* Tasks and read loops that can go on do, clients that have begun to      *)
(* connect try until they have, and nobody has to open, ask or leave.      *)
Fairness ==
    /\ \A c \in Conn : /\ WF_vars(Accept(c)) /\ WF_vars(EndOfStream(c))
                       /\ WF_vars(RemovePeer(c)) /\ WF_vars(Farewell(c) \/ Forget(c))
                       /\ WF_vars(RegisterWorkspace(c)) /\ WF_vars(McpHello(c))
                       /\ \A k \in Slot : WF_vars(Serve(c, k))
    /\ \A x \in Client : WF_vars(Launch(x))
    /\ \A w \in Window : WF_vars(Keep(w)) /\ WF_vars(Work(w))
    /\ \A f \in Frontend : WF_vars(Talk(f))

FairSpec == Spec /\ Fairness /\ WF_vars(IdleExit)

-----------------------------------------------------------------------------
Steps == {"none", "sent", "spawned", "done", "duplicate", "picked", "waiting", "running",
          "connected", "refused", "late", "closing"}

TypeOK ==
    /\ up \in BOOLEAN
    /\ data.roles \in [Conn -> {"none", "extension", "mcp"}]
    /\ data.workspaces \subseteq [root : Workspace, id : Conn]
    /\ data.bindings \in [Conn -> Conn \cup {NoConn}]
    /\ data.farewell \in [Conn -> Conn \cup {NoConn}]
    /\ data.owners \subseteq Conn /\ data.stale \subseteq Conn
    /\ data.connections = Cardinality({c \in Conn : link[c] \in {"open", "broken", "closing"}})
    /\ link \in [Conn -> {"unused", "pending", "open", "broken", "closing", "gone"}]
    /\ hungUp \subseteq Conn
    /\ \A i \in Conn \X Slot : task[i].step \in Steps
    /\ peer \in [Client -> Conn \cup {NoConn}]
    /\ \A w \in Window : /\ (phase[w] \in {"registering", "registered"}) <=> Hold(w)
                         /\ timer[w] \subseteq {"armed", "fired"}
    /\ contexts \in [Window -> [Conn -> SUBSET {"kept", "connected"}]]
    /\ mishaps \in 0 .. MaxMishaps

(* What the user of a window is told is so: while it shows itself as       *)
(* registered and its connection stands, the daemon has it under its       *)
(* workspace, whatever other windows, earlier registrations of its own     *)
(* that come late, and their disconnections do to the map.                 *)
RegisteredWindowsAreFound ==
    \A w \in Window :
        phase[w] = "registered" /\ link[peer[w]] \in {"open", "broken"}
            => [root |-> Root[w], id |-> peer[w]] \in data.workspaces

(* A window has one open connection: whatever it gave up, on an error, a   *)
(* timeout or a switch of the setting, it has closed.                      *)
OneConnection ==
    \A w \in Window, c \in Conn :
        /\ task[<<c, 1>>].method = "register" /\ task[<<c, 1>>].root = Root[w]
        /\ c \notin hungUp /\ link[c] # "gone"
        => \E v \in Window : Root[v] = Root[w] /\ peer[v] = c

(* Whatever of a session is on its way to a window but connect_workspace,  *)
(* a tool call or its close, comes after a connect_workspace that succeeded *)
(* there, over the same connection: when a window has reconnected or        *)
(* another has taken its place, nothing of a session goes there unasked.   *)
CallsFindTheirSession ==
    \A w \in Window :
        Hold(w) => \A n \in DOMAIN outbox[peer[w]] :
            LET m == outbox[peer[w]][n]
            IN  m.kind # "connect" => "connected" \in contexts[w][m.session]

(* A window that lost its connection, or whose connection or registration  *)
(* failed, is registered again, unless it is switched off or closed, or    *)
(* told that its workspace is taken.                                       *)
WindowsReturn ==
    \A w \in Window :
        phase[w] = "error" ~> phase[w] \in {"registered", "disabled", "disposed", "taken"}

(* A daemon that nobody uses ends.                                         *)
IdleDaemonExits ==
    []<>(\/ ~up
         \/ \E c \in Conn : link[c] \in {"pending", "open", "broken", "closing"}
         \/ \E x \in Client : phase[x] = "connecting")

(* "List the canonical roots and host platforms of open workspaces         *)
(* registered with this InReview bridge" (mcp_server.rs:474): what is      *)
(* registered is open.                                                     *)
ListedWorkspacesAreOpen == \A w \in data.workspaces : link[w.id] # "gone"

(* "The bridge starts automatically when a trusted window contains one     *)
(* supported jj repository and inreview.mcp.enabled is on"                 *)
(* (README.md:145): an enabled window gets registered.                     *)
EnabledWindowsRegister ==
    \A w \in Window :
        phase[w] = "connecting" ~> phase[w] \in {"registered", "disabled", "disposed"}

(* A tool call finds the context its session's connect_workspace made.     *)
CallsFindTheirContext ==
    [][\A w \in Window, s \in Conn :
          "kept" \notin contexts[w][s] /\ "kept" \in contexts'[w][s]
              => Head(outbox[peer[w]]).kind = "connect"]_vars

(* "Connected MCP sessions: " (copilotSetup.ts:95): when a session has     *)
(* ended and nothing is under way, no window counts it.                    *)
CountedSessionsAreConnected ==
    \A w \in Window, s \in Conn :
        /\ Hold(w) /\ link[peer[w]] = "open"
        /\ link[s] = "gone" /\ \A c \in Conn : outbox[c] = <<>>
        /\ \A k \in Slot : task[<<s, k>>].step = "none"
        /\ data.farewell = EmptyData.farewell
        => "kept" \notin contexts[w][s]

(* "Bind the MCP session to the exact workspace root and active review"    *)
(* (README.md:172): when nothing of a session is under way, the window it  *)
(* is bound to knows it.                                                   *)
BoundSessionsAreKnown ==
    \A w \in Window, s \in Conn :
        /\ Hold(w) /\ data.bindings[s] = peer[w] /\ outbox[peer[w]] = <<>>
        /\ \A k \in Slot : task[<<s, k>>].step = "none"
        => "kept" \in contexts[w][s]
=============================================================================
