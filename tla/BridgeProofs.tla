----------------------------- MODULE BridgeProofs -----------------------------
(***************************************************************************)
(* What holds of the daemon and its windows for any number of windows,     *)
(* frontends, connections, calls in flight and mishaps.                    *)
(***************************************************************************)
EXTENDS Bridge, SequenceTheorems, FiniteSetTheorems, TLAPS

Method == {"none", "register", "hello", "connect", "call", "list", "close"}

Task == [method : Method, root : Workspace \cup {{}}, step : Steps, target : Conn \cup {NoConn}]

Message == [kind : {"connect", "call", "close"}, session : Conn, slot : Slot]

Phase == {"closed", "connecting", "registering", "registered", "error", "taken", "disabled",
          "disposed", "greeting", "ready", "leaving", "left"}

Data == [roles : [Conn -> {"none", "extension", "mcp"}],
         workspaces : SUBSET [root : Workspace, id : Conn],
         bindings : [Conn -> Conn \cup {NoConn}],
         owners : SUBSET Conn, stale : SUBSET Conn, connections : Int,
         farewell : [Conn -> Conn \cup {NoConn}]]

Typed ==
    /\ up \in BOOLEAN
    /\ data \in Data
    /\ link \in [Conn -> {"unused", "pending", "open", "broken", "closing", "gone"}]
    /\ hungUp \in SUBSET Conn
    /\ task \in [Conn \X Slot -> Task]
    /\ outbox \in [Conn -> Seq(Message)]
    /\ phase \in [Client -> Phase]
    /\ peer \in [Client -> Conn \cup {NoConn}]
    /\ timer \in [Window -> SUBSET {"armed", "fired"}]
    /\ contexts \in [Window -> [Conn -> SUBSET {"kept", "connected"}]]
    /\ mishaps \in 0 .. MaxMishaps

(* A registration names a workspace.                                       *)
RootsAreNamed ==
    \A i \in Conn \X Slot : task[i].method = "register" => task[i].root \in Workspace

(* What is forwarded is a tool call, and what has a session closed is the  *)
(* end of a connect or of the session.                                     *)
Fits(t) ==
    /\ t.step \in {"picked", "waiting", "running", "late"} => t.method \in {"connect", "call"}
    /\ t.step \in {"connected", "refused"} => t.method = "connect"
    /\ t.step = "closing" => t.method \in {"connect", "close"}

StepsFit == \A i \in Conn \X Slot : Fits(task[i])

(* A window has a connection while it registers and is registered.         *)
WindowsHold ==
    \A w \in Window : (phase[w] \in {"registering", "registered"}) <=> Hold(w)

(* A frontend has one from its greeting until it leaves.                   *)
FrontendsHold ==
    \A f \in Frontend : phase[f] \in {"greeting", "ready", "leaving"} => Hold(f)

(* A connection is of one client.                                          *)
PeersDiffer ==
    \A x, y \in Client : peer[x] = peer[y] /\ peer[x] # NoConn => x = y

(* The daemon counts the connections it serves.                            *)
Served == {c \in Conn : link[c] \in {"open", "broken", "closing"}}

ConnectionsAreCounted == data.connections = Cardinality(Served)

-----------------------------------------------------------------------------
LEMMA StepKinds ==
    ASSUME [Next]_vars
    PROVE  \/ \E c \in Conn : \/ Accept(c) \/ EndOfStream(c) \/ RemovePeer(c) \/ Farewell(c)
                              \/ Forget(c) \/ RegisterWorkspace(c) \/ McpHello(c)
                              \/ \E k \in Slot : \/ Read(c, k) \/ CallTool(c, k) \/ Forward(c, k)
                                                 \/ CallFails(c, k) \/ FinishConnect(c, k)
                                                 \/ CloseSession(c, k) \/ TellWindow(c, k)
                                                 \/ TooSlow(c, k)
           \/ \E x \in Client : Launch(x)
           \/ IdleExit \/ DaemonDies
           \/ \E w \in Window : \/ Connect(w) \/ Confirmed(w) \/ Rejected(w) \/ Disconnected(w)
                                \/ TimerFires(w) \/ Start(w) \/ Handle(w)
                                \/ Open(w) \/ Restart(w) \/ Disable(w) \/ Enable(w) \/ Dispose(w)
                                \/ ConnectFails(w) \/ RegisterTimesOut(w)
                                \/ \E c \in Conn, k \in Slot : Reply(w, c, k) \/ ReplyLate(w, c, k)
           \/ \E f \in Frontend : \/ Greet(f) \/ Welcomed(f) \/ Leave(f)
                                  \/ \E k \in Slot : Ask(f, k)
           \/ UNCHANGED vars
  BY DEF Next, Daemon, Serve, Work, Keep, User, Talk

LEMMA Constants ==
    /\ 1 \in Slot /\ NoConn \notin Conn /\ MaxMishaps \in Nat
    /\ Window \subseteq Client /\ Frontend \subseteq Client /\ Window \cap Frontend = {}
    /\ \A w \in Window : Root[w] \in Workspace
  BY BridgeAssumption DEF Slot, Conn, NoConn, Client, Workspace

LEMMA NoTaskTyped ==
    NoTask \in Task /\ NoTask.method = "none" /\ NoTask.step = "none" /\ NoTask.target = NoConn
  BY DEF NoTask, Task, Method, Steps

LEMMA UnknownTyped ==
    Unknown \in [Conn -> SUBSET {"kept", "connected"}] /\ \A c \in Conn : Unknown[c] = {}
  BY DEF Unknown

LEMMA TypedInit == Init => Typed
<1> SUFFICES ASSUME Init PROVE Typed
  OBVIOUS
<1>1. data \in Data
  BY DEF Init, EmptyData, Data
<1>2. task \in [Conn \X Slot -> Task]
  BY NoTaskTyped DEF Init
<1>3. outbox \in [Conn -> Seq(Message)]
  BY EmptySeq DEF Init
<1>4. phase \in [Client -> Phase] /\ peer \in [Client -> Conn \cup {NoConn}]
  BY DEF Init, Phase
<1>5. contexts \in [Window -> [Conn -> SUBSET {"kept", "connected"}]]
  BY UnknownTyped DEF Init
<1>6. up \in BOOLEAN
  BY DEF Init
<1>7. mishaps \in 0 .. MaxMishaps /\ timer \in [Window -> SUBSET {"armed", "fired"}]
  BY Constants DEF Init
<1>8. link \in [Conn -> {"unused", "pending", "open", "broken", "closing", "gone"}]
  BY DEF Init
<1>9. hungUp \in SUBSET Conn
  BY DEF Init
<1> QED BY <1>1, <1>2, <1>3, <1>4, <1>5, <1>6, <1>7, <1>8, <1>9 DEF Typed

(* What the steps write has the type of what it replaces.                  *)
LEMMA DataUpdates ==
    ASSUME NEW d \in Data, NEW c \in Conn
    PROVE  /\ \A n \in Int : [d EXCEPT !.connections = n] \in Data
           /\ \A role \in {"none", "extension", "mcp"} : [d EXCEPT !.roles[c] = role] \in Data
           /\ \A ws \in SUBSET [root : Workspace, id : Conn] :
                 [d EXCEPT !.roles[c] = "extension", !.workspaces = ws] \in Data
           /\ [d EXCEPT !.owners = @ \cup {c}] \in Data
           /\ [d EXCEPT !.bindings[c] = NoConn] \in Data
           /\ \A e \in Conn \cup {NoConn} : [d EXCEPT !.bindings[c] = e, !.stale = @ \ {c}] \in Data
           /\ [d EXCEPT !.bindings[c] = NoConn, !.owners = @ \ {c}, !.stale = @ \ {c}] \in Data
           /\ \A e \in Conn \cup {NoConn} :
                 [d EXCEPT !.roles[c] = "none", !.bindings[c] = NoConn, !.owners = @ \ {c},
                           !.stale = @ \ {c}, !.farewell[c] = e] \in Data
           /\ [d EXCEPT !.farewell[c] = NoConn] \in Data
           /\ \A ws \in SUBSET [root : Workspace, id : Conn], b \in [Conn -> Conn \cup {NoConn}],
                 S \in SUBSET Conn :
                 [d EXCEPT !.roles[c] = "none", !.workspaces = ws, !.bindings = b,
                           !.stale = S] \in Data
  BY DEF Data

LEMMA TaskUpdates ==
    ASSUME NEW t \in Task
    PROVE  /\ \A step \in Steps : [t EXCEPT !.step = step] \in Task
           /\ \A e \in Conn \cup {NoConn}, step \in Steps :
                 [t EXCEPT !.step = step, !.target = e] \in Task
           /\ \A method \in Method, root \in Workspace \cup {{}} :
                 [t EXCEPT !.method = method, !.root = root, !.step = "sent"] \in Task
  BY DEF Task, Steps

LEMMA AnswerTyped ==
    ASSUME Typed, NEW c \in Conn, NEW k \in Slot, NEW step \in Steps, Answer(c, k, step)
    PROVE  task' \in [Conn \X Slot -> Task]
<1>1. task \in [Conn \X Slot -> Task] /\ <<c, k>> \in Conn \X Slot
  BY DEF Typed
<1>2. task' = [task EXCEPT ![<<c, k>>] = [task[<<c, k>>] EXCEPT !.step = step]]
  BY DEF Answer
<1>3. [task[<<c, k>>] EXCEPT !.step = step] \in Task
  BY <1>1, TaskUpdates
<1> QED BY <1>1, <1>2, <1>3

LEMMA EndTyped ==
    ASSUME Typed, NEW c \in Conn, NEW k \in Slot, End(c, k)
    PROVE  task' \in [Conn \X Slot -> Task]
  BY NoTaskTyped DEF Typed, End

LEMMA SendTyped ==
    ASSUME Typed, NEW m \in Message, NEW e, Send(e, m)
    PROVE  outbox' \in [Conn -> Seq(Message)]
<1>1. outbox \in [Conn -> Seq(Message)]
  BY DEF Typed
<1>2. \A b \in Conn : Append(outbox[b], m) \in Seq(Message)
  BY <1>1, AppendProperties
<1> QED BY <1>1, <1>2 DEF Send

LEMMA CloseTyped == ASSUME NEW s \in Conn PROVE Close(s) \in Message
  BY Constants DEF Close, Message

LEMMA WindowOfTyped ==
    ASSUME Typed, NEW s \in Conn
    PROVE  WindowOf(s) \in Conn \cup {NoConn} /\ WindowOf(s) \in {data.bindings[s], NoConn}
  BY DEF Typed, Data, WindowOf

LEMMA EndsWithIs ==
    ASSUME Typed, NEW c \in Conn, NEW k \in Slot, NEW e, EndsWith(c, k, e)
    PROVE  \E t : /\ task' = [task EXCEPT ![<<c, k>>] = t]
                  /\ \/ e # NoConn /\ t = [task[<<c, k>>] EXCEPT !.step = "closing", !.target = e]
                     \/ /\ task[<<c, k>>].method = "close"
                        /\ t = [task[<<c, k>>] EXCEPT !.step = "done"]
                     \/ t = NoTask
  BY DEF EndsWith

LEMMA EndsWithTyped ==
    ASSUME Typed, NEW c \in Conn, NEW k \in Slot, NEW e \in Conn \cup {NoConn}, EndsWith(c, k, e)
    PROVE  task' \in [Conn \X Slot -> Task]
<1>1. task \in [Conn \X Slot -> Task] /\ task[<<c, k>>] \in Task
  BY DEF Typed
<1>2. "closing" \in Steps /\ "done" \in Steps
  BY DEF Steps
<1>3. PICK t : /\ task' = [task EXCEPT ![<<c, k>>] = t]
               /\ \/ t = [task[<<c, k>>] EXCEPT !.step = "closing", !.target = e]
                  \/ t = [task[<<c, k>>] EXCEPT !.step = "done"]
                  \/ t = NoTask
  BY EndsWithIs
<1>4. [task[<<c, k>>] EXCEPT !.step = "closing", !.target = e] \in Task
  BY <1>1, <1>2, TaskUpdates
<1>5. [task[<<c, k>>] EXCEPT !.step = "done"] \in Task
  BY <1>1, <1>2, TaskUpdates
<1>6. t \in Task
  BY <1>3, <1>4, <1>5, NoTaskTyped
<1> QED BY <1>1, <1>3, <1>6

LEMMA HeadTyped ==
    ASSUME Typed, NEW w \in Window, Hold(w), outbox[peer[w]] # <<>>
    PROVE  /\ Head(outbox[peer[w]]) \in Message /\ Tail(outbox[peer[w]]) \in Seq(Message)
           /\ Head(outbox[peer[w]]).session \in Conn /\ Head(outbox[peer[w]]).slot \in Slot
<1>1. outbox[peer[w]] \in Seq(Message)
  BY Constants DEF Hold, Typed
<1>2. Head(outbox[peer[w]]) \in Message /\ Tail(outbox[peer[w]]) \in Seq(Message)
  BY <1>1, HeadTailProperties
<1> QED BY <1>2 DEF Message

LEMMA StopTyped ==
    ASSUME Typed, NEW w \in Window, StopConnection(w)
    PROVE  /\ hungUp' \in SUBSET Conn
           /\ peer' \in [Client -> Conn \cup {NoConn}]
           /\ contexts' \in [Window -> [Conn -> SUBSET {"kept", "connected"}]]
<1>1. peer[w] \in Conn \cup {NoConn}
  BY Constants DEF Typed
<1> QED BY <1>1, UnknownTyped DEF StopConnection, Typed

LEMMA DialTyped ==
    ASSUME Typed, NEW x \in Client, NEW c \in Conn, NEW method \in Method,
           NEW root \in Workspace \cup {{}}, NEW next \in Phase, Dial(x, c, method, root, next)
    PROVE  /\ link' \in [Conn -> {"unused", "pending", "open", "broken", "closing", "gone"}]
           /\ hungUp' \in SUBSET Conn
           /\ task' \in [Conn \X Slot -> Task]
           /\ outbox' \in [Conn -> Seq(Message)]
           /\ phase' \in [Client -> Phase]
           /\ peer' \in [Client -> Conn \cup {NoConn}]
           /\ contexts' \in [Window -> [Conn -> SUBSET {"kept", "connected"}]]
<1>1. [NoTask EXCEPT !.method = method, !.root = root, !.step = "sent"] \in Task
  BY NoTaskTyped, TaskUpdates
<1>2. task' \in [Conn \X Slot -> Task]
  BY <1>1, NoTaskTyped DEF Dial, Typed
<1>3. outbox' \in [Conn -> Seq(Message)]
  BY EmptySeq DEF Dial, Typed
<1>4. link' \in [Conn -> {"unused", "pending", "open", "broken", "closing", "gone"}]
  BY DEF Dial, Typed
<1>5. hungUp' \in SUBSET Conn /\ phase' \in [Client -> Phase]
  BY DEF Dial, Typed
<1>6. peer' \in [Client -> Conn \cup {NoConn}]
  BY DEF Dial, Typed
<1>7. contexts' \in [Window -> [Conn -> SUBSET {"kept", "connected"}]]
  BY DEF Dial, Typed
<1> QED BY <1>2, <1>3, <1>4, <1>5, <1>6, <1>7

LEMMA TypedStep ==
    ASSUME Typed, RootsAreNamed, StepsFit, WindowsHold, FrontendsHold, [Next]_vars
    PROVE  Typed'
<1> USE DEF Fine, Net, Runtime
<1>1. ASSUME NEW c \in Conn, Accept(c)
      PROVE  Typed'
  <2>1. data' \in Data
    <3>1. data.connections + 1 \in Int
      BY DEF Typed, Data
    <3>2. data \in Data
      BY DEF Typed
    <3>3. [data EXCEPT !.connections = data.connections + 1] \in Data
      BY <3>1, <3>2, DataUpdates
    <3> QED BY <1>1, <3>2, <3>3 DEF Accept
  <2>2. link' \in [Conn -> {"unused", "pending", "open", "broken", "closing", "gone"}]
    BY <1>1 DEF Typed, Accept
  <2> QED BY <1>1, <2>1, <2>2 DEF Typed, Accept
<1>2. ASSUME NEW c \in Conn, EndOfStream(c)
      PROVE  Typed'
  <2>1. link' \in [Conn -> {"unused", "pending", "open", "broken", "closing", "gone"}]
    BY <1>2 DEF Typed, EndOfStream
  <2> QED BY <1>2, <2>1 DEF Typed, EndOfStream
<1>3. ASSUME NEW c \in Conn, RemovePeer(c)
      PROVE  Typed'
  <2>1. link' \in [Conn -> {"unused", "pending", "open", "broken", "closing", "gone"}]
    BY <1>3 DEF Typed, RemovePeer
  <2>2. data' \in Data
    <3> DEFINE bound == {s \in Conn : data.bindings[s] = c}
               ws == {w \in data.workspaces : w.id # c}
               b == [s \in Conn |-> IF s \in bound THEN NoConn ELSE data.bindings[s]]
               S == data.stale \cup bound
    <3>1. data \in Data
      BY DEF Typed
    <3>2. /\ ws \in SUBSET [root : Workspace, id : Conn]
          /\ S \in SUBSET Conn
      BY <3>1 DEF Data
    <3>3. b \in [Conn -> Conn \cup {NoConn}]
      BY <3>1 DEF Data
    <3>4. \/ data' = [data EXCEPT !.roles[c] = "none", !.workspaces = ws, !.bindings = b,
                                  !.stale = S]
          \/ data' = [data EXCEPT !.roles[c] = "none", !.bindings[c] = NoConn,
                                  !.owners = @ \ {c}, !.stale = @ \ {c},
                                  !.farewell[c] = WindowOf(c)]
          \/ data' = [data EXCEPT !.roles[c] = "none"]
      BY <1>3, <3>1 DEF RemovePeer, Data
    <3> HIDE DEF ws, b, S
    <3>5. [data EXCEPT !.roles[c] = "none", !.workspaces = ws, !.bindings = b, !.stale = S] \in Data
      BY <3>1, <3>2, <3>3, DataUpdates
    <3>6. /\ [data EXCEPT !.roles[c] = "none", !.bindings[c] = NoConn, !.owners = @ \ {c},
                          !.stale = @ \ {c}, !.farewell[c] = WindowOf(c)] \in Data
          /\ [data EXCEPT !.roles[c] = "none"] \in Data
      BY <3>1, DataUpdates, WindowOfTyped
    <3> QED BY <3>4, <3>5, <3>6
  <2> QED BY <1>3, <2>1, <2>2 DEF Typed, RemovePeer
<1>4. ASSUME NEW c \in Conn, Forget(c)
      PROVE  Typed'
  <2>1. data' \in Data
    <3>1. data.connections - 1 \in Int
      BY DEF Typed, Data
    <3> QED BY <1>4, <3>1, DataUpdates DEF Forget, Typed
  <2>2. link' \in [Conn -> {"unused", "pending", "open", "broken", "closing", "gone"}]
    BY <1>4 DEF Typed, Forget
  <2> QED BY <1>4, <2>1, <2>2 DEF Typed, Forget
<1>5. ASSUME NEW c \in Conn, RegisterWorkspace(c)
      PROVE  Typed'
  <2>1. task' \in [Conn \X Slot -> Task]
    BY <1>5, AnswerTyped, Constants DEF RegisterWorkspace, Steps
  <2>2. data' \in Data
    <3> DEFINE ws == {w \in data.workspaces : w.root # task[<<c, 1>>].root}
                        \cup {[root |-> task[<<c, 1>>].root, id |-> c]}
    <3>1. task[<<c, 1>>].root \in Workspace
      BY <1>5, Constants DEF RegisterWorkspace, Runs, RootsAreNamed
    <3>2. ws \in SUBSET [root : Workspace, id : Conn]
      BY <3>1 DEF Typed, Data
    <3>3. data' = data \/ data' = [data EXCEPT !.roles[c] = "extension", !.workspaces = ws]
      BY <1>5 DEF RegisterWorkspace
    <3> HIDE DEF ws
    <3>4. data \in Data
      BY DEF Typed
    <3>5. [data EXCEPT !.roles[c] = "extension", !.workspaces = ws] \in Data
      BY <3>2, <3>4, DataUpdates
    <3> QED BY <3>3, <3>4, <3>5
  <2> QED BY <1>5, <2>1, <2>2 DEF Typed, RegisterWorkspace
<1>6. ASSUME NEW c \in Conn, McpHello(c)
      PROVE  Typed'
  <2>1. data' \in Data
    BY <1>6, DataUpdates DEF McpHello, Typed
  <2>2. task' \in [Conn \X Slot -> Task]
    BY <1>6, AnswerTyped, Constants DEF McpHello, Steps
  <2> QED BY <1>6, <2>1, <2>2 DEF Typed, McpHello
<1>7. ASSUME NEW c \in Conn, NEW k \in Slot, Read(c, k)
      PROVE  Typed'
  <2>1. task' \in [Conn \X Slot -> Task]
    BY <1>7, AnswerTyped DEF Read, Answer, Steps
  <2> QED BY <1>7, <2>1 DEF Typed, Read
<1>8. ASSUME NEW c \in Conn, NEW k \in Slot, CallTool(c, k)
      PROVE  Typed'
  <2>1. data' \in Data
    BY <1>8, DataUpdates DEF CallTool, Typed
  <2>2. task' \in [Conn \X Slot -> Task]
    <3>1. CASE End(c, k)
      BY <3>1, EndTyped
    <3>2. ASSUME NEW e \in Target(c, k),
                 task' = [task EXCEPT ![<<c, k>>].step = "picked", ![<<c, k>>].target = e]
          PROVE  task' \in [Conn \X Slot -> Task]
      <4>1. task \in [Conn \X Slot -> Task] /\ <<c, k>> \in Conn \X Slot
        BY DEF Typed
      <4>2. e \in Conn
        BY <3>2 DEF Typed, Data, Target
      <4>3. [task[<<c, k>>] EXCEPT !.step = "picked", !.target = e] \in Task
        BY <4>1, <4>2, TaskUpdates DEF Steps
      <4>4. task' = [task EXCEPT ![<<c, k>>] =
                        [task[<<c, k>>] EXCEPT !.step = "picked", !.target = e]]
        BY <3>2
      <4> QED BY <4>1, <4>3, <4>4
    <3> QED BY <1>8, <3>1, <3>2 DEF CallTool
  <2> QED BY <1>8, <2>1, <2>2 DEF Typed, CallTool
<1>9. ASSUME NEW c \in Conn, NEW k \in Slot, CallFails(c, k)
      PROVE  Typed'
  <2>1. task' \in [Conn \X Slot -> Task]
    BY <1>9, EndTyped DEF CallFails
  <2> QED BY <1>9, <2>1 DEF Typed, CallFails
<1>10. ASSUME NEW c \in Conn, NEW k \in Slot, FinishConnect(c, k)
      PROVE  Typed'
  <2>1. data' \in Data
    <3>1. task[<<c, k>>].target \in Conn \cup {NoConn}
      BY DEF Typed, Task
    <3> QED BY <1>10, <3>1, DataUpdates DEF FinishConnect, Typed
  <2>2. task' \in [Conn \X Slot -> Task]
    BY <1>10, EndsWithTyped, WindowOfTyped DEF FinishConnect
  <2> QED BY <1>10, <2>1, <2>2 DEF Typed, FinishConnect
<1>11. ASSUME NEW c \in Conn, NEW k \in Slot, CloseSession(c, k)
      PROVE  Typed'
  <2>1. data' \in Data
    <3>1. data \in Data
      BY DEF Typed
    <3>2. [data EXCEPT !.bindings[c] = NoConn, !.owners = @ \ {c}, !.stale = @ \ {c}] \in Data
      BY <3>1, DataUpdates
    <3> QED BY <1>11, <3>1, <3>2 DEF CloseSession
  <2>2. task' \in [Conn \X Slot -> Task]
    BY <1>11, EndsWithTyped, WindowOfTyped DEF CloseSession
  <2> QED BY <1>11, <2>1, <2>2 DEF Typed, CloseSession
<1>12. ASSUME NEW x \in Client, Launch(x)
      PROVE  Typed'
  <2>1. up' \in BOOLEAN
    BY <1>12 DEF Typed, Launch
  <2> QED BY <1>12, <2>1 DEF Typed, Launch
<1>13. ASSUME IdleExit \/ DaemonDies
      PROVE  Typed'
  <2>1. up' \in BOOLEAN
    BY <1>13 DEF Typed, IdleExit, DaemonDies, Gone
  <2>2. data' \in Data
    BY <1>13 DEF IdleExit, DaemonDies, Gone, EmptyData, Data
  <2>3. link' \in [Conn -> {"unused", "pending", "open", "broken", "closing", "gone"}]
    BY <1>13 DEF IdleExit, DaemonDies, Gone, Typed
  <2>4. task' \in [Conn \X Slot -> Task]
    BY <1>13, NoTaskTyped DEF IdleExit, DaemonDies, Gone
  <2>5. outbox' \in [Conn -> Seq(Message)]
    BY <1>13, EmptySeq DEF IdleExit, DaemonDies, Gone
  <2>6. mishaps' \in 0 .. MaxMishaps
    BY <1>13, Constants DEF IdleExit, DaemonDies, Mishap, Fine, Typed
  <2> QED BY <1>13, <2>1, <2>2, <2>3, <2>4, <2>5, <2>6 DEF Typed, IdleExit, DaemonDies, Gone
<1>14. ASSUME NEW w \in Window, Connect(w)
      PROVE  Typed'
  <2>1. PICK c \in Conn : Dial(w, c, "register", Root[w], "registering")
    BY <1>14 DEF Connect
  <2>2. "register" \in Method /\ Root[w] \in Workspace \cup {{}} /\ "registering" \in Phase /\ w \in Client
    BY Constants DEF Method, Phase
  <2> QED BY <1>14, <2>1, <2>2, DialTyped DEF Typed, Connect
<1>15. ASSUME NEW w \in Window, Confirmed(w)
      PROVE  Typed'
  <2>1. phase' \in [Client -> Phase]
    BY <1>15 DEF Typed, Confirmed, Phase
  <2>2. task' \in [Conn \X Slot -> Task]
    <3>1. peer[w] \in Conn
      BY <1>15, Constants DEF Confirmed, Typed, WindowsHold, Hold
    <3>2. Answer(peer[w], 1, "none")
      BY <1>15 DEF Confirmed, Answer
    <3> QED BY <3>1, <3>2, AnswerTyped, Constants DEF Steps
  <2> QED BY <1>15, <2>1, <2>2 DEF Typed, Confirmed
<1>16. ASSUME NEW w \in Window, Rejected(w)
      PROVE  Typed'
  <2>1. /\ hungUp' \in SUBSET Conn
        /\ peer' \in [Client -> Conn \cup {NoConn}]
        /\ contexts' \in [Window -> [Conn -> SUBSET {"kept", "connected"}]]
    BY <1>16, StopTyped DEF Rejected
  <2>2. phase' \in [Client -> Phase]
    BY <1>16 DEF Typed, Rejected, Phase
  <2>3. timer' \in [Window -> SUBSET {"armed", "fired"}]
    BY <1>16 DEF Typed, Rejected
  <2> QED BY <1>16, <2>1, <2>2, <2>3 DEF Typed, Rejected
<1>17. ASSUME NEW w \in Window, Disconnected(w)
      PROVE  Typed'
  <2>1. /\ hungUp' \in SUBSET Conn
        /\ peer' \in [Client -> Conn \cup {NoConn}]
        /\ contexts' \in [Window -> [Conn -> SUBSET {"kept", "connected"}]]
    BY <1>17, StopTyped DEF Disconnected
  <2>2. phase' \in [Client -> Phase]
    BY <1>17 DEF Typed, Disconnected, Phase
  <2>3. timer' \in [Window -> SUBSET {"armed", "fired"}]
    BY <1>17 DEF Typed, Disconnected
  <2> QED BY <1>17, <2>1, <2>2, <2>3 DEF Typed, Disconnected
<1>18. ASSUME NEW w \in Window, TimerFires(w)
      PROVE  Typed'
  <2>1. timer' \in [Window -> SUBSET {"armed", "fired"}]
    BY <1>18 DEF Typed, TimerFires
  <2> QED BY <1>18, <2>1 DEF Typed, TimerFires
<1>19. ASSUME NEW w \in Window, Start(w)
      PROVE  Typed'
  <2>1. timer' \in [Window -> SUBSET {"armed", "fired"}]
    BY <1>19 DEF Typed, Start
  <2>2. phase' \in [Client -> Phase]
    BY <1>19 DEF Typed, Start, Phase
  <2> QED BY <1>19, <2>1, <2>2 DEF Typed, Start
<1>20. ASSUME NEW w \in Window, Handle(w)
      PROVE  Typed'
  <2>1. contexts' \in [Window -> [Conn -> SUBSET {"kept", "connected"}]]
    <3> DEFINE m == Head(outbox[peer[w]])
    <3>1. contexts[w] \in [Conn -> SUBSET {"kept", "connected"}]
      BY DEF Typed
    <3>2. PICK v : /\ contexts' = [contexts EXCEPT ![w] = [contexts[w] EXCEPT ![m.session] = v]]
                   /\ v \in {contexts[w][m.session] \ {"kept"}, contexts[w][m.session] \cup {"kept"}}
      BY <1>20 DEF Handle
    <3>3. m.session \in Conn
      BY <1>20, HeadTyped DEF Handle
    <3>4. v \in SUBSET {"kept", "connected"}
      BY <3>1, <3>2, <3>3
    <3>5. [contexts[w] EXCEPT ![m.session] = v] \in [Conn -> SUBSET {"kept", "connected"}]
      BY <3>1, <3>4
    <3> QED BY <3>2, <3>5 DEF Typed
  <2>2. task' \in [Conn \X Slot -> Task]
    <3>1. outbox[peer[w]] \in Seq(Message) /\ outbox[peer[w]] # <<>>
      BY <1>20, Constants DEF Handle, Hold, Typed
    <3>2. Head(outbox[peer[w]]) \in Message
      BY <3>1, HeadTailProperties
    <3> DEFINE m == Head(outbox[peer[w]])
    <3>3. m.session \in Conn /\ m.slot \in Slot
      BY <3>2 DEF Message
    <3>4. task' = task \/ task' = [task EXCEPT ![<<m.session, m.slot>>].step = "running"]
      BY <1>20 DEF Handle
    <3>5. task' = task \/ Answer(m.session, m.slot, "running")
      BY <3>4 DEF Answer
    <3> QED BY <3>3, <3>5, AnswerTyped DEF Typed, Steps
  <2>3. outbox' \in [Conn -> Seq(Message)]
    <3>1. outbox[peer[w]] \in Seq(Message) /\ outbox[peer[w]] # <<>>
      BY <1>20, Constants DEF Handle, Hold, Typed
    <3>2. Tail(outbox[peer[w]]) \in Seq(Message)
      BY <3>1, HeadTailProperties
    <3> QED BY <1>20, <3>2 DEF Handle, Typed
  <2> QED BY <1>20, <2>1, <2>2, <2>3 DEF Typed, Handle
<1>21. ASSUME NEW w \in Window, NEW c \in Conn, NEW k \in Slot, Reply(w, c, k)
      PROVE  Typed'
  <2>1. task' \in [Conn \X Slot -> Task]
    <3>1. \E step \in Steps : Answer(c, k, step) \/ End(c, k)
      BY <1>21 DEF Reply, Steps
    <3> QED BY <3>1, AnswerTyped, EndTyped
  <2>2. contexts' \in [Window -> [Conn -> SUBSET {"kept", "connected"}]]
    <3>1. contexts[w] \in [Conn -> SUBSET {"kept", "connected"}]
      BY DEF Typed
    <3>2. PICK v \in SUBSET {"kept", "connected"} :
              contexts' = contexts \/ contexts' = [contexts EXCEPT ![w] = [contexts[w] EXCEPT ![c] = v]]
      <4>1. contexts[w][c] \cup {"connected"} \in SUBSET {"kept", "connected"}
        BY <3>1
      <4>2. \/ contexts' = contexts
            \/ contexts' = [contexts EXCEPT ![w] = [contexts[w] EXCEPT ![c] = contexts[w][c] \cup {"connected"}]]
        BY <1>21 DEF Reply
      <4> QED BY <4>1, <4>2
    <3>3. [contexts[w] EXCEPT ![c] = v] \in [Conn -> SUBSET {"kept", "connected"}]
      BY <3>1
    <3> QED BY <3>2, <3>3 DEF Typed
  <2> QED BY <1>21, <2>1, <2>2 DEF Typed, Reply
<1>22. ASSUME NEW w \in Window, NEW c \in Conn, NEW k \in Slot, ReplyLate(w, c, k)
      PROVE  Typed'
  <2>1. task' \in [Conn \X Slot -> Task]
    BY <1>22, EndTyped DEF ReplyLate
  <2>2. link' \in [Conn -> {"unused", "pending", "open", "broken", "closing", "gone"}]
    BY <1>22 DEF ReplyLate, Typed
  <2> QED BY <1>22, <2>1, <2>2 DEF Typed, ReplyLate
<1>23. ASSUME NEW w \in Window, Open(w)
      PROVE  Typed'
  <2>1. phase' \in [Client -> Phase]
    BY <1>23 DEF Typed, Open, Phase
  <2> QED BY <1>23, <2>1 DEF Typed, Open
<1>24. ASSUME NEW w \in Window, Restart(w)
      PROVE  Typed'
  <2>1. /\ hungUp' \in SUBSET Conn
        /\ peer' \in [Client -> Conn \cup {NoConn}]
        /\ contexts' \in [Window -> [Conn -> SUBSET {"kept", "connected"}]]
    BY <1>24, StopTyped DEF Restart
  <2>2. timer' \in [Window -> SUBSET {"armed", "fired"}]
    BY <1>24 DEF Typed, Restart
  <2>3. phase' \in [Client -> Phase]
    BY <1>24 DEF Typed, Restart, Phase
  <2>4. mishaps' \in 0 .. MaxMishaps
    BY <1>24, Constants DEF Typed, Restart, Mishap
  <2> QED BY <1>24, <2>1, <2>2, <2>3, <2>4 DEF Typed, Restart
<1>25. ASSUME NEW w \in Window, Disable(w)
      PROVE  Typed'
  <2>1. /\ hungUp' \in SUBSET Conn
        /\ peer' \in [Client -> Conn \cup {NoConn}]
        /\ contexts' \in [Window -> [Conn -> SUBSET {"kept", "connected"}]]
    BY <1>25, StopTyped DEF Disable
  <2>2. timer' \in [Window -> SUBSET {"armed", "fired"}]
    BY <1>25 DEF Typed, Disable
  <2>3. phase' \in [Client -> Phase]
    BY <1>25 DEF Typed, Disable, Phase
  <2>4. mishaps' \in 0 .. MaxMishaps
    BY <1>25, Constants DEF Typed, Disable, Mishap
  <2> QED BY <1>25, <2>1, <2>2, <2>3, <2>4 DEF Typed, Disable
<1>26. ASSUME NEW w \in Window, Enable(w)
      PROVE  Typed'
  <2>1. phase' \in [Client -> Phase]
    BY <1>26 DEF Typed, Enable, Phase
  <2> QED BY <1>26, <2>1 DEF Typed, Enable
<1>27. ASSUME NEW w \in Window, Dispose(w)
      PROVE  Typed'
  <2>1. /\ hungUp' \in SUBSET Conn
        /\ peer' \in [Client -> Conn \cup {NoConn}]
        /\ contexts' \in [Window -> [Conn -> SUBSET {"kept", "connected"}]]
    BY <1>27, StopTyped DEF Dispose
  <2>2. timer' \in [Window -> SUBSET {"armed", "fired"}]
    BY <1>27 DEF Typed, Dispose
  <2>3. phase' \in [Client -> Phase]
    BY <1>27 DEF Typed, Dispose, Phase
  <2>4. mishaps' \in 0 .. MaxMishaps
    BY <1>27, Constants DEF Typed, Dispose, Mishap
  <2> QED BY <1>27, <2>1, <2>2, <2>3, <2>4 DEF Typed, Dispose
<1>28. ASSUME NEW w \in Window, ConnectFails(w)
      PROVE  Typed'
  <2>1. phase' \in [Client -> Phase]
    BY <1>28 DEF Typed, ConnectFails, Phase
  <2>2. timer' \in [Window -> SUBSET {"armed", "fired"}]
    BY <1>28 DEF Typed, ConnectFails
  <2>3. mishaps' \in 0 .. MaxMishaps
    BY <1>28, Constants DEF Typed, ConnectFails, Mishap
  <2> QED BY <1>28, <2>1, <2>2, <2>3 DEF Typed, ConnectFails
<1>29. ASSUME NEW w \in Window, RegisterTimesOut(w)
      PROVE  Typed'
  <2>1. /\ hungUp' \in SUBSET Conn
        /\ peer' \in [Client -> Conn \cup {NoConn}]
        /\ contexts' \in [Window -> [Conn -> SUBSET {"kept", "connected"}]]
    BY <1>29, StopTyped DEF RegisterTimesOut
  <2>2. phase' \in [Client -> Phase]
    BY <1>29 DEF Typed, RegisterTimesOut, Phase
  <2>3. timer' \in [Window -> SUBSET {"armed", "fired"}]
    BY <1>29 DEF Typed, RegisterTimesOut
  <2>4. mishaps' \in 0 .. MaxMishaps
    BY <1>29, Constants DEF Typed, RegisterTimesOut, Mishap
  <2> QED BY <1>29, <2>1, <2>2, <2>3, <2>4 DEF Typed, RegisterTimesOut
<1>30. ASSUME NEW f \in Frontend, Greet(f)
      PROVE  Typed'
  <2>1. CASE up
    <3>1. PICK c \in Conn : Dial(f, c, "hello", {}, "greeting")
      BY <1>30, <2>1 DEF Greet
    <3>2. "hello" \in Method /\ {} \in Workspace \cup {{}} /\ "greeting" \in Phase /\ f \in Client
      BY Constants DEF Method, Phase
    <3> QED BY <1>30, <3>1, <3>2, DialTyped DEF Typed, Greet
  <2>2. CASE ~up
    <3>1. phase' \in [Client -> Phase]
      BY <1>30, <2>2 DEF Greet, Typed, Phase
    <3> QED BY <1>30, <2>2, <3>1 DEF Typed, Greet
  <2> QED BY <2>1, <2>2
<1>31. ASSUME NEW f \in Frontend, Welcomed(f)
      PROVE  Typed'
  <2>1. phase' \in [Client -> Phase]
    BY <1>31 DEF Typed, Welcomed, Phase, End
  <2>2. task' \in [Conn \X Slot -> Task]
    BY <1>31, EndTyped, Constants DEF Welcomed, Typed, FrontendsHold, Hold
  <2> QED BY <1>31, <2>1, <2>2 DEF Typed, Welcomed
<1>32. ASSUME NEW f \in Frontend, Leave(f)
      PROVE  Typed'
  <2>1. hungUp' \in SUBSET Conn
    <3>1. peer[f] \in Conn
      BY <1>32, Constants DEF Leave, Hold, Typed
    <3> QED BY <1>32, <3>1 DEF Leave, Typed
  <2>2. peer' \in [Client -> Conn \cup {NoConn}]
    BY <1>32 DEF Typed, Leave
  <2>3. phase' \in [Client -> Phase]
    BY <1>32 DEF Typed, Leave, Phase
  <2>4. mishaps' \in 0 .. MaxMishaps
    BY <1>32, Constants DEF Typed, Leave, Mishap
  <2> QED BY <1>32, <2>1, <2>2, <2>3, <2>4 DEF Typed, Leave
<1>33. ASSUME NEW f \in Frontend, NEW k \in Slot, Ask(f, k)
      PROVE  Typed'
  <2>1. task' \in [Conn \X Slot -> Task]
    <3>1. PICK method \in {"connect", "call", "list", "close"}, root \in Workspace \cup {{}} :
              task' = [task EXCEPT ![<<peer[f], k>>] = [NoTask EXCEPT
                         !.method = method, !.root = root, !.step = "sent"]]
      BY <1>33 DEF Ask
    <3>2. [NoTask EXCEPT !.method = method, !.root = root, !.step = "sent"] \in Task
      BY NoTaskTyped, TaskUpdates DEF Method
    <3> QED BY <3>1, <3>2 DEF Typed
  <2>2. phase' \in [Client -> Phase]
    <3>1. phase' = phase \/ phase' = [phase EXCEPT ![f] = "leaving"]
      BY <1>33 DEF Ask
    <3> QED BY <3>1 DEF Typed, Phase
  <2> QED BY <1>33, <2>1, <2>2 DEF Typed, Ask
<1>34. ASSUME NEW c \in Conn, NEW k \in Slot, TooSlow(c, k)
      PROVE  Typed'
  <2>1. task' \in [Conn \X Slot -> Task]
    BY <1>34, AnswerTyped DEF TooSlow, Steps
  <2>2. hungUp' \in SUBSET Conn
    BY <1>34 DEF Typed, TooSlow, Answer
  <2>3. mishaps' \in 0 .. MaxMishaps
    BY <1>34, Constants DEF Typed, TooSlow, Mishap, Answer
  <2> QED BY <1>34, <2>1, <2>2, <2>3 DEF Typed, TooSlow
<1>35. ASSUME NEW c \in Conn, Farewell(c)
      PROVE  Typed'
  <2>1. data' \in Data
    BY <1>35, DataUpdates DEF Farewell, Typed
  <2>2. outbox' \in [Conn -> Seq(Message)]
    BY <1>35, SendTyped, CloseTyped DEF Farewell
  <2> QED BY <1>35, <2>1, <2>2 DEF Typed, Farewell
<1>36. ASSUME NEW c \in Conn, NEW k \in Slot, Forward(c, k)
      PROVE  Typed'
  <2>1. task' \in [Conn \X Slot -> Task]
    BY <1>36, AnswerTyped, EndTyped DEF Forward, Steps
  <2>2. outbox' \in [Conn -> Seq(Message)]
    <3>1. task[<<c, k>>].method \in {"connect", "call"}
      BY <1>36 DEF Forward, StepsFit, Fits
    <3>2. [kind |-> task[<<c, k>>].method, session |-> c, slot |-> k] \in Message
      BY <3>1 DEF Message
    <3> QED BY <1>36, <3>2, SendTyped DEF Forward
  <2> QED BY <1>36, <2>1, <2>2 DEF Typed, Forward
<1>37. ASSUME NEW c \in Conn, NEW k \in Slot, TellWindow(c, k)
      PROVE  Typed'
  <2>1. task' \in [Conn \X Slot -> Task]
    <3>1. task \in [Conn \X Slot -> Task] /\ task[<<c, k>>] \in Task
      BY DEF Typed
    <3>2. [task[<<c, k>>] EXCEPT !.step = "done", !.target = NoConn] \in Task
      BY <3>1, TaskUpdates DEF Steps
    <3> QED BY <1>37, <3>1, <3>2, NoTaskTyped DEF TellWindow
  <2>2. outbox' \in [Conn -> Seq(Message)]
    BY <1>37, SendTyped, CloseTyped DEF TellWindow
  <2> QED BY <1>37, <2>1, <2>2 DEF Typed, TellWindow
<1>38. ASSUME UNCHANGED vars
      PROVE  Typed'
  BY <1>38 DEF Typed, vars
<1> QED
  BY <1>1, <1>2, <1>3, <1>4, <1>5, <1>6, <1>7, <1>8, <1>9, <1>10, <1>11, <1>12,
     <1>13, <1>14, <1>15, <1>16, <1>17, <1>18, <1>19, <1>20, <1>21, <1>22, <1>23, <1>24,
     <1>25, <1>26, <1>27, <1>28, <1>29, <1>30, <1>31, <1>32, <1>33, <1>34, <1>35, <1>36,
     <1>37, <1>38, StepKinds

-----------------------------------------------------------------------------
LEMMA AnswerKeeps ==
    ASSUME Typed, NEW c \in Conn, NEW k \in Slot, NEW step, Answer(c, k, step),
           NEW i \in Conn \X Slot
    PROVE  task'[i].method = task[i].method /\ task'[i].root = task[i].root
<1>1. task[i] \in Task /\ task \in [Conn \X Slot -> Task]
  BY DEF Typed
<1>2. task'[i] = task[i] \/ task'[i] = [task[i] EXCEPT !.step = step]
  BY <1>1 DEF Answer
<1> QED BY <1>1, <1>2 DEF Task

LEMMA EndKeeps ==
    ASSUME Typed, NEW c \in Conn, NEW k \in Slot, End(c, k), NEW i \in Conn \X Slot
    PROVE  task'[i] = NoTask \/ task'[i] = task[i]
  BY DEF End, Typed

LEMMA EndsWithKeeps ==
    ASSUME Typed, NEW c \in Conn, NEW k \in Slot, NEW e, EndsWith(c, k, e), NEW i \in Conn \X Slot
    PROVE  task'[i] = NoTask \/ (task'[i].method = task[i].method /\ task'[i].root = task[i].root)
<1>1. task[i] \in Task /\ task \in [Conn \X Slot -> Task]
  BY DEF Typed
<1>2. PICK t : /\ task' = [task EXCEPT ![<<c, k>>] = t]
               /\ \/ t = [task[<<c, k>>] EXCEPT !.step = "closing", !.target = e]
                  \/ t = [task[<<c, k>>] EXCEPT !.step = "done"]
                  \/ t = NoTask
  BY EndsWithIs
<1>3. \/ task'[i] = task[i] \/ task'[i] = NoTask
      \/ task'[i] = [task[i] EXCEPT !.step = "closing", !.target = e]
      \/ task'[i] = [task[i] EXCEPT !.step = "done"]
  BY <1>1, <1>2
<1> QED BY <1>1, <1>3 DEF Task

(* The steps that write the tasks.                                         *)
LEMMA TaskSteps ==
    ASSUME [Next]_vars
    PROVE  \/ UNCHANGED task
           \/ \E c \in Conn : \/ RegisterWorkspace(c) \/ McpHello(c)
                              \/ \E k \in Slot : \/ Read(c, k) \/ CallTool(c, k) \/ Forward(c, k)
                                                 \/ CallFails(c, k) \/ FinishConnect(c, k)
                                                 \/ CloseSession(c, k) \/ TellWindow(c, k)
                                                 \/ TooSlow(c, k)
           \/ IdleExit \/ DaemonDies
           \/ \E w \in Window : \/ Connect(w) \/ Confirmed(w) \/ Handle(w)
                                \/ \E c \in Conn, k \in Slot : Reply(w, c, k) \/ ReplyLate(w, c, k)
           \/ \E f \in Frontend : \/ Greet(f) \/ Welcomed(f)
                                  \/ \E k \in Slot : Ask(f, k)
<1> USE DEF Net
<1>1. ASSUME NEW c \in Conn, Accept(c) \/ EndOfStream(c) \/ RemovePeer(c) \/ Farewell(c) \/ Forget(c)
      PROVE  UNCHANGED task
  BY <1>1 DEF Accept, EndOfStream, RemovePeer, Farewell, Forget
<1>2. ASSUME NEW x \in Client, Launch(x)
      PROVE  UNCHANGED task
  BY <1>2 DEF Launch
<1>3. ASSUME NEW w \in Window, Rejected(w) \/ Disconnected(w) \/ TimerFires(w) \/ Start(w) \/
             Open(w) \/ Restart(w) \/ Disable(w) \/ Enable(w) \/ Dispose(w) \/
             ConnectFails(w) \/ RegisterTimesOut(w)
      PROVE  UNCHANGED task
  BY <1>3 DEF Rejected, Disconnected, TimerFires, Start, Open, Restart, Disable, Enable,
              Dispose, ConnectFails, RegisterTimesOut
<1>4. ASSUME NEW f \in Frontend, Leave(f)
      PROVE  UNCHANGED task
  BY <1>4 DEF Leave
<1>5. ASSUME UNCHANGED vars
      PROVE  UNCHANGED task
  BY <1>5 DEF vars
<1> QED BY <1>1, <1>2, <1>3, <1>4, <1>5, StepKinds

(* What a task becomes when its method's lock is given back.               *)
LEMMA PickIs ==
    ASSUME Typed, NEW c \in Conn, NEW k \in Slot, CallTool(c, k), NEW i \in Conn \X Slot
    PROVE  \/ task'[i] = task[i] \/ task'[i] = NoTask
           \/ /\ i = <<c, k>> /\ task[i].method # "list"
              /\ task'[i].step = "picked" /\ task'[i].target \in Target(c, k)
              /\ task'[i].method = task[i].method /\ task'[i].root = task[i].root
<1>1. task \in [Conn \X Slot -> Task]
  BY DEF Typed
<1>2. ASSUME NEW e \in Target(c, k), task[<<c, k>>].method # "list",
             task' = [task EXCEPT ![<<c, k>>].step = "picked", ![<<c, k>>].target = e]
      PROVE  \/ task'[i] = task[i]
             \/ /\ i = <<c, k>> /\ task[i].method # "list"
                /\ task'[i].step = "picked" /\ task'[i].target \in Target(c, k)
                /\ task'[i].method = task[i].method /\ task'[i].root = task[i].root
  <2>1. task' = [task EXCEPT ![<<c, k>>] = [task[<<c, k>>] EXCEPT !.step = "picked", !.target = e]]
    BY <1>2
  <2>2. i # <<c, k>> => task'[i] = task[i]
    BY <1>1, <2>1
  <2>3. i = <<c, k>> => task'[i] = [task[i] EXCEPT !.step = "picked", !.target = e]
    BY <1>1, <2>1
  <2>4. task[i] \in Task
    BY <1>1
  <2>5. CASE i = <<c, k>>
    <3>1. /\ task'[i].step = "picked" /\ task'[i].target = e
          /\ task'[i].method = task[i].method /\ task'[i].root = task[i].root
      BY <2>3, <2>4, <2>5 DEF Task
    <3> QED BY <1>2, <2>5, <3>1
  <2> QED BY <2>2, <2>5
<1>3. ASSUME End(c, k)
      PROVE  task'[i] = task[i] \/ task'[i] = NoTask
  BY <1>3, EndKeeps
<1> QED BY <1>2, <1>3 DEF CallTool

(* A registration is in the task it was made with, or is being made.       *)
LEMMA OnlyWindowsRegister ==
    ASSUME Typed, WindowsHold, FrontendsHold, [Next]_vars,
           NEW i \in Conn \X Slot, task'[i].method = "register"
    PROVE  \/ task[i].method = "register" /\ task'[i].root = task[i].root
           \/ \E w \in Window : Connect(w) /\ i = <<peer'[w], 1>> /\ task'[i].root = Root[w]
<1> DEFINE Same == task[i].method = "register" /\ task'[i].root = task[i].root
           Registers(v) == Connect(v) /\ i = <<peer'[v], 1>> /\ task'[i].root = Root[v]
<1> USE DEF Fine, Net, Runtime
<1>1. ASSUME NEW c \in Conn, RegisterWorkspace(c)
      PROVE  Same \/ \E v \in Window : Registers(v)
  BY <1>1, AnswerKeeps, Constants DEF RegisterWorkspace, Answer
<1>2. ASSUME NEW c \in Conn, McpHello(c)
      PROVE  Same \/ \E v \in Window : Registers(v)
  BY <1>2, AnswerKeeps, Constants DEF McpHello, Answer
<1>3. ASSUME NEW c \in Conn, NEW k \in Slot, Read(c, k)
      PROVE  Same \/ \E v \in Window : Registers(v)
  BY <1>3, AnswerKeeps, Constants DEF Read, Answer
<1>4. ASSUME NEW c \in Conn, NEW k \in Slot, CallTool(c, k)
      PROVE  Same \/ \E v \in Window : Registers(v)
  BY <1>4, PickIs, NoTaskTyped
<1>5. ASSUME NEW c \in Conn, NEW k \in Slot, CallFails(c, k)
      PROVE  Same \/ \E v \in Window : Registers(v)
  BY <1>5, EndKeeps, NoTaskTyped DEF CallFails
<1>6. ASSUME NEW c \in Conn, NEW k \in Slot, FinishConnect(c, k)
      PROVE  Same \/ \E v \in Window : Registers(v)
  BY <1>6, EndsWithKeeps, NoTaskTyped DEF FinishConnect
<1>7. ASSUME NEW c \in Conn, NEW k \in Slot, CloseSession(c, k)
      PROVE  Same \/ \E v \in Window : Registers(v)
  BY <1>7, EndsWithKeeps, NoTaskTyped DEF CloseSession
<1>8. ASSUME IdleExit \/ DaemonDies
      PROVE  Same \/ \E v \in Window : Registers(v)
  BY <1>8, NoTaskTyped DEF IdleExit, DaemonDies, Gone
<1>9. ASSUME NEW w \in Window, Connect(w)
      PROVE  Same \/ \E v \in Window : Registers(v)
  <2>1. PICK c \in Conn : Dial(w, c, "register", Root[w], "registering")
    BY <1>9 DEF Connect
  <2>2. CASE i = <<c, 1>>
    <3>1. task'[i] = [NoTask EXCEPT !.method = "register", !.root = Root[w], !.step = "sent"]
      BY <2>1, <2>2 DEF Dial
    <3>2. task'[i].root = Root[w]
      BY <3>1 DEF NoTask
    <3>3. peer'[w] = c
      BY <2>1, Constants DEF Dial, Typed
    <3> QED BY <1>9, <2>2, <3>2, <3>3
  <2>3. CASE i # <<c, 1>>
    <3>1. task'[i] = NoTask \/ task'[i] = task[i]
      BY <2>1, <2>3 DEF Dial
    <3> QED BY <3>1, NoTaskTyped
  <2> QED BY <2>2, <2>3
<1>10. ASSUME NEW w \in Window, Confirmed(w)
      PROVE  Same \/ \E v \in Window : Registers(v)
  <2>1. peer[w] \in Conn
    BY <1>10, Constants DEF Confirmed, Typed, WindowsHold, Hold
  <2> QED BY <1>10, <2>1, AnswerKeeps, Constants DEF Confirmed, Answer
<1>11. ASSUME NEW w \in Window, Handle(w)
      PROVE  Same \/ \E v \in Window : Registers(v)
  <2> DEFINE m == Head(outbox[peer[w]])
  <2>1. m.session \in Conn /\ m.slot \in Slot
    BY <1>11, HeadTyped DEF Handle
  <2>2. UNCHANGED task \/ Answer(m.session, m.slot, "running")
    BY <1>11 DEF Handle, Answer
  <2> QED BY <2>1, <2>2, AnswerKeeps
<1>12. ASSUME NEW w \in Window, NEW c \in Conn, NEW k \in Slot, Reply(w, c, k)
      PROVE  Same \/ \E v \in Window : Registers(v)
  BY <1>12, AnswerKeeps, EndKeeps, NoTaskTyped DEF Reply
<1>13. ASSUME NEW w \in Window, NEW c \in Conn, NEW k \in Slot, ReplyLate(w, c, k)
      PROVE  Same \/ \E v \in Window : Registers(v)
  BY <1>13, EndKeeps, NoTaskTyped DEF ReplyLate
<1>14. ASSUME NEW f \in Frontend, Greet(f)
      PROVE  Same \/ \E v \in Window : Registers(v)
  <2>1. ASSUME NEW c \in Conn, Dial(f, c, "hello", {}, "greeting")
        PROVE  Same
    <3>1. \/ task'[i] = NoTask \/ task'[i] = task[i]
          \/ task'[i] = [NoTask EXCEPT !.method = "hello", !.root = {}, !.step = "sent"]
      BY <2>1 DEF Dial
    <3>2. task'[i] = task[i]
      BY <3>1, NoTaskTyped DEF NoTask
    <3> QED BY <3>2
  <2> QED BY <1>14, <2>1 DEF Greet
<1>15. ASSUME NEW f \in Frontend, Welcomed(f)
      PROVE  Same \/ \E v \in Window : Registers(v)
  <2>1. peer[f] \in Conn
    BY <1>15, Constants DEF Welcomed, Typed, FrontendsHold, Hold
  <2> QED BY <1>15, <2>1, EndKeeps, NoTaskTyped, Constants DEF Welcomed
<1>16. ASSUME NEW f \in Frontend, NEW k \in Slot, Ask(f, k)
      PROVE  Same \/ \E v \in Window : Registers(v)
  <2>1. PICK method \in {"connect", "call", "list", "close"}, root \in Workspace \cup {{}} :
            task' = [task EXCEPT ![<<peer[f], k>>] = [NoTask EXCEPT
                         !.method = method, !.root = root, !.step = "sent"]]
    BY <1>16 DEF Ask
  <2>2. task'[i] = task[i] \/ task'[i] = [NoTask EXCEPT !.method = method, !.root = root, !.step = "sent"]
    BY <2>1 DEF Typed
  <2>3. task'[i] = task[i]
    BY <2>2 DEF NoTask
  <2> QED BY <2>3
<1>17. ASSUME NEW c \in Conn, NEW k \in Slot, TooSlow(c, k)
      PROVE  Same \/ \E v \in Window : Registers(v)
  BY <1>17, AnswerKeeps, Constants DEF TooSlow, Answer
<1>18. ASSUME NEW c \in Conn, NEW k \in Slot, Forward(c, k)
      PROVE  Same \/ \E v \in Window : Registers(v)
  BY <1>18, AnswerKeeps, EndKeeps, NoTaskTyped DEF Forward
<1>19. ASSUME NEW c \in Conn, NEW k \in Slot, TellWindow(c, k)
      PROVE  Same \/ \E v \in Window : Registers(v)
  <2>1. task[i] \in Task
    BY DEF Typed
  <2>2. \/ task'[i] = task[i] \/ task'[i] = NoTask
        \/ task'[i] = [task[i] EXCEPT !.step = "done", !.target = NoConn]
    BY <1>19 DEF TellWindow, Typed
  <2> QED BY <2>1, <2>2, NoTaskTyped DEF Task
<1>20. CASE UNCHANGED task
  BY <1>20
<1> QED
  BY <1>1, <1>2, <1>3, <1>4, <1>5, <1>6, <1>7, <1>8, <1>9, <1>10, <1>11, <1>12, <1>13,
     <1>14, <1>15, <1>16, <1>17, <1>18, <1>19, <1>20, TaskSteps

(* What is registered names a workspace.                                   *)
LEMMA RootsAreNamedStep ==
    ASSUME Typed, WindowsHold, FrontendsHold, RootsAreNamed, [Next]_vars
    PROVE  RootsAreNamed'
  BY OnlyWindowsRegister, Constants DEF RootsAreNamed

LEMMA AnswerIs ==
    ASSUME Typed, NEW c \in Conn, NEW k \in Slot, NEW step, Answer(c, k, step),
           NEW i \in Conn \X Slot
    PROVE  /\ i # <<c, k>> => task'[i] = task[i]
           /\ i = <<c, k>> => /\ task'[i].step = step /\ task'[i].method = task[i].method
                              /\ task'[i].root = task[i].root /\ task'[i].target = task[i].target
<1>1. task[i] \in Task /\ task \in [Conn \X Slot -> Task]
  BY DEF Typed
<1>2. i = <<c, k>> => task'[i] = [task[i] EXCEPT !.step = step]
  BY <1>1 DEF Answer
<1> QED BY <1>1, <1>2 DEF Task, Answer

LEMMA EndsWithGives ==
    ASSUME Typed, NEW c \in Conn, NEW k \in Slot, NEW e, EndsWith(c, k, e), NEW i \in Conn \X Slot
    PROVE  \/ task'[i] = task[i] \/ task'[i] = NoTask
           \/ /\ i = <<c, k>> /\ task'[i].method = task[i].method /\ task'[i].root = task[i].root
              /\ \/ e # NoConn /\ task'[i].step = "closing" /\ task'[i].target = e
                 \/ /\ task[i].method = "close"
                    /\ task'[i].step = "done" /\ task'[i].target = task[i].target
<1>1. task[i] \in Task /\ task \in [Conn \X Slot -> Task]
  BY DEF Typed
<1>2. PICK t : /\ task' = [task EXCEPT ![<<c, k>>] = t]
               /\ \/ e # NoConn /\ t = [task[<<c, k>>] EXCEPT !.step = "closing", !.target = e]
                  \/ /\ task[<<c, k>>].method = "close"
                     /\ t = [task[<<c, k>>] EXCEPT !.step = "done"]
                  \/ t = NoTask
  BY EndsWithIs
<1>3. i # <<c, k>> => task'[i] = task[i]
  BY <1>1, <1>2
<1>4. i = <<c, k>> => task'[i] = t
  BY <1>1, <1>2
<1> QED BY <1>1, <1>2, <1>3, <1>4 DEF Task

LEMMA StepsFitStep ==
    ASSUME Typed, WindowsHold, FrontendsHold, StepsFit, [Next]_vars
    PROVE  StepsFit'
<1> SUFFICES ASSUME NEW i \in Conn \X Slot PROVE Fits(task'[i])
  BY DEF StepsFit
<1> USE DEF Fine, Net, Runtime
<1>0. Fits(task[i]) /\ Fits(NoTask) /\ task[i] \in Task
  BY NoTaskTyped DEF StepsFit, Fits, Typed
<1>1. ASSUME NEW c \in Conn, NEW k \in Slot, Answer(c, k, "spawned") \/ Answer(c, k, "done") \/
             Answer(c, k, "duplicate") \/ Answer(c, k, "none")
      PROVE  Fits(task'[i])
  BY <1>0, <1>1, AnswerIs DEF Fits
<1>2. ASSUME NEW c \in Conn, NEW k \in Slot, End(c, k)
      PROVE  Fits(task'[i])
  BY <1>0, <1>2, EndKeeps
<1>3. ASSUME NEW c \in Conn, RegisterWorkspace(c) \/ McpHello(c)
      PROVE  Fits(task'[i])
  BY <1>1, <1>3, Constants DEF RegisterWorkspace, McpHello
<1>4. ASSUME NEW c \in Conn, NEW k \in Slot, Read(c, k)
      PROVE  Fits(task'[i])
  BY <1>1, <1>4 DEF Read, Answer
<1>5. ASSUME NEW c \in Conn, NEW k \in Slot, CallTool(c, k)
      PROVE  Fits(task'[i])
  <2>1. task[<<c, k>>].method \in {"connect", "call", "list"}
    BY <1>5 DEF CallTool, Runs
  <2> QED BY <1>0, <1>5, <2>1, PickIs DEF Fits
<1>6. ASSUME NEW c \in Conn, NEW k \in Slot, Forward(c, k)
      PROVE  Fits(task'[i])
  <2>1. ASSUME Answer(c, k, "waiting")
        PROVE  Fits(task'[i])
    BY <1>0, <1>6, <2>1, AnswerIs DEF Forward, Fits
  <2> QED BY <1>2, <1>6, <2>1 DEF Forward
<1>7. ASSUME NEW c \in Conn, NEW k \in Slot, CallFails(c, k)
      PROVE  Fits(task'[i])
  BY <1>2, <1>7 DEF CallFails
<1>8. ASSUME NEW c \in Conn, NEW k \in Slot, FinishConnect(c, k)
      PROVE  Fits(task'[i])
  <2>1. task[<<c, k>>].method = "connect"
    BY <1>8 DEF FinishConnect, StepsFit, Fits
  <2> QED BY <1>0, <1>8, <2>1, EndsWithGives DEF FinishConnect, Fits
<1>9. ASSUME NEW c \in Conn, NEW k \in Slot, CloseSession(c, k)
      PROVE  Fits(task'[i])
  BY <1>0, <1>9, EndsWithGives DEF CloseSession, Runs, Fits
<1>10. ASSUME NEW c \in Conn, NEW k \in Slot, TellWindow(c, k)
      PROVE  Fits(task'[i])
  <2>1. \/ task'[i] = task[i] \/ task'[i] = NoTask
        \/ task'[i] = [task[i] EXCEPT !.step = "done", !.target = NoConn]
    BY <1>10 DEF TellWindow, Typed
  <2> QED BY <1>0, <2>1 DEF Fits, Task
<1>11. ASSUME NEW c \in Conn, NEW k \in Slot, TooSlow(c, k)
      PROVE  Fits(task'[i])
  BY <1>0, <1>11, AnswerIs DEF TooSlow, Fits
<1>12. ASSUME IdleExit \/ DaemonDies
      PROVE  Fits(task'[i])
  BY <1>0, <1>12 DEF IdleExit, DaemonDies, Gone
<1>13. ASSUME NEW x \in Client, NEW c \in Conn, NEW method, NEW root, NEW next,
              Dial(x, c, method, root, next)
      PROVE  Fits(task'[i])
  <2>1. \/ task'[i] = NoTask \/ task'[i] = task[i]
        \/ task'[i] = [NoTask EXCEPT !.method = method, !.root = root, !.step = "sent"]
    BY <1>13 DEF Dial
  <2> QED BY <1>0, <2>1 DEF Fits, NoTask
<1>14. ASSUME NEW w \in Window, Connect(w)
      PROVE  Fits(task'[i])
  BY <1>13, <1>14, Constants DEF Connect
<1>15. ASSUME NEW w \in Window, Confirmed(w)
      PROVE  Fits(task'[i])
  <2>1. peer[w] \in Conn
    BY <1>15, Constants DEF Confirmed, Typed, WindowsHold, Hold
  <2> QED BY <1>1, <1>15, <2>1, Constants DEF Confirmed, Answer
<1>16. ASSUME NEW w \in Window, Handle(w)
      PROVE  Fits(task'[i])
  <2> DEFINE m == Head(outbox[peer[w]])
  <2>1. m.session \in Conn /\ m.slot \in Slot
    BY <1>16, HeadTyped DEF Handle
  <2>2. \/ UNCHANGED task
        \/ Answer(m.session, m.slot, "running") /\ task[<<m.session, m.slot>>].step = "waiting"
    BY <1>16 DEF Handle, Answer
  <2> QED BY <1>0, <2>1, <2>2, AnswerIs DEF Fits
<1>17. ASSUME NEW w \in Window, NEW c \in Conn, NEW k \in Slot, Reply(w, c, k)
      PROVE  Fits(task'[i])
  <2>1. ASSUME Answer(c, k, "connected") \/ Answer(c, k, "refused"), task[<<c, k>>].method = "connect"
        PROVE  Fits(task'[i])
    BY <1>0, <2>1, AnswerIs DEF Fits
  <2> QED BY <1>2, <1>17, <2>1 DEF Reply
<1>18. ASSUME NEW w \in Window, NEW c \in Conn, NEW k \in Slot, ReplyLate(w, c, k)
      PROVE  Fits(task'[i])
  BY <1>2, <1>18 DEF ReplyLate
<1>19. ASSUME NEW f \in Frontend, Greet(f)
      PROVE  Fits(task'[i])
  BY <1>0, <1>13, <1>19, Constants DEF Greet
<1>20. ASSUME NEW f \in Frontend, Welcomed(f)
      PROVE  Fits(task'[i])
  <2>1. peer[f] \in Conn
    BY <1>20, Constants DEF Welcomed, Typed, FrontendsHold, Hold
  <2> QED BY <1>2, <1>20, <2>1, Constants DEF Welcomed
<1>21. ASSUME NEW f \in Frontend, NEW k \in Slot, Ask(f, k)
      PROVE  Fits(task'[i])
  <2>1. PICK method, root : task' = [task EXCEPT ![<<peer[f], k>>] =
                                       [NoTask EXCEPT !.method = method, !.root = root, !.step = "sent"]]
    BY <1>21 DEF Ask
  <2>2. \/ task'[i] = task[i]
        \/ task'[i] = [NoTask EXCEPT !.method = method, !.root = root, !.step = "sent"]
    BY <2>1 DEF Typed
  <2> QED BY <1>0, <2>2 DEF Fits, NoTask
<1>22. CASE UNCHANGED task
  BY <1>0, <1>22
<1> QED
  BY <1>3, <1>4, <1>5, <1>6, <1>7, <1>8, <1>9, <1>10, <1>11, <1>12, <1>14, <1>15, <1>16,
     <1>17, <1>18, <1>19, <1>20, <1>21, <1>22, TaskSteps

LEMMA ClientsHoldStep ==
    ASSUME Typed, WindowsHold, FrontendsHold, [Next]_vars
    PROVE  (WindowsHold /\ FrontendsHold)'
<1> USE DEF Fine, Net, Runtime
<1>1. ASSUME NEW w \in Window, Connect(w)
      PROVE  (WindowsHold /\ FrontendsHold)'
  <2>1. PICK c \in Conn : Dial(w, c, "register", Root[w], "registering")
    BY <1>1 DEF Connect
  <2>2. WindowsHold'
    BY <2>1, Constants DEF Dial, WindowsHold, Hold, Typed
  <2>3. FrontendsHold'
    BY <2>1, Constants DEF Dial, FrontendsHold, Hold, Typed
  <2> QED BY <2>2, <2>3
<1>2. ASSUME NEW w \in Window, Confirmed(w)
      PROVE  (WindowsHold /\ FrontendsHold)'
  <2>1. WindowsHold'
    BY <1>2, Constants DEF Confirmed, Settled, WindowsHold, Hold, Typed
  <2>2. FrontendsHold'
    BY <1>2, Constants DEF Confirmed, FrontendsHold, Hold, Typed
  <2> QED BY <2>1, <2>2
<1>3. ASSUME NEW w \in Window, Rejected(w)
      PROVE  (WindowsHold /\ FrontendsHold)'
  <2>1. WindowsHold'
    BY <1>3, Constants DEF Rejected, StopConnection, Settled, WindowsHold, Hold, Typed
  <2>2. FrontendsHold'
    BY <1>3, Constants DEF Rejected, StopConnection, FrontendsHold, Hold, Typed
  <2> QED BY <2>1, <2>2
<1>4. ASSUME NEW w \in Window, Disconnected(w)
      PROVE  (WindowsHold /\ FrontendsHold)'
  <2>1. WindowsHold'
    BY <1>4, Constants DEF Disconnected, StopConnection, Settled, WindowsHold, Hold, Typed
  <2>2. FrontendsHold'
    BY <1>4, Constants DEF Disconnected, StopConnection, FrontendsHold, Hold, Typed
  <2> QED BY <2>1, <2>2
<1>5. ASSUME NEW w \in Window, Start(w)
      PROVE  (WindowsHold /\ FrontendsHold)'
  <2>1. WindowsHold'
    BY <1>5, Constants DEF Start, Settled, WindowsHold, Hold, Typed
  <2>2. FrontendsHold'
    BY <1>5, Constants DEF Start, FrontendsHold, Hold, Typed
  <2> QED BY <2>1, <2>2
<1>6. ASSUME NEW w \in Window, Open(w)
      PROVE  (WindowsHold /\ FrontendsHold)'
  <2>1. WindowsHold'
    BY <1>6, Constants DEF Open, Settled, WindowsHold, Hold, Typed
  <2>2. FrontendsHold'
    BY <1>6, Constants DEF Open, FrontendsHold, Hold, Typed
  <2> QED BY <2>1, <2>2
<1>7. ASSUME NEW w \in Window, Restart(w)
      PROVE  (WindowsHold /\ FrontendsHold)'
  <2>1. WindowsHold'
    BY <1>7, Constants DEF Restart, StopConnection, Settled, WindowsHold, Hold, Typed
  <2>2. FrontendsHold'
    BY <1>7, Constants DEF Restart, StopConnection, FrontendsHold, Hold, Typed
  <2> QED BY <2>1, <2>2
<1>8. ASSUME NEW w \in Window, Disable(w)
      PROVE  (WindowsHold /\ FrontendsHold)'
  <2>1. WindowsHold'
    BY <1>8, Constants DEF Disable, StopConnection, Settled, WindowsHold, Hold, Typed
  <2>2. FrontendsHold'
    BY <1>8, Constants DEF Disable, StopConnection, FrontendsHold, Hold, Typed
  <2> QED BY <2>1, <2>2
<1>9. ASSUME NEW w \in Window, Enable(w)
      PROVE  (WindowsHold /\ FrontendsHold)'
  <2>1. WindowsHold'
    BY <1>9, Constants DEF Enable, Settled, WindowsHold, Hold, Typed
  <2>2. FrontendsHold'
    BY <1>9, Constants DEF Enable, FrontendsHold, Hold, Typed
  <2> QED BY <2>1, <2>2
<1>10. ASSUME NEW w \in Window, Dispose(w)
      PROVE  (WindowsHold /\ FrontendsHold)'
  <2>1. WindowsHold'
    BY <1>10, Constants DEF Dispose, StopConnection, Settled, WindowsHold, Hold, Typed
  <2>2. FrontendsHold'
    BY <1>10, Constants DEF Dispose, StopConnection, FrontendsHold, Hold, Typed
  <2> QED BY <2>1, <2>2
<1>11. ASSUME NEW w \in Window, ConnectFails(w)
      PROVE  (WindowsHold /\ FrontendsHold)'
  <2>1. WindowsHold'
    BY <1>11, Constants DEF ConnectFails, Settled, WindowsHold, Hold, Typed
  <2>2. FrontendsHold'
    BY <1>11, Constants DEF ConnectFails, FrontendsHold, Hold, Typed
  <2> QED BY <2>1, <2>2
<1>12. ASSUME NEW w \in Window, RegisterTimesOut(w)
      PROVE  (WindowsHold /\ FrontendsHold)'
  <2>1. WindowsHold'
    BY <1>12, Constants DEF RegisterTimesOut, StopConnection, Settled, WindowsHold, Hold, Typed
  <2>2. FrontendsHold'
    BY <1>12, Constants DEF RegisterTimesOut, StopConnection, FrontendsHold, Hold, Typed
  <2> QED BY <2>1, <2>2
<1>13. ASSUME NEW f \in Frontend, Greet(f)
      PROVE  (WindowsHold /\ FrontendsHold)'
  <2>1. ASSUME NEW c \in Conn, Dial(f, c, "hello", {}, "greeting")
        PROVE  (WindowsHold /\ FrontendsHold)'
    <3>1. WindowsHold'
      BY <2>1, Constants DEF Dial, WindowsHold, Hold, Typed
    <3>2. FrontendsHold'
      BY <2>1, Constants DEF Dial, FrontendsHold, Hold, Typed
    <3> QED BY <3>1, <3>2
  <2>2. ASSUME phase' = [phase EXCEPT ![f] = "connecting"], UNCHANGED peer
        PROVE  (WindowsHold /\ FrontendsHold)'
    BY <2>2, Constants DEF WindowsHold, FrontendsHold, Hold, Typed
  <2> QED BY <1>13, <2>1, <2>2 DEF Greet
<1>14. ASSUME NEW f \in Frontend, Welcomed(f)
      PROVE  (WindowsHold /\ FrontendsHold)'
  <2>1. WindowsHold'
    BY <1>14, Constants DEF Welcomed, WindowsHold, Hold, Typed
  <2>2. FrontendsHold'
    BY <1>14, Constants DEF Welcomed, FrontendsHold, Hold, Typed
  <2> QED BY <2>1, <2>2
<1>15. ASSUME NEW f \in Frontend, Leave(f)
      PROVE  (WindowsHold /\ FrontendsHold)'
  <2>1. WindowsHold'
    BY <1>15, Constants DEF Leave, WindowsHold, Hold, Typed
  <2>2. FrontendsHold'
    BY <1>15, Constants DEF Leave, FrontendsHold, Hold, Typed
  <2> QED BY <2>1, <2>2
<1>16. ASSUME NEW f \in Frontend, NEW k \in Slot, Ask(f, k)
      PROVE  (WindowsHold /\ FrontendsHold)'
  <2>1. WindowsHold'
    BY <1>16, Constants DEF Ask, WindowsHold, Hold, Typed
  <2>2. FrontendsHold'
    BY <1>16, Constants DEF Ask, FrontendsHold, Hold, Typed
  <2> QED BY <2>1, <2>2
<1>17. CASE UNCHANGED <<phase, peer>>
  BY <1>17 DEF WindowsHold, FrontendsHold, Hold
<1>18. ASSUME NEW c \in Conn, Accept(c) \/ EndOfStream(c) \/ RemovePeer(c) \/ Farewell(c) \/
             Forget(c) \/ RegisterWorkspace(c) \/ McpHello(c)
      PROVE  UNCHANGED <<phase, peer>>
  BY <1>18 DEF Accept, EndOfStream, RemovePeer, Farewell, Forget, RegisterWorkspace, Answer, McpHello
<1>19. ASSUME NEW c \in Conn, NEW k \in Slot, Read(c, k) \/ CallTool(c, k) \/ Forward(c, k)
             \/ CallFails(c, k) \/ FinishConnect(c, k) \/ CloseSession(c, k) \/ TellWindow(c, k)
             \/ TooSlow(c, k)
      PROVE  UNCHANGED <<phase, peer>>
  BY <1>19 DEF Read, CallTool, Forward, CallFails, FinishConnect, CloseSession, TellWindow, TooSlow
<1>20. ASSUME NEW x \in Client, Launch(x)
      PROVE  UNCHANGED <<phase, peer>>
  BY <1>20 DEF Launch
<1>21. ASSUME IdleExit \/ DaemonDies
      PROVE  UNCHANGED <<phase, peer>>
  BY <1>21 DEF IdleExit, DaemonDies, Gone
<1>22. ASSUME NEW w \in Window, TimerFires(w) \/ Handle(w)
      PROVE  UNCHANGED <<phase, peer>>
  BY <1>22 DEF TimerFires, Handle
<1>23. ASSUME NEW w \in Window, NEW c \in Conn, NEW k \in Slot, Reply(w, c, k) \/
             ReplyLate(w, c, k)
      PROVE  UNCHANGED <<phase, peer>>
  BY <1>23 DEF Reply, Answer, End, RunningIn, ReplyLate
<1>24. ASSUME UNCHANGED vars
      PROVE  UNCHANGED <<phase, peer>>
  BY <1>24 DEF vars
<1> QED
  BY <1>1, <1>2, <1>3, <1>4, <1>5, <1>6, <1>7, <1>8, <1>9, <1>10, <1>11, <1>12, <1>13,
     <1>14, <1>15, <1>16, <1>17, <1>18, <1>19, <1>20, <1>21, <1>22, <1>23, <1>24, StepKinds

(* A connection stays closed, unless its number is used for a new one, and  *)
(* a registration over the new one is that of the window that made it.     *)
LEMMA ClosedStaysClosed ==
    ASSUME Typed, [Next]_vars, NEW c \in Conn
    PROVE  \/ /\ c \in hungUp => c \in hungUp'
              /\ link[c] = "gone" => link'[c] = "gone"
           \/ \E w \in Window : Dial(w, c, "register", Root[w], "registering")
           \/ \E f \in Frontend : Dial(f, c, "hello", {}, "greeting")
<1> DEFINE Stays == /\ c \in hungUp => c \in hungUp'
                    /\ link[c] = "gone" => link'[c] = "gone"
           Dialled == \/ \E w \in Window : Dial(w, c, "register", Root[w], "registering")
                      \/ \E f \in Frontend : Dial(f, c, "hello", {}, "greeting")
<1> USE DEF Fine, Net, Runtime
<1>1. ASSUME NEW b \in Conn, Accept(b)
      PROVE  Stays \/ Dialled
  BY <1>1 DEF Accept, Typed
<1>2. ASSUME NEW b \in Conn, EndOfStream(b)
      PROVE  Stays \/ Dialled
  BY <1>2 DEF EndOfStream, Typed
<1>3. ASSUME NEW b \in Conn, RemovePeer(b)
      PROVE  Stays \/ Dialled
  BY <1>3 DEF RemovePeer, Typed
<1>4. ASSUME NEW b \in Conn, Forget(b)
      PROVE  Stays \/ Dialled
  BY <1>4 DEF Forget, Typed
<1>5. ASSUME IdleExit \/ DaemonDies
      PROVE  Stays \/ Dialled
  BY <1>5 DEF IdleExit, DaemonDies, Gone
<1>6. ASSUME NEW w \in Window, Connect(w)
      PROVE  Stays \/ Dialled
  <2>1. PICK b \in Conn : Dial(w, b, "register", Root[w], "registering")
    BY <1>6 DEF Connect
  <2>2. CASE b # c
    BY <2>1, <2>2 DEF Dial, Typed
  <2> QED BY <2>1, <2>2
<1>7. ASSUME NEW w \in Window, Rejected(w)
      PROVE  Stays \/ Dialled
  BY <1>7 DEF Rejected, StopConnection
<1>8. ASSUME NEW w \in Window, Disconnected(w)
      PROVE  Stays \/ Dialled
  BY <1>8 DEF Disconnected, StopConnection
<1>9. ASSUME NEW w \in Window, NEW b \in Conn, NEW k \in Slot, ReplyLate(w, b, k)
      PROVE  Stays \/ Dialled
  BY <1>9 DEF ReplyLate, RunningIn, Typed
<1>10. ASSUME NEW w \in Window, Restart(w)
      PROVE  Stays \/ Dialled
  BY <1>10 DEF Restart, StopConnection
<1>11. ASSUME NEW w \in Window, Disable(w)
      PROVE  Stays \/ Dialled
  BY <1>11 DEF Disable, StopConnection
<1>12. ASSUME NEW w \in Window, Dispose(w)
      PROVE  Stays \/ Dialled
  BY <1>12 DEF Dispose, StopConnection
<1>13. ASSUME NEW w \in Window, RegisterTimesOut(w)
      PROVE  Stays \/ Dialled
  BY <1>13 DEF RegisterTimesOut, StopConnection
<1>14. ASSUME NEW f \in Frontend, Greet(f)
      PROVE  Stays \/ Dialled
  <2>1. ASSUME NEW b \in Conn, Dial(f, b, "hello", {}, "greeting")
        PROVE  Stays \/ Dialled
    <3>1. CASE b # c
      BY <2>1, <3>1 DEF Dial, Typed
    <3> QED BY <2>1, <3>1
  <2> QED BY <1>14, <2>1 DEF Greet
<1>15. ASSUME NEW f \in Frontend, Leave(f)
      PROVE  Stays \/ Dialled
  BY <1>15 DEF Leave
<1>16. ASSUME NEW b \in Conn, NEW k \in Slot, TooSlow(b, k)
      PROVE  Stays \/ Dialled
  BY <1>16 DEF TooSlow
<1>17. CASE UNCHANGED <<hungUp, link>>
  BY <1>17
<1>18. ASSUME NEW b \in Conn, Farewell(b) \/ RegisterWorkspace(b) \/ McpHello(b)
      PROVE  UNCHANGED <<hungUp, link>>
  BY <1>18 DEF Farewell, RegisterWorkspace, McpHello
<1>19. ASSUME NEW b \in Conn, NEW k \in Slot, Read(b, k) \/ CallTool(b, k) \/ Forward(b, k)
             \/ CallFails(b, k) \/ FinishConnect(b, k) \/ CloseSession(b, k) \/ TellWindow(b, k)
      PROVE  UNCHANGED <<hungUp, link>>
  BY <1>19 DEF Read, CallTool, Forward, CallFails, FinishConnect, CloseSession, TellWindow
<1>20. ASSUME NEW x \in Client, Launch(x)
      PROVE  UNCHANGED <<hungUp, link>>
  BY <1>20 DEF Launch
<1>21. ASSUME NEW w \in Window, Confirmed(w) \/ TimerFires(w) \/ Start(w) \/ Handle(w) \/
             Open(w) \/ Enable(w) \/ ConnectFails(w)
      PROVE  UNCHANGED <<hungUp, link>>
  BY <1>21 DEF Confirmed, TimerFires, Start, Handle, Open, Enable, ConnectFails
<1>22. ASSUME NEW w \in Window, NEW b \in Conn, NEW k \in Slot, Reply(w, b, k)
      PROVE  UNCHANGED <<hungUp, link>>
  BY <1>22 DEF Reply, Answer, End, RunningIn
<1>23. ASSUME NEW f \in Frontend, Welcomed(f)
      PROVE  UNCHANGED <<hungUp, link>>
  BY <1>23 DEF Welcomed, End
<1>24. ASSUME NEW f \in Frontend, NEW k \in Slot, Ask(f, k)
      PROVE  UNCHANGED <<hungUp, link>>
  BY <1>24 DEF Ask
<1>25. ASSUME UNCHANGED vars
      PROVE  UNCHANGED <<hungUp, link>>
  BY <1>25 DEF vars
<1> QED
  BY <1>1, <1>2, <1>3, <1>4, <1>5, <1>6, <1>7, <1>8, <1>9, <1>10, <1>11, <1>12, <1>13,
     <1>14, <1>15, <1>16, <1>17, <1>18, <1>19, <1>20, <1>21, <1>22, <1>23, <1>24, <1>25,
     StepKinds

(* A window that lets go of a connection closes it.                        *)
LEMMA WindowsHangUp ==
    ASSUME Typed, WindowsHold, [Next]_vars, NEW v \in Window, Hold(v)
    PROVE  peer'[v] = peer[v] \/ peer[v] \in hungUp'
<1> DEFINE Kept == peer'[v] = peer[v] \/ peer[v] \in hungUp'
<1> USE DEF Fine, Net, Runtime
<1>1. ASSUME NEW w \in Window, Connect(w)
      PROVE  Kept
  <2>1. v # w
    BY <1>1 DEF Connect, WindowsHold
  <2> QED BY <1>1, <2>1, Constants DEF Connect, Dial, Typed
<1>2. ASSUME NEW w \in Window, Rejected(w)
      PROVE  Kept
  BY <1>2, Constants DEF Rejected, StopConnection, Hold, Typed
<1>3. ASSUME NEW w \in Window, Disconnected(w)
      PROVE  Kept
  BY <1>3, Constants DEF Disconnected, StopConnection, Hold, Typed
<1>4. ASSUME NEW w \in Window, Restart(w)
      PROVE  Kept
  BY <1>4, Constants DEF Restart, StopConnection, Hold, Typed
<1>5. ASSUME NEW w \in Window, Disable(w)
      PROVE  Kept
  BY <1>5, Constants DEF Disable, StopConnection, Hold, Typed
<1>6. ASSUME NEW w \in Window, Dispose(w)
      PROVE  Kept
  BY <1>6, Constants DEF Dispose, StopConnection, Hold, Typed
<1>7. ASSUME NEW w \in Window, RegisterTimesOut(w)
      PROVE  Kept
  BY <1>7, Constants DEF RegisterTimesOut, StopConnection, Hold, Typed
<1>8. ASSUME NEW f \in Frontend, Greet(f)
      PROVE  Kept
  BY <1>8, Constants DEF Greet, Dial, Typed
<1>9. ASSUME NEW f \in Frontend, Leave(f)
      PROVE  Kept
  BY <1>9, Constants DEF Leave, Typed
<1>10. CASE UNCHANGED peer
  BY <1>10
<1>11. ASSUME NEW c \in Conn, Accept(c) \/ EndOfStream(c) \/ RemovePeer(c) \/ Farewell(c) \/
             Forget(c) \/ RegisterWorkspace(c) \/ McpHello(c)
      PROVE  UNCHANGED peer
  BY <1>11 DEF Accept, EndOfStream, RemovePeer, Farewell, Forget, RegisterWorkspace, Answer, McpHello
<1>12. ASSUME NEW c \in Conn, NEW k \in Slot, Read(c, k) \/ CallTool(c, k) \/ Forward(c, k)
             \/ CallFails(c, k) \/ FinishConnect(c, k) \/ CloseSession(c, k) \/ TellWindow(c, k)
             \/ TooSlow(c, k)
      PROVE  UNCHANGED peer
  BY <1>12 DEF Read, CallTool, Forward, CallFails, FinishConnect, CloseSession, TellWindow, TooSlow
<1>13. ASSUME NEW x \in Client, Launch(x)
      PROVE  UNCHANGED peer
  BY <1>13 DEF Launch
<1>14. ASSUME IdleExit \/ DaemonDies
      PROVE  UNCHANGED peer
  BY <1>14 DEF IdleExit, DaemonDies, Gone
<1>15. ASSUME NEW w \in Window, Confirmed(w) \/ TimerFires(w) \/ Start(w) \/ Handle(w) \/
             Open(w) \/ Enable(w) \/ ConnectFails(w)
      PROVE  UNCHANGED peer
  BY <1>15 DEF Confirmed, TimerFires, Start, Handle, Open, Enable, ConnectFails
<1>16. ASSUME NEW w \in Window, NEW c \in Conn, NEW k \in Slot, Reply(w, c, k) \/
             ReplyLate(w, c, k)
      PROVE  UNCHANGED peer
  BY <1>16 DEF Reply, Answer, End, RunningIn, ReplyLate
<1>17. ASSUME NEW f \in Frontend, Welcomed(f)
      PROVE  UNCHANGED peer
  BY <1>17 DEF Welcomed, End
<1>18. ASSUME NEW f \in Frontend, NEW k \in Slot, Ask(f, k)
      PROVE  UNCHANGED peer
  BY <1>18 DEF Ask
<1>19. ASSUME UNCHANGED vars
      PROVE  UNCHANGED peer
  BY <1>19 DEF vars
<1> QED
  BY <1>1, <1>2, <1>3, <1>4, <1>5, <1>6, <1>7, <1>8, <1>9, <1>10, <1>11, <1>12, <1>13,
     <1>14, <1>15, <1>16, <1>17, <1>18, <1>19, StepKinds

LEMMA OneConnectionStep ==
    ASSUME Typed, WindowsHold, FrontendsHold, OneConnection, [Next]_vars
    PROVE  OneConnection'
<1> SUFFICES ASSUME NEW w \in Window, NEW c \in Conn,
                    task'[<<c, 1>>].method = "register", task'[<<c, 1>>].root = Root[w],
                    c \notin hungUp', link'[c] # "gone"
             PROVE  \E v \in Window : Root[v] = Root[w] /\ peer'[v] = c
  BY DEF OneConnection
<1>1. <<c, 1>> \in Conn \X Slot
  BY Constants
<1>2. CASE \E v \in Window : Dial(v, c, "register", Root[v], "registering")
  <2>1. PICK v \in Window : Dial(v, c, "register", Root[v], "registering")
    BY <1>2
  <2>2. task'[<<c, 1>>] = [NoTask EXCEPT !.method = "register", !.root = Root[v], !.step = "sent"]
    BY <1>1, <2>1 DEF Dial
  <2>3. Root[v] = Root[w]
    BY <2>2 DEF NoTask
  <2> QED BY <2>1, <2>3, Constants DEF Dial, Typed
<1>3. CASE \E f \in Frontend : Dial(f, c, "hello", {}, "greeting")
  <2>1. PICK f \in Frontend : Dial(f, c, "hello", {}, "greeting")
    BY <1>3
  <2>2. task'[<<c, 1>>] = [NoTask EXCEPT !.method = "hello", !.root = {}, !.step = "sent"]
    BY <1>1, <2>1 DEF Dial
  <2> QED BY <2>2 DEF NoTask
<1>4. CASE c \notin hungUp /\ link[c] # "gone"
  <2>1. CASE task[<<c, 1>>].method = "register" /\ task'[<<c, 1>>].root = task[<<c, 1>>].root
    <3>1. PICK v \in Window : Root[v] = Root[w] /\ peer[v] = c
      <4>1. task[<<c, 1>>].method = "register" /\ task[<<c, 1>>].root = Root[w]
        BY <2>1
      <4> QED BY <1>4, <4>1 DEF OneConnection
    <3>2. Hold(v)
      BY <3>1, Constants DEF Hold
    <3> QED BY <3>1, <3>2, WindowsHangUp
  <2>2. ASSUME NEW v \in Window, Connect(v), <<c, 1>> = <<peer'[v], 1>>,
               task'[<<c, 1>>].root = Root[v]
        PROVE  \E u \in Window : Root[u] = Root[w] /\ peer'[u] = c
    BY <2>2
  <2> QED BY <1>1, <2>1, <2>2, OnlyWindowsRegister
<1> QED BY <1>2, <1>3, <1>4, ClosedStaysClosed

LEMMA RemovalShrinks ==
    ASSUME Typed, NEW c \in Conn, RemovePeer(c)
    PROVE  data'.workspaces \subseteq data.workspaces /\ data'.connections = data.connections
<1> DEFINE left == {w \in data.workspaces : w.id # c}
<1>0. data \in Data
  BY DEF Typed
<1>1. CASE data.roles[c] = "extension"
  <2>1. PICK b, S : data' = [data EXCEPT !.roles[c] = "none", !.workspaces = left,
                                         !.bindings = b, !.stale = S]
    BY <1>0, <1>1 DEF RemovePeer, Data
  <2>2. data'.workspaces = left /\ data'.connections = data.connections
    BY <1>0, <2>1 DEF Data
  <2> QED BY <2>2
<1>2. CASE data.roles[c] = "mcp" /\ c \in data.owners
  BY <1>0, <1>2 DEF RemovePeer, Data
<1>3. CASE data.roles[c] # "extension" /\ ~(data.roles[c] = "mcp" /\ c \in data.owners)
  BY <1>0, <1>3 DEF RemovePeer, Data
<1> QED BY <1>1, <1>2, <1>3

-----------------------------------------------------------------------------
LEMMA ConnectionsAreCountedInit == Init => ConnectionsAreCounted
<1> SUFFICES ASSUME Init PROVE ConnectionsAreCounted
  OBVIOUS
<1>1. Served = {}
  BY DEF Init, Served
<1> QED BY <1>1, FS_EmptySet DEF Init, EmptyData, ConnectionsAreCounted

LEMMA ServedIsFinite ==
    IsFiniteSet(Served) /\ IsFiniteSet(Served')
<1>1. IsFiniteSet(Conn)
  BY FS_Interval, BridgeAssumption DEF Conn
<1> QED BY <1>1, FS_Subset DEF Served

LEMMA ConnectionsAreCountedStep ==
    ASSUME Typed, WindowsHold, ConnectionsAreCounted, [Next]_vars
    PROVE  ConnectionsAreCounted'
<1> USE DEF Fine, Net, Runtime
<1>0. data \in Data
  BY DEF Typed
<1>1. ASSUME NEW c \in Conn, Accept(c)
      PROVE  ConnectionsAreCounted'
  <2>1. CASE data.connections < Limit
    <3>1. c \notin Served /\ Served' = Served \cup {c}
      BY <1>1, <2>1 DEF Accept, Served, Typed
    <3>2. data'.connections = data.connections + 1
      BY <1>1, <1>0, <2>1 DEF Accept, Data
    <3> QED BY <3>1, <3>2, ServedIsFinite, FS_AddElement DEF ConnectionsAreCounted
  <2>2. CASE ~(data.connections < Limit)
    <3>1. Served' = Served
      BY <1>1, <2>2 DEF Accept, Served, Typed
    <3> QED BY <1>1, <2>2, <3>1 DEF Accept, ConnectionsAreCounted
  <2> QED BY <2>1, <2>2
<1>2. ASSUME NEW c \in Conn, EndOfStream(c)
      PROVE  ConnectionsAreCounted'
  <2>1. Served' = Served
    BY <1>2 DEF EndOfStream, RunningIn, Served, Typed
  <2> QED BY <1>2, <2>1 DEF EndOfStream, ConnectionsAreCounted
<1>3. ASSUME NEW c \in Conn, RemovePeer(c)
      PROVE  ConnectionsAreCounted'
  <2>1. Served' = Served
    BY <1>3 DEF RemovePeer, Served, Typed
  <2>2. data'.connections = data.connections
    BY <1>3, RemovalShrinks
  <2> QED BY <2>1, <2>2 DEF ConnectionsAreCounted
<1>4. ASSUME NEW c \in Conn, Forget(c)
      PROVE  ConnectionsAreCounted'
  <2>1. c \in Served /\ Served' = Served \ {c}
    BY <1>4 DEF Forget, Served, Typed
  <2>2. data'.connections = data.connections - 1
    BY <1>4, <1>0 DEF Forget, Data
  <2>3. Cardinality(Served') = Cardinality(Served) - 1
    BY <2>1, ServedIsFinite, FS_RemoveElement
  <2> QED BY <2>2, <2>3 DEF ConnectionsAreCounted
<1>5. ASSUME NEW c \in Conn, RegisterWorkspace(c)
      PROVE  ConnectionsAreCounted'
  <2>1. data'.connections = data.connections
    BY <1>5, <1>0 DEF RegisterWorkspace, Data
  <2>2. Served' = Served
    BY <1>5 DEF RegisterWorkspace, Served
  <2> QED BY <2>1, <2>2 DEF ConnectionsAreCounted
<1>6. ASSUME NEW c \in Conn, McpHello(c)
      PROVE  ConnectionsAreCounted'
  <2>1. data'.connections = data.connections
    BY <1>6, <1>0 DEF McpHello, Data
  <2>2. Served' = Served
    BY <1>6 DEF McpHello, Served
  <2> QED BY <2>1, <2>2 DEF ConnectionsAreCounted
<1>7. ASSUME NEW c \in Conn, NEW k \in Slot, CallTool(c, k)
      PROVE  ConnectionsAreCounted'
  <2>1. data'.connections = data.connections
    BY <1>7, <1>0 DEF CallTool, Data
  <2>2. Served' = Served
    BY <1>7 DEF CallTool, Served
  <2> QED BY <2>1, <2>2 DEF ConnectionsAreCounted
<1>8. ASSUME NEW c \in Conn, NEW k \in Slot, FinishConnect(c, k)
      PROVE  ConnectionsAreCounted'
  <2>1. data'.connections = data.connections
    BY <1>8, <1>0 DEF FinishConnect, Data
  <2>2. Served' = Served
    BY <1>8 DEF FinishConnect, Served
  <2> QED BY <2>1, <2>2 DEF ConnectionsAreCounted
<1>9. ASSUME NEW c \in Conn, NEW k \in Slot, CloseSession(c, k)
      PROVE  ConnectionsAreCounted'
  <2>1. data'.connections = data.connections
    BY <1>9, <1>0 DEF CloseSession, Data
  <2>2. Served' = Served
    BY <1>9 DEF CloseSession, Served
  <2> QED BY <2>1, <2>2 DEF ConnectionsAreCounted
<1>10. ASSUME IdleExit \/ DaemonDies
      PROVE  ConnectionsAreCounted'
  <2>1. Served' = {}
    BY <1>10 DEF IdleExit, DaemonDies, Gone, Served
  <2>2. data'.connections = 0
    BY <1>10 DEF IdleExit, DaemonDies, Gone, EmptyData
  <2> QED BY <2>1, <2>2, FS_EmptySet DEF ConnectionsAreCounted
<1>11. ASSUME NEW w \in Window, Connect(w)
      PROVE  ConnectionsAreCounted'
  <2>1. ASSUME NEW c \in Conn, Dial(w, c, "register", Root[w], "registering")
        PROVE  Served' = Served
    BY <2>1 DEF Dial, Fresh, Traceless, Served, Typed
  <2> QED BY <1>11, <2>1 DEF Connect, ConnectionsAreCounted, Served
<1>12. ASSUME NEW w \in Window, NEW c \in Conn, NEW k \in Slot, ReplyLate(w, c, k)
      PROVE  ConnectionsAreCounted'
  <2>1. Served' = Served
    BY <1>12 DEF ReplyLate, RunningIn, Served, Typed
  <2> QED BY <1>12, <2>1 DEF ReplyLate, ConnectionsAreCounted
<1>13. ASSUME NEW f \in Frontend, Greet(f)
      PROVE  ConnectionsAreCounted'
  <2>1. ASSUME NEW c \in Conn, Dial(f, c, "hello", {}, "greeting")
        PROVE  Served' = Served
    BY <2>1 DEF Dial, Fresh, Traceless, Served, Typed
  <2> QED BY <1>13, <2>1 DEF Greet, ConnectionsAreCounted, Served
<1>14. CASE UNCHANGED <<data, link>>
  BY <1>14 DEF ConnectionsAreCounted, Served
<1>22. ASSUME NEW c \in Conn, Farewell(c)
      PROVE  ConnectionsAreCounted'
  <2>1. data'.connections = data.connections
    BY <1>22, <1>0 DEF Farewell, Data
  <2>2. Served' = Served
    BY <1>22 DEF Farewell, Served
  <2> QED BY <2>1, <2>2 DEF ConnectionsAreCounted
<1>15. ASSUME NEW c \in Conn, NEW k \in Slot,
             Read(c, k) \/ Forward(c, k) \/ CallFails(c, k) \/ TellWindow(c, k) \/ TooSlow(c, k)
      PROVE  UNCHANGED <<data, link>>
  BY <1>15 DEF Read, Forward, CallFails, TellWindow, TooSlow
<1>16. ASSUME NEW x \in Client, Launch(x)
      PROVE  UNCHANGED <<data, link>>
  BY <1>16 DEF Launch
<1>17. ASSUME NEW w \in Window, Confirmed(w) \/ Rejected(w) \/ Disconnected(w) \/
             TimerFires(w) \/ Start(w) \/ Handle(w) \/ Open(w) \/ Restart(w) \/ Disable(w) \/
             Enable(w) \/ Dispose(w) \/ ConnectFails(w) \/ RegisterTimesOut(w)
      PROVE  UNCHANGED <<data, link>>
  BY <1>17 DEF Confirmed, Rejected, StopConnection, Disconnected, TimerFires, Start, Handle,
      Open, Restart, Disable, Enable, Dispose, ConnectFails, RegisterTimesOut
<1>18. ASSUME NEW w \in Window, NEW c \in Conn, NEW k \in Slot, Reply(w, c, k)
      PROVE  UNCHANGED <<data, link>>
  BY <1>18 DEF Reply, Answer, End, RunningIn
<1>19. ASSUME NEW f \in Frontend, Welcomed(f) \/ Leave(f)
      PROVE  UNCHANGED <<data, link>>
  BY <1>19 DEF Welcomed, End, Leave
<1>20. ASSUME NEW f \in Frontend, NEW k \in Slot, Ask(f, k)
      PROVE  UNCHANGED <<data, link>>
  BY <1>20 DEF Ask
<1>21. ASSUME UNCHANGED vars
      PROVE  UNCHANGED <<data, link>>
  BY <1>21 DEF vars
<1> QED
  BY <1>1, <1>2, <1>3, <1>4, <1>5, <1>6, <1>7, <1>8, <1>9, <1>10, <1>11, <1>12, <1>13,
     <1>14, <1>15, <1>16, <1>17, <1>18, <1>19, <1>20, <1>21, <1>22, StepKinds

-----------------------------------------------------------------------------
(* What TypeOK says and what the others need to keep holding: the model's  *)
(* functions are of their types, who waits for or has a registration holds *)
(* a connection, and what is registered names a workspace.                 *)
Inv ==
    /\ Typed /\ RootsAreNamed /\ StepsFit /\ WindowsHold /\ FrontendsHold
    /\ ConnectionsAreCounted /\ OneConnection

LEMMA InvInit == Init => Inv
<1> SUFFICES ASSUME Init PROVE Inv
  OBVIOUS
<1>1. RootsAreNamed
  BY NoTaskTyped DEF Init, RootsAreNamed
<1>2. WindowsHold /\ FrontendsHold
  BY Constants DEF Init, WindowsHold, FrontendsHold, Hold
<1>3. StepsFit
  BY NoTaskTyped DEF Init, StepsFit, Fits
<1>4. OneConnection
  BY NoTaskTyped, Constants DEF Init, OneConnection
<1> QED BY <1>1, <1>2, <1>3, <1>4, TypedInit, ConnectionsAreCountedInit DEF Inv

LEMMA InvStep == Inv /\ [Next]_vars => Inv'
  BY TypedStep, RootsAreNamedStep, ClientsHoldStep, ConnectionsAreCountedStep,
     StepsFitStep, OneConnectionStep DEF Inv

LEMMA InvHolds == Spec => []Inv
  BY InvInit, InvStep, PTL DEF Spec

(* Every variable has its type; the daemon's count of connections, by      *)
(* which it refuses clients and exits when idle, is the number it serves.  *)
THEOREM TypesAreKept == Spec => []TypeOK
<1>1. Inv => TypeOK
  <2> SUFFICES ASSUME Inv PROVE TypeOK
    OBVIOUS
  <2>1. /\ data.roles \in [Conn -> {"none", "extension", "mcp"}]
        /\ data.workspaces \subseteq [root : Workspace, id : Conn]
        /\ data.bindings \in [Conn -> Conn \cup {NoConn}]
        /\ data.farewell \in [Conn -> Conn \cup {NoConn}]
        /\ data.owners \subseteq Conn /\ data.stale \subseteq Conn
    BY DEF Inv, Typed, Data
  <2>2. \A i \in Conn \X Slot : task[i].step \in Steps
    BY DEF Inv, Typed, Task
  <2>3. up \in BOOLEAN
    BY DEF Inv, Typed
  <2>4. /\ link \in [Conn -> {"unused", "pending", "open", "broken", "closing", "gone"}]
        /\ hungUp \subseteq Conn /\ peer \in [Client -> Conn \cup {NoConn}]
        /\ mishaps \in 0 .. MaxMishaps
        /\ contexts \in [Window -> [Conn -> SUBSET {"kept", "connected"}]]
        /\ \A w \in Window : timer[w] \subseteq {"armed", "fired"}
    BY DEF Inv, Typed
  <2>5. data.connections = Cardinality({c \in Conn : link[c] \in {"open", "broken", "closing"}})
    BY DEF Inv, ConnectionsAreCounted, Served
  <2>6. \A w \in Window : (phase[w] \in {"registering", "registered"}) <=> Hold(w)
    BY DEF Inv, WindowsHold
  <2> QED BY <2>1, <2>2, <2>3, <2>4, <2>5, <2>6 DEF TypeOK
<1> QED BY <1>1, InvHolds, PTL

(* A window leaves no connection behind that the daemon still serves as    *)
(* its own.                                                                *)
THEOREM ConnectionsAreClosed == Spec => []OneConnection
<1>1. Inv => OneConnection
  BY DEF Inv
<1> QED BY <1>1, InvHolds, PTL

-----------------------------------------------------------------------------
(* A window without a connection knows no session.                         *)
WindowsForget == \A w \in Window : ~Hold(w) => contexts[w] = Unknown

LEMMA DialPeers ==
    ASSUME Typed, PeersDiffer, NEW x \in Client, NEW c \in Conn, NEW method, NEW root, NEW next,
           Dial(x, c, method, root, next)
    PROVE  PeersDiffer' /\ \A y \in Client : peer[y] # NoConn => peer'[y] # NoConn
<1>1. c # NoConn /\ \A y \in Client : peer[y] # c
  BY Constants DEF Dial, Fresh, Traceless
<1>2. \A y \in Client : peer'[y] = IF y = x THEN c ELSE peer[y]
  BY DEF Dial, Typed
<1> QED BY <1>1, <1>2 DEF PeersDiffer

LEMMA StopPeers ==
    ASSUME Typed, PeersDiffer, WindowsForget, NEW v \in Window, StopConnection(v)
    PROVE  PeersDiffer' /\ WindowsForget'
<1>1. \A y \in Client : peer'[y] = IF y = v THEN NoConn ELSE peer[y]
  BY Constants DEF StopConnection, Typed
<1>2. \A w \in Window : contexts'[w] = IF w = v THEN Unknown ELSE contexts[w]
  BY DEF StopConnection, Typed
<1> QED BY <1>1, <1>2, Constants DEF PeersDiffer, WindowsForget, Hold

LEMMA ForgetStep ==
    ASSUME Typed, PeersDiffer, WindowsForget, [Next]_vars
    PROVE  PeersDiffer' /\ WindowsForget'
<1> USE DEF Fine, Net, Runtime
<1>1. ASSUME peer' = peer, contexts' = contexts
      PROVE  PeersDiffer' /\ WindowsForget'
  BY <1>1 DEF PeersDiffer, WindowsForget, Hold
<1>2. ASSUME NEW x \in Client, NEW c \in Conn, NEW method, NEW root, NEW next,
             Dial(x, c, method, root, next)
      PROVE  PeersDiffer' /\ WindowsForget'
  <2>1. \A w \in Window : contexts[w] = Unknown => contexts'[w] = Unknown
    BY <1>2 DEF Dial, Unknown
  <2> QED BY <1>2, <2>1, DialPeers, Constants DEF WindowsForget, Hold
<1>3. ASSUME NEW v \in Window, Connect(v)
      PROVE  PeersDiffer' /\ WindowsForget'
  BY <1>2, <1>3, Constants DEF Connect
<1>4. ASSUME NEW f \in Frontend, Greet(f)
      PROVE  PeersDiffer' /\ WindowsForget'
  BY <1>1, <1>2, <1>4, Constants DEF Greet
<1>5. ASSUME NEW v \in Window, \/ Rejected(v) \/ Disconnected(v) \/ Restart(v) \/ Disable(v)
                               \/ Dispose(v) \/ RegisterTimesOut(v)
      PROVE  PeersDiffer' /\ WindowsForget'
  BY <1>5, StopPeers DEF Rejected, Disconnected, Restart, Disable, Dispose, RegisterTimesOut
<1>6. ASSUME NEW f \in Frontend, Leave(f)
      PROVE  PeersDiffer' /\ WindowsForget'
  <2>1. \A y \in Client : peer'[y] = IF y = f THEN NoConn ELSE peer[y]
    BY <1>6, Constants DEF Leave, Typed
  <2>2. contexts' = contexts
    BY <1>6 DEF Leave
  <2> QED BY <2>1, <2>2, Constants DEF PeersDiffer, WindowsForget, Hold
<1>7. ASSUME NEW v \in Window, Handle(v) \/ \E c \in Conn, k \in Slot : Reply(v, c, k)
      PROVE  PeersDiffer' /\ WindowsForget'
  <2>1. peer' = peer /\ Hold(v)
    BY <1>7 DEF Handle, Reply, RunningIn
  <2>2. \A w \in Window : w # v => contexts'[w] = contexts[w]
    BY <1>7 DEF Handle, Reply, Typed
  <2> QED BY <2>1, <2>2 DEF PeersDiffer, WindowsForget, Hold
<1>8. ASSUME NEW c \in Conn, NEW k \in Slot,
             \/ Accept(c) \/ EndOfStream(c) \/ RemovePeer(c) \/ Farewell(c) \/ Forget(c)
             \/ RegisterWorkspace(c) \/ McpHello(c)
             \/ Read(c, k) \/ CallTool(c, k) \/ Forward(c, k) \/ CallFails(c, k)
             \/ FinishConnect(c, k) \/ CloseSession(c, k) \/ TellWindow(c, k) \/ TooSlow(c, k)
      PROVE  peer' = peer /\ contexts' = contexts
  BY <1>8 DEF Accept, EndOfStream, RemovePeer, Farewell, Forget, RegisterWorkspace, McpHello, Read,
              CallTool, Forward, CallFails, FinishConnect, CloseSession, TellWindow, TooSlow
<1>9. ASSUME \/ \E x \in Client : Launch(x)
             \/ IdleExit \/ DaemonDies \/ UNCHANGED vars
      PROVE  peer' = peer /\ contexts' = contexts
  BY <1>9 DEF Launch, IdleExit, DaemonDies, Gone, vars
<1>10. ASSUME NEW v \in Window, \/ Confirmed(v) \/ TimerFires(v) \/ Start(v)
                                \/ Open(v) \/ Enable(v) \/ ConnectFails(v)
                                \/ \E c \in Conn, k \in Slot : ReplyLate(v, c, k)
      PROVE  peer' = peer /\ contexts' = contexts
  BY <1>10 DEF Confirmed, TimerFires, Start, Open, Enable, ConnectFails, ReplyLate
<1>11. ASSUME NEW f \in Frontend, Welcomed(f) \/ \E k \in Slot : Ask(f, k)
      PROVE  peer' = peer /\ contexts' = contexts
  BY <1>11 DEF Welcomed, Ask
<1> QED BY <1>1, <1>3, <1>4, <1>5, <1>6, <1>7, <1>8, <1>9, <1>10, <1>11, Constants, StepKinds

(* However the daemon, the windows and the frontends come, go and die: a   *)
(* window and a frontend never share a connection, two windows do not, and *)
(* a window that has let go of its connection knows no session of it, so   *)
(* none is answered with the review it had then.                           *)
THEOREM ContextsGoWithTheConnection == Spec => [](PeersDiffer /\ WindowsForget)
<1>1. Init => PeersDiffer /\ WindowsForget
  BY Constants DEF Init, PeersDiffer, WindowsForget
<1>2. Inv /\ PeersDiffer /\ WindowsForget /\ [Next]_vars => PeersDiffer' /\ WindowsForget'
  BY ForgetStep DEF Inv
<1> QED BY <1>1, <1>2, InvHolds, PTL DEF Spec

-----------------------------------------------------------------------------
(* Registered windows.  The request of a window's connection stays what it *)
(* was while the connection stands; it is not carried out before the       *)
(* connection is served; and what it registered is found as long as it is. *)

Live(c) == link[c] \in {"pending", "open", "broken", "closing"}

Registering ==
    \A w \in Window :
        Hold(w) /\ Live(peer[w]) =>
            task[<<peer[w], 1>>].method = "register" /\ task[<<peer[w], 1>>].root = Root[w]

NotYet ==
    \A c \in Conn :
        link[c] = "pending" =>
            /\ task[<<c, 1>>].step \in {"none", "sent"}
            /\ \A w \in Window : peer[w] = c => phase[w] # "registered"

Entry(c) == [root |-> task[<<c, 1>>].root, id |-> c]

DoneIsFound ==
    \A c \in Conn :
        /\ link[c] \in {"open", "broken"}
        /\ task[<<c, 1>>].method = "register" /\ task[<<c, 1>>].step = "done"
        => Entry(c) \in data.workspaces

Dialled(c) ==
    \/ \E w \in Window : Dial(w, c, "register", Root[w], "registering")
    \/ \E f \in Frontend : Dial(f, c, "hello", {}, "greeting")

LEMMA LinkMoves ==
    ASSUME Typed, [Next]_vars, NEW c \in Conn
    PROVE  \/ link'[c] = link[c]
           \/ link'[c] = "gone" \/ (link'[c] = "closing" /\ link[c] = "broken")
           \/ link'[c] = "broken" /\ link[c] = "open"
           \/ link'[c] = "open" /\ link[c] = "pending"
           \/ Dialled(c)
<1> DEFINE Goal == \/ link'[c] = link[c]
                   \/ link'[c] = "gone" \/ (link'[c] = "closing" /\ link[c] = "broken")
                   \/ link'[c] = "broken" /\ link[c] = "open"
                   \/ link'[c] = "open" /\ link[c] = "pending"
                   \/ Dialled(c)
<1> USE DEF Net
<1>1. ASSUME NEW b \in Conn, Accept(b) PROVE Goal
  BY <1>1 DEF Accept, Typed
<1>2. ASSUME NEW b \in Conn, EndOfStream(b) PROVE Goal
  BY <1>2 DEF EndOfStream, Typed
<1>3. ASSUME NEW b \in Conn, RemovePeer(b) PROVE Goal
  BY <1>3 DEF RemovePeer, Typed
<1>4. ASSUME NEW b \in Conn, Forget(b) PROVE Goal
  BY <1>4 DEF Forget, Typed
<1>5. ASSUME IdleExit \/ DaemonDies PROVE Goal
  BY <1>5 DEF IdleExit, DaemonDies, Gone
<1>6. ASSUME NEW x \in Client, NEW b \in Conn, NEW method, NEW root, NEW next,
             Dial(x, b, method, root, next), b = c => Dialled(c)
      PROVE  Goal
  BY <1>6 DEF Dial, Typed
<1>7. ASSUME NEW w \in Window, Connect(w) PROVE Goal
  <2>1. PICK b \in Conn : Dial(w, b, "register", Root[w], "registering")
    BY <1>7 DEF Connect
  <2> QED BY <1>6, <2>1, Constants DEF Dialled
<1>8. ASSUME NEW f \in Frontend, Greet(f) PROVE Goal
  <2>1. CASE UNCHANGED Net
    BY <2>1
  <2>2. ASSUME NEW b \in Conn, Dial(f, b, "hello", {}, "greeting") PROVE Goal
    BY <1>6, <2>2, Constants DEF Dialled
  <2> QED BY <1>8, <2>1, <2>2 DEF Greet
<1>9. ASSUME NEW w \in Window, NEW b \in Conn, NEW k \in Slot, ReplyLate(w, b, k) PROVE Goal
  BY <1>9 DEF ReplyLate, RunningIn, Typed
<1>10. CASE UNCHANGED link
  BY <1>10
<1>11. ASSUME NEW b \in Conn, NEW k \in Slot,
              \/ Farewell(b) \/ RegisterWorkspace(b) \/ McpHello(b)
              \/ Read(b, k) \/ CallTool(b, k) \/ Forward(b, k) \/ CallFails(b, k)
              \/ FinishConnect(b, k) \/ CloseSession(b, k) \/ TellWindow(b, k) \/ TooSlow(b, k)
       PROVE  UNCHANGED link
  BY <1>11 DEF Farewell, RegisterWorkspace, McpHello, Read, CallTool, Forward, CallFails,
               FinishConnect, CloseSession, TellWindow, TooSlow
<1>12. ASSUME \/ \E x \in Client : Launch(x)
              \/ UNCHANGED vars
       PROVE  UNCHANGED link
  BY <1>12 DEF Launch, vars
<1>13. ASSUME NEW w \in Window,
              \/ Confirmed(w) \/ Rejected(w) \/ Disconnected(w) \/ TimerFires(w) \/ Start(w)
              \/ Handle(w) \/ Open(w) \/ Restart(w) \/ Disable(w) \/ Enable(w) \/ Dispose(w)
              \/ ConnectFails(w) \/ RegisterTimesOut(w)
              \/ \E b \in Conn, k \in Slot : Reply(w, b, k)
       PROVE  UNCHANGED link
  BY <1>13 DEF Confirmed, Rejected, Disconnected, TimerFires, Start, Handle, Open, Restart,
               Disable, Enable, Dispose, ConnectFails, RegisterTimesOut, Reply
<1>14. ASSUME NEW f \in Frontend, Welcomed(f) \/ Leave(f) \/ \E k \in Slot : Ask(f, k)
       PROVE  UNCHANGED link
  BY <1>14 DEF Welcomed, Leave, Ask
<1> QED BY <1>1, <1>2, <1>3, <1>4, <1>5, <1>7, <1>8, <1>9, <1>10, <1>11, <1>12, <1>13, <1>14,
           Constants, StepKinds

(* What a new connection starts with.                                      *)
LEMMA DialStarts ==
    ASSUME Typed, NEW c \in Conn, Dialled(c)
    PROVE  /\ task'[<<c, 1>>].step = "sent" /\ link'[c] = "pending"
           /\ \A w \in Window : peer[w] # c
           /\ \A w \in Window : peer'[w] = c =>
                 /\ phase'[w] = "registering"
                 /\ task'[<<c, 1>>].method = "register" /\ task'[<<c, 1>>].root = Root[w]
<1>1. ASSUME NEW x \in Client, NEW method, NEW root, NEW next, Dial(x, c, method, root, next)
      PROVE  /\ task'[<<c, 1>>].step = "sent" /\ task'[<<c, 1>>].method = method
             /\ task'[<<c, 1>>].root = root /\ link'[c] = "pending"
             /\ \A y \in Client : peer[y] # c /\ (peer'[y] = c => y = x)
             /\ phase'[x] = next
  <2>1. task'[<<c, 1>>] = [NoTask EXCEPT !.method = method, !.root = root, !.step = "sent"]
    BY <1>1, Constants DEF Dial
  <2>2. /\ task'[<<c, 1>>].step = "sent" /\ task'[<<c, 1>>].method = method
        /\ task'[<<c, 1>>].root = root
    BY <2>1 DEF NoTask
  <2>3. \A y \in Client : peer[y] # c
    BY <1>1 DEF Dial, Fresh, Traceless
  <2>4. \A y \in Client : peer'[y] = c => y = x
    BY <1>1, <2>3 DEF Dial, Typed
  <2>5. link'[c] = "pending" /\ phase'[x] = next
    BY <1>1 DEF Dial, Typed
  <2> QED BY <2>2, <2>3, <2>4, <2>5
<1>2. CASE \E w \in Window : Dial(w, c, "register", Root[w], "registering")
  BY <1>1, <1>2, Constants
<1>3. CASE \E f \in Frontend : Dial(f, c, "hello", {}, "greeting")
  BY <1>1, <1>3, Constants
<1> QED BY <1>2, <1>3 DEF Dialled

(* A window's request is not over before it is answered.                   *)
LEMMA RegisterStays ==
    ASSUME Typed, WindowsHold, FrontendsHold, StepsFit, PeersDiffer, [Next]_vars,
           NEW w \in Window, Hold(w), task[<<peer[w], 1>>].method = "register"
    PROVE  \/ IdleExit \/ DaemonDies
           \/ /\ task'[<<peer[w], 1>>].method = "register"
              /\ task'[<<peer[w], 1>>].root = task[<<peer[w], 1>>].root
<1> DEFINE i == <<peer[w], 1>>
           Goal == task'[i].method = "register" /\ task'[i].root = task[i].root
<1> USE DEF Net
<1>0. i \in Conn \X Slot /\ peer[w] \in Conn /\ Fits(task[i])
  BY Constants DEF Hold, Typed, StepsFit
<1>1. ASSUME NEW c \in Conn, NEW k \in Slot, NEW step, Answer(c, k, step)
      PROVE  Goal
  BY <1>0, <1>1, AnswerIs
<1>2. ASSUME NEW c \in Conn, NEW k \in Slot, End(c, k), i # <<c, k>>
      PROVE  Goal
  <2>1. task'[i] = task[i]
    BY <1>0, <1>2 DEF End, Typed
  <2> QED BY <2>1
<1>3. ASSUME NEW c \in Conn, RegisterWorkspace(c) \/ McpHello(c)
      PROVE  Goal
  BY <1>1, <1>3, Constants DEF RegisterWorkspace, McpHello
<1>4. ASSUME NEW c \in Conn, NEW k \in Slot, Read(c, k) \/ TooSlow(c, k)
      PROVE  Goal
  BY <1>1, <1>4 DEF Read, TooSlow, Answer
<1>5. ASSUME NEW c \in Conn, NEW k \in Slot, CallTool(c, k)
      PROVE  Goal
  <2>1. i # <<c, k>>
    BY <1>5 DEF CallTool, Runs
  <2>2. CASE End(c, k)
    BY <1>2, <2>1, <2>2
  <2>3. ASSUME NEW e, task' = [task EXCEPT ![<<c, k>>].step = "picked", ![<<c, k>>].target = e]
        PROVE  Goal
    <3>1. task'[i] = task[i]
      BY <1>0, <2>1, <2>3 DEF Typed
    <3> QED BY <3>1
  <2> QED BY <1>5, <2>2, <2>3 DEF CallTool
<1>6. ASSUME NEW c \in Conn, NEW k \in Slot, Forward(c, k) \/ CallFails(c, k)
      PROVE  Goal
  <2>1. i # <<c, k>>
    BY <1>0, <1>6 DEF Forward, CallFails, Fits
  <2> QED BY <1>1, <1>2, <1>6, <2>1 DEF Forward, CallFails
<1>7. ASSUME NEW c \in Conn, NEW k \in Slot, FinishConnect(c, k) \/ CloseSession(c, k)
      PROVE  Goal
  <2>1. i # <<c, k>>
    BY <1>0, <1>7 DEF FinishConnect, CloseSession, Runs, Fits
  <2>2. PICK t : task' = [task EXCEPT ![<<c, k>>] = t]
    BY <1>7, EndsWithIs DEF FinishConnect, CloseSession, EndsWith
  <2>3. task'[i] = task[i]
    BY <1>0, <2>1, <2>2 DEF Typed
  <2> QED BY <2>3
<1>8. ASSUME NEW c \in Conn, NEW k \in Slot, TellWindow(c, k)
      PROVE  Goal
  <2>1. i # <<c, k>>
    BY <1>0, <1>8 DEF TellWindow, Fits
  <2>2. task'[i] = task[i]
    BY <1>0, <1>8, <2>1 DEF TellWindow, Typed
  <2> QED BY <2>2
<1>9. ASSUME NEW x \in Client, NEW c \in Conn, NEW method, NEW root, NEW next,
             Dial(x, c, method, root, next)
      PROVE  Goal
  <2>1. peer[w] # c
    BY <1>9, Constants DEF Dial, Fresh, Traceless
  <2>2. task'[i] = task[i]
    BY <1>0, <1>9, <2>1 DEF Dial
  <2> QED BY <2>2
<1>10. CASE UNCHANGED task
  BY <1>10
<1>11. ASSUME NEW v \in Window, Connect(v)
       PROVE  Goal
  BY <1>9, <1>11, Constants DEF Connect
<1>12. ASSUME NEW v \in Window, Confirmed(v)
       PROVE  Goal
  <2>1. peer[v] \in Conn
    BY <1>12, Constants DEF Confirmed, Typed, WindowsHold, Hold
  <2> QED BY <1>1, <1>12, <2>1, Constants DEF Confirmed, Answer
<1>13. ASSUME NEW v \in Window, Handle(v)
       PROVE  Goal
  <2> DEFINE m == Head(outbox[peer[v]])
  <2>1. m.session \in Conn /\ m.slot \in Slot
    BY <1>13, HeadTyped DEF Handle
  <2>2. UNCHANGED task \/ Answer(m.session, m.slot, "running")
    BY <1>13 DEF Handle, Answer
  <2> QED BY <1>1, <1>10, <2>1, <2>2
<1>14. ASSUME NEW v \in Window, NEW c \in Conn, NEW k \in Slot, Reply(v, c, k) \/ ReplyLate(v, c, k)
       PROVE  Goal
  <2>1. i # <<c, k>>
    BY <1>0, <1>14 DEF Reply, ReplyLate, Fits
  <2> QED BY <1>1, <1>2, <1>14, <2>1 DEF Reply, ReplyLate
<1>15. ASSUME NEW f \in Frontend, Greet(f)
       PROVE  Goal
  BY <1>9, <1>10, <1>15, Constants DEF Greet
<1>16. ASSUME NEW f \in Frontend, Welcomed(f)
       PROVE  Goal
  <2>1. peer[f] \in Conn /\ peer[f] # peer[w]
    BY <1>0, <1>16, Constants DEF Welcomed, Typed, FrontendsHold, Hold, PeersDiffer
  <2> QED BY <1>2, <1>16, <2>1, Constants DEF Welcomed
<1>17. ASSUME NEW f \in Frontend, NEW k \in Slot, Ask(f, k)
       PROVE  Goal
  <2>1. peer[f] \in Conn /\ peer[f] # peer[w]
    BY <1>0, <1>17, Constants DEF Ask, Typed, FrontendsHold, Hold, PeersDiffer
  <2>2. PICK t : task' = [task EXCEPT ![<<peer[f], k>>] = t]
    BY <1>17 DEF Ask
  <2>3. task'[i] = task[i]
    BY <1>0, <2>1, <2>2 DEF Typed
  <2> QED BY <2>3
<1> QED BY <1>3, <1>4, <1>5, <1>6, <1>7, <1>8, <1>10, <1>11, <1>12, <1>13, <1>14, <1>15, <1>16,
           <1>17, TaskSteps

LEMMA WindowMoves ==
    ASSUME Typed, [Next]_vars, NEW w \in Window
    PROVE  \/ /\ peer'[w] = peer[w]
              /\ phase'[w] = "registered" => phase[w] = "registered" \/ Confirmed(w)
           \/ peer'[w] = NoConn
           \/ peer'[w] \in Conn /\ Dialled(peer'[w])
<1> DEFINE Stays == /\ peer'[w] = peer[w]
                    /\ phase'[w] = "registered" => phase[w] = "registered" \/ Confirmed(w)
           Goal == Stays \/ peer'[w] = NoConn \/ (peer'[w] \in Conn /\ Dialled(peer'[w]))
<1> USE DEF Net, Runtime
<1>0. w \in Client /\ \A f \in Frontend : f # w
  BY Constants
<1>1. ASSUME NEW v \in Window, Connect(v)
      PROVE  Goal
  <2>1. PICK c \in Conn : Dial(v, c, "register", Root[v], "registering")
    BY <1>1 DEF Connect
  <2>2. CASE v = w
    <3>1. peer'[w] = c
      BY <1>0, <2>1, <2>2 DEF Dial, Typed
    <3> QED BY <2>1, <3>1 DEF Dialled
  <2>3. CASE v # w
    <3>1. Stays
      BY <1>0, <2>1, <2>3 DEF Dial, Typed
    <3> QED BY <3>1
  <2> QED BY <2>2, <2>3
<1>2. ASSUME NEW v \in Window, \/ Rejected(v) \/ Disconnected(v) \/ Restart(v) \/ Disable(v)
                               \/ Dispose(v) \/ RegisterTimesOut(v)
      PROVE  Goal
  <2>1. peer' = [peer EXCEPT ![v] = NoConn] /\ \E p : p # "registered" /\ phase' = [phase EXCEPT ![v] = p]
    BY <1>2 DEF Rejected, Disconnected, Restart, Disable, Dispose, RegisterTimesOut, StopConnection
  <2> QED BY <1>0, <2>1 DEF Typed
<1>3. ASSUME NEW v \in Window, Confirmed(v)
      PROVE  Goal
  <2>1. peer' = peer /\ (v # w => phase'[w] = phase[w])
    BY <1>0, <1>3 DEF Confirmed, Typed
  <2> QED BY <1>3, <2>1
<1>4. ASSUME NEW v \in Window, Start(v) \/ Open(v) \/ Enable(v) \/ ConnectFails(v)
      PROVE  Goal
  <2>1. /\ peer' = peer
        /\ phase' = phase \/ \E p : p # "registered" /\ phase' = [phase EXCEPT ![v] = p]
    BY <1>4 DEF Start, Open, Enable, ConnectFails
  <2> QED BY <1>0, <2>1 DEF Typed
<1>5. ASSUME NEW f \in Frontend, Greet(f)
      PROVE  Goal
  <2>1. ASSUME NEW c \in Conn, Dial(f, c, "hello", {}, "greeting")
        PROVE  Stays
    BY <1>0, <2>1 DEF Dial, Typed
  <2>2. ASSUME phase' = [phase EXCEPT ![f] = "connecting"], UNCHANGED peer
        PROVE  Stays
    BY <1>0, <2>2 DEF Typed
  <2> QED BY <1>5, <2>1, <2>2 DEF Greet
<1>6. ASSUME NEW f \in Frontend, Welcomed(f) \/ Leave(f) \/ \E k \in Slot : Ask(f, k)
      PROVE  Goal
  <2>1. /\ peer' = peer \/ peer' = [peer EXCEPT ![f] = NoConn]
        /\ phase' = phase \/ \E p : phase' = [phase EXCEPT ![f] = p]
    BY <1>6 DEF Welcomed, Leave, Ask
  <2>2. peer'[w] = peer[w] /\ phase'[w] = phase[w]
    BY <1>0, <2>1 DEF Typed
  <2> QED BY <2>2
<1>7. CASE UNCHANGED <<phase, peer>>
  BY <1>7
<1>8. ASSUME NEW c \in Conn, NEW k \in Slot,
             \/ Accept(c) \/ EndOfStream(c) \/ RemovePeer(c) \/ Farewell(c) \/ Forget(c)
             \/ RegisterWorkspace(c) \/ McpHello(c)
             \/ Read(c, k) \/ CallTool(c, k) \/ Forward(c, k) \/ CallFails(c, k)
             \/ FinishConnect(c, k) \/ CloseSession(c, k) \/ TellWindow(c, k) \/ TooSlow(c, k)
      PROVE  UNCHANGED <<phase, peer>>
  BY <1>8 DEF Accept, EndOfStream, RemovePeer, Farewell, Forget, RegisterWorkspace, McpHello, Read,
              CallTool, Forward, CallFails, FinishConnect, CloseSession, TellWindow, TooSlow
<1>9. ASSUME \/ \E x \in Client : Launch(x)
             \/ IdleExit \/ DaemonDies \/ UNCHANGED vars
      PROVE  UNCHANGED <<phase, peer>>
  BY <1>9 DEF Launch, IdleExit, DaemonDies, Gone, vars
<1>10. ASSUME NEW v \in Window, \/ TimerFires(v) \/ Handle(v)
                                \/ \E c \in Conn, k \in Slot : Reply(v, c, k) \/ ReplyLate(v, c, k)
      PROVE  UNCHANGED <<phase, peer>>
  BY <1>10 DEF TimerFires, Handle, Reply, ReplyLate
<1> QED BY <1>1, <1>2, <1>3, <1>4, <1>5, <1>6, <1>7, <1>8, <1>9, <1>10, Constants, StepKinds

LEMMA GoneLinks ==
    ASSUME IdleExit \/ DaemonDies, NEW c \in Conn
    PROVE  link'[c] \in {"gone", "unused"} /\ (link'[c] = "unused" => link[c] = "unused")
  BY DEF IdleExit, DaemonDies, Gone

LEMMA RegisteringStep ==
    ASSUME Typed, WindowsHold, FrontendsHold, StepsFit, PeersDiffer, Registering, [Next]_vars,
           peer' \in [Client -> Conn \cup {NoConn}]
    PROVE  Registering'
<1> SUFFICES ASSUME NEW w \in Window, Hold(w)', Live(peer[w])'
             PROVE  /\ task'[<<peer'[w], 1>>].method = "register"
                    /\ task'[<<peer'[w], 1>>].root = Root[w]
  BY DEF Registering
<1>0. peer'[w] \in Conn
  BY Constants DEF Hold
<1>1. CASE Dialled(peer'[w])
  BY <1>0, <1>1, DialStarts
<1>2. CASE ~Dialled(peer'[w])
  <2>1. peer'[w] = peer[w] /\ Hold(w)
    BY <1>2, WindowMoves DEF Hold
  <2>2. ~(IdleExit \/ DaemonDies)
    BY <1>0, GoneLinks DEF Live
  <2>3. Live(peer[w])
    BY <1>0, <1>2, <2>1, LinkMoves DEF Live
  <2>4. task[<<peer[w], 1>>].method = "register" /\ task[<<peer[w], 1>>].root = Root[w]
    BY <2>1, <2>3 DEF Registering
  <2> QED BY <2>1, <2>2, <2>4, RegisterStays
<1> QED BY <1>1, <1>2

(* A request over a connection that is not yet served is not carried out.  *)
LEMMA SentStays ==
    ASSUME Typed, WindowsHold, FrontendsHold, [Next]_vars,
           NEW c \in Conn, link[c] = "pending", task[<<c, 1>>].step \in {"none", "sent"}
    PROVE  task'[<<c, 1>>].step \in {"none", "sent"}
<1> DEFINE i == <<c, 1>>
           Goal == task'[i].step \in {"none", "sent"}
<1> USE DEF Net
<1>0. i \in Conn \X Slot /\ task[i] \in Task
  BY Constants DEF Typed
<1>1. ASSUME NEW j \in Conn \X Slot, NEW t, task' = [task EXCEPT ![j] = t], i # j
      PROVE  Goal
  <2>1. task'[i] = task[i]
    BY <1>0, <1>1 DEF Typed
  <2> QED BY <2>1
<1>2. ASSUME NEW b \in Conn, NEW k \in Slot, NEW step, Answer(b, k, step), i # <<b, k>>
      PROVE  Goal
  BY <1>0, <1>2, AnswerIs
<1>3. ASSUME NEW b \in Conn, NEW k \in Slot, End(b, k)
      PROVE  Goal
  BY <1>0, <1>3, EndKeeps, NoTaskTyped
<1>4. ASSUME NEW b \in Conn, RegisterWorkspace(b) \/ McpHello(b)
      PROVE  Goal
  <2>1. i # <<b, 1>>
    BY <1>4 DEF RegisterWorkspace, McpHello, Runs
  <2> QED BY <1>2, <1>4, <2>1, Constants DEF RegisterWorkspace, McpHello
<1>5. ASSUME NEW b \in Conn, NEW k \in Slot, Read(b, k) \/ TooSlow(b, k)
      PROVE  Goal
  <2>1. i # <<b, k>>
    BY <1>5 DEF Read, TooSlow
  <2> QED BY <1>2, <1>5, <2>1 DEF Read, TooSlow, Answer
<1>6. ASSUME NEW b \in Conn, NEW k \in Slot, CallTool(b, k)
      PROVE  Goal
  <2>1. i # <<b, k>>
    BY <1>6 DEF CallTool, Runs
  <2> QED BY <1>0, <1>6, <2>1, PickIs, NoTaskTyped
<1>7. ASSUME NEW b \in Conn, NEW k \in Slot, Forward(b, k) \/ CallFails(b, k)
      PROVE  Goal
  <2>1. i # <<b, k>>
    BY <1>7 DEF Forward, CallFails
  <2> QED BY <1>2, <1>3, <1>7, <2>1 DEF Forward, CallFails
<1>8. ASSUME NEW b \in Conn, NEW k \in Slot, FinishConnect(b, k) \/ CloseSession(b, k)
      PROVE  Goal
  <2>1. i # <<b, k>>
    BY <1>8 DEF FinishConnect, CloseSession, Runs
  <2>2. \E t : task' = [task EXCEPT ![<<b, k>>] = t]
    BY <1>8 DEF FinishConnect, CloseSession, EndsWith
  <2> QED BY <1>1, <2>1, <2>2
<1>9. ASSUME NEW b \in Conn, NEW k \in Slot, TellWindow(b, k)
      PROVE  Goal
  <2>1. i # <<b, k>>
    BY <1>9 DEF TellWindow
  <2> QED BY <1>1, <1>9, <2>1 DEF TellWindow
<1>10. CASE UNCHANGED task
  BY <1>10
<1>11. ASSUME IdleExit \/ DaemonDies
       PROVE  Goal
  BY <1>0, <1>11, NoTaskTyped DEF IdleExit, DaemonDies, Gone
<1>12. ASSUME NEW x \in Client, NEW b \in Conn, NEW method, NEW root, NEW next,
              Dial(x, b, method, root, next)
       PROVE  Goal
  <2>1. b # c
    BY <1>12 DEF Dial, Fresh, Traceless
  <2>2. task'[i] = task[i]
    BY <1>0, <1>12, <2>1 DEF Dial
  <2> QED BY <2>2
<1>13. ASSUME NEW v \in Window, Connect(v)
       PROVE  Goal
  BY <1>12, <1>13, Constants DEF Connect
<1>14. ASSUME NEW v \in Window, Confirmed(v)
       PROVE  Goal
  <2>1. peer[v] \in Conn /\ i # <<peer[v], 1>>
    BY <1>14, Constants DEF Confirmed, Typed, WindowsHold, Hold
  <2> QED BY <1>2, <1>14, <2>1, Constants DEF Confirmed, Answer
<1>15. ASSUME NEW v \in Window, Handle(v)
       PROVE  Goal
  <2> DEFINE m == Head(outbox[peer[v]])
  <2>1. m.session \in Conn /\ m.slot \in Slot
    BY <1>15, HeadTyped DEF Handle
  <2>2. \/ UNCHANGED task
        \/ Answer(m.session, m.slot, "running") /\ task[<<m.session, m.slot>>].step = "waiting"
    BY <1>15 DEF Handle, Answer
  <2> QED BY <1>2, <1>10, <2>1, <2>2
<1>16. ASSUME NEW v \in Window, NEW b \in Conn, NEW k \in Slot, Reply(v, b, k) \/ ReplyLate(v, b, k)
       PROVE  Goal
  <2>1. i # <<b, k>>
    BY <1>16 DEF Reply, ReplyLate
  <2> QED BY <1>2, <1>3, <1>16, <2>1 DEF Reply, ReplyLate
<1>17. ASSUME NEW f \in Frontend, Greet(f)
       PROVE  Goal
  BY <1>10, <1>12, <1>17, Constants DEF Greet
<1>18. ASSUME NEW f \in Frontend, Welcomed(f)
       PROVE  Goal
  <2>1. peer[f] \in Conn
    BY <1>18, Constants DEF Welcomed, Typed, FrontendsHold, Hold
  <2> QED BY <1>3, <1>18, <2>1, Constants DEF Welcomed
<1>19. ASSUME NEW f \in Frontend, NEW k \in Slot, Ask(f, k)
       PROVE  Goal
  <2>1. PICK method, root : task' = [task EXCEPT ![<<peer[f], k>>] =
                                [NoTask EXCEPT !.method = method, !.root = root, !.step = "sent"]]
    BY <1>19 DEF Ask
  <2>2. \/ task'[i] = task[i]
        \/ task'[i] = [NoTask EXCEPT !.method = method, !.root = root, !.step = "sent"]
    BY <1>0, <2>1 DEF Typed
  <2> QED BY <2>2 DEF NoTask
<1> QED BY <1>4, <1>5, <1>6, <1>7, <1>8, <1>9, <1>10, <1>11, <1>13, <1>14, <1>15, <1>16, <1>17,
           <1>18, <1>19, TaskSteps

LEMMA NotYetStep ==
    ASSUME Typed, WindowsHold, FrontendsHold, NotYet, [Next]_vars,
           peer' \in [Client -> Conn \cup {NoConn}]
    PROVE  NotYet'
<1> SUFFICES ASSUME NEW c \in Conn, link'[c] = "pending"
             PROVE  /\ task'[<<c, 1>>].step \in {"none", "sent"}
                    /\ \A w \in Window : peer'[w] = c => phase'[w] # "registered"
  BY DEF NotYet
<1>1. CASE Dialled(c)
  BY <1>1, DialStarts
<1>2. CASE ~Dialled(c)
  <2>1. link[c] = "pending"
    BY <1>2, LinkMoves
  <2>2. task[<<c, 1>>].step \in {"none", "sent"} /\ \A w \in Window : peer[w] = c => phase[w] # "registered"
    BY <2>1 DEF NotYet
  <2>3. task'[<<c, 1>>].step \in {"none", "sent"}
    BY <2>1, <2>2, SentStays
  <2>4. ASSUME NEW w \in Window, peer'[w] = c, phase'[w] = "registered"
        PROVE  FALSE
    <3>1. peer[w] = c /\ (phase[w] = "registered" \/ Confirmed(w))
      BY <1>2, <2>4, WindowMoves, Constants
    <3> QED BY <2>2, <3>1 DEF Confirmed
  <2> QED BY <2>3, <2>4
<1> QED BY <1>1, <1>2

(* A registration is carried out when the workspace is free.               *)
LEMMA DoneComes ==
    ASSUME Typed, WindowsHold, FrontendsHold, StepsFit, [Next]_vars, NEW c \in Conn,
           task'[<<c, 1>>].method = "register", task'[<<c, 1>>].step = "done"
    PROVE  \/ task[<<c, 1>>].method = "register" /\ task[<<c, 1>>].step = "done"
              /\ task'[<<c, 1>>].root = task[<<c, 1>>].root
           \/ /\ RegisterWorkspace(c) /\ ~Taken(task[<<c, 1>>].root)
              /\ task'[<<c, 1>>].root = task[<<c, 1>>].root
<1> DEFINE i == <<c, 1>>
           Same == /\ task[i].method = "register" /\ task[i].step = "done"
                   /\ task'[i].root = task[i].root
           New == /\ RegisterWorkspace(c) /\ ~Taken(task[i].root)
                  /\ task'[i].root = task[i].root
<1> USE DEF Net
<1>0. i \in Conn \X Slot /\ task[i] \in Task /\ Fits(task[i])
  BY Constants DEF Typed, StepsFit
<1>1. task'[i] # NoTask
  BY NoTaskTyped
<1>2. task'[i] = task[i] => Same
  BY <1>0
<1>3. ASSUME NEW b \in Conn, NEW k \in Slot, NEW step, Answer(b, k, step), step # "done"
      PROVE  Same
  BY <1>0, <1>2, <1>3, AnswerIs
<1>4. ASSUME NEW b \in Conn, NEW k \in Slot, End(b, k)
      PROVE  Same
  BY <1>0, <1>1, <1>2, <1>4, EndKeeps
<1>5. ASSUME NEW b \in Conn, RegisterWorkspace(b)
      PROVE  Same \/ New
  <2>1. CASE Taken(task[<<b, 1>>].root)
    BY <1>3, <1>5, <2>1, Constants DEF RegisterWorkspace
  <2>2. CASE ~Taken(task[<<b, 1>>].root)
    <3>1. Answer(b, 1, "done")
      BY <1>5, <2>2 DEF RegisterWorkspace
    <3> QED BY <1>0, <1>2, <1>5, <2>2, <3>1, AnswerIs, Constants
  <2> QED BY <2>1, <2>2
<1>6. ASSUME NEW b \in Conn, McpHello(b)
      PROVE  Same
  <2>1. Answer(b, 1, "done") /\ task[<<b, 1>>].method = "hello"
    BY <1>6 DEF McpHello, Runs
  <2>2. i # <<b, 1>>
    BY <1>0, <2>1, AnswerIs, Constants
  <2> QED BY <1>0, <1>2, <2>1, <2>2, AnswerIs, Constants
<1>7. ASSUME NEW b \in Conn, NEW k \in Slot, Read(b, k) \/ TooSlow(b, k)
      PROVE  Same
  BY <1>3, <1>7 DEF Read, TooSlow, Answer
<1>8. ASSUME NEW b \in Conn, NEW k \in Slot, CallTool(b, k)
      PROVE  Same
  BY <1>0, <1>1, <1>2, <1>8, PickIs
<1>9. ASSUME NEW b \in Conn, NEW k \in Slot, Forward(b, k) \/ CallFails(b, k)
      PROVE  Same
  BY <1>3, <1>4, <1>9 DEF Forward, CallFails
<1>10. ASSUME NEW b \in Conn, NEW k \in Slot, NEW e, EndsWith(b, k, e)
       PROVE  Same
  BY <1>0, <1>1, <1>2, <1>10, EndsWithGives
<1>11. ASSUME NEW b \in Conn, NEW k \in Slot, FinishConnect(b, k) \/ CloseSession(b, k)
       PROVE  Same
  BY <1>10, <1>11 DEF FinishConnect, CloseSession
<1>12. ASSUME NEW b \in Conn, NEW k \in Slot, TellWindow(b, k)
       PROVE  Same
  <2>1. CASE i = <<b, k>>
    <3>1. task'[i] = NoTask \/ task[i].method = "close"
      BY <1>0, <1>12, <2>1 DEF TellWindow, Typed
    <3>2. task[i].method = "close"
      BY <1>1, <3>1
    <3>3. task'[i] = [task[i] EXCEPT !.step = "done", !.target = NoConn]
      BY <1>0, <1>12, <2>1, <3>2 DEF TellWindow, Typed
    <3> QED BY <1>0, <3>2, <3>3 DEF Task
  <2>2. CASE i # <<b, k>>
    BY <1>0, <1>2, <1>12, <2>2 DEF TellWindow, Typed
  <2> QED BY <2>1, <2>2
<1>13. CASE UNCHANGED task
  BY <1>2, <1>13
<1>14. ASSUME IdleExit \/ DaemonDies
       PROVE  Same
  BY <1>0, <1>1, <1>14 DEF IdleExit, DaemonDies, Gone
<1>15. ASSUME NEW x \in Client, NEW b \in Conn, NEW method, NEW root, NEW next,
              Dial(x, b, method, root, next)
       PROVE  Same
  <2>1. \/ task'[i] = task[i] \/ task'[i] = NoTask
        \/ task'[i] = [NoTask EXCEPT !.method = method, !.root = root, !.step = "sent"]
    BY <1>0, <1>15 DEF Dial
  <2>2. task'[i] # [NoTask EXCEPT !.method = method, !.root = root, !.step = "sent"]
    BY DEF NoTask
  <2> QED BY <1>1, <1>2, <2>1, <2>2
<1>16. ASSUME NEW v \in Window, Connect(v)
       PROVE  Same
  BY <1>15, <1>16, Constants DEF Connect
<1>17. ASSUME NEW v \in Window, Confirmed(v)
       PROVE  Same
  <2>1. peer[v] \in Conn
    BY <1>17, Constants DEF Confirmed, Typed, WindowsHold, Hold
  <2> QED BY <1>3, <1>17, <2>1, Constants DEF Confirmed, Answer
<1>18. ASSUME NEW v \in Window, Handle(v)
       PROVE  Same
  <2> DEFINE m == Head(outbox[peer[v]])
  <2>1. m.session \in Conn /\ m.slot \in Slot
    BY <1>18, HeadTyped DEF Handle
  <2>2. UNCHANGED task \/ Answer(m.session, m.slot, "running")
    BY <1>18 DEF Handle, Answer
  <2> QED BY <1>3, <1>13, <2>1, <2>2
<1>19. ASSUME NEW v \in Window, NEW b \in Conn, NEW k \in Slot, Reply(v, b, k) \/ ReplyLate(v, b, k)
       PROVE  Same
  BY <1>3, <1>4, <1>19 DEF Reply, ReplyLate
<1>20. ASSUME NEW f \in Frontend, Greet(f)
       PROVE  Same
  BY <1>13, <1>15, <1>20, Constants DEF Greet
<1>21. ASSUME NEW f \in Frontend, Welcomed(f)
       PROVE  Same
  <2>1. peer[f] \in Conn
    BY <1>21, Constants DEF Welcomed, Typed, FrontendsHold, Hold
  <2> QED BY <1>4, <1>21, <2>1, Constants DEF Welcomed
<1>22. ASSUME NEW f \in Frontend, NEW k \in Slot, Ask(f, k)
       PROVE  Same
  <2>1. PICK method, root : task' = [task EXCEPT ![<<peer[f], k>>] =
                                [NoTask EXCEPT !.method = method, !.root = root, !.step = "sent"]]
    BY <1>22 DEF Ask
  <2>2. \/ task'[i] = task[i]
        \/ task'[i] = [NoTask EXCEPT !.method = method, !.root = root, !.step = "sent"]
    BY <1>0, <2>1 DEF Typed
  <2>3. task'[i] # [NoTask EXCEPT !.method = method, !.root = root, !.step = "sent"]
    BY DEF NoTask
  <2> QED BY <1>2, <2>2, <2>3
<1> QED BY <1>5, <1>6, <1>7, <1>8, <1>9, <1>11, <1>12, <1>13, <1>14, <1>16, <1>17, <1>18, <1>19,
           <1>20, <1>21, <1>22, TaskSteps

(* What is registered stays so until its own connection is removed.        *)
LEMMA EntryStays ==
    ASSUME Typed, [Next]_vars, NEW c \in Conn, NEW e \in data.workspaces, e.id = c,
           ~RemovePeer(c), ~IdleExit, ~DaemonDies
    PROVE  e \in data'.workspaces
<1> DEFINE Goal == e \in data'.workspaces
<1> USE DEF Net, Runtime
<1>0. data \in Data
  BY DEF Typed
<1>1. ASSUME NEW b \in Conn, RemovePeer(b)
      PROVE  Goal
  <2> DEFINE left == {w \in data.workspaces : w.id # b}
  <2>0. b # c
    BY <1>1
  <2>1. CASE data.roles[b] = "extension"
    <3>1. PICK bs, S : data' = [data EXCEPT !.roles[b] = "none", !.workspaces = left,
                                            !.bindings = bs, !.stale = S]
      BY <1>0, <1>1, <2>1 DEF RemovePeer, Data
    <3>2. data'.workspaces = left
      BY <1>0, <3>1 DEF Data
    <3> QED BY <2>0, <3>2
  <2>2. CASE data.roles[b] = "mcp" /\ b \in data.owners
    BY <1>0, <1>1, <2>2 DEF RemovePeer, Data
  <2>3. CASE data.roles[b] # "extension" /\ ~(data.roles[b] = "mcp" /\ b \in data.owners)
    BY <1>0, <1>1, <2>3 DEF RemovePeer, Data
  <2> QED BY <2>1, <2>2, <2>3
<1>2. ASSUME NEW b \in Conn, RegisterWorkspace(b)
      PROVE  Goal
  <2>1. CASE Taken(task[<<b, 1>>].root)
    BY <1>2, <2>1 DEF RegisterWorkspace
  <2>2. CASE ~Taken(task[<<b, 1>>].root)
    <3>1. e.root # task[<<b, 1>>].root
      BY <2>2 DEF Taken
    <3>2. data'.workspaces = {w \in data.workspaces : w.root # task[<<b, 1>>].root}
                                \cup {[root |-> task[<<b, 1>>].root, id |-> b]}
      BY <1>0, <1>2, <2>2 DEF RegisterWorkspace, Data
    <3> QED BY <3>1, <3>2
  <2> QED BY <2>1, <2>2
<1>3. ASSUME NEW b \in Conn, Accept(b) \/ Farewell(b) \/ Forget(b) \/ McpHello(b)
      PROVE  Goal
  BY <1>0, <1>3 DEF Accept, Farewell, Forget, McpHello, Data
<1>4. ASSUME NEW b \in Conn, NEW k \in Slot, CallTool(b, k) \/ FinishConnect(b, k) \/ CloseSession(b, k)
      PROVE  Goal
  BY <1>0, <1>4 DEF CallTool, FinishConnect, CloseSession, Data
<1>5. ASSUME NEW b \in Conn, NEW k \in Slot,
             \/ EndOfStream(b) \/ Read(b, k) \/ Forward(b, k) \/ CallFails(b, k)
             \/ TellWindow(b, k) \/ TooSlow(b, k)
      PROVE  Goal
  BY <1>5 DEF EndOfStream, Read, Forward, CallFails, TellWindow, TooSlow
<1>6. ASSUME \/ \E x \in Client : Launch(x)
             \/ UNCHANGED vars
      PROVE  Goal
  BY <1>6 DEF Launch, vars
<1>7. ASSUME NEW w \in Window,
             \/ Connect(w) \/ Confirmed(w) \/ Rejected(w) \/ Disconnected(w) \/ TimerFires(w)
             \/ Start(w) \/ Handle(w) \/ Open(w) \/ Restart(w) \/ Disable(w) \/ Enable(w)
             \/ Dispose(w) \/ ConnectFails(w) \/ RegisterTimesOut(w)
             \/ \E b \in Conn, k \in Slot : Reply(w, b, k) \/ ReplyLate(w, b, k)
      PROVE  Goal
  BY <1>7 DEF Connect, Confirmed, Rejected, Disconnected, TimerFires, Start, Handle, Open, Restart,
              Disable, Enable, Dispose, ConnectFails, RegisterTimesOut, Reply, ReplyLate
<1>8. ASSUME NEW f \in Frontend, Greet(f) \/ Welcomed(f) \/ Leave(f) \/ \E k \in Slot : Ask(f, k)
      PROVE  Goal
  BY <1>8 DEF Greet, Welcomed, Leave, Ask
<1> HIDE DEF Goal
<1>9. Goal
  BY <1>1, <1>2, <1>3, <1>4, <1>5, <1>6, <1>7, <1>8, Constants, StepKinds
<1> QED BY <1>9 DEF Goal

(* The connection of a step that leaves it served.                         *)
LEMMA ServedStays ==
    ASSUME Typed, [Next]_vars, NEW c \in Conn, link'[c] \in {"open", "broken"}
    PROVE  /\ link[c] \in {"pending", "open", "broken"}
           /\ ~RemovePeer(c) /\ ~IdleExit /\ ~DaemonDies /\ ~Dialled(c)
<1>1. ~Dialled(c)
  BY DialStarts
<1>2. ~IdleExit /\ ~DaemonDies
  BY GoneLinks
<1>3. ~RemovePeer(c)
  BY DEF RemovePeer, Typed
<1> QED BY <1>1, <1>2, <1>3, LinkMoves

LEMMA DoneIsFoundStep ==
    ASSUME Typed, WindowsHold, FrontendsHold, StepsFit, NotYet, DoneIsFound, [Next]_vars
    PROVE  DoneIsFound'
<1> SUFFICES ASSUME NEW c \in Conn, link'[c] \in {"open", "broken"},
                    task'[<<c, 1>>].method = "register", task'[<<c, 1>>].step = "done"
             PROVE  [root |-> task'[<<c, 1>>].root, id |-> c] \in data'.workspaces
  BY DEF DoneIsFound, Entry
<1>1. /\ link[c] \in {"pending", "open", "broken"}
      /\ ~RemovePeer(c) /\ ~IdleExit /\ ~DaemonDies
  BY ServedStays
<1>2. CASE /\ task[<<c, 1>>].method = "register" /\ task[<<c, 1>>].step = "done"
           /\ task'[<<c, 1>>].root = task[<<c, 1>>].root
  <2>1. Entry(c) \in data.workspaces
    BY <1>1, <1>2 DEF DoneIsFound, NotYet
  <2>2. Entry(c).id = c
    BY DEF Entry
  <2>3. Entry(c) \in data'.workspaces
    BY <1>1, <2>1, <2>2, EntryStays
  <2> QED BY <1>2, <2>3 DEF Entry
<1>3. CASE /\ RegisterWorkspace(c) /\ ~Taken(task[<<c, 1>>].root)
           /\ task'[<<c, 1>>].root = task[<<c, 1>>].root
  <2>1. data \in Data
    BY DEF Typed
  <2>2. data'.workspaces = {w \in data.workspaces : w.root # task[<<c, 1>>].root}
                              \cup {[root |-> task[<<c, 1>>].root, id |-> c]}
    BY <1>3, <2>1 DEF RegisterWorkspace, Data
  <2> QED BY <1>3, <2>2
<1> QED BY <1>2, <1>3, DoneComes

LEMMA RegisteredWindowsAreFoundStep ==
    ASSUME Typed, WindowsHold, Typed', WindowsHold', Registering, NotYet, DoneIsFound,
           RegisteredWindowsAreFound, [Next]_vars
    PROVE  RegisteredWindowsAreFound'
<1> SUFFICES ASSUME NEW w \in Window, phase'[w] = "registered", link'[peer'[w]] \in {"open", "broken"}
             PROVE  [root |-> Root[w], id |-> peer'[w]] \in data'.workspaces
  BY DEF RegisteredWindowsAreFound
<1> DEFINE c == peer'[w]
           e == [root |-> Root[w], id |-> c]
<1>1. c \in Conn
  BY Constants DEF Typed, WindowsHold, Hold
<1>2. /\ link[c] \in {"pending", "open", "broken"}
      /\ ~RemovePeer(c) /\ ~IdleExit /\ ~DaemonDies /\ ~Dialled(c)
  BY <1>1, ServedStays
<1>3. peer[w] = c /\ (phase[w] = "registered" \/ Confirmed(w))
  BY <1>1, <1>2, WindowMoves, Constants
<1>4. CASE phase[w] = "registered"
  <2>1. e \in data.workspaces
    BY <1>1, <1>2, <1>3, <1>4 DEF NotYet, RegisteredWindowsAreFound
  <2> QED BY <1>1, <1>2, <2>1, EntryStays
<1>5. CASE Confirmed(w)
  <2>1. task[<<c, 1>>].step = "done" /\ Hold(w)
    BY <1>1, <1>3, <1>5, Constants DEF Confirmed, Hold
  <2>2. task[<<c, 1>>].method = "register" /\ task[<<c, 1>>].root = Root[w]
    BY <1>2, <1>3, <2>1 DEF Registering, Live
  <2>3. link[c] \in {"open", "broken"}
    BY <1>1, <1>2, <2>1 DEF NotYet
  <2>4. e \in data.workspaces
    BY <1>1, <2>1, <2>2, <2>3 DEF DoneIsFound, Entry
  <2> QED BY <1>1, <1>2, <2>4, EntryStays
<1> QED BY <1>3, <1>4, <1>5

FoundInv ==
    /\ Inv /\ PeersDiffer /\ WindowsForget
    /\ Registering /\ NotYet /\ DoneIsFound /\ RegisteredWindowsAreFound

LEMMA FoundInit == Init => FoundInv
<1> SUFFICES ASSUME Init PROVE FoundInv
  OBVIOUS
<1>1. PeersDiffer /\ WindowsForget /\ Registering
  BY Constants DEF Init, PeersDiffer, WindowsForget, Registering, Hold
<1>2. NotYet /\ DoneIsFound
  BY DEF Init, NotYet, DoneIsFound
<1>3. RegisteredWindowsAreFound
  BY Constants DEF Init, RegisteredWindowsAreFound
<1> QED BY <1>1, <1>2, <1>3, InvInit DEF FoundInv

LEMMA FoundStep == FoundInv /\ [Next]_vars => FoundInv'
<1> SUFFICES ASSUME FoundInv, [Next]_vars PROVE FoundInv'
  OBVIOUS
<1>1. Inv'
  BY InvStep DEF FoundInv
<1>2. peer' \in [Client -> Conn \cup {NoConn}]
  BY <1>1 DEF Inv, Typed
<1>3. PeersDiffer' /\ WindowsForget'
  BY ForgetStep DEF FoundInv, Inv
<1>4. Registering' /\ NotYet'
  BY <1>2, RegisteringStep, NotYetStep DEF FoundInv, Inv
<1>5. DoneIsFound'
  BY DoneIsFoundStep DEF FoundInv, Inv
<1>6. RegisteredWindowsAreFound'
  BY <1>1, RegisteredWindowsAreFoundStep DEF FoundInv, Inv
<1> QED BY <1>1, <1>3, <1>4, <1>5, <1>6 DEF FoundInv

(* A window that shows itself as registered is, as long as its connection  *)
(* stands: the map of workspaces is by root, and neither another window's  *)
(* registration nor an earlier one of its own, however late it comes, nor  *)
(* the end of either, displaces it.                                        *)
THEOREM WindowsAreFound == Spec => []RegisteredWindowsAreFound
<1>1. FoundInv => RegisteredWindowsAreFound
  BY DEF FoundInv
<1> QED BY <1>1, FoundInit, FoundStep, PTL DEF Spec

-----------------------------------------------------------------------------
(* Sessions.  What can bring a session to a window, other than its         *)
(* connect_workspace, all comes of one that succeeded there: its binding,  *)
(* which is made when the window has answered, the target a call is given  *)
(* by the binding, the window a session that ends has to be closed in, and *)
(* what has been sent.                                                     *)

Told(w, s) == "connected" \in contexts[w][s]

Asks(t) == t.method = "connect" /\ t.step \in {"picked", "waiting", "running", "late", "refused"}

Untold(p, s) ==
    /\ data.bindings[s] # p
    /\ data.farewell[s] # p
    /\ \A k \in Slot : task[<<s, k>>].target = p => Asks(task[<<s, k>>])
    /\ \A n \in DOMAIN outbox[p] : outbox[p][n].session = s => outbox[p][n].kind = "connect"

SessionsAreTold ==
    \A w \in Window : Hold(w) => \A s \in Conn : Told(w, s) \/ Untold(peer[w], s)

Dials ==
    \E x \in Client, c \in Conn, method \in Method, root \in Workspace \cup {{}}, next \in Phase :
        Dial(x, c, method, root, next) /\ UNCHANGED data

(* A new connection of a window, and of a session, has no past.            *)
LEMMA DialForgets ==
    ASSUME Typed, PeersDiffer, SessionsAreTold, Dials
    PROVE  SessionsAreTold'
<1> SUFFICES ASSUME NEW w \in Window, peer'[w] # NoConn, NEW s \in Conn
             PROVE  Told(w, s)' \/ Untold(peer[w], s)'
  BY DEF SessionsAreTold, Hold
<1>1. PICK x \in Client, c \in Conn, method \in Method, root \in Workspace \cup {{}}, next \in Phase :
         Dial(x, c, method, root, next) /\ UNCHANGED data
  BY DEF Dials
<1>2. /\ \A y \in Client : peer[y] # c
      /\ \A i \in Conn \X Slot : task[i].target # c
      /\ \A b \in Conn : data.bindings[b] # c /\ data.farewell[b] # c
      /\ data.bindings[c] = NoConn /\ data.farewell[c] = NoConn
      /\ \A v \in Window : peer[v] # NoConn =>
            \A n \in DOMAIN outbox[peer[v]] : outbox[peer[v]][n].session # c
  BY <1>1 DEF Dial, Fresh, Traceless
<1>3. peer'[w] = IF x = w THEN c ELSE peer[w]
  BY <1>1, Constants DEF Dial, Typed
<1>4. \A k \in Slot : task'[<<s, k>>].target \in {NoConn, task[<<s, k>>].target}
  <2> SUFFICES ASSUME NEW k \in Slot
               PROVE  task'[<<s, k>>].target \in {NoConn, task[<<s, k>>].target}
    OBVIOUS
  <2>1. \/ task'[<<s, k>>] \in {NoTask, task[<<s, k>>]}
        \/ task'[<<s, k>>] = [NoTask EXCEPT !.method = method, !.root = root, !.step = "sent"]
    BY <1>1 DEF Dial
  <2>2. [NoTask EXCEPT !.method = method, !.root = root, !.step = "sent"].target = NoConn
    BY DEF NoTask
  <2> QED BY <2>1, <2>2, NoTaskTyped
<1>5. c # NoConn /\ data' = data
  BY <1>1, Constants
<1>6. CASE x = w
  <2>1. outbox'[c] = <<>>
    BY <1>1 DEF Dial, Typed
  <2>2. \A k \in Slot : task'[<<s, k>>].target # c
    BY <1>2, <1>4, <1>5
  <2>3. data'.bindings[s] # c /\ data'.farewell[s] # c
    BY <1>2, <1>5
  <2>4. Untold(c, s)'
    BY <2>1, <2>2, <2>3 DEF Untold
  <2> QED BY <1>3, <1>6, <2>4 DEF Untold
<1>7. CASE x # w
  <2>0. PICK p \in Conn : p = peer[w] /\ p # c /\ peer'[w] = p
    BY <1>2, <1>3, <1>7, Constants DEF Typed
  <2>1. outbox'[p] = outbox[p]
    BY <1>1, <2>0 DEF Dial, Typed
  <2>2. CASE s = c
    <3>1. ASSUME NEW k \in Slot PROVE task'[<<s, k>>].target # p
      <4>1. \/ task'[<<s, k>>] = NoTask
            \/ task'[<<s, k>>] = [NoTask EXCEPT !.method = method, !.root = root, !.step = "sent"]
        BY <1>1, <2>2, <3>1 DEF Dial
      <4>2. [NoTask EXCEPT !.method = method, !.root = root, !.step = "sent"].target = NoConn
        BY DEF NoTask
      <4>3. task'[<<s, k>>].target = NoConn
        BY <4>1, <4>2, NoTaskTyped
      <4> QED BY <2>0, <4>3, Constants
    <3>2. \A n \in DOMAIN outbox[p] : outbox[p][n].session # s
      BY <1>2, <2>0, <2>2, Constants
    <3>3. data.bindings[s] # p /\ data.farewell[s] # p
      BY <1>2, <2>0, <2>2, Constants
    <3>4. Untold(p, s)'
      BY <1>5, <2>1, <3>1, <3>2, <3>3 DEF Untold
    <3> QED BY <2>0, <3>4 DEF Untold
  <2>3. CASE s # c
    <3>1. \A k \in Slot : task'[<<s, k>>] = task[<<s, k>>]
      BY <1>1, <2>3 DEF Dial
    <3>2. contexts'[w][s] = contexts[w][s]
      BY <1>1, <2>3 DEF Dial, Typed
    <3>3. Told(w, s) \/ Untold(p, s)
      BY <2>0, Constants DEF SessionsAreTold, Hold
    <3>4. Told(w, s) => Told(w, s)'
      BY <3>2 DEF Told
    <3>5. Untold(p, s) => Untold(p, s)'
      BY <1>5, <2>1, <3>1 DEF Untold
    <3> QED BY <2>0, <3>3, <3>4, <3>5 DEF Untold
  <2> QED BY <2>2, <2>3
<1> QED BY <1>6, <1>7

(* What a window has been told it forgets with its connection.             *)
LEMMA ToldStays ==
    ASSUME Typed, [Next]_vars, ~Dials, NEW w \in Window, peer'[w] # NoConn, NEW s \in Conn
    PROVE  peer'[w] = peer[w] /\ (Told(w, s) => Told(w, s)')
<1> DEFINE Goal == peer'[w] = peer[w] /\ (Told(w, s) => Told(w, s)')
<1> USE DEF Net, Runtime
<1>0. contexts[w] \in [Conn -> SUBSET {"kept", "connected"}] /\ w \in Client
  BY Constants DEF Typed
<1>1. ASSUME peer' = peer, contexts' = contexts PROVE Goal
  BY <1>1 DEF Told
<1>2. ASSUME NEW v \in Window, \/ Rejected(v) \/ Disconnected(v) \/ Restart(v) \/ Disable(v)
                               \/ Dispose(v) \/ RegisterTimesOut(v)
      PROVE  Goal
  <2>1. StopConnection(v)
    BY <1>2 DEF Rejected, Disconnected, Restart, Disable, Dispose, RegisterTimesOut
  <2>2. v # w
    BY <1>0, <2>1 DEF StopConnection, Typed
  <2>3. peer'[w] = peer[w] /\ contexts'[w] = contexts[w]
    BY <1>0, <2>1, <2>2 DEF StopConnection, Typed
  <2> QED BY <2>3 DEF Told
<1>3. ASSUME NEW f \in Frontend, Leave(f) PROVE Goal
  <2>1. peer'[w] = peer[w] /\ contexts' = contexts
    BY <1>3, Constants DEF Leave, Typed
  <2> QED BY <2>1 DEF Told
<1>4. ASSUME NEW v \in Window, Handle(v) PROVE Goal
  <2> DEFINE m == Head(outbox[peer[v]])
  <2>1. peer' = peer
    BY <1>4 DEF Handle
  <2>2. \/ contexts' = [contexts EXCEPT ![v][m.session] = @ \ {"kept"}]
        \/ contexts' = [contexts EXCEPT ![v][m.session] = @ \cup {"kept"}]
    BY <1>4 DEF Handle
  <2>3. \A C : /\ contexts' = [contexts EXCEPT ![v][m.session] = C]
               => contexts'[w][s] = contexts[w][s] \/ (w = v /\ s = m.session /\ contexts'[w][s] = C)
    BY <1>0 DEF Typed
  <2>4. CASE contexts' = [contexts EXCEPT ![v][m.session] = contexts[v][m.session] \ {"kept"}]
    BY <2>1, <2>3, <2>4 DEF Told
  <2>5. CASE contexts' = [contexts EXCEPT ![v][m.session] = contexts[v][m.session] \cup {"kept"}]
    BY <2>1, <2>3, <2>5 DEF Told
  <2> QED BY <2>2, <2>4, <2>5
<1>5. ASSUME NEW v \in Window, NEW c \in Conn, NEW k \in Slot, Reply(v, c, k) PROVE Goal
  <2>1. peer' = peer
    BY <1>5 DEF Reply
  <2>2. contexts' = contexts \/ contexts' = [contexts EXCEPT ![v][c] = @ \cup {"connected"}]
    BY <1>5 DEF Reply
  <2>3. \A C : /\ contexts' = [contexts EXCEPT ![v][c] = C]
               => contexts'[w][s] = contexts[w][s] \/ (w = v /\ s = c /\ contexts'[w][s] = C)
    BY <1>0 DEF Typed
  <2> QED BY <2>1, <2>2, <2>3 DEF Told
<1>6. ASSUME NEW v \in Window, Connect(v) PROVE Goal
  <2>1. Dials
    BY <1>6, Constants DEF Connect, Dials, Method, Phase
  <2> QED BY <2>1
<1>7. ASSUME NEW f \in Frontend, Greet(f) PROVE Goal
  <2>1. (\E c \in Conn : Dial(f, c, "hello", {}, "greeting")) => Dials
    BY <1>7, Constants DEF Greet, Dials, Method, Phase
  <2> QED BY <1>1, <1>7, <2>1 DEF Greet
<1>8. ASSUME NEW c \in Conn, NEW k \in Slot,
             \/ Accept(c) \/ EndOfStream(c) \/ RemovePeer(c) \/ Farewell(c) \/ Forget(c)
             \/ RegisterWorkspace(c) \/ McpHello(c)
             \/ Read(c, k) \/ CallTool(c, k) \/ Forward(c, k) \/ CallFails(c, k)
             \/ FinishConnect(c, k) \/ CloseSession(c, k) \/ TellWindow(c, k) \/ TooSlow(c, k)
      PROVE  peer' = peer /\ contexts' = contexts
  BY <1>8 DEF Accept, EndOfStream, RemovePeer, Farewell, Forget, RegisterWorkspace, McpHello, Read,
              CallTool, Forward, CallFails, FinishConnect, CloseSession, TellWindow, TooSlow
<1>9. ASSUME \/ \E x \in Client : Launch(x)
             \/ IdleExit \/ DaemonDies \/ UNCHANGED vars
      PROVE  peer' = peer /\ contexts' = contexts
  BY <1>9 DEF Launch, IdleExit, DaemonDies, Gone, vars
<1>10. ASSUME NEW v \in Window, \/ Confirmed(v) \/ TimerFires(v) \/ Start(v)
                                \/ Open(v) \/ Enable(v) \/ ConnectFails(v)
                                \/ \E c \in Conn, k \in Slot : ReplyLate(v, c, k)
      PROVE  peer' = peer /\ contexts' = contexts
  BY <1>10 DEF Confirmed, TimerFires, Start, Open, Enable, ConnectFails, ReplyLate
<1>11. ASSUME NEW f \in Frontend, Welcomed(f) \/ \E k \in Slot : Ask(f, k)
      PROVE  peer' = peer /\ contexts' = contexts
  BY <1>11 DEF Welcomed, Ask
<1> HIDE DEF Goal
<1>12. Goal
  BY <1>1, <1>2, <1>3, <1>4, <1>5, <1>6, <1>7, <1>8, <1>9, <1>10, <1>11, Constants, StepKinds
<1> QED BY <1>12 DEF Goal

(* Where the daemon's data name a window for a session.                    *)
LEMMA BindingComes ==
    ASSUME Typed, [Next]_vars, NEW p \in Conn, NEW s \in Conn
    PROVE  /\ data'.bindings[s] = p =>
                 \/ data.bindings[s] = p
                 \/ \E k \in Slot : task[<<s, k>>].step = "connected" /\ task[<<s, k>>].target = p
           /\ data'.farewell[s] = p => data.farewell[s] = p \/ data.bindings[s] = p
<1> DEFINE Goal ==
              /\ data'.bindings[s] = p =>
                    \/ data.bindings[s] = p
                    \/ \E k \in Slot : task[<<s, k>>].step = "connected" /\ task[<<s, k>>].target = p
              /\ data'.farewell[s] = p => data.farewell[s] = p \/ data.bindings[s] = p
<1> USE DEF Net, Runtime
<1>0. data \in Data /\ p # NoConn
  BY Constants DEF Typed
<1>1. ASSUME data'.bindings = data.bindings, data'.farewell = data.farewell
      PROVE  Goal
  BY <1>1
<1>2. ASSUME NEW c \in Conn, RemovePeer(c)
      PROVE  Goal
  <2>1. CASE data.roles[c] = "extension"
    <3> DEFINE b == [t \in Conn |-> IF t \in {u \in Conn : data.bindings[u] = c} THEN NoConn
                                    ELSE data.bindings[t]]
    <3>1. \E ws, S : data' = [data EXCEPT !.roles[c] = "none", !.workspaces = ws,
                                          !.bindings = b, !.stale = S]
      BY <1>0, <1>2, <2>1 DEF RemovePeer, Data
    <3>2. data'.bindings = b /\ data'.farewell = data.farewell
      BY <1>0, <3>1 DEF Data
    <3>3. b[s] = NoConn \/ b[s] = data.bindings[s]
      OBVIOUS
    <3> QED BY <1>0, <3>2, <3>3
  <2>2. CASE data.roles[c] = "mcp" /\ c \in data.owners
    <3>1. data' = [data EXCEPT !.roles[c] = "none", !.bindings[c] = NoConn, !.owners = @ \ {c},
                               !.stale = @ \ {c}, !.farewell[c] = WindowOf(c)]
      BY <1>0, <1>2, <2>2 DEF RemovePeer, Data
    <3>2. /\ data'.bindings = [data.bindings EXCEPT ![c] = NoConn]
          /\ data'.farewell = [data.farewell EXCEPT ![c] = WindowOf(c)]
      BY <1>0, <3>1 DEF Data
    <3>3. data'.bindings[s] = data.bindings[s] \/ data'.bindings[s] = NoConn
      BY <1>0, <3>2 DEF Data
    <3>4. data'.farewell[s] = data.farewell[s] \/ (s = c /\ data'.farewell[s] = WindowOf(c))
      BY <1>0, <3>2 DEF Data
    <3> QED BY <1>0, <3>3, <3>4, WindowOfTyped
  <2>3. CASE data.roles[c] # "extension" /\ ~(data.roles[c] = "mcp" /\ c \in data.owners)
    BY <1>0, <1>1, <1>2, <2>3 DEF RemovePeer, Data
  <2> QED BY <2>1, <2>2, <2>3
<1>3. ASSUME NEW c \in Conn, Farewell(c)
      PROVE  Goal
  <2>1. data'.bindings = data.bindings /\ data'.farewell = [data.farewell EXCEPT ![c] = NoConn]
    BY <1>0, <1>3 DEF Farewell, Data
  <2>2. data'.farewell[s] = data.farewell[s] \/ data'.farewell[s] = NoConn
    BY <1>0, <2>1 DEF Data
  <2> QED BY <1>0, <2>1, <2>2
<1>4. ASSUME NEW c \in Conn, Accept(c) \/ Forget(c) \/ McpHello(c) \/ RegisterWorkspace(c)
      PROVE  Goal
  BY <1>0, <1>1, <1>4 DEF Accept, Forget, McpHello, RegisterWorkspace, Data
<1>5. ASSUME NEW c \in Conn, NEW k \in Slot, CallTool(c, k)
      PROVE  Goal
  BY <1>0, <1>1, <1>5 DEF CallTool, Data
<1>6. ASSUME NEW c \in Conn, NEW k \in Slot, FinishConnect(c, k)
      PROVE  Goal
  <2>1. data'.farewell = data.farewell
    BY <1>0, <1>6 DEF FinishConnect, Data
  <2>2. \/ /\ task[<<c, k>>].step = "connected"
           /\ data'.bindings = [data.bindings EXCEPT ![c] = task[<<c, k>>].target]
        \/ data'.bindings = [data.bindings EXCEPT ![c] = NoConn]
    BY <1>0, <1>6 DEF FinishConnect, Data
  <2>3. \/ data'.bindings[s] = data.bindings[s] \/ data'.bindings[s] = NoConn
        \/ /\ s = c /\ task[<<c, k>>].step = "connected"
           /\ data'.bindings[s] = task[<<c, k>>].target
    BY <1>0, <2>2 DEF Data
  <2> QED BY <1>0, <1>6, <2>1, <2>3
<1>7. ASSUME NEW c \in Conn, NEW k \in Slot, CloseSession(c, k)
      PROVE  Goal
  <2>1. /\ data'.farewell = data.farewell
        /\ data'.bindings = data.bindings \/ data'.bindings = [data.bindings EXCEPT ![c] = NoConn]
    BY <1>0, <1>7 DEF CloseSession, Data
  <2>2. data'.bindings[s] = data.bindings[s] \/ data'.bindings[s] = NoConn
    BY <1>0, <2>1 DEF Data
  <2> QED BY <1>0, <2>1, <2>2
<1>8. ASSUME IdleExit \/ DaemonDies
      PROVE  Goal
  BY <1>0, <1>8 DEF IdleExit, DaemonDies, Gone, EmptyData
<1>9. ASSUME NEW c \in Conn, NEW k \in Slot,
             \/ EndOfStream(c) \/ Read(c, k) \/ Forward(c, k) \/ CallFails(c, k)
             \/ TellWindow(c, k) \/ TooSlow(c, k)
      PROVE  Goal
  BY <1>1, <1>9 DEF EndOfStream, Read, Forward, CallFails, TellWindow, TooSlow
<1>10. ASSUME \/ \E x \in Client : Launch(x)
              \/ UNCHANGED vars
       PROVE  Goal
  BY <1>1, <1>10 DEF Launch, vars
<1>11. ASSUME NEW w \in Window,
              \/ Connect(w) \/ Confirmed(w) \/ Rejected(w) \/ Disconnected(w) \/ TimerFires(w)
              \/ Start(w) \/ Handle(w) \/ Open(w) \/ Restart(w) \/ Disable(w) \/ Enable(w)
              \/ Dispose(w) \/ ConnectFails(w) \/ RegisterTimesOut(w)
              \/ \E b \in Conn, k \in Slot : Reply(w, b, k) \/ ReplyLate(w, b, k)
       PROVE  Goal
  BY <1>1, <1>11 DEF Connect, Confirmed, Rejected, Disconnected, TimerFires, Start, Handle, Open, Restart,
               Disable, Enable, Dispose, ConnectFails, RegisterTimesOut, Reply, ReplyLate
<1>12. ASSUME NEW f \in Frontend, Greet(f) \/ Welcomed(f) \/ Leave(f) \/ \E k \in Slot : Ask(f, k)
       PROVE  Goal
  BY <1>1, <1>12 DEF Greet, Welcomed, Leave, Ask
<1> HIDE DEF Goal
<1>13. Goal
  BY <1>2, <1>3, <1>4, <1>5, <1>6, <1>7, <1>8, <1>9, <1>10, <1>11, <1>12, Constants, StepKinds
<1> QED BY <1>13 DEF Goal

(* What is sent to a window.                                               *)
Bound(p, s) ==
    \/ data.farewell[s] = p
    \/ \E k \in Slot : task[<<s, k>>].target = p /\ ~Asks(task[<<s, k>>])

LEMMA MessagesCome ==
    ASSUME Typed, StepsFit, WindowsHold, [Next]_vars, ~Dials, NEW p \in Conn,
           NEW n \in DOMAIN outbox'[p]
    PROVE  LET m == outbox'[p][n]
           IN  \/ \E l \in DOMAIN outbox[p] : outbox[p][l] = m
               \/ m.kind = "connect" \/ Bound(p, m.session)
<1> DEFINE m == outbox'[p][n]
           Goal == \/ \E l \in DOMAIN outbox[p] : outbox[p][l] = m
                   \/ m.kind = "connect" \/ Bound(p, m.session)
<1> USE DEF Net, Runtime
<1>0. outbox \in [Conn -> Seq(Message)] /\ outbox[p] \in Seq(Message)
  BY DEF Typed
<1>1. CASE UNCHANGED outbox
  BY <1>1
<1>2. ASSUME NEW e, NEW msg, Send(e, msg), e = p => msg.kind = "connect" \/ Bound(p, msg.session)
      PROVE  Goal
  <2>1. CASE outbox'[p] = outbox[p]
    BY <2>1
  <2>2. CASE outbox'[p] # outbox[p]
    <3>1. e = p /\ outbox'[p] = Append(outbox[p], msg)
      BY <1>0, <1>2, <2>2 DEF Send
    <3>2. n \in 1 .. Len(outbox[p]) + 1
          /\ m = IF n = Len(outbox[p]) + 1 THEN msg ELSE outbox[p][n]
      BY <1>0, <3>1
    <3>3. n # Len(outbox[p]) + 1 => n \in DOMAIN outbox[p]
      BY <1>0, <3>2
    <3> QED BY <1>2, <3>1, <3>2, <3>3
  <2> QED BY <2>1, <2>2
<1>3. ASSUME NEW c \in Conn, Farewell(c)
      PROVE  Goal
  <2>1. data.farewell[c] = p => Bound(p, Close(c).session)
    BY DEF Bound, Close
  <2> QED BY <1>2, <1>3, <2>1 DEF Farewell
<1>4. ASSUME NEW c \in Conn, NEW k \in Slot, TellWindow(c, k)
      PROVE  Goal
  <2>1. task[<<c, k>>].target = p => Bound(p, Close(c).session)
    BY <1>4 DEF TellWindow, Bound, Close, Asks
  <2> QED BY <1>2, <1>4, <2>1 DEF TellWindow
<1>5. ASSUME NEW c \in Conn, NEW k \in Slot, Forward(c, k)
      PROVE  Goal
  <2> DEFINE msg == [kind |-> task[<<c, k>>].method, session |-> c, slot |-> k]
  <2>1. task[<<c, k>>].target = p => msg.kind = "connect" \/ Bound(p, msg.session)
    BY <1>5 DEF Bound, Asks
  <2>2. Send(task[<<c, k>>].target, msg)
    BY <1>5 DEF Forward
  <2> HIDE DEF msg
  <2> QED BY <1>2, <2>1, <2>2
<1>6. ASSUME NEW v \in Window, Handle(v)
      PROVE  Goal
  <2>1. \/ outbox'[p] = outbox[p]
        \/ outbox[p] # <<>> /\ outbox'[p] = Tail(outbox[p])
    BY <1>0, <1>6 DEF Handle
  <2>2. CASE outbox'[p] = outbox[p]
    BY <2>2
  <2>3. CASE outbox[p] # <<>> /\ outbox'[p] = Tail(outbox[p])
    <3>1. n + 1 \in DOMAIN outbox[p] /\ outbox[p][n + 1] = m
      BY <1>0, <2>3
    <3> QED BY <3>1
  <2> QED BY <2>1, <2>2, <2>3
<1>7. ASSUME IdleExit \/ DaemonDies
      PROVE  Goal
  BY <1>7 DEF IdleExit, DaemonDies, Gone
<1>8. ASSUME NEW v \in Window, Connect(v) PROVE Goal
  <2>1. Dials
    BY <1>8, Constants DEF Connect, Dials, Method, Phase
  <2> QED BY <2>1
<1>9. ASSUME NEW f \in Frontend, Greet(f) PROVE Goal
  <2>1. (\E c \in Conn : Dial(f, c, "hello", {}, "greeting")) => Dials
    BY <1>9, Constants DEF Greet, Dials, Method, Phase
  <2> QED BY <1>1, <1>9, <2>1 DEF Greet
<1>10. ASSUME NEW c \in Conn, NEW k \in Slot,
              \/ Accept(c) \/ EndOfStream(c) \/ RemovePeer(c) \/ Forget(c)
              \/ RegisterWorkspace(c) \/ McpHello(c) \/ Read(c, k) \/ CallTool(c, k)
              \/ CallFails(c, k) \/ FinishConnect(c, k) \/ CloseSession(c, k) \/ TooSlow(c, k)
       PROVE  Goal
  BY <1>1, <1>10 DEF Accept, EndOfStream, RemovePeer, Forget, RegisterWorkspace, McpHello, Read, CallTool,
               CallFails, FinishConnect, CloseSession, TooSlow
<1>11. ASSUME \/ \E x \in Client : Launch(x)
              \/ UNCHANGED vars
       PROVE  Goal
  BY <1>1, <1>11 DEF Launch, vars
<1>12. ASSUME NEW w \in Window,
              \/ Confirmed(w) \/ Rejected(w) \/ Disconnected(w) \/ TimerFires(w)
              \/ Start(w) \/ Open(w) \/ Restart(w) \/ Disable(w) \/ Enable(w)
              \/ Dispose(w) \/ ConnectFails(w) \/ RegisterTimesOut(w)
              \/ \E b \in Conn, k \in Slot : Reply(w, b, k) \/ ReplyLate(w, b, k)
       PROVE  Goal
  BY <1>1, <1>12 DEF Confirmed, Rejected, Disconnected, TimerFires, Start, Open, Restart,
               Disable, Enable, Dispose, ConnectFails, RegisterTimesOut, Reply, ReplyLate
<1>13. ASSUME NEW f \in Frontend, Welcomed(f) \/ Leave(f) \/ \E k \in Slot : Ask(f, k)
       PROVE  Goal
  BY <1>1, <1>13 DEF Welcomed, Leave, Ask, End
<1> HIDE DEF Goal
<1>14. Goal
  BY <1>1, <1>3, <1>4, <1>5, <1>6, <1>7, <1>8, <1>9, <1>10, <1>11, <1>12, <1>13, Constants, StepKinds
<1> QED BY <1>14 DEF Goal

(* Where a task's target comes from.                                       *)
LEMMA TargetsCome ==
    ASSUME Typed, WindowsHold, FrontendsHold, [Next]_vars, ~Dials, NEW p \in Conn,
           NEW s \in Conn, NEW k \in Slot, task'[<<s, k>>].target = p
    PROVE  \/ Asks(task'[<<s, k>>]) \/ data.bindings[s] = p
           \/ task[<<s, k>>].target = p /\ ~Asks(task[<<s, k>>])
           \/ \E v \in Window : peer[v] = p /\ Told(v, s)'
<1> DEFINE i == <<s, k>>
           Goal == \/ Asks(task'[i]) \/ data.bindings[s] = p
                   \/ task[i].target = p /\ ~Asks(task[i])
                   \/ \E v \in Window : peer[v] = p /\ Told(v, s)'
<1> USE DEF Net, Runtime
<1>0. i \in Conn \X Slot /\ task[i] \in Task /\ p # NoConn
  BY Constants DEF Typed
<1>1. task'[i] # NoTask
  BY <1>0, NoTaskTyped
<1>2. task'[i] = task[i] => Goal
  OBVIOUS
<1>3. ASSUME NEW b \in Conn, NEW j \in Slot, NEW step, Answer(b, j, step),
             Asks(task[<<b, j>>]) => step \in {"waiting", "running", "late", "refused"}
      PROVE  Goal
  <2>1. CASE i # <<b, j>>
    BY <1>0, <1>2, <1>3, <2>1, AnswerIs
  <2>2. CASE i = <<b, j>>
    <3>1. /\ task'[i].step = step /\ task'[i].method = task[i].method
          /\ task'[i].target = task[i].target
      BY <1>0, <1>3, <2>2, AnswerIs
    <3> QED BY <1>3, <2>2, <3>1 DEF Asks
  <2> QED BY <2>1, <2>2
<1>4. ASSUME NEW b \in Conn, NEW j \in Slot, End(b, j)
      PROVE  Goal
  BY <1>0, <1>1, <1>2, <1>4, EndKeeps
<1>5. ASSUME NEW b \in Conn, RegisterWorkspace(b) \/ McpHello(b)
      PROVE  Goal
  <2>1. ~Asks(task[<<b, 1>>])
    BY <1>5 DEF RegisterWorkspace, McpHello, Runs, Asks
  <2> QED BY <1>3, <1>5, <2>1, Constants DEF RegisterWorkspace, McpHello
<1>6. ASSUME NEW b \in Conn, NEW j \in Slot, Read(b, j) \/ TooSlow(b, j)
      PROVE  Goal
  <2>1. Read(b, j) => ~Asks(task[<<b, j>>])
    BY DEF Read, Asks
  <2> QED BY <1>3, <1>6, <2>1 DEF Read, TooSlow, Answer
<1>7. ASSUME NEW b \in Conn, NEW j \in Slot, CallTool(b, j)
      PROVE  Goal
  <2>1. \/ task'[i] = task[i]
        \/ /\ i = <<b, j>> /\ task'[i].step = "picked" /\ p \in Target(b, j)
           /\ task'[i].method = task[i].method
    BY <1>0, <1>1, <1>7, PickIs
  <2>2. ASSUME i = <<b, j>>, task'[i].step = "picked", p \in Target(b, j),
               task'[i].method = task[i].method
        PROVE  Goal
    <3>1. CASE task[i].method = "connect"
      BY <2>2, <3>1 DEF Asks
    <3>2. CASE task[i].method # "connect"
      <4>1. b = s /\ p = data.bindings[b]
        BY <2>2, <3>2 DEF Target
      <4> QED BY <4>1
    <3> QED BY <3>1, <3>2
  <2> QED BY <1>2, <2>1, <2>2
<1>8. ASSUME NEW b \in Conn, NEW j \in Slot, Forward(b, j) \/ CallFails(b, j)
      PROVE  Goal
  BY <1>3, <1>4, <1>8 DEF Forward, CallFails
<1>9. ASSUME NEW b \in Conn, NEW j \in Slot, NEW e, EndsWith(b, j, e),
             e \in {WindowOf(b), NoConn}
      PROVE  Goal
  <2>1. \/ task'[i] = task[i]
        \/ i = <<b, j>> /\ e # NoConn /\ e = p
        \/ task[i].method = "close" /\ task[i].target = p
    BY <1>0, <1>1, <1>9, EndsWithGives
  <2>2. CASE i = <<b, j>> /\ e # NoConn /\ e = p
    <3>1. b = s /\ p = data.bindings[b]
      BY <1>9, <2>2, WindowOfTyped
    <3> QED BY <3>1
  <2>3. CASE task[i].method = "close" /\ task[i].target = p
    BY <2>3 DEF Asks
  <2> QED BY <1>2, <2>1, <2>2, <2>3
<1>10. ASSUME NEW b \in Conn, NEW j \in Slot, FinishConnect(b, j) \/ CloseSession(b, j)
       PROVE  Goal
  BY <1>9, <1>10 DEF FinishConnect, CloseSession
<1>11. ASSUME NEW b \in Conn, NEW j \in Slot, TellWindow(b, j)
       PROVE  Goal
  <2>1. CASE i = <<b, j>>
    <3>1. task'[i] = [task[i] EXCEPT !.step = "done", !.target = NoConn]
      BY <1>0, <1>1, <1>11, <2>1 DEF TellWindow, Typed
    <3> QED BY <1>0, <3>1 DEF Task
  <2>2. CASE i # <<b, j>>
    BY <1>0, <1>2, <1>11, <2>2 DEF TellWindow, Typed
  <2> QED BY <2>1, <2>2
<1>12. CASE UNCHANGED task
  BY <1>2, <1>12
<1>13. ASSUME IdleExit \/ DaemonDies
       PROVE  Goal
  BY <1>0, <1>1, <1>13 DEF IdleExit, DaemonDies, Gone
<1>14. ASSUME NEW v \in Window, Connect(v) PROVE Goal
  <2>1. Dials
    BY <1>14, Constants DEF Connect, Dials, Method, Phase
  <2> QED BY <2>1
<1>15. ASSUME NEW f \in Frontend, Greet(f) PROVE Goal
  <2>1. (\E c \in Conn : Dial(f, c, "hello", {}, "greeting")) => Dials
    BY <1>15, Constants DEF Greet, Dials, Method, Phase
  <2> QED BY <1>12, <1>15, <2>1 DEF Greet
<1>16. ASSUME NEW v \in Window, Confirmed(v)
       PROVE  Goal
  <2>1. peer[v] \in Conn /\ ~Asks(task[<<peer[v], 1>>])
    BY <1>16, Constants DEF Confirmed, Typed, WindowsHold, Hold, Asks
  <2> QED BY <1>3, <1>16, <2>1, Constants DEF Confirmed, Answer
<1>17. ASSUME NEW v \in Window, Handle(v)
       PROVE  Goal
  <2> DEFINE m == Head(outbox[peer[v]])
  <2>1. m.session \in Conn /\ m.slot \in Slot
    BY <1>17, HeadTyped DEF Handle
  <2>2. UNCHANGED task \/ Answer(m.session, m.slot, "running")
    BY <1>17 DEF Handle, Answer
  <2> QED BY <1>3, <1>12, <2>1, <2>2
<1>18. ASSUME NEW v \in Window, NEW b \in Conn, NEW j \in Slot, Reply(v, b, j)
       PROVE  Goal
  <2>1. CASE End(b, j) \/ Answer(b, j, "refused")
    BY <1>3, <1>4, <2>1
  <2>2. CASE Answer(b, j, "connected") /\ contexts' = [contexts EXCEPT ![v][b] = @ \cup {"connected"}]
    <3>1. CASE i # <<b, j>>
      BY <1>0, <1>2, <2>2, <3>1, AnswerIs
    <3>2. CASE i = <<b, j>>
      <4>1. peer[v] = p
        BY <1>0, <1>18, <2>2, <3>2, AnswerIs DEF Reply, RunningIn
      <4>2. b = s /\ "connected" \in contexts'[v][b]
        BY <2>2, <3>2 DEF Typed
      <4> QED BY <4>1, <4>2 DEF Told
    <3> QED BY <3>1, <3>2
  <2> QED BY <1>18, <2>1, <2>2 DEF Reply
<1>19. ASSUME NEW v \in Window, NEW b \in Conn, NEW j \in Slot, ReplyLate(v, b, j)
       PROVE  Goal
  BY <1>4, <1>19 DEF ReplyLate
<1>20. ASSUME NEW f \in Frontend, Welcomed(f)
       PROVE  Goal
  <2>1. peer[f] \in Conn
    BY <1>20, Constants DEF Welcomed, Typed, FrontendsHold, Hold
  <2> QED BY <1>4, <1>20, <2>1, Constants DEF Welcomed
<1>21. ASSUME NEW f \in Frontend, NEW j \in Slot, Ask(f, j)
       PROVE  Goal
  <2>1. PICK method, root : task' = [task EXCEPT ![<<peer[f], j>>] =
                                [NoTask EXCEPT !.method = method, !.root = root, !.step = "sent"]]
    BY <1>21 DEF Ask
  <2>2. \/ task'[i] = task[i]
        \/ task'[i] = [NoTask EXCEPT !.method = method, !.root = root, !.step = "sent"]
    BY <1>0, <2>1 DEF Typed
  <2>3. [NoTask EXCEPT !.method = method, !.root = root, !.step = "sent"].target = NoConn
    BY DEF NoTask
  <2> QED BY <1>0, <1>2, <2>2, <2>3
<1>22. ASSUME NEW b \in Conn, NEW j \in Slot,
              \/ Read(b, j) \/ CallTool(b, j) \/ Forward(b, j) \/ CallFails(b, j) \/ FinishConnect(b, j)
              \/ CloseSession(b, j) \/ TellWindow(b, j) \/ TooSlow(b, j)
       PROVE  Goal
  BY <1>6, <1>7, <1>8, <1>10, <1>11, <1>22
<1>23. ASSUME NEW v \in Window, \/ Connect(v) \/ Confirmed(v) \/ Handle(v)
                                \/ \E b \in Conn, j \in Slot : Reply(v, b, j) \/ ReplyLate(v, b, j)
       PROVE  Goal
  BY <1>14, <1>16, <1>17, <1>18, <1>19, <1>23
<1>24. ASSUME NEW f \in Frontend, Greet(f) \/ Welcomed(f) \/ \E j \in Slot : Ask(f, j)
       PROVE  Goal
  BY <1>15, <1>20, <1>21, <1>24
<1> QED BY <1>5, <1>12, <1>13, <1>22, <1>23, <1>24, TaskSteps

LEMMA SessionsAreToldStep ==
    ASSUME Typed, WindowsHold, FrontendsHold, StepsFit, PeersDiffer, SessionsAreTold, [Next]_vars,
           peer' \in [Client -> Conn \cup {NoConn}]
    PROVE  SessionsAreTold'
<1>1. CASE Dials
  BY <1>1, DialForgets
<1>2. CASE ~Dials
  <2> SUFFICES ASSUME NEW w \in Window, peer'[w] # NoConn, NEW s \in Conn, ~(Told(w, s)')
               PROVE  Untold(peer[w], s)'
    BY DEF SessionsAreTold, Hold
  <2>1. PICK p \in Conn : p = peer[w] /\ peer'[w] = p
    BY <1>2, ToldStays, Constants DEF Typed
  <2>2. Untold(p, s)
    BY <1>2, <2>1, ToldStays, Constants DEF SessionsAreTold, Hold
  <2>3. /\ data.bindings[s] # p /\ data.farewell[s] # p
        /\ \A k \in Slot : task[<<s, k>>].target = p => Asks(task[<<s, k>>])
    BY <2>2 DEF Untold
  <2>4. data'.bindings[s] # p /\ data'.farewell[s] # p
    BY <2>3, BindingComes DEF Asks
  <2>5. ASSUME NEW k \in Slot, task'[<<s, k>>].target = p
        PROVE  Asks(task'[<<s, k>>])
    <3>1. ASSUME NEW v \in Window, peer[v] = p, Told(v, s)'
          PROVE  FALSE
      <4>1. v = w
        BY <2>1, <3>1, Constants DEF PeersDiffer
      <4> QED BY <3>1, <4>1
    <3> QED BY <1>2, <2>3, <2>5, <3>1, TargetsCome
  <2>6. ASSUME NEW n \in DOMAIN outbox'[p], outbox'[p][n].session = s
        PROVE  outbox'[p][n].kind = "connect"
    <3>1. ~Bound(p, s)
      BY <2>3 DEF Bound
    <3>2. \/ \E l \in DOMAIN outbox[p] : outbox[p][l] = outbox'[p][n]
          \/ outbox'[p][n].kind = "connect"
      BY <1>2, <2>6, <3>1, MessagesCome
    <3> QED BY <2>2, <2>6, <3>2 DEF Untold
  <2>7. Untold(p, s)'
    BY <2>4, <2>5, <2>6 DEF Untold
  <2> QED BY <2>1, <2>7 DEF Untold
<1> QED BY <1>1, <1>2

SessionInv == Inv /\ PeersDiffer /\ WindowsForget /\ SessionsAreTold

(* Whatever a window is sent of a session but its connect_workspace comes  *)
(* after one that succeeded there over the same connection: the daemon     *)
(* binds a session when a window has answered, unbinds it when the window  *)
(* goes, and has nothing left of it under a number that is used again,     *)
(* though calls and closings are sent after the lock was given back.       *)
THEOREM CallsReachTheirSession == Spec => []CallsFindTheirSession
<1>1. Init => SessionsAreTold
  BY Constants DEF Init, SessionsAreTold, Hold
<1>2. SessionInv /\ [Next]_vars => SessionInv'
  <2> SUFFICES ASSUME SessionInv, [Next]_vars PROVE SessionInv'
    OBVIOUS
  <2>1. Inv'
    BY InvStep DEF SessionInv
  <2>2. PeersDiffer' /\ WindowsForget'
    BY ForgetStep DEF SessionInv, Inv
  <2>3. SessionsAreTold'
    BY <2>1, SessionsAreToldStep DEF SessionInv, Inv, Typed
  <2> QED BY <2>1, <2>2, <2>3 DEF SessionInv
<1>3. SessionInv => CallsFindTheirSession
  <2> SUFFICES ASSUME SessionInv, NEW w \in Window, Hold(w), NEW n \in DOMAIN outbox[peer[w]],
                      outbox[peer[w]][n].kind # "connect"
               PROVE  Told(w, outbox[peer[w]][n].session)
    BY DEF CallsFindTheirSession, Told
  <2>1. outbox[peer[w]] \in Seq(Message)
    BY Constants DEF SessionInv, Inv, Typed, Hold
  <2>2. outbox[peer[w]][n] \in Message
    BY <2>1, ElementOfSeq
  <2>3. outbox[peer[w]][n].session \in Conn
    BY <2>2 DEF Message
  <2> QED BY <2>3 DEF SessionInv, SessionsAreTold, Untold
<1>4. Init => SessionInv
  BY <1>1, InvInit, Constants DEF Init, SessionInv, PeersDiffer, WindowsForget
<1> QED BY <1>2, <1>3, <1>4, PTL DEF Spec

=============================================================================
