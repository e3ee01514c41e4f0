---------------------------- MODULE ReviewService ----------------------------
(***************************************************************************)
(* The reviews of one repository as ReviewService, RefreshService and      *)
(* CommentService change them: users who act on what they saw a while ago, *)
(* agents bound to the review they connected to, jj operations that move   *)
(* the repository under a capture, and the mutation queue that runs one    *)
(* operation at a time.                                                    *)
(*                                                                         *)
(* A snapshot is named by its place in its review.  A review of n changes  *)
(* selects the first n changes of the stack.  What the store adds to this  *)
(* (files, retention, crashes) is in ReviewStore, the matching of anchors  *)
(* to lines is left open: a refresh may find any thread or lose it.        *)
(***************************************************************************)
EXTENDS Naturals, FiniteSets, Sequences

CONSTANTS Review, Thread, User, Agent,
          None,            \* no review
          Workload,        \* the kinds of request made
          StrictClock,     \* no two mutations get the same timestamp
          MaxOperation,    \* bound: jj operations
          MaxSize,         \* bound: changes in a review
          MaxClock         \* bound: timestamps

Kinds == {"start", "refresh", "include", "archive", "restore", "replace", "delete",
          "create", "reply", "edit", "remove", "resolve", "reopen", "close"}

ASSUME ServiceAssumption ==
    /\ None \notin Review
    /\ User \cap Agent = {}
    /\ Workload \subseteq Kinds
    /\ StrictClock \in BOOLEAN
    /\ MaxOperation \in Nat \ {0}
    /\ MaxSize \in Nat \ {0}
    /\ MaxClock \in Nat

Actor == User \cup Agent

VARIABLES log,       \* the contents of the selected changes at each jj operation
          clock,     \* the last timestamp given to a thread
          record,    \* the stored record of each review
          queue,     \* who waits for the repository, the first one running
          phase,     \* where each actor is
          seen,      \* what each actor last read
          request,   \* what it asked for
          capture    \* the snapshot the running operation has prepared

vars == <<log, clock, record, queue, phase, seen, request, capture>>

NoThread == [state |-> "none", anchor |-> 0, shown |-> 0, messages |-> {},
             revision |-> 0, updatedAt |-> 0]

NoRecord == [state |-> "absent", snapshots |-> <<>>, threads |-> [t \in Thread |-> NoThread]]

NoRequest == [kind |-> "none", review |-> None, threads |-> {}]

NoCapture == [review |-> None, operation |-> 0, content |-> 0, size |-> 0, time |-> 0]

Blind == [review |-> None, snapshot |-> 0, size |-> 0, operation |-> 0,
          threads |-> [t \in Thread |-> NoThread]]

Active == {r \in Review : record[r].state = "active"}

Current(r) == Len(record[r].snapshots)
CurrentSnapshot(r) == record[r].snapshots[Current(r)]

Init ==
    /\ log = <<1>>
    /\ clock = 0
    /\ record = [r \in Review |-> NoRecord]
    /\ queue = <<>>
    /\ phase = [a \in Actor |-> "idle"]
    /\ seen = [a \in Actor |-> Blind]
    /\ request = [a \in Actor |-> NoRequest]
    /\ capture = NoCapture

-----------------------------------------------------------------------------
(* What happens outside the queue.                                         *)

(* Another jj command runs; it may rewrite the selected changes or not.    *)
JjOperation ==
    /\ Len(log) < MaxOperation
    /\ \E c \in {log[Len(log)], log[Len(log)] + 1} : log' = Append(log, c)
    /\ UNCHANGED <<clock, record, queue, phase, seen, request, capture>>

Picture ==
    IF Active = {} THEN [Blind EXCEPT !.operation = Len(log)]
    ELSE LET r == CHOOSE x \in Active : TRUE
         IN  [review |-> r, snapshot |-> Current(r), size |-> CurrentSnapshot(r).size,
              operation |-> Len(log), threads |-> record[r].threads]

(* A user reads the active review and, for a selection, opens a session at *)
(* the current jj operation; what he asks for later rests on this.         *)
Look(u) ==
    /\ phase[u] = "idle"
    /\ seen' = [seen EXCEPT ![u] = Picture]
    /\ phase' = [phase EXCEPT ![u] = "looking"]
    /\ UNCHANGED <<log, clock, record, queue, request, capture>>

(* connect_workspace binds the session to the active review and snapshot,  *)
(* or to nothing.                                                          *)
Connect(g) ==
    /\ phase[g] = "idle"
    /\ seen' = [seen EXCEPT ![g] = [Picture EXCEPT !.threads = Blind.threads,
                                                   !.operation = 0]]
    /\ UNCHANGED <<log, clock, record, queue, phase, request, capture>>

(* runRepositoryMutation: behind everybody who is waiting.                 *)
Enqueue(a, kind, review, threads) ==
    /\ kind \in Workload
    /\ request' = [request EXCEPT ![a] = [kind |-> kind, review |-> review,
                                          threads |-> threads]]
    /\ queue' = Append(queue, a)
    /\ phase' = [phase EXCEPT ![a] = "queued"]
    /\ UNCHANGED <<log, clock, record, seen, capture>>

SeenThreads(a, state) == {t \in Thread : seen[a].threads[t].state = state}

(* The commands.  Including changes compares the jj operation before it    *)
(* enters the queue, and passes on the snapshot it extends.                *)
Ask(u) ==
    /\ phase[u] = "looking"
    /\ \/ \E kind \in {"start", "refresh", "archive"} : Enqueue(u, kind, None, {})
       \/ /\ seen[u].review # None
          /\ seen[u].operation = Len(log)
          /\ seen[u].size < MaxSize
          /\ Enqueue(u, "include", seen[u].review, {})
       \/ \E r \in Review :
             /\ record[r].state = "archived"
             /\ \/ Enqueue(u, "delete", r, {})
                \/ Enqueue(u, IF seen[u].review = None THEN "restore" ELSE "replace", r, {})
       \/ /\ seen[u].review # None
          /\ \E t \in Thread : seen[u].threads[t] = NoThread /\ Enqueue(u, "create", seen[u].review, {t})
       \/ \E t \in SeenThreads(u, "open"), kind \in {"reply", "edit", "remove", "resolve"} :
             Enqueue(u, kind, seen[u].review, {t})
       \/ \E t \in SeenThreads(u, "resolved"), kind \in {"edit", "remove", "reopen"} :
             Enqueue(u, kind, seen[u].review, {t})

(* requireBoundActiveReview, then the call to the comment service.         *)
Bound(g) ==
    /\ seen[g].review \in Active
    /\ seen[g].snapshot = Current(seen[g].review)

CallTool(g) ==
    /\ phase[g] = "idle"
    /\ Bound(g)
    /\ \/ \E t \in Thread : Enqueue(g, "reply", seen[g].review, {t})
       \/ \E batch \in SUBSET Thread \ {{}} : Enqueue(g, "close", seen[g].review, batch)

-----------------------------------------------------------------------------
(* The operation at the head of the queue.                                 *)

Running(a, kind) ==
    /\ queue # <<>>
    /\ Head(queue) = a
    /\ phase[a] = "queued"
    /\ request[a].kind = kind

Done(a) ==
    /\ queue' = Tail(queue)
    /\ phase' = [phase EXCEPT ![a] = "idle"]
    /\ request' = [request EXCEPT ![a] = NoRequest]
    /\ seen' = IF a \in User THEN [seen EXCEPT ![a] = Blind] ELSE seen
    /\ capture' = NoCapture
    /\ UNCHANGED log

(* The operation is refused, cancelled, or fails before the store commits. *)
Failing(a) ==
    /\ queue # <<>>
    /\ Head(queue) = a
    /\ phase[a] \in {"queued", "capturing"}

(* A mutation: the next one in line is only let in after a success.        *)
Fail_KeepsQueue(a) ==
    /\ Failing(a)
    /\ phase' = [phase EXCEPT ![a] = "idle"]
    /\ request' = [request EXCEPT ![a] = NoRequest]
    /\ seen' = IF a \in User THEN [seen EXCEPT ![a] = Blind] ELSE seen
    /\ capture' = NoCapture
    /\ UNCHANGED <<log, clock, record, queue>>

Fail(a) ==
    /\ Failing(a)
    /\ Done(a)
    /\ UNCHANGED <<clock, record>>

Timestamp ==
    /\ clock < MaxClock
    /\ clock' \in IF StrictClock THEN {clock + 1} ELSE {clock, clock + 1}

(* Starting, refreshing and extending a review take long between reading   *)
(* the record and the commit: the capture reads the repository as it was   *)
(* at one jj operation.                                                    *)
Prepare(a, r, operation, size) ==
    /\ Timestamp
    /\ capture' = [review |-> r, operation |-> operation, content |-> log[operation],
                   size |-> size, time |-> clock']
    /\ phase' = [phase EXCEPT ![a] = "capturing"]
    /\ UNCHANGED <<log, record, queue, seen, request>>

(* Mutation: an active review is not noticed.                              *)
StartAllowed_Always(a) == TRUE

(* The active review is none, or the one the user agreed to archive.       *)
StartAllowed(a) == Active \subseteq {seen[a].review}

BeginStart(a) ==
    /\ Running(a, "start")
    /\ Len(log) = seen[a].operation
    /\ StartAllowed(a)
    /\ \E r \in Review, size \in 1 .. MaxSize :
          /\ record[r] = NoRecord
          /\ Prepare(a, r, Len(log), size)

BeginRefresh(a) ==
    /\ Running(a, "refresh")
    /\ \E r \in Active : Prepare(a, r, Len(log), CurrentSnapshot(r).size)

(* A mutation: the expected snapshot is not passed on; here to the store,  *)
(* below by the session that includes new changes.                         *)
Expected_Ignored(a, r) == seen[a].size = CurrentSnapshot(r).size

(* expectedCurrentSnapshotId, and the old changes as a prefix of the new.  *)
Expected(a, r) == seen[a].review = r /\ seen[a].snapshot = Current(r)

BeginInclude_Unexpected(a) ==
    /\ Running(a, "include")
    /\ \E r \in Active :
          /\ seen[a].size = CurrentSnapshot(r).size
          /\ Prepare(a, r, seen[a].operation, seen[a].size + 1)

BeginInclude(a) ==
    /\ Running(a, "include")
    /\ \E r \in Active :
          /\ Expected(a, r)
          /\ Prepare(a, r, seen[a].operation, seen[a].size + 1)

Capturing(a, kind) ==
    /\ phase[a] = "capturing"
    /\ request[a].kind = kind

Captured == [operation |-> capture.operation, content |-> capture.content,
             size |-> capture.size]

CommitStart(a) ==
    /\ Capturing(a, "start")
    /\ record' = [r \in Review |->
                    IF r = capture.review
                    THEN [NoRecord EXCEPT !.state = "active", !.snapshots = <<Captured>>]
                    ELSE IF r \in Active /\ seen[a].review # None
                    THEN [record[r] EXCEPT !.state = "archived"]
                    ELSE record[r]]
    /\ Done(a)
    /\ UNCHANGED clock

(* projectFileComments and projectCommentThreads: a thread is shown at one *)
(* place of the new snapshot, or it is outdated.                           *)
Projected(threads, next, found) ==
    [t \in Thread |->
        IF threads[t].state = "none" THEN threads[t]
        ELSE [threads[t] EXCEPT !.shown = IF t \in found THEN next ELSE 0,
                                !.revision = @ + 1,
                                !.updatedAt = capture.time]]

SameCapture == /\ Captured.content = CurrentSnapshot(capture.review).content
               /\ Captured.size = CurrentSnapshot(capture.review).size

CommitCapture(a) ==
    /\ Capturing(a, "refresh") \/ Capturing(a, "include")
    /\ ~SameCapture
    /\ LET r == capture.review
       IN  \E found \in SUBSET Thread :
              record' = [record EXCEPT
                           ![r].snapshots = Append(@, Captured),
                           ![r].threads = Projected(@, Current(r) + 1, found)]
    /\ Done(a)
    /\ UNCHANGED clock

KeepSnapshot(a) ==
    /\ Capturing(a, "refresh")
    /\ SameCapture
    /\ Done(a)
    /\ UNCHANGED <<clock, record>>

Archive(a) ==
    /\ Running(a, "archive")
    /\ \E r \in Active : record' = [record EXCEPT ![r].state = "archived"]
    /\ Done(a)
    /\ UNCHANGED clock

Restore(a) ==
    /\ Running(a, "restore")
    /\ Active = {}
    /\ record[request[a].review].state = "archived"
    /\ record' = [record EXCEPT ![request[a].review].state = "active"]
    /\ Done(a)
    /\ UNCHANGED clock

(* archiveActiveAndRestoreReview.                                          *)
Replace(a) ==
    /\ Running(a, "replace")
    /\ record[request[a].review].state = "archived"
    /\ \A r \in Active : Expected(a, r)
    /\ record' = [r \in Review |->
                    IF r = request[a].review THEN [record[r] EXCEPT !.state = "active"]
                    ELSE IF r \in Active THEN [record[r] EXCEPT !.state = "archived"]
                    ELSE record[r]]
    /\ Done(a)
    /\ UNCHANGED clock

Delete(a) ==
    /\ Running(a, "delete")
    /\ record[request[a].review].state = "archived"
    /\ record' = [record EXCEPT ![request[a].review].state = "deleted"]
    /\ Done(a)
    /\ UNCHANGED clock

-----------------------------------------------------------------------------
(* Comments.  commit runs every change inside updateReview, on the stored  *)
(* record, which has to be active.                                         *)

(* Mutations: archived reviews can be written; the active review is        *)
(* written whichever was asked for.                                        *)
Writable_Archived(a) == {request[a].review} \ {r \in Review : record[r].state = "deleted"}
Writable_Active(a) == Active

Writable(a) == {request[a].review} \cap Active

(* Mutation: the thread may have changed.                                  *)
Unchanged_Always(a, thread, t) == TRUE

(* assertExpectedThread compares timestamps; agents do not pass any.       *)
Unchanged(a, thread, t) ==
    a \in User => thread.updatedAt = seen[a].threads[t].updatedAt

Author(a) == IF a \in User THEN "user" ELSE "agent"

(* A text is named by the revision of the thread that wrote it.            *)
WithMessage(thread, author) ==
    [thread EXCEPT !.messages = @ \cup {[id |-> thread.revision + 1, author |-> author,
                                         body |-> thread.revision + 1]}]

Touched(thread) == [thread EXCEPT !.revision = @ + 1, !.updatedAt = clock']

Write(a, r, t, thread) ==
    /\ record' = [record EXCEPT ![r].threads[t] = Touched(thread)]
    /\ Done(a)

(* Mutation: any snapshot the client names will do.                        *)
CreateAllowed_AnySnapshot(a, r) == TRUE

CreateAllowed(a, r) == Expected(a, r)

CreateThread(a) ==
    /\ Running(a, "create")
    /\ Timestamp
    /\ \E r \in Writable(a), t \in request[a].threads :
          /\ record[r].threads[t] = NoThread
          /\ CreateAllowed(a, r)
          /\ Write(a, r, t, WithMessage([NoThread EXCEPT !.state = "open",
                                                         !.anchor = seen[a].snapshot,
                                                         !.shown = seen[a].snapshot],
                                        "user"))

Reply(a) ==
    /\ Running(a, "reply")
    /\ Timestamp
    /\ \E r \in Writable(a), t \in request[a].threads :
          LET thread == record[r].threads[t]
          IN  /\ thread.state = "open"
              /\ Unchanged(a, thread, t)
              /\ Write(a, r, t, WithMessage(thread, Author(a)))

(* Editing and deleting refuse a message of the agent.                     *)
OwnMessages(thread) == {m \in thread.messages : m.author = "user"}

Edited(thread, m) ==
    [thread EXCEPT !.messages = (@ \ {m}) \cup {[m EXCEPT !.body = thread.revision + 1]}]

(* A mutation: editing does not look at the author.                        *)
EditMessage_Anyones(a) ==
    /\ Running(a, "edit")
    /\ Timestamp
    /\ \E r \in Writable(a), t \in request[a].threads :
          LET thread == record[r].threads[t]
          IN  /\ Unchanged(a, thread, t)
              /\ \E m \in thread.messages : Write(a, r, t, Edited(thread, m))

EditMessage(a) ==
    /\ Running(a, "edit")
    /\ Timestamp
    /\ \E r \in Writable(a), t \in request[a].threads :
          LET thread == record[r].threads[t]
          IN  /\ Unchanged(a, thread, t)
              /\ \E m \in OwnMessages(thread) : Write(a, r, t, Edited(thread, m))

(* A thread goes with its last message.                                    *)
DeleteMessage(a) ==
    /\ Running(a, "remove")
    /\ Timestamp
    /\ \E r \in Writable(a), t \in request[a].threads :
          LET thread == record[r].threads[t]
          IN  /\ Unchanged(a, thread, t)
              /\ \E m \in OwnMessages(thread) :
                    Write(a, r, t, IF thread.messages = {m}
                                   THEN [NoThread EXCEPT !.revision = thread.revision]
                                   ELSE [thread EXCEPT !.messages = @ \ {m}])

ChangeState(a) ==
    /\ Timestamp
    /\ \E r \in Writable(a), t \in request[a].threads :
          LET thread == record[r].threads[t]
          IN  /\ Unchanged(a, thread, t)
              /\ \/ /\ Running(a, "resolve")
                    /\ thread.state = "open"
                    /\ Write(a, r, t, [thread EXCEPT !.state = "resolved"])
                 \/ /\ Running(a, "reopen")
                    /\ thread.state = "resolved"
                    /\ Write(a, r, t, [thread EXCEPT !.state = "open"])

(* resolveBatchAsAgent: all the threads, some with a note, or none.        *)
CloseComments(a) ==
    /\ Running(a, "close")
    /\ Timestamp
    /\ \E r \in Writable(a), noted \in SUBSET request[a].threads :
          /\ \A t \in request[a].threads : record[r].threads[t].state = "open"
          /\ record' = [record EXCEPT ![r].threads =
                [t \in Thread |->
                    IF t \notin request[a].threads THEN @[t]
                    ELSE LET closed == [@[t] EXCEPT !.state = "resolved"]
                         IN  Touched(IF t \in noted THEN WithMessage(closed, "agent")
                                     ELSE closed)]]
    /\ Done(a)

-----------------------------------------------------------------------------
Execute(a) ==
    \/ Fail(a)
    \/ BeginStart(a) \/ BeginRefresh(a) \/ BeginInclude(a)
    \/ CommitStart(a) \/ CommitCapture(a) \/ KeepSnapshot(a)
    \/ Archive(a) \/ Restore(a) \/ Replace(a) \/ Delete(a)
    \/ CreateThread(a) \/ Reply(a) \/ EditMessage(a) \/ DeleteMessage(a)
    \/ ChangeState(a) \/ CloseComments(a)

Next ==
    \/ JjOperation
    \/ \E u \in User : Look(u) \/ Ask(u)
    \/ \E g \in Agent : Connect(g) \/ CallTool(g)
    \/ \E a \in Actor : Execute(a)

Spec == Init /\ [][Next]_vars

(* The event loop finishes the operation at the head of the queue, with a  *)
(* result or an error; nobody has to ask for anything.                     *)
FairSpec == Spec /\ \A a \in Actor : WF_vars(Execute(a))

-----------------------------------------------------------------------------
Threads == [state : {"none", "open", "resolved"}, anchor : Nat, shown : Nat,
            messages : SUBSET [id : Nat, author : {"user", "agent"}, body : Nat],
            revision : Nat, updatedAt : Nat]

TypeOK ==
    /\ Len(log) \in 1 .. MaxOperation
    /\ clock \in 0 .. MaxClock
    /\ \A r \in Review :
          /\ record[r].state \in {"absent", "active", "archived", "deleted"}
          /\ (record[r].state = "absent") <=> (record[r].snapshots = <<>>)
          /\ \A t \in Thread :
                LET thread == record[r].threads[t]
                IN  /\ thread.state \in {"none", "open", "resolved"}
                    /\ thread.state = "none" <=> thread.messages = {}
                    /\ thread.anchor \in 0 .. Current(r)
    /\ \A a \in Actor : phase[a] \in {"idle", "looking", "queued", "capturing"}
    /\ \A i, j \in 1 .. Len(queue) : queue[i] = queue[j] => i = j
    /\ \A a \in Actor :
          (\E i \in 1 .. Len(queue) : queue[i] = a) <=> phase[a] \in {"queued", "capturing"}

(* However starts, restores and replacements of several users interleave   *)
(* with what each of them saw, at most one review is active.               *)
OneActiveReview == Cardinality(Active) <= 1

(* A thread that is shown inline is shown in the current snapshot, though  *)
(* it was written on a snapshot that may have been refreshed meanwhile.    *)
ShownInCurrentSnapshot ==
    \A r \in Review, t \in Thread :
        record[r].threads[t].shown \in {0, Current(r)}

(* A later snapshot of a review never shows an earlier state of the        *)
(* repository nor fewer changes, although a selection is made at one jj    *)
(* operation, checked at another time and committed later still.           *)
SnapshotsMoveForward ==
    \A r \in Review : \A i, j \in 1 .. Current(r) :
        i < j => /\ record[r].snapshots[i].operation <= record[r].snapshots[j].operation
                 /\ record[r].snapshots[i].size <= record[r].snapshots[j].size

(* Nothing writes an archived review: it is restored as it was, or goes.   *)
ArchivedIsReadOnly ==
    [][\A r \in Review :
          record[r].state = "archived" =>
              /\ record'[r].snapshots = record[r].snapshots
              /\ record'[r].threads = record[r].threads]_vars

(* "Agent replies are immutable" (README.md:134): what an agent wrote      *)
(* stays, with the text it wrote, as long as the review, while users edit  *)
(* and delete the messages around it.                                      *)
AgentMessagesStay ==
    [][\A r \in Review, t \in Thread : \A m \in record[r].threads[t].messages :
          m.author = "agent" => m \in record'[r].threads[t].messages]_vars

(* A review is archived to make room for another one only if the user who  *)
(* asked for it was shown that review.                                     *)
ArchivesWhatWasConfirmed ==
    [][\A r \in Review, a \in Actor :
          /\ record[r].state = "active" /\ record'[r].state = "archived"
          /\ Head(queue) = a /\ request[a].kind # "archive"
          => seen[a].review = r]_vars

(* A user never changes a thread that changed since he saw it: nobody's    *)
(* edit, reply or resolution is overwritten or answered unseen.            *)
NoStaleWrite ==
    [][\A r \in Review, t \in Thread, u \in User :
          /\ queue # <<>> /\ Head(queue) = u /\ request[u].threads = {t}
          /\ record'[r].threads[t] # record[r].threads[t]
          => record[r].threads[t].revision = seen[u].threads[t].revision]_vars

(* What an agent writes goes to the review it is bound to.                 *)
AgentWritesBoundReview ==
    [][\A r \in Review, g \in Agent :
          /\ queue # <<>> /\ Head(queue) = g
          /\ record'[r] # record[r]
          => r = seen[g].review /\ record[r].state = "active"]_vars

(* ... and it is written on the snapshot the session is bound to: "The     *)
(* active review changed after this session connected. Call                *)
(* connect_workspace again." (tools.ts:238) is checked before the queue.   *)
AgentWritesBoundSnapshot ==
    [][\A r \in Review, g \in Agent :
          /\ queue # <<>> /\ Head(queue) = g
          /\ record'[r] # record[r]
          => seen[g].snapshot = Current(r)]_vars

(* Every operation that was asked for ends, whatever became of the others. *)
EveryRequestEnds ==
    \A a \in Actor : phase[a] = "queued" ~> phase[a] = "idle"
=============================================================================
