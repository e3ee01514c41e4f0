------------------------ MODULE ReviewServiceProofs -------------------------
(***************************************************************************)
(* Proofs about ReviewService, for any reviews, threads, users and agents, *)
(* any workload and any number of jj operations.                           *)
(***************************************************************************)
EXTENDS ReviewService, TLAPS, FiniteSetTheorems

Snapshots == [operation : Nat, content : Nat, size : Nat]

Records == [state : {"absent", "active", "archived", "deleted"}, snapshots : Seq(Snapshots),
            threads : [Thread -> Threads]]

Pictures == [review : Review \cup {None}, snapshot : Nat, size : Nat, operation : Nat,
             threads : [Thread -> Threads]]

Requests == [kind : Kinds \cup {"none"}, review : Review \cup {None}, threads : SUBSET Thread]

Captures == [review : Review \cup {None}, operation : Nat, content : Nat, size : Nat,
             time : Nat]

ServiceTypeOK ==
    /\ log \in Seq(Nat) /\ log # <<>>
    /\ clock \in Nat
    /\ record \in [Review -> Records]
    /\ queue \in Seq(Actor)
    /\ phase \in [Actor -> {"idle", "looking", "queued", "capturing"}]
    /\ seen \in [Actor -> Pictures]
    /\ request \in [Actor -> Requests]
    /\ capture \in Captures

-----------------------------------------------------------------------------
(* Who captures holds the queue.                                           *)
CapturesAtHead ==
    \A a \in Actor : phase[a] = "capturing" => queue # <<>> /\ Head(queue) = a

(* A request is one of those its actor can make, and rests on what he saw. *)
RequestsAreProper ==
    /\ \A a \in Actor : phase[a] \in {"idle", "looking"} => request[a] = NoRequest
    /\ \A a \in Actor : request[a].kind \in {"restore", "replace", "delete"} =>
          request[a].review \in Review
    /\ \A u \in User :
          /\ request[u].kind # "close"
          /\ request[u].kind \in {"start", "refresh", "archive", "include", "restore",
                                  "replace", "delete"} => request[u].threads = {}
          /\ request[u].kind \in {"create", "reply", "edit", "remove", "resolve", "reopen"}
                => request[u].review = seen[u].review
          /\ request[u].kind = "create" =>
                \A t \in request[u].threads : seen[u].threads[t] = NoThread
    /\ \A g \in Agent :
          /\ request[g].kind \in {"none", "reply", "close"}
          /\ request[g].kind # "none" => request[g].review = seen[g].review

(* A review is absent or has snapshots, of the past, in order.             *)
SnapshotsInOrder ==
    \A r \in Review :
        /\ record[r].state = "absent" => record[r] = NoRecord
        /\ record[r].state # "absent" => record[r].snapshots # <<>>
        /\ \A i \in 1 .. Current(r) : record[r].snapshots[i].operation <= Len(log)
        /\ \A i, j \in 1 .. Current(r) :
              i < j => /\ record[r].snapshots[i].operation <= record[r].snapshots[j].operation
                       /\ record[r].snapshots[i].size <= record[r].snapshots[j].size

(* What a user saw of a review was so, at the jj operation he saw it at.   *)
PicturesWereTrue ==
    \A u \in User :
        LET p == seen[u] IN
        p.review # None =>
            /\ p.operation \in 1 .. Len(log)
            /\ p.snapshot \in 1 .. Current(p.review)
            /\ record[p.review].snapshots[p.snapshot].size = p.size
            /\ record[p.review].snapshots[p.snapshot].operation <= p.operation

AtMostOne == \A r, s \in Active : r = s

ThreadsAreShown ==
    \A r \in Review, t \in Thread :
        /\ record[r].threads[t].shown \in {0, Current(r)}
        /\ record[r].threads[t].state = "none" => record[r].threads[t].shown = 0

(* What a capture was begun for is still so when it is committed.          *)
CapturesStayValid ==
    \A a \in Actor : phase[a] = "capturing" =>
        /\ capture.review \in Review
        /\ capture.operation \in 1 .. Len(log)
        /\ request[a].kind \in {"start", "refresh", "include"}
        /\ request[a].kind = "start" => /\ record[capture.review] = NoRecord
                                        /\ Active \subseteq {seen[a].review}
        /\ request[a].kind # "start" =>
              /\ capture.review \in Active
              /\ CurrentSnapshot(capture.review).operation <= capture.operation
              /\ CurrentSnapshot(capture.review).size <= capture.size

ServiceInv ==
    /\ ServiceTypeOK /\ CapturesAtHead /\ RequestsAreProper /\ SnapshotsInOrder
    /\ PicturesWereTrue /\ AtMostOne /\ ThreadsAreShown /\ CapturesStayValid

-----------------------------------------------------------------------------
(* The steps, by what they do to the records.                              *)

(* Messages of the agent stay, and whoever is a user wrote on the thread   *)
(* he saw, or made it.                                                     *)
ThreadWritten(a, r, t) ==
    LET old == record[r].threads[t]
        new == record'[r].threads[t]
    IN  /\ t \in request[a].threads
        /\ new \in Threads
        /\ new.updatedAt = clock'
        /\ new.shown \in {0, old.shown, Current(r)}
        /\ new.state = "none" => new.shown = 0
        /\ \A m \in old.messages : m.author = "agent" => m \in new.messages
        /\ a \in User => \/ old.updatedAt = seen[a].threads[t].updatedAt
                         \/ old = NoThread /\ request[a].kind = "create"

CommentWritten(a) ==
    /\ Timestamp
    /\ Done(a)
    /\ queue # <<>> /\ Head(queue) = a /\ phase[a] = "queued"
    /\ request[a].kind \in {"create", "reply", "edit", "remove", "resolve", "reopen", "close"}
    /\ \E r \in Writable(a) :
          /\ record' \in [Review -> Records]
          /\ \A q \in Review \ {r} : record'[q] = record[q]
          /\ record'[r].state = record[r].state
          /\ record'[r].snapshots = record[r].snapshots
          /\ \A t \in Thread : \/ record'[r].threads[t] = record[r].threads[t]
                               \/ ThreadWritten(a, r, t)

Commenting(a) ==
    \/ CreateThread(a) \/ Reply(a) \/ EditMessage(a) \/ DeleteMessage(a)
    \/ ChangeState(a) \/ CloseComments(a)

(* Only the states change: of the active reviews and of the one asked for. *)
StateChanged(a) ==
    /\ Done(a)
    /\ queue # <<>> /\ Head(queue) = a /\ phase[a] = "queued"
    /\ UNCHANGED clock
    /\ record' \in [Review -> Records]
    /\ \A r \in Review : /\ record'[r].snapshots = record[r].snapshots
                         /\ record'[r].threads = record[r].threads
                         /\ record'[r].state = record[r].state
                               \/ {record[r].state, record'[r].state}
                                     \subseteq {"active", "archived", "deleted"}
    /\ \A r, s \in Review :
          record'[r].state = "active" /\ record'[s].state = "active" => r = s
    /\ \A r \in Active : record'[r].state = "archived" =>
          request[a].kind = "archive" \/ seen[a].review = r
    /\ a \in User /\ request[a].kind \in {"archive", "restore", "replace", "delete"}

Reviewing(a) == Archive(a) \/ Restore(a) \/ Replace(a) \/ Delete(a)

Beginning(a) == BeginStart(a) \/ BeginRefresh(a) \/ BeginInclude(a)

-----------------------------------------------------------------------------
LEMMA TouchedType ==
  ASSUME NEW thread \in Threads, clock' \in Nat
  PROVE  /\ Touched(thread) \in Threads
         /\ Touched(thread).updatedAt = clock'
         /\ Touched(thread).shown = thread.shown
         /\ Touched(thread).state = thread.state
         /\ Touched(thread).messages = thread.messages
         /\ Touched(thread).revision = thread.revision + 1
<1>1. thread.revision + 1 \in Nat
  BY DEF Threads
<1>2. \A n, m \in Nat : /\ [thread EXCEPT !.revision = n, !.updatedAt = m] \in Threads
                        /\ [thread EXCEPT !.revision = n, !.updatedAt = m].updatedAt = m
                        /\ [thread EXCEPT !.revision = n, !.updatedAt = m].revision = n
  BY DEF Threads
<1> QED
  BY <1>1, <1>2 DEF Touched, Threads

LEMMA WithMessageType ==
  ASSUME NEW thread \in Threads, NEW author \in {"user", "agent"}
  PROVE  /\ WithMessage(thread, author) \in Threads
         /\ WithMessage(thread, author).shown = thread.shown
         /\ WithMessage(thread, author).state = thread.state
         /\ thread.messages \subseteq WithMessage(thread, author).messages
  BY DEF Threads, WithMessage

LEMMA NoThreadType == NoThread \in Threads
  BY DEF NoThread, Threads

LEMMA TimestampType ==
  ASSUME ServiceTypeOK, Timestamp
  PROVE  clock' \in Nat /\ clock <= clock'
  BY ServiceAssumption DEF ServiceTypeOK, Timestamp

(* A comment written on one thread.                                        *)
LEMMA OneThreadWritten ==
  ASSUME ServiceTypeOK, Timestamp, NEW a \in Actor, NEW r \in Writable(a),
         NEW t \in request[a].threads, NEW thread \in Threads, Write(a, r, t, thread),
         queue # <<>>, Head(queue) = a, phase[a] = "queued",
         request[a].kind \in {"create", "reply", "edit", "remove", "resolve", "reopen"},
         thread.shown \in {0, record[r].threads[t].shown, Current(r)},
         thread.state = "none" => thread.shown = 0,
         \A m \in record[r].threads[t].messages : m.author = "agent" => m \in thread.messages,
         a \in User => \/ record[r].threads[t].updatedAt = seen[a].threads[t].updatedAt
                       \/ record[r].threads[t] = NoThread /\ request[a].kind = "create"
  PROVE  CommentWritten(a)
<1>1. r \in Review /\ t \in Thread /\ record[r] \in Records
  BY DEF Writable, Active, ServiceTypeOK, Requests
<1>2. Touched(thread) \in Threads /\ Touched(thread).updatedAt = clock'
      /\ Touched(thread).shown = thread.shown /\ Touched(thread).state = thread.state
      /\ Touched(thread).messages = thread.messages
  BY TouchedType, TimestampType
<1> DEFINE threads == [record[r].threads EXCEPT ![t] = Touched(thread)]
<1>3. record' = [record EXCEPT ![r].threads = threads]
  BY DEF Write
<1>4. /\ record'[r] = [record[r] EXCEPT !.threads = threads]
      /\ \A q \in Review \ {r} : record'[q] = record[q]
      /\ record' \in [Review -> Records]
  <2>1. [record[r] EXCEPT !.threads = threads] \in Records
    BY <1>1, <1>2 DEF Records
  <2> QED
    BY <1>1, <1>3, <2>1 DEF ServiceTypeOK
<1>5. /\ record'[r].state = record[r].state /\ record'[r].snapshots = record[r].snapshots
      /\ record'[r].threads = threads
  BY <1>1, <1>4 DEF Records
<1>6. /\ record'[r].threads[t] = Touched(thread)
      /\ \A s \in Thread \ {t} : record'[r].threads[s] = record[r].threads[s]
  BY <1>1, <1>5 DEF Records
<1>7. ThreadWritten(a, r, t)
  BY <1>2, <1>6 DEF ThreadWritten
<1> QED
  BY <1>4, <1>5, <1>6, <1>7 DEF CommentWritten, Write

LEMMA CommentsAreWritten ==
  ASSUME ServiceTypeOK, RequestsAreProper, ThreadsAreShown, NEW a \in Actor, Commenting(a)
  PROVE  CommentWritten(a)
<1> DEFINE Old(r, t) == record[r].threads[t]
<1>1. \A r \in Writable(a), t \in request[a].threads :
         Old(r, t) \in Threads /\ r \in Review /\ t \in Thread
  BY DEF Writable, Active, ServiceTypeOK, Requests, Records
<1>2. \A r, t : Unchanged(a, Old(r, t), t) /\ a \in User =>
         Old(r, t).updatedAt = seen[a].threads[t].updatedAt
  BY DEF Unchanged
<1>4. CASE CreateThread(a)
  <2>1. PICK r \in Writable(a), t \in request[a].threads :
           /\ record[r].threads[t] = NoThread
           /\ CreateAllowed(a, r)
           /\ Write(a, r, t, WithMessage([NoThread EXCEPT !.state = "open",
                                                          !.anchor = seen[a].snapshot,
                                                          !.shown = seen[a].snapshot],
                                         "user"))
    BY <1>4 DEF CreateThread
  <2> DEFINE opened == [NoThread EXCEPT !.state = "open", !.anchor = seen[a].snapshot,
                                        !.shown = seen[a].snapshot]
  <2>2. opened \in Threads /\ opened.shown = Current(r) /\ opened.state = "open"
    BY <2>1, NoThreadType DEF ServiceTypeOK, Pictures, CreateAllowed, Expected, NoThread, Threads
  <2>3. /\ WithMessage(opened, "user") \in Threads
        /\ WithMessage(opened, "user").shown = Current(r)
        /\ WithMessage(opened, "user").state = "open"
    BY <2>2, WithMessageType
  <2>4. record[r].threads[t].messages = {}
    BY <2>1 DEF NoThread
  <2> QED
    BY <1>4, <2>1, <2>3, <2>4, OneThreadWritten DEF CreateThread, Running
<1>5. CASE Reply(a)
  <2>1. PICK r \in Writable(a), t \in request[a].threads :
           /\ Old(r, t).state = "open" /\ Unchanged(a, Old(r, t), t)
           /\ Write(a, r, t, WithMessage(Old(r, t), Author(a)))
    BY <1>5 DEF Reply
  <2>2. /\ WithMessage(Old(r, t), Author(a)) \in Threads
        /\ WithMessage(Old(r, t), Author(a)).shown = Old(r, t).shown
        /\ WithMessage(Old(r, t), Author(a)).state = "open"
        /\ Old(r, t).messages \subseteq WithMessage(Old(r, t), Author(a)).messages
    BY <1>1, <2>1, WithMessageType DEF Author
  <2> QED
    BY <1>2, <1>5, <2>1, <2>2, OneThreadWritten DEF Reply, Running
<1>6. CASE EditMessage(a)
  <2>1. PICK r \in Writable(a), t \in request[a].threads :
           /\ Unchanged(a, Old(r, t), t)
           /\ \E m \in OwnMessages(Old(r, t)) : Write(a, r, t, Edited(Old(r, t), m))
    BY <1>6 DEF EditMessage
  <2>2. PICK m \in OwnMessages(Old(r, t)) : Write(a, r, t, Edited(Old(r, t), m))
    BY <2>1
  <2> DEFINE new == Edited(Old(r, t), m)
             text == [m EXCEPT !.body = Old(r, t).revision + 1]
  <2>3. /\ m \in [id : Nat, author : {"user", "agent"}, body : Nat]
        /\ m \in Old(r, t).messages /\ m.author = "user" /\ Old(r, t).revision + 1 \in Nat
    BY <1>1 DEF OwnMessages, Threads
  <2>4. text \in [id : Nat, author : {"user", "agent"}, body : Nat]
    BY <2>3
  <2> HIDE DEF text
  <2>5. /\ new \in Threads /\ new.shown = Old(r, t).shown /\ new.state = Old(r, t).state
        /\ new.messages = (Old(r, t).messages \ {m}) \cup {text}
    BY <1>1, <2>4 DEF Edited, Threads, text
  <2>6. Old(r, t).state = "none" => Old(r, t).shown = 0
    BY <1>1, <2>1 DEF ThreadsAreShown
  <2> HIDE DEF new
  <2>7. \A n \in Old(r, t).messages : n.author = "agent" => n \in new.messages
    BY <2>3, <2>5
  <2>8. Write(a, r, t, new)
    BY <2>2 DEF new
  <2> QED
    BY <1>1, <1>2, <1>6, <2>1, <2>5, <2>6, <2>7, <2>8, OneThreadWritten DEF EditMessage, Running
<1>7. CASE DeleteMessage(a)
  <2>1. PICK r \in Writable(a), t \in request[a].threads :
           /\ Unchanged(a, Old(r, t), t)
           /\ \E m \in OwnMessages(Old(r, t)) :
                 Write(a, r, t, IF Old(r, t).messages = {m}
                                THEN [NoThread EXCEPT !.revision = Old(r, t).revision]
                                ELSE [Old(r, t) EXCEPT !.messages = @ \ {m}])
    BY <1>7 DEF DeleteMessage
  <2>2. PICK m \in OwnMessages(Old(r, t)) :
           Write(a, r, t, IF Old(r, t).messages = {m}
                          THEN [NoThread EXCEPT !.revision = Old(r, t).revision]
                          ELSE [Old(r, t) EXCEPT !.messages = @ \ {m}])
    BY <2>1
  <2>3. m \in Old(r, t).messages /\ m.author = "user"
    BY DEF OwnMessages
  <2>4. Old(r, t).state = "none" => Old(r, t).shown = 0
    BY <1>1, <2>1 DEF ThreadsAreShown
  <2>5. CASE Old(r, t).messages = {m}
    <3> DEFINE gone == [NoThread EXCEPT !.revision = Old(r, t).revision]
    <3>1. gone \in Threads /\ gone.shown = 0
      BY <1>1 DEF NoThread, Threads
    <3>2. Write(a, r, t, gone)
      BY <2>2, <2>5
    <3>3. \A n \in Old(r, t).messages : n.author # "agent"
      BY <2>3, <2>5
    <3> HIDE DEF gone
    <3> QED
      BY <1>2, <1>7, <2>1, <3>1, <3>2, <3>3, OneThreadWritten DEF DeleteMessage, Running
  <2>6. CASE Old(r, t).messages # {m}
    <3> DEFINE rest == [Old(r, t) EXCEPT !.messages = @ \ {m}]
    <3>1. /\ rest \in Threads /\ rest.shown = Old(r, t).shown /\ rest.state = Old(r, t).state
          /\ rest.messages = Old(r, t).messages \ {m}
      BY <1>1 DEF Threads
    <3>2. Write(a, r, t, rest)
      BY <2>2, <2>6
    <3>3. \A n \in Old(r, t).messages : n.author = "agent" => n \in rest.messages
      BY <2>3, <3>1
    <3> HIDE DEF rest
    <3> QED
      BY <1>2, <1>7, <2>1, <2>4, <3>1, <3>2, <3>3, OneThreadWritten
      DEF DeleteMessage, Running
  <2> QED
    BY <2>5, <2>6
<1>8. CASE ChangeState(a)
  <2>1. PICK r \in Writable(a), t \in request[a].threads, state \in {"open", "resolved"} :
           /\ Unchanged(a, Old(r, t), t)
           /\ Write(a, r, t, [Old(r, t) EXCEPT !.state = state])
           /\ \E kind \in {"resolve", "reopen"} : Running(a, kind)
    BY <1>8 DEF ChangeState
  <2> DEFINE new == [Old(r, t) EXCEPT !.state = state]
  <2>2. /\ new \in Threads /\ new.shown = Old(r, t).shown /\ new.state = state
        /\ new.messages = Old(r, t).messages
    BY <1>1 DEF Threads
  <2>3. Write(a, r, t, new)
    BY <2>1
  <2> HIDE DEF new
  <2> QED
    BY <1>2, <1>8, <2>1, <2>2, <2>3, OneThreadWritten DEF ChangeState, Running
<1>9. CASE CloseComments(a)
  <2> DEFINE Closed(thread) == [thread EXCEPT !.state = "resolved"]
             New(r, t, noted) ==
                IF t \notin request[a].threads THEN record[r].threads[t]
                ELSE Touched(IF t \in noted THEN WithMessage(Closed(record[r].threads[t]), "agent")
                             ELSE Closed(record[r].threads[t]))
  <2>1. PICK r \in Writable(a), noted \in SUBSET request[a].threads :
           record' = [record EXCEPT ![r].threads = [t \in Thread |-> New(r, t, noted)]]
    BY <1>9 DEF CloseComments
  <2>2. a \notin User
    BY <1>9 DEF CloseComments, Running, RequestsAreProper
  <2>3. ASSUME NEW t \in Thread
        PROVE  /\ New(r, t, noted) \in Threads
               /\ t \in request[a].threads =>
                     /\ New(r, t, noted).updatedAt = clock'
                     /\ New(r, t, noted).shown = record[r].threads[t].shown
                     /\ New(r, t, noted).state = "resolved"
                     /\ record[r].threads[t].messages \subseteq New(r, t, noted).messages
    <3>1. record[r].threads[t] \in Threads
      BY DEF Writable, Active, ServiceTypeOK, Records
    <3>2. /\ Closed(record[r].threads[t]) \in Threads
          /\ Closed(record[r].threads[t]).shown = record[r].threads[t].shown
          /\ Closed(record[r].threads[t]).state = "resolved"
          /\ Closed(record[r].threads[t]).messages = record[r].threads[t].messages
      BY <3>1 DEF Threads
    <3>3. LET noticed == WithMessage(Closed(record[r].threads[t]), "agent") IN
          /\ noticed \in Threads /\ noticed.shown = record[r].threads[t].shown
          /\ noticed.state = "resolved"
          /\ record[r].threads[t].messages \subseteq noticed.messages
      BY <3>2, WithMessageType
    <3>4. clock' \in Nat
      BY <1>9, TimestampType DEF CloseComments
    <3> QED
      BY <3>1, <3>2, <3>3, <3>4, TouchedType
  <2>4. r \in Review /\ record[r] \in Records
    BY DEF Writable, Active, ServiceTypeOK
  <2> DEFINE threads == [t \in Thread |-> New(r, t, noted)]
  <2>5. threads \in [Thread -> Threads]
    BY <2>3
  <2> HIDE DEF New
  <2>6. /\ record'[r] = [record[r] EXCEPT !.threads = threads]
        /\ \A q \in Review \ {r} : record'[q] = record[q]
        /\ record' \in [Review -> Records]
    <3>1. [record[r] EXCEPT !.threads = threads] \in Records
      BY <2>4, <2>5 DEF Records
    <3> QED
      BY <2>1, <2>4, <3>1 DEF ServiceTypeOK
  <2>7. /\ record'[r].state = record[r].state /\ record'[r].snapshots = record[r].snapshots
        /\ record'[r].threads = threads
    BY <2>4, <2>6 DEF Records
  <2>8. \A t \in Thread : record'[r].threads[t] = New(r, t, noted)
    BY <2>7
  <2>9. \A t \in Thread \ request[a].threads : New(r, t, noted) = record[r].threads[t]
    BY DEF New
  <2>10. \A t \in Thread \cap request[a].threads : ThreadWritten(a, r, t)
    BY <2>2, <2>3, <2>8 DEF ThreadWritten
  <2>11. \A t \in Thread : record'[r].threads[t] = record[r].threads[t] \/ ThreadWritten(a, r, t)
    BY <2>8, <2>9, <2>10
  <2>12. /\ Timestamp /\ Done(a) /\ queue # <<>> /\ Head(queue) = a /\ phase[a] = "queued"
         /\ request[a].kind = "close"
    BY <1>9 DEF CloseComments, Running
  <2> QED
    BY <2>6, <2>7, <2>11, <2>12 DEF CommentWritten
<1> QED
  BY <1>4, <1>5, <1>6, <1>7, <1>8, <1>9 DEF Commenting

-----------------------------------------------------------------------------
LEMMA StatesAreChanged ==
  ASSUME ServiceTypeOK, RequestsAreProper, AtMostOne, NEW a \in Actor, Reviewing(a)
  PROVE  StateChanged(a)
<1>1. a \in User /\ queue # <<>> /\ Head(queue) = a /\ phase[a] = "queued"
      /\ Done(a) /\ UNCHANGED clock
      /\ request[a].kind \in {"archive", "restore", "replace", "delete"}
  BY DEF Reviewing, Archive, Restore, Replace, Delete, Running, RequestsAreProper, Actor
<1> DEFINE To(r, state) == [record[r] EXCEPT !.state = state]
<1>2. \A r \in Review, state \in {"active", "archived", "deleted"} :
         /\ To(r, state) \in Records /\ To(r, state).state = state
         /\ To(r, state).snapshots = record[r].snapshots
         /\ To(r, state).threads = record[r].threads
  BY DEF ServiceTypeOK, Records
<1>3. record \in [Review -> Records]
      /\ \A r \in Review : record[r].state \in {"absent", "active", "archived", "deleted"}
  BY DEF ServiceTypeOK, Records
<1>4. CASE Archive(a)
  <2>1. PICK r \in Active : record' = [record EXCEPT ![r] = To(r, "archived")]
    BY <1>4 DEF Archive
  <2> HIDE DEF To
  <2> QED
    BY <1>1, <1>2, <1>3, <1>4, <2>1 DEF Archive, Running, AtMostOne, Active, StateChanged
<1>5. request[a].kind # "archive" => request[a].review \in Review
  BY <1>1 DEF RequestsAreProper
<1>6. CASE Restore(a)
  <2>1. record' = [record EXCEPT ![request[a].review] = To(request[a].review, "active")]
    BY <1>6 DEF Restore
  <2> HIDE DEF To
  <2> QED
    BY <1>1, <1>2, <1>3, <1>5, <1>6, <2>1 DEF Restore, Running, Active, StateChanged
<1>7. CASE Replace(a)
  <2>1. record' = [r \in Review |-> IF r = request[a].review THEN To(r, "active")
                                    ELSE IF r \in Active THEN To(r, "archived") ELSE record[r]]
    BY <1>7 DEF Replace
  <2> HIDE DEF To
  <2> QED
    BY <1>1, <1>2, <1>3, <1>5, <1>7, <2>1 DEF Replace, Running, Active, Expected, StateChanged
<1>8. CASE Delete(a)
  <2>1. record' = [record EXCEPT ![request[a].review] = To(request[a].review, "deleted")]
    BY <1>8 DEF Delete
  <2> HIDE DEF To
  <2> QED
    BY <1>1, <1>2, <1>3, <1>5, <1>8, <2>1 DEF Delete, Running, Active, AtMostOne, StateChanged
<1> QED
  BY <1>4, <1>6, <1>7, <1>8 DEF Reviewing

-----------------------------------------------------------------------------
(* What an operation leaves behind when it is done: nobody captures, and   *)
(* the actor can look again.                                               *)
LEMMA DoneKeeps ==
  ASSUME ServiceInv, NEW a \in Actor, Done(a), queue # <<>>, Head(queue) = a
  PROVE  /\ log' \in Seq(Nat) /\ log' # <<>>
         /\ queue' \in Seq(Actor)
         /\ phase' \in [Actor -> {"idle", "looking", "queued", "capturing"}]
         /\ seen' \in [Actor -> Pictures]
         /\ request' \in [Actor -> Requests]
         /\ capture' \in Captures
         /\ \A b \in Actor : phase'[b] # "capturing"
         /\ CapturesAtHead' /\ CapturesStayValid' /\ RequestsAreProper'
<1> USE DEF ServiceInv
<1>1. Blind \in Pictures /\ NoRequest \in Requests /\ NoCapture \in Captures
  BY NoThreadType DEF Blind, Pictures, NoRequest, Requests, NoCapture, Captures
<1>2. \A b \in Actor \ {a} : phase[b] # "capturing"
  BY DEF CapturesAtHead
<1>3. /\ queue' \in Seq(Actor)
      /\ phase' = [phase EXCEPT ![a] = "idle"]
      /\ request' = [request EXCEPT ![a] = NoRequest]
      /\ seen' = IF a \in User THEN [seen EXCEPT ![a] = Blind] ELSE seen
      /\ capture' = NoCapture /\ log' = log
  BY DEF Done, ServiceTypeOK
<1>4. \A b \in Actor : phase'[b] # "capturing"
  BY <1>2, <1>3 DEF ServiceTypeOK
<1>5. CapturesAtHead' /\ CapturesStayValid'
  BY <1>4 DEF CapturesAtHead, CapturesStayValid
<1>6. /\ request'[a] = NoRequest
      /\ \A b \in Actor \ {a} : request'[b] = request[b] /\ phase'[b] = phase[b]
                                /\ seen'[b] = seen[b]
      /\ a \in Agent => seen'[a] = seen[a]
  BY <1>3, ServiceAssumption DEF ServiceTypeOK
<1>7. RequestsAreProper'
  <2>1. /\ request'[a].kind = "none"
        /\ phase' \in [Actor -> {"idle", "looking", "queued", "capturing"}]
    BY <1>3, <1>6 DEF NoRequest, ServiceTypeOK
  <2>3. \A b \in Actor : b = a \/ (request'[b] = request[b] /\ seen'[b] = seen[b])
    BY <1>6
  <2> USE DEF RequestsAreProper
  <2>2. ASSUME NEW b \in Actor
        PROVE  /\ phase'[b] \in {"idle", "looking"} => request'[b] = NoRequest
               /\ request'[b].kind \in {"restore", "replace", "delete"} =>
                     request'[b].review \in Review
    BY <1>6, <2>1
  <2> QED
    BY <2>1, <2>2, <2>3 DEF Actor
<1> QED
  BY <1>1, <1>3, <1>4, <1>5, <1>7 DEF ServiceTypeOK

(* Snapshots are added to a review, never changed or taken away.           *)
SnapshotsKept ==
    \A r \in Review : \A i \in 1 .. Current(r) :
        /\ i \in 1 .. Len(record'[r].snapshots)
        /\ record'[r].snapshots[i] = record[r].snapshots[i]

LEMMA PicturesStayTrue ==
  ASSUME ServiceInv, NEW a \in Actor, Done(a), SnapshotsKept
  PROVE  PicturesWereTrue'
<1>1. \A u \in User : seen'[u] = seen[u] \/ seen'[u].review = None
  BY DEF Done, ServiceInv, ServiceTypeOK, Blind, Actor
<1>2. \A u \in User : seen[u].review \in Review \/ seen[u].review = None
  BY DEF ServiceInv, ServiceTypeOK, Pictures, Actor
<1>3. log' = log
  BY DEF Done
<1>4. ASSUME NEW u \in User, seen'[u].review # None
      PROVE  /\ seen'[u].operation \in 1 .. Len(log')
             /\ seen'[u].snapshot \in 1 .. Len(record'[seen'[u].review].snapshots)
             /\ record'[seen'[u].review].snapshots[seen'[u].snapshot].size = seen'[u].size
             /\ record'[seen'[u].review].snapshots[seen'[u].snapshot].operation
                   <= seen'[u].operation
  <2>1. seen'[u] = seen[u] /\ seen[u].review \in Review /\ seen[u].review # None
    BY <1>1, <1>2, <1>4
  <2>2. /\ seen[u].operation \in 1 .. Len(log)
        /\ seen[u].snapshot \in 1 .. Len(record[seen[u].review].snapshots)
        /\ record[seen[u].review].snapshots[seen[u].snapshot].size = seen[u].size
        /\ record[seen[u].review].snapshots[seen[u].snapshot].operation <= seen[u].operation
    BY <2>1 DEF ServiceInv, PicturesWereTrue, Current
  <2>3. LET i == seen[u].snapshot r == seen[u].review IN
        i \in 1 .. Len(record'[r].snapshots) /\ record'[r].snapshots[i] = record[r].snapshots[i]
    BY <2>1, <2>2 DEF SnapshotsKept, Current
  <2> QED
    BY <1>3, <2>1, <2>2, <2>3
<1> QED
  BY <1>4 DEF PicturesWereTrue, Current

LEMMA CommentStep ==
  ASSUME ServiceInv, NEW a \in Actor, Commenting(a)
  PROVE  ServiceInv'
<1>1. CommentWritten(a)
  BY CommentsAreWritten DEF ServiceInv
<1>2. PICK r \in Writable(a) :
         /\ record' \in [Review -> Records]
         /\ \A q \in Review \ {r} : record'[q] = record[q]
         /\ record'[r].state = record[r].state
         /\ record'[r].snapshots = record[r].snapshots
         /\ \A t \in Thread : \/ record'[r].threads[t] = record[r].threads[t]
                              \/ ThreadWritten(a, r, t)
  BY <1>1 DEF CommentWritten
<1>3. r \in Review /\ record[r].state = "active"
  BY DEF Writable, Active
<1>4. \A q \in Review : record'[q].state = record[q].state
                        /\ record'[q].snapshots = record[q].snapshots
  BY <1>2
<1>5. ServiceTypeOK'
  BY <1>1, <1>2, DoneKeeps, TimestampType DEF CommentWritten, ServiceTypeOK, ServiceInv
<1>6. SnapshotsKept
  BY <1>4 DEF SnapshotsKept, Current
<1>7. CapturesAtHead' /\ CapturesStayValid' /\ RequestsAreProper' /\ PicturesWereTrue'
  BY <1>1, <1>6, DoneKeeps, PicturesStayTrue DEF CommentWritten
<1>8. SnapshotsInOrder'
  BY <1>1, <1>2, <1>3, <1>4 DEF SnapshotsInOrder, ServiceInv, Current, CommentWritten, Done
<1>9. AtMostOne'
  BY <1>4 DEF AtMostOne, Active, ServiceInv
<1>10. ThreadsAreShown'
  BY <1>2, <1>3, <1>4 DEF ThreadsAreShown, ThreadWritten, Current, ServiceInv
<1> QED
  BY <1>5, <1>7, <1>8, <1>9, <1>10 DEF ServiceInv

LEMMA ReviewStep ==
  ASSUME ServiceInv, NEW a \in Actor, Reviewing(a)
  PROVE  ServiceInv'
<1>1. StateChanged(a)
  BY StatesAreChanged DEF ServiceInv
<1> USE DEF StateChanged
<1>5. ServiceTypeOK'
  BY <1>1, DoneKeeps DEF ServiceTypeOK, ServiceInv
<1>6. SnapshotsKept
  BY <1>1 DEF SnapshotsKept, Current
<1>7. CapturesAtHead' /\ CapturesStayValid' /\ RequestsAreProper' /\ PicturesWereTrue'
  BY <1>1, <1>6, DoneKeeps, PicturesStayTrue
<1>8. SnapshotsInOrder'
  <2>1. \A p, q \in Records :
           p.state = q.state /\ p.snapshots = q.snapshots /\ p.threads = q.threads => p = q
    BY DEF Records
  <2>2. \A r \in Review : record[r] \in Records /\ record'[r] \in Records
    BY <1>1 DEF ServiceInv, ServiceTypeOK
  <2>3. \A r \in Review : record'[r].state = "absent" => record'[r] = record[r]
    BY <1>1, <2>1, <2>2
  <2> QED
    BY <1>1, <2>3 DEF SnapshotsInOrder, ServiceInv, Current, Done
<1>9. AtMostOne'
  BY <1>1 DEF AtMostOne, Active
<1>10. ThreadsAreShown'
  BY <1>1 DEF ThreadsAreShown, Current, ServiceInv
<1> QED
  BY <1>5, <1>7, <1>8, <1>9, <1>10 DEF ServiceInv

(* An operation that ends without a change of any record.                  *)
LEMMA NothingStep ==
  ASSUME ServiceInv, NEW a \in Actor, Done(a), queue # <<>>, Head(queue) = a,
         UNCHANGED <<clock, record>>
  PROVE  ServiceInv'
<1>1. ServiceTypeOK'
  BY DoneKeeps DEF ServiceTypeOK, ServiceInv
<1>2. SnapshotsKept
  BY DEF SnapshotsKept, Current
<1>3. CapturesAtHead' /\ CapturesStayValid' /\ RequestsAreProper' /\ PicturesWereTrue'
  BY <1>2, DoneKeeps, PicturesStayTrue
<1>4. SnapshotsInOrder' /\ AtMostOne' /\ ThreadsAreShown'
  BY DEF SnapshotsInOrder, AtMostOne, ThreadsAreShown, Current, Active, Done, ServiceInv
<1> QED
  BY <1>1, <1>3, <1>4 DEF ServiceInv

(* What the operation that captures knows when it commits.                 *)
LEMMA CaptureFacts ==
  ASSUME ServiceInv, NEW a \in Actor, phase[a] = "capturing"
  PROVE  /\ queue # <<>> /\ Head(queue) = a
         /\ capture.review \in Review
         /\ Captured \in Snapshots
         /\ Captured.operation = capture.operation /\ Captured.size = capture.size
         /\ capture.operation <= Len(log)
         /\ capture.time \in Nat
         /\ request[a].kind = "start" => /\ record[capture.review] = NoRecord
                                         /\ Active \subseteq {seen[a].review}
         /\ request[a].kind # "start" =>
              /\ capture.review \in Active
              /\ CurrentSnapshot(capture.review).operation <= capture.operation
              /\ CurrentSnapshot(capture.review).size <= capture.size
<1>1. capture \in Captures /\ log \in Seq(Nat)
  BY DEF ServiceInv, ServiceTypeOK
<1>2. Captured \in Snapshots /\ Captured.operation = capture.operation
      /\ Captured.size = capture.size /\ capture.time \in Nat
  BY <1>1 DEF Captures, Captured, Snapshots
<1> QED
  BY <1>1, <1>2 DEF ServiceInv, CapturesAtHead, CapturesStayValid

LEMMA StartStep ==
  ASSUME ServiceInv, NEW a \in Actor, CommitStart(a)
  PROVE  ServiceInv'
<1> DEFINE c == capture.review
           new == [NoRecord EXCEPT !.state = "active", !.snapshots = <<Captured>>]
<1>1. /\ queue # <<>> /\ Head(queue) = a /\ Done(a) /\ clock' = clock /\ log' = log
      /\ c \in Review /\ Captured \in Snapshots /\ Captured.operation <= Len(log)
      /\ record[c] = NoRecord
      /\ Active \subseteq {seen[a].review}
  BY CaptureFacts DEF CommitStart, Capturing, Done
<1>2. /\ new \in Records /\ new.state = "active" /\ new.snapshots = <<Captured>>
      /\ new.threads = [t \in Thread |-> NoThread]
      /\ NoRecord.state = "absent" /\ NoRecord.snapshots = <<>>
  <2>1. <<Captured>> \in Seq(Snapshots) /\ <<>> \in Seq(Snapshots)
    BY <1>1
  <2>2. [t \in Thread |-> NoThread] \in [Thread -> Threads]
    BY NoThreadType
  <2> QED
    BY <2>1, <2>2 DEF Records, NoRecord
<1>3. \A r \in Active : /\ [record[r] EXCEPT !.state = "archived"] \in Records
                        /\ [record[r] EXCEPT !.state = "archived"].state = "archived"
                        /\ [record[r] EXCEPT !.state = "archived"].snapshots = record[r].snapshots
                        /\ [record[r] EXCEPT !.state = "archived"].threads = record[r].threads
  BY DEF ServiceInv, ServiceTypeOK, Records, Active
<1>4. Active # {} => seen[a].review # None
  BY <1>1, ServiceAssumption DEF Active
<1>5. record' = [r \in Review |->
                    IF r = c THEN new
                    ELSE IF r \in Active /\ seen[a].review # None
                    THEN [record[r] EXCEPT !.state = "archived"]
                    ELSE record[r]]
  BY DEF CommitStart
<1> HIDE DEF new
<1>6. /\ record' \in [Review -> Records]
      /\ record'[c] = new
      /\ \A r \in Review \ {c} : /\ record'[r].snapshots = record[r].snapshots
                                 /\ record'[r].threads = record[r].threads
                                 /\ record'[r].state # "active"
                                 /\ \/ record'[r] = record[r]
                                    \/ /\ record[r].state = "active"
                                       /\ record'[r].state = "archived"
  BY <1>1, <1>2, <1>3, <1>4, <1>5 DEF ServiceInv, ServiceTypeOK, Active
<1>7. ServiceTypeOK'
  BY <1>1, <1>6, DoneKeeps DEF ServiceInv, ServiceTypeOK
<1>8. SnapshotsKept
  BY <1>1, <1>2, <1>6 DEF SnapshotsKept, Current
<1>9. CapturesAtHead' /\ CapturesStayValid' /\ RequestsAreProper' /\ PicturesWereTrue'
  BY <1>1, <1>8, DoneKeeps, PicturesStayTrue
<1>10. SnapshotsInOrder'
  <2>1. Len(new.snapshots) = 1 /\ new.snapshots[1] = Captured /\ new.snapshots # <<>>
    BY <1>2
  <2> QED
    <3>1. ASSUME NEW r \in Review \ {c}
          PROVE  /\ record'[r].snapshots = record[r].snapshots
                 /\ record'[r].state = "absent" => record'[r] = NoRecord
                 /\ record'[r].state # "absent" => record'[r].snapshots # <<>>
      BY <1>1, <1>6 DEF SnapshotsInOrder, ServiceInv
    <3>2. record'[c].snapshots = new.snapshots /\ record'[c].state = "active"
      BY <1>2, <1>6
    <3> QED
      BY <1>1, <2>1, <3>1, <3>2 DEF SnapshotsInOrder, Current, ServiceInv
<1>11. AtMostOne'
  BY <1>6 DEF AtMostOne, Active
<1>12. ThreadsAreShown'
  BY <1>2, <1>6 DEF ThreadsAreShown, Current, ServiceInv, NoThread
<1> QED
  BY <1>7, <1>9, <1>10, <1>11, <1>12 DEF ServiceInv

LEMMA CaptureStep ==
  ASSUME ServiceInv, NEW a \in Actor, CommitCapture(a)
  PROVE  ServiceInv'
<1> DEFINE r == capture.review
<1>1. /\ queue # <<>> /\ Head(queue) = a /\ Done(a) /\ clock' = clock /\ log' = log
      /\ r \in Active /\ Captured \in Snapshots /\ Captured.operation <= Len(log)
      /\ CurrentSnapshot(r).operation <= Captured.operation
      /\ CurrentSnapshot(r).size <= Captured.size
      /\ capture.time \in Nat
  BY CaptureFacts DEF CommitCapture, Capturing, Done
<1>2. PICK found \in SUBSET Thread :
         record' = [record EXCEPT
                      ![r].snapshots = Append(record[r].snapshots, Captured),
                      ![r].threads = Projected(record[r].threads, Current(r) + 1, found)]
  BY DEF CommitCapture
<1> DEFINE snapshots == Append(record[r].snapshots, Captured)
           threads == Projected(record[r].threads, Current(r) + 1, found)
<1>3. record[r] \in Records /\ record \in [Review -> Records] /\ r \in Review
  BY <1>1 DEF ServiceInv, ServiceTypeOK, Active
<1>4. /\ snapshots \in Seq(Snapshots) /\ Len(snapshots) = Current(r) + 1
      /\ Current(r) \in Nat
      /\ snapshots[Current(r) + 1] = Captured
      /\ \A i \in 1 .. Current(r) : snapshots[i] = record[r].snapshots[i]
  BY <1>1, <1>3 DEF Records, Current
<1>5. ASSUME NEW t \in Thread
      PROVE  /\ threads[t] \in Threads
             /\ threads[t].shown \in {0, Current(r) + 1}
             /\ threads[t].state = "none" => threads[t].shown = 0
             /\ threads[t].state = record[r].threads[t].state
  <2>1. /\ record[r].threads[t] \in Threads
        /\ record[r].threads[t].state = "none" => record[r].threads[t].shown = 0
    BY <1>1, <1>3 DEF Records, ServiceInv, ThreadsAreShown
  <2>2. CASE record[r].threads[t].state = "none"
    BY <2>1, <2>2 DEF Projected
  <2>3. CASE record[r].threads[t].state # "none"
    <3> DEFINE old == record[r].threads[t]
    <3>1. threads[t] = [old EXCEPT !.shown = IF t \in found THEN Current(r) + 1 ELSE 0,
                                   !.revision = old.revision + 1,
                                   !.updatedAt = capture.time]
      BY <2>3 DEF Projected
    <3>2. old.revision + 1 \in Nat
      BY <2>1 DEF Threads
    <3>3. (IF t \in found THEN Current(r) + 1 ELSE 0) \in {0, Current(r) + 1} \cap Nat
      BY <1>4
    <3> QED
      BY <1>1, <2>1, <2>3, <3>1, <3>2, <3>3 DEF Threads
  <2> QED
    BY <2>2, <2>3
<1>6. threads \in [Thread -> Threads]
  BY <1>5 DEF Projected
<1> HIDE DEF snapshots, threads
<1>7. /\ record' \in [Review -> Records]
      /\ record'[r].snapshots = snapshots /\ record'[r].threads = threads
      /\ record'[r].state = "active"
      /\ \A q \in Review \ {r} : record'[q] = record[q]
  <2>1. record' = [record EXCEPT ![r] = [record[r] EXCEPT !.snapshots = snapshots,
                                                         !.threads = threads]]
    BY <1>2, <1>3 DEF snapshots, threads
  <2>2. LET new == [record[r] EXCEPT !.snapshots = snapshots, !.threads = threads] IN
        /\ new \in Records /\ new.snapshots = snapshots /\ new.threads = threads
        /\ new.state = record[r].state
    BY <1>3, <1>4, <1>6 DEF Records
  <2> QED
    BY <1>1, <1>3, <2>1, <2>2 DEF Active
<1>8. ServiceTypeOK'
  BY <1>1, <1>7, DoneKeeps DEF ServiceInv, ServiceTypeOK
<1>9. SnapshotsKept
  BY <1>4, <1>7 DEF SnapshotsKept, Current
<1>10. CapturesAtHead' /\ CapturesStayValid' /\ RequestsAreProper' /\ PicturesWereTrue'
  BY <1>1, <1>9, DoneKeeps, PicturesStayTrue
<1>11. SnapshotsInOrder'
  <2>1. SnapshotsInOrder /\ \A i \in 1 .. Current(r) : record[r].snapshots[i] \in Snapshots
    BY <1>3 DEF ServiceInv, Records, Current
  <2>2. record[r].snapshots # <<>> /\ Current(r) >= 1
    BY <1>1, <1>3, <2>1 DEF SnapshotsInOrder, Active, Records, Current
  <2>3. \A i \in 1 .. Current(r) :
           /\ record[r].snapshots[i].operation <= Captured.operation
           /\ record[r].snapshots[i].size <= Captured.size
    <3> DEFINE last == record[r].snapshots[Current(r)]
    <3>1. last.operation <= Captured.operation /\ last.size <= Captured.size
      BY <1>1 DEF CurrentSnapshot
    <3>2. \A i \in 1 .. Current(r) : /\ record[r].snapshots[i].operation <= last.operation
                                     /\ record[r].snapshots[i].size <= last.size
      <4> SUFFICES ASSUME NEW i \in 1 .. Current(r)
                   PROVE  /\ record[r].snapshots[i].operation <= last.operation
                          /\ record[r].snapshots[i].size <= last.size
        OBVIOUS
      <4>1. CASE i = Current(r)
        BY <2>1, <4>1 DEF Snapshots
      <4>2. CASE i < Current(r)
        BY <1>3, <1>4, <2>1, <2>2, <4>2 DEF SnapshotsInOrder
      <4> QED
        BY <1>4, <4>1, <4>2
    <3>3. last \in Snapshots /\ Captured \in Snapshots
      BY <1>1, <1>4, <2>1, <2>2
    <3> HIDE DEF last
    <3> QED
      BY <2>1, <3>1, <3>2, <3>3 DEF Snapshots
  <2>4. /\ \A i \in 1 .. Len(snapshots) : snapshots[i].operation <= Len(log)
        /\ \A i, j \in 1 .. Len(snapshots) : i < j =>
              /\ snapshots[i].operation <= snapshots[j].operation
              /\ snapshots[i].size <= snapshots[j].size
        /\ snapshots # <<>>
    BY <1>1, <1>3, <1>4, <2>1, <2>3 DEF SnapshotsInOrder
  <2> QED
    BY <1>1, <1>7, <2>1, <2>4 DEF SnapshotsInOrder, Current
<1>12. AtMostOne'
  BY <1>1, <1>7 DEF AtMostOne, Active, ServiceInv
<1>13. ThreadsAreShown'
  BY <1>4, <1>5, <1>7 DEF ThreadsAreShown, Current, ServiceInv
<1> QED
  BY <1>8, <1>10, <1>11, <1>12, <1>13 DEF ServiceInv

(* An operation that begins to capture.                                    *)
LEMMA PrepareStep ==
  ASSUME ServiceInv, NEW a \in Actor, NEW r \in Review, NEW operation \in 1 .. Len(log),
         NEW size \in Nat, Prepare(a, r, operation, size), queue # <<>>, Head(queue) = a,
         request[a].kind \in {"start", "refresh", "include"},
         request[a].kind = "start" => record[r] = NoRecord /\ Active \subseteq {seen[a].review},
         request[a].kind # "start" => /\ r \in Active
                                      /\ CurrentSnapshot(r).operation <= operation
                                      /\ CurrentSnapshot(r).size <= size
  PROVE  ServiceInv'
<1> USE DEF ServiceInv
<1>1. /\ clock' \in Nat
      /\ capture' = [review |-> r, operation |-> operation, content |-> log[operation],
                     size |-> size, time |-> clock']
      /\ phase' = [phase EXCEPT ![a] = "capturing"]
      /\ UNCHANGED <<log, record, queue, seen, request>>
  BY TimestampType DEF Prepare
<1>2. capture' \in Captures
  BY <1>1 DEF Captures, ServiceTypeOK
<1>3. ServiceTypeOK'
  BY <1>1, <1>2 DEF ServiceTypeOK
<1>4. phase'[a] = "capturing" /\ \A b \in Actor \ {a} : phase'[b] = phase[b]
  BY <1>1 DEF ServiceTypeOK
<1>5. CapturesAtHead' /\ \A b \in Actor \ {a} : phase'[b] # "capturing"
  BY <1>1, <1>4 DEF CapturesAtHead
<1>6. RequestsAreProper' /\ SnapshotsInOrder' /\ PicturesWereTrue'
  BY <1>1, <1>4 DEF RequestsAreProper, SnapshotsInOrder, PicturesWereTrue, Current
<1>7. AtMostOne' /\ ThreadsAreShown'
  BY <1>1 DEF AtMostOne, ThreadsAreShown, Active, Current
<1>8. CapturesStayValid'
  BY <1>1, <1>4, <1>5 DEF CapturesStayValid, CurrentSnapshot, Current, Active
<1> QED
  BY <1>3, <1>5, <1>6, <1>7, <1>8

LEMMA BeginStep ==
  ASSUME ServiceInv, NEW a \in Actor, Beginning(a)
  PROVE  ServiceInv'
<1>1. Len(log) \in 1 .. Len(log)
  BY DEF ServiceInv, ServiceTypeOK
<1>2. \A r \in Active :
         /\ r \in Review /\ Current(r) \in 1 .. Current(r)
         /\ CurrentSnapshot(r) \in Snapshots
         /\ CurrentSnapshot(r).operation <= Len(log)
  <2> SUFFICES ASSUME NEW r \in Active
               PROVE  /\ r \in Review /\ Current(r) \in 1 .. Current(r)
                      /\ CurrentSnapshot(r) \in Snapshots
                      /\ CurrentSnapshot(r).operation <= Len(log)
    OBVIOUS
  <2>1. r \in Review /\ record[r].snapshots \in Seq(Snapshots) /\ record[r].snapshots # <<>>
    BY DEF Active, ServiceInv, ServiceTypeOK, Records, SnapshotsInOrder
  <2>2. Current(r) \in 1 .. Current(r)
    BY <2>1 DEF Current
  <2> QED
    BY <2>1, <2>2 DEF CurrentSnapshot, Current, SnapshotsInOrder, ServiceInv
<1>3. CASE BeginStart(a)
  <2>1. PICK r \in Review, size \in 1 .. MaxSize :
           record[r] = NoRecord /\ Prepare(a, r, Len(log), size)
    BY <1>3 DEF BeginStart
  <2>2. size \in Nat
    BY ServiceAssumption
  <2> QED
    BY <1>1, <1>3, <2>1, <2>2, PrepareStep DEF BeginStart, Running, StartAllowed
<1>4. CASE BeginRefresh(a)
  <2>1. PICK r \in Active : Prepare(a, r, Len(log), CurrentSnapshot(r).size)
    BY <1>4 DEF BeginRefresh
  <2>2. CurrentSnapshot(r).size \in Nat /\ CurrentSnapshot(r).size <= CurrentSnapshot(r).size
    BY <1>2 DEF Snapshots
  <2> QED
    BY <1>1, <1>2, <1>4, <2>1, <2>2, PrepareStep DEF BeginRefresh, Running
<1>5. CASE BeginInclude(a)
  <2>1. PICK r \in Active : /\ Expected(a, r)
                            /\ Prepare(a, r, seen[a].operation, seen[a].size + 1)
    BY <1>5 DEF BeginInclude
  <2>2. a \in User
    BY <1>5 DEF BeginInclude, Running, ServiceInv, RequestsAreProper, Actor
  <2>3. seen[a].review = r /\ r # None /\ seen[a].snapshot = Current(r)
    BY <2>1, ServiceAssumption DEF Expected, Active
  <2>4. /\ seen[a].operation \in 1 .. Len(log)
        /\ CurrentSnapshot(r).size = seen[a].size
        /\ CurrentSnapshot(r).operation <= seen[a].operation
    BY <2>2, <2>3 DEF ServiceInv, PicturesWereTrue, CurrentSnapshot
  <2>5. seen[a].size \in Nat /\ seen[a].size + 1 \in Nat
    BY DEF ServiceInv, ServiceTypeOK, Pictures
  <2>6. CurrentSnapshot(r).size <= seen[a].size + 1
    BY <2>4, <2>5
  <2> QED
    BY <1>2, <1>5, <2>1, <2>4, <2>5, <2>6, PrepareStep DEF BeginInclude, Running
<1> QED
  BY <1>3, <1>4, <1>5 DEF Beginning

(* Steps outside the queue change no record and disturb no capture.        *)
LEMMA PictureType ==
  ASSUME ServiceInv
  PROVE  /\ Picture \in Pictures
         /\ Picture.review # None =>
               /\ Picture.review \in Active
               /\ Picture.operation = Len(log)
               /\ Picture.snapshot = Current(Picture.review)
               /\ Picture.snapshot \in 1 .. Current(Picture.review)
               /\ Picture.size = CurrentSnapshot(Picture.review).size
               /\ CurrentSnapshot(Picture.review).operation <= Len(log)
               /\ Picture.threads = record[Picture.review].threads
<1>1. Len(log) \in Nat
  BY DEF ServiceInv, ServiceTypeOK
<1>2. CASE Active = {}
  <2>1. Blind \in Pictures
    BY NoThreadType DEF Blind, Pictures
  <2>2. Picture = [Blind EXCEPT !.operation = Len(log)]
    BY <1>2 DEF Picture
  <2> QED
    BY <1>1, <2>1, <2>2 DEF Pictures, Blind
<1>3. CASE Active # {}
  <2> DEFINE r == CHOOSE x \in Active : TRUE
  <2>1. r \in Active
    BY <1>3
  <2>2. Picture = [review |-> r, snapshot |-> Current(r), size |-> CurrentSnapshot(r).size,
                   operation |-> Len(log), threads |-> record[r].threads]
    BY <1>3 DEF Picture
  <2> HIDE DEF r
  <2>3. r \in Review /\ record[r] \in Records /\ record[r].snapshots # <<>>
    BY <2>1 DEF Active, ServiceInv, ServiceTypeOK, SnapshotsInOrder
  <2>4. /\ Current(r) \in 1 .. Current(r) /\ Current(r) \in Nat
        /\ CurrentSnapshot(r) \in Snapshots
        /\ CurrentSnapshot(r).operation <= Len(log)
    BY <2>3 DEF Records, Current, CurrentSnapshot, ServiceInv, SnapshotsInOrder
  <2> QED
    BY <1>1, <2>1, <2>2, <2>3, <2>4 DEF Pictures, Records, Snapshots
<1> QED
  BY <1>2, <1>3

LEMMA LookStep ==
  ASSUME ServiceInv, NEW u \in User, Look(u)
  PROVE  ServiceInv'
<1> USE DEF ServiceInv
<1>1. /\ u \in Actor /\ phase[u] = "idle"
      /\ seen' = [seen EXCEPT ![u] = Picture]
      /\ phase' = [phase EXCEPT ![u] = "looking"]
      /\ UNCHANGED <<log, clock, record, queue, request, capture>>
  BY DEF Look, Actor
<1>2. ServiceTypeOK'
  BY <1>1, PictureType DEF ServiceTypeOK
<1>3. /\ seen'[u] = Picture /\ phase'[u] = "looking"
      /\ \A a \in Actor \ {u} : seen'[a] = seen[a] /\ phase'[a] = phase[a]
  BY <1>1 DEF ServiceTypeOK
<1>4. CapturesAtHead' /\ CapturesStayValid'
  BY <1>1, <1>3 DEF CapturesAtHead, CapturesStayValid, Active, CurrentSnapshot, Current
<1>5. RequestsAreProper'
  <2>1. request[u].kind = "none"
    BY <1>1 DEF RequestsAreProper, NoRequest
  <2>2. \A a \in Actor : a = u \/ (seen'[a] = seen[a] /\ phase'[a] = phase[a])
    BY <1>3
  <2>3. u \notin Agent
    BY ServiceAssumption
  <2> QED
    BY <1>1, <1>3, <2>1, <2>2, <2>3 DEF RequestsAreProper, Actor
<1>6. PicturesWereTrue'
  <2>1. Picture.review # None =>
           /\ Picture.operation \in 1 .. Len(log)
           /\ Picture.snapshot \in 1 .. Current(Picture.review)
           /\ record[Picture.review].snapshots[Picture.snapshot].size = Picture.size
           /\ record[Picture.review].snapshots[Picture.snapshot].operation <= Picture.operation
    BY PictureType DEF CurrentSnapshot, ServiceTypeOK
  <2>2. \A w \in User : w = u \/ seen'[w] = seen[w]
    BY <1>3 DEF Actor
  <2> QED
    BY <1>1, <1>3, <2>1, <2>2 DEF PicturesWereTrue, Current
<1>7. SnapshotsInOrder' /\ AtMostOne' /\ ThreadsAreShown'
  BY <1>1 DEF SnapshotsInOrder, AtMostOne, ThreadsAreShown, Active, Current
<1> QED
  BY <1>2, <1>4, <1>5, <1>6, <1>7

LEMMA ConnectStep ==
  ASSUME ServiceInv, NEW g \in Agent, Connect(g)
  PROVE  ServiceInv'
<1> USE DEF ServiceInv
<1> DEFINE bound == [Picture EXCEPT !.threads = Blind.threads, !.operation = 0]
<1>1. /\ g \in Actor /\ g \notin User /\ phase[g] = "idle"
      /\ seen' = [seen EXCEPT ![g] = bound]
      /\ UNCHANGED <<log, clock, record, queue, phase, request, capture>>
  BY ServiceAssumption DEF Connect, Actor
<1>2. bound \in Pictures
  <2>1. Blind.threads \in [Thread -> Threads]
    BY NoThreadType DEF Blind
  <2> QED
    BY <2>1, PictureType DEF Pictures
<1> HIDE DEF bound
<1>3. ServiceTypeOK'
  BY <1>1, <1>2 DEF ServiceTypeOK
<1>4. \A a \in Actor \ {g} : seen'[a] = seen[a]
  BY <1>1 DEF ServiceTypeOK
<1>5. CapturesAtHead' /\ CapturesStayValid'
  BY <1>1, <1>4 DEF CapturesAtHead, CapturesStayValid, Active, CurrentSnapshot, Current
<1>6. RequestsAreProper'
  <2>1. request[g].kind = "none"
    BY <1>1 DEF RequestsAreProper, NoRequest
  <2>2. \A a \in Actor : a = g \/ seen'[a] = seen[a]
    BY <1>4
  <2> QED
    BY <1>1, <2>1, <2>2 DEF RequestsAreProper, Actor
<1>7. PicturesWereTrue'
  <2>1. \A w \in User : seen'[w] = seen[w]
    BY <1>1, <1>4 DEF Actor
  <2> QED
    BY <1>1, <2>1 DEF PicturesWereTrue, Current
<1>8. SnapshotsInOrder' /\ AtMostOne' /\ ThreadsAreShown'
  BY <1>1 DEF SnapshotsInOrder, AtMostOne, ThreadsAreShown, Active, Current
<1> QED
  BY <1>3, <1>5, <1>6, <1>7, <1>8

LEMMA JjStep ==
  ASSUME ServiceInv, JjOperation
  PROVE  ServiceInv'
<1> USE DEF ServiceInv
<1>1. PICK c \in {log[Len(log)], log[Len(log)] + 1} : log' = Append(log, c)
  BY DEF JjOperation
<1>2. log \in Seq(Nat) /\ log[Len(log)] \in Nat
  BY DEF ServiceTypeOK
<1>3. /\ log' \in Seq(Nat) /\ log' # <<>>
      /\ Len(log') = Len(log) + 1 /\ Len(log) \in Nat
      /\ UNCHANGED <<clock, record, queue, phase, seen, request, capture>>
  BY <1>1, <1>2 DEF JjOperation
<1>4. ServiceTypeOK'
  BY <1>3 DEF ServiceTypeOK
<1>5. CapturesAtHead' /\ RequestsAreProper' /\ AtMostOne' /\ ThreadsAreShown'
  BY <1>3 DEF CapturesAtHead, RequestsAreProper, AtMostOne, ThreadsAreShown, Active, Current
<1>6. PicturesWereTrue'
  <2>1. \A n \in 1 .. Len(log) : n \in 1 .. Len(log')
    BY <1>3
  <2> QED
    BY <1>3, <2>1 DEF PicturesWereTrue, Current
<1>7. CapturesStayValid'
  BY <1>3 DEF CapturesStayValid, Active, CurrentSnapshot, Current
<1>8. SnapshotsInOrder'
  <2>1. \A r \in Review : \A i \in 1 .. Current(r) : record[r].snapshots[i].operation \in Nat
    <3>1. \A r \in Review : record[r].snapshots \in Seq(Snapshots)
      BY DEF ServiceTypeOK, Records
    <3>2. \A r \in Review : \A i \in 1 .. Current(r) : record[r].snapshots[i] \in Snapshots
      BY <3>1 DEF Current
    <3> QED
      BY <3>2 DEF Snapshots
  <2> QED
    BY <1>3, <2>1 DEF SnapshotsInOrder, Current
<1> QED
  BY <1>4, <1>5, <1>6, <1>7, <1>8

LEMMA EnqueueStep ==
  ASSUME ServiceInv, NEW a \in Actor, phase[a] \in {"idle", "looking"},
         NEW kind, NEW review \in Review \cup {None}, NEW threads \in SUBSET Thread,
         Enqueue(a, kind, review, threads),
         kind \in {"restore", "replace", "delete"} => review \in Review,
         a \in User =>
            /\ kind # "close"
            /\ kind \in {"start", "refresh", "archive", "include", "restore", "replace",
                         "delete"} => threads = {}
            /\ kind \in {"create", "reply", "edit", "remove", "resolve", "reopen"} =>
                  review = seen[a].review
            /\ kind = "create" => \A t \in threads : seen[a].threads[t] = NoThread,
         a \in Agent => kind \in {"reply", "close"} /\ review = seen[a].review
  PROVE  ServiceInv'
<1> USE DEF ServiceInv
<1> DEFINE new == [kind |-> kind, review |-> review, threads |-> threads]
<1>1. /\ request' = [request EXCEPT ![a] = new]
      /\ queue' = Append(queue, a)
      /\ phase' = [phase EXCEPT ![a] = "queued"]
      /\ UNCHANGED <<log, clock, record, seen, capture>>
  BY DEF Enqueue
<1>2. new \in Requests /\ new.kind = kind /\ new.review = review /\ new.threads = threads
  BY ServiceAssumption DEF Enqueue, Requests
<1> HIDE DEF new
<1>3. /\ request'[a] = new /\ phase'[a] = "queued"
      /\ \A b \in Actor \ {a} : request'[b] = request[b] /\ phase'[b] = phase[b]
  BY <1>1 DEF ServiceTypeOK
<1>4. ServiceTypeOK'
  BY <1>1, <1>2 DEF ServiceTypeOK
<1>5. CapturesAtHead' /\ CapturesStayValid'
  <2>1. queue # <<>> => queue' # <<>> /\ Head(queue') = Head(queue)
    BY <1>1 DEF ServiceTypeOK
  <2> QED
    BY <1>1, <1>3, <2>1 DEF CapturesAtHead, CapturesStayValid, Active, CurrentSnapshot, Current
<1>6. RequestsAreProper'
  <2>1. \A b \in Actor : b = a \/ (request'[b] = request[b] /\ phase'[b] = phase[b])
    BY <1>3
  <2> QED
    BY <1>1, <1>2, <1>3, <2>1 DEF RequestsAreProper, Actor
<1>7. PicturesWereTrue' /\ SnapshotsInOrder' /\ AtMostOne' /\ ThreadsAreShown'
  BY <1>1 DEF PicturesWereTrue, SnapshotsInOrder, AtMostOne, ThreadsAreShown, Active, Current
<1> QED
  BY <1>4, <1>5, <1>6, <1>7

LEMMA AskStep ==
  ASSUME ServiceInv, NEW u \in User, Ask(u)
  PROVE  ServiceInv'
<1>1. /\ u \in Actor /\ u \notin Agent /\ phase[u] = "looking"
      /\ seen[u].review \in Review \cup {None}
  BY ServiceAssumption DEF Ask, Actor, ServiceInv, ServiceTypeOK, Pictures
<1>2. CASE \E kind \in {"start", "refresh", "archive"} : Enqueue(u, kind, None, {})
  BY <1>1, <1>2, EnqueueStep
<1>3. CASE Enqueue(u, "include", seen[u].review, {})
  BY <1>1, <1>3, EnqueueStep
<1>4. CASE \E r \in Review, kind \in {"delete", "restore", "replace"} : Enqueue(u, kind, r, {})
  BY <1>1, <1>4, EnqueueStep
<1>5. CASE \E t \in Thread : /\ seen[u].threads[t] = NoThread
                            /\ Enqueue(u, "create", seen[u].review, {t})
  BY <1>1, <1>5, EnqueueStep
<1>6. CASE \E t \in Thread, kind \in {"reply", "edit", "remove", "resolve", "reopen"} :
              Enqueue(u, kind, seen[u].review, {t})
  BY <1>1, <1>6, EnqueueStep
<1> QED
  BY <1>2, <1>3, <1>4, <1>5, <1>6 DEF Ask, SeenThreads

LEMMA CallStep ==
  ASSUME ServiceInv, NEW g \in Agent, CallTool(g)
  PROVE  ServiceInv'
<1>1. /\ g \in Actor /\ g \notin User /\ phase[g] = "idle"
      /\ seen[g].review \in Review \cup {None}
  BY ServiceAssumption DEF CallTool, Actor, ServiceInv, ServiceTypeOK, Pictures
<1>2. CASE \E t \in Thread : Enqueue(g, "reply", seen[g].review, {t})
  BY <1>1, <1>2, EnqueueStep
<1>3. CASE \E batch \in SUBSET Thread : Enqueue(g, "close", seen[g].review, batch)
  BY <1>1, <1>3, EnqueueStep
<1> QED
  BY <1>2, <1>3 DEF CallTool

LEMMA ExecuteStep ==
  ASSUME ServiceInv, NEW a \in Actor, Execute(a)
  PROVE  ServiceInv'
<1>1. CASE Fail(a)
  BY <1>1, NothingStep DEF Fail, Failing
<1>2. CASE KeepSnapshot(a)
  BY <1>2, NothingStep, CaptureFacts DEF KeepSnapshot, Capturing
<1>3. CASE Beginning(a)
  BY <1>3, BeginStep
<1>4. CASE CommitStart(a)
  BY <1>4, StartStep
<1>5. CASE CommitCapture(a)
  BY <1>5, CaptureStep
<1>6. CASE Reviewing(a)
  BY <1>6, ReviewStep
<1>7. CASE Commenting(a)
  BY <1>7, CommentStep
<1> QED
  BY <1>1, <1>2, <1>3, <1>4, <1>5, <1>6, <1>7 DEF Execute, Beginning, Reviewing, Commenting

LEMMA ServiceInvInit == Init => ServiceInv
<1> SUFFICES ASSUME Init
             PROVE  ServiceInv
  OBVIOUS
<1> USE DEF Init
<1>1. /\ NoRecord \in Records /\ Blind \in Pictures /\ NoRequest \in Requests
      /\ NoCapture \in Captures
  <2>1. NoThread \in Threads
    BY NoThreadType
  <2> QED
    BY <2>1 DEF NoRecord, Records, Blind, Pictures, NoRequest, Requests, NoCapture, Captures
<1>2. ServiceTypeOK
  BY <1>1 DEF ServiceTypeOK
<1>3. CapturesAtHead /\ RequestsAreProper /\ CapturesStayValid
  BY DEF CapturesAtHead, RequestsAreProper, CapturesStayValid, NoRequest, Actor
<1>4. Active = {} /\ \A r \in Review : record[r] = NoRecord /\ Current(r) = 0
  BY DEF Active, NoRecord, Current
<1>5. SnapshotsInOrder
  BY <1>4 DEF SnapshotsInOrder, NoRecord
<1>6. PicturesWereTrue
  BY DEF PicturesWereTrue, Blind, Actor
<1>7. AtMostOne /\ ThreadsAreShown
  BY <1>4 DEF AtMostOne, ThreadsAreShown, NoRecord, NoThread
<1> QED
  BY <1>2, <1>3, <1>5, <1>6, <1>7 DEF ServiceInv

LEMMA ServiceInvNext == ServiceInv /\ [Next]_vars => ServiceInv'
<1> SUFFICES ASSUME ServiceInv, [Next]_vars
             PROVE  ServiceInv'
  OBVIOUS
<1>1. CASE UNCHANGED vars
  BY <1>1 DEF vars, ServiceInv, ServiceTypeOK, CapturesAtHead, RequestsAreProper,
              SnapshotsInOrder, PicturesWereTrue, AtMostOne, ThreadsAreShown,
              CapturesStayValid, Active, CurrentSnapshot, Current
<1>2. CASE Next
  BY <1>2, JjStep, LookStep, AskStep, ConnectStep, CallStep, ExecuteStep DEF Next
<1> QED
  BY <1>1, <1>2

(* The reviews stay what every operation relies on, however they interleave. *)
THEOREM ServiceInvHolds == Spec => []ServiceInv
<1> QED
  BY ServiceInvInit, ServiceInvNext, PTL DEF Spec

(* OneActiveReview: at most one review is active, for any number of users, *)
(* whatever each of them saw before he started, restored or replaced one.  *)
THEOREM AtMostOneActive == Spec => []OneActiveReview
<1>1. ServiceInv => OneActiveReview
  <2> SUFFICES ASSUME AtMostOne
               PROVE  Cardinality(Active) <= 1
    BY DEF ServiceInv, OneActiveReview
  <2>1. CASE Active = {}
    BY <2>1, FS_EmptySet
  <2>2. CASE \E r : Active = {r}
    <3>1. PICK r : Active = {r}
      BY <2>2
    <3>2. Cardinality({r}) = 1
      BY FS_Singleton
    <3> QED
      BY <3>1, <3>2
  <2> QED
    BY <2>1, <2>2 DEF AtMostOne
<1> QED
  BY <1>1, ServiceInvHolds, PTL

(* SnapshotsMoveForward: no refresh and no selection, however long before  *)
(* its commit it read the repository, puts an earlier state of it or fewer *)
(* changes after a later one.                                              *)
THEOREM SnapshotsOnlyMoveForward == Spec => []SnapshotsMoveForward
<1>1. ServiceInv => SnapshotsMoveForward
  BY DEF ServiceInv, SnapshotsInOrder, SnapshotsMoveForward
<1> QED
  BY <1>1, ServiceInvHolds, PTL

(* ShownInCurrentSnapshot: a thread shown inline is shown in the current   *)
(* snapshot, whenever it was written and whatever was refreshed since.     *)
THEOREM ThreadsFollowTheSnapshot == Spec => []ShownInCurrentSnapshot
<1>1. ServiceInv => ShownInCurrentSnapshot
  BY DEF ServiceInv, ThreadsAreShown, ShownInCurrentSnapshot
<1> QED
  BY <1>1, ServiceInvHolds, PTL

-----------------------------------------------------------------------------
(* What a step does to the records, seen from the outside: the action      *)
(* properties follow from these.                                           *)

(* A new review is there, and what the user agreed to archive is archived. *)
StartCommitted(a) ==
    /\ Done(a) /\ queue # <<>> /\ Head(queue) = a /\ a \in User
    /\ request[a].kind = "start"
    /\ UNCHANGED clock
    /\ record[capture.review] = NoRecord
    /\ record'[capture.review].state = "active"
    /\ record'[capture.review].threads = NoRecord.threads
    /\ \A r \in Review \ {capture.review} :
          /\ record'[r].snapshots = record[r].snapshots
          /\ record'[r].threads = record[r].threads
          /\ \/ record'[r].state = record[r].state
             \/ record'[r].state = "archived" /\ seen[a].review = r

(* The active review has a new snapshot, on which its threads are placed.  *)
CaptureCommitted(a) ==
    /\ Done(a) /\ queue # <<>> /\ Head(queue) = a /\ a \in User
    /\ phase[a] = "capturing"
    /\ request[a].kind \in {"refresh", "include"}
    /\ UNCHANGED clock
    /\ record[capture.review].state = "active"
    /\ record'[capture.review].state = "active"
    /\ \A t \in Thread :
          /\ record'[capture.review].threads[t].messages
                = record[capture.review].threads[t].messages
          /\ \/ record'[capture.review].threads[t] = record[capture.review].threads[t]
             \/ record'[capture.review].threads[t].updatedAt = capture.time
    /\ \A r \in Review \ {capture.review} : record'[r] = record[r]

LEMMA UserCaptures ==
  ASSUME ServiceInv, NEW a \in Actor, phase[a] = "capturing"
  PROVE  a \in User
BY DEF ServiceInv, RequestsAreProper, CapturesStayValid, Actor

LEMMA StartCommits ==
  ASSUME ServiceInv, NEW a \in Actor, CommitStart(a)
  PROVE  StartCommitted(a)
<1> DEFINE c == capture.review
           new == [NoRecord EXCEPT !.state = "active", !.snapshots = <<Captured>>]
<1>1. /\ queue # <<>> /\ Head(queue) = a /\ Done(a) /\ clock' = clock /\ a \in User
      /\ request[a].kind = "start"
      /\ c \in Review /\ record[c] = NoRecord /\ Active \subseteq {seen[a].review}
  BY CaptureFacts, UserCaptures DEF CommitStart, Capturing
<1>2. new.state = "active" /\ new.threads = NoRecord.threads
  BY DEF NoRecord
<1>3. \A r \in Review : /\ [record[r] EXCEPT !.state = "archived"].state = "archived"
                        /\ [record[r] EXCEPT !.state = "archived"].snapshots = record[r].snapshots
                        /\ [record[r] EXCEPT !.state = "archived"].threads = record[r].threads
  BY DEF ServiceInv, ServiceTypeOK, Records
<1>4. record' = [r \in Review |->
                    IF r = c THEN new
                    ELSE IF r \in Active /\ seen[a].review # None
                    THEN [record[r] EXCEPT !.state = "archived"]
                    ELSE record[r]]
  BY DEF CommitStart
<1> HIDE DEF new
<1> QED
  BY <1>1, <1>2, <1>3, <1>4 DEF StartCommitted

LEMMA CaptureCommits ==
  ASSUME ServiceInv, NEW a \in Actor, CommitCapture(a)
  PROVE  CaptureCommitted(a)
<1> DEFINE r == capture.review
<1>1. /\ queue # <<>> /\ Head(queue) = a /\ Done(a) /\ clock' = clock /\ a \in User
      /\ phase[a] = "capturing" /\ request[a].kind \in {"refresh", "include"}
      /\ r \in Active
  BY CaptureFacts, UserCaptures DEF CommitCapture, Capturing
<1>2. PICK found \in SUBSET Thread :
         record' = [record EXCEPT
                      ![r].snapshots = Append(record[r].snapshots, Captured),
                      ![r].threads = Projected(record[r].threads, Current(r) + 1, found)]
  BY DEF CommitCapture
<1> DEFINE threads == Projected(record[r].threads, Current(r) + 1, found)
<1>3. \A t \in Thread :
         /\ threads[t].messages = record[r].threads[t].messages
         /\ threads[t] = record[r].threads[t] \/ threads[t].updatedAt = capture.time
  <2>1. \A thread \in Threads : \A n, m, k :
           LET new == [thread EXCEPT !.shown = n, !.revision = m, !.updatedAt = k] IN
           new.messages = thread.messages /\ new.updatedAt = k
    BY DEF Threads
  <2>2. \A t \in Thread : record[r].threads[t] \in Threads
    BY <1>1 DEF ServiceInv, ServiceTypeOK, Records, Active
  <2> QED
    BY <2>1, <2>2 DEF Projected
<1>4. record[r] \in Records /\ record \in [Review -> Records] /\ r \in Review
      /\ record[r].state = "active"
  BY <1>1 DEF ServiceInv, ServiceTypeOK, Active
<1> DEFINE snapshots == Append(record[r].snapshots, Captured)
<1>5. record' = [record EXCEPT ![r] = [record[r] EXCEPT !.snapshots = snapshots,
                                                       !.threads = threads]]
  BY <1>2, <1>4
<1> HIDE DEF threads, snapshots
<1>6. LET new == [record[r] EXCEPT !.snapshots = snapshots, !.threads = threads] IN
      new.threads = threads /\ new.state = "active"
  BY <1>4 DEF Records
<1> QED
  BY <1>1, <1>3, <1>4, <1>5, <1>6 DEF CaptureCommitted

(* Nobody changes a record but the operation at the head of the queue.     *)
LEMMA StepsOnRecords ==
  ASSUME ServiceInv, [Next]_vars
  PROVE  \/ record' = record
         \/ \E a \in Actor : \/ StartCommitted(a) \/ CaptureCommitted(a)
                             \/ StateChanged(a) \/ CommentWritten(a)
<1>1. CASE UNCHANGED vars
  BY <1>1 DEF vars
<1>2. CASE JjOperation \/ (\E u \in User : Look(u) \/ Ask(u))
           \/ (\E g \in Agent : Connect(g) \/ CallTool(g))
  BY <1>2 DEF JjOperation, Look, Ask, Connect, CallTool, Enqueue
<1>3. ASSUME NEW a \in Actor, Execute(a)
      PROVE  \/ record' = record
             \/ StartCommitted(a) \/ CaptureCommitted(a) \/ StateChanged(a)
             \/ CommentWritten(a)
  <2>1. CASE Fail(a) \/ KeepSnapshot(a) \/ Beginning(a)
    BY <2>1 DEF Fail, KeepSnapshot, Beginning, BeginStart, BeginRefresh, BeginInclude, Prepare
  <2>2. CASE CommitStart(a)
    BY <2>2, StartCommits
  <2>3. CASE CommitCapture(a)
    BY <2>3, CaptureCommits
  <2>4. CASE Reviewing(a)
    BY <2>4, StatesAreChanged DEF ServiceInv
  <2>5. CASE Commenting(a)
    BY <2>5, CommentsAreWritten DEF ServiceInv
  <2> QED
    BY <1>3, <2>1, <2>2, <2>3, <2>4, <2>5 DEF Execute, Beginning, Reviewing, Commenting
<1> QED
  BY <1>1, <1>2, <1>3 DEF Next

(* ArchivedIsReadOnly: whoever writes, and whatever he saw when it was     *)
(* still active, an archived review keeps its snapshots and threads.       *)
THEOREM ArchivedReviewsAreKept == Spec => ArchivedIsReadOnly
<1>1. ASSUME ServiceInv, [Next]_vars, NEW r \in Review, record[r].state = "archived"
      PROVE  /\ record'[r].snapshots = record[r].snapshots
             /\ record'[r].threads = record[r].threads
  <2>1. ASSUME NEW a \in Actor, StartCommitted(a)
        PROVE  /\ record'[r].snapshots = record[r].snapshots
               /\ record'[r].threads = record[r].threads
    BY <1>1, <2>1 DEF StartCommitted, NoRecord
  <2>2. ASSUME NEW a \in Actor, CaptureCommitted(a)
        PROVE  record'[r] = record[r]
    BY <1>1, <2>2 DEF CaptureCommitted
  <2>3. ASSUME NEW a \in Actor, CommentWritten(a)
        PROVE  record'[r] = record[r]
    BY <1>1, <2>3 DEF CommentWritten, Writable, Active
  <2> QED
    BY <1>1, <2>1, <2>2, <2>3, StepsOnRecords DEF StateChanged
<1> DEFINE Holds == \A r \in Review :
                    record[r].state = "archived" =>
                       /\ record'[r].snapshots = record[r].snapshots
                       /\ record'[r].threads = record[r].threads
<1>2. ServiceInv /\ [Next]_vars => [Holds]_vars
  BY <1>1
<1> QED
  BY <1>2, ServiceInvHolds, PTL DEF Spec, ArchivedIsReadOnly

(* AgentMessagesStay: what an agent wrote is never edited or removed, in   *)
(* any interleaving of users, agents, captures and replacements.           *)
THEOREM AgentMessagesAreKept == Spec => AgentMessagesStay
<1>1. ASSUME ServiceInv, [Next]_vars, NEW r \in Review, NEW t \in Thread,
             NEW m \in record[r].threads[t].messages, m.author = "agent"
      PROVE  m \in record'[r].threads[t].messages
  <2>1. ASSUME NEW a \in Actor, StartCommitted(a)
        PROVE  m \in record'[r].threads[t].messages
    BY <1>1, <2>1 DEF StartCommitted, NoRecord, NoThread
  <2>2. ASSUME NEW a \in Actor, CaptureCommitted(a)
        PROVE  m \in record'[r].threads[t].messages
    BY <1>1, <2>2 DEF CaptureCommitted
  <2>3. ASSUME NEW a \in Actor, CommentWritten(a)
        PROVE  m \in record'[r].threads[t].messages
    BY <1>1, <2>3 DEF CommentWritten, ThreadWritten
  <2> QED
    BY <1>1, <2>1, <2>2, <2>3, StepsOnRecords DEF StateChanged
<1> DEFINE Holds == \A r \in Review, t \in Thread : \A m \in record[r].threads[t].messages :
                    m.author = "agent" => m \in record'[r].threads[t].messages
<1>2. ServiceInv /\ [Next]_vars => [Holds]_vars
  BY <1>1
<1> QED
  BY <1>2, ServiceInvHolds, PTL DEF Spec, AgentMessagesStay

(* ArchivesWhatWasConfirmed: a review archived to make room for another is *)
(* the one its user was shown when he agreed, whatever happened since.     *)
THEOREM OnlyConfirmedAreArchived == Spec => ArchivesWhatWasConfirmed
<1>1. ASSUME ServiceInv, [Next]_vars, NEW r \in Review, NEW a \in Actor,
             record[r].state = "active", record'[r].state = "archived",
             Head(queue) = a, request[a].kind # "archive"
      PROVE  seen[a].review = r
  <2>1. ASSUME NEW b \in Actor, StartCommitted(b)
        PROVE  seen[a].review = r
    BY <1>1, <2>1 DEF StartCommitted, NoRecord
  <2>2. ASSUME NEW b \in Actor, CaptureCommitted(b)
        PROVE  FALSE
    BY <1>1, <2>2 DEF CaptureCommitted
  <2>3. ASSUME NEW b \in Actor, CommentWritten(b)
        PROVE  FALSE
    BY <1>1, <2>3 DEF CommentWritten
  <2>4. ASSUME NEW b \in Actor, StateChanged(b)
        PROVE  seen[a].review = r
    BY <1>1, <2>4 DEF StateChanged, Active
  <2> QED
    BY <1>1, <2>1, <2>2, <2>3, <2>4, StepsOnRecords
<1> DEFINE Holds == \A r \in Review, a \in Actor :
                    /\ record[r].state = "active" /\ record'[r].state = "archived"
                    /\ Head(queue) = a /\ request[a].kind # "archive"
                    => seen[a].review = r
<1>2. ServiceInv /\ [Next]_vars => [Holds]_vars
  BY <1>1
<1> QED
  BY <1>2, ServiceInvHolds, PTL DEF Spec, ArchivesWhatWasConfirmed

(* AgentWritesBoundReview: an agent changes only the review its session is *)
(* bound to, and that only while it is active.                             *)
THEOREM AgentsStayInTheirReview == Spec => AgentWritesBoundReview
<1>1. ASSUME ServiceInv, [Next]_vars, NEW r \in Review, NEW g \in Agent,
             queue # <<>>, Head(queue) = g, record'[r] # record[r]
      PROVE  r = seen[g].review /\ record[r].state = "active"
  <2>1. g \notin User
    BY ServiceAssumption
  <2>2. PICK a \in Actor : \/ StartCommitted(a) \/ CaptureCommitted(a)
                          \/ StateChanged(a) \/ CommentWritten(a)
    BY <1>1, StepsOnRecords
  <2>3. CommentWritten(g)
    BY <1>1, <2>1, <2>2 DEF StartCommitted, CaptureCommitted, StateChanged, CommentWritten
  <2>4. r \in Writable(g)
    BY <1>1, <2>3 DEF CommentWritten
  <2>5. request[g].kind # "none"
    BY <2>3 DEF CommentWritten
  <2> QED
    BY <1>1, <2>4, <2>5 DEF Writable, Active, ServiceInv, RequestsAreProper
<1> DEFINE Holds == \A r \in Review, g \in Agent :
                    /\ queue # <<>> /\ Head(queue) = g
                    /\ record'[r] # record[r]
                    => r = seen[g].review /\ record[r].state = "active"
<1>2. ServiceInv /\ [Next]_vars => [Holds]_vars
  BY <1>1
<1> QED
  BY <1>2, ServiceInvHolds, PTL DEF Spec, AgentWritesBoundReview

-----------------------------------------------------------------------------
(* Changes are told apart by their timestamps, and a clock of milliseconds *)
(* may give two of them the same one.  What follows is that this is the    *)
(* only way to write on a thread that has changed: whatever the clock does *)
(* else, and however many changes of other threads share a timestamp.      *)
ThreadsAge(r, t) ==
    \/ record'[r].threads[t] = record[r].threads[t]
    \/ record[r].threads[t].updatedAt < record'[r].threads[t].updatedAt

ChangesAreDated == [][\A r \in Review, t \in Thread : ThreadsAge(r, t)]_vars

(* A thread is as it was seen, or younger.                                 *)
StampsTell ==
    \A u \in User, t \in Thread :
        seen[u].review # None =>
            LET thread == record[seen[u].review].threads[t]
                old == seen[u].threads[t]
            IN  \/ old.updatedAt < thread.updatedAt
                \/ old.updatedAt = thread.updatedAt /\ old.revision = thread.revision

LEMMA StampsAreNat ==
  ASSUME ServiceInv
  PROVE  /\ \A r \in Review, t \in Thread : record[r].threads[t].updatedAt \in Nat
         /\ \A u \in User, t \in Thread : seen[u].threads[t].updatedAt \in Nat
         /\ \A u \in User : seen[u].review # None => seen[u].review \in Review
<1>1. /\ \A r \in Review, t \in Thread : record[r].threads[t] \in Threads
      /\ \A u \in User, t \in Thread : seen[u].threads[t] \in Threads
  BY DEF ServiceInv, ServiceTypeOK, Records, Pictures, Actor
<1>2. \A u \in User : seen[u].review # None => seen[u].review \in Review
  BY DEF ServiceInv, ServiceTypeOK, Pictures, Actor
<1> QED
  BY <1>1, <1>2 DEF Threads

(* What a user has seen changes when he looks, and is forgotten when his   *)
(* operation ends.                                                         *)
LEMMA SeenChanges ==
  ASSUME ServiceInv, [Next]_vars, NEW u \in User
  PROVE  \/ seen'[u] = seen[u]
         \/ seen'[u] = Blind
         \/ seen'[u] = Picture /\ record' = record
<1>1. seen \in [Actor -> Pictures] /\ u \in Actor /\ u \notin Agent
  BY ServiceAssumption DEF ServiceInv, ServiceTypeOK, Actor
<1>2. \A a : Done(a) => seen'[u] = seen[u] \/ seen'[u] = Blind
  BY <1>1 DEF Done
<1>3. ASSUME NEW w \in User, Look(w) \/ Ask(w)
      PROVE  seen'[u] = seen[u] \/ (seen'[u] = Picture /\ record' = record)
  BY <1>1, <1>3 DEF Look, Ask, Enqueue
<1>4. ASSUME NEW g \in Agent, Connect(g) \/ CallTool(g) PROVE seen'[u] = seen[u]
  BY <1>1, <1>4 DEF Connect, CallTool, Enqueue
<1>5. ASSUME NEW a \in Actor, Execute(a) PROVE seen'[u] = seen[u] \/ seen'[u] = Blind
  <2>1. CASE Beginning(a)
    BY <2>1 DEF Beginning, BeginStart, BeginRefresh, BeginInclude, Prepare
  <2>2. CASE Done(a)
    BY <1>2, <2>2
  <2> QED
    BY <1>5, <2>1, <2>2
    DEF Execute, Beginning, Fail, CommitStart, CommitCapture, KeepSnapshot, Archive, Restore,
        Replace, Delete, CreateThread, Reply, EditMessage, DeleteMessage, ChangeState,
        CloseComments, Write
<1>6. CASE JjOperation \/ UNCHANGED vars
  BY <1>6 DEF JjOperation, vars
<1> QED
  BY <1>3, <1>4, <1>5, <1>6 DEF Next

LEMMA StampsNext ==
  ServiceInv /\ StampsTell /\ [Next]_vars
    /\ [\A r \in Review, t \in Thread : ThreadsAge(r, t)]_vars => StampsTell'
<1> SUFFICES ASSUME ServiceInv, StampsTell, [Next]_vars,
                    [\A r \in Review, t \in Thread : ThreadsAge(r, t)]_vars
             PROVE  StampsTell'
  OBVIOUS
<1>1. \A r \in Review, t \in Thread : ThreadsAge(r, t)
  BY DEF vars, ThreadsAge
<1>2. \A r \in Review, t \in Thread : record'[r].threads[t].updatedAt \in Nat
  <2>1. ServiceInv'
    BY ServiceInvNext
  <2> QED
    BY <2>1 DEF ServiceInv, ServiceTypeOK, Records, Threads
<1> SUFFICES ASSUME NEW u \in User, NEW t \in Thread, seen'[u].review # None
             PROVE  LET thread == record'[seen'[u].review].threads[t]
                        old == seen'[u].threads[t]
                    IN  \/ old.updatedAt < thread.updatedAt
                        \/ old.updatedAt = thread.updatedAt /\ old.revision = thread.revision
  BY DEF StampsTell
<1>3. CASE seen'[u] = seen[u]
  <2> DEFINE r == seen[u].review
             old == seen[u].threads[t]
  <2>1. r \in Review /\ old.updatedAt \in Nat /\ record[r].threads[t].updatedAt \in Nat
    BY <1>3, StampsAreNat
  <2>2. \/ old.updatedAt < record[r].threads[t].updatedAt
        \/ /\ old.updatedAt = record[r].threads[t].updatedAt
           /\ old.revision = record[r].threads[t].revision
    BY <1>3 DEF StampsTell
  <2>3. ThreadsAge(r, t) /\ record'[r].threads[t].updatedAt \in Nat
    BY <1>1, <1>2, <2>1
  <2> QED
    BY <1>3, <2>1, <2>2, <2>3 DEF ThreadsAge
<1>4. CASE seen'[u] = Blind
  BY <1>4 DEF Blind
<1>5. CASE seen'[u] = Picture /\ record' = record
  BY <1>5, PictureType
<1> QED
  BY <1>3, <1>4, <1>5, SeenChanges

(* NoStaleWrite: no user writes on a thread that changed since he saw it,  *)
(* by comment, capture or restore, unless two changes of a thread bear the *)
(* same timestamp.                                                         *)
THEOREM NobodyWritesBlindly == Spec => (ChangesAreDated => NoStaleWrite)
<1>1. Init => StampsTell
  BY DEF Init, StampsTell, Blind, Actor
<1>2. ASSUME ServiceInv, StampsTell, [Next]_vars,
             NEW r \in Review, NEW t \in Thread, NEW u \in User,
             queue # <<>>, Head(queue) = u, request[u].threads = {t},
             record'[r].threads[t] # record[r].threads[t]
      PROVE  record[r].threads[t].revision = seen[u].threads[t].revision
  <2>1. PICK a \in Actor : \/ StartCommitted(a) \/ CaptureCommitted(a)
                          \/ StateChanged(a) \/ CommentWritten(a)
    BY <1>2, StepsOnRecords
  <2>2. a = u
    BY <1>2, <2>1 DEF StartCommitted, CaptureCommitted, StateChanged, CommentWritten
  <2>3. request[u].kind \notin {"start", "refresh", "include"}
    BY <1>2 DEF ServiceInv, RequestsAreProper
  <2>4. CommentWritten(u)
    BY <1>2, <2>1, <2>2, <2>3 DEF StartCommitted, CaptureCommitted, StateChanged
  <2>5. r \in Writable(u) /\ ThreadWritten(u, r, t)
    BY <1>2, <2>4 DEF CommentWritten
  <2>6. seen[u].review = r /\ r # None
    BY <1>2, <2>4, <2>5, ServiceAssumption
    DEF Writable, Active, ServiceInv, RequestsAreProper, CommentWritten
  <2>7. CASE record[r].threads[t].updatedAt = seen[u].threads[t].updatedAt
    BY <1>2, <2>6, <2>7, StampsAreNat DEF StampsTell
  <2>8. CASE record[r].threads[t] = NoThread /\ request[u].kind = "create"
    BY <1>2, <2>8 DEF ServiceInv, RequestsAreProper
  <2> QED
    BY <2>5, <2>7, <2>8 DEF ThreadWritten
<1> DEFINE Holds == \A r \in Review, t \in Thread, u \in User :
                       /\ queue # <<>> /\ Head(queue) = u /\ request[u].threads = {t}
                       /\ record'[r].threads[t] # record[r].threads[t]
                       => record[r].threads[t].revision = seen[u].threads[t].revision
<1>3. ServiceInv /\ StampsTell /\ [Next]_vars => [Holds]_vars
  BY <1>2
<1> QED
  BY <1>1, <1>3, StampsNext, ServiceInvHolds, PTL DEF Spec, NoStaleWrite, ChangesAreDated
=============================================================================
