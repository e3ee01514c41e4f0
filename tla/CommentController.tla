--------------------------- MODULE CommentController ---------------------------
(***************************************************************************)
(* The inline comments of the editor (InReviewCommentController): one      *)
(* thread of a review as stored, as shown in the open diff documents, and  *)
(* the refresh worker that brings the second after the first.              *)
(*                                                                         *)
(* A change is stored first and announced after; each announcement and     *)
(* each document opened or closed requests a refresh.  The worker reads    *)
(* the review, which takes a while, and then shows what it has read in one *)
(* go.  The user meanwhile edits and sends commands from what is shown.    *)
(***************************************************************************)
EXTENDS Naturals, FiniteSets, Sequences, Functions

CONSTANTS Document,     \* documents of the review
          ReadOnly,     \* those opened from History
          Homes,        \* the sets of documents that may show the thread's place
          MaxOpen,      \* bound: documents open at once
          MaxStamp,     \* bound: changes of the thread
          MaxFailures   \* bound: changes not announced, and reads that fail

ASSUME ControllerAssumption ==
    /\ ReadOnly \subseteq Document
    /\ Homes \subseteq SUBSET Document
    /\ MaxOpen \in Nat /\ MaxStamp \in Nat /\ MaxFailures \in Nat

VARIABLES stored,       \* the thread in the store
          announced,    \* the last change has been announced
          open,         \* the open documents
          shown,        \* #threads: what each document shows
          requested,    \* #refreshRequested
          worker,       \* #refreshWorker: idle, reading, showing or done with a pass
          pass,         \* what the pass under way is about: documents and thread
          command,      \* the command of the user in flight
          disposed,     \* #disposed
          missed,       \* a change or a read failed, and none has succeeded since
          failures

Editor == <<open, shown, disposed>>
Worker == <<requested, worker, pass>>
vars == <<stored, announced, Editor, Worker, command, missed, failures>>

(* A message is known by the stamp it was created with; its own stamp and  *)
(* that of its thread are their updatedAt.  A thread without messages has  *)
(* not been created yet or is gone again.                                  *)
NoThread == [stamp |-> 0, messages |-> <<>>, state |-> "open", active |-> TRUE, at |-> {}]
Unread == [NoThread EXCEPT !.active = FALSE]
Nothing == [seen |-> 0, state |-> "open", writable |-> FALSE, comments |-> <<>>]
NoPass == [documents |-> {}, thread |-> Unread]
NoCommand == [kind |-> "none", step |-> "none", id |-> 0, expected |-> 0, basis |-> <<>>]

(* The constructor requests the first refresh.                             *)
Init ==
    /\ stored \in {[NoThread EXCEPT !.at = h] : h \in Homes}
    /\ announced = TRUE
    /\ open \in {d \in SUBSET Document : Cardinality(d) <= MaxOpen}
    /\ shown = [d \in Document |-> Nothing]
    /\ requested = FALSE
    /\ worker = "reading"
    /\ pass = [documents |-> open, thread |-> Unread]
    /\ command = NoCommand
    /\ disposed = FALSE
    /\ missed = FALSE
    /\ failures = 0

-----------------------------------------------------------------------------
(* Rendering.                                                              *)

(* commentPlacements: an archived review is shown in History only.         *)
Places(t) ==
    IF t.messages = <<>> THEN {}
    ELSE IF t.active THEN t.at ELSE t.at \cap ReadOnly

Writable(d, t) == d \notin ReadOnly /\ t.active

(* renderMessages.                                                         *)
Rendered(d, t) ==
    [i \in DOMAIN t.messages |->
        [message |-> t.messages[i], seen |-> t.stamp, editing |-> FALSE,
         editable |-> Writable(d, t) /\ t.messages[i].author = "user"]]

(* commentSignature: what a reader can tell the messages by.               *)
Signature(comments) ==
    [i \in DOMAIN comments |->
        <<comments[i].message.stamp, comments[i].message.author, comments[i].editable>>]

(* Mutation: messages are counted, not compared.                           *)
SameMessages_Count(comments, others) == Len(comments) = Len(others)

SameMessages(comments, others) == Signature(comments) = Signature(others)

Entry(d, t, comments) ==
    [seen |-> t.stamp, state |-> t.state, writable |-> Writable(d, t), comments |-> comments]

(* Mutation: messages are rendered again whenever anything has changed.    *)
UpdatedEntry_Anew(d, t, entry) ==
    LET fresh == Rendered(d, t)
    IN  IF SameMessages(entry.comments, fresh) /\ entry.state = t.state
        THEN Entry(d, t, [i \in DOMAIN fresh |-> [entry.comments[i] EXCEPT !.seen = t.stamp]])
        ELSE Entry(d, t, fresh)

(* updateEntry: rendered comments, and drafts in them, stay while the      *)
(* messages look the same; they are then taken for those of the new        *)
(* version of the thread.                                                  *)
UpdatedEntry(d, t, entry) ==
    LET fresh == Rendered(d, t)
    IN  IF SameMessages(entry.comments, fresh)
        THEN Entry(d, t, [i \in DOMAIN fresh |-> [entry.comments[i] EXCEPT !.seen = t.stamp]])
        ELSE Entry(d, t, fresh)

-----------------------------------------------------------------------------
(* The refresh worker.                                                     *)

BeginPass(documents) ==
    /\ requested' = FALSE
    /\ worker' = "reading"
    /\ pass' = [documents |-> documents, thread |-> Unread]

(* Mutation: a request is dropped while the worker runs.                   *)
Request_IdleOnly(documents) ==
    IF disposed \/ worker # "idle" THEN UNCHANGED Worker
    ELSE BeginPass(documents)

(* refresh, with these documents open: a busy worker takes the request up  *)
(* when it is through, an idle one begins.                                 *)
Request(documents) ==
    IF disposed THEN UNCHANGED Worker
    ELSE IF worker = "idle" THEN BeginPass(documents)
    ELSE requested' = TRUE /\ UNCHANGED <<worker, pass>>

Fail ==
    /\ failures < MaxFailures
    /\ failures' = failures + 1
    /\ missed' = TRUE

(* rebuild up to the end of its reading; a review that cannot be read has  *)
(* no threads to show.                                                     *)
Read ==
    /\ worker = "reading"
    /\ worker' = "showing"
    /\ \/ pass' = [pass EXCEPT !.thread = stored] /\ missed' = FALSE /\ UNCHANGED failures
       \/ Fail /\ UNCHANGED pass
    /\ UNCHANGED <<stored, announced, Editor, requested, command>>

(* What a document shows after a pass.                                     *)
ShownAfter(d) ==
    IF d \notin pass.documents \cap Places(pass.thread) THEN Nothing
    ELSE IF shown[d] = Nothing THEN Entry(d, pass.thread, Rendered(d, pass.thread))
    ELSE UpdatedEntry(d, pass.thread, shown[d])

(* Mutation: what was read is shown without looking at #disposed again.    *)
Show_Anyway ==
    /\ worker = "showing"
    /\ worker' = "through"
    /\ shown' = [d \in Document |-> ShownAfter(d)]
    /\ pass' = NoPass
    /\ UNCHANGED <<stored, announced, open, disposed, requested, command, missed, failures>>

(* Mutation: the request is withdrawn after the pass, not before it.       *)
Show_Withdraws ==
    /\ worker = "showing"
    /\ worker' = "through"
    /\ requested' = FALSE
    /\ shown' = IF disposed THEN shown ELSE [d \in Document |-> ShownAfter(d)]
    /\ pass' = NoPass
    /\ UNCHANGED <<stored, announced, open, disposed, command, missed, failures>>

(* The rest of rebuild, without interruption: threads are made, updated,   *)
(* and removed from documents that are closed or have no place for them.   *)
Show ==
    /\ worker = "showing"
    /\ worker' = "through"
    /\ shown' = IF disposed THEN shown ELSE [d \in Document |-> ShownAfter(d)]
    /\ pass' = NoPass
    /\ UNCHANGED <<stored, announced, open, disposed, requested, command, missed, failures>>

(* runRefreshWorker: another pass if one was requested meanwhile, else the *)
(* end, at which a waiting command ends too (awaitEventDrivenRefresh).     *)
Loop ==
    /\ worker = "through"
    /\ IF requested /\ ~disposed
       THEN BeginPass(open) /\ UNCHANGED command
       ELSE /\ worker' = "idle"
            /\ command' = IF command.step = "refreshing" THEN NoCommand ELSE command
            /\ UNCHANGED <<requested, pass>>
    /\ UNCHANGED <<stored, announced, Editor, missed, failures>>

-----------------------------------------------------------------------------
(* Documents.  What happens after the controller is disposed is followed   *)
(* to the end of its worker and command only.                              *)

OpenDocument(d) ==
    /\ ~disposed /\ d \notin open /\ Cardinality(open) < MaxOpen
    /\ open' = open \cup {d}
    /\ Request(open')
    /\ UNCHANGED <<stored, announced, shown, command, disposed, missed, failures>>

CloseDocument(d) ==
    /\ ~disposed /\ d \in open
    /\ open' = open \ {d}
    /\ Request(open')
    /\ UNCHANGED <<stored, announced, shown, command, disposed, missed, failures>>

Dispose ==
    /\ ~disposed
    /\ disposed' = TRUE
    /\ requested' = FALSE
    /\ shown' = [d \in Document |-> Nothing]
    /\ UNCHANGED <<stored, announced, open, worker, pass, command, missed, failures>>

-----------------------------------------------------------------------------
(* Editing.                                                                *)

Edit(d, i) ==
    /\ i \in DOMAIN shown[d].comments
    /\ shown[d].comments[i].editable /\ ~shown[d].comments[i].editing
    /\ shown' = [shown EXCEPT ![d].comments[i].editing = TRUE]
    /\ UNCHANGED <<stored, announced, open, Worker, command, disposed, missed, failures>>

CancelEdit(d, i) ==
    /\ i \in DOMAIN shown[d].comments
    /\ shown[d].comments[i].editing
    /\ shown' = [shown EXCEPT ![d].comments[i].editing = FALSE]
    /\ UNCHANGED <<stored, announced, open, Worker, command, disposed, missed, failures>>

(* What the user acts on in the editor: the messages in front of him.      *)
Basis(d) == [i \in DOMAIN shown[d].comments |-> shown[d].comments[i].message]

Command(kind, id, expected, basis) ==
    /\ command = NoCommand
    /\ ~disposed
    /\ command' = [kind |-> kind, step |-> "sent", id |-> id, expected |-> expected,
                   basis |-> basis]
    /\ UNCHANGED <<stored, announced, Editor, Worker, missed, failures>>

(* submit on an empty thread of the editor, over a document that can be    *)
(* commented; the editor's own thread is not among those shown.            *)
SubmitNew(d) ==
    /\ d \in open \ ReadOnly
    /\ stored.active /\ stored.stamp = 0 /\ d \in stored.at
    /\ Command("create", 0, 0, <<>>)

(* submit on a thread that is there, with the version it was shown in.     *)
SubmitReply(d) ==
    /\ shown[d] # Nothing /\ shown[d].writable /\ shown[d].state = "open"
    /\ Command("reply", 0, shown[d].seen, Basis(d))

(* save and delete, with the version of the thread the comment stands for. *)
Save(d, i) ==
    /\ i \in DOMAIN shown[d].comments
    /\ shown[d].comments[i].editing
    /\ Command("save", shown[d].comments[i].message.id, shown[d].comments[i].seen, Basis(d))

Delete(d, i) ==
    /\ i \in DOMAIN shown[d].comments
    /\ shown[d].comments[i].editable /\ ~shown[d].comments[i].editing
    /\ Command("delete", shown[d].comments[i].message.id, shown[d].comments[i].seen, Basis(d))

(* resolve and reopen in the editor, with the version that is shown.       *)
ChangeState(d) ==
    /\ shown[d] # Nothing /\ shown[d].writable
    /\ Command(IF shown[d].state = "open" THEN "resolved" ELSE "open", 0, shown[d].seen, Basis(d))

(* resolve and reopen in the Comments tree, whose items bear no version.   *)
(* The tree is as the store: what a tree shows late a command finds late.  *)
ChangeStateInTree ==
    /\ stored.active /\ stored.messages # <<>>
    /\ command = NoCommand
    /\ ~disposed
    /\ command' = [NoCommand EXCEPT !.kind = IF stored.state = "open" THEN "resolved" ELSE "open",
                                    !.step = "finding", !.basis = stored.messages]
    /\ UNCHANGED <<stored, announced, Editor, Worker, missed, failures>>

(* findThread, for such an item: the thread is read again, and the version *)
(* found is the one the command expects.                                   *)
FindThread ==
    /\ command.step = "finding"
    /\ command' = IF stored.messages = <<>> THEN NoCommand
                  ELSE [command EXCEPT !.step = "sent", !.expected = stored.stamp,
                                       !.basis = stored.messages]
    /\ UNCHANGED <<stored, announced, Editor, Worker, missed, failures>>

-----------------------------------------------------------------------------
(* The service, one mutation at a time: it stores a change, and announces  *)
(* it before the next.                                                     *)

Stamp == stored.stamp + 1

NewMessage(author) == [id |-> Stamp, stamp |-> Stamp, author |-> author]

WithReply(author) ==
    [stored EXCEPT !.stamp = Stamp, !.messages = Append(@, NewMessage(author))]

(* assertExpectedThread, and what else CommentService asks of a command;   *)
(* that a new thread is for the current snapshot is in ReviewService.      *)
Allowed ==
    /\ stored.active
    /\ stored.stamp = command.expected
    /\ command.kind # "create" => stored.messages # <<>>
    /\ command.kind = "reply" => stored.state = "open"
    /\ command.kind \in {"open", "resolved"} => stored.state # command.kind

(* The thread with a message edited or removed.                            *)
Edited ==
    [stored EXCEPT !.stamp = Stamp,
                   !.messages = [i \in DOMAIN @ |-> IF @[i].id = command.id
                                                    THEN [@[i] EXCEPT !.stamp = Stamp] ELSE @[i]]]

(* messages.filter: all but the message of this id, in their order.        *)
Without(messages, id) ==
    LET kept[n \in 0 .. Len(messages)] ==
            IF n = 0 THEN <<>>
            ELSE IF messages[n].id = id THEN kept[n - 1]
            ELSE Append(kept[n - 1], messages[n])
    IN  kept[Len(messages)]

Deleted == [stored EXCEPT !.stamp = Stamp, !.messages = Without(@, command.id)]

Changed ==
    CASE command.kind = "create" -> [WithReply("user") EXCEPT !.state = "open"]
      [] command.kind = "reply"  -> WithReply("user")
      [] command.kind = "save"   -> Edited
      [] command.kind = "delete" -> Deleted
      [] OTHER                   -> [stored EXCEPT !.stamp = Stamp, !.state = command.kind]

(* CommentService.commit for the command: it is stored, or refused, which  *)
(* the user is told.                                                       *)
Execute ==
    /\ command.step = "sent" /\ announced
    /\ Stamp <= MaxStamp
    /\ \/ /\ Allowed
          /\ stored' = Changed
          /\ announced' = FALSE
          /\ command' = [NoCommand EXCEPT !.step = "stored", !.expected = Stamp]
       \/ /\ ~Allowed
          /\ command' = NoCommand
          /\ UNCHANGED <<stored, announced>>
    /\ UNCHANGED <<Editor, Worker, missed, failures>>

(* The event of a change.  A change that was stored and reported as failed *)
(* has none, and its command ends with the failure.                        *)
Announce ==
    /\ ~announced
    /\ announced' = TRUE
    /\ \/ /\ Request(open)
          /\ command' = IF command.step # "stored" THEN command
                        ELSE IF disposed THEN NoCommand
                        ELSE [command EXCEPT !.step = "refreshing"]
          /\ UNCHANGED <<missed, failures>>
       \/ /\ Fail
          /\ command' = IF command.step = "stored" THEN NoCommand ELSE command
          /\ UNCHANGED Worker
    /\ UNCHANGED <<stored, Editor>>

(* The agent answers, or closes the thread.                                *)
Answer ==
    /\ ~disposed /\ announced /\ Stamp <= MaxStamp
    /\ stored.active /\ stored.messages # <<>> /\ stored.state = "open"
    /\ stored' \in {WithReply("agent"), [stored EXCEPT !.stamp = Stamp, !.state = "resolved"]}
    /\ announced' = FALSE
    /\ UNCHANGED <<Editor, Worker, command, missed, failures>>

(* The review is archived or restored, or refreshed, which places the      *)
(* thread anew.                                                            *)
ChangeReview ==
    /\ ~disposed /\ announced
    /\ \/ stored' = [stored EXCEPT !.active = ~@]
       \/ stored.active /\ \E h \in Homes \ {stored.at} : stored' = [stored EXCEPT !.at = h]
    /\ announced' = FALSE
    /\ UNCHANGED <<Editor, Worker, command, missed, failures>>

Next ==
    \/ Read \/ Show \/ Loop \/ Dispose
    \/ ChangeStateInTree \/ FindThread \/ Execute \/ Announce \/ Answer \/ ChangeReview
    \/ \E d \in Document :
          \/ OpenDocument(d) \/ CloseDocument(d)
          \/ SubmitNew(d) \/ SubmitReply(d) \/ ChangeState(d)
          \/ \E i \in 1 .. MaxStamp : Edit(d, i) \/ CancelEdit(d, i) \/ Save(d, i) \/ Delete(d, i)

Spec == Init /\ [][Next]_vars

-----------------------------------------------------------------------------
(* Properties.                                                             *)

(* The editor shows the thread where it belongs, as it is.                 *)
Faithful(d) ==
    IF d \in open \cap Places(stored)
    THEN /\ shown[d].seen = stored.stamp /\ shown[d].state = stored.state
         /\ shown[d].writable = Writable(d, stored)
         /\ SameMessages(shown[d].comments, Rendered(d, stored))
    ELSE shown[d] = Nothing

UpToDate ==
    \A d \in Document : IF disposed THEN shown[d] = Nothing ELSE Faithful(d)

(* No request is lost, however it falls between the steps of the worker:   *)
(* at rest the editor shows what is stored, unless the last announcement   *)
(* or read failed, and the next one that does not repairs what was missed. *)
(* Once disposed it shows nothing, whatever pass was reading just then.    *)
RestIsUpToDate == worker = "idle" /\ (disposed \/ (announced /\ ~missed)) => UpToDate

(* A command is carried out on the messages its thread was read with, and  *)
(* on no others.  Given in the editor, these are the messages the user saw *)
(* then, also when the comments in which he was writing have been taken    *)
(* over from an earlier version; given in the Comments tree, those found   *)
(* by findThread, however late the service gets to the command.            *)
CommandsActOnWhatWasRead ==
    [][command.step = "sent" /\ command'.step = "stored" => command.basis = stored.messages]_vars

(* When a command has been carried out its result is in every document     *)
(* that shows the thread: awaitEventDrivenRefresh waits for a pass that    *)
(* read the change.                                                        *)
ResultIsShown ==
    [][command.step = "refreshing" /\ command' = NoCommand =>
          \A d \in Document : shown[d] = Nothing \/ shown[d].seen >= command.expected]_vars

(* A refresh that has read the messages as they are shown leaves a draft   *)
(* alone, whatever else has changed.                                       *)
DraftsStay ==
    [][worker = "showing" /\ worker' = "through" /\ ~disposed =>
          \A d \in pass.documents \cap Places(pass.thread) :
              Basis(d) = pass.thread.messages /\ shown[d].writable = Writable(d, pass.thread) =>
                  \A i \in DOMAIN shown[d].comments :
                      shown[d].comments[i].editing => shown'[d].comments[i].editing]_vars

(* Refuted.  What findThread finds for a command given in the Comments     *)
(* tree is what the user saw there: the item bears no version, and an      *)
(* answer that came meanwhile is resolved unseen.                          *)
TreeFindsWhatWasShown ==
    [][command.step = "finding" /\ command'.step = "sent" => command.basis = stored.messages]_vars

(* Refuted.  After a failure too: nothing asks for the refresh again until *)
(* something else changes.                                                 *)
FailuresAreRepaired == worker = "idle" /\ announced => UpToDate

(* Refuted.  A draft survives all that leaves its own message alone: the   *)
(* answer of an agent renders the thread anew.                             *)
AnswersKeepDrafts ==
    [][worker = "showing" /\ worker' = "through" /\ ~disposed =>
          \A d \in pass.documents \cap Places(pass.thread) :
              \A i \in DOMAIN shown[d].comments :
                  /\ shown[d].comments[i].editing
                  /\ shown[d].comments[i].message \in Range(pass.thread.messages)
                  => \E c \in Range(shown'[d].comments) : c.editing]_vars
=============================================================================
