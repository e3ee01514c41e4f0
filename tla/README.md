# InReview, specified

InReview is a VS Code extension for reviewing local jj changes, with a native
bridge over which agents read and answer the comments. This directory holds
TLA+ specifications of the parts of it in which order matters, the
configurations that check them with TLC, and proofs that TLAPS checks.

    tlc -config lock_clean.cfg MCRepositoryLock.tla     # any run of PROJECT.json
    tlapm RepositoryLockProofs.tla

`PROJECT.json` lists the components, the runs, for each property a fault in the
code that makes it fail, the lines each definition models, the findings, the
hazards and the theorems.

## The system

| Component | State it keeps | Operations | Talks to |
| --- | --- | --- | --- |
| Repository lock (`storage/repositoryLock.ts`) | a lock file with owner, nonce and heartbeat; a timer | acquire, recover a stale lock, refresh the lease, release | the file system; one lock per repository, taken by each window |
| Review store (`storage/reviewStore.ts`, `blobStore.ts`, `atomicFile.ts`) | `index.json`, a manifest per record, blobs; `#index` in memory | open with recovery, put a batch, delete, collect garbage, close | the file system; called by the services, one operation at a time |
| Services (`review/*.ts`) | the mutation queue; everything else is in the store | start, refresh, include, archive, restore, replace, rename, delete; the comment operations | the store, jj, the views and tools |
| jj access (`jj/*.ts`, `diff/*.ts`) | read sessions pinned to a jj operation; a semaphore over the runs of jj | list, select, extend, capture; run, abort | the jj process |
| Daemon (`bridge/src/daemon.rs`, `protocol.rs`) | registrations, roles, session bindings and owners, stale sessions, a count of connections | register, hello, call, close session, disconnect, idle exit | windows and frontends over a socket |
| Bridge runtime (`bridge/runtime.ts`, `rpcPeer.ts`) | status, connection, reconnect timer, session contexts | start, restart, configure, dispose, handle requests | the daemon, the MCP tool handlers |
| Frontend (`bridge/src/mcp_server.rs`) | connection, session, workspace to restore | call a tool, reconnect, restore, close | the daemon, the agent |
| Tool handlers (`mcp/tools.ts`) | a session's binding to a review and snapshot | connect, read, reply, close comments | the services |
| Comment controller and views (`vscode/*.ts`) | editor threads, drafts, a refresh worker | refresh, submit, edit | the services, VS Code |

What is hard in it: several windows, each its own process, share one directory
with a lock file as the only arbiter; a process may die between any two file
operations, and the machine may lose power; operations read state, wait for jj
or for the user, and write later; a selection is put together from several runs
of jj while the user rewrites history; agents act on what they read minutes ago;
the daemon, the windows and the frontends come and go independently, with a task
per request on the daemon's and the frontend's side and timeouts on all sides. `PROJECT.json`,
"hazards", places each of these at its line.

What makes each part correct, in a sentence: the lock admits one writer, which
a dead window does not prevent; the store is a set of atomically replaced
reviews; one review is active and moves forward only, nobody's words are
overwritten unseen, agents write where they are bound; a window that shows
itself as registered is found under its workspace, one that lost its connection
comes back unless it is told that its workspace is taken, calls go only to a
window the session connected to; a frontend sends no change twice and works
where its agent was told; a selection is the stack that was asked for; a permit
to run jj is never lost.

## Modules

| Module | Models | Checked by |
| --- | --- | --- |
| `RepositoryLock` | `repositoryLock.ts`, one action per file operation | `lock_*` |
| `RepositoryLockProofs` | theorems about it | TLAPS |
| `ReviewStore` | `reviewStore.ts`, `blobStore.ts`, `atomicFile.ts`, one action per rename, sync or removal | `store` |
| `ReviewStoreProofs` | theorems about it | TLAPS |
| `AtomicReviews` | what the store promises | `store`, as a refinement |
| `ReviewService` | `reviewService.ts`, `refreshService.ts`, `commentService.ts`, `mutationQueue.ts`, the commands and tools that call them | `service_*` |
| `ReviewServiceProofs` | theorems about it | TLAPS |
| `Bridge` | `daemon.rs`, `protocol.rs`, `runtime.ts`, `rpcPeer.ts` and a plain frontend | `bridge_*` |
| `BridgeProofs` | theorems about it | TLAPS |
| `BridgeClient` | `mcp_server.rs`: the frontend's calls, reconnecting, restoring and retrying, against what it sees of the daemon | `frontend` |
| `BridgeClientProofs` | theorems about it | TLAPS |
| `ReviewSelection` | `reviewSelection.ts` and the selection commands of `jjClient.ts`, against a reference definition | `jj` |
| `ProcessRunner` | `processRunner.ts`: the semaphore, its queue and the life of a child process | `jj` |
| `JjProofs` | theorems about both | TLAPS |
| `GitPatch` | what `jj diff --git` prints, `gitPatchParser.ts` and `buildFileManifest`: an algorithm | `anchors` |
| `CommentAnchors` | `buildAnchor` of `commentService.ts`, `commentProjection.ts`, `commentPlacements` of `commentController.ts` | `anchors` |
| `CommentAnchorsProofs` | theorems about it | TLAPS |
| `CommentController` | `commentController.ts`: refresh worker, rendering, drafts, commands | `editor` |
| `CommentControllerProofs` | theorems about it | TLAPS |
| `MC...` | constants, workloads and symmetry for TLC | |

### RepositoryLock

A lock file is named by the host that created it, so `path` says whose file is
at the lock path, `content[h]` what is in the file `h` made (nothing yet, half
written, or the nonce of `h`), and `age[h]` how old its stamp is: within the
lease of 30 s, older, or beyond the 24 h after which a malformed file is
removed. `pc` is where `acquire` or `release` of a host is, `beat` where its
heartbeat is. `acquire` is split where the code awaits: open `wx`, stamp, and
on EEXIST read, judge, stat, rename; the rename takes whatever is at the path
by then. `Crashable`, `Suspendable` and `Faulty` are the hosts that may die,
sleep beyond their lease, or fail to write; `MaxAttempts` is 3 in the code. The
lock of another machine is not modelled: the code never recovers it.

### ReviewStore and AtomicReviews

Every write of a record makes a new manifest file, so a file is identified with
its record. `diskIndex`, `manifests` and `blobs` are what a reader finds now;
`mayIndex`, `looseFiles` and `looseBlobs` say what a power loss may leave: a
rename is visible at once and durable after its directory has been synced.
Removals are taken as durable at once, which is the worst case. `runExclusive`
admits one operation, so the operation in flight is in `at`, `op`, `todo` and
`next`. Blobs are different: those of a batch are put, and the garbage removed,
all at once (`Promise.all`). `puts` and `removals` are the puts and removals
under way; the first failure ends the wait for them (`PutBlobFails`,
`CollectFails`) and the others go on behind the operations that follow
(`leftovers`, `RemoveLate`). `stray`, for the properties only, has the blobs
that a failed operation left such a put or removal of behind: what the
properties say of durability and `Readable`, they say of all other blobs, since
for these the promise is refuted (below). `Retention` is 20 in the code, and 0,
which the constructor would take, is not modelled. Faults, crashes, power losses and damage are counted, the
first three also together. A power loss is not considered while a fault or a
crash has left the index unsynced: there the promise is refuted (below).
`AtomicReviews` is the promise: a set of whole records that grows by commits of
batches, shrinks by deletion and retention, and loses a review only to damage;
a power loss leaves a consistent set of records that were `restorable`, and what
was replaced for certain never is again. The mapping is `reviews <- Readable`
(the records of the index with their manifest and blobs, stray ones aside),
`deleting <- Deleting`, `open <- at # "down"` and
`restorable <- UNION mayIndex`.

### ReviewService

The repository is a log of jj operations, each with the content of the selected
changes. A record has a list of snapshots (operation, content, number of
changes) and threads with their messages (who wrote each, and its text), the
snapshot they are anchored to and the one they are shown in. An actor looks, asks, waits in `queue` and runs
at its head. A capture is two steps, so jj may move between them; the queue
keeps everybody else out. `seen` is what the actor read before it asked:
whatever the code compares with the record on execution (expected snapshot,
expected `updatedAt`, the review it agreed to archive, the agent's binding) is
compared with it. `revision` counts changes of a thread and is not in the code:
it is what `updatedAt` stands for. A refresh may find each thread or lose it;
which one, `commentProjection.ts` decides from the lines.

### Bridge

A connection, its registration and its session have one number. `link` is the
daemon's end (`pending` until accepted, `open`, `broken` when its reader has
stopped, `closing` while `disconnected` waits, `gone`), `hungUp` the clients
that closed theirs. `task` holds the request of each connection that the
daemon runs: after `Read` it runs at any time, also after the connection has
closed, as a spawned tokio task does. `outbox` is what a window has been sent.
A window's operations run one at a time (`#enqueue`), so each starts when the
window is settled. Numbers are reused when nothing refers to them, which keeps
the system running for ever under a bound on connections. What goes wrong is a
`Mishap`, each kind switched on by `Mishaps` and all counted together. The
`Root` of two windows is the same in `bridge_windows`, where the repository
lock keeps the second one out until the first has closed.

What the daemon decides under its lock and what it sends after giving the lock
up are steps of their own, so a message may overtake another: `CallTool` picks a
window and `Forward` sends the call; `RemovePeer` leaves a `farewell` to each
window and `Farewell` sends it; `FinishConnect` and `CloseSession` decide what
`TellWindow` sends. The daemon's wait for the answer to a close is not a step of
its own. The registry is a map by workspace, so a registration that gets past
the check replaces the one there is. A window that is told of a duplicate is
`taken`: it has no timer, and only switching it off and on (`Restart`) makes it
dial again. `connected` in a context is for the property only: whether a
connect of the session succeeded over this connection.

### BridgeClient

The other end of the bridge: `client` is `BridgeClientState` (connection, root,
`workspace_bound`) and the holder of the reconnect mutex, `call[k]` is one tool
call, a task of its own, at a place named by `pc` between two awaits. A call
gets a connection (`UseConnection`, or the mutex and `Reconnect`), restores the
workspace if the connection has none (`BeginRestore` to `Restored`), polls while
no workspace is registered (`Pause`, `Poll`, `PollingExpires`), and retries once
what changes nothing (`ConnectionError`). `request[k]` is the call's last
request wherever it is, also after the call has given it up: a window that has
it in hand still carries it out. The daemon and the windows are reduced to what
a frontend can tell apart: open connections, the `binding` of each, the
`registered` roots. Connections are numbered by the mishaps that made them
necessary. `told` is for the property only: the roots the agent may believe its
session to be at, one unless connects overlap or fail. `SessionIsWhereTold` says
that the session is bound nowhere else, and that a session in which nothing was
connected yet, such as the new one after a reconnect, is not taken for bound.
Two things the code lets
happen are within what `SessionIsWhereTold` allows: a connect that succeeds on a
connection that is no longer the client's is reported and not remembered, and a
connect the window refuses unbinds the session while the client goes on taking
it for bound, so the next tool is answered that it has to connect first.

### ReviewSelection and ProcessRunner

A repository is every commit there is or will be (`store`) and views of it, the
commits visible at an operation and the one the working copy is on. A command
reads the answer of one revset per step, `ReadAt` the operation its session was
opened at, while `Move` takes jj elsewhere between two reads; `jj log` may
order unrelated commits in any way that puts parents first. The revset of a user
is any set of commits, hidden ones too: jj finds a superseded commit by its id,
and the code lists what jj answers (`NamedStacks`). `Expected` says what each
command is for: the stack of single-parent, conflict-free, undivergent commits with
the ends or changes asked for, of visible commits unless a revset named others. No
store has a merge with the root among its parents, which jj does not make. `Only`
is `filter`, written as a recursive function because the provers know nothing of
`SelectSeq`.

In `ProcessRunner` a request has a `stage` from its call to its answer,
`active` and `waiters` are the semaphore's fields, and a permit is handed to
the first waiter before that goes on, which is a step of its own: an abort may
come in between. `MCJj` puts both modules side by side, each at rest while the
other runs, since they share nothing.

### GitPatch and CommentAnchors

A content is a sequence of Git lines, each a text and whether its newline is
missing. `Scripts` are all alignments of two contents, minimal or not, any of
which jj may print; `HunksOf` groups one into hunks with context, and `Section`
adds the headers. The parser is then run on that: `ReadHunk` takes the body of a
hunk line by line with `ReadLine`, which numbers lines; `PathPairs` cuts a
header, which has both paths in one string, where it agrees with all else that is
known. One cut that leaves no path at all (`Malformed`: a directory named ` b`)
and the whole patch is refused (`HeaderAccepted`). `ManifestIsTrue` compares the manifest with the change the patch was made
of, the reference definition.

`CommentAnchors` keeps one thread over refreshes to any other set of changes
(`Trees`; `IsChange` says what jj lists of a file, by its status). `Patches` is
every choice of a section for each of them, and `Reading` what comes of it.
`LineAnchor` is `buildAnchor` (in the hunk for lines a hunk shows, in the
document for others), `Projection` is `findProjection`, `Placements` is where
the editor shows the result. Fingerprints are replaced by what they are hashes
of. The editor ends a line at a CRLF, a line feed or a carriage return, and Git
at a line feed only. A text is a sequence of words with a carriage return after
each but the last, so that one in a CRLF file ends in `Blank`: its line in the
document has no carriage return (`DocumentLines`), the one in the hunk keeps it
(`ReadsAs`), and only a lone carriage return gives a text a second line
(`Broken`), after which the two number lines differently (`UnbrokenTo`).

### CommentController

`stored` is the thread as it is in the store, `shown` what each document
renders of it: messages with the version (`seen`) they stand for and whether a
draft is open in them. `requested` and `worker` are the fields of the same
name; `pass` is what a running `rebuild` knows. A `rebuild` waits only for the
store, so it is two steps, `Read` and `Show`. A mutation is stored (`Execute`,
`Answer`, `ChangeReview`) and then announced (`Announce`). A command carries the
version it expects and, for the property only, the messages it is based on: those
shown in the editor or, for resolve and reopen in the Comments tree, those that
`FindThread` has just read, whose version the command takes over.
`missed` too is for the property only.

## Runs and bounds

All passing runs end by exhausting their state space. `CHECK_DEADLOCK FALSE`
stands where the system may stop: every window closed, every budget spent.

| Run | Instance | Why it is enough |
| --- | --- | --- |
| `lock_clean` | 4 hosts, no faults | a holder, a contender that judges, and enough others coming and going to use up the 3 attempts |
| `lock_faults` | 2 hosts, both may die, one may sleep through its lease or fail to write, fairness | a displaced or dead owner and the one that takes over; a rival in the recovery is the subject of `lock_race` |
| `store` | 2 reviews, 2 blobs, 2 writes, 1 fault, 1 crash and 1 power loss of which 2 happen, 1 damaged manifest | a batch has at most two records, retention 1 prunes the second archived one; of two blobs one is left behind when the other fails, and is used again; a second mishap meets the recovery from the first |
| `service_lifecycle` | 2 users, 2 reviews, 1 thread, 2 operations, 2 changes, 4 timestamps | two users are the least that race, two reviews the least that are replaced |
| `service_agent` | 1 user, 1 agent, 2 reviews, 1 thread, fairness | the bound review and the one that replaced it; threads are independent of each other except in a batch; one request that fails and one that waits |
| `bridge_windows` | 2 windows of one workspace, no agents, limit 2, 4 connections, 2 mishaps of five kinds (daemon, connection, silence, toggle, death), fairness | an old connection, a new one and a successor's; a registration given up and carried out late |
| `bridge_agent` | 1 window, 1 agent, 2 connections, 2 calls in flight, limit 64, 2 mishaps of five kinds (daemon, connection, slow tool, toggle, death) | a failure while the window recovers from one; two calls and a farewell are the least that overtake each other |
| `frontend` | 2 workspaces, 2 calls, 2 mishaps of any kind, one tool of each sort | two calls are the least that overlap; a mishap during the recovery from one; a connect to another workspace during a restore |
| `jj` | all graphs of 3 commits with any assignment of changes, at most 1 conflict, 1 operation of jj between reads; 3 runs, 2 permits | a stack, a fork, a merge, and two versions of a change, visible or hidden, each fit; a run that waits while two have permits |
| `anchors` | contents of up to 3 lines over two words, also with CRLF and lone carriage returns, one or two files, 0 or 1 lines of context, 1 line stored around a target (3 and 5 in the code), 1 thread | lines that repeat, move, lose their newline or their file; a path with the delimiter of headers in it, and one that makes the patch refused; threads do not affect each other |
| `editor` | a diff and a History document of one place, 1 open at a time, 3 changes of a thread, 1 failure | two changes fall between what was edited and what is saved; each document is updated on its own |

Two windows of two workspaces, between which a session moves, are checked by
`bridge_agent` with `Window = {w1, w2}`, `MaxConnection = 3`, `MaxCalls = 1`,
`Mishaps = {"slow", "death"}`, `MaxMishaps = 1`, `SYMMETRY Windows` and the
invariants of both `bridge` runs: 2.5 million states, no violation. The type
invariants of `ReviewStore`, `ReviewService` and `Bridge` hold in their runs and
are left out of them to save time.

`lock_race` expects a violation: two contenders that recover a dead owner's
lock at once can both end up with the lock, since the rename does not look at
what it moves (`PROJECT.json`, "findings").

### Properties no run checks

Nineteen more statements about the code are refuted by TLC. They stay in the
modules next to the properties that hold; each is refuted by the configuration
named here with the change given.

| Property | Change | What happens |
| --- | --- | --- |
| `RefusalNamesLiveHolder` | `lock_faults` with it as PROPERTY and `Suspendable = Faulty = {}` | an empty lock file of a dead window refuses everybody for 24 hours in the name of a live host |
| `UncertainCommitIsWhole` | `store` with it as INVARIANT | after an index write whose sync failed, or after a crash before it, the next operation removes files the old index, which a power loss may bring back, still names |
| `AcknowledgedIsReadable` | `store` with it as INVARIANT | the first failed put or removal ends the wait for the others, which go on: the next operation finds such a blob, takes it for stored, and its acknowledged review loses it, to the removal or to a power loss |
| `NoStaleWrite` | `service_agent` with `StrictClock = FALSE` | changes are told apart by a millisecond timestamp, and two fall into one |
| `AgentWritesBoundSnapshot` | `service_agent` with it as PROPERTY | an agent's binding is checked before its write waits in the queue, and only the review is checked again |
| `ListedWorkspacesAreOpen` | `bridge_windows` with it as INVARIANT | a registration executed after the disconnection of its connection stays for as long as the daemon lives |
| `EnabledWindowsRegister` | `bridge_windows` with it as PROPERTY | a registration given up, by the window or by the one before it, is carried out nevertheless, the next one is refused as a duplicate of it, and the window takes that as permanent |
| `CountedSessionsAreConnected` | `bridge_agent` with it as INVARIANT | a connect answered after its agent has left leaves the binding and the window's context behind |
| `CallsFindTheirContext` | `bridge_agent` with it as PROPERTY | a call whose window is picked is overtaken by the close of its session, and the window makes a new context for it that nobody removes while the window stays connected |
| `BoundSessionsAreKnown` | `bridge_agent` with it as INVARIANT | the daemon gives up its lock between a window's answer and the change of the binding: a connect answered while its session is being closed binds it to a window that is told to forget it |
| `SelectionsAreVisible` | `jj` with it as INVARIANT | a revset names a superseded commit by its id, and the selection is accepted |
| `RequestsSettle` | `jj` without the fairness of `ChildExits` | a child that was killed but does not end, or whose output something else holds open, keeps its permit: the timeout only kills, and the run ends at the close event |
| `AnchorsExactlyWhatIsShown` | `anchors` with it as PROPERTY | in a CRLF file a comment on a hunk line is anchored in a text that ends in a carriage return, which the line shown does not have; after a lone carriage return the editor's line numbers are ahead of Git's, and the text is another line's |
| `EveryPatchIsAccepted` | `anchors` with it as INVARIANT | the header of a file in a directory named ` b` can be cut where no path is left, and the assertion of that fails the whole patch |
| `ShownOnce` | `anchors` with it as INVARIANT | a file was renamed and a new one is at its old path: an old-side thread is shown in the original documents of both |
| `HistoryDoesNotMatter` | `anchors` with it as PROPERTY | the path a thread was last shown at is searched too, so whether it is found depends on the refreshes before |
| `TreeFindsWhatWasShown` | `editor` with it as PROPERTY | an item of the Comments tree bears no version: resolve finds the thread as it is then, with an answer the user has not seen, and closes it |
| `FailuresAreRepaired` | `editor` with it as INVARIANT | a review that could not be read loses its threads in the editor until something else changes |
| `AnswersKeepDrafts` | `editor` with it as PROPERTY | an answer renders the thread anew, and a draft of an edit in it is gone |

### Fairness

Weak fairness only. `RepositoryLock`: the event loop finishes file operations
it has started and the heartbeat timer of a living process goes on firing.
`ProcessRunner`: ready continuations run, the timer fires, and a killed child
ends. `ReviewService`: the operation at the head of the queue ends, by success or by
failure, since jj runs under a timeout. `Bridge`: tasks and read loops that can
go on do, a client that has begun to connect goes on, timers fire, and the idle
timer ends an idle daemon. `BridgeClient` has none: what it says of progress is
an invariant, that a call which has not returned can go on or waits for one that
can. `CommentAnchors` and `CommentController` assume none:
that a refresh gets through is stated of the states in which the worker has
come to rest. Nothing obliges a user to open, ask, switch or
close, and no mishap is obliged to happen.

## Proofs

`RepositoryLockProofs` proves, for any set of hosts, attempts and faults:

- `TypeCorrect`: `TypeOK`, with one step per action.
- `HeartbeatsStayHome`: `FilesKeepTheirOwner`. It is not inductive alone: a
  truncated file may be written only by a host whose verified handle is its
  own file (`VerifiedHandles`); together they are `OwnFiles`.
- `VerdictsAreSound`: `OnlyDeadLocksCondemned`, whatever crashes, sleeps or
  fails to write, of the hosts that do not sleep or fail themselves
  (`Reliable`). Added to `OwnFiles`, for those hosts: the stamp of an owner is
  fresh (`OwnersStamp`) and what is at the lock path belongs to an owner or a
  dead host (`PathHasOwner`); together `SoundVerdicts`.
- `OneWriter`: `MutualExclusion`, when no host dies, sleeps or fails to write
  (`NothingStale`): an owner's file stays at the lock path (`OwnersLinked`). The
  assumption is needed: with a crash `lock_race` is a counterexample.
- `RefusalsAreTrue`: the action property `RefusalNamesLiveHolder`, from the
  same invariant. With a crash it is refuted (see above).

`ReviewStoreProofs` proves, for any reviews, blobs and retention and any number of
failed file operations, crashes, power losses and damaged manifests:

- `MemoryIsDisk`: `MemoryMatchesDisk`, from what the index in memory and the next
  one have to do with the disk at each place (`Agree`).
- `OpenStoreIsReadable`: every review the index of an open store names has a
  manifest that parses. It needs that versions are used once (`VersionsAreOld`,
  `BatchIsNew`), so that undoing a batch takes nothing the index names, and that
  what the next index will name is written before it (`NextIsThere`).
- `AcknowledgedManifestsAreKept`: what an acknowledged write or deletion left is on
  stable storage, as far as manifests and the index go. `FilesAreSafe` says which
  indexes a power loss may bring back at each place, and that their manifests are
  there and synced.
- `AcknowledgedIsKept`: `AcknowledgedIsDurable`, blobs included but for stray ones.
  `BlobsInv` says which blobs may be unsynced: those an operation in hand puts, and
  after a fault some that no index names; and which puts and removals there are
  (`OnePutEach`): those of the operation in hand, and of stray blobs. Of stray blobs
  the same is refuted (above).
- `UnusedIsReclaimed`: `SpaceIsReclaimed`, from what garbage collection still has
  to remove at each place (`SpaceInv`).
- `StoreIsAtomic`: the store implements `AtomicReviews` under the mapping above.
  Initial states map to initial states, and each action to a commit, a deletion, a
  crash, a reopening or a stutter; what makes it go through is that an index that
  was written names whole records (`RecordsInv`) and that what was acknowledged is
  safe.

`ReviewServiceProofs` proves, for any reviews, threads, users, agents, workloads and
timestamps, from one invariant, `ServiceInv`:

- `AtMostOneActive`: `OneActiveReview`. A capture ends long after it was begun, and
  what it was begun for is still so (`CapturesStayValid`), since whoever captures
  is at the head of the queue (`CapturesAtHead`).
- `SnapshotsOnlyMoveForward`: `SnapshotsMoveForward`. What a user saw of a review was
  so at the operation he saw it at (`PicturesWereTrue`), which an include builds on.
- `ThreadsFollowTheSnapshot`: `ShownInCurrentSnapshot`.
- `ArchivedReviewsAreKept`, `AgentMessagesAreKept`, `OnlyConfirmedAreArchived`,
  `AgentsStayInTheirReview`: the action properties `ArchivedIsReadOnly`,
  `AgentMessagesStay`, `ArchivesWhatWasConfirmed` and `AgentWritesBoundReview`.
- `NobodyWritesBlindly`: `NoStaleWrite`, of any clock, as long as no two changes of
  one thread bear the same timestamp (`ChangesAreDated`): a thread is then as it was
  seen, or its timestamp is a later one (`StampsTell`). The run has a clock that gives
  no timestamp twice (`StrictClock`); without any such condition `NoStaleWrite` is
  refuted (above).

`BridgeProofs` proves, for any windows, frontends, workspaces, limits and mishaps:

- `TypesAreKept`: `TypeOK`.
- `WindowsAreFound`: `RegisteredWindowsAreFound`, that a window that shows itself as
  registered has its workspace in the registry as long as its connection stands.
  The request of a window's connection stays what it was (`Registering`), it is not
  carried out before it is served (`NotYet`), once carried out with success it has
  entered its workspace (`DoneIsFound`), and nobody else removes or replaces the
  entry (`EntryStays`): a second registration of the workspace is refused.
- `ConnectionsAreClosed`: `OneConnection`. A connection is of one client, which has
  hung up all others (`WindowsHold`, `FrontendsHold`), and what is closed stays
  closed until its number is forgotten. The count of connections by which the
  daemon ends is right with them (`ConnectionsAreCounted`).
- `ContextsGoWithTheConnection`: no two clients share a connection, and a window
  without one knows no session.
- `CallsReachTheirSession`: `CallsFindTheirSession`, for any number of calls in flight:
  no window is sent a tool of a session but after a connect of the session that
  succeeded over the same connection. `SessionsAreTold` says so of all that leads to
  a message: each binding, each call that has been picked, each farewell and each
  message names a session the window was told of (`Told`), or asks for the connect
  itself (`Asks`). A dial forgets all of it (`DialForgets`); bindings, targets and
  messages come of one another (`BindingComes`, `TargetsCome`, `MessagesCome`). That
  the window still has the session's context by then does not hold
  (`CallsFindTheirContext`, above).

`BridgeClientProofs` proves, for any workspaces and tools and any number of calls and
mishaps:

- `RetriesAreSafe`: `ChangesHappenOnce`. A request for a change belongs to a call that
  waits for it or has given it up for good (`RequestsAreSent`), so none is sent
  again.
- `SessionsAreWhereTold`: `SessionIsWhereTold`. The requests that may still bind the
  session, of calls that wait and of calls that gave up, are all for workspaces
  the agent was told of or is connecting to (`RequestsAreKnown`), and the connect
  after which the agent knows of one workspace only has nobody connecting
  beside it (`AloneIsAlone`). What the client takes for bound was connected once;
  that it still is, is not claimed (see the module above).
- `NobodyWaitsForNothing`: that a call which has not returned can go on or waits
  for one that can, with the guards of the actions in place of ENABLED
  (`CallsCanGoOn`), and that at most one call dials (`WaitInv`).

`CommentControllerProofs` proves, for any documents, versions and failures:

- `RestShowsTheStore`: `RestIsUpToDate`. A pass is about what there is unless another
  one is requested (`PassIsCurrent`); that comparing signatures suffices to
  leave a document alone needs that messages that look the same are the same
  (`TextsAreTold`).
- `CommandsHitWhatWasRead`: `CommandsActOnWhatWasRead`, since a version that is
  shown, found or expected by a command has the messages it has in the store
  (`VersionsAreTold`). For a command of the Comments tree, what was read is not what
  was seen (`TreeFindsWhatWasShown`, above).
- `CommandsEndShown`: `ResultIsShown`, from the pass that follows a command
  (`CommandIsFollowed`).
- `DraftsAreKept`: `DraftsStay`.

`JjProofs` proves, for graphs of any number of commits and conflicts and any number
of moves of the user, and for any set of runs and any limit:

- `SelectionsAreExact`: `SelectionsMatchOperation`, the algorithms of all six commands
  against their reference definition, whatever set of commits jj answers to a revset with,
  hidden ones too. Three facts carry it. The numbers along
  a stack ascend, so stacks are bounded and the set of its commits has one
  order only in which parents come first (`AscendingUnique`, `StackIsOrdered`,
  `StackOrder`): what jj lists is the stack if it has the same commits. What a
  revset returns for a stack is the stack: `x::y` of its ends (`DagOfStack`),
  the versions of its changes (`VersionsOfStack`), `ancestors(c, n)` of its last
  commit (`GenerationsOfStack`). And what `validateCommits` accepts is a stack
  (`ValidIsStack`, `SelectionOf`). The walk of `buildHistoryPage` is unfolded
  step by step (`WalkUnfold`); each stack that ends at the head is a part of the
  path it finds (`StacksFollowPath`), and each part of that path is a stack
  (`PathStacks`). `SelectionInv` adds to the property only that the first read of
  an extension was accepted as the stored stack (`ReadsAccepted`); TLC has
  checked it on the instance of `jj`.
- `PermitsConserved`: `PermitsAreConserved`. It speaks of the number of runs
  that hold a permit, so each step adds or removes one from that set or hands
  its permit on. It is inductive with `RunnerInv`: the queue holds each waiting
  run once and no other (`QueueOK`), and a living child belongs to a running
  request (`ChildrenRun`).
- `AbortsAreHeeded`: the action property `AbortedNeverSpawns`, from the same
  invariant.

`CommentAnchorsProofs` proves, for any sets of changes, contexts and numbers of
stored lines:

- `ManifestsAreTrue`: `ManifestIsTrue`, the printer and the parser against the
  change between them, for contents of any length, any alignment of them and every
  patch whose headers have no malformed cut. The lines a script keeps,
  deletes and adds are the lines of each content in order
  (`ScriptsAreScripts`), and its hunks are its runs, in order and apart
  (`HunksAreRuns`). Within one, the body is the concatenation of what is printed
  for each line (`FlatIsJoined`), and after each of these pieces the parser has
  read that line and stands at its number on both sides (`HunksAreReadInTurn`,
  `HunkIsRead`): so the counts of the header are met (`HunkIsAccepted`) and
  each line is read under its number. What no hunk shows was kept, on both
  sides (`HunksShowKept`, `UnprintedIs`). Of the headers: the status
  (`StatusIsFound`) and the metadata (`MetadataIsAccepted`) are those of the
  change, and of all cuts of the header one alone agrees with a path that is
  known (`CutIsFound`), which jj's list always has (`PathsAreFound`). Two changes
  of a set have different paths, so they have different entries
  (`ReadingsAreManifests`).
- `UnchangedKeeps`: `UnchangedFileKeepsThread`. A current thread is where its anchor
  is found in some file of the manifest that bears its path (`FoundIn`), from
  its creation on and whatever files it went through.
- `CurrentIsExact`: `CurrentMeansExact`, from the same invariant and what an anchor
  has of its document or hunk (`AnchorIsWhole`).
- `AnchorsAreShown`: `AnchorsWhatIsShown`.

The last two are about files with any line ends. An anchor in the document has the
text of the document's line. What a hunk has on a side is in the document under its
number (`LinesAreShown`, `DocumentsAreShown`, from the first theorem), up to the
carriage return of a CRLF, unless a lone carriage return comes before it
(`HunkTextIsShown`); without these two exceptions it is refuted
(`AnchorsExactlyWhatIsShown`, above). What a set of changes is, for all
theorems, say `TreesAssumption`, that jj lists finitely many files, with the
paths and contents their status calls for, no two with the same pair of paths,
and `AnchorsAssumption`; `UnreadableAssumption` says that `Unreadable` is no
manifest.

The assumptions on constants are those of the modules, which every run
evaluates; what a theorem assumes beyond them is named above. Invariants were
run through TLC before they were proved. Where a definition recurs over a
sequence, the proofs argue by induction over the set of the lengths it is right
for, since the library's induction theorems, which take an operator as a
parameter, are beyond the provers.

What is only model-checked:

- liveness, and what is stated with ENABLED (`NoCallIsStuck`): outside what the
  prover does; of `NoCallIsStuck` the guards are proved;
- what concerns two modules at once: nothing is proved of the lock and the store
  together.

## Not modelled

- Of the bridge: a window that does not answer the close of a session for 30 seconds.
- Renaming a review, reading operations, paging of comments: no property of the
  above depends on them.
- Of jj access: the check of its capabilities, templates, the parsing of what it
  prints, workspace discovery, the reading of patches and files, and the probing
  and concurrency limits of a capture. They run jj and map its output.
- Of the patch parser: quoting of paths, file modes, link targets, size limits.
- Of the frontend: the MCP protocol with the agent, argument schemas.
  `list_workspaces` is a tool of `BridgeClient` but not of its run: a call that
  changes nothing and needs no workspace. A connection the client gives up
  because the daemon reported the window's loss stays open until the frontend
  ends; the client does not see it again.
- A reader of the store that meets the removal of a manifest: the read is queued
  before the removal is.
- The views; revealing a comment.
- Installation, endpoints, schemas, formatting, logging.
- Locks of other machines, process identities, clock changes.

## Plan

1. `RepositoryLock`, `ProcessRunner`, `ReviewStore` with `AtomicReviews`,
   `ReviewService`, `BridgeClient`, `CommentController`: done, with the proofs of
   their safety properties.
2. `Bridge`: done, with the proofs of its safety properties.
3. `GitPatch` and `CommentAnchors`: done, with proofs that the parser reads what jj
   printed and of what a refresh does to a thread.
4. `ReviewSelection`: done, with the proof of its property.
5. Left: the composition of lock and store, two windows over one directory, from
   the clean lock to the store's promise for both.
