----------------------------- MODULE ReviewStore -----------------------------
(***************************************************************************)
(* The review store of one repository on disk, as ReviewStore, BlobStore   *)
(* and atomicWriteFile write it, by one process that can die at any step.  *)
(*                                                                         *)
(*   index.json        names, for each review, the manifest file that has  *)
(*                     its record                                          *)
(*   reviews/<id>.json one version of a record; every write makes a file   *)
(*                     with a new name, so a file is named by its record   *)
(*   blobs/<hash>.gz   the contents the records' snapshots refer to        *)
(*                                                                         *)
(* Each file is written by rename and then a sync of its directory.  What  *)
(* is renamed is visible at once and survives a crash of the process, but  *)
(* survives a power loss only after the sync; a removal is taken to be     *)
(* durable at once, the worse case.  runExclusive runs one operation at a  *)
(* time, so the store has one operation in flight and a place in it.  But  *)
(* blobs are put, and removed, all at once (Promise.all): the first that   *)
(* fails ends the wait, and the others go on behind whatever comes next.   *)
(***************************************************************************)
EXTENDS Naturals, FiniteSets

CONSTANTS Review, Blob, Retention,
          MaxVersion,      \* bound: records ever written
          MaxFaults,       \* bound: file operations that fail
          MaxCrashes,      \* bound: deaths of the process
          MaxLosses,       \* bound: power losses
          MaxTrouble,      \* bound: faults, crashes and losses together
          MaxDamage        \* bound: manifests damaged by something else

(* open would take a retention of 0, but the extension sets none: it is 20.*)
ASSUME StoreAssumption ==
    /\ Retention \in Nat \ {0}
    /\ MaxVersion \in Nat
    /\ MaxFaults \in Nat
    /\ MaxCrashes \in Nat
    /\ MaxLosses \in Nat
    /\ MaxTrouble \in Nat
    /\ MaxDamage \in Nat

VARIABLES diskIndex,    \* index.json: the records it names
          mayIndex,     \* the values index.json may have after a power loss
          manifests,    \* the manifest files
          looseFiles,   \* those a power loss may take back
          damaged,      \* those that do not parse
          blobs,        \* the blob files
          looseBlobs,   \* those a power loss may take back
          index,        \* #index of the running process
          at,           \* where the operation in flight is; "idle", "down"
          op,           \* what it is
          puts,         \* the puts of blobs under way, of any operation
          removals,     \* the removals of blobs the collection waits for
          leftovers,    \* how many nobody waits for are under way, by blob
          stray,        \* blobs a put or removal of which was left behind by
                        \* an operation that failed; for the properties only
          todo,         \* manifests it has still to write or to remove
          next,         \* the index it is about to commit
          clock,        \* versions handed out
          faults, crashes, losses,
          promised      \* the records of acknowledged operations that nothing
                        \* has begun to replace since

Files == <<diskIndex, mayIndex, manifests, looseFiles, damaged, blobs, looseBlobs>>
Tasks == <<puts, removals, leftovers, stray>>
Budget == <<clock, faults, crashes, losses>>
vars == <<Files, index, at, op, Tasks, todo, next, Budget, promised>>

Records == [review : Review, version : 1 .. MaxVersion, state : {"active", "archived"},
            stamp : 0 .. MaxVersion, blobs : SUBSET Blob]

Ids(records) == {r.review : r \in records}
Active(records) == {r \in records : r.state = "active"}
Archived(records) == {r \in records : r.state = "archived"}
Referenced(records) == UNION {r.blobs : r \in records}

NoOp == [kind |-> "none", batch |-> {}]
NoLeftovers == [b \in Blob |-> 0]

Init ==
    /\ diskIndex = {} /\ mayIndex = {{}}
    /\ manifests = {} /\ looseFiles = {} /\ damaged = {}
    /\ blobs = {} /\ looseBlobs = {}
    /\ index = {}
    /\ at = "down" /\ op = NoOp
    /\ puts = {} /\ removals = {} /\ leftovers = NoLeftovers /\ stray = {}
    /\ todo = {} /\ next = {}
    /\ clock = 0 /\ faults = 0 /\ crashes = 0 /\ losses = 0
    /\ promised = {}

-----------------------------------------------------------------------------
(* A file operation fails.  The fault point of atomicWriteFile before the  *)
(* rename leaves the destination alone; the one before the directory sync  *)
(* leaves it replaced (AtomicWriteError.destinationReplaced).              *)
Trouble == faults + crashes + losses

Fault ==
    /\ faults < MaxFaults /\ Trouble < MaxTrouble
    /\ faults' = faults + 1
    /\ UNCHANGED <<clock, crashes, losses>>

NoFault == UNCHANGED Budget

Finish == at' = "idle" /\ op' = NoOp /\ todo' = {} /\ next' = {}

-----------------------------------------------------------------------------
(* The batches the review service writes: one record, or a record archived *)
(* together with the one that becomes active.  A record keeps the stamp it *)
(* was archived with until it is active again.                             *)
NewRecord(r, state, content) ==
    [review |-> r, version |-> clock + 1, state |-> state,
     stamp |-> IF state = "active" THEN 0
               ELSE LET old == {p \in Archived(index) : p.review = r}
                    IN  IF old = {} THEN clock + 1
                        ELSE (CHOOSE p \in old : TRUE).stamp,
     blobs |-> content]

Batches ==
    {{NewRecord(r, s, c)} : r \in Review, s \in {"active", "archived"}, c \in SUBSET Blob}
      \cup {{NewRecord(p[1], "archived", c), NewRecord(p[2], "active", d)} :
              p \in {q \in Review \X Review : q[1] # q[2] /\ q[1] \in Ids(index)},
              c \in SUBSET Blob, d \in SUBSET Blob}

(* commitPreparedReviews first puts the contents of the new snapshots, some *)
(* of which older snapshots may share, all at once; putReviews and         *)
(* updateReview (kind "put") write records that refer to nothing new.      *)
Begin(kind, batch) ==
    /\ at = "idle"
    /\ clock < MaxVersion
    /\ batch \in Batches
    /\ kind = "put" => Referenced(batch) \subseteq Referenced(index)
    /\ clock' = clock + 1
    /\ at' = "staging"
    /\ op' = [kind |-> kind, batch |-> batch]
    /\ IF kind = "prepared"
       THEN \E content \in {Referenced(batch), Referenced(batch) \ Referenced(index)} :
               puts' = puts \cup {[blob |-> b, by |-> clock + 1, step |-> "look"] : b \in content}
       ELSE UNCHANGED puts
    /\ UNCHANGED <<Files, index, removals, leftovers, stray, todo, next, faults, crashes,
                   losses, promised>>

(* BlobStore.put: a blob that is there and reads back is not written again;*)
(* any other is renamed into its place, and then the directory is synced.  *)
(* Whoever began the put may be past waiting for it.                       *)
LookForBlob(p) ==
    /\ p.step = "look"
    /\ puts' = (puts \ {p}) \cup
                 (IF p.blob \in blobs THEN {} ELSE {[p EXCEPT !.step = "write"]})
    /\ NoFault
    /\ UNCHANGED <<Files, index, at, op, removals, leftovers, stray, todo, next, promised>>

WriteBlob(p) ==
    /\ p.step = "write"
    /\ puts' = (puts \ {p}) \cup {[p EXCEPT !.step = "sync"]}
    /\ blobs' = blobs \cup {p.blob}
    /\ looseBlobs' = looseBlobs \cup {p.blob}
    /\ NoFault
    /\ UNCHANGED <<diskIndex, mayIndex, manifests, looseFiles, damaged, index, at, op,
                   removals, leftovers, stray, todo, next, promised>>

SyncBlobs(p) ==
    /\ p.step = "sync"
    /\ puts' = puts \ {p}
    /\ looseBlobs' = {}
    /\ NoFault
    /\ UNCHANGED <<diskIndex, mayIndex, manifests, looseFiles, damaged, blobs, index, at, op,
                   removals, leftovers, stray, todo, next, promised>>

(* The puts the operation in flight waits for while it is staging.         *)
OwnPuts == {p \in puts : p.by = clock}

(* persistBlobs rejects with the first put that fails: the garbage is      *)
(* collected and the error rethrown, while the other puts go on.  One of   *)
(* those that fails is the same as one that never goes on.                 *)
PutBlobFails(p) ==
    /\ at = "staging"
    /\ p \in OwnPuts
    /\ Fault
    /\ at' = "collect"
    /\ puts' = puts \ {p}
    /\ stray' = stray \cup {q.blob : q \in OwnPuts}
    /\ UNCHANGED <<Files, index, op, removals, leftovers, todo, next, promised>>

-----------------------------------------------------------------------------
(* putReviewsUnlocked.                                                     *)

SnapshotsKept(batch) ==
    \A r \in batch, p \in index : r.review = p.review => p.blobs \subseteq r.blobs

Replaced(batch) == {p \in index : p.review \in Ids(batch)}

(* The archived reviews, newest first, beyond the retention.               *)
Pruned(records) ==
    {p \in Archived(records) :
        Cardinality({r \in Archived(records) : r.stamp > p.stamp}) >= Retention}

NextIndex(batch) ==
    LET all == (index \ Replaced(batch)) \cup batch
    IN  all \ Pruned(all)

(* The checks before the first write: the prepared blobs are there, no     *)
(* snapshot is changed or removed, at most one review is active.           *)
Accepts(batch) ==
    /\ op.kind = "prepared" => Referenced(batch) \subseteq blobs
    /\ SnapshotsKept(batch)
    /\ Cardinality(Active((index \ Replaced(batch)) \cup batch)) <= 1

Validate ==
    /\ at = "staging"
    /\ OwnPuts = {}
    /\ IF Accepts(op.batch)
       THEN /\ at' = "manifest"
            /\ todo' = op.batch
            /\ next' = NextIndex(op.batch)
            /\ UNCHANGED op
       ELSE IF op.kind = "prepared"
       THEN at' = "collect" /\ UNCHANGED <<op, todo, next>>
       ELSE Finish
    /\ NoFault
    /\ UNCHANGED <<Files, index, Tasks, promised>>

(* A mutation: the directory is not synced.                                *)
WriteManifest_NoSync(r) ==
    /\ at = "manifest"
    /\ r \in todo
    /\ manifests' = manifests \cup {r}
    /\ looseFiles' = looseFiles \cup {r}
    /\ todo' = todo \ {r}
    /\ NoFault
    /\ UNCHANGED <<diskIndex, mayIndex, damaged, blobs, looseBlobs, index, at, op, Tasks,
                   next, promised>>

WriteManifest(r) ==
    /\ at = "manifest"
    /\ r \in todo
    /\ manifests' = manifests \cup {r}
    /\ looseFiles' = looseFiles \cup {r}
    /\ todo' = todo \ {r}
    /\ at' = "manifestSync"
    /\ NoFault
    /\ UNCHANGED <<diskIndex, mayIndex, damaged, blobs, looseBlobs, index, op, Tasks, next,
                   promised>>

SyncManifest ==
    /\ at = "manifestSync"
    /\ looseFiles' = {}
    /\ at' = "manifest"
    /\ NoFault
    /\ UNCHANGED <<diskIndex, mayIndex, manifests, damaged, blobs, looseBlobs, index, op,
                   Tasks, todo, next, promised>>

(* The error path when the index was not replaced: remove the new          *)
(* manifests, then collect.                                                *)
WriteFails ==
    /\ \/ at = "manifest"
       \/ at = "manifestSync"
    /\ Fault
    /\ IF op.kind = "delete"
       THEN Finish
       ELSE /\ at' = "undo"
            /\ todo' = op.batch
            /\ UNCHANGED <<op, next>>
    /\ UNCHANGED <<Files, index, Tasks, promised>>

UndoManifest(r) ==
    /\ at = "undo"
    /\ r \in todo
    /\ todo' = todo \ {r}
    /\ \/ /\ manifests' = manifests \ {r}
          /\ looseFiles' = looseFiles \ {r}
          /\ NoFault
       \/ /\ Fault
          /\ UNCHANGED <<manifests, looseFiles>>
    /\ UNCHANGED <<diskIndex, mayIndex, damaged, blobs, looseBlobs, index, at, op, Tasks,
                   next, promised>>

Undone ==
    /\ at = "undo"
    /\ todo = {}
    /\ at' = "collect"
    /\ NoFault
    /\ UNCHANGED <<Files, index, op, Tasks, todo, next, promised>>

(* commitIndex: the rename is the commit.  What an earlier operation       *)
(* promised holds on until the rename that replaces it.                    *)
CommitIndex ==
    /\ at = "manifest"
    /\ todo = {}
    /\ diskIndex' = next
    /\ mayIndex' = mayIndex \cup {next}
    /\ promised' = promised \cap next
    /\ at' = "indexSync"
    /\ NoFault
    /\ UNCHANGED <<manifests, looseFiles, damaged, blobs, looseBlobs, index, op, Tasks,
                   todo, next>>

(* A mutation: only the replaced manifests are removed, not the pruned.    *)
SyncIndex_KeepsPruned ==
    /\ at = "indexSync"
    /\ mayIndex' = {next}
    /\ index' = next
    /\ todo' = Replaced(op.batch)
    /\ at' = "retire"
    /\ NoFault
    /\ UNCHANGED <<diskIndex, manifests, looseFiles, damaged, blobs, looseBlobs, op, Tasks,
                   next, promised>>

SyncIndex ==
    /\ at = "indexSync"
    /\ mayIndex' = {next}
    /\ index' = next
    /\ todo' = index \ next
    /\ at' = "retire"
    /\ NoFault
    /\ UNCHANGED <<diskIndex, manifests, looseFiles, damaged, blobs, looseBlobs, op, Tasks,
                   next, promised>>

(* Mutations: the error is taken for one before the rename, so the index   *)
(* in memory stays; so the new manifests are removed.                      *)
SyncIndexFails_KeepsOld ==
    /\ at = "indexSync"
    /\ Fault
    /\ Finish
    /\ UNCHANGED <<Files, index, Tasks, promised>>
SyncIndexFails_Undoes ==
    /\ at = "indexSync"
    /\ Fault
    /\ index' = next
    /\ at' = "undo"
    /\ todo' = op.batch
    /\ UNCHANGED <<Files, op, Tasks, next, promised>>

(* The index was replaced but its directory sync failed: the process goes  *)
(* on with the new index and reports an error.  Only                       *)
(* commitPreparedReviews collects before it rethrows.                      *)
SyncIndexFails ==
    /\ at = "indexSync"
    /\ Fault
    /\ index' = next
    /\ IF op.kind = "prepared"
       THEN at' = "collect" /\ UNCHANGED <<op, todo, next>>
       ELSE Finish
    /\ UNCHANGED <<Files, Tasks, promised>>

(* The operation has succeeded; the manifests it replaced or pruned go.    *)
RetireManifest(r) ==
    /\ at = "retire"
    /\ r \in todo
    /\ todo' = todo \ {r}
    /\ \/ /\ manifests' = manifests \ {r}
          /\ looseFiles' = looseFiles \ {r}
          /\ damaged' = damaged \ {r}
          /\ NoFault
       \/ /\ op.kind # "delete"
          /\ Fault
          /\ UNCHANGED <<manifests, looseFiles, damaged>>
    /\ UNCHANGED <<diskIndex, mayIndex, blobs, looseBlobs, index, at, op, Tasks, next,
                   promised>>

(* deleteReview reports a failure to remove the file.                      *)
RetireFails ==
    /\ at = "retire"
    /\ todo # {}
    /\ op.kind = "delete"
    /\ Fault
    /\ Finish
    /\ UNCHANGED <<Files, index, Tasks, promised>>

Retired ==
    /\ at = "retire"
    /\ todo = {}
    /\ at' = "collect"
    /\ promised' = (promised \cup op.batch) \cap index
    /\ NoFault
    /\ UNCHANGED <<Files, index, op, Tasks, todo, next>>

-----------------------------------------------------------------------------
(* deleteReview: the index first, then the file.                           *)
BeginDelete(r) ==
    /\ at = "idle"
    /\ r \in index
    /\ at' = "manifest"
    /\ op' = [kind |-> "delete", batch |-> {}]
    /\ next' = index \ {r}
    /\ NoFault
    /\ UNCHANGED <<Files, index, Tasks, todo, promised>>

(* garbageCollectUnlocked reads every record of the index, lists the blobs *)
(* and begins to remove all that no record refers to.  It fails before the *)
(* first removal if a record cannot be read.                               *)
Garbage == blobs \ Referenced(index)

Collect ==
    /\ at = "collect"
    /\ index \subseteq manifests \ damaged
    /\ at' = "collecting"
    /\ removals' = Garbage
    /\ NoFault
    /\ UNCHANGED <<Files, index, op, puts, leftovers, stray, todo, next, promised>>

RemoveBlob(b) ==
    /\ at = "collecting"
    /\ b \in removals \cap blobs
    /\ removals' = removals \ {b}
    /\ blobs' = blobs \ {b}
    /\ looseBlobs' = looseBlobs \ {b}
    /\ NoFault
    /\ UNCHANGED <<diskIndex, mayIndex, manifests, looseFiles, damaged, index, at, op,
                   puts, leftovers, stray, todo, next, promised>>

Collected ==
    /\ at = "collecting"
    /\ removals = {}
    /\ Finish
    /\ NoFault
    /\ UNCHANGED <<Files, index, Tasks, promised>>

(* Only open and deleteReview report a failed collection; open then gives  *)
(* the lock back.                                                          *)
EndCollection ==
    IF op.kind = "open"
    THEN at' = "down" /\ op' = NoOp /\ UNCHANGED <<todo, next>>
    ELSE Finish

CollectFails ==
    /\ at = "collect"
    /\ IF index \subseteq manifests \ damaged THEN Fault ELSE NoFault
    /\ EndCollection
    /\ UNCHANGED <<Files, index, Tasks, promised>>

(* The first removal that fails ends the collection, and the others go on: *)
(* rm without force fails for a blob that is gone already, too.            *)
RemoveBlobFails(b) ==
    /\ at = "collecting"
    /\ b \in removals
    /\ IF b \in blobs THEN Fault ELSE NoFault
    /\ EndCollection
    /\ removals' = {}
    /\ leftovers' = [c \in Blob |-> leftovers[c] + (IF c \in removals \ {b} THEN 1 ELSE 0)]
    /\ stray' = stray \cup (removals \ {b})
    /\ UNCHANGED <<Files, index, puts, promised>>

RemoveLate(b) ==
    /\ leftovers[b] > 0
    /\ leftovers' = [leftovers EXCEPT ![b] = @ - 1]
    /\ blobs' = blobs \ {b}
    /\ looseBlobs' = looseBlobs \ {b}
    /\ NoFault
    /\ UNCHANGED <<diskIndex, mayIndex, manifests, looseFiles, damaged, index, at, op,
                   puts, removals, stray, todo, next, promised>>

-----------------------------------------------------------------------------
(* open: read the index (no index counts as an empty one), drop the        *)
(* entries whose manifest is missing or damaged, quarantine the damaged    *)
(* files, commit the index if an entry was dropped, collect.               *)
Open ==
    /\ at = "down"
    /\ index' = diskIndex
    /\ op' = [kind |-> "open", batch |-> {}]
    /\ at' = "recover"
    /\ next' = diskIndex \cap (manifests \ damaged)
    /\ todo' = diskIndex \cap manifests \cap damaged
    /\ NoFault
    /\ UNCHANGED <<Files, Tasks, promised>>

Quarantine(r) ==
    /\ at = "recover"
    /\ r \in todo
    /\ todo' = todo \ {r}
    /\ manifests' = manifests \ {r}
    /\ looseFiles' = looseFiles \ {r}
    /\ damaged' = damaged \ {r}
    /\ NoFault
    /\ UNCHANGED <<diskIndex, mayIndex, blobs, looseBlobs, index, at, op, Tasks, next,
                   promised>>

Recovered ==
    /\ at = "recover"
    /\ todo = {}
    /\ IF next = index
       THEN /\ at' = "collect"
            /\ UNCHANGED <<diskIndex, mayIndex>>
       ELSE /\ at' = "recoverSync"
            /\ diskIndex' = next
            /\ mayIndex' = mayIndex \cup {next}
    /\ NoFault
    /\ UNCHANGED <<manifests, looseFiles, damaged, blobs, looseBlobs, index, op, Tasks,
                   todo, next, promised>>

SyncRecovered ==
    /\ at = "recoverSync"
    /\ mayIndex' = {next}
    /\ index' = next
    /\ at' = "collect"
    /\ NoFault
    /\ UNCHANGED <<diskIndex, manifests, looseFiles, damaged, blobs, looseBlobs, op, Tasks,
                   todo, next, promised>>

OpenFails ==
    /\ at \in {"recover", "recoverSync"}
    /\ Fault
    /\ at' = "down"
    /\ op' = NoOp
    /\ UNCHANGED <<Files, index, Tasks, todo, next, promised>>

(* close waits for the operation in flight, not for what others left.      *)
Close ==
    /\ at = "idle"
    /\ at' = "down"
    /\ NoFault
    /\ UNCHANGED <<Files, index, op, Tasks, todo, next, promised>>

-----------------------------------------------------------------------------
(* The environment.                                                        *)

Crash ==
    /\ at # "down"
    /\ crashes < MaxCrashes /\ Trouble < MaxTrouble
    /\ crashes' = crashes + 1
    /\ at' = "down"
    /\ op' = NoOp
    /\ puts' = {} /\ removals' = {} /\ leftovers' = NoLeftovers
    /\ UNCHANGED <<Files, index, stray, todo, next, clock, faults, losses, promised>>

(* A power loss takes back what was not synced.  After an index write that *)
(* a fault or a crash left unsynced it is not considered: there the        *)
(* promise does not hold (UncertainCommitIsWhole below).                   *)
PowerLoss ==
    /\ faults + crashes > 0 => mayIndex = {diskIndex}
    /\ losses < MaxLosses /\ Trouble < MaxTrouble
    /\ losses' = losses + 1
    /\ at' = "down"
    /\ op' = NoOp
    /\ diskIndex' \in mayIndex
    /\ mayIndex' = {diskIndex'}
    /\ \E f \in SUBSET looseFiles : manifests' = manifests \ f
    /\ looseFiles' = {}
    /\ \E b \in SUBSET looseBlobs : blobs' = blobs \ b
    /\ looseBlobs' = {}
    /\ puts' = {} /\ removals' = {} /\ leftovers' = NoLeftovers
    /\ UNCHANGED <<damaged, index, stray, todo, next, clock, faults, crashes, promised>>

(* Between two sessions something else damages a manifest or removes it.   *)
Damage(r) ==
    /\ at = "down"
    /\ r \in manifests \ damaged
    /\ Cardinality(diskIndex \ (manifests \ damaged)) < MaxDamage
    /\ \/ damaged' = damaged \cup {r} /\ UNCHANGED <<manifests, looseFiles>>
       \/ manifests' = manifests \ {r} /\ looseFiles' = looseFiles \ {r} /\ UNCHANGED damaged
    /\ promised' = promised \ {r}
    /\ NoFault
    /\ UNCHANGED <<diskIndex, mayIndex, blobs, looseBlobs, index, at, op, Tasks, todo, next>>

-----------------------------------------------------------------------------
Put ==
    \/ \E kind \in {"prepared", "put"}, batch \in Batches : Begin(kind, batch)
    \/ \E p \in puts : LookForBlob(p) \/ WriteBlob(p) \/ SyncBlobs(p) \/ PutBlobFails(p)
    \/ Validate
    \/ \E r \in todo : WriteManifest(r) \/ UndoManifest(r) \/ RetireManifest(r)
    \/ SyncManifest \/ WriteFails \/ Undone
    \/ CommitIndex \/ SyncIndex \/ SyncIndexFails \/ RetireFails \/ Retired

Next ==
    \/ Put
    \/ \E r \in index : BeginDelete(r)
    \/ Collect \/ Collected \/ CollectFails
    \/ \E b \in Blob : RemoveBlob(b) \/ RemoveBlobFails(b) \/ RemoveLate(b)
    \/ Open
    \/ \E r \in todo : Quarantine(r)
    \/ Recovered \/ SyncRecovered \/ OpenFails \/ Close
    \/ Crash \/ PowerLoss
    \/ \E r \in diskIndex : Damage(r)

Spec == Init /\ [][Next]_vars

-----------------------------------------------------------------------------
Places == {"down", "idle", "staging", "manifest", "manifestSync", "indexSync", "undo",
           "retire", "collect", "collecting", "recover", "recoverSync"}

TypeOK ==
    /\ diskIndex \subseteq Records /\ index \subseteq Records /\ next \subseteq Records
    /\ mayIndex \subseteq SUBSET Records /\ diskIndex \in mayIndex
    /\ manifests \subseteq Records /\ looseFiles \subseteq manifests
    /\ damaged \subseteq manifests
    /\ blobs \subseteq Blob /\ looseBlobs \subseteq blobs
    /\ at \in Places
    /\ op.kind \in {"none", "prepared", "put", "delete", "open"}
    /\ puts \subseteq [blob : Blob, by : 1 .. MaxVersion, step : {"look", "write", "sync"}]
    /\ removals \subseteq Blob /\ leftovers \in [Blob -> Nat] /\ stray \subseteq Blob
    /\ todo \subseteq Records
    /\ clock \in 0 .. MaxVersion /\ faults \in 0 .. MaxFaults
    /\ crashes \in 0 .. MaxCrashes /\ losses \in 0 .. MaxLosses
    /\ promised \subseteq Records

(* The reviews a reader that opened the directory now would get in full,   *)
(* but for contents that are stray.                                        *)
Readable == {r \in diskIndex : r \in manifests \ damaged /\ r.blobs \subseteq blobs \cup stray}

(* The review being deleted: the index is still to be committed.           *)
Deleting == IF op.kind = "delete" THEN index \ next ELSE {}

(* Whatever step the process died at and whatever write failed, the        *)
(* directory holds a whole number of batches: no review is half replaced,  *)
(* no archive-and-start shows two active reviews or none, collection and   *)
(* recovery take no blob and no entry of a review nobody asked to delete.  *)
(* After a power loss too it is one consistent set, of records committed   *)
(* before, and nothing that was replaced for certain comes back.           *)
Promise == INSTANCE AtomicReviews
             WITH reviews <- Readable, deleting <- Deleting, open <- at # "down",
                  restorable <- UNION mayIndex
ImplementsAtomicReviews == Promise!Spec

(* A record whose write was reported as a success, and that nothing has    *)
(* begun to replace, is on stable storage with its manifest and its blobs, *)
(* but for those that are stray: every state a power loss may leave has it.*)
AcknowledgedIsDurable ==
    \A r \in promised :
        /\ r \in manifests \ looseFiles
        /\ r.blobs \ stray \subseteq blobs \ looseBlobs
        /\ \A i \in mayIndex : r \in i

(* No acknowledged record loses a blob while the process lives.            *)
AcknowledgedIsReadable ==
    at # "down" => \A r \in promised : r.blobs \subseteq blobs

(* After a commit whose index sync failed, the old index may come back     *)
(* with a power loss: either index finds all it names.                     *)
UncertainCommitIsWhole ==
    \A i \in mayIndex : \A r \in i :
        r \in manifests \ damaged /\ r.blobs \subseteq blobs

(* Between operations the process and the disk agree on the index, also    *)
(* after a commit that failed half way (commitIndex sets #index only from  *)
(* destinationReplaced).                                                   *)
MemoryMatchesDisk == at = "idle" => index = diskIndex

(* Nothing unreferenced is kept: while no file operation fails the blobs   *)
(* at rest are those of the index, even after crashes and power losses,    *)
(* and while the process does not die either so are the manifests.         *)
SpaceIsReclaimed ==
    at = "idle" /\ faults = 0 =>
        /\ blobs \subseteq Referenced(index)
        /\ crashes + losses = 0 => manifests = index
=============================================================================
