--------------------------- MODULE RepositoryLock ---------------------------
(***************************************************************************)
(* The review store's writer lock: the file writer.lock through which the  *)
(* extension hosts (VS Code windows) that open one repository decide which *)
(* of them writes its review store.                                        *)
(*                                                                         *)
(* A host is one call of RepositoryLock.acquire, with its own nonce, and   *)
(* the process that made it; a window that retries is a further host.  A   *)
(* host creates at most one file, so a file is named by the host that      *)
(* created it, whatever its directory entry is at the moment: an open      *)
(* handle keeps writing to the file it opened after the file was renamed   *)
(* away.  All hosts are on one machine: a lock of another machine is never *)
(* recovered, so it can only be refused.                                   *)
(***************************************************************************)
EXTENDS Naturals, FiniteSets

CONSTANTS Host,         \* the acquire calls
          NoFile,       \* no directory entry at the lock path
          Crashable,    \* hosts whose process may die
          Suspendable,  \* hosts that may stop running for longer than a lease
          Faulty,       \* hosts whose writes to the lock file may fail
          MaxAttempts   \* rounds of the acquire loop, 3 in the code

VARIABLES path,      \* the file the lock path names, or NoFile
          content,   \* what each file holds: the nonce of a host, or nothing yet
          age,       \* how old each file's last stamp is
          pc,        \* where each host is
          attempt,   \* the round of its acquire loop
          verdict,   \* the file it found stale and is about to remove
          beat,      \* where its heartbeat is
          handle,    \* the file its heartbeat opened
          lost       \* its heartbeat has reported a lost lock

vars == <<path, content, age, pc, attempt, verdict, beat, handle, lost>>

FileVars == <<path, content, age>>
BeatVars == <<beat, handle, lost>>

Absent == "absent"          \* the file was never created
Malformed == "malformed"    \* created or truncated, not yet written

ASSUME HostAssumption ==
    /\ Host \cap {NoFile, Absent, Malformed} = {}
    /\ Crashable \subseteq Host
    /\ Suspendable \subseteq Host
    /\ Faulty \subseteq Host
    /\ MaxAttempts \in Nat \ {0}

Fresh == 0     \* stamped within the lease (30 s)
Expired == 1   \* older than the lease
Ancient == 2   \* older than the malformed-lock limit (24 h)

Acquiring == {"opening", "created", "cleaning", "reading", "statting", "renaming"}
Owning == {"holding", "releasing", "unlinking"}
Finished == {"refused", "exhausted", "failed", "released", "lost", "dead"}

Alive(h) == pc[h] # "dead"

-----------------------------------------------------------------------------
Init ==
    /\ path = NoFile
    /\ content = [h \in Host |-> Absent]
    /\ age = [h \in Host |-> Fresh]
    /\ pc = [h \in Host |-> "idle"]
    /\ attempt = [h \in Host |-> 0]
    /\ verdict = [h \in Host |-> NoFile]
    /\ beat = [h \in Host |-> "idle"]
    /\ handle = [h \in Host |-> NoFile]
    /\ lost = [h \in Host |-> FALSE]

(* acquire: the host has its nonce and enters the loop.                    *)
StartAcquire(h) ==
    /\ pc[h] = "idle"
    /\ pc' = [pc EXCEPT ![h] = "opening"]
    /\ attempt' = [attempt EXCEPT ![h] = 1]
    /\ UNCHANGED <<FileVars, verdict, BeatVars>>

(* open(lockPath, "wx") creates an empty file, or fails with EEXIST.       *)
OpenExclusive(h) ==
    /\ pc[h] = "opening"
    /\ path = NoFile
    /\ path' = h
    /\ content' = [content EXCEPT ![h] = Malformed]
    /\ age' = [age EXCEPT ![h] = Fresh]
    /\ pc' = [pc EXCEPT ![h] = "created"]
    /\ UNCHANGED <<attempt, verdict, BeatVars>>

OpenExists(h) ==
    /\ pc[h] = "opening"
    /\ path # NoFile
    /\ pc' = [pc EXCEPT ![h] = "reading"]
    /\ UNCHANGED <<FileVars, attempt, verdict, BeatVars>>

(* writeFile and sync put the nonce in the new file; the host owns the     *)
(* lock and its heartbeat timer runs.                                      *)
Stamp(h) ==
    /\ pc[h] = "created"
    /\ content' = [content EXCEPT ![h] = h]
    /\ age' = [age EXCEPT ![h] = Fresh]
    /\ pc' = [pc EXCEPT ![h] = "holding"]
    /\ UNCHANGED <<path, attempt, verdict, BeatVars>>

(* The write fails: acquire removes what the lock path names, ignores a    *)
(* failure to do so, and reports IO_ERROR.                                 *)
StampFails(h) ==
    /\ h \in Faulty
    /\ pc[h] = "created"
    /\ pc' = [pc EXCEPT ![h] = "cleaning"]
    /\ UNCHANGED <<FileVars, attempt, verdict, BeatVars>>

CleanUp(h) ==
    /\ pc[h] = "cleaning"
    /\ path' \in {path, NoFile}
    /\ pc' = [pc EXCEPT ![h] = "failed"]
    /\ UNCHANGED <<content, age, attempt, verdict, BeatVars>>

-----------------------------------------------------------------------------
(* recoverIfStale.  Each of its file operations is a step: the lock path   *)
(* can name another file at the next one.                                  *)

(* Mutations of the two judgements: a dead owner's lock must also be older *)
(* than the lease; every malformed lock is stale.                          *)
IsStale_NeedsBoth(owner, file) == ~Alive(owner) /\ age[file] # Fresh
MalformedIsStale_Always(file) == TRUE

(* A well-formed lock is stale unless its owner lives and its heartbeat is *)
(* within the lease.                                                       *)
IsStale(owner, file) == ~Alive(owner) \/ age[file] # Fresh

(* A malformed lock is stale by its modification time alone.               *)
MalformedIsStale(file) == age[file] = Ancient

(* recoverIfStale returned true: the next round of the loop, or "changed   *)
(* repeatedly".                                                            *)
NextAttempt(h) ==
    IF attempt[h] < MaxAttempts
    THEN /\ attempt' = [attempt EXCEPT ![h] = @ + 1]
         /\ pc' = [pc EXCEPT ![h] = "opening"]
    ELSE /\ pc' = [pc EXCEPT ![h] = "exhausted"]
         /\ UNCHANGED attempt

Refuse(h) ==
    /\ pc' = [pc EXCEPT ![h] = "refused"]
    /\ UNCHANGED <<attempt, verdict>>

Condemn(h) ==
    /\ verdict' = [verdict EXCEPT ![h] = path]
    /\ pc' = [pc EXCEPT ![h] = "renaming"]
    /\ UNCHANGED attempt

(* Mutations: a lock that was released between the open and the read is    *)
(* reported as held; it is not handled at all.                             *)
ReadLock_RefusesMissing(h) ==
    /\ pc[h] = "reading"
    /\ IF path # NoFile /\ content[path] = Malformed
       THEN /\ pc' = [pc EXCEPT ![h] = "statting"]
            /\ UNCHANGED <<attempt, verdict>>
       ELSE Refuse(h)
    /\ UNCHANGED <<FileVars, BeatVars>>
ReadLock_NeedsFile(h) ==
    /\ pc[h] = "reading"
    /\ path # NoFile
    /\ IF content[path] = Malformed
       THEN /\ pc' = [pc EXCEPT ![h] = "statting"]
            /\ UNCHANGED <<attempt, verdict>>
       ELSE Refuse(h)
    /\ UNCHANGED <<FileVars, BeatVars>>

ReadLock(h) ==
    /\ pc[h] = "reading"
    /\ \/ /\ path = NoFile
          /\ NextAttempt(h)
          /\ UNCHANGED verdict
       \/ /\ path # NoFile
          /\ content[path] = Malformed
          /\ pc' = [pc EXCEPT ![h] = "statting"]
          /\ UNCHANGED <<attempt, verdict>>
       \/ /\ path # NoFile
          /\ content[path] \in Host
          /\ IF IsStale(content[path], path) THEN Condemn(h) ELSE Refuse(h)
    /\ UNCHANGED <<FileVars, BeatVars>>

StatLock(h) ==
    /\ pc[h] = "statting"
    /\ \/ /\ path = NoFile
          /\ NextAttempt(h)
          /\ UNCHANGED verdict
       \/ /\ path # NoFile
          /\ IF MalformedIsStale(path) THEN Condemn(h) ELSE Refuse(h)
    /\ UNCHANGED <<FileVars, BeatVars>>

(* rename(lockPath, quarantinePath) moves whatever the path names by now;  *)
(* ENOENT counts as recovered.  The quarantine file has a random name and  *)
(* only this host removes it.                                              *)
RenameAway(h) ==
    /\ pc[h] = "renaming"
    /\ path' = NoFile
    /\ verdict' = [verdict EXCEPT ![h] = NoFile]
    /\ NextAttempt(h)
    /\ UNCHANGED <<content, age, BeatVars>>

-----------------------------------------------------------------------------
(* refreshLease, run by the heartbeat timer of an owner.  A failed beat    *)
(* sets heartbeatError for good; the timer goes on.                        *)

BeatOpen(h) ==
    /\ pc[h] = "holding"
    /\ beat[h] = "idle"
    /\ IF path = NoFile
       THEN /\ lost' = [lost EXCEPT ![h] = TRUE]
            /\ UNCHANGED <<beat, handle>>
       ELSE /\ beat' = [beat EXCEPT ![h] = "opened"]
            /\ handle' = [handle EXCEPT ![h] = path]
            /\ UNCHANGED lost
    /\ UNCHANGED <<FileVars, pc, attempt, verdict>>

(* Mutations: the nonce is not compared; a foreign nonce is not reported.  *)
BeatVerify_Unchecked(h) ==
    /\ Alive(h)
    /\ beat[h] = "opened"
    /\ beat' = [beat EXCEPT ![h] = "verified"]
    /\ UNCHANGED <<FileVars, pc, attempt, verdict, handle, lost>>
BeatVerify_Silent(h) ==
    /\ Alive(h)
    /\ beat[h] = "opened"
    /\ beat' = [beat EXCEPT ![h] = IF content[handle[h]] = h THEN "verified" ELSE "idle"]
    /\ UNCHANGED <<FileVars, pc, attempt, verdict, handle, lost>>

BeatVerify(h) ==
    /\ Alive(h)
    /\ beat[h] = "opened"
    /\ IF content[handle[h]] = h
       THEN /\ beat' = [beat EXCEPT ![h] = "verified"]
            /\ UNCHANGED lost
       ELSE /\ beat' = [beat EXCEPT ![h] = "idle"]
            /\ lost' = [lost EXCEPT ![h] = TRUE]
    /\ UNCHANGED <<FileVars, pc, attempt, verdict, handle>>

BeatTruncate(h) ==
    /\ Alive(h)
    /\ beat[h] = "verified"
    /\ content' = [content EXCEPT ![handle[h]] = Malformed]
    /\ age' = [age EXCEPT ![handle[h]] = Fresh]
    /\ beat' = [beat EXCEPT ![h] = "truncated"]
    /\ UNCHANGED <<path, pc, attempt, verdict, handle, lost>>

BeatWrite(h) ==
    /\ Alive(h)
    /\ beat[h] = "truncated"
    /\ content' = [content EXCEPT ![handle[h]] = h]
    /\ age' = [age EXCEPT ![handle[h]] = Fresh]
    /\ beat' = [beat EXCEPT ![h] = "idle"]
    /\ UNCHANGED <<path, pc, attempt, verdict, handle, lost>>

(* The truncate or the write fails; a truncated file stays truncated.      *)
BeatFails(h) ==
    /\ h \in Faulty
    /\ Alive(h)
    /\ beat[h] \in {"verified", "truncated"}
    /\ beat' = [beat EXCEPT ![h] = "idle"]
    /\ lost' = [lost EXCEPT ![h] = TRUE]
    /\ UNCHANGED <<FileVars, pc, attempt, verdict, handle>>

-----------------------------------------------------------------------------
(* release: stop the timer, wait for the beat in flight, read the lock and *)
(* remove it if the nonce is this host's.                                  *)

StartRelease(h) ==
    /\ pc[h] = "holding"
    /\ pc' = [pc EXCEPT ![h] = "releasing"]
    /\ UNCHANGED <<FileVars, attempt, verdict, BeatVars>>

OwnsPath(h) == path # NoFile /\ content[path] = h

ReleaseRead(h) ==
    /\ pc[h] = "releasing"
    /\ beat[h] = "idle"
    /\ pc' = [pc EXCEPT ![h] = IF OwnsPath(h) THEN "unlinking" ELSE "lost"]
    /\ UNCHANGED <<FileVars, attempt, verdict, BeatVars>>

(* rm(lockPath) without force: an error, ENOENT included, rejects release. *)
ReleaseUnlink(h) ==
    /\ pc[h] = "unlinking"
    /\ \/ /\ path # NoFile
          /\ path' = NoFile
          /\ pc' = [pc EXCEPT ![h] = "released"]
       \/ /\ path = NoFile \/ h \in Faulty
          /\ pc' = [pc EXCEPT ![h] = "lost"]
          /\ UNCHANGED path
    /\ UNCHANGED <<content, age, attempt, verdict, BeatVars>>

-----------------------------------------------------------------------------
(* The environment.                                                        *)

Crash(h) ==
    /\ h \in Crashable
    /\ pc[h] \notin Finished \cup {"idle"}
    /\ pc' = [pc EXCEPT ![h] = "dead"]
    /\ UNCHANGED <<FileVars, attempt, verdict, BeatVars>>

(* The heartbeat of a running owner keeps its file fresh.  A file ages when*)
(* nobody stamps it: its host is suspended, gone, or can no longer beat,   *)
(* a file left truncated having no nonce for a beat to verify.             *)
Unattended(h) ==
    \/ h \in Suspendable
    \/ pc[h] \in Finished
    \/ pc[h] = "holding" /\ content[h] = Malformed /\ beat[h] = "idle"

GrowOld(h) ==
    /\ path = h
    /\ Unattended(h)
    /\ age[h] # Ancient
    /\ age' = [age EXCEPT ![h] = @ + 1]
    /\ UNCHANGED <<path, content, pc, attempt, verdict, BeatVars>>

-----------------------------------------------------------------------------
Acquire(h) ==
    \/ OpenExclusive(h) \/ OpenExists(h) \/ Stamp(h) \/ StampFails(h)
    \/ CleanUp(h) \/ ReadLock(h) \/ StatLock(h) \/ RenameAway(h)

Heartbeat(h) ==
    \/ BeatOpen(h) \/ BeatVerify(h) \/ BeatTruncate(h) \/ BeatWrite(h)
    \/ BeatFails(h)

Release(h) == ReleaseRead(h) \/ ReleaseUnlink(h)

Next ==
    \E h \in Host :
        \/ StartAcquire(h) \/ Acquire(h) \/ Heartbeat(h)
        \/ StartRelease(h) \/ Release(h) \/ Crash(h) \/ GrowOld(h)

Spec == Init /\ [][Next]_vars

(* A living process finishes the file operations it has started, and its   *)
(* timer keeps firing; nothing obliges a window to open, close or crash.   *)
Fairness ==
    \A h \in Host : /\ WF_vars(Acquire(h))
                    /\ WF_vars(Heartbeat(h))
                    /\ WF_vars(Release(h))

FairSpec == Spec /\ Fairness

-----------------------------------------------------------------------------
TypeOK ==
    /\ path \in Host \cup {NoFile}
    /\ content \in [Host -> Host \cup {Absent, Malformed}]
    /\ age \in [Host -> {Fresh, Expired, Ancient}]
    /\ pc \in [Host -> {"idle"} \cup Acquiring \cup Owning \cup Finished]
    /\ attempt \in [Host -> 0 .. MaxAttempts]
    /\ verdict \in [Host -> Host \cup {NoFile}]
    /\ beat \in [Host -> {"idle", "opened", "verified", "truncated"}]
    /\ handle \in [Host -> Host \cup {NoFile}]
    /\ lost \in [Host -> BOOLEAN]

(* At most one host writes the review store: the purpose of the lock, on   *)
(* which every read-modify-write of ReviewStore relies (README.md:222,     *)
(* "serializes writes per repository").                                    *)
MutualExclusion ==
    \A g, h \in Host : pc[g] = "holding" /\ pc[h] = "holding" => g = h

(* A heartbeat or a late write never puts a nonce into, or truncates, a    *)
(* file another host created, whatever was renamed, removed or re-created  *)
(* at the lock path since it opened its handle.                            *)
FilesKeepTheirOwner ==
    \A f \in Host : content[f] \in {Absent, Malformed, f}

(* A host that sleeps no longer than its lease and whose writes succeed.   *)
Reliable(h) == h \notin Suspendable \cup Faulty

(* When recoverIfStale condemns the lock of a reliable host, that host is  *)
(* gone: the lock of one that still runs is never condemned, not in the    *)
(* window before the nonce is written and not in the one in which a        *)
(* heartbeat has truncated the file, whatever the other hosts do.          *)
OnlyDeadLocksCondemned ==
    \A h \in Host :
        pc[h] = "renaming" =>
            verdict[h] \in Host /\ (Reliable(verdict[h]) => ~Alive(verdict[h]))

(* LOCK_HELD is reported with "Another live InReview extension host holds  *)
(* the repository review-store lock": when a contender is refused, a       *)
(* living host has the lock.                                               *)
RefusalNamesLiveHolder ==
    [][\A h \in Host :
          pc[h] # "refused" /\ pc'[h] = "refused" =>
              \E g \in Host : pc[g] \in Owning \cup {"created"}]_vars

(* acquire returns: three rounds end in a lock or an error, however the    *)
(* lock file comes and goes between its file operations.                   *)
AcquireReturns ==
    \A h \in Host : pc[h] \in Acquiring ~> pc[h] \notin Acquiring

(* An owner whose lock file was taken away finds out: its heartbeat goes   *)
(* on and reports ownership-lost, unless the window closes or dies first.  *)
DisplacedOwnerNotices ==
    \A h \in Host :
        pc[h] = "holding" /\ path # h ~> lost[h] \/ pc[h] # "holding"

(* A dead window does not lock its successor out: a reliable contender     *)
(* that finds the dead owner's lock, and no rival, removes it and gets the *)
(* lock.                                                                   *)
DeadLockIsRecovered ==
    \A g, h \in Host :
        /\ pc[g] = "dead" /\ path = g /\ content[g] = g
        /\ pc[h] = "opening" /\ Reliable(h)
        ~> \/ pc[h] \in {"holding", "dead"}
           \/ \E k \in Host \ {g, h} : pc[k] # "idle"
=============================================================================
