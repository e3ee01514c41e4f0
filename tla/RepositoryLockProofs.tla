------------------------ MODULE RepositoryLockProofs ------------------------
(***************************************************************************)
(* What holds of the writer lock for any number of hosts.  The proofs go   *)
(* from types, to the files (a file only ever holds its creator's nonce),  *)
(* to verdicts (only a dead host's lock is condemned), to exclusion.       *)
(***************************************************************************)
EXTENDS RepositoryLock, TLAPS

LEMMA TypeInit == Init => TypeOK
  BY HostAssumption
  DEF Init, TypeOK, Fresh, Expired, Ancient

LEMMA TypeStep == TypeOK /\ [Next]_vars => TypeOK'
<1> SUFFICES ASSUME TypeOK, [Next]_vars
             PROVE  TypeOK'
  OBVIOUS
<1> USE HostAssumption
    DEF TypeOK, FileVars, BeatVars, Fresh, Expired, Ancient,
        Acquiring, Owning, Finished
<1>1. ASSUME NEW h \in Host, StartAcquire(h)
      PROVE  TypeOK'
  BY <1>1 DEF StartAcquire
<1>2. ASSUME NEW h \in Host, Acquire(h)
      PROVE  TypeOK'
  <2>1. CASE OpenExclusive(h)
    BY <2>1 DEF OpenExclusive
  <2>2. CASE OpenExists(h)
    BY <2>2 DEF OpenExists
  <2>3. CASE Stamp(h)
    BY <2>3 DEF Stamp
  <2>4. CASE StampFails(h)
    BY <2>4 DEF StampFails
  <2>5. CASE CleanUp(h)
    BY <2>5 DEF CleanUp
  <2>6. CASE ReadLock(h)
    BY <2>6 DEF ReadLock, NextAttempt, Refuse, Condemn
  <2>7. CASE StatLock(h)
    BY <2>7 DEF StatLock, NextAttempt, Refuse, Condemn
  <2>8. CASE RenameAway(h)
    BY <2>8 DEF RenameAway, NextAttempt
  <2>9. QED
    BY <1>2, <2>1, <2>2, <2>3, <2>4, <2>5, <2>6, <2>7, <2>8 DEF Acquire
<1>3. ASSUME NEW h \in Host, Heartbeat(h)
      PROVE  TypeOK'
  <2>1. CASE BeatOpen(h)
    <3>1. lost' \in [Host -> BOOLEAN]
      BY <2>1, Zenon DEF BeatOpen
    <3>2. beat' \in [Host -> {"idle", "opened", "verified", "truncated"}]
      BY <2>1 DEF BeatOpen
    <3>3. handle' \in [Host -> Host \cup {NoFile}]
      BY <2>1 DEF BeatOpen
    <3>4. QED
      BY <2>1, <3>1, <3>2, <3>3 DEF BeatOpen
  <2>2. CASE BeatVerify(h)
    BY <2>2 DEF BeatVerify
  <2>3. CASE BeatTruncate(h)
    BY <2>3 DEF BeatTruncate
  <2>4. CASE BeatWrite(h)
    BY <2>4 DEF BeatWrite
  <2>5. CASE BeatFails(h)
    BY <2>5 DEF BeatFails
  <2>6. QED
    BY <1>3, <2>1, <2>2, <2>3, <2>4, <2>5 DEF Heartbeat
<1>4. ASSUME NEW h \in Host, StartRelease(h)
      PROVE  TypeOK'
  BY <1>4 DEF StartRelease
<1>5. ASSUME NEW h \in Host, Release(h)
      PROVE  TypeOK'
  BY <1>5 DEF Release, ReleaseRead, ReleaseUnlink
<1>6. ASSUME NEW h \in Host, Crash(h)
      PROVE  TypeOK'
  BY <1>6 DEF Crash
<1>7. ASSUME NEW h \in Host, GrowOld(h)
      PROVE  TypeOK'
  BY <1>7 DEF GrowOld
<1>8. CASE UNCHANGED vars
  BY <1>8 DEF vars
<1>9. QED
  BY <1>1, <1>2, <1>3, <1>4, <1>5, <1>6, <1>7, <1>8 DEF Next

(* TypeOK: every variable keeps its type, for every set of hosts and every *)
(* choice of the faults.                                                   *)
THEOREM TypeCorrect == Spec => []TypeOK
  BY TypeInit, TypeStep, PTL DEF Spec

-----------------------------------------------------------------------------
(* A beat in flight has a file open, after the nonce check its own.        *)
VerifiedHandles ==
    \A h \in Host :
        /\ beat[h] # "idle" => handle[h] \in Host
        /\ beat[h] \in {"verified", "truncated"} => handle[h] = h

OwnFiles == TypeOK /\ FilesKeepTheirOwner /\ VerifiedHandles

LEMMA OwnFilesStep == OwnFiles /\ [Next]_vars => OwnFiles'
<1> SUFFICES ASSUME OwnFiles, [Next]_vars
             PROVE  FilesKeepTheirOwner' /\ VerifiedHandles'
  BY TypeStep DEF OwnFiles
<1> USE HostAssumption
    DEF OwnFiles, TypeOK, FilesKeepTheirOwner, VerifiedHandles, FileVars, BeatVars
<1>1. ASSUME NEW h \in Host, Acquire(h)
      PROVE  FilesKeepTheirOwner' /\ VerifiedHandles'
  <2>1. UNCHANGED BeatVars
    BY <1>1 DEF Acquire, OpenExclusive, OpenExists, Stamp, StampFails, CleanUp,
                ReadLock, StatLock, RenameAway
  <2>2. CASE OpenExclusive(h)
    BY <2>1, <2>2 DEF OpenExclusive
  <2>3. CASE Stamp(h)
    BY <2>1, <2>3 DEF Stamp
  <2>4. CASE ~OpenExclusive(h) /\ ~Stamp(h)
    <3>1. UNCHANGED content
      BY <1>1, <2>4 DEF Acquire, OpenExists, StampFails, CleanUp,
                        ReadLock, StatLock, RenameAway
    <3>2. QED
      BY <2>1, <3>1
  <2>5. QED
    BY <2>2, <2>3, <2>4
<1>2. ASSUME NEW h \in Host, Heartbeat(h)
      PROVE  FilesKeepTheirOwner' /\ VerifiedHandles'
  <2>1. CASE BeatOpen(h)
    BY <2>1 DEF BeatOpen
  <2>2. CASE BeatVerify(h)
    <3>1. CASE content[handle[h]] = h
      <4>1. handle[h] = h
        BY <2>2, <3>1 DEF BeatVerify, Absent, Malformed
      <4>2. QED
        BY <2>2, <3>1, <4>1 DEF BeatVerify
    <3>2. CASE content[handle[h]] # h
      BY <2>2, <3>2 DEF BeatVerify
    <3>3. QED
      BY <3>1, <3>2
  <2>3. CASE BeatTruncate(h)
    BY <2>3 DEF BeatTruncate
  <2>4. CASE BeatWrite(h)
    BY <2>4 DEF BeatWrite
  <2>5. CASE BeatFails(h)
    BY <2>5 DEF BeatFails
  <2>6. QED
    BY <1>2, <2>1, <2>2, <2>3, <2>4, <2>5 DEF Heartbeat
<1>3. ASSUME NEW h \in Host,
             StartAcquire(h) \/ StartRelease(h) \/ Release(h) \/ Crash(h) \/ GrowOld(h)
      PROVE  FilesKeepTheirOwner' /\ VerifiedHandles'
  BY <1>3 DEF StartAcquire, StartRelease, Release, ReleaseRead, ReleaseUnlink,
              Crash, GrowOld
<1>4. CASE UNCHANGED vars
  BY <1>4 DEF vars
<1>5. QED
  BY <1>1, <1>2, <1>3, <1>4 DEF Next

(* FilesKeepTheirOwner: no heartbeat or late write ever touches a file     *)
(* that another host created, under every combination of crashes,          *)
(* suspensions and failed writes.                                          *)
THEOREM HeartbeatsStayHome == Spec => []FilesKeepTheirOwner
<1>1. Init => OwnFiles
  BY TypeInit DEF OwnFiles, Init, FilesKeepTheirOwner, VerifiedHandles
<1>2. OwnFiles => FilesKeepTheirOwner
  BY DEF OwnFiles
<1>3. QED
  BY <1>1, <1>2, OwnFilesStep, PTL DEF Spec

-----------------------------------------------------------------------------
(* The file a living reliable owner made is young, and blank only while    *)
(* the owner is writing to it.                                             *)
OwnersStamp ==
    \A h \in Host : Reliable(h) =>
        /\ pc[h] \in Owning \cup {"created"} => age[h] = Fresh
        /\ pc[h] = "created" => content[h] = Malformed
        /\ pc[h] \in Owning =>
              content[h] = IF beat[h] = "truncated" THEN Malformed ELSE h
        /\ beat[h] # "idle" => pc[h] \in {"holding", "releasing", "dead"}
        /\ pc[h] # "cleaning"

(* What the lock path names was made by an owner, alive or dead, if its    *)
(* maker is reliable.                                                      *)
PathHasOwner ==
    path \in Host /\ Reliable(path) => pc[path] \in Owning \cup {"created", "dead"}

SoundVerdicts ==
    /\ OwnFiles
    /\ OwnersStamp
    /\ PathHasOwner
    /\ OnlyDeadLocksCondemned

LEMMA OwnersStampStep ==
    SoundVerdicts /\ [Next]_vars => OwnersStamp'
<1> SUFFICES ASSUME SoundVerdicts, [Next]_vars
             PROVE  OwnersStamp'
  OBVIOUS
<1> USE HostAssumption
    DEF Reliable, SoundVerdicts, OwnFiles, TypeOK, VerifiedHandles, FileVars,
        BeatVars, Alive, Fresh, Owning, Finished, OwnersStamp
<1>1. ASSUME NEW h \in Host, Acquire(h)
      PROVE  OwnersStamp'
  <2>1. CASE OpenExclusive(h)
    BY <2>1 DEF OpenExclusive
  <2>2. CASE OpenExists(h)
    BY <2>2 DEF OpenExists
  <2>3. CASE Stamp(h)
    BY <2>3 DEF Stamp
  <2>4. CASE StampFails(h) \/ CleanUp(h)
    BY <2>4 DEF StampFails, CleanUp
  <2>5. CASE ReadLock(h)
    BY <2>5 DEF ReadLock, NextAttempt, Refuse, Condemn
  <2>6. CASE StatLock(h)
    BY <2>6 DEF StatLock, NextAttempt, Refuse, Condemn
  <2>7. CASE RenameAway(h)
    BY <2>7 DEF RenameAway, NextAttempt
  <2>8. QED
    BY <1>1, <2>1, <2>2, <2>3, <2>4, <2>5, <2>6, <2>7 DEF Acquire
<1>2. ASSUME NEW h \in Host, Heartbeat(h)
      PROVE  OwnersStamp'
  <2>1. CASE BeatOpen(h)
    BY <2>1 DEF BeatOpen
  <2>2. CASE BeatVerify(h)
    BY <2>2 DEF BeatVerify
  <2>3. CASE BeatTruncate(h)
    BY <2>3 DEF BeatTruncate
  <2>4. CASE BeatWrite(h)
    BY <2>4 DEF BeatWrite
  <2>5. CASE BeatFails(h)
    BY <2>5 DEF BeatFails
  <2>6. QED
    BY <1>2, <2>1, <2>2, <2>3, <2>4, <2>5 DEF Heartbeat
<1>3. ASSUME NEW h \in Host, StartAcquire(h) \/ StartRelease(h) \/ Release(h)
      PROVE  OwnersStamp'
  BY <1>3 DEF StartAcquire, StartRelease, Release, ReleaseRead, ReleaseUnlink
<1>4. ASSUME NEW h \in Host, Crash(h)
      PROVE  OwnersStamp'
  BY <1>4 DEF Crash
<1>5. ASSUME NEW h \in Host, GrowOld(h)
      PROVE  OwnersStamp'
  <2>1. Reliable(h) => pc[h] \notin Owning \cup {"created"}
    BY <1>5 DEF GrowOld, Unattended, Malformed
  <2>2. QED
    BY <1>5, <2>1 DEF GrowOld
<1>6. CASE UNCHANGED vars
  BY <1>6 DEF vars
<1>7. QED
  BY <1>1, <1>2, <1>3, <1>4, <1>5, <1>6 DEF Next

LEMMA PathHasOwnerStep ==
    SoundVerdicts /\ [Next]_vars => PathHasOwner'
<1> SUFFICES ASSUME SoundVerdicts, [Next]_vars
             PROVE  PathHasOwner'
  OBVIOUS
<1> USE HostAssumption
    DEF Reliable, SoundVerdicts, OwnFiles, TypeOK, FileVars, BeatVars,
        Owning, Finished, PathHasOwner
<1>1. ASSUME NEW h \in Host, Acquire(h)
      PROVE  PathHasOwner'
  <2>1. CASE OpenExclusive(h) \/ OpenExists(h) \/ Stamp(h)
    BY <2>1 DEF OpenExclusive, OpenExists, Stamp
  <2>2. CASE StampFails(h) \/ CleanUp(h)
    BY <2>2 DEF StampFails, CleanUp, OwnersStamp
  <2>3. CASE ReadLock(h)
    BY <2>3 DEF ReadLock, NextAttempt, Refuse, Condemn
  <2>4. CASE StatLock(h)
    BY <2>4 DEF StatLock, NextAttempt, Refuse, Condemn
  <2>5. CASE RenameAway(h)
    BY <2>5 DEF RenameAway
  <2>6. QED
    BY <1>1, <2>1, <2>2, <2>3, <2>4, <2>5 DEF Acquire
<1>2. ASSUME NEW h \in Host, Heartbeat(h)
      PROVE  PathHasOwner'
  BY <1>2 DEF Heartbeat, BeatOpen, BeatVerify, BeatTruncate, BeatWrite, BeatFails
<1>3. ASSUME NEW h \in Host, StartAcquire(h) \/ StartRelease(h)
      PROVE  PathHasOwner'
  BY <1>3 DEF StartAcquire, StartRelease
<1>4. ASSUME NEW h \in Host, ReleaseRead(h)
      PROVE  PathHasOwner'
  <2>1. path = h /\ Reliable(h) => OwnsPath(h)
    BY <1>4 DEF ReleaseRead, OwnsPath, OwnersStamp
  <2>2. QED
    BY <1>4, <2>1 DEF ReleaseRead
<1>5. ASSUME NEW h \in Host, ReleaseUnlink(h)
      PROVE  PathHasOwner'
  BY <1>5 DEF ReleaseUnlink
<1>6. ASSUME NEW h \in Host, Crash(h) \/ GrowOld(h)
      PROVE  PathHasOwner'
  BY <1>6 DEF Crash, GrowOld
<1>7. CASE UNCHANGED vars
  BY <1>7 DEF vars
<1>8. QED
  BY <1>1, <1>2, <1>3, <1>4, <1>5, <1>6, <1>7 DEF Next, Release

(* The two judgements of recoverIfStale find only files of dead owners or  *)
(* of unreliable ones.                                                     *)
LEMMA StaleMeansDead ==
    ASSUME SoundVerdicts, path \in Host,
           \/ content[path] \in Host /\ IsStale(content[path], path)
           \/ MalformedIsStale(path)
    PROVE  Reliable(path) => ~Alive(path)
  BY HostAssumption
  DEF SoundVerdicts, OwnFiles, TypeOK, FilesKeepTheirOwner, OwnersStamp,
      PathHasOwner, IsStale, MalformedIsStale, Alive, Fresh, Ancient, Owning,
      Absent, Malformed

LEMMA CondemnedStep ==
    SoundVerdicts /\ [Next]_vars => OnlyDeadLocksCondemned'
<1> SUFFICES ASSUME SoundVerdicts, [Next]_vars
             PROVE  OnlyDeadLocksCondemned'
  OBVIOUS
<1> USE HostAssumption
    DEF SoundVerdicts, OwnFiles, TypeOK, FileVars, BeatVars, Alive, Finished,
        OnlyDeadLocksCondemned
<1>1. ASSUME NEW h \in Host, Acquire(h)
      PROVE  OnlyDeadLocksCondemned'
  <2>1. CASE OpenExclusive(h) \/ OpenExists(h) \/ Stamp(h)
    BY <2>1 DEF OpenExclusive, OpenExists, Stamp
  <2>2. CASE StampFails(h) \/ CleanUp(h)
    BY <2>2 DEF StampFails, CleanUp
  <2>3. CASE ReadLock(h)
    BY <2>3, StaleMeansDead DEF ReadLock, NextAttempt, Refuse, Condemn
  <2>4. CASE StatLock(h)
    BY <2>4, StaleMeansDead DEF StatLock, NextAttempt, Refuse, Condemn
  <2>5. CASE RenameAway(h)
    BY <2>5 DEF RenameAway, NextAttempt
  <2>6. QED
    BY <1>1, <2>1, <2>2, <2>3, <2>4, <2>5 DEF Acquire
<1>2. ASSUME NEW h \in Host, Heartbeat(h)
      PROVE  OnlyDeadLocksCondemned'
  BY <1>2 DEF Heartbeat, BeatOpen, BeatVerify, BeatTruncate, BeatWrite, BeatFails
<1>3. ASSUME NEW h \in Host, StartAcquire(h) \/ StartRelease(h) \/ Release(h)
      PROVE  OnlyDeadLocksCondemned'
  BY <1>3 DEF StartAcquire, StartRelease, Release, ReleaseRead, ReleaseUnlink
<1>4. ASSUME NEW h \in Host, Crash(h) \/ GrowOld(h)
      PROVE  OnlyDeadLocksCondemned'
  BY <1>4 DEF Crash, GrowOld
<1>5. CASE UNCHANGED vars
  BY <1>5 DEF vars
<1>6. QED
  BY <1>1, <1>2, <1>3, <1>4, <1>5 DEF Next

(* OnlyDeadLocksCondemned: whatever the other hosts do and wherever a host *)
(* dies, recoverIfStale never condemns the lock of a reliable host that    *)
(* still runs.                                                             *)
THEOREM VerdictsAreSound == Spec => []OnlyDeadLocksCondemned
<1>1. Init => SoundVerdicts
  BY TypeInit, HostAssumption
  DEF Init, SoundVerdicts, OwnFiles, FilesKeepTheirOwner, VerifiedHandles,
      OwnersStamp, PathHasOwner, OnlyDeadLocksCondemned, Owning
<1>2. SoundVerdicts /\ [Next]_vars => SoundVerdicts'
  BY OwnFilesStep, OwnersStampStep, PathHasOwnerStep, CondemnedStep
  DEF SoundVerdicts
<1>3. SoundVerdicts => OnlyDeadLocksCondemned
  BY DEF SoundVerdicts
<1>4. QED
  BY <1>1, <1>2, <1>3, PTL DEF Spec

-----------------------------------------------------------------------------
(* No host dies, sleeps past its lease or fails to write: no lock is ever  *)
(* stale.                                                                  *)
NothingStale == Crashable = {} /\ Suspendable = {} /\ Faulty = {}

(* Then an owner's file stays at the lock path, and nobody condemns it.    *)
OwnersLinked ==
    \A h \in Host :
        /\ pc[h] \in Owning \cup {"created"} => path = h
        /\ pc[h] \notin {"renaming", "dead"}

Exclusive == SoundVerdicts /\ OwnersLinked

LEMMA ExclusiveStep ==
    NothingStale /\ Exclusive /\ [Next]_vars => Exclusive'
<1> SUFFICES ASSUME NothingStale, Exclusive, [Next]_vars
             PROVE  OwnersLinked'
  BY OwnFilesStep, OwnersStampStep, PathHasOwnerStep, CondemnedStep
  DEF Exclusive, SoundVerdicts, NothingStale
<1> USE HostAssumption
    DEF NothingStale, Reliable, Exclusive, SoundVerdicts, OwnFiles, TypeOK,
        FileVars, BeatVars, Owning, OwnersLinked
<1>1. ASSUME NEW h \in Host, Acquire(h)
      PROVE  OwnersLinked'
  <2>1. CASE OpenExclusive(h) \/ OpenExists(h) \/ Stamp(h)
    BY <2>1 DEF OpenExclusive, OpenExists, Stamp
  <2>2. CASE StampFails(h) \/ CleanUp(h)
    BY <2>2 DEF StampFails, CleanUp, OwnersStamp
  <2>3. CASE ReadLock(h)
    BY <2>3, StaleMeansDead DEF ReadLock, NextAttempt, Refuse, Condemn, Alive
  <2>4. CASE StatLock(h)
    BY <2>4, StaleMeansDead DEF StatLock, NextAttempt, Refuse, Condemn, Alive
  <2>5. CASE RenameAway(h)
    BY <2>5 DEF RenameAway
  <2>6. QED
    BY <1>1, <2>1, <2>2, <2>3, <2>4, <2>5 DEF Acquire
<1>2. ASSUME NEW h \in Host, Heartbeat(h)
      PROVE  OwnersLinked'
  BY <1>2 DEF Heartbeat, BeatOpen, BeatVerify, BeatTruncate, BeatWrite, BeatFails
<1>3. ASSUME NEW h \in Host, StartAcquire(h) \/ StartRelease(h) \/ Release(h)
      PROVE  OwnersLinked'
  BY <1>3 DEF StartAcquire, StartRelease, Release, ReleaseRead, ReleaseUnlink
<1>4. ASSUME NEW h \in Host, Crash(h) \/ GrowOld(h)
      PROVE  OwnersLinked'
  BY <1>4 DEF Crash, GrowOld
<1>5. CASE UNCHANGED vars
  BY <1>5 DEF vars
<1>6. QED
  BY <1>1, <1>2, <1>3, <1>4, <1>5 DEF Next

LEMMA ExclusiveAlways ==
    ASSUME NothingStale
    PROVE  Spec => []Exclusive
<1>1. Init => Exclusive
  BY TypeInit, HostAssumption
  DEF Init, Exclusive, SoundVerdicts, OwnFiles, FilesKeepTheirOwner,
      VerifiedHandles, OwnersStamp, PathHasOwner, OnlyDeadLocksCondemned,
      OwnersLinked, Owning
<1>2. QED
  BY <1>1, ExclusiveStep, PTL DEF Spec

(* MutualExclusion: as long as no owner dies, sleeps through its lease or  *)
(* fails to stamp its file, any number of windows share one writer, across *)
(* every interleaving of opens, refusals, heartbeats and releases.         *)
THEOREM OneWriter ==
    ASSUME NothingStale
    PROVE  Spec => []MutualExclusion
<1>1. Exclusive => MutualExclusion
  BY DEF Exclusive, OwnersLinked, MutualExclusion, Owning
<1>2. QED
  BY <1>1, ExclusiveAlways, PTL

(* RefusalNamesLiveHolder: under the same assumptions a refused window is  *)
(* told the truth, a living host has the lock at that moment.              *)
THEOREM RefusalsAreTrue ==
    ASSUME NothingStale
    PROVE  Spec => RefusalNamesLiveHolder
<1> DEFINE Told ==
       \A h \in Host :
          pc[h] # "refused" /\ pc'[h] = "refused" =>
              \E g \in Host : pc[g] \in Owning \cup {"created"}
<1>1. Exclusive /\ [Next]_vars => [Told]_vars
  <2> SUFFICES ASSUME Exclusive, [Next]_vars,
                      NEW h \in Host, pc[h] # "refused", pc'[h] = "refused"
               PROVE  \E g \in Host : pc[g] \in Owning \cup {"created"}
    OBVIOUS
  <2>1. path \in Host
    <3> USE HostAssumption DEF Exclusive, SoundVerdicts, OwnFiles, TypeOK, FileVars
    <3>1. ASSUME NEW g \in Host, Acquire(g)
          PROVE  path \in Host
      BY <3>1 DEF Acquire, OpenExclusive, OpenExists, Stamp, StampFails, CleanUp,
                  ReadLock, StatLock, RenameAway, NextAttempt, Condemn
    <3>2. ASSUME NEW g \in Host, Heartbeat(g)
          PROVE  FALSE
      BY <3>2 DEF Heartbeat, BeatOpen, BeatVerify, BeatTruncate, BeatWrite, BeatFails
    <3>3. ASSUME NEW g \in Host,
                 StartAcquire(g) \/ StartRelease(g) \/ Release(g)
                   \/ Crash(g) \/ GrowOld(g)
          PROVE  FALSE
      BY <3>3 DEF StartAcquire, StartRelease, Release, ReleaseRead, ReleaseUnlink,
                  Crash, GrowOld
    <3>4. ASSUME UNCHANGED vars
          PROVE  FALSE
      BY <3>4 DEF vars
    <3>5. QED
      BY <3>1, <3>2, <3>3, <3>4 DEF Next
  <2>2. pc[path] \in Owning \cup {"created"}
    BY <2>1 DEF NothingStale, Reliable, Exclusive, SoundVerdicts, PathHasOwner,
                OwnersLinked
  <2>3. QED
    BY <2>1, <2>2
<1>2. QED
  BY <1>1, ExclusiveAlways, PTL DEF Spec, RefusalNamesLiveHolder
=============================================================================
