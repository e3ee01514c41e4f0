------------------------- MODULE ReviewStoreProofs --------------------------
(***************************************************************************)
(* Proofs about ReviewStore, for any reviews, blobs and retention, and any *)
(* number of failed file operations, crashes, power losses and damaged     *)
(* manifests.                                                              *)
(***************************************************************************)
EXTENDS ReviewStore, FiniteSetTheorems, TLAPS

Writing == {"staging", "manifest", "manifestSync", "undo"}
Recovering == {"recover", "recoverSync"}

(* What the index in memory has to do with the one on disk.                *)
Agree ==
    /\ at \notin {"down", "indexSync", "recoverSync"} => index = diskIndex
    /\ at \in {"indexSync", "recoverSync"} => next = diskIndex

(* A version is used once, so what an operation writes is new: it replaces *)
(* no file, and to remove it again takes nothing from the index.           *)
VersionsAreOld ==
    /\ clock \in Nat
    /\ \A r \in manifests \cup damaged \cup index \cup diskIndex \cup UNION mayIndex :
          r.version \in Nat /\ r.version <= clock

BatchIsNew ==
    at \in Writing =>
        /\ \A r \in op.batch : r.version = clock
        /\ op.batch # {} => \A r \in damaged \cup index : r.version < clock
        /\ at = "undo" => todo \subseteq op.batch

(* What the next index will name is there when it is written.              *)
NextIsThere ==
    /\ at \in {"manifest", "manifestSync"} =>
          /\ next \subseteq index \cup op.batch
          /\ op.batch \subseteq (manifests \ damaged) \cup todo
          /\ todo \subseteq op.batch
    /\ at = "indexSync" => next \subseteq manifests \ damaged
    /\ at = "retire" => todo \cap index = {}
    /\ at \in Recovering => /\ next \subseteq manifests \ damaged
                            /\ next \subseteq index
                            /\ todo \subseteq damaged
    /\ at = "idle" => todo = {}

(* Every review the index of an open store names can be read: its manifest *)
(* is there and parses.                                                    *)
IndexIsReadable ==
    at \notin Recovering \cup {"down"} => index \subseteq manifests \ damaged

StoreInv == Agree /\ VersionsAreOld /\ BatchIsNew /\ NextIsThere /\ IndexIsReadable

-----------------------------------------------------------------------------
LEMMA BatchVersions ==
  ASSUME NEW batch \in Batches, NEW r \in batch
  PROVE  r.version = clock + 1
<1>1. \A s, t, c : NewRecord(s, t, c).version = clock + 1
  BY DEF NewRecord
<1> QED
  BY <1>1 DEF Batches

LEMMA NextIndexNames ==
  ASSUME NEW batch
  PROVE  NextIndex(batch) \subseteq index \cup batch
  BY DEF NextIndex

LEMMA StoreInvInit == Init => StoreInv
  BY DEF Init, StoreInv, Agree, VersionsAreOld, BatchIsNew, NextIsThere, IndexIsReadable,
         Writing, Recovering

LEMMA StoreInvNext == StoreInv /\ [Next]_vars => StoreInv'
<1> SUFFICES ASSUME StoreInv, [Next]_vars PROVE StoreInv'
  OBVIOUS
<1> USE DEF StoreInv, Agree, VersionsAreOld, BatchIsNew, NextIsThere, IndexIsReadable,
            Writing, Recovering, Files, Budget, NoFault, Fault, Finish, EndCollection, NoOp
<1>1. ASSUME NEW kind \in {"prepared", "put"}, NEW batch \in Batches, Begin(kind, batch)
      PROVE  StoreInv'
  BY <1>1, BatchVersions DEF Begin
<1>2. ASSUME NEW p \in puts, LookForBlob(p) PROVE StoreInv'
  BY <1>2 DEF LookForBlob
<1>3. ASSUME NEW p \in puts, WriteBlob(p) PROVE StoreInv'
  BY <1>3 DEF WriteBlob
<1>4. ASSUME NEW p \in puts, SyncBlobs(p) PROVE StoreInv'
  BY <1>4 DEF SyncBlobs
<1>5. ASSUME NEW p \in puts, PutBlobFails(p) PROVE StoreInv'
  BY <1>5 DEF PutBlobFails
<1>6. CASE Validate
  BY <1>6, NextIndexNames DEF Validate
<1>7. ASSUME NEW r \in todo, WriteManifest(r) PROVE StoreInv'
  BY <1>7 DEF WriteManifest
<1>8. ASSUME NEW r \in todo, UndoManifest(r) PROVE StoreInv'
  BY <1>8 DEF UndoManifest
<1>9. ASSUME NEW r \in todo, RetireManifest(r) PROVE StoreInv'
  BY <1>9 DEF RetireManifest
<1>10. CASE SyncManifest
  BY <1>10 DEF SyncManifest
<1>11. CASE WriteFails
  BY <1>11 DEF WriteFails
<1>12. CASE Undone
  BY <1>12 DEF Undone
<1>13. CASE CommitIndex
  BY <1>13 DEF CommitIndex
<1>14. CASE SyncIndex
  BY <1>14 DEF SyncIndex
<1>15. CASE SyncIndexFails
  BY <1>15 DEF SyncIndexFails
<1>16. CASE RetireFails
  BY <1>16 DEF RetireFails
<1>17. CASE Retired
  BY <1>17 DEF Retired
<1>18. ASSUME NEW r \in index, BeginDelete(r) PROVE StoreInv'
  BY <1>18 DEF BeginDelete
<1>19. CASE Collect
  BY <1>19 DEF Collect
<1>20. ASSUME NEW b \in Blob, RemoveBlob(b) PROVE StoreInv'
  BY <1>20 DEF RemoveBlob
<1>21. CASE Collected
  BY <1>21 DEF Collected
<1>22. CASE CollectFails
  BY <1>22 DEF CollectFails
<1>23. ASSUME NEW b \in Blob, RemoveBlobFails(b) PROVE StoreInv'
  BY <1>23 DEF RemoveBlobFails
<1>24. ASSUME NEW b \in Blob, RemoveLate(b) PROVE StoreInv'
  BY <1>24 DEF RemoveLate
<1>25. CASE Open
  BY <1>25 DEF Open
<1>26. ASSUME NEW r \in todo, Quarantine(r) PROVE StoreInv'
  BY <1>26 DEF Quarantine
<1>27. CASE Recovered
  BY <1>27 DEF Recovered
<1>28. CASE SyncRecovered
  BY <1>28 DEF SyncRecovered
<1>29. CASE OpenFails
  BY <1>29 DEF OpenFails
<1>30. CASE Close
  BY <1>30 DEF Close
<1>31. CASE Crash
  BY <1>31 DEF Crash
<1>32. CASE PowerLoss
  BY <1>32 DEF PowerLoss
<1>33. ASSUME NEW r \in diskIndex, Damage(r) PROVE StoreInv'
  BY <1>33 DEF Damage
<1>34. CASE UNCHANGED vars
  BY <1>34 DEF vars
<1> QED
  BY <1>1, <1>2, <1>3, <1>4, <1>5, <1>6, <1>7, <1>8, <1>9, <1>10, <1>11, <1>12,
     <1>13, <1>14, <1>15, <1>16, <1>17, <1>18, <1>19, <1>20, <1>21, <1>22, <1>23,
     <1>24, <1>25, <1>26, <1>27, <1>28, <1>29, <1>30, <1>31, <1>32, <1>33,
     <1>34 DEF Next, Put

LEMMA StoreInvHolds == Spec => []StoreInv
  BY StoreInvInit, StoreInvNext, PTL DEF Spec

-----------------------------------------------------------------------------
(* Between operations memory and disk agree on the index, whatever failed  *)
(* half way.                                                               *)
THEOREM MemoryIsDisk == Spec => []MemoryMatchesDisk
<1>1. StoreInv => MemoryMatchesDisk
  BY DEF StoreInv, Agree, MemoryMatchesDisk
<1> QED
  BY <1>1, StoreInvHolds, PTL

(* Once it is open, the store can read every review its index names,       *)
(* through every failure of a write, an undo or a removal.                 *)
THEOREM OpenStoreIsReadable == Spec => []IndexIsReadable
<1>1. StoreInv => IndexIsReadable
  BY DEF StoreInv
<1> QED
  BY <1>1, StoreInvHolds, PTL

-----------------------------------------------------------------------------
(* What was acknowledged stays where a power loss cannot take it back.     *)
FilesAreSafe ==
    /\ \A r \in promised : /\ r \in manifests \ looseFiles /\ r \notin damaged
                           /\ \A i \in mayIndex : r \in i
                           /\ at \in Recovering => r \in next
    /\ diskIndex \in mayIndex
    /\ at = "retire" => mayIndex = {index}
    /\ at = "staging" => op.batch \cap manifests = {}
    /\ at \in {"manifest", "indexSync", "retire"} => op.batch \cap looseFiles = {}
    /\ looseFiles \subseteq manifests
    /\ at \in {"down", "idle"} => op = NoOp
    /\ at \in Recovering => op.batch = {}

LEMMA FilesInit == Init => FilesAreSafe
  BY DEF Init, FilesAreSafe, Recovering, NoOp

LEMMA FilesNext == StoreInv /\ FilesAreSafe /\ [Next]_vars => FilesAreSafe'
<1> SUFFICES ASSUME StoreInv, FilesAreSafe, [Next]_vars PROVE FilesAreSafe'
  OBVIOUS
<1> USE DEF StoreInv, Agree, VersionsAreOld, BatchIsNew, NextIsThere, IndexIsReadable,
            FilesAreSafe, Writing, Recovering, Files, Budget, NoFault, Fault, Finish,
            EndCollection, NoOp
<1>1. ASSUME NEW kind \in {"prepared", "put"}, NEW batch \in Batches, Begin(kind, batch)
      PROVE  FilesAreSafe'
  BY <1>1, BatchVersions DEF Begin
<1>2. ASSUME NEW p \in puts, LookForBlob(p) PROVE FilesAreSafe'
  BY <1>2 DEF LookForBlob
<1>3. ASSUME NEW p \in puts, WriteBlob(p) PROVE FilesAreSafe'
  BY <1>3 DEF WriteBlob
<1>4. ASSUME NEW p \in puts, SyncBlobs(p) PROVE FilesAreSafe'
  BY <1>4 DEF SyncBlobs
<1>5. ASSUME NEW p \in puts, PutBlobFails(p) PROVE FilesAreSafe'
  BY <1>5 DEF PutBlobFails
<1>6. CASE Validate
  BY <1>6 DEF Validate
<1>7. ASSUME NEW r \in todo, WriteManifest(r) PROVE FilesAreSafe'
  BY <1>7 DEF WriteManifest
<1>8. ASSUME NEW r \in todo, UndoManifest(r) PROVE FilesAreSafe'
  BY <1>8 DEF UndoManifest
<1>9. ASSUME NEW r \in todo, RetireManifest(r) PROVE FilesAreSafe'
  BY <1>9 DEF RetireManifest
<1>10. CASE SyncManifest
  BY <1>10 DEF SyncManifest
<1>11. CASE WriteFails
  BY <1>11 DEF WriteFails
<1>12. CASE Undone
  BY <1>12 DEF Undone
<1>13. CASE CommitIndex
  BY <1>13 DEF CommitIndex
<1>14. CASE SyncIndex
  BY <1>14 DEF SyncIndex
<1>15. CASE SyncIndexFails
  BY <1>15 DEF SyncIndexFails
<1>16. CASE RetireFails
  BY <1>16 DEF RetireFails
<1>17. CASE Retired
  BY <1>17 DEF Retired
<1>18. ASSUME NEW r \in index, BeginDelete(r) PROVE FilesAreSafe'
  BY <1>18 DEF BeginDelete
<1>19. CASE Collect
  BY <1>19 DEF Collect
<1>20. ASSUME NEW b \in Blob, RemoveBlob(b) PROVE FilesAreSafe'
  BY <1>20 DEF RemoveBlob
<1>21. CASE Collected
  BY <1>21 DEF Collected
<1>22. CASE CollectFails
  BY <1>22 DEF CollectFails
<1>23. ASSUME NEW b \in Blob, RemoveBlobFails(b) PROVE FilesAreSafe'
  BY <1>23 DEF RemoveBlobFails
<1>24. ASSUME NEW b \in Blob, RemoveLate(b) PROVE FilesAreSafe'
  BY <1>24 DEF RemoveLate
<1>25. CASE Open
  BY <1>25 DEF Open
<1>26. ASSUME NEW r \in todo, Quarantine(r) PROVE FilesAreSafe'
  BY <1>26 DEF Quarantine
<1>27. CASE Recovered
  BY <1>27 DEF Recovered
<1>28. CASE SyncRecovered
  BY <1>28 DEF SyncRecovered
<1>29. CASE OpenFails
  BY <1>29 DEF OpenFails
<1>30. CASE Close
  BY <1>30 DEF Close
<1>31. CASE Crash
  BY <1>31 DEF Crash
<1>32. CASE PowerLoss
  BY <1>32 DEF PowerLoss
<1>33. ASSUME NEW r \in diskIndex, Damage(r) PROVE FilesAreSafe'
  BY <1>33 DEF Damage
<1>34. CASE UNCHANGED vars
  BY <1>34 DEF vars
<1> QED
  BY <1>1, <1>2, <1>3, <1>4, <1>5, <1>6, <1>7, <1>8, <1>9, <1>10, <1>11, <1>12,
     <1>13, <1>14, <1>15, <1>16, <1>17, <1>18, <1>19, <1>20, <1>21, <1>22, <1>23,
     <1>24, <1>25, <1>26, <1>27, <1>28, <1>29, <1>30, <1>31, <1>32, <1>33,
     <1>34 DEF Next, Put

-----------------------------------------------------------------------------
(* Of finitely many records some are the oldest and some the newest.       *)
LEMMA Extremes ==
  ASSUME NEW A, IsFiniteSet(A), A # {}, \A r \in A : r.stamp \in Nat
  PROVE  /\ \E p \in A : \A q \in A : p.stamp <= q.stamp
         /\ \E p \in A : \A q \in A : q.stamp <= p.stamp
<1> DEFINE Older(p) == {q \in A : q.stamp < p.stamp}
           Newer(p) == {q \in A : q.stamp > p.stamp}
           R == StrictSubsetOrdering(A)
<1>1. IsWellFoundedOn(R, FiniteSubsetsOf(A))
  BY FS_StrictSubsetOrderingWellFounded
<1>2. \A T \in SUBSET A : T \in FiniteSubsetsOf(A)
  BY FS_Subset DEF FiniteSubsetsOf
<1>3. \A T, U \in SUBSET A : T \subseteq U /\ T # U => <<T, U>> \in R
  BY <1>2 DEF StrictSubsetOrdering, FiniteSubsetsOf
<1> HIDE DEF R
<1>4. \E p \in A : \A q \in A : p.stamp <= q.stamp
  <2> DEFINE F == {Older(p) : p \in A}
  <2>1. F \subseteq FiniteSubsetsOf(A) /\ F # {}
    BY <1>2
  <2>2. PICK x \in F : \A y \in F : ~ (<<y, x>> \in R)
    <3> HIDE DEF F
    <3> QED
      BY <1>1, <2>1, WFMin
  <2>3. PICK p \in A : x = Older(p)
    BY <2>2
  <2>4. ASSUME NEW q \in A, q.stamp < p.stamp PROVE FALSE
    <3>1. Older(q) \subseteq Older(p) /\ Older(q) # Older(p)
      BY <2>4
    <3>2. Older(q) \in SUBSET A /\ Older(p) \in SUBSET A /\ Older(q) \in F
      OBVIOUS
    <3> HIDE DEF Older, F
    <3> QED
      BY <1>3, <2>2, <2>3, <3>1, <3>2
  <2> QED
    BY <2>4
<1>5. \E p \in A : \A q \in A : q.stamp <= p.stamp
  <2> DEFINE F == {Newer(p) : p \in A}
  <2>1. F \subseteq FiniteSubsetsOf(A) /\ F # {}
    BY <1>2
  <2>2. PICK x \in F : \A y \in F : ~ (<<y, x>> \in R)
    <3> HIDE DEF F
    <3> QED
      BY <1>1, <2>1, WFMin
  <2>3. PICK p \in A : x = Newer(p)
    BY <2>2
  <2>4. ASSUME NEW q \in A, q.stamp > p.stamp PROVE FALSE
    <3>1. Newer(q) \subseteq Newer(p) /\ Newer(q) # Newer(p)
      BY <2>4
    <3>2. Newer(q) \in SUBSET A /\ Newer(p) \in SUBSET A /\ Newer(q) \in F
      OBVIOUS
    <3> HIDE DEF Newer, F
    <3> QED
      BY <1>3, <2>2, <2>3, <3>1, <3>2
  <2> QED
    BY <2>4
<1> QED
  BY <1>4, <1>5

(* Keeping those that fewer than Retention are newer than keeps Retention  *)
(* of them, the newest.                                                    *)
Newest(A) == {p \in A : ~(Cardinality({r \in A : r.stamp > p.stamp}) >= Retention)}

LEMMA NewestAreKept ==
  ASSUME NEW A, IsFiniteSet(A), \A r \in A : r.stamp \in Nat,
         \A r, s \in A : r.stamp = s.stamp => r = s
  PROVE  /\ Cardinality(Newest(A)) <= Retention
         /\ \A p \in A \ Newest(A) :
               Cardinality({r \in Newest(A) : r.stamp >= p.stamp}) = Retention
<1> DEFINE K == Newest(A)
           Newer(p) == {r \in A : r.stamp > p.stamp}
<1>0. K = {p \in A : ~(Cardinality(Newer(p)) >= Retention)}
  BY DEF Newest
<1> HIDE DEF K
<1>1. Retention \in Nat \ {0}
  BY StoreAssumption
<1>2. IsFiniteSet(K) /\ Cardinality(K) \in Nat
  BY <1>0, FS_Subset, FS_CardinalityType
<1>3. \A p \in A : IsFiniteSet(Newer(p)) /\ Cardinality(Newer(p)) \in Nat
  <2>1. \A p \in A : Newer(p) \in SUBSET A
    OBVIOUS
  <2> HIDE DEF Newer
  <2> QED
    BY <2>1, FS_Subset, FS_CardinalityType
<1>4. Cardinality(K) <= Retention
  <2>1. CASE K = {}
    <3>1. Cardinality(K) = 0
      BY <2>1, FS_EmptySet
    <3> QED
      BY <1>1, <3>1
  <2>2. CASE K # {}
    <3>1. PICK p \in K : \A q \in K : p.stamp <= q.stamp
      BY <1>0, <1>2, <2>2, Extremes
    <3>2. p \in A /\ ~(Cardinality(Newer(p)) >= Retention)
      BY <1>0
    <3>3. K \ {p} \in SUBSET Newer(p)
      BY <1>0, <3>1, <3>2
    <3> HIDE DEF Newer
    <3>4. Cardinality(K \ {p}) <= Cardinality(Newer(p))
      BY <1>3, <3>2, <3>3, FS_Subset
    <3>5. Cardinality(K \ {p}) = Cardinality(K) - 1
      BY <1>2, <3>1, FS_RemoveElement
    <3> QED
      <4>1. Cardinality(Newer(p)) \in Nat
        BY <1>3, <3>2
      <4> QED
        BY <1>1, <1>2, <3>2, <3>4, <3>5, <4>1
  <2> QED
    BY <2>1, <2>2
<1>5. ASSUME NEW p \in A \ K
      PROVE  Cardinality({r \in K : r.stamp >= p.stamp}) = Retention
  <2>1. PICK m \in A \ K : \A q \in A \ K : q.stamp <= m.stamp
    <3>1. IsFiniteSet(A \ K)
      BY FS_Difference
    <3> QED
      BY <3>1, Extremes
  <2>2. Newer(m) \in SUBSET K
    <3>1. ASSUME NEW r \in Newer(m), r \notin K PROVE FALSE
      BY <1>0, <2>1, <3>1
    <3> QED
      BY <3>1
  <2>3. Cardinality(Newer(m)) >= Retention
    BY <1>0, <2>1
  <2>4. Newer(m) = K
    <3>1. Cardinality(Newer(m)) <= Cardinality(K)
      BY <1>2, <2>2, FS_Subset
    <3> HIDE DEF Newer
    <3>2. Cardinality(Newer(m)) = Cardinality(K)
      <4>1. Cardinality(Newer(m)) \in Nat
        BY <1>3, <2>1
      <4> QED
        BY <1>1, <1>2, <1>4, <2>3, <3>1, <4>1
    <3> QED
      BY <1>2, <2>2, <3>2, FS_Subset
  <2>5. {r \in K : r.stamp >= p.stamp} = K
    <3>1. ASSUME NEW r \in K PROVE r.stamp >= p.stamp
      BY <1>0, <2>1, <2>4, <3>1
    <3> QED
      BY <3>1
  <2>6. Cardinality(K) >= Retention
    BY <2>3, <2>4
  <2>7. Cardinality({r \in K : r.stamp >= p.stamp}) = Cardinality(K)
    BY <2>5
  <2> QED
    <3> HIDE DEF Newer
    <3>1. Cardinality(K) = Retention
      BY <1>1, <1>2, <1>4, <2>6
    <3> QED
      BY <2>7, <3>1
<1> QED
  BY <1>4, <1>5 DEF K

LEMMA AtMostOne ==
  ASSUME NEW S, IsFiniteSet(S)
  PROVE  Cardinality(S) <= 1 <=> \A x, y \in S : x = y
<1>1. ASSUME Cardinality(S) <= 1, NEW x \in S, NEW y \in S PROVE x = y
  <2>1. Cardinality(S) \in Nat /\ Cardinality(S) # 0
    BY FS_CardinalityType, FS_EmptySet
  <2>2. \E z : S = {z}
    BY <1>1, <2>1, FS_Singleton
  <2> QED
    BY <2>2
<1>2. ASSUME \A x, y \in S : x = y PROVE Cardinality(S) <= 1
  <2>1. CASE S = {}
    BY <2>1, FS_EmptySet
  <2>2. CASE S # {}
    <3>1. PICK x : x \in S
      BY <2>2
    <3>2. S = {x}
      BY <1>2, <3>1
    <3> QED
      BY <3>2, FS_Singleton
  <2> QED
    BY <2>1, <2>2
<1> QED
  BY <1>1, <1>2

Whole(i) ==
    /\ IsFiniteSet(i)
    /\ \A r \in i : r.state \in {"active", "archived"} /\ r.stamp \in Nat
    /\ \A r, s \in i : r.review = s.review => r = s
    /\ \A r, s \in Active(i) : r = s
    /\ \A r, s \in Archived(i) : r.stamp = s.stamp => r = s
    /\ Cardinality(Archived(i)) <= Retention

(* A batch written at clock n to the index.                                *)
BatchAt(batch, n) ==
    /\ batch # {} /\ IsFiniteSet(batch)
    /\ \A r \in batch :
          /\ r.state \in {"active", "archived"} /\ r.stamp \in Nat /\ r.stamp <= n
          /\ r.state = "archived" =>
                \/ r.stamp = n
                \/ \E p \in Archived(index) : p.review = r.review /\ p.stamp = r.stamp
    /\ \A r, s \in batch : r.review = s.review => r = s
    /\ \A r, s \in Archived(batch) : r = s

LEMMA PartIsWhole ==
  ASSUME NEW i, Whole(i), NEW j, j \subseteq i
  PROVE  Whole(j)
<1>1. IsFiniteSet(j)
  BY FS_Subset DEF Whole
<1>2. Cardinality(Archived(j)) <= Retention
  <2>1. IsFiniteSet(Archived(i)) /\ Archived(j) \in SUBSET Archived(i)
    BY FS_Subset DEF Whole, Archived
  <2>2. Cardinality(Archived(j)) <= Cardinality(Archived(i))
    BY <2>1, FS_Subset
  <2>3. Cardinality(Archived(j)) \in Nat /\ Cardinality(Archived(i)) \in Nat
    BY <2>1, FS_Subset, FS_CardinalityType
  <2> QED
    BY <2>2, <2>3, StoreAssumption DEF Whole
<1> QED
  BY <1>1, <1>2 DEF Whole, Active, Archived

LEMMA BatchShape ==
  ASSUME clock \in Nat, \A p \in index : p.stamp \in Nat /\ p.stamp <= clock,
         NEW batch \in Batches
  PROVE  BatchAt(batch, clock + 1)
<1>1. ASSUME NEW r, NEW state \in {"active", "archived"}, NEW c
      PROVE  LET n == NewRecord(r, state, c) IN
             /\ n.review = r /\ n.state = state /\ n.stamp \in Nat /\ n.stamp <= clock + 1
             /\ state = "archived" =>
                   \/ n.stamp = clock + 1
                   \/ \E p \in Archived(index) : p.review = n.review /\ p.stamp = n.stamp
  <2> DEFINE n == NewRecord(r, state, c)
             old == {p \in Archived(index) : p.review = r}
  <2>1. n.review = r /\ n.state = state
        /\ n.stamp = IF state = "active" THEN 0
                     ELSE IF old = {} THEN clock + 1 ELSE (CHOOSE p \in old : TRUE).stamp
    BY DEF NewRecord
  <2>2. old # {} => /\ (CHOOSE p \in old : TRUE) \in old
    OBVIOUS
  <2>3. old # {} => \E p \in Archived(index) :
                       p.review = r /\ p.stamp = (CHOOSE q \in old : TRUE).stamp /\ p \in index
    BY <2>2 DEF Archived
  <2> HIDE DEF n, old
  <2>4. n.stamp \in Nat /\ n.stamp <= clock + 1
    BY <2>1, <2>3
  <2>5. state = "archived" =>
                   \/ n.stamp = clock + 1
                   \/ \E p \in Archived(index) : p.review = r /\ p.stamp = n.stamp
    BY <2>1, <2>3
  <2> QED
    BY <2>1, <2>4, <2>5 DEF n
<1>2. CASE \E r \in Review, s \in {"active", "archived"}, c \in SUBSET Blob :
              batch = {NewRecord(r, s, c)}
  <2>1. PICK r \in Review, s \in {"active", "archived"}, c \in SUBSET Blob :
              batch = {NewRecord(r, s, c)}
    BY <1>2
  <2>2. IsFiniteSet(batch)
    BY <2>1, FS_Singleton
  <2> QED
    BY <1>1, <2>1, <2>2 DEF BatchAt, Archived
<1>3. CASE \E q, r \in Review, c, d \in SUBSET Blob :
              q # r /\ batch = {NewRecord(q, "archived", c), NewRecord(r, "active", d)}
  <2>1. PICK q \in Review, r \in Review, c \in SUBSET Blob, d \in SUBSET Blob :
              q # r /\ batch = {NewRecord(q, "archived", c), NewRecord(r, "active", d)}
    BY <1>3
  <2> DEFINE x == NewRecord(q, "archived", c)
             y == NewRecord(r, "active", d)
  <2>2. IsFiniteSet(batch)
    <3>1. IsFiniteSet({x}) /\ IsFiniteSet({y}) /\ batch = {x} \cup {y}
      BY <2>1, FS_Singleton
    <3> QED
      BY <3>1, FS_Union
  <2>3. /\ x.review = q /\ x.state = "archived" /\ x.stamp \in Nat /\ x.stamp <= clock + 1
        /\ \/ x.stamp = clock + 1
           \/ \E p \in Archived(index) : p.review = x.review /\ p.stamp = x.stamp
        /\ y.review = r /\ y.state = "active" /\ y.stamp \in Nat /\ y.stamp <= clock + 1
    BY <1>1
  <2>4. batch = {x, y} /\ q # r
    BY <2>1
  <2> HIDE DEF x, y
  <2> QED
    BY <2>2, <2>3, <2>4 DEF BatchAt, Archived
<1> QED
  BY <1>2, <1>3 DEF Batches

LEMMA NextIsWhole ==
  ASSUME Whole(index), NEW n \in Nat, NEW batch, BatchAt(batch, n),
         \A p \in index : p.stamp < n,
         Cardinality(Active((index \ Replaced(batch)) \cup batch)) <= 1
  PROVE  LET i == NextIndex(batch) IN
         /\ Whole(i) /\ batch \subseteq i
         /\ \A p \in index \ i :
               \/ p.review \in Ids(batch)
               \/ /\ p.state = "archived"
                  /\ Cardinality({r \in Archived(i) : r.stamp >= p.stamp}) = Retention
<1> DEFINE all == (index \ Replaced(batch)) \cup batch
           old == Archived(all)
           i == NextIndex(batch)
<1>1. IsFiniteSet(all)
  <2>1. IsFiniteSet(index \ Replaced(batch))
    BY FS_Difference DEF Whole
  <2> QED
    BY <2>1, FS_Union DEF BatchAt
<1>2. \A r \in all : r.state \in {"active", "archived"} /\ r.stamp \in Nat
  BY DEF Whole, BatchAt
<1>3. \A r, s \in all : r.review = s.review => r = s
  BY DEF Whole, BatchAt, Replaced, Ids
<1>4. \A r, s \in Active(all) : r = s
  <2>1. IsFiniteSet(Active(all))
    BY <1>1, FS_Subset DEF Active
  <2> QED
    BY <2>1, AtMostOne
<1>5. \A r, s \in old : r.stamp = s.stamp => r = s
  <2>1. ASSUME NEW r \in Archived(index), r \notin Replaced(batch),
               NEW s \in Archived(batch), r.stamp = s.stamp
        PROVE  FALSE
    <3>1. r.stamp < n /\ r \in index
      BY DEF Archived
    <3>2. PICK p \in Archived(index) : p.review = s.review /\ p.stamp = s.stamp
      BY <2>1, <3>1 DEF BatchAt, Archived, Whole
    <3>3. r = p
      BY <2>1, <3>2 DEF Whole
    <3> QED
      BY <2>1, <3>1, <3>2, <3>3 DEF Replaced, Ids, Archived
  <2> QED
    BY <2>1 DEF Archived, BatchAt, Whole
<1>6. IsFiniteSet(old) /\ \A r \in old : r.stamp \in Nat
  BY <1>1, <1>2, FS_Subset DEF Archived
<1>7. i = all \ Pruned(all)
  BY DEF NextIndex
<1>8. Archived(i) = Newest(old)
  BY <1>7 DEF Archived, Pruned, Newest
<1>9. /\ Cardinality(Archived(i)) <= Retention
      /\ \A p \in old \ Archived(i) :
            Cardinality({r \in Archived(i) : r.stamp >= p.stamp}) = Retention
  <2> HIDE DEF old, i
  <2> QED
    BY <1>5, <1>6, <1>8, NewestAreKept
<1>10. Whole(i)
  <2>1. i \subseteq all /\ IsFiniteSet(i)
    BY <1>1, <1>7, FS_Difference
  <2> QED
    BY <1>2, <1>3, <1>4, <1>5, <1>9, <2>1 DEF Whole, Active, Archived
<1>11. batch \subseteq i
  <2> SUFFICES ASSUME NEW p \in batch, p \in Pruned(all) PROVE FALSE
    BY <1>7
  <2> DEFINE newer == {r \in old : r.stamp > p.stamp}
  <2>1. p.state = "archived" /\ Cardinality(newer) >= Retention
    BY DEF Pruned, Archived
  <2>2. CASE p.stamp = n
    <3>1. newer = {}
      BY <2>2 DEF BatchAt, Archived, Whole
    <3>2. Cardinality(newer) = 0
      BY <3>1, FS_EmptySet
    <3> HIDE DEF newer
    <3> QED
      BY <2>1, <3>2, StoreAssumption
  <2>3. CASE \E q \in Archived(index) : q.review = p.review /\ q.stamp = p.stamp
    <3>1. PICK q \in Archived(index) : q.review = p.review /\ q.stamp = p.stamp
      BY <2>3
    <3>2. newer \subseteq Archived(index) \ {q}
      BY <2>1, <3>1, <1>2 DEF BatchAt, Archived
    <3>3. IsFiniteSet(Archived(index)) /\ Cardinality(Archived(index)) <= Retention
      BY FS_Subset DEF Whole, Archived
    <3>4. /\ IsFiniteSet(Archived(index) \ {q})
          /\ Cardinality(Archived(index) \ {q}) = Cardinality(Archived(index)) - 1
      BY <3>1, <3>3, FS_RemoveElement
    <3> HIDE DEF newer
    <3>5. Cardinality(newer) <= Cardinality(Archived(index) \ {q})
      BY <3>2, <3>4, FS_Subset
    <3>6. Cardinality(newer) \in Nat /\ Cardinality(Archived(index)) \in Nat
      BY <3>2, <3>3, <3>4, FS_Subset, FS_CardinalityType
    <3> QED
      BY <2>1, <3>3, <3>4, <3>5, <3>6, StoreAssumption
  <2> QED
    BY <2>1, <2>2, <2>3 DEF BatchAt
<1>12. ASSUME NEW p \in index \ i, p.review \notin Ids(batch)
       PROVE  /\ p.state = "archived"
              /\ Cardinality({r \in Archived(i) : r.stamp >= p.stamp}) = Retention
  <2>1. p \in Pruned(all)
    BY <1>7, <1>12 DEF Replaced
  <2>2. p \in old \ Archived(i)
    BY <1>7, <2>1 DEF Pruned, Archived
  <2> QED
    BY <1>9, <2>2 DEF Archived
<1> QED
  BY <1>10, <1>11, <1>12

Planning == {"staging", "manifest", "manifestSync"}

BatchOK ==
    IF op.kind = "delete" THEN op.batch = {}
    ELSE /\ op.kind \in {"prepared", "put"} /\ BatchAt(op.batch, clock)
         /\ \A p \in index : p.stamp < clock

PlanOK ==
    IF op.kind = "delete" THEN \E r \in index : next = index \ {r}
    ELSE /\ next = NextIndex(op.batch) /\ SnapshotsKept(op.batch)
         /\ Cardinality(Active((index \ Replaced(op.batch)) \cup op.batch)) <= 1

(* Every index there is or may be is a consistent set of records, and the  *)
(* next one will be.                                                       *)
RecordsInv ==
    /\ \A i \in mayIndex : Whole(i) /\ \A r \in i : r.stamp <= clock
    /\ at \in Planning => BatchOK
    /\ at \in {"manifest", "manifestSync"} => PlanOK
    /\ at \in {"staging", "undo"} => op.kind # "delete"
    /\ at = "indexSync" => op.kind \in {"prepared", "put", "delete"}
    /\ at \in {"retire", "collect", "collecting"} /\ op.kind = "delete" => next = index
    /\ at \in Recovering => op.kind = "open"
    /\ at = "recover" => next = index \cap (manifests \ damaged)

LEMMA PlanSame ==
  /\ UNCHANGED <<index, op, clock>> => BatchOK' = BatchOK
  /\ UNCHANGED <<index, op, next>> => PlanOK' = PlanOK
  /\ UNCHANGED <<index, op>> /\ op.kind # "delete" =>
        PlanOK' = /\ next' = NextIndex(op.batch) /\ SnapshotsKept(op.batch)
                  /\ Cardinality(Active((index \ Replaced(op.batch)) \cup op.batch)) <= 1
<1>1. UNCHANGED <<index, op, clock>> => BatchOK' = BatchOK
  BY DEF BatchOK, BatchAt
<1>2. ASSUME UNCHANGED <<index, op>>
      PROVE  /\ NextIndex(op.batch)' = NextIndex(op.batch)
             /\ SnapshotsKept(op.batch)' = SnapshotsKept(op.batch)
             /\ Replaced(op.batch)' = Replaced(op.batch)
  BY <1>2 DEF NextIndex, SnapshotsKept, Replaced
<1> QED
  BY <1>1, <1>2 DEF PlanOK

LEMMA NextIsConsistent ==
  ASSUME StoreInv, FilesAreSafe, RecordsInv, at \in {"manifest", "manifestSync"}
  PROVE  /\ Whole(next) /\ \A r \in next : r.stamp <= clock
         /\ op.kind # "delete" =>
               /\ op.batch \subseteq next
               /\ \A p \in index \ next :
                     \/ p.review \in Ids(op.batch)
                     \/ /\ p.state = "archived"
                        /\ Cardinality({r \in Archived(next) : r.stamp >= p.stamp}) = Retention
<1>1. Whole(index) /\ \A r \in index : r.stamp <= clock
  BY DEF StoreInv, Agree, FilesAreSafe, RecordsInv
<1>2. clock \in Nat /\ BatchOK /\ PlanOK
  BY DEF StoreInv, VersionsAreOld, RecordsInv, Planning
<1>3. CASE op.kind = "delete"
  <2>1. next \subseteq index
    BY <1>2, <1>3 DEF PlanOK
  <2> QED
    BY <1>1, <1>3, <2>1, PartIsWhole
<1>4. CASE op.kind # "delete"
  <2>1. /\ BatchAt(op.batch, clock) /\ \A p \in index : p.stamp < clock
        /\ next = NextIndex(op.batch)
        /\ Cardinality(Active((index \ Replaced(op.batch)) \cup op.batch)) <= 1
    BY <1>2, <1>4 DEF BatchOK, PlanOK
  <2>2. \A r \in next : r.stamp <= clock
    <3>1. next \subseteq index \cup op.batch
      BY <2>1, NextIndexNames
    <3> QED
      BY <1>1, <2>1, <3>1 DEF BatchAt
  <2> QED
    BY <1>1, <1>2, <2>1, <2>2, NextIsWhole
<1> QED
  BY <1>3, <1>4

LEMMA RecordsInit == Init => RecordsInv
<1> SUFFICES ASSUME Init PROVE RecordsInv
  OBVIOUS
<1>1. Whole({})
  <2>1. Archived({}) = {}
    BY DEF Archived
  <2> QED
    BY <2>1, FS_EmptySet, StoreAssumption DEF Whole, Active, Archived
<1> QED
  BY <1>1 DEF Init, RecordsInv, Planning, Recovering

LEMMA RecordsNext == StoreInv /\ FilesAreSafe /\ RecordsInv /\ [Next]_vars => RecordsInv'
<1> SUFFICES ASSUME StoreInv, FilesAreSafe, RecordsInv, [Next]_vars PROVE RecordsInv'
  OBVIOUS
<1> USE PlanSame DEF RecordsInv, Recovering, Planning, Files, Budget, NoFault, Fault, Finish,
                     EndCollection, NoOp
<1>1. ASSUME NEW kind \in {"prepared", "put"}, NEW batch \in Batches, Begin(kind, batch)
      PROVE  RecordsInv'
  <2>1. \A i \in mayIndex : \A r \in i : r.stamp <= clock + 1
    BY DEF StoreInv, VersionsAreOld, Whole
  <2>2. clock \in Nat /\ Whole(index) /\ \A p \in index : p.stamp \in Nat /\ p.stamp <= clock
    BY <1>1 DEF Begin, StoreInv, Agree, VersionsAreOld, FilesAreSafe, Whole
  <2>3. BatchAt(batch, clock + 1) /\ \A p \in index : p.stamp < clock + 1
    BY <2>2, BatchShape
  <2>4. BatchOK'
    BY <1>1, <2>3 DEF Begin, BatchOK, BatchAt
  <2> QED
    BY <1>1, <2>1, <2>4 DEF Begin
<1>2. ASSUME NEW p \in puts, LookForBlob(p) PROVE RecordsInv'
  BY <1>2 DEF LookForBlob
<1>3. ASSUME NEW p \in puts, WriteBlob(p) PROVE RecordsInv'
  BY <1>3 DEF WriteBlob
<1>4. ASSUME NEW p \in puts, SyncBlobs(p) PROVE RecordsInv'
  BY <1>4 DEF SyncBlobs
<1>5. ASSUME NEW p \in puts, PutBlobFails(p) PROVE RecordsInv'
  BY <1>5 DEF PutBlobFails
<1>6. CASE Validate
  <2>1. Accepts(op.batch) /\ at' = "manifest" => PlanOK'
    BY <1>6 DEF Validate, Accepts
  <2>2. op.kind # "delete" /\ UNCHANGED <<Files, index, clock>>
    BY <1>6 DEF Validate
  <2>3. CASE Accepts(op.batch)
    <3>1. at' = "manifest" /\ UNCHANGED op
      BY <1>6, <2>3 DEF Validate
    <3>2. BatchOK'
      BY <1>6, <2>2, <3>1 DEF Validate
    <3> QED
      BY <2>1, <2>2, <2>3, <3>1, <3>2
  <2>4. CASE ~Accepts(op.batch)
    <3>1. (at' = "collect" /\ UNCHANGED op) \/ at' = "idle"
      BY <1>6, <2>4 DEF Validate
    <3> QED
      BY <2>2, <3>1
  <2> QED
    BY <2>3, <2>4
<1>7. ASSUME NEW r \in todo, WriteManifest(r) PROVE RecordsInv'
  BY <1>7 DEF WriteManifest
<1>8. ASSUME NEW r \in todo, UndoManifest(r) PROVE RecordsInv'
  BY <1>8 DEF UndoManifest
<1>9. ASSUME NEW r \in todo, RetireManifest(r) PROVE RecordsInv'
  BY <1>9 DEF RetireManifest
<1>10. CASE SyncManifest
  BY <1>10 DEF SyncManifest
<1>11. CASE WriteFails
  BY <1>11 DEF WriteFails
<1>12. CASE Undone
  BY <1>12 DEF Undone
<1>13. CASE CommitIndex
  <2>1. Whole(next) /\ \A r \in next : r.stamp <= clock
    BY <1>13, NextIsConsistent DEF CommitIndex
  <2> QED
    BY <1>13, <2>1 DEF CommitIndex, BatchOK
<1>14. CASE SyncIndex
  <2>1. next \in mayIndex
    BY <1>14 DEF SyncIndex, StoreInv, Agree, FilesAreSafe
  <2> QED
    BY <1>14, <2>1 DEF SyncIndex
<1>15. CASE SyncIndexFails
  BY <1>15 DEF SyncIndexFails
<1>16. CASE RetireFails
  BY <1>16 DEF RetireFails
<1>17. CASE Retired
  BY <1>17 DEF Retired
<1>18. ASSUME NEW r \in index, BeginDelete(r) PROVE RecordsInv'
  <2>1. BatchOK' /\ PlanOK'
    BY <1>18 DEF BeginDelete, BatchOK, PlanOK
  <2> QED
    BY <1>18, <2>1 DEF BeginDelete
<1>19. CASE Collect
  BY <1>19 DEF Collect
<1>20. ASSUME NEW b \in Blob, RemoveBlob(b) PROVE RecordsInv'
  BY <1>20 DEF RemoveBlob
<1>21. CASE Collected
  BY <1>21 DEF Collected
<1>22. CASE CollectFails
  BY <1>22 DEF CollectFails
<1>23. ASSUME NEW b \in Blob, RemoveBlobFails(b) PROVE RecordsInv'
  BY <1>23 DEF RemoveBlobFails
<1>24. ASSUME NEW b \in Blob, RemoveLate(b) PROVE RecordsInv'
  BY <1>24 DEF RemoveLate
<1>25. CASE Open
  BY <1>25 DEF Open
<1>26. ASSUME NEW r \in todo, Quarantine(r) PROVE RecordsInv'
  <2>1. manifests' \ damaged' = manifests \ damaged
    BY <1>26 DEF Quarantine, StoreInv, NextIsThere
  <2> QED
    BY <1>26, <2>1 DEF Quarantine
<1>27. CASE Recovered
  <2>1. next \subseteq diskIndex /\ diskIndex \in mayIndex
    BY <1>27 DEF Recovered, StoreInv, Agree, NextIsThere, FilesAreSafe
  <2>2. Whole(next) /\ \A r \in next : r.stamp <= clock
    BY <2>1, PartIsWhole
  <2> QED
    BY <1>27, <2>2 DEF Recovered
<1>28. CASE SyncRecovered
  <2>1. next \in mayIndex
    BY <1>28 DEF SyncRecovered, StoreInv, Agree, FilesAreSafe
  <2> QED
    BY <1>28, <2>1 DEF SyncRecovered
<1>29. CASE OpenFails
  BY <1>29 DEF OpenFails
<1>30. CASE Close
  BY <1>30 DEF Close
<1>31. CASE Crash
  BY <1>31 DEF Crash
<1>32. CASE PowerLoss
  BY <1>32 DEF PowerLoss
<1>33. ASSUME NEW r \in diskIndex, Damage(r) PROVE RecordsInv'
  BY <1>33 DEF Damage
<1>34. CASE UNCHANGED vars
  BY <1>34 DEF vars
<1> QED
  BY <1>1, <1>2, <1>3, <1>4, <1>5, <1>6, <1>7, <1>8, <1>9, <1>10, <1>11, <1>12,
     <1>13, <1>14, <1>15, <1>16, <1>17, <1>18, <1>19, <1>20, <1>21, <1>22, <1>23,
     <1>24, <1>25, <1>26, <1>27, <1>28, <1>29, <1>30, <1>31, <1>32, <1>33,
     <1>34 DEF Next, Put

-----------------------------------------------------------------------------
(* The blobs.                                                              *)
LEMMA References ==
  /\ \A S, T : S \subseteq T => Referenced(S) \subseteq Referenced(T)
  /\ \A S, T : Referenced(S \cup T) = Referenced(S) \cup Referenced(T)
  /\ \A S : \A r \in S : r.blobs \subseteq Referenced(S)
  /\ Referenced({}) = {}
  BY DEF Referenced

Calm == faults + crashes = 0

(* A blob that is not stray can be loose only until the operation that     *)
(* puts it has synced the directory; what a dead process left loose is     *)
(* removed by the collection of the next open, or is referred to by none.  *)
Unsynced(b) ==
    \/ at \in {"down"} \cup Recovering
    \/ at \in {"collect", "collecting"} /\ op.kind = "open"
    \/ at = "staging" /\ \E p \in OwnPuts : p.blob = b /\ p.step = "sync"

(* A put that found its blob missing still finds it so when it writes.     *)
OnePutEach ==
    /\ \A p, q \in puts : p.blob = q.blob /\ p.by = q.by => p = q
    /\ \A p \in puts : p.step = "write" => p.blob \notin blobs \/ p.blob \in stray

(* Every blob a record refers to is there for good, unless an operation    *)
(* that failed left a put or a removal of it behind; what goes on behind   *)
(* the store's back is about such blobs only.                              *)
BlobsInv ==
    /\ Referenced(diskIndex) \ stray \subseteq blobs \ looseBlobs
    /\ Calm => /\ \A i \in mayIndex : Referenced(i) \ stray \subseteq blobs \ looseBlobs
               /\ at \notin {"indexSync", "recoverSync"} => mayIndex = {diskIndex}
    /\ at = "staging" /\ op.kind = "put" => Referenced(op.batch) \subseteq Referenced(index)
    /\ at \in {"manifest", "manifestSync", "indexSync"} => Referenced(next) \ stray \subseteq blobs
    /\ \A b \in looseBlobs \ stray : Unsynced(b)
    /\ puts \subseteq [blob : Blob, by : Nat, step : {"look", "write", "sync"}]
    /\ OnePutEach
    /\ \A p \in puts : /\ p.by <= clock
                       /\ (at = "staging" /\ p.by = clock) \/ p.blob \in stray
    /\ \A b \in Blob : leftovers[b] > 0 => b \in stray
    /\ IF at = "collecting"
       THEN /\ removals \cap Referenced(index) = {}
            /\ Garbage \ stray \subseteq removals
       ELSE removals = {}
    /\ looseBlobs \subseteq blobs
    /\ leftovers \in [Blob -> Nat] /\ clock \in Nat
    /\ faults \in Nat /\ crashes \in Nat

LEMMA BlobsInit == Init => BlobsInv
<1>1. Referenced({}) = {}
  BY References
<1> QED
  BY <1>1 DEF Init, BlobsInv, OnePutEach, Recovering, NoLeftovers

LEMMA BlobsNext ==
  StoreInv /\ FilesAreSafe /\ RecordsInv /\ BlobsInv /\ [Next]_vars => BlobsInv'
<1> SUFFICES ASSUME StoreInv, FilesAreSafe, RecordsInv, BlobsInv, [Next]_vars PROVE BlobsInv'
  OBVIOUS
<1> USE DEF BlobsInv, OnePutEach, Unsynced, OwnPuts, Garbage, Calm, Recovering, Files, Tasks, Budget,
            NoFault, Fault, Finish, EndCollection, NoOp, NoLeftovers
<1>0. /\ at \notin {"down", "indexSync", "recoverSync"} => index = diskIndex
      /\ at \in {"indexSync", "recoverSync"} => next = diskIndex
      /\ at \in Recovering => next \subseteq index
      /\ diskIndex \in mayIndex
  BY DEF StoreInv, Agree, NextIsThere, FilesAreSafe
<1>1. ASSUME NEW kind \in {"prepared", "put"}, NEW batch \in Batches, Begin(kind, batch)
      PROVE  BlobsInv'
  <2>1. /\ at = "idle" /\ at' = "staging" /\ clock' = clock + 1
        /\ op' = [kind |-> kind, batch |-> batch] /\ looseBlobs \ stray = {}
        /\ kind = "put" => Referenced(batch) \subseteq Referenced(index)
        /\ UNCHANGED <<Files, index, removals, leftovers, stray, next, faults, crashes>>
    BY <1>1 DEF Begin
  <2>2. \A p \in puts : p.blob \in stray
    BY <2>1
  <2>3. \A p \in puts' : p \in puts \/ p \in [blob : Blob, by : {clock'}, step : {"look"}]
    <3>1. \A r \in batch : r.blobs \subseteq Blob
      BY DEF Batches, NewRecord
    <3> QED
      BY <1>1, <3>1 DEF Begin, Referenced
  <2> QED
    BY <1>0, <2>1, <2>2, <2>3
<1>2. ASSUME NEW p \in puts, LookForBlob(p) PROVE BlobsInv'
  BY <1>0, <1>2 DEF LookForBlob
<1>3. ASSUME NEW p \in puts, WriteBlob(p) PROVE BlobsInv'
  <2> DEFINE q == [p EXCEPT !.step = "sync"]
  <2>1. /\ puts' = (puts \ {p}) \cup {q} /\ p.step = "write"
        /\ blobs' = blobs \cup {p.blob} /\ looseBlobs' = looseBlobs \cup {p.blob}
        /\ UNCHANGED <<diskIndex, mayIndex, index, at, op, removals, leftovers, stray, next,
                       Budget>>
    BY <1>3 DEF WriteBlob
  <2>2. /\ q \in [blob : Blob, by : Nat, step : {"look", "write", "sync"}]
        /\ q.blob = p.blob /\ q.by = p.by /\ q.step = "sync"
    OBVIOUS
  <2> HIDE DEF q
  <2>3. ASSUME NEW b \in looseBlobs' \ stray PROVE Unsynced(b)'
    <3>1. CASE b = p.blob
      BY <2>1, <2>2, <3>1
    <3>2. CASE b # p.blob
      <4>1. Unsynced(b)
        BY <2>1, <3>2
      <4> QED
        BY <2>1, <4>1
    <3> QED
      BY <3>1, <3>2
  <2>4. /\ at = "collecting" => p.blob \in stray
        /\ p.blob \notin stray => at = "staging"
    BY <2>1
  <2>5. /\ Referenced(diskIndex)' \ stray' \subseteq blobs' \ looseBlobs'
        /\ Calm' => \A i \in mayIndex' : Referenced(i) \ stray' \subseteq blobs' \ looseBlobs'
    BY <2>1
  <2>6. OnePutEach'
    BY <2>1, <2>2, <2>4 DEF OnePutEach
  <2> QED
    BY <1>0, <2>1, <2>2, <2>3, <2>4, <2>5, <2>6
<1>4. ASSUME NEW p \in puts, SyncBlobs(p) PROVE BlobsInv'
  BY <1>0, <1>4 DEF SyncBlobs
<1>5. ASSUME NEW p \in puts, PutBlobFails(p) PROVE BlobsInv'
  BY <1>0, <1>5 DEF PutBlobFails
<1>6. CASE Validate
  <2>1. /\ at = "staging" /\ op.kind # "delete" /\ OwnPuts = {} /\ looseBlobs \ stray = {}
        /\ UNCHANGED <<Files, Tasks, index, Budget>>
    BY <1>6 DEF Validate, RecordsInv
  <2>2. ASSUME Accepts(op.batch) PROVE Referenced(next') \ stray \subseteq blobs
    <3>1. next' \subseteq index \cup op.batch
      BY <1>6, <2>2, NextIndexNames DEF Validate
    <3>2. Referenced(op.batch) \ stray \subseteq blobs
      <4>1. op.kind \in {"prepared", "put"}
        BY <2>1 DEF RecordsInv, Planning, BatchOK
      <4> QED
        BY <1>0, <2>1, <2>2, <4>1 DEF Accepts
    <3>3. Referenced(next') \subseteq Referenced(index) \cup Referenced(op.batch)
      <4>1. Referenced(next') \subseteq Referenced(index \cup op.batch)
        BY <3>1, References
      <4>2. Referenced(index \cup op.batch) = Referenced(index) \cup Referenced(op.batch)
        BY References
      <4> QED
        BY <4>1, <4>2
    <3> QED
      BY <1>0, <2>1, <3>2, <3>3
  <2>3. at' \in {"manifest", "collect", "idle"} /\ (at' = "manifest" => Accepts(op.batch))
    BY <1>6 DEF Validate
  <2>4. \A p \in puts : p.blob \in stray
    BY <2>1
  <2> QED
    BY <1>0, <1>6, <2>1, <2>2, <2>3, <2>4 DEF Validate
<1>7. ASSUME NEW r \in todo, WriteManifest(r) PROVE BlobsInv'
  BY <1>0, <1>7 DEF WriteManifest
<1>8. ASSUME NEW r \in todo, UndoManifest(r) PROVE BlobsInv'
  BY <1>0, <1>8 DEF UndoManifest
<1>9. ASSUME NEW r \in todo, RetireManifest(r) PROVE BlobsInv'
  BY <1>0, <1>9 DEF RetireManifest
<1>10. CASE SyncManifest
  BY <1>0, <1>10 DEF SyncManifest
<1>11. CASE WriteFails
  BY <1>0, <1>11 DEF WriteFails
<1>12. CASE Undone
  BY <1>0, <1>12 DEF Undone
<1>13. CASE CommitIndex
  BY <1>0, <1>13 DEF CommitIndex
<1>14. CASE SyncIndex
  BY <1>0, <1>14 DEF SyncIndex
<1>15. CASE SyncIndexFails
  BY <1>0, <1>15 DEF SyncIndexFails
<1>16. CASE RetireFails
  BY <1>0, <1>16 DEF RetireFails
<1>17. CASE Retired
  BY <1>0, <1>17 DEF Retired
<1>18. ASSUME NEW r \in index, BeginDelete(r) PROVE BlobsInv'
  <2>1. Referenced(next') \subseteq Referenced(index)
    BY <1>18, References DEF BeginDelete
  <2> QED
    BY <1>0, <1>18, <2>1 DEF BeginDelete
<1>19. CASE Collect
  BY <1>0, <1>19 DEF Collect
<1>20. ASSUME NEW b \in Blob, RemoveBlob(b) PROVE BlobsInv'
  BY <1>0, <1>20 DEF RemoveBlob
<1>21. CASE Collected
  <2>1. /\ at = "collecting" /\ at' = "idle" /\ removals = {} /\ op' = NoOp
        /\ UNCHANGED <<Files, index, Tasks, Budget>> /\ index = diskIndex
    BY <1>0, <1>21 DEF Collected
  <2>2. looseBlobs \ stray = {}
    BY <2>1
  <2> QED
    BY <2>1, <2>2
<1>22. CASE CollectFails
  <2>1. at = "collect" /\ index \subseteq manifests \ damaged
    BY <1>22 DEF CollectFails, StoreInv, IndexIsReadable
  <2>2. faults' = faults + 1 /\ UNCHANGED <<clock, crashes, Files, index, Tasks>>
    BY <1>22, <2>1 DEF CollectFails
  <2>3. \/ at' = "down"
        \/ at' = "idle" /\ op.kind # "open"
    BY <1>22 DEF CollectFails
  <2> QED
    BY <1>0, <2>1, <2>2, <2>3
<1>23. ASSUME NEW b \in Blob, RemoveBlobFails(b) PROVE BlobsInv'
  BY <1>0, <1>23 DEF RemoveBlobFails
<1>24. ASSUME NEW b \in Blob, RemoveLate(b) PROVE BlobsInv'
  BY <1>0, <1>24 DEF RemoveLate
<1>25. CASE Open
  BY <1>0, <1>25 DEF Open
<1>26. ASSUME NEW r \in todo, Quarantine(r) PROVE BlobsInv'
  BY <1>0, <1>26 DEF Quarantine
<1>27. CASE Recovered
  <2>1. Referenced(next) \subseteq Referenced(diskIndex)
    BY <1>0, <1>27, References DEF Recovered
  <2>2. at = "recover" /\ UNCHANGED <<blobs, looseBlobs, Tasks, Budget, op, index, next>>
    BY <1>27 DEF Recovered
  <2>3. CASE next = index
    <3>1. at' = "collect" /\ UNCHANGED <<diskIndex, mayIndex>> /\ op.kind = "open"
      BY <1>27, <2>3 DEF Recovered, RecordsInv
    <3> QED
      BY <1>27, <2>2, <3>1 DEF Recovered
  <2>4. CASE next # index
    <3>1. at' = "recoverSync" /\ diskIndex' = next /\ mayIndex' = mayIndex \cup {next}
      BY <1>27, <2>4 DEF Recovered
    <3> QED
      BY <1>0, <2>1, <2>2, <3>1
  <2> QED
    BY <2>3, <2>4
<1>28. CASE SyncRecovered
  <2>1. op.kind = "open" /\ next = diskIndex /\ mayIndex' = {next} /\ at' = "collect"
    BY <1>0, <1>28 DEF SyncRecovered, RecordsInv
  <2> QED
    BY <1>28, <2>1 DEF SyncRecovered
<1>29. CASE OpenFails
  BY <1>0, <1>29 DEF OpenFails
<1>30. CASE Close
  BY <1>0, <1>30 DEF Close
<1>31. CASE Crash
  BY <1>0, <1>31 DEF Crash
<1>32. CASE PowerLoss
  BY <1>0, <1>32 DEF PowerLoss
<1>33. ASSUME NEW r \in diskIndex, Damage(r) PROVE BlobsInv'
  BY <1>0, <1>33 DEF Damage
<1>34. CASE UNCHANGED vars
  BY <1>0, <1>34 DEF vars
<1> QED
  BY <1>1, <1>2, <1>3, <1>4, <1>5, <1>6, <1>7, <1>8, <1>9, <1>10, <1>11, <1>12,
     <1>13, <1>14, <1>15, <1>16, <1>17, <1>18, <1>19, <1>20, <1>21, <1>22, <1>23,
     <1>24, <1>25, <1>26, <1>27, <1>28, <1>29, <1>30, <1>31, <1>32, <1>33,
     <1>34 DEF Next, Put

LEMMA BlobsHold == Spec => [](StoreInv /\ FilesAreSafe /\ RecordsInv /\ BlobsInv)
  BY StoreInvInit, StoreInvNext, FilesInit, FilesNext, RecordsInit, RecordsNext, BlobsInit,
     BlobsNext, PTL DEF Spec

(* AcknowledgedIsDurable: what was reported as written, and nothing has    *)
(* begun to replace, survives every number of failed file operations,      *)
(* crashes, power losses and damaged manifests: its manifest, its place in *)
(* every index there may be, and all its blobs but for those of which a    *)
(* failed operation left a put or a removal behind.                        *)
THEOREM AcknowledgedIsKept == Spec => []AcknowledgedIsDurable
<1>1. FilesAreSafe /\ BlobsInv => AcknowledgedIsDurable
  BY References DEF FilesAreSafe, BlobsInv, AcknowledgedIsDurable
<1> QED
  BY <1>1, BlobsHold, PTL

(* The manifest of an acknowledged record, and its place in every index    *)
(* there may be, survive whatever happens to its blobs.                    *)
ManifestsAreDurable ==
    \A r \in promised : r \in manifests \ looseFiles /\ \A i \in mayIndex : r \in i

THEOREM AcknowledgedManifestsAreKept == Spec => []ManifestsAreDurable
<1>1. FilesAreSafe => ManifestsAreDurable
  BY DEF FilesAreSafe, ManifestsAreDurable
<1> QED
  BY <1>1, StoreInvInit, StoreInvNext, FilesInit, FilesNext, PTL DEF Spec

-----------------------------------------------------------------------------
(* What is on the disk although no index names it, as long as nothing goes *)
(* wrong, belongs to the operation in flight.                              *)
SpaceInv ==
    /\ faults \in Nat /\ crashes \in Nat /\ losses \in Nat
    /\ at = "recoverSync" => todo = {}
    /\ faults = 0 =>
          /\ \A p \in puts : at = "staging" /\ op.kind = "prepared" /\ p.by = clock
          /\ \A b \in Blob : leftovers[b] = 0
          /\ at = "collecting" => removals = Garbage
          /\ at = "idle" => blobs \subseteq Referenced(index)
          /\ at = "staging" /\ op.kind = "put" => blobs \subseteq Referenced(index)
          /\ at # "undo"
          /\ crashes + losses = 0 =>
                /\ at = "down" => manifests \subseteq diskIndex
                /\ at \in {"idle", "staging", "collect", "collecting"} => manifests \subseteq index
                /\ at \in {"manifest", "manifestSync"} => manifests \subseteq index \cup op.batch
                /\ at = "indexSync" => manifests \subseteq index \cup next
                /\ at = "retire" => manifests \subseteq index \cup todo
                /\ at \in Recovering => manifests \subseteq next \cup todo

LEMMA SpaceInit == Init => SpaceInv
  BY DEF Init, SpaceInv, Recovering, NoLeftovers

LEMMA SpaceNext ==
  StoreInv /\ FilesAreSafe /\ RecordsInv /\ BlobsInv /\ SpaceInv /\ [Next]_vars => SpaceInv'
<1> SUFFICES ASSUME StoreInv, FilesAreSafe, RecordsInv, BlobsInv, SpaceInv, [Next]_vars
             PROVE  SpaceInv'
  OBVIOUS
<1> USE DEF SpaceInv, OwnPuts, Garbage, Recovering, Files, Tasks, Budget, NoFault, Fault,
            Finish, EndCollection, NoOp, NoLeftovers
<1>0. /\ at \notin {"down", "indexSync", "recoverSync"} => index = diskIndex
      /\ at \in {"collect", "collecting"} => index \subseteq manifests \ damaged
      /\ at = "staging" => op.kind # "delete"
      /\ at \in {"manifest", "manifestSync"} => todo \subseteq op.batch
      /\ at \in {"down", "idle"} => op = NoOp
      /\ puts \subseteq [blob : Blob, by : Nat, step : {"look", "write", "sync"}]
  BY DEF StoreInv, Agree, IndexIsReadable, RecordsInv, NextIsThere, FilesAreSafe, BlobsInv
<1>1. ASSUME NEW kind \in {"prepared", "put"}, NEW batch \in Batches, Begin(kind, batch)
      PROVE  SpaceInv'
  <2>1. at = "idle" /\ at' = "staging" /\ op'.kind = kind
    BY <1>1 DEF Begin
  <2>2. kind # "prepared" => puts' = puts
    BY <1>1 DEF Begin
  <2> QED
    BY <1>1, <2>1, <2>2 DEF Begin
<1>2. ASSUME NEW p \in puts, LookForBlob(p) PROVE SpaceInv'
  BY <1>0, <1>2 DEF LookForBlob
<1>3. ASSUME NEW p \in puts, WriteBlob(p) PROVE SpaceInv'
  BY <1>0, <1>3 DEF WriteBlob
<1>4. ASSUME NEW p \in puts, SyncBlobs(p) PROVE SpaceInv'
  BY <1>0, <1>4 DEF SyncBlobs
<1>5. ASSUME NEW p \in puts, PutBlobFails(p) PROVE SpaceInv'
  BY <1>0, <1>5 DEF PutBlobFails
<1>6. CASE Validate
  <2>1. /\ at = "staging" /\ op.kind \in {"prepared", "put"} /\ OwnPuts = {}
        /\ UNCHANGED <<Files, index, faults, crashes, losses>>
    BY <1>0, <1>6 DEF Validate, RecordsInv, Planning, BatchOK
  <2>2. \/ at' = "manifest"
        \/ at' = "collect"
        \/ at' = "idle" /\ op.kind = "put"
    BY <1>6, <2>1 DEF Validate
  <2>3. faults = 0 => puts = {}
    BY <2>1
  <2> QED
    BY <1>6, <2>1, <2>2, <2>3 DEF Validate
<1>7. ASSUME NEW r \in todo, WriteManifest(r) PROVE SpaceInv'
  BY <1>0, <1>7 DEF WriteManifest
<1>8. ASSUME NEW r \in todo, UndoManifest(r) PROVE SpaceInv'
  BY <1>0, <1>8 DEF UndoManifest
<1>9. ASSUME NEW r \in todo, RetireManifest(r) PROVE SpaceInv'
  BY <1>0, <1>9 DEF RetireManifest
<1>10. CASE SyncManifest
  BY <1>0, <1>10 DEF SyncManifest
<1>11. CASE WriteFails
  BY <1>0, <1>11 DEF WriteFails
<1>12. CASE Undone
  BY <1>0, <1>12 DEF Undone
<1>13. CASE CommitIndex
  <2>1. op.batch \subseteq next
    BY <1>13, NextIsConsistent DEF CommitIndex, RecordsInv, Planning, BatchOK
  <2> QED
    BY <1>13, <2>1 DEF CommitIndex
<1>14. CASE SyncIndex
  BY <1>0, <1>14 DEF SyncIndex
<1>15. CASE SyncIndexFails
  BY <1>0, <1>15 DEF SyncIndexFails
<1>16. CASE RetireFails
  BY <1>0, <1>16 DEF RetireFails
<1>17. CASE Retired
  BY <1>0, <1>17 DEF Retired
<1>18. ASSUME NEW r \in index, BeginDelete(r) PROVE SpaceInv'
  BY <1>0, <1>18 DEF BeginDelete
<1>19. CASE Collect
  BY <1>0, <1>19 DEF Collect
<1>20. ASSUME NEW b \in Blob, RemoveBlob(b) PROVE SpaceInv'
  BY <1>0, <1>20 DEF RemoveBlob
<1>21. CASE Collected
  <2>1. at = "collecting" /\ at' = "idle" /\ removals = {}
    BY <1>21 DEF Collected
  <2> QED
    BY <1>21, <2>1 DEF Collected
<1>22. CASE CollectFails
  BY <1>0, <1>22 DEF CollectFails
<1>23. ASSUME NEW b \in Blob, RemoveBlobFails(b) PROVE SpaceInv'
  BY <1>0, <1>23 DEF RemoveBlobFails
<1>24. ASSUME NEW b \in Blob, RemoveLate(b) PROVE SpaceInv'
  BY <1>0, <1>24 DEF RemoveLate
<1>25. CASE Open
  BY <1>0, <1>25 DEF Open
<1>26. ASSUME NEW r \in todo, Quarantine(r) PROVE SpaceInv'
  BY <1>0, <1>26 DEF Quarantine
<1>27. CASE Recovered
  BY <1>0, <1>27 DEF Recovered
<1>28. CASE SyncRecovered
  BY <1>0, <1>28 DEF SyncRecovered
<1>29. CASE OpenFails
  BY <1>0, <1>29 DEF OpenFails
<1>30. CASE Close
  BY <1>0, <1>30 DEF Close
<1>31. CASE Crash
  BY <1>0, <1>31 DEF Crash
<1>32. CASE PowerLoss
  BY <1>0, <1>32 DEF PowerLoss
<1>33. ASSUME NEW r \in diskIndex, Damage(r) PROVE SpaceInv'
  BY <1>0, <1>33 DEF Damage
<1>34. CASE UNCHANGED vars
  BY <1>0, <1>34 DEF vars
<1> QED
  BY <1>1, <1>2, <1>3, <1>4, <1>5, <1>6, <1>7, <1>8, <1>9, <1>10, <1>11, <1>12,
     <1>13, <1>14, <1>15, <1>16, <1>17, <1>18, <1>19, <1>20, <1>21, <1>22, <1>23,
     <1>24, <1>25, <1>26, <1>27, <1>28, <1>29, <1>30, <1>31, <1>32, <1>33,
     <1>34 DEF Next, Put

(* SpaceIsReclaimed: as long as no file operation fails, the blobs at rest *)
(* are those the index refers to, after any crash and power loss, and the  *)
(* manifests those it names, as long as the process does not die.          *)
THEOREM UnusedIsReclaimed == Spec => []SpaceIsReclaimed
<1>1. StoreInv /\ SpaceInv => SpaceIsReclaimed
  BY DEF StoreInv, IndexIsReadable, Recovering, SpaceInv, SpaceIsReclaimed
<1> QED
  BY <1>1, BlobsHold, SpaceInit, SpaceNext, PTL DEF Spec

-----------------------------------------------------------------------------
(* The store implements AtomicReviews.                                     *)
StoreIsSound == StoreInv /\ FilesAreSafe /\ RecordsInv /\ BlobsInv

LEMMA SameCardinality == \A S : Promise!Cardinality(S) = Cardinality(S)
  BY DEF Promise!Cardinality, Cardinality

LEMMA PartIsConsistent ==
  ASSUME NEW i, Whole(i), NEW j, j \subseteq i
  PROVE  /\ Cardinality(Promise!Ids(j)) = Cardinality(j)
         /\ Cardinality(Promise!Active(j)) <= 1
         /\ Cardinality(Promise!Archived(j)) <= Retention
<1>1. Whole(j) /\ IsFiniteSet(j)
  BY PartIsWhole DEF Whole
<1>2. Cardinality(Promise!Ids(j)) = Cardinality(j)
  <2> DEFINE f == [r \in j |-> r.review]
  <2>1. f \in Bijection(j, Promise!Ids(j))
    <3>1. f \in Surjection(j, Promise!Ids(j))
      BY DEF Surjection, Promise!Ids
    <3>2. f \in Injection(j, Promise!Ids(j))
      BY <1>1 DEF Injection, IsInjective, Promise!Ids, Whole
    <3> QED
      BY <3>1, <3>2 DEF Bijection
  <2>2. ExistsBijection(j, Promise!Ids(j))
    BY <2>1 DEF ExistsBijection
  <2> QED
    BY <1>1, <2>2, FS_Bijection
<1>3. Promise!Active(j) = Active(j) /\ Promise!Archived(j) = Archived(j)
  BY DEF Promise!Active, Active, Promise!Archived, Archived
<1>4. IsFiniteSet(Active(j))
  BY <1>1, FS_Subset DEF Active
<1> QED
  BY <1>1, <1>2, <1>3, <1>4, AtMostOne DEF Whole

(* With its blobs always there, a record can be read as long as its        *)
(* manifest can.                                                           *)
LEMMA ReadableRecords ==
  ASSUME StoreIsSound
  PROVE  /\ Readable = diskIndex \cap (manifests \ damaged)
         /\ at \notin {"down"} \cup Recovering => Readable = diskIndex
         /\ Readable \subseteq UNION mayIndex
<1>1. \A r \in diskIndex : r.blobs \subseteq blobs \cup stray
  BY References DEF StoreIsSound, BlobsInv
<1>2. Readable = diskIndex \cap (manifests \ damaged)
  BY <1>1 DEF Readable
<1>3. at \notin {"down"} \cup Recovering => diskIndex \subseteq manifests \ damaged
  BY DEF StoreIsSound, StoreInv, Agree, IndexIsReadable, NextIsThere, Recovering
<1> QED
  BY <1>2, <1>3 DEF StoreIsSound, FilesAreSafe

LEMMA ReadableNext ==
  ASSUME StoreIsSound'
  PROVE  /\ Readable' = diskIndex' \cap (manifests' \ damaged')
         /\ Promise!Consistent'
<1>1. \A r \in diskIndex' : r.blobs \subseteq blobs' \cup stray'
  BY References DEF StoreIsSound, BlobsInv
<1>2. Readable' = diskIndex' \cap (manifests' \ damaged')
  BY <1>1 DEF Readable
<1>3. Whole(diskIndex')
  BY DEF StoreIsSound, FilesAreSafe, RecordsInv
<1>4. /\ Cardinality(Promise!Ids(Readable')) = Cardinality(Readable')
      /\ Cardinality(Promise!Active(Readable')) <= 1
      /\ Cardinality(Promise!Archived(Readable')) <= Retention
  <2>1. Readable' \subseteq diskIndex'
    BY <1>2
  <2> QED
    BY <1>3, <2>1, PartIsConsistent
<1>5. Promise!Consistent'
  BY <1>4, SameCardinality DEF Promise!Consistent, Promise!Ids, Promise!Active, Promise!Archived
<1> QED
  BY <1>2, <1>5

(* A step that changes neither the records nor the deletion under way.     *)
Quiet == /\ Readable' = Readable /\ Deleting' = Deleting
         /\ (at' # "down") = (at # "down")
         /\ UNION mayIndex' \subseteq (UNION mayIndex) \cup Readable'

Stops == /\ at # "down" /\ at' = "down" /\ Deleting' = {} /\ Readable' = Readable
         /\ UNION mayIndex' \subseteq UNION mayIndex

LEMMA QuietStep ==
  ASSUME Quiet \/ Stops, Promise!Consistent'
  PROVE  Promise!Next
  BY DEF Quiet, Stops, Promise!Next, Promise!Settle, Promise!Stop,
         Promise!OnlyCommittedIsRestorable

LEMMA EndsStep ==
  ASSUME Deleting' = {}, Readable' = Readable, at # "down", at' # "down",
         UNION mayIndex' \subseteq UNION mayIndex, Promise!Consistent'
  PROVE  Promise!Next
<1>1. CASE Deleting = {}
  BY <1>1, QuietStep DEF Quiet
<1>2. CASE Deleting # {}
  BY <1>2 DEF Promise!Next, Promise!EndDelete, Promise!OnlyCommittedIsRestorable
<1> QED
  BY <1>1, <1>2

LEMMA EveryStepMaps ==
  ASSUME StoreIsSound, StoreIsSound', [Next]_vars
  PROVE  [Promise!Next]_<<Readable, Deleting, at # "down", UNION mayIndex>>
<1> DEFINE Step == [Promise!Next]_<<Readable, Deleting, at # "down", UNION mayIndex>>
<1> SUFFICES Step
  OBVIOUS
<1> USE DEF Quiet, Stops, Deleting, Recovering, Files, Budget, NoFault, Fault, Finish,
            EndCollection, NoOp
<1>0. /\ Promise!Consistent' /\ Readable \subseteq UNION mayIndex
      /\ Readable = diskIndex \cap (manifests \ damaged)
      /\ Readable' = diskIndex' \cap (manifests' \ damaged')
      /\ at \notin {"down"} \cup Recovering => Readable = diskIndex
      /\ at \notin {"down", "indexSync", "recoverSync"} => index = diskIndex
      /\ at \in {"indexSync", "recoverSync"} => next = diskIndex /\ next \in mayIndex
      /\ at \in {"manifest", "manifestSync", "undo"} => todo \cap index = {}
      /\ at = "retire" => todo \cap index = {}
      /\ at = "recover" => todo \subseteq damaged /\ next = index \cap (manifests \ damaged)
      /\ at \in {"down", "idle"} => op = NoOp
      /\ at \in {"retire", "collect", "collecting"} /\ op.kind = "delete" => next = index
      /\ at \in {"staging", "undo"} => op.kind # "delete"
      /\ at \in Recovering => op.kind = "open"
  <2>1. ASSUME at \in {"manifest", "manifestSync", "undo"}, NEW r \in todo, r \in index PROVE FALSE
    <3>1. r \in op.batch /\ r.version = clock /\ r.version < clock
      BY <2>1 DEF StoreIsSound, StoreInv, NextIsThere, BatchIsNew, Writing
    <3>2. clock \in Nat
      BY DEF StoreIsSound, StoreInv, VersionsAreOld
    <3> QED
      BY <3>1, <3>2
  <2>2. /\ Promise!Consistent' /\ Readable \subseteq UNION mayIndex
        /\ Readable = diskIndex \cap (manifests \ damaged)
        /\ Readable' = diskIndex' \cap (manifests' \ damaged')
        /\ at \notin {"down"} \cup Recovering => Readable = diskIndex
    BY ReadableRecords, ReadableNext
  <2> QED
    BY <2>1, <2>2 DEF StoreIsSound, StoreInv, Agree, NextIsThere, FilesAreSafe, RecordsInv
<1>1. ASSUME NEW kind \in {"prepared", "put"}, NEW batch \in Batches, Begin(kind, batch)
      PROVE  Step
  BY <1>0, <1>1, QuietStep DEF Begin
<1>2. ASSUME NEW p \in puts, LookForBlob(p) PROVE Step
  BY <1>0, <1>2, QuietStep DEF LookForBlob
<1>3. ASSUME NEW p \in puts, WriteBlob(p) PROVE Step
  BY <1>0, <1>3, QuietStep DEF WriteBlob
<1>4. ASSUME NEW p \in puts, SyncBlobs(p) PROVE Step
  BY <1>0, <1>4, QuietStep DEF SyncBlobs
<1>5. ASSUME NEW p \in puts, PutBlobFails(p) PROVE Step
  BY <1>0, <1>5, QuietStep DEF PutBlobFails
<1>6. CASE Validate
  BY <1>0, <1>6, QuietStep DEF Validate
<1>7. ASSUME NEW r \in todo, WriteManifest(r) PROVE Step
  <2>1. r \notin diskIndex
    BY <1>0, <1>7 DEF WriteManifest
  <2> QED
    BY <1>0, <1>7, <2>1, QuietStep DEF WriteManifest
<1>8. ASSUME NEW r \in todo, UndoManifest(r) PROVE Step
  <2>1. r \notin diskIndex
    BY <1>0, <1>8 DEF UndoManifest
  <2> QED
    BY <1>0, <1>8, <2>1, QuietStep DEF UndoManifest
<1>9. ASSUME NEW r \in todo, RetireManifest(r) PROVE Step
  <2>1. r \notin diskIndex
    BY <1>0, <1>9 DEF RetireManifest
  <2> QED
    BY <1>0, <1>9, <2>1, QuietStep DEF RetireManifest
<1>10. CASE SyncManifest
  BY <1>0, <1>10, QuietStep DEF SyncManifest
<1>11. CASE WriteFails
  <2>1. CASE op.kind = "delete"
    <3>1. /\ Deleting' = {} /\ Readable' = Readable /\ at # "down" /\ at' # "down"
          /\ UNION mayIndex' \subseteq UNION mayIndex
      BY <1>0, <1>11, <2>1 DEF WriteFails
    <3> QED
      BY <1>0, <3>1, EndsStep
  <2>2. CASE op.kind # "delete"
    BY <1>0, <1>11, <2>2, QuietStep DEF WriteFails
  <2> QED
    BY <2>1, <2>2
<1>12. CASE Undone
  BY <1>0, <1>12, QuietStep DEF Undone
<1>13. CASE CommitIndex
  <2>1. /\ at = "manifest" /\ at' = "indexSync" /\ diskIndex' = next /\ op' = op
        /\ mayIndex' = mayIndex \cup {next} /\ UNCHANGED <<manifests, damaged, index, next>>
        /\ todo = {}
    BY <1>13 DEF CommitIndex
  <2>2. next \subseteq manifests \ damaged /\ Readable = index
    BY <1>0, <2>1 DEF StoreIsSound, StoreInv, NextIsThere, IndexIsReadable, Recovering
  <2>3. Readable' = next /\ Deleting' = Deleting
    BY <1>0, <2>1, <2>2
  <2>4. BatchOK /\ PlanOK
    BY <2>1 DEF StoreIsSound, RecordsInv, Planning
  <2>5. Promise!OnlyCommittedIsRestorable
    BY <2>1, <2>3 DEF Promise!OnlyCommittedIsRestorable
  <2>6. CASE op.kind = "delete"
    <3>1. PICK r \in index : next = index \ {r}
      BY <2>4, <2>6 DEF PlanOK
    <3>2. Deleting = {r} /\ Readable' = Readable \ Deleting /\ Deleting \cap Readable # {}
      BY <2>2, <2>3, <2>6, <3>1
    <3> QED
      BY <1>0, <2>1, <2>3, <2>5, <3>2 DEF Promise!Next, Promise!Delete
  <2>7. CASE op.kind # "delete"
    <3> DEFINE new == op.batch
               kept == index \cap (next \ new)
    <3>1. /\ BatchAt(new, clock) /\ next = NextIndex(new) /\ SnapshotsKept(new)
      BY <2>4, <2>7 DEF BatchOK, PlanOK
    <3>2. /\ new \subseteq next /\ kept \subseteq index
          /\ next = kept \cup new /\ new # {}
      <4>1. new \subseteq next /\ next \subseteq index \cup new
        BY <2>1, <2>7, <3>1, NextIsConsistent, NextIndexNames DEF StoreIsSound
      <4> QED
        BY <3>1, <4>1 DEF BatchAt
    <3>3. Promise!Ids(kept) \cap Promise!Ids(new) = {}
      <4>1. ASSUME NEW p \in kept, NEW r \in new, p.review = r.review PROVE FALSE
        <5>1. p \notin Replaced(new)
          BY <3>1, <4>1 DEF NextIndex
        <5> QED
          BY <4>1, <5>1 DEF Replaced, Ids
      <4> QED
        BY <4>1 DEF Promise!Ids
    <3>4. \A r \in new, p \in Readable : r.review = p.review => p.blobs \subseteq r.blobs
      BY <2>2, <3>1 DEF SnapshotsKept
    <3>5. \A p \in Readable \ kept :
             \/ p.review \in Promise!Ids(new)
             \/ /\ p.state = "archived"
                /\ Promise!Cardinality({r \in Promise!Archived(next) : r.stamp >= p.stamp})
                     = Retention
      <4> SUFFICES ASSUME NEW p \in index, p \notin kept, p.review \notin Promise!Ids(new)
                   PROVE  /\ p.state = "archived"
                          /\ Cardinality({r \in Promise!Archived(next) : r.stamp >= p.stamp})
                               = Retention
        BY <2>2, SameCardinality
      <4>1. Promise!Ids(new) = Ids(new) /\ Promise!Archived(next) = Archived(next)
        BY DEF Promise!Ids, Ids, Promise!Archived, Archived
      <4>2. p \notin next
        BY DEF Promise!Ids
      <4> QED
        BY <2>1, <2>7, <4>1, <4>2, NextIsConsistent DEF StoreIsSound
    <3> HIDE DEF kept, new
    <3>6. Promise!Commit
      <4>1. kept \in SUBSET Readable /\ new \in SUBSET Readable' /\ Readable' = kept \cup new
        BY <2>2, <2>3, <3>2
      <4>2. Deleting = {} /\ UNCHANGED <<Deleting, at # "down">> /\ at # "down"
        BY <2>1, <2>3, <2>7
      <4>3. /\ Readable' = kept \cup new /\ new # {}
            /\ Promise!Ids(kept) \cap Promise!Ids(new) = {}
            /\ \A r \in new, p \in Readable : r.review = p.review => p.blobs \subseteq r.blobs
            /\ \A p \in Readable \ kept :
                  \/ p.review \in Promise!Ids(new)
                  \/ /\ p.state = "archived"
                     /\ Promise!Cardinality({r \in Promise!Archived(Readable') :
                                               r.stamp >= p.stamp}) = Retention
        BY <2>3, <3>2, <3>3, <3>4, <3>5, <4>1
      <4>4. \E k \in SUBSET Readable, n \in SUBSET Readable' :
               /\ Readable' = k \cup n
               /\ n # {}
               /\ Promise!Ids(k) \cap Promise!Ids(n) = {}
               /\ \A r \in n, p \in Readable : r.review = p.review => p.blobs \subseteq r.blobs
               /\ \A p \in Readable \ k :
                     \/ p.review \in Promise!Ids(n)
                     \/ /\ p.state = "archived"
                        /\ Promise!Cardinality({r \in Promise!Archived(Readable') :
                                                  r.stamp >= p.stamp}) = Retention
        <5> USE <4>1
        <5> WITNESS kept \in SUBSET Readable, new \in SUBSET Readable'
        <5> QED
          BY <4>3
      <4> HIDE DEF Deleting
      <4> QED
        BY <4>2, <4>4, Zenon DEF Promise!Commit
    <3> QED
      BY <1>0, <2>5, <3>6 DEF Promise!Next
  <2> QED
    BY <2>6, <2>7
<1>14. CASE SyncIndex
  <2>1. /\ Deleting' = {} /\ Readable' = Readable /\ at # "down" /\ at' # "down"
        /\ UNION mayIndex' \subseteq UNION mayIndex
    BY <1>0, <1>14 DEF SyncIndex
  <2> QED
    BY <1>0, <2>1, EndsStep
<1>15. CASE SyncIndexFails
  <2>1. /\ Deleting' = {} /\ Readable' = Readable /\ at # "down" /\ at' # "down"
        /\ UNION mayIndex' \subseteq UNION mayIndex
    BY <1>0, <1>15 DEF SyncIndexFails
  <2> QED
    BY <1>0, <2>1, EndsStep
<1>16. CASE RetireFails
  BY <1>0, <1>16, QuietStep DEF RetireFails
<1>17. CASE Retired
  BY <1>0, <1>17, QuietStep DEF Retired
<1>18. ASSUME NEW r \in index, BeginDelete(r) PROVE Step
  <2>1. /\ at = "idle" /\ at' = "manifest" /\ Readable' = Readable /\ mayIndex' = mayIndex
        /\ Deleting = {} /\ Deleting' = {r}
    BY <1>0, <1>18 DEF BeginDelete
  <2>2. Promise!Cardinality(Deleting') = 1
    BY <2>1, SameCardinality, FS_Singleton
  <2> QED
    BY <1>0, <2>1, <2>2
    DEF Promise!Next, Promise!AskDelete, Promise!OnlyCommittedIsRestorable
<1>19. CASE Collect
  BY <1>0, <1>19, QuietStep DEF Collect
<1>20. ASSUME NEW b \in Blob, RemoveBlob(b) PROVE Step
  BY <1>0, <1>20, QuietStep DEF RemoveBlob
<1>21. CASE Collected
  BY <1>0, <1>21, QuietStep DEF Collected
<1>22. CASE CollectFails
  BY <1>0, <1>22, QuietStep DEF CollectFails
<1>23. ASSUME NEW b \in Blob, RemoveBlobFails(b) PROVE Step
  <2>1. /\ at = "collecting" /\ UNCHANGED <<Files, index>>
        /\ \/ at' = "idle" /\ op' = NoOp
           \/ at' = "down" /\ op' = NoOp
    BY <1>23 DEF RemoveBlobFails
  <2>2. Deleting = {} /\ Deleting' = {} /\ Readable' = Readable /\ mayIndex' = mayIndex
    BY <1>0, <2>1
  <2>3. Quiet \/ Stops
    BY <2>1, <2>2
  <2> QED
    BY <1>0, <2>3, QuietStep
<1>24. ASSUME NEW b \in Blob, RemoveLate(b) PROVE Step
  BY <1>0, <1>24, QuietStep DEF RemoveLate
<1>25. CASE Open
  <2>1. /\ at = "down" /\ at' = "recover" /\ Readable' = Readable /\ Deleting' = Deleting
        /\ mayIndex' = mayIndex
    BY <1>0, <1>25 DEF Open
  <2> QED
    BY <1>0, <2>1 DEF Promise!Next, Promise!Start, Promise!OnlyCommittedIsRestorable
<1>26. ASSUME NEW r \in todo, Quarantine(r) PROVE Step
  BY <1>0, <1>26, QuietStep DEF Quarantine
<1>27. CASE Recovered
  BY <1>0, <1>27, QuietStep DEF Recovered
<1>28. CASE SyncRecovered
  BY <1>0, <1>28, QuietStep DEF SyncRecovered
<1>29. CASE OpenFails
  BY <1>0, <1>29, QuietStep DEF OpenFails
<1>30. CASE Close
  BY <1>0, <1>30, QuietStep DEF Close
<1>31. CASE Crash
  BY <1>0, <1>31, QuietStep DEF Crash
<1>32. CASE PowerLoss
  <2>1. /\ Readable' \subseteq diskIndex' /\ diskIndex' \in mayIndex /\ mayIndex' = {diskIndex'}
        /\ Deleting' = {} /\ at' = "down"
    BY <1>0, <1>32 DEF PowerLoss
  <2> QED
    BY <1>0, <2>1 DEF Promise!Next, Promise!PowerLoss, Promise!OnlyCommittedIsRestorable
<1>33. ASSUME NEW r \in diskIndex, Damage(r) PROVE Step
  <2>1. /\ r \in Readable /\ Readable' = Readable \ {r} /\ Deleting' = Deleting
        /\ at = "down" /\ at' = "down" /\ mayIndex' = mayIndex
    BY <1>0, <1>33 DEF Damage
  <2> QED
    BY <1>0, <2>1 DEF Promise!Next, Promise!Lose, Promise!OnlyCommittedIsRestorable
<1>34. CASE UNCHANGED vars
  BY <1>34 DEF vars, Readable, Tasks
<1> HIDE DEF Step
<1> QED
  BY <1>1, <1>2, <1>3, <1>4, <1>5, <1>6, <1>7, <1>8, <1>9, <1>10, <1>11, <1>12,
     <1>13, <1>14, <1>15, <1>16, <1>17, <1>18, <1>19, <1>20, <1>21, <1>22, <1>23,
     <1>24, <1>25, <1>26, <1>27, <1>28, <1>29, <1>30, <1>31, <1>32, <1>33,
     <1>34 DEF Next, Put

(* ImplementsAtomicReviews: with any number of failing file operations,    *)
(* crashes, power losses and damaged manifests, every step of the store is *)
(* one of AtomicReviews or changes nothing that is promised.  A record     *)
(* counts as readable although contents of it are stray.                   *)
THEOREM StoreIsAtomic == Spec => ImplementsAtomicReviews
<1>1. Init => Promise!Init
  BY DEF Init, Promise!Init, Readable, Deleting, NoOp
<1>2. StoreIsSound /\ StoreIsSound' /\ [Next]_vars
         => [Promise!Next]_<<Readable, Deleting, at # "down", UNION mayIndex>>
  BY EveryStepMaps
<1>3. Spec => []StoreIsSound
  BY BlobsHold DEF StoreIsSound
<1> QED
  BY <1>1, <1>2, <1>3, PTL DEF Spec, ImplementsAtomicReviews, Promise!Spec
=============================================================================
