------------------------------ MODULE JjProofs ------------------------------
(***************************************************************************)
(* Proofs about the jj client: about ReviewSelection, for any bounds on    *)
(* the commits, their conflicts and the user's moves, and about            *)
(* ProcessRunner, for any finite set of requests and any limit.            *)
(***************************************************************************)
EXTENDS ReviewSelection, ProcessRunner, FiniteSetTheorems, SequenceTheorems,
        WellFoundedInduction, TLAPS

-----------------------------------------------------------------------------
(* ProcessRunner.                                                          *)

RunnerTypeOK ==
    /\ active \in Nat
    /\ waiters \in Seq(Request)
    /\ stage \in [Request -> Stage]
    /\ aborted \subseteq Request
    /\ child \in [Request -> ChildState]
    /\ outcome \in [Request -> Outcome]

(* The queue is of requests that wait, each once: whoever is handed a      *)
(* permit did not have one, and does not stay queued.                      *)
QueueOK ==
    /\ \A i \in 1 .. Len(waiters) : stage[waiters[i]] = "waiting"
    /\ \A i, j \in 1 .. Len(waiters) : waiters[i] = waiters[j] => i = j

(* A child lives no longer than its request runs.                          *)
ChildrenRun == \A r \in Living : stage[r] = "running"

RunnerInv == RunnerTypeOK /\ QueueOK /\ ChildrenRun /\ PermitsAreConserved

-----------------------------------------------------------------------------
(* How a step changes the permits held.                                    *)

LEMMA HoldersFinite == IsFiniteSet(Holders)
  BY RunnerAssumption, FS_Subset DEF Holders

LEMMA HoldersKept ==
  ASSUME Holders' = Holders
  PROVE  Cardinality(Holders)' = Cardinality(Holders)
  OBVIOUS

LEMMA HoldersGain ==
  ASSUME NEW r, r \notin Holders, Holders' = Holders \cup {r}
  PROVE  Cardinality(Holders)' = Cardinality(Holders) + 1
  BY HoldersFinite, FS_AddElement

LEMMA HoldersLose ==
  ASSUME NEW r, r \in Holders, Holders' = Holders \ {r}
  PROVE  Cardinality(Holders)' = Cardinality(Holders) - 1
  BY HoldersFinite, FS_RemoveElement

LEMMA HoldersSwap ==
  ASSUME NEW r, NEW h, r \in Holders, h \notin Holders,
         Holders' = (Holders \ {r}) \cup {h}
  PROVE  Cardinality(Holders)' = Cardinality(Holders)
<1>1. /\ IsFiniteSet(Holders \ {r})
      /\ Cardinality(Holders \ {r}) = Cardinality(Holders) - 1
  BY HoldersFinite, FS_RemoveElement
<1>2. Cardinality(Holders)' = (Cardinality(Holders) - 1) + 1
  BY <1>1, FS_AddElement
<1> QED
  BY <1>2, HoldersFinite, FS_CardinalityType

(* How a step changes the queue.                                           *)

LEMMA QueueKept ==
  ASSUME RunnerTypeOK, QueueOK, waiters' = waiters,
         NEW r \in Request, stage[r] # "waiting",
         \A q \in Request : q # r => stage'[q] = stage[q]
  PROVE  QueueOK'
<1>1. \A i \in 1 .. Len(waiters) : waiters[i] \in Request /\ waiters[i] # r
  BY ElementOfSeq DEF RunnerTypeOK, QueueOK
<1> QED
  BY <1>1 DEF QueueOK

-----------------------------------------------------------------------------
LEMMA RunnerInvInit == RunnerInit => RunnerInv
<1> SUFFICES ASSUME RunnerInit PROVE RunnerInv
  OBVIOUS
<1> USE DEF RunnerInit
<1>1. RunnerTypeOK
  BY DEF RunnerTypeOK, Stage, ChildState, Outcome
<1>2. QueueOK /\ ChildrenRun
  BY DEF QueueOK, ChildrenRun, Living
<1>3. Holders = {} /\ Living = {}
  BY DEF Holders, Living
<1>4. PermitsAreConserved
  BY <1>3, FS_EmptySet, RunnerAssumption DEF PermitsAreConserved
<1> QED
  BY <1>1, <1>2, <1>4 DEF RunnerInv

LEMMA RunnerInvStep == RunnerInv /\ [RunnerNext]_runnerVars => RunnerInv'
<1> SUFFICES ASSUME RunnerInv, [RunnerNext]_runnerVars PROVE RunnerInv'
  OBVIOUS
<1> USE RunnerAssumption DEF RunnerInv, RunnerTypeOK
<1>1. ASSUME NEW r \in Request, Acquire(r) PROVE RunnerInv'
  <2> USE <1>1 DEF Acquire, Ends, Becomes
  <2>1. RunnerTypeOK'
    <3>1. waiters' = waiters \/ waiters' = Append(waiters, r)
      OBVIOUS
    <3>2. waiters' \in Seq(Request)
      BY <3>1, AppendProperties
    <3>3. /\ active' \in Nat /\ aborted' \subseteq Request
          /\ child' \in [Request -> ChildState]
      OBVIOUS
    <3>4. stage' \in [Request -> Stage] /\ outcome' \in [Request -> Outcome]
      BY DEF Stage, Outcome
    <3> QED
      BY <3>2, <3>3, <3>4
  <2>2. QueueOK'
    <3>1. CASE waiters' = waiters
      BY <3>1, QueueKept
    <3>2. CASE waiters' # waiters
      <4>1. waiters' = Append(waiters, r) /\ stage' = [stage EXCEPT ![r] = "waiting"]
        BY <3>2
      <4>2. \A i \in 1 .. Len(waiters) : waiters[i] \in Request /\ waiters[i] # r
        BY ElementOfSeq DEF QueueOK
      <4>3. /\ Len(waiters') = Len(waiters) + 1
            /\ \A i \in 1 .. Len(waiters) : waiters'[i] = waiters[i]
            /\ waiters'[Len(waiters) + 1] = r
        BY <4>1, AppendProperties
      <4> QED
        BY <4>1, <4>2, <4>3, LenProperties DEF QueueOK
    <3> QED
      BY <3>1, <3>2
  <2>3. ChildrenRun'
    BY DEF ChildrenRun, Living
  <2>4. PermitsAreConserved'
    <3>1. CASE stage'[r] = "granted"
      <4>1. r \notin Holders /\ Holders' = Holders \cup {r}
        BY <3>1 DEF Holders
      <4>2. active' = active + 1 /\ active < Limit /\ waiters' = waiters
        BY <3>1
      <4> QED
        BY <2>3, <4>1, <4>2, HoldersGain DEF PermitsAreConserved, ChildrenRun, Living, Holders
    <3>2. CASE stage'[r] # "granted"
      <4>1. Holders' = Holders /\ Living' = Living /\ active' = active
        BY <3>2 DEF Holders, Living
      <4>2. waiters' # waiters => active >= Limit
        BY <3>2
      <4> QED
        BY <4>1, <4>2, HoldersKept DEF PermitsAreConserved
    <3> QED
      BY <3>1, <3>2
  <2> QED
    BY <2>1, <2>2, <2>3, <2>4
<1>2. ASSUME NEW r \in Request, Release(r) PROVE RunnerInv'
  <2> USE <1>2 DEF Release, Becomes
  <2>1. r \in Holders
    BY DEF Holders
  <2>2. ChildrenRun'
    BY DEF ChildrenRun, Living, QueueOK
  <2>3. CASE waiters = <<>>
    <3>1. RunnerTypeOK'
      <4>1. active \in Nat \ {0}
        BY <2>1, HoldersFinite, FS_EmptySet, FS_CardinalityType DEF PermitsAreConserved
      <4> QED
        BY <2>3, <4>1 DEF Stage
    <3>2. QueueOK'
      BY <2>3 DEF QueueOK
    <3>3. Holders' = Holders \ {r}
      BY <2>3 DEF Holders
    <3>4. PermitsAreConserved'
      BY <2>1, <2>2, <2>3, <3>3, HoldersLose
      DEF PermitsAreConserved, ChildrenRun, Living, Holders
    <3> QED
      BY <2>2, <3>1, <3>2, <3>4
  <2>4. CASE waiters # <<>>
    <3> DEFINE h == Head(waiters)
    <3>1. h = waiters[1] /\ 1 \in 1 .. Len(waiters) /\ h \in Request
      BY <2>4
    <3>2. stage[h] = "waiting"
      BY <3>1 DEF QueueOK
    <3>3. waiters' = Tail(waiters) /\ stage' = [stage EXCEPT ![r] = "done", ![h] = "granted"]
      BY <2>4
    <3>4. RunnerTypeOK'
      BY <2>4, <3>1, <3>3 DEF Stage
    <3>5. /\ Len(waiters') = Len(waiters) - 1
          /\ \A i \in 1 .. Len(waiters') : waiters'[i] = waiters[i + 1]
      BY <2>4, <3>3
    <3>6. QueueOK'
      BY <3>1, <3>2, <3>3, <3>5 DEF QueueOK
    <3>7. h \notin Holders /\ Holders' = (Holders \ {r}) \cup {h}
      BY <3>1, <3>2, <3>3 DEF Holders
    <3>8. PermitsAreConserved'
      BY <2>1, <2>2, <2>4, <3>7, HoldersSwap
      DEF PermitsAreConserved, ChildrenRun, Living, Holders
    <3> QED
      BY <2>2, <3>4, <3>6, <3>8
  <2> QED
    BY <2>3, <2>4
<1>3. ASSUME NEW r \in Request, Abort(r) PROVE RunnerInv'
  <2> USE <1>3 DEF Abort, Ends, Becomes, Stopped
  <2>1. CASE stage[r] = "waiting"
    <3>1. PICK k \in 1 .. Len(waiters) :
            /\ waiters[k] = r
            /\ waiters' = [i \in 1 .. Len(waiters) - 1 |->
                             IF i < k THEN waiters[i] ELSE waiters[i + 1]]
      <4>1. DOMAIN waiters = 1 .. Len(waiters)
        BY LenProperties
      <4> QED
        BY <2>1, <4>1, Zenon
    <3>2. /\ waiters' \in Seq(Request)
          /\ Len(waiters') = Len(waiters) - 1
          /\ \A i \in 1 .. Len(waiters') :
                waiters'[i] = IF i < k THEN waiters[i] ELSE waiters[i + 1]
      <4>1. Len(waiters) - 1 \in Nat
        BY LenProperties
      <4>2. \A i \in 1 .. Len(waiters) - 1 :
                (IF i < k THEN waiters[i] ELSE waiters[i + 1]) \in Request
        BY <4>1, ElementOfSeq
      <4> QED
        BY <3>1, <4>1, <4>2
    <3>3. RunnerTypeOK'
      BY <2>1, <3>2 DEF Stage, Outcome
    <3>4. stage' = [stage EXCEPT ![r] = "done"]
      BY <2>1
    <3>5. QueueOK'
      <4> DEFINE old(i) == IF i < k THEN i ELSE i + 1
      <4>1. Len(waiters) \in Nat /\ k \in Nat
        BY LenProperties
      <4>2. \A i \in 1 .. Len(waiters') : old(i) \in 1 .. Len(waiters) \ {k}
        BY <3>2, <4>1
      <4>3. \A i, j \in 1 .. Len(waiters') : old(i) = old(j) => i = j
        BY <3>2, <4>1
      <4>4. \A i \in 1 .. Len(waiters') : waiters'[i] = waiters[old(i)]
        BY <3>2
      <4> HIDE DEF old
      <4>5. ASSUME NEW i \in 1 .. Len(waiters')
            PROVE  stage'[waiters'[i]] = "waiting"
        <5>1. /\ waiters[old(i)] \in Request /\ waiters[old(i)] # r
              /\ stage[waiters[old(i)]] = "waiting"
          BY <3>1, <4>2, ElementOfSeq DEF QueueOK
        <5> QED
          BY <3>4, <4>4, <5>1
      <4>6. ASSUME NEW i \in 1 .. Len(waiters'), NEW j \in 1 .. Len(waiters'),
                   waiters'[i] = waiters'[j]
            PROVE  i = j
        <5>1. waiters[old(i)] = waiters[old(j)]
          BY <4>4, <4>6
        <5>2. old(i) \in 1 .. Len(waiters) /\ old(j) \in 1 .. Len(waiters)
          BY <4>2
        <5>3. old(i) = old(j)
          BY <5>1, <5>2 DEF QueueOK
        <5> QED
          BY <4>3, <4>6, <5>3
      <4> QED
        BY <4>5, <4>6 DEF QueueOK
    <3>6. Holders' = Holders /\ Living' = Living /\ active' = active
      BY <2>1, <3>4 DEF Holders, Living
    <3>7. ChildrenRun'
      BY <2>1, <3>4, <3>6 DEF ChildrenRun, Living
    <3>8. waiters # <<>>
      BY <3>1
    <3>9. PermitsAreConserved'
      BY <3>6, <3>8, HoldersKept DEF PermitsAreConserved
    <3> QED
      BY <3>3, <3>5, <3>7, <3>9
  <2>2. CASE stage[r] # "waiting"
    <3>1. UNCHANGED <<active, waiters, stage>>
      BY <2>2
    <3>2. RunnerTypeOK'
      BY <2>2 DEF ChildState, Outcome
    <3>3. Holders' = Holders /\ Living' = Living
      BY <2>2, <3>2 DEF Holders, Living
    <3> QED
      BY <3>1, <3>2, <3>3, HoldersKept DEF QueueOK, ChildrenRun, PermitsAreConserved
  <2> QED
    BY <2>1, <2>2
<1>4. ASSUME NEW r \in Request, Spawn(r) PROVE RunnerInv'
  <2> USE <1>4 DEF Spawn, Ends, Becomes
  <2>1. RunnerTypeOK'
    BY DEF Stage, ChildState, Outcome
  <2>2. QueueOK'
    BY QueueKept
  <2>3. ChildrenRun'
    BY DEF ChildrenRun, Living
  <2>4. Holders' = Holders
    BY DEF Holders
  <2>5. PermitsAreConserved'
    BY <2>3, <2>4, HoldersKept DEF PermitsAreConserved, ChildrenRun, Living, Holders
  <2> QED
    BY <2>1, <2>2, <2>3, <2>5
<1>5. ASSUME NEW r \in Request,
             Timeout(r) \/ OutputLimit(r) \/ ChildError(r) \/ ChildExits(r)
      PROVE  RunnerInv'
  <2> USE <1>5 DEF Timeout, OutputLimit, ChildError, ChildExits, Stopped
  <2>1. RunnerTypeOK'
    BY DEF ChildState, Outcome
  <2>2. UNCHANGED <<active, waiters, stage>>
    OBVIOUS
  <2>3. Holders' = Holders /\ Living' \subseteq Living
    BY <2>2 DEF Holders, Living
  <2> QED
    BY <2>1, <2>2, <2>3, HoldersKept DEF QueueOK, ChildrenRun, PermitsAreConserved
<1>6. ASSUME NEW r \in Request, Close(r) PROVE RunnerInv'
  <2> USE <1>6 DEF Close, Ends, Becomes
  <2>1. RunnerTypeOK'
    BY DEF Stage, Outcome
  <2>2. QueueOK'
    BY QueueKept
  <2>3. ChildrenRun'
    BY DEF ChildrenRun, Living
  <2>4. Holders' = Holders
    BY DEF Holders
  <2>5. PermitsAreConserved'
    BY <2>3, <2>4, HoldersKept DEF PermitsAreConserved, ChildrenRun, Living, Holders
  <2> QED
    BY <2>1, <2>2, <2>3, <2>5
<1>7. CASE UNCHANGED runnerVars
  <2>1. Holders' = Holders /\ Living' = Living
    BY <1>7 DEF runnerVars, Holders, Living
  <2> QED
    BY <1>7, <2>1, HoldersKept DEF runnerVars, QueueOK, ChildrenRun, PermitsAreConserved
<1> QED
  BY <1>1, <1>2, <1>3, <1>4, <1>5, <1>6, <1>7 DEF RunnerNext

(* PermitsAreConserved: no abort, failed spawn or handed-on permit makes   *)
(* the semaphore of processRunner.ts lose a permit or give one too many.   *)
THEOREM PermitsConserved == RunnerSpec => []PermitsAreConserved
<1>1. RunnerInv => PermitsAreConserved
  BY DEF RunnerInv
<1> QED
  BY <1>1, RunnerInvInit, RunnerInvStep, PTL DEF RunnerSpec

-----------------------------------------------------------------------------
LEMMA AbortedStep ==
  ASSUME RunnerInv, [RunnerNext]_runnerVars, NEW r \in Request,
         r \in aborted, child[r] = "none"
  PROVE  child'[r] = "none"
<1> USE DEF RunnerInv, RunnerTypeOK
<1>1. ASSUME NEW q \in Request, Spawn(q) PROVE child'[r] = "none"
  BY <1>1 DEF Spawn
<1>2. ASSUME NEW q \in Request, Abort(q) PROVE child'[r] = "none"
  BY <1>2 DEF Abort, Stopped
<1>3. ASSUME NEW q \in Request,
             Timeout(q) \/ OutputLimit(q) \/ ChildError(q) \/ ChildExits(q)
      PROVE  child'[r] = "none"
  <2>1. CASE q = r
    BY <1>3, <2>1 DEF Timeout, OutputLimit, Stopped, ChildError, ChildExits
  <2>2. CASE q # r
    BY <1>3, <2>2 DEF Timeout, OutputLimit, Stopped, ChildError, ChildExits
  <2> QED
    BY <2>1, <2>2
<1>4. ASSUME NEW q \in Request, Acquire(q) \/ Release(q) \/ Close(q)
      PROVE  child'[r] = "none"
  BY <1>4 DEF Acquire, Release, Close
<1> QED
  BY <1>1, <1>2, <1>3, <1>4 DEF RunnerNext, runnerVars

(* AbortedNeverSpawns: a request aborted before its child is spawned never *)
(* has one, also when the abort falls between the grant of its permit and  *)
(* its next turn.                                                          *)
THEOREM AbortsAreHeeded == RunnerSpec => AbortedNeverSpawns
<1>1. RunnerInv /\ [RunnerNext]_runnerVars
        => [\A r \in Request : r \in aborted /\ child[r] = "none" => child'[r] = "none"]_runnerVars
  BY AbortedStep
<1> QED
  BY <1>1, RunnerInvInit, RunnerInvStep, PTL DEF RunnerSpec, AbortedNeverSpawns

-----------------------------------------------------------------------------
(* Induction, recursion and sequences.                                     *)

LEMMA SetInduction ==
    ASSUME NEW S, S \subseteq Nat, 0 \in S, \A n \in S : n + 1 \in S
    PROVE  S = Nat
<1> DEFINE T == Nat \ S
<1>1. ASSUME T # {} PROVE FALSE
  <2>1. PICK x \in T : \A y \in T : ~(<<y, x>> \in OpToRel(<, Nat))
    <3>1. T \subseteq Nat
      OBVIOUS
    <3> HIDE DEF T
    <3> QED BY <1>1, <3>1, NatLessThanWellFounded, WFMin
  <2>2. x \in Nat /\ x # 0 /\ x - 1 \in Nat /\ x - 1 \notin S
    OBVIOUS
  <2>3. <<x - 1, x>> \in OpToRel(<, Nat)
    BY <2>2 DEF OpToRel
  <2> QED BY <2>1, <2>2, <2>3
<1> QED BY <1>1

LEMMA FunctionIsSeq ==
    ASSUME NEW S, NEW n \in Nat, NEW f \in [1 .. n -> S]
    PROVE  f \in Seq(S) /\ Len(f) = n
<1>1. f \in Seq(S)
  BY SeqDef
<1>2. DOMAIN f = 1 .. Len(f) /\ Len(f) \in Nat
  BY <1>1, LenProperties
<1> QED BY <1>1, <1>2

(* What begins with init and continues with F is a function.               *)
Recurses(f, n, init, F) == \A k \in 1 .. n : f[k] = IF k = 1 THEN init ELSE F[<<k, f[k - 1]>>]

LEMMA Recursion ==
    ASSUME NEW n \in Nat, NEW D, NEW init \in D, NEW F \in [(1 .. n) \X D -> D]
    PROVE  \E f \in [1 .. n -> D] : Recurses(f, n, init, F)
<1> DEFINE Value(f, k) == IF k = 1 THEN init ELSE F[<<k, f[k - 1]>>]
           Exists == {m \in Nat : m <= n => \E f \in [1 .. m -> D] : \A k \in 1 .. m :
               f[k] = Value(f, k)}
<1>1. 0 \in Exists
  <2> DEFINE g == [k \in 1 .. 0 |-> init]
  <2>1. g \in [1 .. 0 -> D] /\ \A k \in 1 .. 0 : g[k] = Value(g, k)
    <3> HIDE DEF Value
    <3> QED OBVIOUS
  <2> HIDE DEF g, Value
  <2> QED BY <2>1
<1>2. ASSUME NEW m \in Exists PROVE m + 1 \in Exists
  <2>1. m \in Nat
    OBVIOUS
  <2>2. SUFFICES ASSUME m + 1 <= n
                 PROVE  \E f \in [1 .. m + 1 -> D] : \A k \in 1 .. m + 1 : f[k] = Value(f, k)
    BY <2>1
  <2>3. PICK g \in [1 .. m -> D] : \A k \in 1 .. m : g[k] = Value(g, k)
    BY <2>1, <2>2
  <2> DEFINE h == [k \in 1 .. m + 1 |-> IF k = m + 1 THEN Value(g, k) ELSE g[k]]
  <2>4. Value(g, m + 1) \in D
    <3>1. CASE m = 0
      BY <3>1
    <3>2. CASE m # 0
      <4>1. m + 1 \in 1 .. n /\ g[m] \in D /\ (m + 1) - 1 = m
        BY <2>1, <2>2, <3>2
      <4> QED BY <2>1, <3>2, <4>1
    <3> QED BY <3>1, <3>2
  <2>5. h \in [1 .. m + 1 -> D]
    <3> HIDE DEF Value
    <3>1. \A k \in 1 .. m + 1 : k = m + 1 \/ k \in 1 .. m
      BY <2>1
    <3> QED BY <2>4, <3>1
  <2>6. ASSUME NEW k \in 1 .. m + 1 PROVE h[k] = Value(h, k)
    <3>1. k = 1 \/ k - 1 \in 1 .. m
      BY <2>1
    <3>2. k - 1 \in 1 .. m => h[k - 1] = g[k - 1]
      BY <2>1
    <3>3. Value(h, k) = Value(g, k)
      <4> HIDE DEF h
      <4> QED BY <3>1, <3>2
    <3>4. h[k] = Value(g, k)
      <4>1. k = m + 1 \/ k \in 1 .. m
        BY <2>1
      <4>2. k \in 1 .. m => g[k] = Value(g, k) /\ k # m + 1
        <5> HIDE DEF Value
        <5> QED BY <2>1, <2>3
      <4> HIDE DEF Value
      <4> QED BY <4>1, <4>2
    <3> QED BY <3>3, <3>4
  <2> HIDE DEF h, Value
  <2> QED BY <2>5, <2>6
<1>3. Exists = Nat
  <2>1. Exists \subseteq Nat
    OBVIOUS
  <2> HIDE DEF Exists
  <2> QED BY <1>1, <1>2, <2>1, SetInduction
<1> QED BY <1>3 DEF Recurses

(* Two ascending sequences of the same numbers are one.                    *)
Ascending(s) == \A i, j \in DOMAIN s : i < j => s[i] < s[j]

LEMMA AscendingAhead ==
    ASSUME NEW s \in Seq(Nat), NEW t \in Seq(Nat), Ascending(s), Ascending(t), ToSet(s) = ToSet(t),
           NEW k \in Nat, k + 1 \in DOMAIN s, \A i \in 1 .. k : i \in DOMAIN t /\ s[i] = t[i]
    PROVE  k + 1 \in DOMAIN t /\ t[k + 1] <= s[k + 1]
<1>1. DOMAIN s = 1 .. Len(s) /\ DOMAIN t = 1 .. Len(t) /\ Len(s) \in Nat /\ Len(t) \in Nat
  BY LenProperties
<1>2. PICK j \in DOMAIN t : t[j] = s[k + 1]
  BY DEF ToSet
<1>3. j > k
  <2>1. ASSUME j <= k PROVE FALSE
    <3>1. j \in 1 .. k /\ j \in DOMAIN s /\ j < k + 1
      BY <1>1, <2>1
    <3>2. s[j] = t[j]
      BY <3>1
    <3>3. s[j] < s[k + 1]
      BY <3>1 DEF Ascending
    <3>4. s[k + 1] \in Nat
      BY <1>1, ElementOfSeq
    <3> QED BY <1>2, <3>2, <3>3, <3>4
  <2> QED BY <1>1, <2>1
<1>4. k + 1 \in DOMAIN t
  BY <1>1, <1>2, <1>3
<1>5. j = k + 1 \/ t[k + 1] < t[j]
  <2>1. j = k + 1 \/ k + 1 < j
    BY <1>1, <1>3
  <2> QED BY <1>4, <2>1 DEF Ascending
<1> QED BY <1>1, <1>2, <1>4, <1>5

LEMMA AscendingUnique ==
    ASSUME NEW s \in Seq(Nat), NEW t \in Seq(Nat), Ascending(s), Ascending(t), ToSet(s) = ToSet(t)
    PROVE  s = t
<1>1. /\ DOMAIN s = 1 .. Len(s) /\ DOMAIN t = 1 .. Len(t) /\ Len(s) \in Nat /\ Len(t) \in Nat
      /\ s \in [1 .. Len(s) -> Nat] /\ t \in [1 .. Len(t) -> Nat]
  BY LenProperties
<1> DEFINE Same == {k \in Nat : \A i \in 1 .. k : /\ i \in DOMAIN s <=> i \in DOMAIN t
                                                  /\ i \in DOMAIN s => s[i] = t[i]}
<1>2. 0 \in Same
  OBVIOUS
<1>3. ASSUME NEW k \in Same PROVE k + 1 \in Same
  <2>1. k \in Nat /\ \A i \in 1 .. k : /\ i \in DOMAIN s <=> i \in DOMAIN t
                                       /\ i \in DOMAIN s => s[i] = t[i]
    OBVIOUS
  <2>2. k + 1 \in DOMAIN s => k + 1 \in DOMAIN t /\ t[k + 1] <= s[k + 1]
    <3>1. k + 1 \in DOMAIN s => \A i \in 1 .. k : i \in DOMAIN t /\ s[i] = t[i]
      BY <1>1, <2>1
    <3> HIDE DEF Same
    <3> QED BY <2>1, <3>1, AscendingAhead
  <2>3. k + 1 \in DOMAIN t => k + 1 \in DOMAIN s /\ s[k + 1] <= t[k + 1]
    <3>1. k + 1 \in DOMAIN t => \A i \in 1 .. k : i \in DOMAIN s /\ t[i] = s[i]
      BY <1>1, <2>1
    <3> HIDE DEF Same
    <3> QED BY <2>1, <3>1, AscendingAhead
  <2>4. k + 1 \in DOMAIN s => s[k + 1] = t[k + 1]
    BY <1>1, <2>2, <2>3
  <2>5. \A i \in 1 .. k + 1 : i = k + 1 \/ i \in 1 .. k
    BY <2>1
  <2> QED BY <2>1, <2>2, <2>3, <2>4, <2>5
<1>4. Same = Nat
  <2>1. Same \subseteq Nat
    OBVIOUS
  <2> HIDE DEF Same
  <2> QED BY <1>2, <1>3, <2>1, SetInduction
<1>5. \A i \in Nat \ {0} : /\ i \in DOMAIN s <=> i \in DOMAIN t
                           /\ i \in DOMAIN s => s[i] = t[i]
  <2> TAKE i \in Nat \ {0}
  <2>1. i \in Same
    BY <1>4
  <2> QED BY <2>1
<1>6. Len(s) \in Nat /\ Len(t) \in Nat
  BY <1>1
<1>7. Len(s) = Len(t)
  <2>1. Len(s) # 0 => Len(s) <= Len(t)
    BY <1>1, <1>5
  <2>2. Len(t) # 0 => Len(t) <= Len(s)
    <3>1. Len(t) # 0 => Len(t) \in DOMAIN t /\ Len(t) \in Nat \ {0}
      BY <1>1
    <3>2. Len(t) # 0 => Len(t) \in DOMAIN s
      BY <1>5, <3>1
    <3> QED BY <1>1, <3>2
  <2> QED BY <1>6, <2>1, <2>2
<1> QED BY <1>1, <1>5, <1>7, SeqEqual

-----------------------------------------------------------------------------
(* The graph of commits.                                                   *)
Node == Root .. MaxCommits

LEMMA Nodes ==
    /\ MaxCommits \in Nat /\ Root = 0 /\ Node = 0 .. MaxCommits
    /\ Node = {Root} \cup Commit /\ Root \notin Commit /\ Node \subseteq Nat
  BY SelectionAssumption DEF Node, Root, Commit

LEMMA ParentsBelow ==
    ASSUME store \in Stores, NEW c \in Node
    PROVE  Parents(c) \subseteq Node /\ \A p \in Parents(c) : p < c
<1>1. CASE c = Root
  BY <1>1 DEF Parents
<1>2. CASE c # Root
  <2>1. c \in Commit
    BY <1>2, Nodes
  <2>2. store.parents[c] \in {{Root}} \cup kSubset(1, 1 .. c - 1) \cup kSubset(2, 1 .. c - 1)
    BY <2>1 DEF Stores
  <2>3. store.parents[c] = {Root} \/ store.parents[c] \subseteq 1 .. c - 1
    BY <2>2 DEF kSubset
  <2> QED BY <1>2, <2>1, <2>3, SelectionAssumption DEF Parents, Commit, Node, Root
<1> QED BY <1>1, <1>2

LEMMA OneParent ==
    ASSUME store \in Stores, NEW c \in Node
    PROVE  Cardinality(Parents(c)) = 1 <=> \E p \in Node : p < c /\ Parents(c) = {p}
<1>1. IsFiniteSet(Parents(c))
  <2>1. IsFiniteSet(Node)
    BY Nodes, FS_Interval
  <2> QED BY <2>1, ParentsBelow, FS_Subset
<1>2. Cardinality(Parents(c)) = 1 <=> \E p : Parents(c) = {p}
  BY <1>1, FS_Singleton
<1> QED BY <1>2, ParentsBelow

LEMMA ChangesOfCommits ==
    ASSUME store \in Stores, NEW c \in Node
    PROVE  ChangeOf(c) \in Node /\ (c \in Commit => ChangeOf(c) \in Commit)
        /\ (c = Root => ChangeOf(c) = Root)
  BY Nodes DEF ChangeOf, Stores

LEMMA AncestorsUnfold ==
    ASSUME store \in Stores, NEW c \in Node
    PROVE  Ancestors(c) = {c} \cup UNION {Ancestors(p) : p \in Parents(c)}
<1> DEFINE Value(f, d) == {d} \cup UNION {f[p] : p \in Parents(d)}
           Exists == {m \in Nat : m <= MaxCommits => \E f : DOMAIN f = 0 .. m
               /\ \A d \in 0 .. m : f[d] = Value(f, d)}
           up == CHOOSE f : f = [d \in 0 .. MaxCommits |-> Value(f, d)]
<1>1. 0 \in Exists
  <2> DEFINE g == [d \in 0 .. 0 |-> {0}]
  <2>1. Parents(0) = {}
    BY DEF Parents, Root
  <2>2. DOMAIN g = 0 .. 0 /\ \A d \in 0 .. 0 : g[d] = Value(g, d)
    BY <2>1
  <2> HIDE DEF g, Value
  <2> QED BY <2>2
<1>2. ASSUME NEW m \in Exists PROVE m + 1 \in Exists
  <2>1. m \in Nat
    OBVIOUS
  <2>2. SUFFICES ASSUME m + 1 <= MaxCommits
                 PROVE  \E f : DOMAIN f = 0 .. m + 1 /\ \A d \in 0 .. m + 1 : f[d] = Value(f, d)
    BY <2>1
  <2>3. PICK g : DOMAIN g = 0 .. m /\ \A d \in 0 .. m : g[d] = Value(g, d)
    BY <2>1, <2>2, Nodes
  <2> DEFINE h == [d \in 0 .. m + 1 |-> IF d = m + 1 THEN Value(g, d) ELSE g[d]]
  <2>4. ASSUME NEW d \in 0 .. m + 1 PROVE h[d] = Value(h, d)
    <3>1. d \in Node
      BY <2>1, <2>2, Nodes
    <3>2. \A p \in Parents(d) : p \in 0 .. m /\ p \in 0 .. m + 1 /\ p # m + 1
      BY <2>1, <3>1, ParentsBelow, Nodes
    <3>3. \A p \in Parents(d) : h[p] = g[p]
      BY <3>2
    <3>4. Value(h, d) = Value(g, d)
      <4> HIDE DEF h
      <4> QED BY <3>3
    <3>5. h[d] = Value(g, d)
      <4>1. d = m + 1 \/ d \in 0 .. m
        BY <2>1
      <4>2. d \in 0 .. m => g[d] = Value(g, d) /\ d # m + 1
        <5> HIDE DEF Value
        <5> QED BY <2>1, <2>3
      <4> HIDE DEF Value
      <4> QED BY <4>1, <4>2
    <3> QED BY <3>4, <3>5
  <2>5. DOMAIN h = 0 .. m + 1
    OBVIOUS
  <2> HIDE DEF h, Value
  <2> QED BY <2>4, <2>5
<1>3. Exists = Nat
  <2>1. Exists \subseteq Nat
    OBVIOUS
  <2> HIDE DEF Exists
  <2> QED BY <1>1, <1>2, <2>1, SetInduction
<1>4. up = [d \in 0 .. MaxCommits |-> Value(up, d)]
  <2>1. MaxCommits \in Exists
    BY <1>3, Nodes
  <2>2. PICK f : DOMAIN f = 0 .. MaxCommits /\ \A d \in 0 .. MaxCommits : f[d] = Value(f, d)
    BY <2>1, Nodes
  <2> DEFINE g == [d \in 0 .. MaxCommits |-> f[d]]
  <2>3. \A d \in 0 .. MaxCommits : g[d] = Value(g, d)
    <3> TAKE d \in 0 .. MaxCommits
    <3>1. \A p \in Parents(d) : g[p] = f[p]
      BY ParentsBelow, Nodes
    <3>2. Value(g, d) = Value(f, d)
      <4> HIDE DEF g
      <4> QED BY <3>1
    <3> HIDE DEF Value
    <3> QED BY <2>2, <3>2
  <2>4. g = [d \in 0 .. MaxCommits |-> Value(g, d)]
    <3>1. g = [d \in 0 .. MaxCommits |-> g[d]]
      OBVIOUS
    <3> HIDE DEF g, Value
    <3> QED BY <2>3, <3>1
  <2> HIDE DEF g, Value
  <2> QED BY <2>4
<1>5. \A d \in Node : Ancestors(d) = up[d]
  BY DEF Ancestors
<1> HIDE DEF up
<1>6. up[c] = Value(up, c)
  <2> HIDE DEF Value
  <2> QED BY <1>4, Nodes
<1>7. \A p \in Parents(c) : Ancestors(p) = up[p]
  BY <1>5, ParentsBelow
<1> QED BY <1>5, <1>6, <1>7

LEMMA AncestorsStep ==
    ASSUME store \in Stores, NEW c \in Node
    PROVE  /\ c \in Ancestors(c)
           /\ \A p \in Parents(c) : Ancestors(p) \subseteq Ancestors(c)
           /\ \A d \in Ancestors(c) : d = c \/ \E p \in Parents(c) : d \in Ancestors(p)
  BY AncestorsUnfold

(* What holds of a commit if it holds of its parents holds of its ancestors: *)
(* they are older than it, and in the sets its parents are in.             *)
LEMMA AncestorsBelow ==
    ASSUME store \in Stores, NEW c \in Node
    PROVE  /\ Ancestors(c) \subseteq Node
           /\ \A d \in Ancestors(c) : d <= c
<1> DEFINE Good(d) == Ancestors(d) \subseteq Node /\ \A e \in Ancestors(d) : e <= d
           S == {m \in Nat : \A d \in Node : d <= m => Good(d)}
<1>1. ASSUME NEW d \in Node, \A p \in Parents(d) : Good(p) PROVE Good(d)
  <2>1. ASSUME NEW e \in Ancestors(d) PROVE e \in Node /\ e <= d
    <3>1. CASE e = d
      BY <3>1, Nodes
    <3>2. CASE e # d
      <4>1. PICK p \in Parents(d) : e \in Ancestors(p)
        BY <3>2, AncestorsStep
      <4>2. p \in Node /\ p < d /\ e \in Node /\ e <= p
        BY <1>1, <4>1, ParentsBelow
      <4> QED BY <4>2, Nodes
    <3> QED BY <3>1, <3>2
  <2> QED BY <2>1
<1> HIDE DEF Good
<1>2. 0 \in S
  <2>1. ASSUME NEW d \in Node, d <= 0 PROVE Good(d)
    <3>1. \A p \in Parents(d) : p \in Node /\ p < d
      BY ParentsBelow
    <3>2. \A p \in Parents(d) : FALSE
      BY <2>1, <3>1, Nodes
    <3> QED BY <1>1, <3>2
  <2> QED BY <2>1
<1>3. ASSUME NEW m \in S PROVE m + 1 \in S
  <2>1. ASSUME NEW d \in Node, d <= m + 1 PROVE Good(d)
    <3>1. m \in Nat /\ \A p \in Node : p <= m => Good(p)
      OBVIOUS
    <3>2. \A p \in Parents(d) : p \in Node /\ p <= m
      BY <2>1, <3>1, ParentsBelow, Nodes
    <3> QED BY <1>1, <3>1, <3>2
  <2> QED BY <2>1
<1>4. S = Nat
  <2>1. S \subseteq Nat
    OBVIOUS
  <2> HIDE DEF S
  <2> QED BY <1>2, <1>3, <2>1, SetInduction
<1>5. c \in S
  BY <1>4, Nodes
<1>6. Good(c)
  BY <1>5, Nodes
<1> QED BY <1>6 DEF Good

LEMMA AncestorsVisible ==
    ASSUME store \in Stores, NEW v \in Views, NEW c \in v.visible \cup {Root}
    PROVE  Ancestors(c) \subseteq v.visible \cup {Root}
<1> DEFINE Seen == v.visible \cup {Root}
           S == {m \in Nat : \A d \in Seen : d <= m => Ancestors(d) \subseteq Seen}
<1>1. Seen \subseteq Node /\ \A d \in Seen : Parents(d) \subseteq Seen
  BY Nodes DEF Views, Parents
<1>2. ASSUME NEW d \in Seen, \A p \in Parents(d) : Ancestors(p) \subseteq Seen
      PROVE  Ancestors(d) \subseteq Seen
  BY <1>1, <1>2, AncestorsStep
<1> HIDE DEF Seen
<1>3. 0 \in S
  <2>1. ASSUME NEW d \in Seen, d <= 0 PROVE Ancestors(d) \subseteq Seen
    <3>1. d \in Node /\ \A p \in Parents(d) : p \in Node /\ p < d
      BY <1>1, ParentsBelow
    <3>2. \A p \in Parents(d) : FALSE
      BY <2>1, <3>1, Nodes
    <3> QED BY <1>2, <3>2
  <2> QED BY <2>1
<1>4. ASSUME NEW m \in S PROVE m + 1 \in S
  <2>1. ASSUME NEW d \in Seen, d <= m + 1 PROVE Ancestors(d) \subseteq Seen
    <3>1. m \in Nat /\ \A p \in Seen : p <= m => Ancestors(p) \subseteq Seen
      OBVIOUS
    <3>2. d \in Node /\ \A p \in Parents(d) : p \in Seen /\ p \in Node /\ p < d
      BY <1>1, ParentsBelow
    <3>3. \A p \in Parents(d) : p \in Seen /\ p <= m
      BY <2>1, <3>1, <3>2, Nodes
    <3> QED BY <1>2, <3>1, <3>3
  <2> QED BY <2>1
<1>5. S = Nat
  <2>1. S \subseteq Nat
    OBVIOUS
  <2> HIDE DEF S
  <2> QED BY <1>3, <1>4, <2>1, SetInduction
<1>6. c \in Seen /\ c \in Nat
  BY <1>1, Nodes DEF Seen
<1>7. c \in S
  BY <1>5, <1>6
<1>8. Ancestors(c) \subseteq Seen
  BY <1>6, <1>7
<1> QED BY <1>8 DEF Seen

(* What jj log prints is every commit asked for, once, children last.      *)
LEMMA LogParts ==
    ASSUME NEW C \in SUBSET Node, NEW records \in Log(C)
    PROVE  /\ records \in Seq(C)
           /\ Len(records) = Cardinality(C)
           /\ ToSet(records) = C
           /\ \A i, j \in DOMAIN records : records[i] = records[j] => i = j
           /\ \A i, j \in DOMAIN records : records[i] \in Ancestors(records[j]) => i <= j
<1> DEFINE n == Cardinality(C)
<1>1. IsFiniteSet(C) /\ n \in Nat
  <2>1. IsFiniteSet(Node)
    BY Nodes, FS_Interval
  <2>2. IsFiniteSet(C)
    BY <2>1, FS_Subset
  <2> QED BY <2>2, FS_CardinalityType
<1>2. /\ records \in [1 .. n -> C]
      /\ \A i, j \in 1 .. n : i # j => records[i] # records[j]
      /\ \A i, j \in DOMAIN records : records[i] \in Ancestors(records[j]) => i <= j
  BY DEF Log, SetToSeqs
<1>3. records \in Seq(C) /\ Len(records) = n /\ DOMAIN records = 1 .. n
  <2> HIDE DEF n
  <2> QED BY <1>1, <1>2, FunctionIsSeq
<1>4. ToSet(records) = C
  <2>1. records \in Injection(1 .. n, C)
    BY <1>2 DEF Injection, IsInjective
  <2>2. Cardinality(1 .. n) = n
    <3> HIDE DEF n
    <3>1. Cardinality(1 .. n) = IF 1 > n THEN 0 ELSE n - 1 + 1
      BY <1>1, FS_Interval
    <3> QED BY <1>1, <3>1
  <2>3. records \in Surjection(1 .. n, C)
    <3>1. Cardinality(1 .. n) = Cardinality(C) <=> records \in Surjection(1 .. n, C)
      BY <1>1, <2>1, FS_Injection
    <3> QED BY <2>2, <3>1
  <2>4. \A c \in C : \E i \in 1 .. n : records[i] = c
    BY <2>3 DEF Surjection
  <2> HIDE DEF n
  <2> QED BY <1>2, <1>3, <2>4 DEF ToSet
<1> QED BY <1>2, <1>3, <1>4

-----------------------------------------------------------------------------
(* Stacks.                                                                 *)

VisibleNode(v) == v.visible \cup {Root}

LEMMA VisibleNodes ==
    ASSUME NEW v \in Views
    PROVE  /\ v.visible \subseteq Commit /\ VisibleNode(v) \subseteq Node
           /\ v.current \in v.visible
           /\ \A c \in VisibleNode(v) : Parents(c) \subseteq VisibleNode(v)
  BY Nodes DEF Views, VisibleNode, Parents

(* A sequence of visible commits in which each has the one before it for   *)
(* its only parent ascends, so it is within the bound.                     *)
Chain(s) == \A i \in 2 .. Len(s) : Parents(s[i]) = {s[i - 1]}

LEMMA ChainAscends ==
    ASSUME store \in Stores, NEW s \in Seq(Commit), Chain(s)
    PROVE  Ascending(s)
<1>1. Len(s) \in Nat /\ DOMAIN s = 1 .. Len(s) /\ \A i \in 1 .. Len(s) : s[i] \in Commit
  BY LenProperties, ElementOfSeq
<1>2. \A i \in 2 .. Len(s) : s[i - 1] < s[i]
  <2> TAKE i \in 2 .. Len(s)
  <2>1. s[i] \in Node
    BY <1>1, Nodes
  <2>2. s[i - 1] \in Parents(s[i])
    BY DEF Chain
  <2> QED BY <2>1, <2>2, ParentsBelow
<1> DEFINE S == {n \in Nat : \A i \in 1 .. Len(s) : i + n + 1 <= Len(s) => s[i] < s[i + n + 1]}
<1>3. 0 \in S
  <2>1. ASSUME NEW i \in 1 .. Len(s), i + 1 <= Len(s) PROVE s[i] < s[i + 1]
    <3>1. i + 1 \in 2 .. Len(s) /\ (i + 1) - 1 = i
      BY <1>1, <2>1
    <3> QED BY <1>2, <3>1
  <2>2. \A i \in 1 .. Len(s) : i + 0 + 1 = i + 1
    BY <1>1
  <2> QED BY <2>1, <2>2
<1>4. ASSUME NEW n \in S PROVE n + 1 \in S
  <2>1. ASSUME NEW i \in 1 .. Len(s), i + (n + 1) + 1 <= Len(s) PROVE s[i] < s[i + (n + 1) + 1]
    <3>1. n \in Nat
      OBVIOUS
    <3> DEFINE j == i + n + 1
    <3>2. /\ j \in 1 .. Len(s) /\ j <= Len(s)
          /\ i + (n + 1) + 1 = j + 1 /\ j + 1 \in 2 .. Len(s) /\ (j + 1) - 1 = j
      BY <1>1, <2>1, <3>1
    <3>3. s[i] < s[j]
      BY <1>1, <3>1, <3>2
    <3> HIDE DEF j
    <3>4. s[j] < s[j + 1]
      BY <1>2, <3>2
    <3>5. s[i] \in Nat /\ s[j] \in Nat /\ s[j + 1] \in Nat
      BY <1>1, <3>2, Nodes
    <3> QED BY <3>2, <3>3, <3>4, <3>5
  <2> QED BY <2>1
<1>5. S = Nat
  <2>1. S \subseteq Nat
    OBVIOUS
  <2> HIDE DEF S
  <2> QED BY <1>3, <1>4, <2>1, SetInduction
<1>6. ASSUME NEW i \in DOMAIN s, NEW j \in DOMAIN s, i < j PROVE s[i] < s[j]
  <2>1. j - i - 1 \in Nat /\ i + (j - i - 1) + 1 = j /\ j <= Len(s) /\ i \in 1 .. Len(s)
    BY <1>1, <1>6
  <2>2. j - i - 1 \in S
    BY <1>5, <2>1
  <2> QED BY <2>1, <2>2
<1> QED BY <1>6 DEF Ascending

LEMMA ChainLength ==
    ASSUME store \in Stores, NEW s \in Seq(Commit), Chain(s)
    PROVE  Len(s) <= MaxCommits
<1>1. Len(s) \in Nat /\ DOMAIN s = 1 .. Len(s) /\ \A i \in 1 .. Len(s) : s[i] \in Commit
  BY LenProperties, ElementOfSeq
<1> DEFINE S == {n \in Nat : n \in 1 .. Len(s) => s[n] >= n}
<1>2. 0 \in S
  OBVIOUS
<1>3. ASSUME NEW n \in S PROVE n + 1 \in S
  <2>1. ASSUME n + 1 \in 1 .. Len(s) PROVE s[n + 1] >= n + 1
    <3>1. n \in Nat /\ s[n + 1] \in Nat /\ s[n + 1] >= 1
      BY <1>1, <2>1, Nodes DEF Commit
    <3>2. CASE n = 0
      BY <3>1, <3>2
    <3>3. CASE n # 0
      <4>1. n \in 1 .. Len(s) /\ n < n + 1
        BY <1>1, <2>1, <3>1, <3>3
      <4>2. s[n] < s[n + 1]
        BY <1>1, <2>1, <4>1, ChainAscends DEF Ascending
      <4>3. s[n] >= n /\ s[n] \in Nat
        BY <1>1, <4>1, Nodes
      <4> QED BY <3>1, <4>2, <4>3
    <3> QED BY <3>2, <3>3
  <2> QED BY <2>1
<1>4. S = Nat
  <2>1. S \subseteq Nat
    OBVIOUS
  <2> HIDE DEF S
  <2> QED BY <1>2, <1>3, <2>1, SetInduction
<1>5. CASE Len(s) = 0
  BY <1>5, SelectionAssumption
<1>6. CASE Len(s) # 0
  <2>1. Len(s) \in S /\ Len(s) \in 1 .. Len(s) /\ s[Len(s)] \in Commit
    BY <1>1, <1>4, <1>6
  <2> QED BY <1>1, <2>1, Nodes DEF Commit
<1> QED BY <1>5, <1>6

LEMMA StackParts ==
    ASSUME store \in Stores, NEW v \in Views
    PROVE  \A s : s \in Stacks(v) <=> s \in Seq(v.visible) /\ s # <<>> /\ IsStack(v, s)
<1>1. ASSUME NEW s \in Stacks(v) PROVE s \in Seq(v.visible) /\ s # <<>> /\ IsStack(v, s)
  <2>1. s # <<>> /\ IsStack(v, s) /\ \E m \in 0 .. MaxCommits : s \in [1 .. m -> v.visible]
    BY DEF Stacks, SeqOf
  <2>2. PICK m \in 0 .. MaxCommits : s \in [1 .. m -> v.visible]
    BY <2>1
  <2>3. m \in Nat
    BY SelectionAssumption
  <2> QED BY <2>1, <2>2, <2>3, FunctionIsSeq
<1>2. ASSUME NEW s \in Seq(v.visible), s # <<>>, IsStack(v, s) PROVE s \in Stacks(v)
  <2>1. s \in [1 .. Len(s) -> v.visible] /\ Len(s) \in Nat
    BY LenProperties
  <2>2. s \in Seq(Commit)
    BY VisibleNodes, SeqMonotonic
  <2>3. Chain(s)
    <3>1. \A i \in 2 .. Len(s) : i \in DOMAIN s /\ i # 1
      BY <2>1
    <3> QED BY <1>2, <3>1 DEF Chain, IsStack
  <2>4. Len(s) \in 0 .. MaxCommits
    BY <2>1, <2>2, <2>3, ChainLength, SelectionAssumption
  <2> QED BY <1>2, <2>1, <2>4 DEF Stacks, SeqOf
<1> QED BY <1>1, <1>2

LEMMA StackBasics ==
    ASSUME store \in Stores, NEW v \in Views, NEW s \in Stacks(v)
    PROVE  /\ s \in Seq(v.visible) /\ s \in Seq(Commit) /\ s \in Seq(Nat)
           /\ s # <<>> /\ Len(s) \in Nat \ {0} /\ DOMAIN s = 1 .. Len(s)
           /\ \A i \in 1 .. Len(s) : /\ s[i] \in v.visible /\ s[i] \in Commit /\ s[i] \in Node
                                     /\ Versions(v, ChangeOf(s[i])) = {s[i]}
                                     /\ Cardinality(Parents(s[i])) = 1
                                     /\ s[i] \notin store.conflict
           /\ Head(s) = s[1] /\ Last(s) = s[Len(s)]
           /\ IsStack(v, s) /\ Chain(s) /\ Ascending(s)
<1>1. s \in Seq(v.visible) /\ s # <<>> /\ IsStack(v, s)
  BY StackParts
<1>2. s \in Seq(Commit) /\ s \in Seq(Nat)
  BY <1>1, VisibleNodes, SeqMonotonic, Nodes
<1>3. Len(s) \in Nat \ {0} /\ DOMAIN s = 1 .. Len(s)
  BY <1>1, EmptySeq, LenProperties
<1>4. \A i \in 1 .. Len(s) : s[i] \in v.visible /\ s[i] \in Commit /\ s[i] \in Node
  BY <1>1, <1>2, ElementOfSeq, Nodes
<1>5. Chain(s)
  BY <1>3, <1>1 DEF Chain, IsStack
<1>6. Ascending(s)
  BY <1>2, <1>5, ChainAscends
<1>7. ASSUME NEW i \in 1 .. Len(s)
      PROVE  /\ Versions(v, ChangeOf(s[i])) = {s[i]}
             /\ Cardinality(Parents(s[i])) = 1
             /\ s[i] \notin store.conflict
  <2>1. /\ Versions(v, ChangeOf(s[i])) = {s[i]} /\ s[i] \notin store.conflict
        /\ i = 1 => Cardinality(Parents(s[i])) = 1
        /\ i # 1 => Parents(s[i]) = {s[i - 1]}
    BY <1>1, <1>3 DEF IsStack
  <2>2. i # 1 => Cardinality(Parents(s[i])) = 1
    BY <2>1, FS_Singleton
  <2> QED BY <2>1, <2>2
<1> QED BY <1>1, <1>2, <1>3, <1>4, <1>5, <1>6, <1>7 DEF Last

LEMMA ChainAncestors ==
    ASSUME store \in Stores, NEW s \in Seq(Commit), Chain(s), NEW i \in DOMAIN s,
           NEW j \in DOMAIN s, i <= j
    PROVE  s[i] \in Ancestors(s[j])
<1>1. /\ Len(s) \in Nat /\ DOMAIN s = 1 .. Len(s) /\ \A k \in 1 .. Len(s) : s[k] \in Node
      /\ \A k \in 2 .. Len(s) : Parents(s[k]) = {s[k - 1]}
  BY LenProperties, ElementOfSeq, Nodes DEF Chain
<1> DEFINE S == {n \in Nat : i + n <= Len(s) => s[i] \in Ancestors(s[i + n])}
<1>2. 0 \in S
  BY <1>1, AncestorsStep
<1>3. ASSUME NEW n \in S PROVE n + 1 \in S
  <2>1. ASSUME i + (n + 1) <= Len(s) PROVE s[i] \in Ancestors(s[i + (n + 1)])
    <3>1. /\ n \in Nat /\ i + n <= Len(s) /\ i + (n + 1) \in 2 .. Len(s)
          /\ (i + (n + 1)) - 1 = i + n
      BY <1>1, <2>1
    <3>2. s[i] \in Ancestors(s[i + n])
      BY <3>1
    <3>3. s[i + n] \in Parents(s[i + (n + 1)]) /\ s[i + (n + 1)] \in Node
      BY <1>1, <3>1
    <3> QED BY <3>2, <3>3, AncestorsStep
  <2> QED BY <2>1
<1>4. S = Nat
  <2>1. S \subseteq Nat
    OBVIOUS
  <2> HIDE DEF S
  <2> QED BY <1>2, <1>3, <2>1, SetInduction
<1>5. j - i \in S /\ i + (j - i) = j /\ j <= Len(s)
  BY <1>1, <1>4
<1> QED BY <1>5

(* The commits of a chain have one order in which no parent follows its    *)
(* child; jj log prints them in it.                                        *)
LEMMA ChainIsOrdered ==
    ASSUME store \in Stores, NEW s \in Seq(Commit), Chain(s),
           NEW t \in Seq(Nat), ToSet(t) = ToSet(s),
           \A i, j \in DOMAIN t : i < j => t[j] \notin Ancestors(t[i])
    PROVE  t = s
<1>1. DOMAIN s = 1 .. Len(s) /\ s \in Seq(Nat) /\ Ascending(s)
  BY LenProperties, SeqMonotonic, ChainAscends, Nodes
<1>2. Ascending(t)
  <2>1. ASSUME NEW i \in DOMAIN t, NEW j \in DOMAIN t, i < j PROVE t[i] < t[j]
    <3>1. t[i] \in ToSet(s) /\ t[j] \in ToSet(s)
      <4>1. t[i] \in ToSet(t) /\ t[j] \in ToSet(t)
        BY DEF ToSet
      <4> QED BY <4>1
    <3>2. PICK a \in DOMAIN s : s[a] = t[i]
      BY <3>1 DEF ToSet
    <3>3. PICK b \in DOMAIN s : s[b] = t[j]
      BY <3>1 DEF ToSet
    <3>4. ~(b <= a)
      BY <2>1, <3>2, <3>3, ChainAncestors
    <3>5. a < b
      <4>1. a \in Int /\ b \in Int
        BY <1>1
      <4> QED BY <3>4, <4>1
    <3> QED BY <1>1, <3>2, <3>3, <3>5 DEF Ascending
  <2> QED BY <2>1 DEF Ascending
<1> QED BY <1>1, <1>2, AscendingUnique

LEMMA ChainOrder ==
    ASSUME store \in Stores, NEW s \in Seq(Commit), Chain(s), NEW records \in Log(ToSet(s))
    PROVE  records = s
<1>1. ToSet(s) \in SUBSET Node
  BY LenProperties, ElementOfSeq, Nodes DEF ToSet
<1>2. /\ records \in Seq(ToSet(s)) /\ ToSet(records) = ToSet(s)
      /\ \A i, j \in DOMAIN records : records[i] \in Ancestors(records[j]) => i <= j
  BY <1>1, LogParts
<1>3. records \in Seq(Nat) /\ Len(records) \in Nat /\ DOMAIN records = 1 .. Len(records)
  BY <1>1, <1>2, SeqMonotonic, LenProperties, Nodes
<1>4. \A i, j \in DOMAIN records : i < j => records[j] \notin Ancestors(records[i])
  BY <1>2, <1>3
<1> QED BY <1>2, <1>3, <1>4, ChainIsOrdered

LEMMA AncestorsOfStack ==
    ASSUME store \in Stores, NEW v \in Views, NEW s \in Stacks(v), NEW i \in DOMAIN s,
           NEW j \in DOMAIN s, i <= j
    PROVE  s[i] \in Ancestors(s[j])
  BY StackBasics, ChainAncestors

LEMMA StackIsOrdered ==
    ASSUME store \in Stores, NEW v \in Views, NEW s \in Stacks(v),
           NEW t \in Seq(Nat), ToSet(t) = ToSet(s),
           \A i, j \in DOMAIN t : i < j => t[j] \notin Ancestors(t[i])
    PROVE  t = s
  BY StackBasics, ChainIsOrdered

LEMMA StackOrder ==
    ASSUME store \in Stores, NEW v \in Views, NEW s \in Stacks(v), NEW records \in Log(ToSet(s))
    PROVE  records = s
  BY StackBasics, ChainOrder

(* What lies between the ends of a stack is the stack.                     *)
LEMMA DagOfStack ==
    ASSUME store \in Stores, NEW v \in Views, NEW s \in Stacks(v)
    PROVE  DagRange({Head(s)}, {Last(s)}) = ToSet(s)
<1>1. /\ Len(s) \in Nat \ {0} /\ DOMAIN s = 1 .. Len(s) /\ \A k \in 1 .. Len(s) : s[k] \in Node
      /\ \A k \in 2 .. Len(s) : Parents(s[k]) = {s[k - 1]}
      /\ Head(s) = s[1] /\ Last(s) = s[Len(s)]
  BY StackBasics DEF Chain
<1> DEFINE Between(n) == \A c \in Ancestors(s[n]) : s[1] \in Ancestors(c) => c \in ToSet(s)
           S == {n \in Nat : n \in 1 .. Len(s) => Between(n)}
<1>2. Between(1)
  <2>1. ASSUME NEW c \in Ancestors(s[1]), s[1] \in Ancestors(c) PROVE c = s[1]
    <3>1. c \in Node /\ c <= s[1]
      BY <1>1, AncestorsBelow
    <3>2. s[1] <= c
      BY <2>1, <3>1, AncestorsBelow
    <3> QED BY <1>1, <3>1, <3>2, Nodes
  <2> QED BY <1>1, <2>1 DEF ToSet
<1>3. ASSUME NEW n \in Nat, n + 1 \in 1 .. Len(s), n # 0, Between(n) PROVE Between(n + 1)
  <2>1. n + 1 \in 2 .. Len(s) /\ (n + 1) - 1 = n
    BY <1>1, <1>3
  <2>2. Parents(s[n + 1]) = {s[n]} /\ s[n + 1] \in Node
    <3>1. Parents(s[n + 1]) = {s[(n + 1) - 1]}
      BY <1>1, <2>1
    <3> QED BY <1>1, <1>3, <2>1, <3>1
  <2>3. \A c \in Ancestors(s[n + 1]) : c = s[n + 1] \/ c \in Ancestors(s[n])
    BY <2>2, AncestorsStep
  <2>4. s[n + 1] \in ToSet(s)
    BY <1>1, <1>3 DEF ToSet
  <2> QED BY <1>3, <2>3, <2>4
<1> HIDE DEF Between
<1>4. 0 \in S
  OBVIOUS
<1>5. ASSUME NEW n \in S PROVE n + 1 \in S
  <2>1. ASSUME n + 1 \in 1 .. Len(s) PROVE Between(n + 1)
    <3>1. CASE n = 0
      BY <1>2, <3>1
    <3>2. CASE n # 0
      <4>1. n \in Nat /\ n \in 1 .. Len(s)
        BY <1>1, <2>1, <3>2
      <4> QED BY <1>3, <2>1, <3>2, <4>1
    <3> QED BY <3>1, <3>2
  <2> QED BY <2>1
<1>6. S = Nat
  <2>1. S \subseteq Nat
    OBVIOUS
  <2> HIDE DEF S
  <2> QED BY <1>4, <1>5, <2>1, SetInduction
<1>7. \A c \in Ancestors(Last(s)) : Head(s) \in Ancestors(c) => c \in ToSet(s)
  <2>1. Len(s) \in S /\ Len(s) \in 1 .. Len(s)
    BY <1>1, <1>6
  <2> QED BY <1>1, <2>1 DEF Between
<1>8. \A c \in ToSet(s) : c \in Ancestors(Last(s)) /\ Head(s) \in Ancestors(c)
  <2>1. ASSUME NEW i \in DOMAIN s PROVE s[i] \in Ancestors(Last(s)) /\ Head(s) \in Ancestors(s[i])
    <3>1. 1 \in DOMAIN s /\ Len(s) \in DOMAIN s /\ 1 <= i /\ i <= Len(s)
      BY <1>1
    <3> QED BY <1>1, <3>1, AncestorsOfStack
  <2> QED BY <2>1 DEF ToSet
<1>9. DagRange({Head(s)}, {Last(s)}) = {c \in Ancestors(Last(s)) : Head(s) \in Ancestors(c)}
  BY DEF DagRange
<1> QED BY <1>7, <1>8, <1>9

LEMMA DagIsVisible ==
    ASSUME store \in Stores, NEW v \in Views, NEW xs, NEW ys \in SUBSET VisibleNode(v)
    PROVE  DagRange(xs, ys) \subseteq VisibleNode(v) /\ DagRange(xs, ys) \in SUBSET Node
<1>1. \A y \in ys : Ancestors(y) \subseteq VisibleNode(v)
  BY AncestorsVisible DEF VisibleNode
<1> QED BY <1>1, VisibleNodes DEF DagRange

-----------------------------------------------------------------------------
(* validateCommits accepts the stacks and nothing else.                    *)

LEMMA VisibleVersions ==
    ASSUME store \in Stores, NEW v \in Views, NEW c \in Commit
    PROVE  /\ IsFiniteSet(Versions(v, ChangeOf(c))) /\ Cardinality(Versions(v, ChangeOf(c))) \in Nat
           /\ ~Divergent(v, c) <=> Cardinality(Versions(v, ChangeOf(c))) <= 1
<1>1. c \in Node /\ Root \in Node /\ v.visible \subseteq Commit /\ VisibleNode(v) \subseteq Node
  BY VisibleNodes, Nodes
<1>2. ChangeOf(Root) = Root /\ ChangeOf(c) # Root
  BY <1>1, ChangesOfCommits, Nodes
<1>3. Versions(v, ChangeOf(c)) = {d \in v.visible : ChangeOf(d) = ChangeOf(c)}
  BY <1>2 DEF Versions
<1>4. IsFiniteSet(Versions(v, ChangeOf(c))) /\ Cardinality(Versions(v, ChangeOf(c))) \in Nat
  <2>1. IsFiniteSet(Node)
    BY Nodes, FS_Interval
  <2>2. Versions(v, ChangeOf(c)) \subseteq Node
    BY <1>1, <1>3, Nodes
  <2> QED BY <2>1, <2>2, FS_Subset, FS_CardinalityType
<1>5. ~(Cardinality(Versions(v, ChangeOf(c))) > 1) <=> Cardinality(Versions(v, ChangeOf(c))) <= 1
  BY <1>4
<1> QED BY <1>3, <1>4, <1>5 DEF Divergent

LEMMA UniqueVersion ==
    ASSUME store \in Stores, NEW v \in Views, NEW c \in v.visible
    PROVE  ~Divergent(v, c) <=> Versions(v, ChangeOf(c)) = {c}
<1> DEFINE V == Versions(v, ChangeOf(c))
<1>1. c \in Commit /\ c \in V
  BY VisibleNodes DEF Versions
<1>2. IsFiniteSet(V) /\ Cardinality(V) \in Nat /\ (~Divergent(v, c) <=> Cardinality(V) <= 1)
  BY <1>1, VisibleVersions
<1> HIDE DEF V
<1>3. Cardinality(V) # 0
  BY <1>1, <1>2, FS_EmptySet
<1>4. Cardinality(V) = 1 <=> \E x : V = {x}
  BY <1>2, FS_Singleton
<1> QED BY <1>1, <1>2, <1>3, <1>4 DEF V

LEMMA ValidIsStack ==
    ASSUME store \in Stores, NEW v \in Views, NEW commits \in Seq(VisibleNode(v)), commits # <<>>
    PROVE  Valid(v, commits) <=> commits \in Stacks(v)
<1>1. Len(commits) \in Nat /\ DOMAIN commits = 1 .. Len(commits)
          /\ \A i \in DOMAIN commits : commits[i] \in VisibleNode(v)
  BY LenProperties, ElementOfSeq
<1>2. ASSUME Valid(v, commits) PROVE commits \in Stacks(v)
  <2>1. ASSUME NEW i \in DOMAIN commits
        PROVE  /\ commits[i] \in v.visible
               /\ Versions(v, ChangeOf(commits[i])) = {commits[i]}
               /\ commits[i] \notin store.conflict
               /\ IF i = 1 THEN Cardinality(Parents(commits[i])) = 1
                      ELSE Parents(commits[i]) = {commits[i - 1]}
    <3>1. /\ commits[i] # Root /\ ~Divergent(v, commits[i]) /\ commits[i] \notin store.conflict
          /\ Cardinality(Parents(commits[i])) = 1
          /\ i > 1 => commits[i - 1] \in Parents(commits[i])
      BY <1>2 DEF Valid
    <3>2. commits[i] \in v.visible /\ commits[i] \in Node
      BY <1>1, <3>1, VisibleNodes DEF VisibleNode
    <3>3. PICK p \in Node : Parents(commits[i]) = {p}
      BY <3>1, <3>2, OneParent
    <3>4. i # 1 => i > 1
      BY <1>1
    <3> QED BY <3>1, <3>2, <3>3, <3>4, UniqueVersion
  <2>2. commits \in Seq(v.visible)
    <3>1. commits \in [1 .. Len(commits) -> v.visible]
      BY <1>1, <2>1, LenProperties
    <3> QED BY <1>1, <3>1, FunctionIsSeq
  <2>3. IsStack(v, commits)
    BY <2>1 DEF IsStack
  <2> QED BY <2>2, <2>3, StackParts
<1>3. ASSUME commits \in Stacks(v) PROVE Valid(v, commits)
  <2>1. ASSUME NEW i \in DOMAIN commits
        PROVE  /\ commits[i] # Root
               /\ ~Divergent(v, commits[i])
               /\ \A j \in 1 .. i - 1 : ChangeOf(commits[j]) # ChangeOf(commits[i])
               /\ commits[i] \notin store.conflict
               /\ Cardinality(Parents(commits[i])) = 1
               /\ i > 1 => commits[i - 1] \in Parents(commits[i])
    <3>1. /\ commits[i] \in v.visible /\ commits[i] \in Commit
          /\ Versions(v, ChangeOf(commits[i])) = {commits[i]}
          /\ Cardinality(Parents(commits[i])) = 1 /\ commits[i] \notin store.conflict
      BY <1>1, <1>3, StackBasics
    <3>2. ~Divergent(v, commits[i])
      BY <3>1, UniqueVersion
    <3>3. i > 1 => commits[i - 1] \in Parents(commits[i])
      <4>1. i > 1 => i \in 2 .. Len(commits)
        BY <1>1
      <4>2. Chain(commits)
        BY <1>3, StackBasics
      <4> QED BY <4>1, <4>2 DEF Chain
    <3>4. ASSUME NEW j \in 1 .. i - 1, ChangeOf(commits[j]) = ChangeOf(commits[i]) PROVE FALSE
      <4>1. j \in DOMAIN commits /\ j < i
        BY <1>1
      <4>2. Versions(v, ChangeOf(commits[j])) = {commits[j]} /\ commits[j] \in Nat
                /\ commits[i] \in Nat
        BY <1>1, <1>3, <4>1, StackBasics, Nodes
      <4>3. commits[j] < commits[i]
        <5>1. Ascending(commits)
          BY <1>3, StackBasics
        <5> QED BY <4>1, <5>1 DEF Ascending
      <4>4. Versions(v, ChangeOf(commits[j])) = Versions(v, ChangeOf(commits[i]))
        BY <3>4
      <4>5. commits[i] = commits[j]
        BY <3>1, <4>2, <4>4
      <4> QED BY <4>2, <4>3, <4>5
    <3> QED BY <3>1, <3>2, <3>3, <3>4, Nodes
  <2> QED BY <2>1 DEF Valid
<1> QED BY <1>2, <1>3

(* Of commits that need not be visible it accepts the stacks a revset may  *)
(* name.                                                                   *)
LEMMA NamedChain ==
    ASSUME store \in Stores, NEW v \in Views, NEW s \in NamedStacks(v)
    PROVE  s \in Seq(Commit) /\ s # <<>> /\ Chain(s)
<1>1. s # <<>> /\ s \in SeqOf(Commit, MaxCommits)
  BY DEF NamedStacks
<1>2. PICK m \in 0 .. MaxCommits : s \in [1 .. m -> Commit]
  BY <1>1 DEF SeqOf
<1>3. m \in Nat
  BY SelectionAssumption
<1>4. s \in Seq(Commit) /\ Len(s) = m
  BY <1>2, <1>3, FunctionIsSeq
<1>5. \A i \in 2 .. Len(s) : i \in DOMAIN s /\ i # 1
  BY <1>2, <1>3, <1>4
<1> QED BY <1>1, <1>4, <1>5 DEF Chain, NamedStacks

LEMMA ValidIsNamed ==
    ASSUME store \in Stores, NEW v \in Views, NEW commits \in Seq(Node), commits # <<>>
    PROVE  Valid(v, commits) <=> commits \in NamedStacks(v)
<1>1. Len(commits) \in Nat /\ DOMAIN commits = 1 .. Len(commits)
          /\ \A i \in DOMAIN commits : commits[i] \in Node
  BY LenProperties, ElementOfSeq
<1>2. ASSUME Valid(v, commits) PROVE commits \in NamedStacks(v)
  <2>1. ASSUME NEW i \in DOMAIN commits
        PROVE  /\ commits[i] \in Commit
               /\ Cardinality(Versions(v, ChangeOf(commits[i]))) <= 1
               /\ commits[i] \notin store.conflict
               /\ Cardinality(Parents(commits[i])) = 1
               /\ i # 1 => Parents(commits[i]) = {commits[i - 1]}
    <3>1. /\ commits[i] # Root /\ ~Divergent(v, commits[i]) /\ commits[i] \notin store.conflict
          /\ Cardinality(Parents(commits[i])) = 1
          /\ i > 1 => commits[i - 1] \in Parents(commits[i])
      BY <1>2 DEF Valid
    <3>2. commits[i] \in Commit
      BY <1>1, <3>1, Nodes
    <3>3. PICK p \in Node : Parents(commits[i]) = {p}
      BY <1>1, <3>1, OneParent
    <3>4. i # 1 => i > 1
      BY <1>1
    <3> QED BY <3>1, <3>2, <3>3, <3>4, VisibleVersions
  <2>2. ASSUME NEW i \in DOMAIN commits, NEW j \in DOMAIN commits,
               ChangeOf(commits[i]) = ChangeOf(commits[j])
        PROVE  i = j
    <3>1. \A k \in DOMAIN commits : \A m \in 1 .. k - 1 : ChangeOf(commits[m]) # ChangeOf(commits[k])
      BY <1>2 DEF Valid
    <3>2. i \notin 1 .. j - 1 /\ j \notin 1 .. i - 1
      BY <2>2, <3>1
    <3> QED BY <1>1, <3>2
  <2>3. commits \in [1 .. Len(commits) -> Commit] /\ commits \in Seq(Commit)
    <3>1. commits \in [1 .. Len(commits) -> Commit]
      BY <1>1, <2>1, LenProperties
    <3> QED BY <1>1, <3>1, FunctionIsSeq
  <2>4. Chain(commits)
    <3>1. \A i \in 2 .. Len(commits) : i \in DOMAIN commits /\ i # 1
      BY <1>1
    <3> QED BY <2>1, <3>1 DEF Chain
  <2>5. Len(commits) \in 0 .. MaxCommits
    BY <1>1, <2>3, <2>4, ChainLength, SelectionAssumption
  <2>6. commits \in SeqOf(Commit, MaxCommits)
    BY <2>3, <2>5 DEF SeqOf
  <2> QED BY <2>1, <2>2, <2>6 DEF NamedStacks
<1>3. ASSUME commits \in NamedStacks(v) PROVE Valid(v, commits)
  <2>1. commits \in Seq(Commit) /\ Chain(commits)
    BY <1>3, NamedChain
  <2>2. ASSUME NEW i \in DOMAIN commits
        PROVE  /\ commits[i] # Root
               /\ ~Divergent(v, commits[i])
               /\ \A j \in 1 .. i - 1 : ChangeOf(commits[j]) # ChangeOf(commits[i])
               /\ commits[i] \notin store.conflict
               /\ Cardinality(Parents(commits[i])) = 1
               /\ i > 1 => commits[i - 1] \in Parents(commits[i])
    <3>1. /\ Cardinality(Versions(v, ChangeOf(commits[i]))) <= 1
          /\ \A j \in DOMAIN commits : ChangeOf(commits[i]) = ChangeOf(commits[j]) => i = j
          /\ commits[i] \notin store.conflict
          /\ i = 1 => Cardinality(Parents(commits[i])) = 1
          /\ i # 1 => Parents(commits[i]) = {commits[i - 1]}
      BY <1>3 DEF NamedStacks
    <3>2. commits[i] \in Commit
      BY <1>1, <2>1, ElementOfSeq
    <3>3. commits[i] # Root /\ ~Divergent(v, commits[i])
      BY <3>1, <3>2, VisibleVersions, Nodes
    <3>4. i # 1 => Cardinality(Parents(commits[i])) = 1
      BY <3>1, FS_Singleton
    <3>5. i > 1 => i # 1
      BY <1>1
    <3>6. \A j \in 1 .. i - 1 : j \in DOMAIN commits /\ i # j
      BY <1>1
    <3> QED BY <3>1, <3>3, <3>4, <3>5, <3>6
  <2> QED BY <2>2 DEF Valid
<1> QED BY <1>2, <1>3

LEMMA SelectionOf ==
    ASSUME store \in Stores, NEW v \in Views, NEW commits \in Seq(VisibleNode(v))
    PROVE  Selection(v, commits) = IF commits \in Stacks(v) THEN Selected(commits) ELSE Rejected
<1>1. commits \in Stacks(v) => commits # <<>>
  BY DEF Stacks
<1> QED BY <1>1, ValidIsStack DEF Selection

LEMMA AnswersDiffer ==
    ASSUME NEW s
    PROVE  Selected(s) # Rejected /\ Selected(s) # Pending /\ Rejected # Pending
           /\ NoNewChanges # Rejected /\ NoNewChanges # Pending
  BY DEF Selected, Rejected, Pending, NoNewChanges

(* What is looked for is what was read, or there is none.                  *)
LEMMA OnlyOne ==
    ASSUME NEW stacks, NEW s, \A t \in stacks : t = s
    PROVE  TheOne(stacks) = IF s \in stacks THEN Selected(s) ELSE Rejected
<1>1. CASE s \in stacks
  <2>1. stacks = {s} /\ stacks # {}
    BY <1>1
  <2>2. (CHOOSE t \in stacks : TRUE) = s
    BY <2>1
  <2> QED BY <1>1, <2>1, <2>2 DEF TheOne
<1>2. CASE s \notin stacks
  <2>1. stacks = {}
    BY <1>2
  <2> QED BY <1>2, <2>1 DEF TheOne
<1> QED BY <1>1, <1>2

-----------------------------------------------------------------------------
(* selectRevset, resolveSelection and selectRange.                         *)

LEMMA VersionsVisible ==
    ASSUME NEW changes
    PROVE  VersionsOf(changes) \subseteq VisibleNode(session)
  BY DEF VersionsOf, Versions, VisibleNode, ReadAt

LEMMA RecordsVisible ==
    ASSUME store \in Stores, session \in Views, NEW C \in SUBSET VisibleNode(session),
        NEW records \in Log(C)
    PROVE  records \in Seq(VisibleNode(session)) /\ ToSet(records) = C
<1>1. C \in SUBSET Node
  BY VisibleNodes
<1>2. records \in Seq(C) /\ ToSet(records) = C
  BY <1>1, LogParts
<1> QED BY <1>2, SeqMonotonic

LEMMA RevsetRight ==
    ASSUME store \in Stores, session \in Views, command.name = "selectRevset",
           command.revset \in SUBSET Node, command.count \in Nat,
           NEW records \in Log(command.revset)
    PROVE  (IF Len(records) > command.count THEN Rejected ELSE Selection(session, records))
             = Expected(session)
<1> DEFINE stacks == {s \in NamedStacks(session) :
                         ToSet(s) = command.revset /\ Len(s) <= command.count}
<1>1. Expected(session) = TheOne(stacks)
  BY DEF Expected
<1>2. records \in Seq(Node) /\ ToSet(records) = command.revset /\ Len(records) \in Nat
  BY LogParts, SeqMonotonic, LenProperties
<1>3. \A s \in stacks : s = records
  BY NamedChain, ChainOrder
<1>4. records \in stacks <=> records \in NamedStacks(session) /\ ~(Len(records) > command.count)
  BY <1>2
<1>5. Selection(session, records) =
          IF records \in NamedStacks(session) THEN Selected(records) ELSE Rejected
  <2>1. records \in NamedStacks(session) => records # <<>>
    BY DEF NamedStacks
  <2> QED BY <1>2, <2>1, ValidIsNamed DEF Selection
<1> HIDE DEF stacks
<1> QED BY <1>1, <1>3, <1>4, <1>5, OnlyOne

LEMMA ChangesAre ==
    ASSUME NEW S, NEW s \in Seq(S)
    PROVE  Len(Changes(s)) = Len(s) /\ DOMAIN Changes(s) = 1 .. Len(s)
           /\ \A i \in 1 .. Len(s) : Changes(s)[i] = ChangeOf(s[i])
<1>1. DOMAIN s = 1 .. Len(s) /\ Len(s) \in Nat
  BY LenProperties
<1> DEFINE T == {ChangeOf(s[i]) : i \in 1 .. Len(s)}
<1>2. Changes(s) \in [1 .. Len(s) -> T]
  BY <1>1 DEF Changes
<1>3. Len(Changes(s)) = Len(s)
  <2> HIDE DEF T
  <2> QED BY <1>1, <1>2, FunctionIsSeq
<1> QED BY <1>1, <1>3 DEF Changes

LEMMA VersionsOfStack ==
    ASSUME store \in Stores, session \in Views, NEW s \in Stacks(session)
    PROVE  VersionsOf(ToSet(Changes(s))) = ToSet(s)
<1>1. DOMAIN s = 1 .. Len(s) /\ \A i \in 1 .. Len(s) : Versions(session, ChangeOf(s[i])) = {s[i]}
  BY StackBasics
<1>2. DOMAIN Changes(s) = 1 .. Len(s) /\ \A i \in 1 .. Len(s) : Changes(s)[i] = ChangeOf(s[i])
  BY StackBasics, ChangesAre
<1>3. ToSet(Changes(s)) = {ChangeOf(s[i]) : i \in 1 .. Len(s)}
  BY <1>2 DEF ToSet
<1>4. ToSet(s) = {s[i] : i \in 1 .. Len(s)}
  BY <1>1 DEF ToSet
<1>5. VersionsOf(ToSet(Changes(s))) =
          UNION {Versions(session, x) : x \in {ChangeOf(s[i]) : i \in 1 .. Len(s)}}
  BY <1>3 DEF VersionsOf, ReadAt
<1> QED BY <1>1, <1>4, <1>5

LEMMA RefreshFinds ==
    ASSUME store \in Stores, session \in Views,
           NEW records \in Log(VersionsOf(ToSet(command.stored)))
    PROVE  /\ records \in Seq(VisibleNode(session))
           /\ \A s \in Stacks(session) : Changes(s) = command.stored => s = records
           /\ RefreshSelection(session, command.stored, records) =
                 IF records \in Stacks(session) /\ Changes(records) = command.stored
                 THEN Selected(records) ELSE Rejected
<1>1. records \in Seq(VisibleNode(session))
  BY VersionsVisible, RecordsVisible
<1>2. ASSUME NEW s \in Stacks(session), Changes(s) = command.stored PROVE s = records
  <2>1. records \in Log(ToSet(s))
    BY <1>2, VersionsOfStack
  <2> QED BY <2>1, StackOrder
<1> QED BY <1>1, <1>2, SelectionOf DEF RefreshSelection

LEMMA ResolveRight ==
    ASSUME store \in Stores, session \in Views, command.name = "resolveSelection",
           NEW records \in Log(VersionsOf(ToSet(command.stored)))
    PROVE  RefreshSelection(session, command.stored, records) = Expected(session)
<1> DEFINE stacks == {s \in Stacks(session) : Changes(s) = command.stored}
<1>1. Expected(session) = TheOne(stacks)
  BY DEF Expected
<1>2. \A s \in stacks : s = records
  BY RefreshFinds
<1>3. TheOne(stacks) = IF records \in stacks THEN Selected(records) ELSE Rejected
  <2> HIDE DEF stacks
  <2> QED BY <1>2, OnlyOne
<1> QED BY <1>1, <1>3, RefreshFinds

LEMMA UniqueFinds ==
    ASSUME store \in Stores, session \in Views, NEW x, NEW records \in Log(VersionsOf({x}))
    PROVE  Len(records) = 1 <=> \E c : Versions(session, x) = {c}
<1>1. VersionsOf({x}) = Versions(session, x)
  BY DEF VersionsOf, ReadAt
<1>2. Versions(session, x) \in SUBSET Node /\ IsFiniteSet(Versions(session, x))
  <2>1. Versions(session, x) \in SUBSET Node
    BY <1>1, VersionsVisible, VisibleNodes
  <2>2. IsFiniteSet(Node)
    BY Nodes, FS_Interval
  <2> QED BY <2>1, <2>2, FS_Subset
<1>3. Len(records) = Cardinality(Versions(session, x))
  BY <1>1, <1>2, LogParts
<1> QED BY <1>2, <1>3, FS_Singleton

LEMMA ExpectedRange ==
    ASSUME command.name = "selectRange"
    PROVE  Expected(session) = TheOne({s \in Stacks(session) : /\ ChangeOf(Head(s)) = command.oldest
                                                               /\ ChangeOf(Last(s)) = command.newest})
  BY DEF Expected

LEMMA EndsAreUnique ==
    ASSUME store \in Stores, session \in Views, NEW s \in Stacks(session)
    PROVE  /\ Versions(session, ChangeOf(Head(s))) = {Head(s)}
           /\ Versions(session, ChangeOf(Last(s))) = {Last(s)}
<1>1. Len(s) \in Nat \ {0} /\ Head(s) = s[1] /\ Last(s) = s[Len(s)]
  BY StackBasics
<1>2. 1 \in 1 .. Len(s) /\ Len(s) \in 1 .. Len(s)
  BY <1>1
<1>3. \A i \in 1 .. Len(s) : Versions(session, ChangeOf(s[i])) = {s[i]}
  BY StackBasics
<1> QED BY <1>1, <1>2, <1>3

LEMMA RangeNotUnique ==
    ASSUME store \in Stores, session \in Views, command.name = "selectRange",
           NEW x \in {command.oldest, command.newest},
           NEW records \in Log(VersionsOf({x})), Len(records) # 1
    PROVE  Expected(session) = Rejected
<1> DEFINE stacks == {s \in Stacks(session) : /\ ChangeOf(Head(s)) = command.oldest
                                              /\ ChangeOf(Last(s)) = command.newest}
<1>1. ~ \E c : Versions(session, x) = {c}
  BY UniqueFinds
<1>2. ASSUME NEW s \in stacks PROVE FALSE
  <2>1. Versions(session, command.oldest) = {Head(s)}
            /\ Versions(session, command.newest) = {Last(s)}
    BY EndsAreUnique
  <2> QED BY <1>1, <2>1
<1>3. stacks = {}
  BY <1>2
<1> QED BY <1>3, ExpectedRange DEF TheOne

LEMMA RangeRight ==
    ASSUME store \in Stores, session \in Views, command.name = "selectRange",
           NEW records \in Log(DagRange(VersionsOf({command.oldest}), VersionsOf({command.newest})))
    PROVE  (IF /\ records # <<>>
               /\ ChangeOf(Head(records)) = command.oldest
               /\ ChangeOf(Last(records)) = command.newest
            THEN Selection(session, records) ELSE Rejected) = Expected(session)
<1> DEFINE stacks == {s \in Stacks(session) : /\ ChangeOf(Head(s)) = command.oldest
                                              /\ ChangeOf(Last(s)) = command.newest}
<1>1. \A x : VersionsOf({x}) = Versions(session, x)
  BY DEF VersionsOf, ReadAt
<1>2. records \in Seq(VisibleNode(session))
  <2>1. DagRange(VersionsOf({command.oldest}),
            VersionsOf({command.newest})) \in SUBSET VisibleNode(session)
    BY VersionsVisible, DagIsVisible
  <2> QED BY <2>1, RecordsVisible
<1>3. ASSUME NEW s \in stacks PROVE s = records
  <2>1. Versions(session, command.oldest) = {Head(s)}
            /\ Versions(session, command.newest) = {Last(s)}
    BY EndsAreUnique
  <2>2. records \in Log(ToSet(s))
    BY <1>1, <2>1, DagOfStack
  <2> QED BY <2>2, StackOrder
<1>4. records \in Stacks(session) => records # <<>>
  BY StackBasics
<1>5. TheOne(stacks) = IF records \in stacks THEN Selected(records) ELSE Rejected
  <2> HIDE DEF stacks
  <2> QED BY <1>3, OnlyOne
<1> QED BY <1>2, <1>4, <1>5, ExpectedRange, SelectionOf

-----------------------------------------------------------------------------
(* extendSelection.                                                        *)

LEMMA PrefixIs ==
    ASSUME NEW S, NEW s \in Seq(S), NEW t \in Seq(S)
    PROVE  IsPrefix(s, t) <=> Len(s) <= Len(t) /\ \A i \in 1 .. Len(s) : s[i] = t[i]
<1>1. /\ Len(s) \in Nat /\ Len(t) \in Nat
      /\ \A i \in 1 .. Len(s) : s[i] \in S
      /\ \A i \in 1 .. Len(t) : t[i] \in S
  BY LenProperties, ElementOfSeq
<1>2. CASE Len(s) <= Len(t)
  <2>1. \A i \in 1 .. Len(s) : s[i] \in S /\ t[i] \in S
    BY <1>1, <1>2, LenProperties, ElementOfSeq
  <2> DEFINE p == SubSeq(s, 1, Len(s))
             q == SubSeq(t, 1, Len(s))
  <2>2. /\ p \in Seq(S) /\ Len(p) = Len(s)
        /\ \A i \in 1 .. Len(s) : p[i] = s[i]
    <3>1. Len(p) = IF 1 <= Len(s) THEN Len(s) - 1 + 1 ELSE 0
      BY <1>1, <2>1, SubSeqProperties
    <3>2. p \in Seq(S) /\ \A i \in 1 .. Len(s) - 1 + 1 : p[i] = s[1 + i - 1]
      BY <1>1, <2>1, SubSeqProperties
    <3> HIDE DEF p
    <3> QED BY <1>1, <3>1, <3>2
  <2>3. /\ q \in Seq(S) /\ Len(q) = Len(s)
        /\ \A i \in 1 .. Len(s) : q[i] = t[i]
    <3>1. Len(q) = IF 1 <= Len(s) THEN Len(s) - 1 + 1 ELSE 0
      BY <1>1, <2>1, SubSeqProperties
    <3>2. q \in Seq(S) /\ \A i \in 1 .. Len(s) - 1 + 1 : q[i] = t[1 + i - 1]
      BY <1>1, <2>1, SubSeqProperties
    <3> HIDE DEF q
    <3> QED BY <1>1, <3>1, <3>2
  <2>4. IsPrefix(s, t) <=> p = q
    BY <1>2 DEF IsPrefix
  <2> HIDE DEF p, q
  <2>5. p = q <=> \A i \in 1 .. Len(s) : p[i] = q[i]
    BY <2>2, <2>3, SeqEqual
  <2> QED BY <1>2, <2>2, <2>3, <2>4, <2>5
<1>3. CASE ~(Len(s) <= Len(t))
  BY <1>3 DEF IsPrefix
<1> QED BY <1>2, <1>3

(* A part of a stack is a stack.                                           *)
LEMMA StackPart ==
    ASSUME store \in Stores, NEW v \in Views, NEW s \in Stacks(v),
           NEW m \in 1 .. Len(s), NEW n \in m .. Len(s)
    PROVE  /\ SubSeq(s, m, n) \in Stacks(v)
           /\ Len(SubSeq(s, m, n)) = n - m + 1
           /\ \A i \in 1 .. n - m + 1 : SubSeq(s, m, n)[i] = s[m + i - 1]
<1> DEFINE t == SubSeq(s, m, n)
<1>1. /\ Len(s) \in Nat \ {0} /\ DOMAIN s = 1 .. Len(s) /\ Chain(s)
      /\ \A i \in 1 .. Len(s) : /\ s[i] \in v.visible
                                /\ Versions(v, ChangeOf(s[i])) = {s[i]}
                                /\ Cardinality(Parents(s[i])) = 1
                                /\ s[i] \notin store.conflict
  BY StackBasics
<1>2. m \in Int /\ n \in Int /\ m <= n /\ \A i \in m .. n : s[i] \in v.visible
  BY <1>1
<1>3. /\ t \in Seq(v.visible)
      /\ Len(t) = IF m <= n THEN n - m + 1 ELSE 0
      /\ \A i \in 1 .. n - m + 1 : t[i] = s[m + i - 1]
  <2>1. Len(t) = IF m <= n THEN n - m + 1 ELSE 0
    BY <1>2, SubSeqProperties
  <2>2. t \in Seq(v.visible)
    BY <1>2, SubSeqProperties
  <2>3. \A i \in 1 .. n - m + 1 : t[i] = s[m + i - 1]
    BY <1>2, SubSeqProperties
  <2> HIDE DEF t
  <2> QED BY <2>1, <2>2, <2>3
<1>4. Len(t) = n - m + 1
  BY <1>2, <1>3
<1> HIDE DEF t
<1>5. DOMAIN t = 1 .. n - m + 1 /\ t # <<>>
  BY <1>2, <1>3, <1>4, LenProperties, EmptySeq
<1>6. ASSUME NEW i \in DOMAIN t
      PROVE  /\ Versions(v, ChangeOf(t[i])) = {t[i]}
             /\ t[i] \notin store.conflict
             /\ IF i = 1 THEN Cardinality(Parents(t[i])) = 1 ELSE Parents(t[i]) = {t[i - 1]}
  <2>1. i \in 1 .. n - m + 1 /\ m + i - 1 \in 1 .. Len(s) /\ t[i] = s[m + i - 1]
    BY <1>1, <1>2, <1>3, <1>5
  <2>2. CASE i = 1
    BY <1>1, <2>1, <2>2
  <2>3. CASE i # 1
    <3>1. i - 1 \in 1 .. n - m + 1 /\ m + (i - 1) - 1 = (m + i - 1) - 1 /\ m + i - 1 \in 2 .. Len(s)
      BY <1>1, <1>2, <2>1, <2>3
    <3>2. t[i - 1] = s[(m + i - 1) - 1]
      BY <1>3, <3>1
    <3>3. Parents(s[m + i - 1]) = {s[(m + i - 1) - 1]}
      BY <1>1, <3>1 DEF Chain
    <3> QED BY <1>1, <2>1, <2>3, <3>2, <3>3
  <2> QED BY <2>2, <2>3
<1>7. t \in Stacks(v)
  <2>1. IsStack(v, t)
    BY <1>6 DEF IsStack
  <2> QED BY <1>3, <1>5, <2>1, StackParts
<1> QED BY <1>3, <1>4, <1>7 DEF t

Resolved == {s \in Stacks(session) : Changes(s) = command.stored}

Target == IF command.newest = NoChange THEN {session.current} ELSE Versions(session, command.newest)

Extended == {s \in Stacks(session) : IsStrictPrefix(command.stored, Changes(s))
    /\ Target = {Last(s)}}

LEMMA ExpectedExtension ==
    ASSUME command.name = "extendSelection"
    PROVE  Expected(session) =
              IF Extended = {} /\ \E s \in Resolved : Target = {Last(s)} THEN NoNewChanges
              ELSE TheOne(Extended)
  BY DEF Expected, Resolved, Target, Extended

LEMMA ChangesTyped ==
    ASSUME store \in Stores, NEW v \in Views, NEW s \in Stacks(v)
    PROVE  /\ Changes(s) \in Seq(Commit) /\ Len(Changes(s)) = Len(s)
           /\ \A i \in 1 .. Len(s) : Changes(s)[i] = ChangeOf(s[i])
<1>1. s \in Seq(Commit) /\ Len(s) \in Nat /\ \A i \in 1 .. Len(s) : s[i] \in Commit /\ s[i] \in Node
  BY StackBasics
<1>2. DOMAIN Changes(s) = 1 .. Len(s) /\ Len(Changes(s)) = Len(s)
          /\ \A i \in 1 .. Len(s) : Changes(s)[i] = ChangeOf(s[i])
  BY <1>1, ChangesAre
<1>3. \A i \in 1 .. Len(s) : ChangeOf(s[i]) \in Commit
  BY <1>1, ChangesOfCommits
<1>4. Changes(s) \in [1 .. Len(s) -> Commit]
  BY <1>1, <1>2, <1>3 DEF Changes
<1> QED BY <1>1, <1>2, <1>4, FunctionIsSeq

LEMMA SameChanges ==
    ASSUME store \in Stores, NEW v \in Views, NEW s \in Stacks(v), NEW t \in Stacks(v),
           NEW i \in 1 .. Len(s), NEW j \in 1 .. Len(t), ChangeOf(s[i]) = ChangeOf(t[j])
    PROVE  s[i] = t[j]
<1>1. Versions(v, ChangeOf(s[i])) = {s[i]}
  BY StackBasics
<1>2. Versions(v, ChangeOf(t[j])) = {t[j]}
  BY StackBasics
<1>3. Versions(v, ChangeOf(s[i])) = Versions(v, ChangeOf(t[j]))
  OBVIOUS
<1> QED BY <1>1, <1>2, <1>3

LEMMA ResolvedPrefix ==
    ASSUME store \in Stores, session \in Views, command.stored \in Seq(Commit),
        command.stored # <<>>,
           NEW s \in Stacks(session), IsPrefix(command.stored, Changes(s))
    PROVE  SubSeq(s, 1, Len(command.stored)) \in Resolved
<1> DEFINE n == Len(command.stored)
           t == SubSeq(s, 1, n)
<1>1. n \in Nat \ {0} /\ Len(s) \in Nat \ {0}
  BY EmptySeq, StackBasics
<1>2. n <= Len(s) /\ \A i \in 1 .. n : command.stored[i] = Changes(s)[i]
  BY ChangesTyped, PrefixIs
<1>3. 1 \in 1 .. Len(s) /\ n \in 1 .. Len(s)
  <2> HIDE DEF n
  <2> QED BY <1>1, <1>2
<1>4. t \in Stacks(session) /\ Len(t) = n - 1 + 1 /\ \A i \in 1 .. n - 1 + 1 : t[i] = s[1 + i - 1]
  <2> HIDE DEF n
  <2> QED BY <1>3, StackPart
<1>5. n - 1 + 1 = n /\ \A i \in 1 .. n : 1 + i - 1 = i /\ i \in 1 .. Len(s)
  <2> HIDE DEF n
  <2> QED BY <1>1, <1>2
<1>6. \A i \in 1 .. n : Changes(t)[i] = command.stored[i]
  <2> TAKE i \in 1 .. n
  <2>1. t[i] = s[i]
    <3> HIDE DEF n, t
    <3> QED BY <1>4, <1>5
  <2>2. Changes(t)[i] = ChangeOf(t[i])
    <3> HIDE DEF n, t
    <3> QED BY <1>4, <1>5, ChangesTyped
  <2>3. Changes(s)[i] = ChangeOf(s[i])
    <3> HIDE DEF n, t
    <3> QED BY <1>5, ChangesTyped
  <2> HIDE DEF n, t
  <2> QED BY <1>2, <2>1, <2>2, <2>3
<1>7. Changes(t) = command.stored
  <2>1. Changes(t) \in Seq(Commit) /\ Len(Changes(t)) = n
    <3> HIDE DEF n, t
    <3> QED BY <1>4, <1>5, ChangesTyped
  <2> HIDE DEF t
  <2> QED BY <1>6, <2>1, SeqEqual
<1> QED BY <1>4, <1>7 DEF Resolved

(* The first read: the review as it is now, or no answer but a refusal.    *)
LEMMA ExtendStart ==
    ASSUME store \in Stores, session \in Views, command.name = "extendSelection",
           command.stored \in Seq(Commit), command.stored # <<>>,
           NEW records \in Log(VersionsOf(ToSet(command.stored)))
    PROVE  IF RefreshSelection(session, command.stored, records) = Rejected
           THEN Expected(session) = Rejected
           ELSE records \in Stacks(session) /\ Changes(records) = command.stored
<1>1. CASE records \in Stacks(session) /\ Changes(records) = command.stored
  BY <1>1, RefreshFinds, AnswersDiffer
<1>2. CASE ~(records \in Stacks(session) /\ Changes(records) = command.stored)
  <2>1. RefreshSelection(session, command.stored, records) = Rejected
    BY <1>2, RefreshFinds
  <2>2. Resolved = {}
    BY <1>2, RefreshFinds DEF Resolved
  <2>3. Extended = {}
    BY <2>2, ResolvedPrefix DEF Extended, IsStrictPrefix
  <2> QED BY <2>1, <2>2, <2>3, ExpectedExtension DEF TheOne
<1> QED BY <1>1, <1>2

(* What the second read looks for: the review g continued to the target.   *)
LEMMA ExtendFinds ==
    ASSUME store \in Stores, session \in Views,
           NEW g \in Stacks(session), Changes(g) = command.stored,
           NEW T, NEW records \in Log(DagRange(VersionsOf({Head(command.stored)}), T)),
           NEW s \in Stacks(session), IsPrefix(command.stored, Changes(s)), T = {Last(s)}
    PROVE  s = records /\ IsPrefix(g, s)
<1>1. /\ Len(g) \in Nat \ {0} /\ g \in Seq(Commit) /\ Len(s) \in Nat \ {0} /\ s \in Seq(Commit)
      /\ Head(s) = s[1]
  BY StackBasics
<1>2. /\ Changes(g) \in Seq(Commit) /\ Len(Changes(g)) = Len(g)
      /\ \A i \in 1 .. Len(g) : Changes(g)[i] = ChangeOf(g[i])
  BY ChangesTyped
<1>3. /\ Changes(s) \in Seq(Commit) /\ Len(Changes(s)) = Len(s)
      /\ \A i \in 1 .. Len(s) : Changes(s)[i] = ChangeOf(s[i])
  BY ChangesTyped
<1>4. Len(g) <= Len(s) /\ \A i \in 1 .. Len(g) : Changes(g)[i] = Changes(s)[i]
  BY <1>2, <1>3, PrefixIs
<1>5. \A i \in 1 .. Len(g) : g[i] = s[i]
  <2> TAKE i \in 1 .. Len(g)
  <2>1. i \in 1 .. Len(s)
    BY <1>1, <1>4
  <2>2. ChangeOf(g[i]) = ChangeOf(s[i])
    BY <1>2, <1>3, <1>4, <2>1
  <2> QED BY <2>1, <2>2, SameChanges
<1>6. IsPrefix(g, s)
  BY <1>1, <1>4, <1>5, PrefixIs
<1>7. VersionsOf({Head(command.stored)}) = {Head(s)}
  <2>1. 1 \in 1 .. Len(g) /\ g[1] = s[1]
    BY <1>1, <1>5
  <2>2. Head(command.stored) = ChangeOf(g[1])
    <3>1. Changes(g) # <<>>
      BY <1>1, <1>2, EmptySeq
    <3>2. Head(Changes(g)) = Changes(g)[1]
      BY <1>2, <3>1
    <3> QED BY <1>2, <2>1, <3>2
  <2>3. Versions(session, ChangeOf(g[1])) = {g[1]}
    BY <2>1, StackBasics
  <2>4. VersionsOf({Head(command.stored)}) = Versions(session, Head(command.stored))
    BY DEF VersionsOf, ReadAt
  <2> QED BY <1>1, <2>1, <2>2, <2>3, <2>4
<1>8. records \in Log(ToSet(s))
  BY <1>7, DagOfStack
<1> QED BY <1>6, <1>8, StackOrder

LEMMA PrefixOfStack ==
    ASSUME store \in Stores, NEW v \in Views, NEW g \in Stacks(v), NEW s \in Stacks(v),
        IsPrefix(g, s)
    PROVE  /\ g # s => Len(g) < Len(s)
           /\ IsPrefix(Changes(g), Changes(s))
           /\ g # s => Changes(g) # Changes(s)
<1>1. g \in Seq(Commit) /\ s \in Seq(Commit) /\ Len(g) \in Nat /\ Len(s) \in Nat
  BY StackBasics
<1>2. Len(g) <= Len(s) /\ \A i \in 1 .. Len(g) : g[i] = s[i]
  BY <1>1, PrefixIs
<1>3. g # s => Len(g) < Len(s)
  <2>1. Len(g) = Len(s) => g = s
    BY <1>1, <1>2, SeqEqual
  <2> QED BY <1>1, <1>2, <2>1
<1>4. /\ Changes(g) \in Seq(Commit) /\ Len(Changes(g)) = Len(g)
      /\ \A i \in 1 .. Len(g) : Changes(g)[i] = ChangeOf(g[i])
  BY ChangesTyped
<1>5. /\ Changes(s) \in Seq(Commit) /\ Len(Changes(s)) = Len(s)
      /\ \A i \in 1 .. Len(s) : Changes(s)[i] = ChangeOf(s[i])
  BY ChangesTyped
<1>6. \A i \in 1 .. Len(g) : Changes(g)[i] = Changes(s)[i]
  <2> TAKE i \in 1 .. Len(g)
  <2>1. i \in 1 .. Len(s)
    BY <1>1, <1>2
  <2> QED BY <1>2, <1>4, <1>5, <2>1
<1>7. IsPrefix(Changes(g), Changes(s))
  BY <1>2, <1>4, <1>5, <1>6, PrefixIs
<1>8. g # s => Changes(g) # Changes(s)
  BY <1>1, <1>3, <1>4, <1>5
<1> QED BY <1>3, <1>7, <1>8

LEMMA ExtendFacts ==
    ASSUME store \in Stores, session \in Views,
           NEW g \in Stacks(session), Changes(g) = command.stored,
           NEW records \in Log(DagRange(VersionsOf({Head(command.stored)}), Target))
    PROVE  /\ \A s \in Extended : s = records
           /\ records \in Extended <=> /\ records \in Stacks(session) /\ Target = {Last(records)}
                                       /\ IsPrefix(g, records) /\ records # g
           /\ (\E s \in Resolved : Target = {Last(s)}) <=> records = g /\ Target = {Last(g)}
<1>1. \A s \in Stacks(session) : IsPrefix(command.stored, Changes(s)) /\ Target = {Last(s)} =>
          s = records /\ IsPrefix(g, s)
  BY ExtendFinds
<1>2. ASSUME NEW s \in Extended PROVE s = records /\ IsPrefix(g, s) /\ s # g
  <2>1. s \in Stacks(session) /\ IsPrefix(command.stored, Changes(s)) /\ Target = {Last(s)}
            /\ command.stored # Changes(s)
    BY DEF Extended, IsStrictPrefix
  <2> QED BY <1>1, <2>1
<1>3. ASSUME records \in Stacks(session), Target = {Last(records)}, IsPrefix(g, records),
          records # g
      PROVE  records \in Extended
  BY <1>3, PrefixOfStack DEF Extended, IsStrictPrefix
<1>4. records \in Extended => records \in Stacks(session) /\ Target = {Last(records)}
  BY DEF Extended
<1>5. IsPrefix(g, g)
  <2>1. g \in Seq(Commit) /\ Len(g) \in Nat
    BY StackBasics
  <2> QED BY <2>1, PrefixIs
<1>6. ASSUME NEW s \in Resolved, Target = {Last(s)} PROVE s = records /\ s = g
  <2>1. s \in Stacks(session) /\ Changes(s) = command.stored
    BY DEF Resolved
  <2>2. IsPrefix(command.stored, Changes(s))
    <3>1. IsPrefix(Changes(g), Changes(g))
      BY <1>5, PrefixOfStack
    <3> QED BY <2>1, <3>1
  <2>3. s = records /\ IsPrefix(g, s)
    BY <1>1, <1>6, <2>1, <2>2
  <2>4. s = g
    BY <2>1, <2>3, PrefixOfStack
  <2> QED BY <2>3, <2>4
<1>7. g \in Resolved
  BY DEF Resolved
<1> QED BY <1>2, <1>3, <1>4, <1>6, <1>7

LEMMA ExtendAnswer ==
    ASSUME store \in Stores, session \in Views, command.name = "extendSelection",
           NEW g \in Stacks(session), Changes(g) = command.stored,
           NEW records \in Log(DagRange(VersionsOf({Head(command.stored)}), Target)),
           records \in Seq(VisibleNode(session)),
           NEW toWorkingCopy \in BOOLEAN,
           toWorkingCopy => Target = {session.current},
           records = g => Target = {Last(g)},
           records \in Stacks(session) /\ (toWorkingCopy => Last(records) = session.current)
              => Target = {Last(records)}
    PROVE  ExtendedSelection(session, g, records, toWorkingCopy) = Expected(session)
<1>1. /\ \A s \in Extended : s = records
      /\ records \in Extended <=> /\ records \in Stacks(session) /\ Target = {Last(records)}
                                  /\ IsPrefix(g, records) /\ records # g
      /\ (\E s \in Resolved : Target = {Last(s)}) <=> records = g /\ Target = {Last(g)}
  BY ExtendFacts
<1>2. TheOne(Extended) = IF records \in Extended THEN Selected(records) ELSE Rejected
  BY <1>1, OnlyOne
<1>3. IsPrefix(g, g)
  <2>1. g \in Seq(Commit) /\ Len(g) \in Nat
    BY StackBasics
  <2> QED BY <2>1, PrefixIs
<1>4. CASE ~IsPrefix(g, records)
  <2>1. ExtendedSelection(session, g, records, toWorkingCopy) = Rejected
    BY <1>4 DEF ExtendedSelection
  <2> QED BY <1>1, <1>2, <1>3, <1>4, <2>1, ExpectedExtension
<1>5. CASE IsPrefix(g, records) /\ records = g
  <2>1. ExtendedSelection(session, g, records, toWorkingCopy) = NoNewChanges
    BY <1>5 DEF ExtendedSelection
  <2>2. Extended = {} /\ \E s \in Resolved : Target = {Last(s)}
    BY <1>1, <1>5
  <2> QED BY <2>1, <2>2, ExpectedExtension
<1>6. CASE IsPrefix(g, records) /\ records # g
  <2>1. Expected(session) = IF records \in Extended THEN Selected(records) ELSE Rejected
    BY <1>1, <1>2, <1>6, ExpectedExtension
  <2>2. CASE toWorkingCopy /\ Last(records) # session.current
    <3>1. ExtendedSelection(session, g, records, toWorkingCopy) = Rejected
      BY <1>6, <2>2 DEF ExtendedSelection
    <3>2. records \notin Extended
      BY <1>1, <2>2
    <3> QED BY <2>1, <3>1, <3>2
  <2>3. CASE ~(toWorkingCopy /\ Last(records) # session.current)
    <3>1. ExtendedSelection(session, g, records, toWorkingCopy) = Selection(session, records)
      BY <1>6, <2>3 DEF ExtendedSelection
    <3>2. records \in Extended <=> records \in Stacks(session)
      BY <1>1, <1>6, <2>3
    <3> QED BY <2>1, <3>1, <3>2, SelectionOf
  <2> QED BY <2>2, <2>3
<1> QED BY <1>4, <1>5, <1>6

(* To the working copy.                                                    *)
LEMMA ExtendToWorkingCopy ==
    ASSUME store \in Stores, session \in Views, command.name = "extendSelection",
           command.newest = NoChange,
           NEW g \in Stacks(session), Changes(g) = command.stored,
           NEW records \in Log(DagRange(VersionsOf({Head(command.stored)}), {session.current}))
    PROVE  ExtendedSelection(session, g, records, TRUE) = Expected(session)
<1> DEFINE now == session.current
           oldest == VersionsOf({Head(command.stored)})
<1>1. Target = {now}
  BY DEF Target
<1>2. now \in VisibleNode(session) /\ now \in Node
  BY VisibleNodes, Nodes DEF VisibleNode
<1>3. DagRange(oldest, {now}) \in SUBSET VisibleNode(session)
  BY <1>2, DagIsVisible
<1>4. records \in Seq(VisibleNode(session)) /\ ToSet(records) = DagRange(oldest, {now})
  <2> HIDE DEF oldest, now
  <2> QED BY <1>3, RecordsVisible DEF oldest, now
<1>5. ASSUME records = g PROVE Last(g) = now
  <2>1. /\ Len(g) \in Nat \ {0} /\ DOMAIN g = 1 .. Len(g) /\ Last(g) = g[Len(g)] /\ Ascending(g)
        /\ \A i \in 1 .. Len(g) : g[i] \in Node
    BY StackBasics
  <2>2. g[Len(g)] \in ToSet(g)
    BY <2>1 DEF ToSet
  <2>3. g[Len(g)] \in Ancestors(now) /\ Ancestors(g[Len(g)]) \cap oldest # {}
    BY <1>4, <1>5, <2>2 DEF DagRange
  <2>4. g[1] \in ToSet(g)
    BY <2>1 DEF ToSet
  <2>5. oldest = {g[1]}
    <3>1. 1 \in 1 .. Len(g)
      BY <2>1
    <3>2. Head(command.stored) = ChangeOf(g[1])
      <4>1. /\ Changes(g) \in Seq(Commit) /\ Len(Changes(g)) = Len(g)
            /\ \A i \in 1 .. Len(g) : Changes(g)[i] = ChangeOf(g[i])
        BY ChangesTyped
      <4>2. Changes(g) # <<>>
        BY <2>1, <4>1, EmptySeq
      <4>3. Head(Changes(g)) = Changes(g)[1]
        BY <4>1, <4>2
      <4> QED BY <3>1, <4>1, <4>3
    <3>3. Versions(session, ChangeOf(g[1])) = {g[1]}
      BY <3>1, StackBasics
    <3> QED BY <3>2, <3>3 DEF VersionsOf, ReadAt
  <2>6. g[1] \in Ancestors(now)
    BY <1>4, <1>5, <2>4 DEF DagRange
  <2>7. now \in DagRange(oldest, {now})
    BY <1>2, <2>5, <2>6, AncestorsStep DEF DagRange
  <2>8. PICK k \in 1 .. Len(g) : g[k] = now
    <3>1. now \in ToSet(g)
      BY <1>4, <1>5, <2>7
    <3>2. \E k \in DOMAIN g : g[k] = now
      BY <3>1 DEF ToSet
    <3> QED BY <2>1, <3>2
  <2>9. g[Len(g)] <= now
    BY <1>2, <2>3, AncestorsBelow
  <2>10. k = Len(g)
    <3>1. ASSUME k # Len(g) PROVE FALSE
      <4>1. k < Len(g) /\ k \in DOMAIN g /\ Len(g) \in DOMAIN g
        <5>1. Len(g) \in Nat \ {0}
          BY <2>1
        <5>2. k < Len(g) /\ Len(g) \in 1 .. Len(g)
          BY <3>1, <5>1
        <5>3. DOMAIN g = 1 .. Len(g)
          BY <2>1
        <5> QED BY <5>2, <5>3
      <4>2. g[k] < g[Len(g)]
        BY <2>1, <4>1 DEF Ascending
      <4>3. g[k] \in Nat /\ g[Len(g)] \in Nat
        BY <2>1, <4>1, Nodes
      <4> QED BY <2>8, <2>9, <4>2, <4>3
    <3> QED BY <3>1
  <2> QED BY <2>1, <2>8, <2>10
<1>6. records = g => Target = {Last(g)}
  BY <1>1, <1>5
<1>7. records \in Log(DagRange(VersionsOf({Head(command.stored)}), Target))
  BY <1>1
<1> QED BY <1>1, <1>4, <1>6, <1>7, ExtendAnswer

(* To a change that was given.                                             *)
LEMMA ExtendToChange ==
    ASSUME store \in Stores, session \in Views, command.name = "extendSelection",
           command.newest # NoChange,
           NEW g \in Stacks(session), Changes(g) = command.stored,
           NEW records \in Log(DagRange(VersionsOf({Head(command.stored)}),
               VersionsOf({command.newest})))
    PROVE  (IF records = <<>> \/ ChangeOf(Last(records)) # command.newest THEN Rejected
            ELSE ExtendedSelection(session, g, records, FALSE)) = Expected(session)
<1>1. Target = Versions(session, command.newest) /\ Target = VersionsOf({command.newest})
  BY DEF Target, VersionsOf, ReadAt
<1>2. records \in Log(DagRange(VersionsOf({Head(command.stored)}), Target))
  BY <1>1
<1>3. records \in Seq(VisibleNode(session))
  <2>1. DagRange(VersionsOf({Head(command.stored)}),
            VersionsOf({command.newest})) \in SUBSET VisibleNode(session)
    BY VersionsVisible, DagIsVisible
  <2> QED BY <2>1, RecordsVisible
<1>4. CASE records = <<>> \/ ChangeOf(Last(records)) # command.newest
  <2>1. ~(records \in Stacks(session) /\ Target = {Last(records)})
    <3>1. ASSUME records \in Stacks(session), Target = {Last(records)} PROVE FALSE
      <4>1. records # <<>>
        BY <3>1, StackBasics
      <4>2. Last(records) \in Versions(session, command.newest)
        BY <1>1, <3>1
      <4> QED BY <1>4, <4>1, <4>2 DEF Versions
    <3> QED BY <3>1
  <2>2. /\ \A s \in Extended : s = records
        /\ records \in Extended => records \in Stacks(session) /\ Target = {Last(records)}
        /\ (\E s \in Resolved : Target = {Last(s)}) => records = g /\ Target = {Last(g)}
    BY <1>2, ExtendFacts
  <2>3. Extended = {} /\ ~ \E s \in Resolved : Target = {Last(s)}
    BY <2>1, <2>2
  <2> QED BY <1>4, <2>3, ExpectedExtension DEF TheOne
<1>5. CASE ~(records = <<>> \/ ChangeOf(Last(records)) # command.newest)
  <2>1. records \in Stacks(session) => Target = {Last(records)}
    BY <1>1, <1>5, EndsAreUnique
  <2>2. ExtendedSelection(session, g, records, FALSE) = Expected(session)
    BY <1>2, <1>3, <2>1, ExtendAnswer
  <2> QED BY <1>5, <2>2
<1> QED BY <1>4, <1>5

LEMMA ExtendNotUnique ==
    ASSUME store \in Stores, session \in Views, command.name = "extendSelection",
           command.newest # NoChange,
           NEW records \in Log(VersionsOf({command.newest})), Len(records) # 1
    PROVE  Expected(session) = Rejected
<1>1. ~ \E c : Target = {c}
  BY UniqueFinds DEF Target
<1>2. Extended = {} /\ ~ \E s \in Resolved : Target = {Last(s)}
  BY <1>1 DEF Extended
<1> QED BY <1>2, ExpectedExtension DEF TheOne

-----------------------------------------------------------------------------
(* ancestors(c, n), and filter.                                            *)

LEMMA GenerationsAre ==
    ASSUME store \in Stores, NEW c \in Node, NEW n \in Nat
    PROVE  \E f \in [1 .. n -> SUBSET Node] :
              /\ \A k \in 1 .. n : f[k] = IF k = 1 THEN {c} ELSE f[k - 1]
                     \cup UNION {Parents(d) : d \in f[k - 1]}
              /\ \A k \in 1 .. n : Generations(c, k) = f[k]
<1> DEFINE F == [x \in (1 .. n) \X SUBSET Node |-> x[2] \cup UNION {Parents(d) : d \in x[2]}]
           Value(f, k) == IF k = 1 THEN {c} ELSE f[k - 1] \cup UNION {Parents(d) : d \in f[k - 1]}
<1>1. F \in [(1 .. n) \X SUBSET Node -> SUBSET Node]
  <2>1. ASSUME NEW x \in (1 .. n) \X SUBSET Node
        PROVE x[2] \cup UNION {Parents(d) : d \in x[2]} \in SUBSET Node
    <3>1. \A d \in x[2] : Parents(d) \subseteq Node
      BY ParentsBelow
    <3> QED BY <3>1
  <2> QED BY <2>1
<1>2. ASSUME NEW k \in 1 .. n, NEW X \in SUBSET Node
      PROVE  F[<<k, X>>] = X \cup UNION {Parents(d) : d \in X}
  <2>1. <<k, X>> \in (1 .. n) \X SUBSET Node /\ <<k, X>>[2] = X
    OBVIOUS
  <2> QED BY <2>1
<1> HIDE DEF F
<1>3. PICK f \in [1 .. n -> SUBSET Node] : \A k \in 1 .. n : f[k] = IF k = 1 THEN {c}
          ELSE F[<<k, f[k - 1]>>]
  <2>1. {c} \in SUBSET Node
    OBVIOUS
  <2> DEFINE D == SUBSET Node
             init == {c}
  <2>2. init \in D /\ F \in [(1 .. n) \X D -> D]
    BY <1>1, <2>1
  <2> HIDE DEF D, init
  <2>3. \E f \in [1 .. n -> D] : Recurses(f, n, init, F)
    BY <2>2, Recursion
  <2> QED BY <2>3 DEF D, init, Recurses
<1>4. \A k \in 1 .. n : f[k] = Value(f, k)
  <2> TAKE k \in 1 .. n
  <2>1. CASE k = 1
    BY <1>3, <2>1
  <2>2. CASE k # 1
    <3>1. k - 1 \in 1 .. n
      BY <2>2
    <3>2. f[k - 1] \in SUBSET Node
      BY <3>1
    <3> QED BY <1>2, <1>3, <2>2, <3>2
  <2> QED BY <2>1, <2>2
<1>5. ASSUME NEW m \in 1 .. n PROVE Generations(c, m) = f[m]
  <2> DEFINE g == CHOOSE g : g = [k \in 1 .. m |-> Value(g, k)]
             h == [k \in 1 .. m |-> f[k]]
  <2>1. h = [k \in 1 .. m |-> Value(h, k)]
    <3>1. \A k \in 1 .. m : h[k] = Value(h, k)
      <4> TAKE k \in 1 .. m
      <4>1. k \in 1 .. n /\ h[k] = f[k] /\ (k # 1 => h[k - 1] = f[k - 1])
        OBVIOUS
      <4>2. Value(h, k) = Value(f, k)
        <5> HIDE DEF h
        <5> QED BY <4>1
      <4> HIDE DEF Value, h
      <4> QED BY <1>4, <4>1, <4>2
    <3>2. h = [k \in 1 .. m |-> h[k]]
      OBVIOUS
    <3> HIDE DEF h, Value
    <3> QED BY <3>1, <3>2
  <2>2. g = [k \in 1 .. m |-> Value(g, k)]
    <3>1. \E gg : gg = [k \in 1 .. m |-> Value(gg, k)]
      <4> HIDE DEF h, Value
      <4> QED BY <2>1
    <3> HIDE DEF Value
    <3> QED BY <3>1
  <2>3. Generations(c, m) = g[m]
    BY DEF Generations
  <2> HIDE DEF g
  <2>4. \A k \in 1 .. m : g[k] = Value(g, k)
    <3> HIDE DEF Value
    <3> QED BY <2>2
  <2> DEFINE S == {k \in Nat : k \in 1 .. m => g[k] = f[k]}
  <2>5. 0 \in S
    OBVIOUS
  <2>6. ASSUME NEW k \in S PROVE k + 1 \in S
    <3>1. ASSUME k + 1 \in 1 .. m PROVE g[k + 1] = f[k + 1]
      <4>1. k + 1 \in 1 .. n /\ k \in Nat /\ (k + 1) - 1 = k
        BY <3>1
      <4>2. CASE k = 0
        <5>1. k + 1 = 1 /\ 1 \in 1 .. m /\ 1 \in 1 .. n
          BY <3>1, <4>1, <4>2
        <5>2. g[1] = {c} /\ f[1] = {c}
          BY <1>4, <2>4, <5>1
        <5> QED BY <5>1, <5>2
      <4>3. CASE k # 0
        <5>1. g[k] = f[k] /\ k + 1 # 1
          BY <3>1, <4>1, <4>3
        <5>2. Value(g, k + 1) = g[k] \cup UNION {Parents(d) : d \in g[k]}
          BY <4>1, <5>1
        <5>3. Value(f, k + 1) = f[k] \cup UNION {Parents(d) : d \in f[k]}
          BY <4>1, <5>1
        <5>4. g[k + 1] = Value(g, k + 1) /\ f[k + 1] = Value(f, k + 1)
          <6> HIDE DEF Value
          <6> QED BY <1>4, <2>4, <3>1, <4>1
        <5> HIDE DEF Value
        <5> QED BY <5>1, <5>2, <5>3, <5>4
      <4> QED BY <4>2, <4>3
    <3> QED BY <3>1
  <2>7. S = Nat
    <3>1. S \subseteq Nat
      OBVIOUS
    <3> HIDE DEF S
    <3> QED BY <2>5, <2>6, <3>1, SetInduction
  <2>8. m \in S /\ m \in 1 .. m
    BY <2>7
  <2> QED BY <2>3, <2>8
<1> QED BY <1>4, <1>5

LEMMA GenerationsStep ==
    ASSUME store \in Stores, NEW c \in Node, NEW n \in Nat \ {0}
    PROVE  /\ Generations(c, 1) = {c}
           /\ Generations(c, n) \in SUBSET Node
           /\ Generations(c, n + 1) = Generations(c, n)
                  \cup UNION {Parents(d) : d \in Generations(c, n)}
<1>1. n + 1 \in Nat /\ 1 \in 1 .. n + 1 /\ n \in 1 .. n + 1 /\ n + 1 \in 1 .. n + 1
          /\ (n + 1) - 1 = n /\ n + 1 # 1
  OBVIOUS
<1>2. PICK f \in [1 .. n + 1 -> SUBSET Node] :
              /\ \A k \in 1 .. n + 1 : f[k] = IF k = 1 THEN {c} ELSE f[k - 1]
                     \cup UNION {Parents(d) : d \in f[k - 1]}
              /\ \A k \in 1 .. n + 1 : Generations(c, k) = f[k]
  BY <1>1, GenerationsAre
<1>3. f[1] = {c} /\ f[n] \in SUBSET Node
  BY <1>1, <1>2
<1>4. f[n + 1] = f[n] \cup UNION {Parents(d) : d \in f[n]}
  <2>1. f[n + 1] = IF n + 1 = 1 THEN {c} ELSE f[(n + 1) - 1]
            \cup UNION {Parents(d) : d \in f[(n + 1) - 1]}
    BY <1>1, <1>2
  <2> QED BY <1>1, <2>1
<1>5. Generations(c, 1) = f[1] /\ Generations(c, n) = f[n] /\ Generations(c, n + 1) = f[n + 1]
  BY <1>1, <1>2
<1> QED BY <1>3, <1>4, <1>5

LEMMA GenerationsGrow ==
    ASSUME store \in Stores, NEW c \in Node, NEW m \in Nat \ {0}, NEW n \in Nat, m <= n
    PROVE  Generations(c, m) \subseteq Generations(c, n)
<1> DEFINE S == {k \in Nat : Generations(c, m) \subseteq Generations(c, m + k)}
<1>1. 0 \in S
  OBVIOUS
<1>2. ASSUME NEW k \in S PROVE k + 1 \in S
  <2>1. k \in Nat /\ m + k \in Nat \ {0} /\ m + (k + 1) = (m + k) + 1
    OBVIOUS
  <2>2. Generations(c, m + k) \subseteq Generations(c, (m + k) + 1)
    BY <2>1, GenerationsStep
  <2> QED BY <2>1, <2>2
<1>3. S = Nat
  <2>1. S \subseteq Nat
    OBVIOUS
  <2> HIDE DEF S
  <2> QED BY <1>1, <1>2, <2>1, SetInduction
<1>4. n - m \in S /\ m + (n - m) = n
  <2> HIDE DEF S
  <2> QED BY <1>3
<1>5. Generations(c, m) \subseteq Generations(c, m + (n - m))
  BY <1>4
<1> QED BY <1>4, <1>5

LEMMA GenerationsVisible ==
    ASSUME store \in Stores, NEW v \in Views, NEW c \in VisibleNode(v), NEW n \in Nat \ {0}
    PROVE  Generations(c, n) \subseteq VisibleNode(v)
<1>1. c \in Node
  BY VisibleNodes
<1> DEFINE S == {k \in Nat : Generations(c, k + 1) \subseteq VisibleNode(v)}
<1>2. 0 \in S
  <2>1. Generations(c, 1) = {c} /\ 0 + 1 = 1
    BY <1>1, GenerationsStep
  <2> QED BY <2>1
<1>3. ASSUME NEW k \in S PROVE k + 1 \in S
  <2>1. k \in Nat /\ k + 1 \in Nat \ {0} /\ Generations(c, k + 1) \subseteq VisibleNode(v)
    OBVIOUS
  <2>2. Generations(c, (k + 1) + 1) = Generations(c, k + 1)
            \cup UNION {Parents(d) : d \in Generations(c, k + 1)}
    BY <1>1, <2>1, GenerationsStep
  <2> QED BY <2>1, <2>2, VisibleNodes
<1>4. S = Nat
  <2>1. S \subseteq Nat
    OBVIOUS
  <2> HIDE DEF S
  <2> QED BY <1>2, <1>3, <2>1, SetInduction
<1>5. n - 1 \in S /\ (n - 1) + 1 = n
  <2> HIDE DEF S
  <2> QED BY <1>4
<1>6. Generations(c, (n - 1) + 1) \subseteq VisibleNode(v)
  BY <1>5
<1> QED BY <1>5, <1>6

(* The generations of the top of a stack go down the stack.                *)
LEMMA GenerationsOfStack ==
    ASSUME store \in Stores, NEW v \in Views, NEW s \in Stacks(v), NEW n \in 1 .. Len(s)
    PROVE  Generations(Last(s), n) = {s[i] : i \in Len(s) - n + 1 .. Len(s)}
<1>1. /\ Len(s) \in Nat \ {0} /\ DOMAIN s = 1 .. Len(s) /\ Last(s) = s[Len(s)]
      /\ \A k \in 1 .. Len(s) : s[k] \in Node
      /\ \A k \in 2 .. Len(s) : Parents(s[k]) = {s[k - 1]}
  BY StackBasics DEF Chain
<1> DEFINE Lower(k) == {s[i] : i \in Len(s) - k + 1 .. Len(s)}
           S == {k \in Nat : k + 1 <= Len(s) => Generations(Last(s), k + 1) = Lower(k + 1)}
<1>2. Last(s) \in Node
  BY <1>1
<1>3. 0 \in S
  <2>1. Generations(Last(s), 1) = {s[Len(s)]}
    BY <1>1, <1>2, GenerationsStep
  <2>2. \A i \in Len(s) - 1 + 1 .. Len(s) : i = Len(s)
    <3>1. Len(s) \in Nat
      BY <1>1
    <3> QED BY <3>1
  <2>3. Len(s) \in Len(s) - 1 + 1 .. Len(s)
    BY <1>1
  <2>4. Lower(1) = {s[Len(s)]}
    BY <2>2, <2>3
  <2> HIDE DEF Lower
  <2>5. 0 + 1 = 1
    OBVIOUS
  <2> QED BY <2>1, <2>4, <2>5
<1>4. ASSUME NEW k \in S PROVE k + 1 \in S
  <2>1. ASSUME (k + 1) + 1 <= Len(s) PROVE Generations(Last(s), (k + 1) + 1) = Lower((k + 1) + 1)
    <3>1. k \in Nat /\ k + 1 \in Nat \ {0} /\ k + 1 <= Len(s)
      BY <1>1, <2>1
    <3>2. Generations(Last(s), k + 1) = Lower(k + 1)
      BY <3>1
    <3>3. Generations(Last(s), (k + 1) + 1) = Lower(k + 1)
              \cup UNION {Parents(d) : d \in Lower(k + 1)}
      <4>1. Generations(Last(s), (k + 1) + 1) = Generations(Last(s), k + 1)
                \cup UNION {Parents(d) : d \in Generations(Last(s), k + 1)}
        BY <1>2, <3>1, GenerationsStep
      <4> HIDE DEF Lower
      <4> QED BY <3>2, <4>1
    <3>4. ASSUME NEW i \in Len(s) - (k + 1) + 1 .. Len(s)
          PROVE  Parents(s[i]) = {s[i - 1]} /\ i - 1 \in Len(s) - ((k + 1) + 1) + 1 .. Len(s)
              /\ i \in Len(s) - ((k + 1) + 1) + 1 .. Len(s)
      <4>1. i \in 2 .. Len(s) /\ i - 1 \in Len(s) - ((k + 1) + 1) + 1 .. Len(s)
                /\ i \in Len(s) - ((k + 1) + 1) + 1 .. Len(s)
        BY <1>1, <2>1, <3>1
      <4> QED BY <1>1, <4>1
    <3>5. ASSUME NEW i \in Len(s) - ((k + 1) + 1) + 1 .. Len(s)
          PROVE  i \in Len(s) - (k + 1) + 1 .. Len(s)
              \/ (i + 1 \in Len(s) - (k + 1) + 1 .. Len(s) /\ (i + 1) - 1 = i)
      BY <1>1, <2>1, <3>1
    <3>6. Lower(k + 1) \cup UNION {Parents(d) : d \in Lower(k + 1)} \subseteq Lower((k + 1) + 1)
      <4>1. ASSUME NEW d \in Lower(k + 1)
            PROVE d \in Lower((k + 1) + 1) /\ Parents(d) \subseteq Lower((k + 1) + 1)
        <5>1. PICK i \in Len(s) - (k + 1) + 1 .. Len(s) : d = s[i]
          OBVIOUS
        <5>2. Parents(s[i]) = {s[i - 1]} /\ i - 1 \in Len(s) - ((k + 1) + 1) + 1 .. Len(s)
                  /\ i \in Len(s) - ((k + 1) + 1) + 1 .. Len(s)
          BY <3>4
        <5> QED BY <5>1, <5>2
      <4> HIDE DEF Lower
      <4> QED BY <4>1
    <3>7. ASSUME NEW i \in Len(s) - ((k + 1) + 1) + 1 .. Len(s)
          PROVE  s[i] \in Lower(k + 1) \cup UNION {Parents(d) : d \in Lower(k + 1)}
      <4>1. CASE i \in Len(s) - (k + 1) + 1 .. Len(s)
        BY <4>1
      <4>2. CASE i + 1 \in Len(s) - (k + 1) + 1 .. Len(s) /\ (i + 1) - 1 = i
        <5>1. Parents(s[i + 1]) = {s[(i + 1) - 1]}
          BY <3>4, <4>2
        <5>2. s[i] \in Parents(s[i + 1]) /\ s[i + 1] \in Lower(k + 1)
          BY <4>2, <5>1
        <5> HIDE DEF Lower
        <5> QED BY <5>2
      <4> QED BY <3>5, <4>1, <4>2
    <3> QED BY <3>3, <3>6, <3>7
  <2> HIDE DEF Lower
  <2> QED BY <2>1
<1>5. S = Nat
  <2>1. S \subseteq Nat
    OBVIOUS
  <2> HIDE DEF S
  <2> QED BY <1>3, <1>4, <2>1, SetInduction
<1>6. n - 1 \in S /\ (n - 1) + 1 = n /\ n <= Len(s)
  BY <1>1, <1>5
<1>7. Generations(Last(s), n) = Lower(n)
  <2> HIDE DEF Lower
  <2> QED BY <1>6
<1> QED BY <1>7

LEMMA OnlyUnfold ==
    ASSUME NEW S, NEW r \in Seq(S), NEW W
    PROVE  \E kept \in [1 .. Len(r) + 1 -> Seq(S)] :
              /\ kept[1] = <<>>
              /\ \A i \in 1 .. Len(r) : kept[i + 1] = IF r[i] \in W THEN Append(kept[i], r[i])
                     ELSE kept[i]
              /\ Only(r, W) = kept[Len(r) + 1]
<1> DEFINE D == Seq(S)
           init == <<>>
           n == Len(r) + 1
           Longer(t, k) == IF r[k - 1] \in W THEN Append(t, r[k - 1]) ELSE t
           F == [x \in (1 .. n) \X D |-> IF x[1] = 1 THEN <<>> ELSE Longer(x[2], x[1])]
           Value(f, k) == IF k = 1 THEN <<>>
                          ELSE IF r[k - 1] \in W THEN Append(f[k - 1], r[k - 1]) ELSE f[k - 1]
<1>1. Len(r) \in Nat /\ DOMAIN r = 1 .. Len(r) /\ \A i \in 1 .. Len(r) : r[i] \in S
  BY LenProperties, ElementOfSeq
<1>2. n \in Nat /\ init \in D
  BY <1>1
<1>3. F \in [(1 .. n) \X D -> D]
  <2>1. ASSUME NEW x \in (1 .. n) \X D PROVE (IF x[1] = 1 THEN <<>> ELSE Longer(x[2], x[1])) \in D
    <3>1. x[1] \in 1 .. n /\ x[2] \in Seq(S)
      OBVIOUS
    <3>2. x[1] # 1 => x[1] - 1 \in 1 .. Len(r)
      BY <1>1, <3>1
    <3>3. x[1] # 1 => r[x[1] - 1] \in S
      BY <1>1, <3>2
    <3> QED BY <3>1, <3>3
  <2> HIDE DEF D, Longer
  <2> QED BY <2>1
<1>4. ASSUME NEW k \in 1 .. n, NEW t \in D, k # 1
      PROVE  F[<<k, t>>] = Longer(t, k)
  <2>1. <<k, t>> \in (1 .. n) \X D /\ <<k, t>>[1] = k /\ <<k, t>>[2] = t
    OBVIOUS
  <2> HIDE DEF D, Longer
  <2> QED BY <1>4, <2>1
<1>5. \E f \in [1 .. n -> D] : Recurses(f, n, init, F)
  <2> HIDE DEF D, init, n, F
  <2> QED BY <1>2, <1>3, Recursion
<1>6. PICK f \in [1 .. n -> D] : Recurses(f, n, init, F)
  BY <1>5
<1>7. ASSUME NEW k \in 1 .. n PROVE f[k] = Value(f, k)
  <2>1. f[k] = IF k = 1 THEN init ELSE F[<<k, f[k - 1]>>]
    <3> HIDE DEF F, init, n, D
    <3> QED BY <1>6 DEF Recurses
  <2>2. CASE k = 1
    BY <2>1, <2>2
  <2>3. CASE k # 1
    <3>1. k - 1 \in 1 .. n
      BY <1>1, <2>3
    <3>2. f[k - 1] \in D
      <4> HIDE DEF n, D
      <4> QED BY <3>1
    <3>3. F[<<k, f[k - 1]>>] = Longer(f[k - 1], k)
      <4> HIDE DEF n, D, F, Longer
      <4> QED BY <1>4, <2>3, <3>2
    <3>4. f[k] = Longer(f[k - 1], k)
      <4> HIDE DEF n, D, F, Longer, init
      <4> QED BY <2>1, <2>3, <3>3
    <3> HIDE DEF F, n, D, init
    <3> QED BY <2>3, <3>4
  <2> QED BY <2>2, <2>3
<1> DEFINE kept == CHOOSE g : g = [k \in 1 .. n |-> Value(g, k)]
<1>8. kept = [k \in 1 .. n |-> Value(kept, k)]
  <2>1. f = [k \in 1 .. n |-> f[k]]
    <3> HIDE DEF n, D
    <3> QED OBVIOUS
  <2>2. f = [k \in 1 .. n |-> Value(f, k)]
    <3> HIDE DEF n, D, Value
    <3> QED BY <1>7, <2>1
  <2>3. \E g : g = [k \in 1 .. n |-> Value(g, k)]
    <3> HIDE DEF Value, n
    <3> QED BY <2>2
  <2> HIDE DEF Value, n
  <2> QED BY <2>3
<1>9. Only(r, W) = kept[n]
  BY DEF Only
<1> HIDE DEF kept
<1>10. \A k \in 1 .. n : kept[k] = Value(kept, k)
  <2> HIDE DEF Value, n
  <2> QED BY <1>8
<1>11. kept[1] = <<>> /\ \A i \in 1 .. Len(r) : kept[i + 1] = IF r[i] \in W
           THEN Append(kept[i], r[i]) ELSE kept[i]
  <2>1. kept[1] = <<>>
    BY <1>1, <1>10
  <2>2. ASSUME NEW i \in 1 .. Len(r)
        PROVE kept[i + 1] = IF r[i] \in W THEN Append(kept[i], r[i]) ELSE kept[i]
    <3>1. i + 1 \in 1 .. n /\ (i + 1) - 1 = i /\ i + 1 # 1
      BY <1>1
    <3>2. kept[i + 1] = Value(kept, i + 1)
      <4> HIDE DEF n, Value
      <4> QED BY <1>10, <3>1
    <3>3. Value(kept, i + 1) = IF r[i] \in W THEN Append(kept[i], r[i]) ELSE kept[i]
      BY <3>1
    <3> HIDE DEF Value
    <3> QED BY <3>2, <3>3
  <2> QED BY <2>1, <2>2
<1> DEFINE T == {k \in Nat : k + 1 \in 1 .. n => kept[k + 1] \in Seq(S)}
<1>12. 0 \in T
  <2>1. kept[0 + 1] = <<>> /\ <<>> \in Seq(S)
    BY <1>11, EmptySeq
  <2> HIDE DEF n
  <2> QED BY <2>1
<1>13. ASSUME NEW k \in T PROVE k + 1 \in T
  <2>1. ASSUME (k + 1) + 1 \in 1 .. n PROVE kept[(k + 1) + 1] \in Seq(S)
    <3>1. k + 1 \in 1 .. Len(r) /\ k + 1 \in 1 .. n
      BY <1>1, <2>1
    <3>2. kept[k + 1] \in Seq(S) /\ r[k + 1] \in S
      BY <1>1, <3>1
    <3>3. kept[(k + 1) + 1] = IF r[k + 1] \in W THEN Append(kept[k + 1], r[k + 1]) ELSE kept[k + 1]
      BY <1>11, <3>1
    <3> QED BY <3>2, <3>3
  <2> HIDE DEF n
  <2> QED BY <2>1
<1>14. T = Nat
  <2>1. T \subseteq Nat
    OBVIOUS
  <2> HIDE DEF T
  <2> QED BY <1>12, <1>13, <2>1, SetInduction
<1>15. \A k \in 1 .. n : kept[k] \in Seq(S)
  <2> TAKE k \in 1 .. n
  <2>1. k - 1 \in Nat /\ (k - 1) + 1 = k
    BY <1>1
  <2>2. k - 1 \in T
    <3> HIDE DEF T
    <3> QED BY <1>14, <2>1
  <2> HIDE DEF n
  <2> QED BY <2>1, <2>2
<1>16. kept \in [1 .. n -> Seq(S)]
  <2>1. DOMAIN kept = 1 .. n /\ kept = [k \in 1 .. n |-> kept[k]]
    <3>1. \A f1 : f1 = [k \in 1 .. n |-> Value(kept, k)] => DOMAIN f1 = 1 .. n
              /\ f1 = [k \in 1 .. n |-> f1[k]]
      <4> HIDE DEF n, Value
      <4> QED OBVIOUS
    <3> HIDE DEF n, Value
    <3> QED BY <1>8, <3>1
  <2> HIDE DEF n
  <2> QED BY <1>15, <2>1
<1> QED BY <1>9, <1>11, <1>16

(* What is kept is in the order it came in.                                *)
LEMMA OnlyOrder ==
    ASSUME NEW S, NEW r \in Seq(S), NEW W
    PROVE  /\ Only(r, W) \in Seq(S)
           /\ ToSet(Only(r, W)) = ToSet(r) \cap W
           /\ \A i, j \in DOMAIN Only(r, W) : i < j =>
                 \E a, b \in DOMAIN r : a < b /\ Only(r, W)[i] = r[a] /\ Only(r, W)[j] = r[b]
<1>1. Len(r) \in Nat /\ DOMAIN r = 1 .. Len(r) /\ \A i \in 1 .. Len(r) : r[i] \in S
  BY LenProperties, ElementOfSeq
<1>2. PICK kept \in [1 .. Len(r) + 1 -> Seq(S)] :
              /\ kept[1] = <<>>
              /\ \A i \in 1 .. Len(r) : kept[i + 1] = IF r[i] \in W THEN Append(kept[i], r[i])
                     ELSE kept[i]
              /\ Only(r, W) = kept[Len(r) + 1]
  BY OnlyUnfold
<1> DEFINE Complete(t, n) == {t[x] : x \in 1 .. Len(t)} = {r[a] : a \in 1 .. n} \cap W
           Ordered(t, n) == \A x, y \in 1 .. Len(t) : x < y => \E a, b \in 1 .. n : a < b
               /\ t[x] = r[a] /\ t[y] = r[b]
           T == {n \in Nat : n <= Len(r) => Complete(kept[n + 1], n) /\ Ordered(kept[n + 1], n)}
<1>3. 0 \in T
  <2>1. kept[0 + 1] = <<>> /\ Len(<<>>) = 0
    BY <1>2
  <2>2. Complete(<<>>, 0) /\ Ordered(<<>>, 0)
    BY <2>1
  <2> HIDE DEF Complete, Ordered
  <2> QED BY <2>1, <2>2
<1>4. ASSUME NEW n \in T PROVE n + 1 \in T
  <2>1. ASSUME n + 1 <= Len(r)
        PROVE Complete(kept[(n + 1) + 1], n + 1) /\ Ordered(kept[(n + 1) + 1], n + 1)
    <3>1. n \in Nat /\ n <= Len(r) /\ n + 1 \in 1 .. Len(r) /\ n + 1 \in 1 .. Len(r) + 1
      BY <1>1, <2>1
    <3>2. Complete(kept[n + 1], n) /\ Ordered(kept[n + 1], n)
      <4> HIDE DEF Complete, Ordered
      <4> QED BY <3>1
    <3>3. kept[(n + 1) + 1] = IF r[n + 1] \in W THEN Append(kept[n + 1], r[n + 1]) ELSE kept[n + 1]
      BY <1>2, <3>1
    <3>4. PICK t \in Seq(S) : t = kept[n + 1]
      BY <1>2, <3>1
    <3>5. Len(t) \in Nat /\ r[n + 1] \in S /\ Complete(t, n) /\ Ordered(t, n)
      <4>1. Complete(t, n) /\ Ordered(t, n)
        <5> HIDE DEF Complete, Ordered
        <5> QED BY <3>2, <3>4
      <4> HIDE DEF Complete, Ordered
      <4> QED BY <1>1, <3>1, <3>4, <4>1, LenProperties
    <3>6. \A a \in 1 .. n + 1 : a = n + 1 \/ a \in 1 .. n
      BY <3>1
    <3>7. \A a \in 1 .. n : a \in 1 .. n + 1 /\ a < n + 1
      BY <3>1
    <3>8. {r[a] : a \in 1 .. n + 1} = {r[a] : a \in 1 .. n} \cup {r[n + 1]}
      BY <3>1, <3>6, <3>7
    <3>9. CASE r[n + 1] \in W
      <4>1. PICK u \in Seq(S) : u = Append(t, r[n + 1])
        <5>1. r[n + 1] \in S
          BY <1>1, <3>1
        <5>2. Append(t, r[n + 1]) \in Seq(S)
          BY <5>1, AppendProperties
        <5> QED BY <5>2
      <4>2. /\ Len(u) = Len(t) + 1 /\ u[Len(t) + 1] = r[n + 1]
            /\ \A x \in 1 .. Len(t) : u[x] = t[x]
        BY <3>5, <4>1
      <4>3. \A x \in 1 .. Len(u) : x = Len(t) + 1 \/ x \in 1 .. Len(t)
        BY <3>5, <4>2
      <4>4. \A x \in 1 .. Len(t) : x \in 1 .. Len(u)
        BY <3>5, <4>2
      <4>5. Len(t) + 1 \in 1 .. Len(u)
        BY <3>5, <4>2
      <4>6. {u[x] : x \in 1 .. Len(u)} = {t[x] : x \in 1 .. Len(t)} \cup {r[n + 1]}
        <5>1. ASSUME NEW x \in 1 .. Len(u) PROVE u[x] \in {t[y] : y \in 1 .. Len(t)} \cup {r[n + 1]}
          <6>1. CASE x = Len(t) + 1
            BY <4>2, <6>1
          <6>2. CASE x \in 1 .. Len(t)
            BY <4>2, <6>2
          <6> QED BY <4>3, <6>1, <6>2
        <5>2. ASSUME NEW x \in 1 .. Len(t) PROVE t[x] \in {u[y] : y \in 1 .. Len(u)}
          BY <4>2, <4>4
        <5>3. r[n + 1] \in {u[y] : y \in 1 .. Len(u)}
          BY <4>2, <4>5
        <5> DEFINE A == {u[x] : x \in 1 .. Len(u)}
                   B == {t[x] : x \in 1 .. Len(t)}
        <5>4. A \subseteq B \cup {r[n + 1]}
          BY <5>1
        <5>5. B \subseteq A
          BY <5>2
        <5> HIDE DEF A, B
        <5>6. A = B \cup {r[n + 1]}
          BY <5>3, <5>4, <5>5 DEF A
        <5> QED BY <5>6 DEF A, B
      <4>7. Complete(u, n + 1)
        BY <3>5, <3>8, <3>9, <4>6
      <4>8. Ordered(u, n + 1)
        <5>1. ASSUME NEW x \in 1 .. Len(u), NEW y \in 1 .. Len(u), x < y
              PROVE  \E a, b \in 1 .. n + 1 : a < b /\ u[x] = r[a] /\ u[y] = r[b]
          <6>1. x \in 1 .. Len(t)
            BY <3>5, <4>2, <5>1
          <6>2. CASE y \in 1 .. Len(t)
            <7>1. PICK a \in 1 .. n, b \in 1 .. n : a < b /\ t[x] = r[a] /\ t[y] = r[b]
              BY <3>5, <5>1, <6>1, <6>2
            <7> QED BY <3>7, <4>2, <6>1, <6>2, <7>1
          <6>3. CASE y = Len(t) + 1
            <7>1. t[x] \in {r[a] : a \in 1 .. n}
              BY <3>5, <6>1
            <7>2. PICK a \in 1 .. n : t[x] = r[a]
              BY <7>1
            <7>3. n + 1 \in 1 .. n + 1
              BY <3>1
            <7> QED BY <3>7, <4>2, <6>1, <6>3, <7>2, <7>3
          <6> QED BY <4>3, <6>2, <6>3
        <5> QED BY <5>1
      <4>9. kept[(n + 1) + 1] = u
        BY <3>3, <3>4, <3>9, <4>1
      <4> HIDE DEF Complete, Ordered
      <4> QED BY <4>7, <4>8, <4>9
    <3>10. CASE r[n + 1] \notin W
      <4>1. kept[(n + 1) + 1] = t
        BY <3>3, <3>4, <3>10
      <4>2. Complete(t, n + 1)
        BY <3>5, <3>8, <3>10
      <4>3. Ordered(t, n + 1)
        <5>1. Ordered(t, n)
          <6> HIDE DEF Ordered, Complete
          <6> QED BY <3>5
        <5> QED BY <3>7, <5>1
      <4> HIDE DEF Complete, Ordered
      <4> QED BY <4>1, <4>2, <4>3
    <3> QED BY <3>9, <3>10
  <2> HIDE DEF Complete, Ordered
  <2> QED BY <2>1
<1>5. T = Nat
  <2>1. T \subseteq Nat
    OBVIOUS
  <2> HIDE DEF T
  <2> QED BY <1>3, <1>4, <2>1, SetInduction
<1>6. PICK t \in Seq(S) : t = Only(r, W)
  <2>1. Len(r) + 1 \in 1 .. Len(r) + 1
    BY <1>1
  <2> QED BY <1>2, <2>1
<1>7. Complete(t, Len(r)) /\ Ordered(t, Len(r))
  <2>1. Len(r) \in T
    <3> HIDE DEF T
    <3> QED BY <1>1, <1>5
  <2>2. Complete(kept[Len(r) + 1], Len(r)) /\ Ordered(kept[Len(r) + 1], Len(r))
    <3> HIDE DEF Complete, Ordered
    <3> QED BY <1>1, <2>1
  <2> HIDE DEF Complete, Ordered
  <2> QED BY <1>2, <1>6, <2>2
<1>8. DOMAIN t = 1 .. Len(t)
  BY LenProperties
<1>9. ToSet(t) = {t[x] : x \in 1 .. Len(t)} /\ ToSet(r) = {r[a] : a \in 1 .. Len(r)}
  BY <1>1, <1>8 DEF ToSet
<1>10. \A i, j \in DOMAIN t : i < j => \E a, b \in DOMAIN r : a < b /\ t[i] = r[a] /\ t[j] = r[b]
  <2>1. Ordered(t, Len(r))
    <3> HIDE DEF Complete, Ordered
    <3> QED BY <1>7
  <2>2. \A i, j \in 1 .. Len(t) : i < j => \E a, b \in 1 .. Len(r) : a < b /\ t[i] = r[a]
            /\ t[j] = r[b]
    BY <2>1
  <2> TAKE i, j \in DOMAIN t
  <2>3. i \in 1 .. Len(t) /\ j \in 1 .. Len(t)
    BY <1>8
  <2>4. i < j => \E a, b \in 1 .. Len(r) : a < b /\ t[i] = r[a] /\ t[j] = r[b]
    BY <2>2, <2>3
  <2> QED BY <1>1, <2>4
<1>11. ToSet(t) = ToSet(r) \cap W
  BY <1>7, <1>9
<1> QED BY <1>6, <1>10, <1>11

LEMMA OnlyPrefix ==
    ASSUME NEW S, NEW r \in Seq(S), NEW W, NEW m \in 0 .. Len(r),
           \A i \in 1 .. m : r[i] \in W, \A i \in m + 1 .. Len(r) : r[i] \notin W
    PROVE  /\ Only(r, W) \in Seq(S)
           /\ Len(Only(r, W)) = m
           /\ \A i \in 1 .. m : Only(r, W)[i] = r[i]
<1>1. Len(r) \in Nat /\ DOMAIN r = 1 .. Len(r) /\ \A i \in 1 .. Len(r) : r[i] \in S
  BY LenProperties, ElementOfSeq
<1>2. PICK kept \in [1 .. Len(r) + 1 -> Seq(S)] :
              /\ kept[1] = <<>>
              /\ \A i \in 1 .. Len(r) : kept[i + 1] = IF r[i] \in W THEN Append(kept[i], r[i])
                     ELSE kept[i]
              /\ Only(r, W) = kept[Len(r) + 1]
  BY OnlyUnfold
<1> DEFINE Good(t, n) == Len(t) = n /\ \A i \in 1 .. n : t[i] = r[i]
           T == {n \in Nat : n <= Len(r) => Good(kept[n + 1], IF n <= m THEN n ELSE m)}
<1>3. 0 \in T
  <2>1. kept[0 + 1] = <<>> /\ Len(<<>>) = 0 /\ 0 <= m
    BY <1>2
  <2>2. Good(<<>>, 0)
    BY <2>1
  <2> HIDE DEF Good
  <2> QED BY <2>1, <2>2
<1>4. ASSUME NEW n \in T PROVE n + 1 \in T
  <2>1. ASSUME n + 1 <= Len(r) PROVE Good(kept[(n + 1) + 1], IF n + 1 <= m THEN n + 1 ELSE m)
    <3>1. n \in Nat /\ n <= Len(r) /\ n + 1 \in 1 .. Len(r) /\ n + 1 \in 1 .. Len(r) + 1
      BY <1>1, <2>1
    <3>2. Good(kept[n + 1], IF n <= m THEN n ELSE m)
      <4> HIDE DEF Good
      <4> QED BY <3>1
    <3>3. kept[(n + 1) + 1] = IF r[n + 1] \in W THEN Append(kept[n + 1], r[n + 1]) ELSE kept[n + 1]
      BY <1>2, <3>1
    <3>4. PICK t \in Seq(S) : t = kept[n + 1]
      BY <1>2, <3>1
    <3>5. CASE n + 1 <= m
      <4>1. n <= m /\ n + 1 \in 1 .. m
        BY <1>1, <3>1, <3>5
      <4>2. r[n + 1] \in W /\ r[n + 1] \in S
        BY <1>1, <3>1, <4>1
      <4>3. Len(t) = n /\ \A i \in 1 .. n : t[i] = r[i]
        BY <3>2, <3>4, <4>1
      <4>4. PICK u : u = Append(t, r[n + 1])
        OBVIOUS
      <4>5. Len(u) = n + 1 /\ u[n + 1] = r[n + 1] /\ \A i \in 1 .. n : u[i] = t[i]
        BY <3>1, <4>2, <4>3, <4>4
      <4>6. \A i \in 1 .. n + 1 : i = n + 1 \/ i \in 1 .. n
        BY <3>1
      <4>7. Good(u, n + 1)
        BY <4>3, <4>5, <4>6
      <4>8. kept[(n + 1) + 1] = u
        BY <3>3, <3>4, <4>2, <4>4
      <4> HIDE DEF Good
      <4> QED BY <3>5, <4>7, <4>8
    <3>6. CASE ~(n + 1 <= m)
      <4>1. m <= n /\ n + 1 \in m + 1 .. Len(r) /\ (IF n <= m THEN n ELSE m) = m
        BY <1>1, <3>1, <3>6
      <4>2. r[n + 1] \notin W
        BY <4>1
      <4>3. kept[(n + 1) + 1] = kept[n + 1]
        BY <3>3, <4>2
      <4> HIDE DEF Good
      <4> QED BY <3>2, <3>6, <4>1, <4>3
    <3> QED BY <3>5, <3>6
  <2> HIDE DEF Good
  <2> QED BY <2>1
<1>5. T = Nat
  <2>1. T \subseteq Nat
    OBVIOUS
  <2> HIDE DEF T
  <2> QED BY <1>3, <1>4, <2>1, SetInduction
<1>6. Good(kept[Len(r) + 1], m)
  <2>1. Len(r) \in T
    <3> HIDE DEF T
    <3> QED BY <1>1, <1>5
  <2>2. Good(kept[Len(r) + 1], IF Len(r) <= m THEN Len(r) ELSE m)
    <3> HIDE DEF Good
    <3> QED BY <1>1, <2>1
  <2>3. (IF Len(r) <= m THEN Len(r) ELSE m) = m
    <3>1. Len(r) \in Nat /\ m \in Nat /\ m <= Len(r)
      BY <1>1
    <3> QED BY <3>1
  <2> HIDE DEF Good
  <2> QED BY <2>2, <2>3
<1>7. Len(r) + 1 \in 1 .. Len(r) + 1
  BY <1>1
<1> QED BY <1>2, <1>6, <1>7

-----------------------------------------------------------------------------
(* selectLast.                                                             *)

LEMMA HeadIsVisible ==
    ASSUME session \in Views, command.head \in {Root} \cup session.visible
    PROVE  /\ HeadOf(ReadAt) = HeadOf(session)
           /\ HeadOf(session) \in session.visible /\ HeadOf(session) \in Commit
           /\ HeadOf(session) \in Node /\ HeadOf(session) \in VisibleNode(session)
  BY VisibleNodes, Nodes DEF HeadOf, ReadAt, VisibleNode

LEMMA GenerationsOfAll ==
    ASSUME store \in Stores, NEW v \in Views, NEW s \in Stacks(v)
    PROVE  Generations(Last(s), Len(s)) = ToSet(s)
<1>1. Len(s) \in Nat \ {0} /\ DOMAIN s = 1 .. Len(s)
  BY StackBasics
<1>2. Len(s) \in 1 .. Len(s) /\ Len(s) - Len(s) + 1 = 1
  BY <1>1
<1>3. Generations(Last(s), Len(s)) = {s[i] : i \in Len(s) - Len(s) + 1 .. Len(s)}
  BY <1>2, GenerationsOfStack
<1> QED BY <1>1, <1>2, <1>3 DEF ToSet

(* Below the bottom of history there is the root only.                     *)
LEMMA GenerationsAtRoot ==
    ASSUME store \in Stores, NEW v \in Views, NEW s \in Stacks(v), Parents(Head(s)) = {Root},
           NEW n \in Nat, Len(s) <= n
    PROVE  Generations(Last(s), n) \cap Commit = ToSet(s)
<1>1. /\ Len(s) \in Nat \ {0} /\ DOMAIN s = 1 .. Len(s) /\ Head(s) = s[1]
      /\ \A k \in 2 .. Len(s) : Parents(s[k]) = {s[k - 1]}
      /\ \A k \in 1 .. Len(s) : s[k] \in Commit
  BY StackBasics DEF Chain
<1>2. Last(s) \in Node
  <2>1. Last(s) = s[Len(s)] /\ Len(s) \in 1 .. Len(s)
    BY <1>1, StackBasics
  <2> QED BY <1>1, <2>1, Nodes
<1>3. \A c \in ToSet(s) \cup {Root} : Parents(c) \subseteq ToSet(s) \cup {Root}
  <2>1. Parents(Root) = {}
    BY DEF Parents
  <2>2. ASSUME NEW k \in 1 .. Len(s) PROVE Parents(s[k]) \subseteq ToSet(s) \cup {Root}
    <3>1. CASE k = 1
      BY <1>1, <3>1
    <3>2. CASE k # 1
      <4>1. k \in 2 .. Len(s) /\ k - 1 \in 1 .. Len(s)
        BY <1>1, <3>2
      <4>2. s[k - 1] \in ToSet(s)
        BY <1>1, <4>1 DEF ToSet
      <4> QED BY <1>1, <4>1, <4>2
    <3> QED BY <3>1, <3>2
  <2> QED BY <1>1, <2>1, <2>2 DEF ToSet
<1> DEFINE S == {k \in Nat : Generations(Last(s), Len(s) + k) \subseteq ToSet(s) \cup {Root}}
<1>4. 0 \in S
  <2>1. Len(s) + 0 = Len(s)
    BY <1>1
  <2> QED BY <2>1, GenerationsOfAll
<1>5. ASSUME NEW k \in S PROVE k + 1 \in S
  <2>1. k \in Nat /\ Generations(Last(s), Len(s) + k) \subseteq ToSet(s) \cup {Root}
    OBVIOUS
  <2>2. Len(s) + k \in Nat \ {0} /\ Len(s) + (k + 1) = (Len(s) + k) + 1
    BY <1>1, <2>1
  <2>3. Generations(Last(s), (Len(s) + k) + 1) =
          Generations(Last(s), Len(s) + k)
              \cup UNION {Parents(d) : d \in Generations(Last(s), Len(s) + k)}
    BY <1>2, <2>2, GenerationsStep
  <2>4. Generations(Last(s), (Len(s) + k) + 1) \subseteq ToSet(s) \cup {Root}
    BY <1>3, <2>1, <2>3
  <2> QED BY <2>1, <2>2, <2>4
<1>6. S = Nat
  <2>1. S \subseteq Nat
    OBVIOUS
  <2> HIDE DEF S
  <2> QED BY <1>4, <1>5, <2>1, SetInduction
<1>7. n - Len(s) \in S /\ Len(s) + (n - Len(s)) = n
  <2> HIDE DEF S
  <2> QED BY <1>1, <1>6
<1>8. Generations(Last(s), n) \subseteq ToSet(s) \cup {Root}
  BY <1>7
<1>9. ToSet(s) \subseteq Generations(Last(s), n)
  <2>1. Generations(Last(s), Len(s)) \subseteq Generations(Last(s), n)
    BY <1>1, <1>2, GenerationsGrow
  <2> QED BY <2>1, GenerationsOfAll
<1>10. ToSet(s) \subseteq Commit
  BY <1>1 DEF ToSet
<1> QED BY <1>8, <1>9, <1>10, Nodes

(* A stack whose parent is not among its own commits, and is read, is at   *)
(* the bottom of history.                                                  *)
LEMMA BottomIsRoot ==
    ASSUME store \in Stores, NEW v \in Views, NEW s \in Stacks(v),
           NEW n \in Nat, Len(s) < n, Generations(Last(s), n) \cap Commit = ToSet(s)
    PROVE  Parents(Head(s)) = {Root}
<1>1. /\ Len(s) \in Nat \ {0} /\ DOMAIN s = 1 .. Len(s) /\ Head(s) = s[1] /\ Last(s) = s[Len(s)]
      /\ \A k \in 1 .. Len(s) : s[k] \in Node /\ Cardinality(Parents(s[k])) = 1
      /\ Ascending(s)
  BY StackBasics
<1>2. 1 \in 1 .. Len(s) /\ Len(s) \in 1 .. Len(s) /\ Len(s) + 1 \in Nat \ {0} /\ Len(s) + 1 <= n
  BY <1>1
<1>3. s[1] \in Node /\ Last(s) \in Node
  BY <1>1, <1>2
<1>4. PICK p \in Node : p < s[1] /\ Parents(s[1]) = {p}
  BY <1>1, <1>2, OneParent
<1>5. p \in Generations(Last(s), n)
  <2>1. s[1] \in Generations(Last(s), Len(s))
    BY <1>1, <1>2, GenerationsOfAll DEF ToSet
  <2>2. p \in Generations(Last(s), Len(s) + 1)
    BY <1>1, <1>3, <1>4, <2>1, GenerationsStep
  <2>3. Generations(Last(s), Len(s) + 1) \subseteq Generations(Last(s), n)
    BY <1>2, <1>3, GenerationsGrow
  <2> QED BY <2>2, <2>3
<1>6. ASSUME p # Root PROVE FALSE
  <2>1. p \in ToSet(s)
    BY <1>5, <1>6, Nodes
  <2>2. PICK k \in 1 .. Len(s) : p = s[k]
    BY <1>1, <2>1 DEF ToSet
  <2>3. k = 1 \/ 1 < k
    BY <1>1
  <2>4. k = 1 \/ s[1] < s[k]
    BY <1>1, <1>2, <2>3 DEF Ascending
  <2>5. p \in Nat /\ s[1] \in Nat
    BY <1>3, Nodes
  <2> QED BY <1>4, <2>2, <2>4, <2>5
<1> QED BY <1>1, <1>4, <1>6

EndingAt(h) == {s \in Stacks(session) : Last(s) = h}

LEMMA ExpectedLast ==
    ASSUME command.name = "selectLast"
    PROVE  Expected(session) = TheOne({s \in EndingAt(HeadOf(session)) :
                                          \/ Len(s) = command.count
                                          \/ Len(s) < command.count /\ Parents(Head(s)) = {Root}})
  BY DEF Expected, EndingAt

LEMMA LastRight ==
    ASSUME store \in Stores, session \in Views, command.name = "selectLast",
           command.head \in {Root} \cup session.visible, command.count \in Nat \ {0},
           NEW records \in Log(Generations(HeadOf(ReadAt), command.count))
    PROVE  LastSelection(ReadAt, command.head, command.count, records) = Expected(session)
<1> DEFINE h == HeadOf(session)
           n == command.count
           G == Generations(h, n)
           t == Only(records, Commit)
           stacks == {s \in EndingAt(h) :
                         \/ Len(s) = n
                         \/ Len(s) < n /\ Parents(Head(s)) = {Root}}
<1>1. h \in session.visible /\ h \in Node /\ h \in VisibleNode(session) /\ HeadOf(ReadAt) = h
  BY HeadIsVisible
<1>2. Expected(session) = TheOne(stacks)
  BY ExpectedLast
<1>3. G \in SUBSET VisibleNode(session) /\ G \in SUBSET Node
  <2> HIDE DEF h, n
  <2> QED BY <1>1, GenerationsVisible, VisibleNodes DEF n
<1>4. records \in Log(G)
  BY <1>1
<1>5. /\ records \in Seq(VisibleNode(session)) /\ ToSet(records) = G
      /\ \A a, b \in DOMAIN records : records[a] \in Ancestors(records[b]) => a <= b
  <2> HIDE DEF G
  <2> QED BY <1>3, <1>4, RecordsVisible, LogParts
<1>6. /\ t \in Seq(VisibleNode(session)) /\ ToSet(t) = G \cap Commit
      /\ \A i, j \in DOMAIN t : i < j => \E a, b \in DOMAIN records : a < b /\ t[i] = records[a]
             /\ t[j] = records[b]
  <2> HIDE DEF G
  <2> QED BY <1>5, OnlyOrder
<1>7. DOMAIN t = 1 .. Len(t) /\ Len(t) \in Nat /\ t \in Seq(Nat)
  <2> HIDE DEF t
  <2>1. VisibleNode(session) \subseteq Nat
    BY VisibleNodes, Nodes
  <2> QED BY <1>6, <2>1, LenProperties, SeqMonotonic
<1> HIDE DEF t, G, h
<1>8. \A i, j \in DOMAIN t : i < j => t[j] \notin Ancestors(t[i])
  <2> SUFFICES ASSUME NEW i \in DOMAIN t, NEW j \in DOMAIN t, i < j
      PROVE t[j] \notin Ancestors(t[i])
    OBVIOUS
  <2>1. PICK a \in DOMAIN records, b \in DOMAIN records : a < b /\ t[i] = records[a]
            /\ t[j] = records[b]
    BY <1>6
  <2>2. DOMAIN records = 1 .. Len(records) /\ Len(records) \in Nat
    BY <1>5, LenProperties
  <2>3. a \in Int /\ b \in Int
    BY <2>2
  <2> QED BY <1>5, <2>1, <2>3
<1>9. ASSUME NEW s \in stacks PROVE s = t
  <2>1. s \in Stacks(session) /\ Last(s) = h
            /\ (Len(s) = n \/ (Len(s) < n /\ Parents(Head(s)) = {Root}))
    BY DEF EndingAt
  <2>2. ToSet(s) = ToSet(t)
    <3>1. CASE Len(s) = n
      <4>1. G = ToSet(s)
        BY <2>1, <3>1, GenerationsOfAll DEF G
      <4>2. ToSet(s) \subseteq Commit
        BY <2>1, StackBasics DEF ToSet
      <4> QED BY <1>6, <4>1, <4>2
    <3>2. CASE Len(s) < n /\ Parents(Head(s)) = {Root}
      <4>1. Len(s) \in Nat /\ n \in Nat /\ Len(s) <= n
        BY <2>1, <3>2, StackBasics
      <4> QED BY <1>6, <2>1, <3>2, <4>1, GenerationsAtRoot DEF G
    <3> QED BY <2>1, <3>1, <3>2
  <2> HIDE DEF stacks
  <2> QED BY <1>7, <1>8, <2>1, <2>2, StackIsOrdered
<1>10. t \in stacks <=> t \in Stacks(session) /\ Len(t) <= n /\ Last(t) = h
  <2>1. ASSUME t \in Stacks(session), Len(t) < n, Last(t) = h PROVE Parents(Head(t)) = {Root}
    <3>1. Generations(Last(t), n) \cap Commit = ToSet(t)
      BY <1>6, <2>1 DEF G
    <3> QED BY <2>1, <3>1, BottomIsRoot
  <2>2. Len(t) <= n <=> Len(t) = n \/ Len(t) < n
    BY <1>7
  <2>3. t \in stacks <=> /\ t \in Stacks(session) /\ Last(t) = h
                         /\ \/ Len(t) = n
                            \/ Len(t) < n /\ Parents(Head(t)) = {Root}
    BY DEF EndingAt
  <2> HIDE DEF stacks, n
  <2> QED BY <2>1, <2>2, <2>3
<1>11. LastSelection(ReadAt, command.head, n, records) =
          IF t \in Stacks(session) /\ Len(t) <= n /\ Last(t) = h THEN Selected(t) ELSE Rejected
  <2>1. ReadAt = session /\ h = IF command.head = Root THEN session.current ELSE command.head
    BY DEF ReadAt, h, HeadOf
  <2>2. LastSelection(ReadAt, command.head, n, records) =
           IF /\ t # <<>>
              /\ \A i \in DOMAIN t : Cardinality(Parents(t[i])) = 1
              /\ Len(t) <= n
              /\ Last(t) = h
           THEN Selection(session, t) ELSE Rejected
    BY <2>1 DEF LastSelection, t
  <2>3. t \in Stacks(session) => t # <<>> /\ \A i \in DOMAIN t : Cardinality(Parents(t[i])) = 1
    BY StackBasics
  <2>4. Selection(session, t) = IF t \in Stacks(session) THEN Selected(t) ELSE Rejected
    BY <1>6, SelectionOf
  <2> HIDE DEF n
  <2> QED BY <2>2, <2>3, <2>4
<1>12. TheOne(stacks) = IF t \in stacks THEN Selected(t) ELSE Rejected
  <2> HIDE DEF stacks
  <2> QED BY <1>9, OnlyOne
<1> HIDE DEF stacks
<1> QED BY <1>2, <1>10, <1>11, <1>12

-----------------------------------------------------------------------------
(* listHistory.                                                            *)

Selectable(v) == {c \in Commit : /\ c \notin store.conflict
                                 /\ ~Divergent(v, c)
                                 /\ Cardinality(Parents(c)) = 1}

ParentOf(c) == CHOOSE p \in Parents(c) : TRUE

LEMMA ParentIs ==
    ASSUME store \in Stores, NEW c \in Node, Cardinality(Parents(c)) = 1
    PROVE  Parents(c) = {ParentOf(c)} /\ ParentOf(c) \in Node
<1>1. PICK p \in Node : Parents(c) = {p}
  BY OneParent
<1>2. ParentOf(c) = p
  BY <1>1 DEF ParentOf
<1> QED BY <1>1, <1>2

(* The step of the walk from what was walked so far.                       *)
Walked(v, found, t, k) ==
    IF Last(t) \in Selectable(v) /\ ParentOf(Last(t)) \in found /\ Len(t) = k
    THEN Append(t, ParentOf(Last(t))) ELSE t

PageOf(count, found, path) ==
    Page(Reverse(SubSeq(path, 1, IF Len(path) > count THEN count ELSE Len(path))),
         \/ Len(path) > count
         \/ path # <<>> /\ ~(ParentOf(Last(path)) \in found) /\ ~(Root \in found))

(* The walk down from the head, step by step.                              *)
IsWalk(walk, v, head, count, found) ==
    /\ walk[1] = <<head>>
    /\ \A k \in 1 .. count : walk[k + 1] = Walked(v, found, walk[k], k)

PageIsWalked(v, head, count, records) ==
    \E walk \in [1 .. count + 1 -> Seq(Node)] :
        /\ IsWalk(walk, v, head, count, ToSet(records))
        /\ HistoryPage(v, head, count, records) =
             PageOf(count, ToSet(records), Only(walk[count + 1], Selectable(v)))

LEMMA WalkUnfold ==
    ASSUME store \in Stores, NEW v, NEW head \in Node, NEW count \in Nat, NEW records
    PROVE  PageIsWalked(v, head, count, records)
<1> DEFINE D == Seq(Node)
           init == <<head>>
           n == count + 1
           R == ToSet(records)
           F == [x \in (1 .. n) \X D |-> Walked(v, R, x[2], x[1] - 1)]
           Value(f, k) == IF k = 1 THEN <<head>>
                          ELSE LET c == Last(f[k - 1]) IN
                               IF c \in Selectable(v) /\ ParentOf(c) \in R /\ Len(f[k - 1]) = k - 1
                               THEN Append(f[k - 1], ParentOf(c)) ELSE f[k - 1]
<1>1. n \in Nat /\ init \in D
  OBVIOUS
<1>2. ASSUME NEW t \in D, NEW k PROVE Walked(v, R, t, k) \in D
  <2>1. CASE Last(t) \in Selectable(v) /\ ParentOf(Last(t)) \in R /\ Len(t) = k
    <3>1. Last(t) \in Node /\ Cardinality(Parents(Last(t))) = 1
      BY <2>1, Nodes DEF Selectable
    <3>2. ParentOf(Last(t)) \in Node
      BY <3>1, ParentIs
    <3>3. Append(t, ParentOf(Last(t))) \in Seq(Node)
      BY <3>2, AppendProperties
    <3> QED BY <2>1, <3>3 DEF Walked
  <2>2. CASE ~(Last(t) \in Selectable(v) /\ ParentOf(Last(t)) \in R /\ Len(t) = k)
    BY <2>2 DEF Walked
  <2> QED BY <2>1, <2>2
<1>3. F \in [(1 .. n) \X D -> D]
  <2>1. ASSUME NEW x \in (1 .. n) \X D PROVE Walked(v, R, x[2], x[1] - 1) \in D
    <3>1. x[2] \in D
      BY <2>1
    <3> HIDE DEF D, R
    <3> QED BY <1>2, <3>1
  <2> HIDE DEF D, R
  <2> QED BY <2>1
<1>4. ASSUME NEW k \in 1 .. n, NEW t \in D PROVE F[<<k, t>>] = Walked(v, R, t, k - 1)
  <2>1. <<k, t>> \in (1 .. n) \X D /\ <<k, t>>[1] = k /\ <<k, t>>[2] = t
    OBVIOUS
  <2> HIDE DEF D, R
  <2> QED BY <2>1
<1> HIDE DEF F
<1>5. \E f \in [1 .. n -> D] : Recurses(f, n, init, F)
  <2> HIDE DEF D, init, n
  <2> QED BY <1>1, <1>3, Recursion
<1>6. PICK f \in [1 .. n -> D] : Recurses(f, n, init, F)
  BY <1>5
<1>7. ASSUME NEW k \in 1 .. n PROVE f[k] = Value(f, k)
  <2>1. f[k] = IF k = 1 THEN init ELSE F[<<k, f[k - 1]>>]
    <3> HIDE DEF init, n, D
    <3> QED BY <1>6 DEF Recurses
  <2>2. CASE k = 1
    BY <2>1, <2>2
  <2>3. CASE k # 1
    <3>1. k - 1 \in 1 .. n
      BY <2>3
    <3>2. f[k - 1] \in D
      <4> HIDE DEF n, D
      <4> QED BY <3>1
    <3>3. F[<<k, f[k - 1]>>] = Walked(v, R, f[k - 1], k - 1)
      <4> HIDE DEF n, D, R
      <4> QED BY <1>4, <3>2
    <3>4. f[k] = Walked(v, R, f[k - 1], k - 1)
      <4> HIDE DEF n, D, R, init
      <4> QED BY <2>1, <2>3, <3>3
    <3> HIDE DEF n, D, R, init
    <3> QED BY <2>3, <3>4 DEF Walked
  <2> QED BY <2>2, <2>3
<1> DEFINE walk == CHOOSE g : g = [k \in 1 .. n |-> Value(g, k)]
<1>8. walk = [k \in 1 .. n |-> Value(walk, k)]
  <2>1. f = [k \in 1 .. n |-> f[k]]
    <3> HIDE DEF n, D
    <3> QED OBVIOUS
  <2>2. f = [k \in 1 .. n |-> Value(f, k)]
    <3> HIDE DEF n, D, Value
    <3> QED BY <1>7, <2>1
  <2>3. \E g : g = [k \in 1 .. n |-> Value(g, k)]
    <3> HIDE DEF Value, n
    <3> QED BY <2>2
  <2> HIDE DEF Value, n
  <2> QED BY <2>3
<1>9. HistoryPage(v, head, count, records) =
          PageOf(count, ToSet(records), Only(walk[n], Selectable(v)))
  BY DEF HistoryPage, PageOf, Selectable, ParentOf
<1> HIDE DEF walk
<1>10. \A k \in 1 .. n : walk[k] = Value(walk, k)
  <2> HIDE DEF Value, n
  <2> QED BY <1>8
<1>11. walk[1] = <<head>>
  BY <1>1, <1>10
<1>12. ASSUME NEW k \in 1 .. count PROVE walk[k + 1] = Walked(v, R, walk[k], k)
  <2>1. k + 1 \in 1 .. n /\ (k + 1) - 1 = k /\ k + 1 # 1
    OBVIOUS
  <2>2. walk[k + 1] = Value(walk, k + 1)
    <3> HIDE DEF n, Value
    <3> QED BY <1>10, <2>1
  <2>3. Value(walk, k + 1) = Walked(v, R, walk[k], k)
    <3> HIDE DEF R
    <3> QED BY <2>1 DEF Walked
  <2> HIDE DEF Value, R
  <2> QED BY <2>2, <2>3
<1> DEFINE T == {k \in Nat : k + 1 \in 1 .. n => walk[k + 1] \in D}
<1>13. 0 \in T
  <2>1. walk[0 + 1] = init
    BY <1>11
  <2> HIDE DEF n, D, init
  <2> QED BY <1>1, <2>1
<1>14. ASSUME NEW k \in T PROVE k + 1 \in T
  <2>1. ASSUME (k + 1) + 1 \in 1 .. n PROVE walk[(k + 1) + 1] \in D
    <3>1. k + 1 \in 1 .. count /\ k + 1 \in 1 .. n
      BY <2>1
    <3>2. walk[k + 1] \in D
      BY <3>1
    <3>3. walk[(k + 1) + 1] = Walked(v, R, walk[k + 1], k + 1)
      <4> HIDE DEF n, D, R
      <4> QED BY <1>12, <3>1
    <3> HIDE DEF n, D, R
    <3> QED BY <1>2, <3>2, <3>3
  <2> HIDE DEF n, D
  <2> QED BY <2>1
<1>15. T = Nat
  <2>1. T \subseteq Nat
    OBVIOUS
  <2> HIDE DEF T
  <2> QED BY <1>13, <1>14, <2>1, SetInduction
<1>16. \A k \in 1 .. n : walk[k] \in D
  <2> TAKE k \in 1 .. n
  <2>1. k - 1 \in Nat /\ (k - 1) + 1 = k
    OBVIOUS
  <2>2. k - 1 \in T
    <3> HIDE DEF T
    <3> QED BY <1>15, <2>1
  <2> HIDE DEF n, D
  <2> QED BY <2>1, <2>2
<1>17. walk \in [1 .. n -> D]
  <2>1. DOMAIN walk = 1 .. n /\ walk = [k \in 1 .. n |-> walk[k]]
    <3>1. \A w : w = [k \in 1 .. n |-> Value(walk, k)] => DOMAIN w = 1 .. n
              /\ w = [k \in 1 .. n |-> w[k]]
      <4> HIDE DEF n, Value
      <4> QED OBVIOUS
    <3> HIDE DEF n, Value
    <3> QED BY <1>8, <3>1
  <2> HIDE DEF n, D
  <2> QED BY <1>16, <2>1
<1>18. IsWalk(walk, v, head, count, R)
  <2>1. n - 1 = count
    OBVIOUS
  <2> HIDE DEF D, R
  <2> QED BY <1>11, <1>12, <2>1 DEF IsWalk
<1> HIDE DEF D, R
<1> QED BY <1>9, <1>17, <1>18 DEF D, R, PageIsWalked

(* What was walked goes down from the head, each commit the only parent of *)
(* the one before it, and ends early only at one that cannot be selected.  *)
Trail(v, head, w) ==
    /\ w \in Seq(VisibleNode(v)) /\ Len(w) # 0 /\ w[1] = head
    /\ \A i \in 1 .. Len(w) - 1 : w[i] \in Selectable(v) /\ Parents(w[i]) = {w[i + 1]}
    /\ \A i \in 1 .. Len(w) : w[i] \in Generations(head, i)

LEMMA TrailGrows ==
    ASSUME store \in Stores, NEW v \in Views, NEW head \in v.visible, NEW count \in Nat,
           NEW w, NEW k \in 1 .. count, Trail(v, head, w), Len(w) <= k,
           Len(w) < k => Last(w) \notin Selectable(v)
    PROVE  LET u == Walked(v, Generations(head, count + 1), w, k)
           IN  Trail(v, head, u) /\ Len(u) <= k + 1
               /\ (Len(u) < k + 1 => Last(u) \notin Selectable(v))
<1> DEFINE R == Generations(head, count + 1)
           u == Walked(v, R, w, k)
<1>1. /\ w \in Seq(VisibleNode(v)) /\ Len(w) \in Nat /\ Len(w) # 0 /\ Last(w) = w[Len(w)]
      /\ w[1] = head
      /\ head \in Node
  BY VisibleNodes, Nodes, LenProperties DEF Trail, Last
<1>2. Len(w) \in 1 .. Len(w)
  BY <1>1
<1>3. CASE Last(w) \in Selectable(v)
  <2> DEFINE c == Last(w)
             p == ParentOf(c)
  <2>1. Len(w) = k
    BY <1>1, <1>3
  <2>2. c \in VisibleNode(v) /\ c \in Node /\ Cardinality(Parents(c)) = 1
    <3>1. w[Len(w)] \in VisibleNode(v)
      BY <1>1, <1>2, ElementOfSeq
    <3> QED BY <1>1, <1>3, <3>1, VisibleNodes DEF Selectable
  <2>3. Parents(c) = {p} /\ p \in VisibleNode(v)
    <3>1. Parents(c) = {p}
      <4> HIDE DEF c
      <4> QED BY <2>2, ParentIs
    <3> QED BY <2>2, <3>1, VisibleNodes
  <2>4. p \in Generations(head, k + 1)
    <3>1. c \in Generations(head, k)
      BY <1>1, <1>2, <2>1 DEF Trail
    <3>2. k \in Nat \ {0}
      OBVIOUS
    <3>3. Generations(head, k + 1) = Generations(head, k)
              \cup UNION {Parents(d) : d \in Generations(head, k)}
      BY <1>1, <3>2, GenerationsStep
    <3> HIDE DEF c, p
    <3> QED BY <2>3, <3>1, <3>3
  <2>5. p \in R
    <3>1. k + 1 \in Nat \ {0} /\ count + 1 \in Nat /\ k + 1 <= count + 1
      OBVIOUS
    <3>2. Generations(head, k + 1) \subseteq R
      BY <1>1, <3>1, GenerationsGrow
    <3> QED BY <2>4, <3>2
  <2>6. u = Append(w, p)
    BY <1>3, <2>1, <2>5 DEF Walked
  <2> HIDE DEF p, c, u, R
  <2>7. /\ u \in Seq(VisibleNode(v)) /\ Len(u) = Len(w) + 1 /\ u[Len(w) + 1] = p
        /\ \A i \in 1 .. Len(w) : u[i] = w[i]
    BY <1>1, <2>3, <2>6, AppendProperties
  <2>8. ASSUME NEW i \in 1 .. Len(u) - 1 PROVE u[i] \in Selectable(v) /\ Parents(u[i]) = {u[i + 1]}
    <3>1. i \in 1 .. Len(w) /\ u[i] = w[i]
      BY <1>1, <2>7
    <3>2. CASE i = Len(w)
      <4>1. u[i] = c /\ u[i + 1] = p
        BY <1>1, <2>7, <3>1, <3>2 DEF c
      <4> QED BY <1>3, <2>3, <4>1 DEF c
    <3>3. CASE i # Len(w)
      <4>1. i \in 1 .. Len(w) - 1 /\ i + 1 \in 1 .. Len(w)
        BY <1>1, <3>1, <3>3
      <4>2. u[i + 1] = w[i + 1]
        BY <2>7, <4>1
      <4>3. w[i] \in Selectable(v) /\ Parents(w[i]) = {w[i + 1]}
        BY <4>1 DEF Trail
      <4> QED BY <3>1, <4>2, <4>3
    <3> QED BY <3>2, <3>3
  <2>9. ASSUME NEW i \in 1 .. Len(u) PROVE u[i] \in Generations(head, i)
    <3>1. CASE i = Len(w) + 1
      BY <2>1, <2>4, <2>7, <3>1
    <3>2. CASE i # Len(w) + 1
      <4>1. i \in 1 .. Len(w)
        BY <1>1, <2>7, <3>2
      <4> QED BY <2>7, <4>1 DEF Trail
    <3> QED BY <3>1, <3>2
  <2>10. u[1] = head
    <3>1. 1 \in 1 .. Len(w)
      BY <1>1
    <3> QED BY <1>1, <2>7, <3>1
  <2>11. Trail(v, head, u)
    <3>1. Len(u) # 0 /\ u \in Seq(VisibleNode(v))
      BY <1>1, <2>7
    <3> QED BY <2>8, <2>9, <2>10, <3>1 DEF Trail
  <2>12. Len(u) = k + 1
    BY <2>1, <2>7
  <2> QED BY <2>11, <2>12 DEF u, R
<1>4. CASE Last(w) \notin Selectable(v)
  <2>1. u = w
    BY <1>4 DEF Walked
  <2>2. Len(w) <= k + 1
    BY <1>1
  <2> QED BY <1>4, <2>1, <2>2
<1> QED BY <1>3, <1>4

LEMMA WalkIsTrail ==
    ASSUME store \in Stores, NEW v \in Views, NEW head \in v.visible, NEW count \in Nat,
           NEW walk, walk[1] = <<head>>,
           \A k \in 1 .. count : walk[k + 1] = Walked(v, Generations(head, count + 1), walk[k], k)
    PROVE  /\ Trail(v, head, walk[count + 1])
           /\ Len(walk[count + 1]) <= count + 1
           /\ Len(walk[count + 1]) < count + 1 => Last(walk[count + 1]) \notin Selectable(v)
<1> DEFINE Good(k) == /\ Trail(v, head, walk[k]) /\ Len(walk[k]) <= k
                      /\ Len(walk[k]) < k => Last(walk[k]) \notin Selectable(v)
           T == {k \in Nat : k <= count => Good(k + 1)}
<1>1. 0 \in T
  <2>1. head \in Node /\ head \in VisibleNode(v)
    BY VisibleNodes DEF VisibleNode
  <2>2. <<head>> \in Seq(VisibleNode(v)) /\ Len(<<head>>) = 1 /\ <<head>>[1] = head
    BY <2>1
  <2>3. Generations(head, 1) = {head}
    BY <2>1, GenerationsStep
  <2>4. Trail(v, head, <<head>>)
    <3>1. \A i \in 1 .. 1 : i = 1
      OBVIOUS
    <3> QED BY <2>2, <2>3, <3>1 DEF Trail
  <2>5. Good(1)
    BY <2>2, <2>4
  <2>6. 0 + 1 = 1
    OBVIOUS
  <2> HIDE DEF Good
  <2> QED BY <2>5, <2>6
<1>2. ASSUME NEW k \in T PROVE k + 1 \in T
  <2>1. ASSUME k + 1 <= count PROVE Good((k + 1) + 1)
    <3>1. k \in Nat /\ k <= count /\ k + 1 \in 1 .. count
      BY <2>1
    <3>2. Good(k + 1)
      <4> HIDE DEF Good
      <4> QED BY <3>1
    <3>3. walk[(k + 1) + 1] = Walked(v, Generations(head, count + 1), walk[k + 1], k + 1)
      BY <3>1
    <3> DEFINE u == Walked(v, Generations(head, count + 1), walk[k + 1], k + 1)
    <3>4. Trail(v, head, u) /\ Len(u) <= (k + 1) + 1
              /\ (Len(u) < (k + 1) + 1 => Last(u) \notin Selectable(v))
      BY <3>1, <3>2, TrailGrows
    <3> HIDE DEF u
    <3>5. walk[(k + 1) + 1] = u
      BY <3>3 DEF u
    <3> QED BY <3>4, <3>5
  <2> HIDE DEF Good
  <2> QED BY <2>1
<1>3. T = Nat
  <2>1. T \subseteq Nat
    OBVIOUS
  <2> HIDE DEF T
  <2> QED BY <1>1, <1>2, <2>1, SetInduction
<1>4. count \in T
  <2> HIDE DEF T
  <2> QED BY <1>3
<1>5. Good(count + 1)
  <2> HIDE DEF Good
  <2> QED BY <1>4
<1> QED BY <1>5

(* The part of the trail that can be selected.                             *)
Path(v, head, count, path) ==
    /\ path \in Seq(v.visible) /\ Len(path) <= count + 1
    /\ \A i \in 1 .. Len(path) : path[i] \in Selectable(v) /\ path[i] \in Generations(head, i)
    /\ \A i \in 1 .. Len(path) - 1 : Parents(path[i]) = {path[i + 1]}
    /\ IF Len(path) = 0 THEN head \notin Selectable(v) ELSE path[1] = head
    /\ Len(path) \in 1 .. count => \E q : q \notin Selectable(v) /\ Parents(path[Len(path)]) = {q}

LEMMA TrailToPath ==
    ASSUME store \in Stores, NEW v \in Views, NEW head \in v.visible, NEW count \in Nat,
           NEW w, Trail(v, head, w), Len(w) <= count + 1,
           Len(w) < count + 1 => Last(w) \notin Selectable(v)
    PROVE  Path(v, head, count, Only(w, Selectable(v)))
<1> DEFINE m == IF Last(w) \in Selectable(v) THEN Len(w) ELSE Len(w) - 1
           path == Only(w, Selectable(v))
<1>1. /\ w \in Seq(VisibleNode(v)) /\ Len(w) \in Nat /\ Len(w) # 0 /\ Last(w) = w[Len(w)]
      /\ w[1] = head
      /\ \A i \in 1 .. Len(w) : w[i] \in VisibleNode(v)
      /\ \A i \in 1 .. Len(w) - 1 : w[i] \in Selectable(v) /\ Parents(w[i]) = {w[i + 1]}
      /\ \A i \in 1 .. Len(w) : w[i] \in Generations(head, i)
  BY LenProperties, ElementOfSeq DEF Trail, Last
<1>2. m \in 0 .. Len(w) /\ (m = Len(w) \/ m = Len(w) - 1)
  BY <1>1
<1>3. \A i \in 1 .. m : w[i] \in Selectable(v)
  <2> TAKE i \in 1 .. m
  <2>1. i \in 1 .. Len(w) - 1 \/ (i = Len(w) /\ Last(w) \in Selectable(v))
    BY <1>1
  <2> QED BY <1>1, <2>1
<1>4. \A i \in m + 1 .. Len(w) : w[i] \notin Selectable(v)
  <2> TAKE i \in m + 1 .. Len(w)
  <2>1. i = Len(w) /\ Last(w) \notin Selectable(v)
    BY <1>1
  <2> QED BY <1>1, <2>1
<1>5. /\ path \in Seq(VisibleNode(v)) /\ Len(path) = m
      /\ \A i \in 1 .. m : path[i] = w[i]
  <2> HIDE DEF m
  <2> QED BY <1>1, <1>2, <1>3, <1>4, OnlyPrefix
<1>6. \A i \in 1 .. m : i \in 1 .. Len(w) /\ (i # m => i + 1 \in 1 .. m)
  BY <1>1, <1>2
<1>7. m \in 1 .. count /\ m # count + 1 => Last(w) \notin Selectable(v)
  BY <1>1
<1>8. Last(w) \notin Selectable(v) => m = Len(w) - 1
  OBVIOUS
<1>9. m = 0 => Last(w) \notin Selectable(v) /\ Last(w) = head
  BY <1>1
<1>10. m \in Nat /\ m <= count + 1
  BY <1>1, <1>2
<1> HIDE DEF m, path
<1>11. \A i \in 1 .. m : path[i] \in v.visible /\ path[i] \in Selectable(v)
           /\ path[i] \in Generations(head, i)
  <2> TAKE i \in 1 .. m
  <2>1. path[i] = w[i] /\ w[i] \in Selectable(v) /\ w[i] \in VisibleNode(v)
            /\ w[i] \in Generations(head, i)
    BY <1>1, <1>3, <1>5, <1>6
  <2> QED BY <2>1, Nodes DEF Selectable, VisibleNode
<1>12. path \in Seq(v.visible)
  <2>1. path \in [1 .. m -> VisibleNode(v)]
    BY <1>5, LenProperties
  <2>2. path \in [1 .. m -> v.visible]
    BY <1>11, <2>1
  <2> QED BY <1>10, <2>2, FunctionIsSeq
<1>13. \A i \in 1 .. m - 1 : Parents(path[i]) = {path[i + 1]}
  <2> TAKE i \in 1 .. m - 1
  <2>1. i \in 1 .. m /\ i + 1 \in 1 .. m /\ i \in 1 .. Len(w) - 1
    BY <1>2, <1>10, <1>1
  <2>2. path[i] = w[i] /\ path[i + 1] = w[i + 1]
    BY <1>5, <2>1
  <2> QED BY <1>1, <2>1, <2>2
<1>14. IF m = 0 THEN head \notin Selectable(v) ELSE path[1] = head
  <2>1. m # 0 => 1 \in 1 .. m
    BY <1>10
  <2> QED BY <1>1, <1>5, <1>9, <2>1
<1>15. ASSUME m \in 1 .. count PROVE \E q : q \notin Selectable(v) /\ Parents(path[m]) = {q}
  <2>1. Last(w) \notin Selectable(v) /\ m = Len(w) - 1
    BY <1>7, <1>8, <1>15
  <2>2. m \in 1 .. Len(w) - 1 /\ m \in 1 .. m /\ m + 1 = Len(w)
    BY <1>1, <1>15, <2>1
  <2>3. Parents(w[m]) = {w[m + 1]} /\ path[m] = w[m]
    BY <1>1, <1>5, <2>2
  <2>4. w[m + 1] = Last(w)
    BY <1>1, <2>2
  <2> QED BY <2>1, <2>3, <2>4
<1>16. Path(v, head, count, path)
  BY <1>5, <1>10, <1>11, <1>12, <1>13, <1>14, <1>15 DEF Path
<1> QED BY <1>16 DEF path

LEMMA SelectableInStack ==
    ASSUME store \in Stores, NEW v \in Views, NEW c \in v.visible
    PROVE  c \in Selectable(v) <=> /\ Versions(v, ChangeOf(c)) = {c}
                                   /\ c \notin store.conflict
                                   /\ Cardinality(Parents(c)) = 1
  BY UniqueVersion, VisibleNodes DEF Selectable

(* The top n of the path, oldest first, are a stack; and a stack that ends *)
(* at the head is that of its length.                                      *)
LEMMA PathStacks ==
    ASSUME store \in Stores, NEW v \in Views, NEW head \in v.visible, NEW count \in Nat,
           NEW path, Path(v, head, count, path), NEW n \in 1 .. Len(path)
    PROVE  LET s == Reverse(SubSeq(path, 1, n))
           IN  /\ s \in Stacks(v) /\ Len(s) = n /\ Last(s) = head
               /\ \A i \in 1 .. n : s[i] = path[n - i + 1]
<1> DEFINE t == SubSeq(path, 1, n)
           s == Reverse(t)
<1>1. /\ path \in Seq(v.visible) /\ Len(path) \in Nat
      /\ \A i \in 1 .. Len(path) : path[i] \in v.visible /\ path[i] \in Selectable(v)
      /\ \A i \in 1 .. Len(path) - 1 : Parents(path[i]) = {path[i + 1]}
      /\ path[1] = head
  <2>1. path \in Seq(v.visible) /\ Len(path) \in Nat
    BY LenProperties DEF Path
  <2>2. Len(path) # 0
    BY <2>1
  <2>3. \A i \in 1 .. Len(path) : path[i] \in v.visible
    BY <2>1, ElementOfSeq
  <2> QED BY <2>1, <2>2, <2>3 DEF Path
<1>2. n \in Nat \ {0} /\ n <= Len(path)
  BY <1>1
<1>3. Len(t) = n /\ \A i \in 1 .. n : t[i] = path[i]
  <2>1. \A i \in 1 .. n : path[i] \in v.visible
    BY <1>1, <1>2
  <2>2. Len(t) = IF 1 <= n THEN n - 1 + 1 ELSE 0
    BY <1>2, <2>1, SubSeqProperties
  <2>3. \A i \in 1 .. n - 1 + 1 : t[i] = path[1 + i - 1]
    BY <1>2, <2>1, SubSeqProperties
  <2> HIDE DEF t
  <2> QED BY <1>2, <2>2, <2>3
<1> HIDE DEF t
<1>4. s = [i \in 1 .. n |-> t[(n - i) + 1]]
  BY <1>3 DEF Reverse
<1>5. \A i \in 1 .. n : n - i + 1 \in 1 .. n /\ n - i + 1 \in 1 .. Len(path)
          /\ (n - i) + 1 = n - i + 1
  BY <1>1, <1>2
<1>6. \A i \in 1 .. n : s[i] = path[n - i + 1]
  <2> HIDE DEF s
  <2> QED BY <1>3, <1>4, <1>5
<1>7. s \in Seq(v.visible) /\ Len(s) = n /\ DOMAIN s = 1 .. n
  <2>1. s \in [1 .. n -> v.visible]
    <3>1. \A i \in 1 .. n : t[(n - i) + 1] \in v.visible
      BY <1>1, <1>3, <1>5
    <3> HIDE DEF s
    <3> QED BY <1>4, <3>1
  <2> HIDE DEF s
  <2> QED BY <1>2, <2>1, FunctionIsSeq
<1> HIDE DEF s
<1>8. ASSUME NEW i \in 1 .. n
      PROVE  /\ Versions(v, ChangeOf(s[i])) = {s[i]}
             /\ s[i] \notin store.conflict
             /\ IF i = 1 THEN Cardinality(Parents(s[i])) = 1 ELSE Parents(s[i]) = {s[i - 1]}
  <2>1. s[i] \in v.visible /\ s[i] \in Selectable(v)
    BY <1>1, <1>5, <1>6
  <2>2. i # 1 => Parents(s[i]) = {s[i - 1]}
    <3>1. i # 1 => /\ i - 1 \in 1 .. n /\ n - i + 1 \in 1 .. Len(path) - 1
                   /\ n - (i - 1) + 1 = (n - i + 1) + 1
      BY <1>1, <1>2
    <3> QED BY <1>1, <1>6, <3>1
  <2> QED BY <2>1, <2>2, SelectableInStack
<1>9. s \in Stacks(v)
  <2>1. s # <<>>
    BY <1>2, <1>7, EmptySeq
  <2>2. IsStack(v, s)
    BY <1>7, <1>8 DEF IsStack
  <2> QED BY <1>7, <2>1, <2>2, StackParts
<1>10. Last(s) = head
  <2>1. n \in 1 .. n /\ n - n + 1 = 1
    BY <1>2
  <2>2. s[n] = path[1]
    BY <1>6, <2>1
  <2> QED BY <1>1, <1>7, <2>2 DEF Last
<1> QED BY <1>6, <1>7, <1>9, <1>10 DEF s, t

LEMMA StacksFollowPath ==
    ASSUME store \in Stores, NEW v \in Views, NEW head \in v.visible, NEW count \in Nat,
           NEW path, Path(v, head, count, path),
           NEW s \in Stacks(v), Last(s) = head, NEW j \in 1 .. Len(s), j <= count + 1
    PROVE  j <= Len(path) /\ s[Len(s) - j + 1] = path[j]
<1>1. /\ Len(path) \in Nat /\ Len(path) <= count + 1
      /\ \A i \in 1 .. Len(path) - 1 : Parents(path[i]) = {path[i + 1]}
      /\ IF Len(path) = 0 THEN head \notin Selectable(v) ELSE path[1] = head
      /\ Len(path) \in 1 .. count => \E q : q \notin Selectable(v) /\ Parents(path[Len(path)]) = {q}
  BY LenProperties DEF Path
<1>2. /\ Len(s) \in Nat \ {0} /\ Last(s) = s[Len(s)]
      /\ \A k \in 2 .. Len(s) : Parents(s[k]) = {s[k - 1]}
  BY StackBasics DEF Chain
<1>3. \A i \in 1 .. Len(s) : s[i] \in Selectable(v)
  BY StackBasics, SelectableInStack
<1> DEFINE Good(i) == i <= Len(path) /\ s[Len(s) - i + 1] = path[i]
           T == {i \in Nat : i + 1 <= Len(s) /\ i <= count => Good(i + 1)}
<1>4. 0 \in T
  <2>1. Len(s) \in 1 .. Len(s) /\ Len(s) - 1 + 1 = Len(s)
    BY <1>2
  <2>2. Len(path) # 0
    BY <1>1, <1>2, <1>3, <2>1
  <2>3. 1 <= Len(path) /\ path[1] = head
    BY <1>1, <2>2
  <2>4. Good(1)
    BY <1>2, <2>1, <2>3
  <2>5. 0 + 1 = 1
    OBVIOUS
  <2> HIDE DEF Good
  <2> QED BY <2>4, <2>5
<1>5. ASSUME NEW i \in T PROVE i + 1 \in T
  <2>1. ASSUME (i + 1) + 1 <= Len(s), i + 1 <= count PROVE Good((i + 1) + 1)
    <3>1. i \in Nat /\ i + 1 <= Len(s) /\ i <= count
      BY <1>2, <2>1
    <3>2. Good(i + 1)
      <4> HIDE DEF Good
      <4> QED BY <3>1
    <3> DEFINE k == Len(s) - (i + 1) + 1
    <3>3. k \in 2 .. Len(s) /\ k - 1 \in 1 .. Len(s) /\ k - 1 = Len(s) - ((i + 1) + 1) + 1
      BY <1>2, <2>1, <3>1
    <3>4. i + 1 <= Len(path) /\ s[k] = path[i + 1]
      BY <3>2
    <3> HIDE DEF k
    <3>5. Parents(path[i + 1]) = {s[k - 1]} /\ s[k - 1] \in Selectable(v)
      BY <1>2, <1>3, <3>3, <3>4
    <3>6. i + 1 # Len(path)
      <4>1. ASSUME i + 1 = Len(path) PROVE FALSE
        <5>1. Len(path) \in 1 .. count
          BY <1>1, <2>1, <3>1, <4>1
        <5>2. PICK q : q \notin Selectable(v) /\ Parents(path[Len(path)]) = {q}
          BY <1>1, <5>1
        <5> QED BY <3>5, <4>1, <5>2
      <4> QED BY <4>1
    <3>7. i + 1 \in 1 .. Len(path) - 1 /\ (i + 1) + 1 <= Len(path)
      BY <1>1, <3>1, <3>4, <3>6
    <3>8. Parents(path[i + 1]) = {path[(i + 1) + 1]}
      BY <1>1, <3>7
    <3>9. s[k - 1] = path[(i + 1) + 1]
      BY <3>5, <3>8
    <3> QED BY <3>3, <3>7, <3>9
  <2> HIDE DEF Good
  <2> QED BY <2>1
<1>6. T = Nat
  <2>1. T \subseteq Nat
    OBVIOUS
  <2> HIDE DEF T
  <2> QED BY <1>4, <1>5, <2>1, SetInduction
<1>7. j - 1 \in T /\ (j - 1) + 1 = j /\ j <= Len(s) /\ j - 1 <= count
  <2> HIDE DEF T
  <2> QED BY <1>2, <1>6
<1>8. Good(j)
  <2> HIDE DEF Good
  <2> QED BY <1>7
<1> QED BY <1>8

LEMMA ExpectedHistory ==
    ASSUME command.name = "listHistory"
    PROVE  Expected(session) =
              Page(Longest({s \in EndingAt(HeadOf(session)) : Len(s) <= command.count}),
                   \E s \in EndingAt(HeadOf(session)) : Len(s) > command.count)
  BY DEF Expected, EndingAt

LEMMA LongestIs ==
    ASSUME NEW stacks, NEW s \in stacks, \A t \in stacks : Len(t) \in Nat /\ Len(t) <= Len(s),
           \A t \in stacks : Len(t) = Len(s) => t = s
    PROVE  Longest(stacks) = s
<1>1. stacks # {} /\ Len(s) \in Nat
  OBVIOUS
<1> DEFINE m == CHOOSE t \in stacks : \A u \in stacks : Len(u) <= Len(t)
<1>2. m \in stacks /\ \A u \in stacks : Len(u) <= Len(m)
  <2>1. \E t \in stacks : \A u \in stacks : Len(u) <= Len(t)
    OBVIOUS
  <2> QED BY <2>1
<1>3. Longest(stacks) = m
  BY <1>1 DEF Longest
<1> HIDE DEF m
<1>4. Len(m) = Len(s)
  BY <1>2
<1> QED BY <1>2, <1>3, <1>4

LEMMA PathAnswers ==
    ASSUME store \in Stores, session \in Views, NEW head \in session.visible,
           NEW count \in Nat \ {0}, NEW path, Path(session, head, count, path)
    PROVE  LET n == IF Len(path) > count THEN count ELSE Len(path)
           IN  /\ Reverse(SubSeq(path, 1, n)) = Longest({s \in EndingAt(head) : Len(s) <= count})
               /\ Len(path) > count <=> \E s \in EndingAt(head) : Len(s) > count
<1> DEFINE n == IF Len(path) > count THEN count ELSE Len(path)
           short == {s \in EndingAt(head) : Len(s) <= count}
           top == Reverse(SubSeq(path, 1, n))
<1>1. Len(path) \in Nat /\ Len(path) <= count + 1
  BY LenProperties DEF Path
<1>2. n \in 0 .. Len(path) /\ n <= count /\ (n = 0 <=> Len(path) = 0)
  BY <1>1
<1>3. ASSUME NEW s \in EndingAt(head), NEW j \in 1 .. Len(s), j <= count + 1
      PROVE  j <= Len(path) /\ s[Len(s) - j + 1] = path[j]
  BY <1>3, StacksFollowPath DEF EndingAt
<1>4. \A s \in EndingAt(head) : Len(s) \in Nat \ {0} /\ s \in Seq(Nat)
  BY StackBasics DEF EndingAt
<1>5. \A s \in short : s \in EndingAt(head) /\ Len(s) \in Nat \ {0} /\ Len(s) <= count
          /\ Len(s) <= n
  <2> TAKE s \in short
  <2>1. s \in EndingAt(head) /\ Len(s) <= count
    OBVIOUS
  <2>2. Len(s) \in Nat \ {0} /\ Len(s) \in 1 .. Len(s) /\ Len(s) <= count + 1
    BY <1>4, <2>1
  <2>3. Len(s) <= Len(path)
    BY <1>3, <2>1, <2>2
  <2> HIDE DEF short
  <2> QED BY <1>1, <2>1, <2>2, <2>3
<1>10. top = Longest(short)
  <2>6. CASE n = 0
    <3>1. short = {}
      <4>1. ASSUME NEW s \in short PROVE FALSE
        <5>1. Len(s) \in Nat \ {0} /\ Len(s) <= n
          BY <1>5
        <5> HIDE DEF n, short
        <5> QED BY <2>6, <5>1
      <4> QED BY <4>1
    <3>2. Longest(short) = <<>>
      BY <3>1 DEF Longest
    <3>3. top = <<>>
      <4>1. SubSeq(path, 1, 0) = <<>>
        BY SubSeqEmpty
      <4>2. Reverse(<<>>) = <<>>
        <5>1. Reverse(<<>>) = [i \in 1 .. 0 |-> <<>>[(0 - i) + 1]]
          BY DEF Reverse
        <5>2. 1 .. 0 = {}
          OBVIOUS
        <5> QED BY <5>1, <5>2
      <4> HIDE DEF n
      <4> QED BY <2>6, <4>1, <4>2
    <3> HIDE DEF short, top
    <3> QED BY <3>2, <3>3
  <2>7. CASE n # 0
    <3>1. n \in 1 .. Len(path) /\ n \in Nat
      BY <1>1, <2>7
    <3>2. /\ top \in Stacks(session) /\ Len(top) = n /\ Last(top) = head
          /\ \A i \in 1 .. n : top[i] = path[n - i + 1]
      <4> HIDE DEF n
      <4> QED BY <3>1, PathStacks
    <3>3. top \in short
      <4> HIDE DEF n, top
      <4> QED BY <1>2, <3>2 DEF EndingAt
    <3>4. ASSUME NEW s \in short, Len(s) = Len(top) PROVE s = top
      <4>1. s \in EndingAt(head) /\ Len(s) = n /\ s \in Seq(Nat) /\ top \in Seq(Nat)
        <5>1. top \in Seq(Nat)
          <6> HIDE DEF top
          <6> QED BY <3>2, StackBasics
        <5> HIDE DEF n, top
        <5> QED BY <1>4, <3>2, <3>4, <5>1
      <4>2. ASSUME NEW i \in 1 .. n PROVE s[i] = top[i]
        <5>1. n - i + 1 \in 1 .. n /\ n - (n - i + 1) + 1 = i /\ n - i + 1 <= count + 1
          <6> HIDE DEF n
          <6> QED BY <1>2, <3>1
        <5> HIDE DEF n, top
        <5>2. s[Len(s) - (n - i + 1) + 1] = path[n - i + 1]
          BY <1>3, <4>1, <5>1
        <5>3. Len(s) - (n - i + 1) + 1 = i
          BY <4>1, <5>1
        <5> QED BY <3>2, <5>2, <5>3
      <4> HIDE DEF n, top
      <4> QED BY <3>2, <4>1, <4>2, SeqEqual
    <3>5. \A s \in short : Len(s) \in Nat /\ Len(s) <= Len(top)
      <4> HIDE DEF n, top, short
      <4> QED BY <1>5, <3>2
    <3> HIDE DEF short, top
    <3> QED BY <3>3, <3>4, <3>5, LongestIs
  <2> HIDE DEF n, short, top
  <2> QED BY <2>6, <2>7
<1>8. ASSUME Len(path) > count PROVE \E s \in EndingAt(head) : Len(s) > count
  <2>1. count + 1 \in 1 .. Len(path) /\ count \in Nat
    BY <1>1, <1>8
  <2> DEFINE s == Reverse(SubSeq(path, 1, count + 1))
  <2>2. s \in Stacks(session) /\ Len(s) = count + 1 /\ Last(s) = head
    BY <2>1, PathStacks
  <2> HIDE DEF s
  <2> QED BY <2>1, <2>2 DEF EndingAt
<1>9. ASSUME NEW s \in EndingAt(head), Len(s) > count PROVE Len(path) > count
  <2>1. Len(s) \in Nat \ {0}
    BY <1>4
  <2>2. count + 1 \in 1 .. Len(s)
    BY <1>9, <2>1
  <2>3. count + 1 <= Len(path)
    BY <1>3, <2>2
  <2> QED BY <1>1, <2>3
<1> QED BY <1>8, <1>9, <1>10

LEMMA HistoryRight ==
    ASSUME store \in Stores, session \in Views, command.name = "listHistory",
           command.head \in {Root} \cup session.visible, command.count \in Nat \ {0},
           NEW records \in Log(Generations(HeadOf(ReadAt), command.count + 1))
    PROVE  HistoryPage(ReadAt, HeadOf(ReadAt), command.count, records) = Expected(session)
<1> DEFINE head == HeadOf(session)
           count == command.count
           R == Generations(head, count + 1)
<1>1. /\ head \in session.visible /\ head \in Node /\ head \in VisibleNode(session)
      /\ HeadOf(ReadAt) = head /\ ReadAt = session
  BY HeadIsVisible DEF ReadAt
<1>2. ToSet(records) = R
  <2>1. count + 1 \in Nat \ {0}
    OBVIOUS
  <2>2. R \in SUBSET VisibleNode(session)
    <3> HIDE DEF head, count
    <3> QED BY <1>1, <2>1, GenerationsVisible
  <2>3. records \in Log(R)
    BY <1>1
  <2> HIDE DEF R
  <2> QED BY <2>2, <2>3, RecordsVisible
<1>3. count \in Nat /\ count \in Nat \ {0}
  OBVIOUS
<1>4. PICK walk \in [1 .. count + 1 -> Seq(Node)] :
              /\ IsWalk(walk, session, head, count, ToSet(records))
              /\ HistoryPage(session, head, count, records) =
                   PageOf(count, ToSet(records), Only(walk[count + 1], Selectable(session)))
  <2>1. PageIsWalked(session, head, count, records)
    <3> HIDE DEF head, count
    <3> QED BY <1>1, <1>3, WalkUnfold
  <2> HIDE DEF head, count
  <2> QED BY <2>1 DEF PageIsWalked
<1> DEFINE path == Only(walk[count + 1], Selectable(session))
           n == IF Len(path) > count THEN count ELSE Len(path)
<1>5. Path(session, head, count, path)
  <2>1. \A k \in 1 .. count :
            walk[k + 1] = Walked(session, Generations(head, count + 1), walk[k], k)
    BY <1>2, <1>4 DEF IsWalk
  <2>4. walk[1] = <<head>>
    BY <1>4 DEF IsWalk
  <2>2. /\ Trail(session, head, walk[count + 1])
        /\ Len(walk[count + 1]) <= count + 1
        /\ Len(walk[count + 1]) < count + 1 => Last(walk[count + 1]) \notin Selectable(session)
    <3> HIDE DEF head, count
    <3> QED BY <1>1, <1>3, <1>4, <2>1, <2>4, WalkIsTrail
  <2> HIDE DEF head, count
  <2> QED BY <1>1, <1>3, <2>2, TrailToPath
<1>6. HistoryPage(ReadAt, HeadOf(ReadAt), count, records) = PageOf(count, R, path)
  <2> HIDE DEF R, head, path, count
  <2> QED BY <1>1, <1>2, <1>4 DEF path
<1> HIDE DEF path
<1>7. /\ Reverse(SubSeq(path, 1, n)) = Longest({s \in EndingAt(head) : Len(s) <= count})
      /\ Len(path) > count <=> \E s \in EndingAt(head) : Len(s) > count
  <2> HIDE DEF head, count
  <2> QED BY <1>1, <1>3, <1>5, PathAnswers
<1>8. ASSUME path # <<>>, ParentOf(Last(path)) \notin R PROVE Len(path) > count
  <2>1. path \in Seq(session.visible) /\ Len(path) \in Nat /\ Len(path) <= count + 1
        /\ \A i \in 1 .. Len(path) : path[i] \in Selectable(session)
               /\ path[i] \in Generations(head, i)
    BY <1>5, LenProperties DEF Path
  <2>2. Len(path) \in Nat \ {0} /\ Len(path) \in 1 .. Len(path) /\ Last(path) = path[Len(path)]
    BY <1>8, <2>1, EmptySeq DEF Last
  <2>3. /\ Last(path) \in Node /\ Cardinality(Parents(Last(path))) = 1
        /\ Last(path) \in Generations(head, Len(path))
    BY <2>1, <2>2, Nodes DEF Selectable
  <2>4. ParentOf(Last(path)) \in Generations(head, Len(path) + 1)
    <3>1. Parents(Last(path)) = {ParentOf(Last(path))}
      BY <2>3, ParentIs
    <3>2. Generations(head, Len(path) + 1) = Generations(head, Len(path))
              \cup UNION {Parents(d) : d \in Generations(head, Len(path))}
      <4> HIDE DEF head
      <4> QED BY <1>1, <2>2, GenerationsStep
    <3> HIDE DEF head
    <3> QED BY <2>3, <3>1, <3>2
  <2>5. ASSUME Len(path) <= count PROVE FALSE
    <3>1. Len(path) + 1 \in Nat \ {0} /\ count + 1 \in Nat /\ Len(path) + 1 <= count + 1
      BY <1>3, <2>1, <2>5
    <3>2. Generations(head, Len(path) + 1) \subseteq Generations(head, count + 1)
      <4> HIDE DEF head, count
      <4> QED BY <1>1, <3>1, GenerationsGrow
    <3> QED BY <1>8, <2>4, <3>2
  <2> HIDE DEF count
  <2> QED BY <1>3, <2>1, <2>5
<1>9. (\/ Len(path) > count
       \/ path # <<>> /\ ~(ParentOf(Last(path)) \in R) /\ ~(Root \in R))
      = (\E s \in EndingAt(head) : Len(s) > count)
  <2> HIDE DEF head, count, R
  <2> QED BY <1>7, <1>8
<1>10. Expected(session) =
           Page(Longest({s \in EndingAt(head) : Len(s) <= count}),
               \E s \in EndingAt(head) : Len(s) > count)
  BY ExpectedHistory
<1>11. PageOf(count, R, path) = Page(Reverse(SubSeq(path, 1, n)), \/ Len(path) > count
                                                                  \/ path # <<>> /\ ~(ParentOf(Last(path)) \in R) /\ ~(Root \in R))
  <2> HIDE DEF R, head, count
  <2> QED BY DEF PageOf
<1> QED BY <1>6, <1>7, <1>9, <1>10, <1>11

-----------------------------------------------------------------------------
(* The commands as steps.  What they answer speaks of the operation of the *)
(* session, and neither that nor the commits change.                       *)

LEMMA CommitsStay ==
    ASSUME store' = store
    PROVE  /\ \A c : Parents(c)' = Parents(c)
           /\ \A c : ChangeOf(c)' = ChangeOf(c)
  BY DEF Parents, ChangeOf

LEMMA StacksStay ==
    ASSUME store' = store, session' = session
    PROVE  /\ Views' = Views
           /\ \A x : Versions(session, x)' = Versions(session, x)
           /\ Stacks(session)' = Stacks(session)
           /\ NamedStacks(session)' = NamedStacks(session)
           /\ \A s : Changes(s)' = Changes(s)
<1>1. /\ \A c : Parents(c)' = Parents(c)
      /\ \A c : ChangeOf(c)' = ChangeOf(c)
  BY CommitsStay
<1>2. \A v : (\A c \in v.visible : Parents(c)' \subseteq v.visible \cup {Root})
             <=> (\A c \in v.visible : Parents(c) \subseteq v.visible \cup {Root})
  BY <1>1
<1>3. Views' = Views
  BY <1>2 DEF Views
<1>4. ASSUME NEW x PROVE Versions(session, x)' = Versions(session, x)
  BY <1>1 DEF Versions
<1>5. ASSUME NEW s PROVE Changes(s)' = Changes(s)
  BY <1>1 DEF Changes
<1>6. ASSUME NEW s PROVE IsStack(session, s)' <=> IsStack(session, s)
  BY <1>1, <1>4 DEF IsStack
<1>7. Stacks(session)' = Stacks(session)
  BY <1>6 DEF Stacks
<1>8. NamedStacks(session)' = NamedStacks(session)
  BY <1>1, <1>4 DEF NamedStacks
<1> QED BY <1>3, <1>4, <1>5, <1>7, <1>8

LEMMA ExpectedStays ==
    ASSUME store' = store, session' = session, command' = command
    PROVE  Expected(session)' = Expected(session)
<1>1. /\ \A x : Versions(session, x)' = Versions(session, x)
      /\ Stacks(session)' = Stacks(session)
      /\ NamedStacks(session)' = NamedStacks(session)
      /\ \A s : Changes(s)' = Changes(s)
  BY StacksStay
<1>2. \A c : Parents(c)' = Parents(c) /\ ChangeOf(c)' = ChangeOf(c)
  BY CommitsStay
<1>3. HeadOf(session)' = HeadOf(session)
  BY DEF HeadOf
<1> QED BY <1>1, <1>2, <1>3 DEF Expected


(* What a command is given: a head of the operation, and for a revset any  *)
(* commits there are.                                                      *)
CommandGiven ==
    /\ command.head \in {Root} \cup session.visible
    /\ command.count \in Nat
    /\ command.name \in {"selectLast", "listHistory"} => command.count # 0
    /\ command.revset \subseteq Node
    /\ command.name = "extendSelection" => command.stored \in Seq(Commit) /\ command.stored # <<>>

(* Between its reads a command goes on only with what it has accepted: the *)
(* first records of an extension are the stored changes, and a stack.      *)
ReadsAccepted ==
    /\ got \in Seq(Seq(Node))
    /\ command = NoCommand => got = <<>> /\ answer = Pending
    /\ command.name = "extendSelection" /\ answer = Pending /\ got # <<>> =>
          got[1] \in Stacks(session) /\ Changes(got[1]) = command.stored

(* The inductive invariant.                                                *)
SelectionInv ==
    /\ store \in Stores
    /\ session \in Views
    /\ CommandGiven
    /\ ReadsAccepted
    /\ SelectionsMatchOperation

LEMMA StoredAre ==
    /\ Counts \subseteq Nat /\ 0 \notin Counts /\ 0 \in Nat
    /\ \A s \in Stored : s \in Seq(Commit) /\ s # <<>>
<1>1. Counts \subseteq Nat /\ 0 \notin Counts /\ 0 \in Nat
  BY Nodes DEF Counts
<1>2. \A s \in Stored : s \in Seq(Commit) /\ s # <<>>
  <2> TAKE s \in Stored
  <2>1. s \in SeqOf(Commit, MaxCommits) /\ s # <<>>
    BY DEF Stored
  <2>2. PICK n \in 0 .. MaxCommits : s \in [1 .. n -> Commit]
    BY <2>1 DEF SeqOf
  <2>3. n \in Nat
    BY <2>2, Nodes
  <2> QED BY <2>1, <2>2, <2>3, FunctionIsSeq
<1> QED BY <1>1, <1>2

LEMMA StartPreserves ==
    ASSUME SelectionInv, StartCommand
    PROVE  SelectionInv'
<1>1. /\ command = NoCommand /\ got = <<>> /\ answer = Pending
      /\ store' = store /\ session' = session /\ got' = <<>> /\ answer' = Pending
  BY DEF SelectionInv, ReadsAccepted, StartCommand
<1>2. /\ command'.head \in {Root} \cup session.visible
      /\ command'.count \in Nat
      /\ command'.name \in {"selectLast", "listHistory"} => command'.count # 0
      /\ command'.revset \subseteq Node
      /\ command'.name = "extendSelection" => command'.stored \in Seq(Commit)
             /\ command'.stored # <<>>
  <2>1. CASE \E n \in {"selectLast", "listHistory"}, h \in {Root} \cup session.visible,
            k \in Counts :
                command' = [NoCommand EXCEPT !.name = n, !.head = h, !.count = k]
    BY <2>1, StoredAre DEF NoCommand
  <2>2. CASE \E x, y \in Commit :
                command' = [NoCommand EXCEPT !.name = "selectRange", !.oldest = x, !.newest = y]
    BY <2>2, StoredAre DEF NoCommand
  <2>3. CASE \E cs \in SUBSET (Commit \cup {Root}), k \in Counts :
                command' = [NoCommand EXCEPT !.name = "selectRevset", !.revset = cs, !.count = k]
    BY <2>3, StoredAre, Nodes DEF NoCommand
  <2>4. CASE \E s \in Stored :
                command' = [NoCommand EXCEPT !.name = "resolveSelection", !.stored = s]
    BY <2>4, StoredAre DEF NoCommand
  <2>5. CASE \E s \in Stored, y \in Commit \cup {NoChange} :
                command' = [NoCommand EXCEPT !.name = "extendSelection", !.stored = s, !.newest = y]
    BY <2>5, StoredAre DEF NoCommand
  <2> QED BY <2>1, <2>2, <2>3, <2>4, <2>5 DEF StartCommand
<1>3. CommandGiven'
  BY <1>1, <1>2 DEF CommandGiven, VisibleNode
<1>4. Views' = Views
  BY <1>1, StacksStay
<1>5. ReadsAccepted'
  BY <1>1, EmptySeq DEF ReadsAccepted
<1>6. SelectionsMatchOperation'
  BY <1>1 DEF SelectionsMatchOperation
<1> QED BY <1>1, <1>3, <1>4, <1>5, <1>6 DEF SelectionInv

(* A read is as good as what it makes of the records.                      *)
LEMMA ReadPreserves ==
    ASSUME SelectionInv, NEW name, NEW step \in Nat, NEW C \in SUBSET Node, NEW results,
           Read(name, step, results), name # "none", DOMAIN results = Log(C),
           \A records \in Log(C) :
              /\ results[records] # Pending => results[records] = Expected(session)
              /\ results[records] = Pending /\ step = 0 /\ name = "extendSelection" =>
                    records \in Stacks(session) /\ Changes(records) = command.stored
    PROVE  SelectionInv'
<1>1. /\ command.name = name /\ answer = Pending /\ Len(got) = step
      /\ store' = store /\ session' = session /\ command' = command
  BY DEF Read
<1>2. PICK records \in Log(C) : got' = Append(got, records) /\ answer' = results[records]
  BY DEF Read
<1>3. records \in Seq(Node) /\ got \in Seq(Seq(Node))
  <2>1. records \in Seq(C)
    BY <1>2, LogParts
  <2>2. records \in Seq(Node)
    BY <2>1
  <2> QED BY <2>2 DEF SelectionInv, ReadsAccepted
<1>4. /\ Views' = Views
      /\ Stacks(session)' = Stacks(session)
      /\ \A s : Changes(s)' = Changes(s)
      /\ Expected(session)' = Expected(session)
  BY <1>1, StacksStay, ExpectedStays
<1>5. store' \in Stores /\ session' \in Views'
  BY <1>1, <1>4 DEF SelectionInv
<1>6. CommandGiven'
  BY <1>1 DEF SelectionInv, CommandGiven, VisibleNode
<1>7. SelectionsMatchOperation'
  BY <1>2, <1>4 DEF SelectionsMatchOperation
<1>8. got' \in Seq(Seq(Node)) /\ got' # <<>>
  BY <1>2, <1>3, AppendProperties
<1>9. ~(command' = NoCommand)
  BY <1>1 DEF NoCommand
<1>10. ASSUME command'.name = "extendSelection", answer' = Pending
       PROVE  got'[1] \in Stacks(session) /\ Changes(got'[1]) = command.stored
  <2>1. name = "extendSelection"
    BY <1>1, <1>10
  <2>2. CASE step = 0
    <3>1. got = <<>>
      BY <1>1, <1>3, <2>2, EmptySeq
    <3>2. got'[1] = records
      BY <1>2, <3>1
    <3> QED BY <1>2, <1>10, <2>1, <2>2, <3>2
  <2>3. CASE step # 0
    <3>1. Len(got) \in Nat /\ Len(got) # 0
      BY <1>1, <2>3
    <3>2. got # <<>> /\ 1 \in 1 .. Len(got)
      BY <3>1
    <3>3. got'[1] = got[1]
      BY <1>2, <1>3, <3>2, AppendProperties
    <3> QED BY <1>1, <2>1, <3>2, <3>3 DEF SelectionInv, ReadsAccepted
  <2> QED BY <2>2, <2>3
<1>11. ReadsAccepted'
  <2>1. command' = NoCommand => got' = <<>> /\ answer' = Pending
    BY <1>9
  <2>2. ASSUME command'.name = "extendSelection", answer' = Pending
        PROVE  (got[1])' \in Stacks(session)' /\ Changes(got[1])' = command'.stored
    <3>1. Changes(got[1])' = Changes(got'[1])
      BY <1>1, CommitsStay DEF Changes
    <3> QED BY <1>1, <1>4, <1>10, <2>2, <3>1
  <2> QED BY <1>8, <2>1, <2>2 DEF ReadsAccepted
<1> QED BY <1>5, <1>6, <1>7, <1>11 DEF SelectionInv


LEMMA LastPreserves ==
    ASSUME SelectionInv, SelectLast
    PROVE  SelectionInv'
<1> DEFINE C == Generations(HeadOf(ReadAt), command.count)
           results == [records \in Log(C) |->
                          LastSelection(ReadAt, command.head, command.count, records)]
<1>1. Read("selectLast", 0, results) /\ command.name = "selectLast"
  BY DEF SelectLast, Read
<1>2. /\ store \in Stores /\ session \in Views
      /\ command.head \in {Root} \cup session.visible /\ command.count \in Nat \ {0}
  BY <1>1 DEF SelectionInv, CommandGiven
<1>3. C \in SUBSET Node
  BY <1>2, HeadIsVisible, GenerationsVisible, VisibleNodes
<1>4. ASSUME NEW records \in Log(C) PROVE results[records] = Expected(session)
  BY <1>1, <1>2, LastRight
<1>6. DOMAIN results = Log(C) /\ 0 \in Nat /\ "selectLast" # "none"
          /\ "selectLast" # "extendSelection"
  OBVIOUS
<1> HIDE DEF C, results
<1> QED BY <1>1, <1>3, <1>4, <1>6, ReadPreserves

LEMMA HistoryPreserves ==
    ASSUME SelectionInv, ListHistory
    PROVE  SelectionInv'
<1> DEFINE C == Generations(HeadOf(ReadAt), command.count + 1)
           results == [records \in Log(C) |->
                          HistoryPage(ReadAt, HeadOf(ReadAt), command.count, records)]
<1>1. Read("listHistory", 0, results) /\ command.name = "listHistory"
  BY DEF ListHistory, Read
<1>2. /\ store \in Stores /\ session \in Views
      /\ command.head \in {Root} \cup session.visible /\ command.count \in Nat \ {0}
      /\ command.count + 1 \in Nat \ {0}
  BY <1>1 DEF SelectionInv, CommandGiven
<1>3. C \in SUBSET Node
  BY <1>2, HeadIsVisible, GenerationsVisible, VisibleNodes
<1>4. ASSUME NEW records \in Log(C) PROVE results[records] = Expected(session)
  BY <1>1, <1>2, HistoryRight
<1>5. DOMAIN results = Log(C) /\ 0 \in Nat /\ "listHistory" # "none"
          /\ "listHistory" # "extendSelection"
  OBVIOUS
<1> HIDE DEF C, results
<1> QED BY <1>1, <1>3, <1>4, <1>5, ReadPreserves

LEMMA RevsetPreserves ==
    ASSUME SelectionInv, SelectRevset
    PROVE  SelectionInv'
<1> DEFINE C == command.revset
           results == [records \in Log(C) |->
                          IF Len(records) > command.count THEN Rejected
                              ELSE Selection(session, records)]
<1>1. Read("selectRevset", 0, results) /\ command.name = "selectRevset"
  BY DEF SelectRevset, Read, ReadAt
<1>2. /\ store \in Stores /\ session \in Views
      /\ command.revset \in SUBSET Node /\ command.count \in Nat
  BY DEF SelectionInv, CommandGiven
<1>3. C \in SUBSET Node
  BY <1>2
<1>4. ASSUME NEW records \in Log(C) PROVE results[records] = Expected(session)
  BY <1>1, <1>2, RevsetRight
<1>5. DOMAIN results = Log(C) /\ 0 \in Nat /\ "selectRevset" # "none"
          /\ "selectRevset" # "extendSelection"
  OBVIOUS
<1> HIDE DEF C, results
<1> QED BY <1>1, <1>3, <1>4, <1>5, ReadPreserves

LEMMA ResolvePreserves ==
    ASSUME SelectionInv, ResolveSelection
    PROVE  SelectionInv'
<1> DEFINE C == VersionsOf(ToSet(command.stored))
           results == [records \in Log(C) |-> RefreshSelection(session, command.stored, records)]
<1>1. Read("resolveSelection", 0, results) /\ command.name = "resolveSelection"
  BY DEF ResolveSelection, Read, ReadAt
<1>2. store \in Stores /\ session \in Views
  BY DEF SelectionInv
<1>3. C \in SUBSET Node
  BY <1>2, VersionsVisible, VisibleNodes
<1>4. ASSUME NEW records \in Log(C) PROVE results[records] = Expected(session)
  BY <1>1, <1>2, ResolveRight
<1>5. DOMAIN results = Log(C) /\ 0 \in Nat /\ "resolveSelection" # "none"
          /\ "resolveSelection" # "extendSelection"
  OBVIOUS
<1> HIDE DEF C, results
<1> QED BY <1>1, <1>3, <1>4, <1>5, ReadPreserves

LEMMA RangePreserves ==
    ASSUME SelectionInv, SelectRange
    PROVE  SelectionInv'
<1>1. store \in Stores /\ session \in Views
  BY DEF SelectionInv
<1> DEFINE reads == IF command.oldest = command.newest THEN <<command.oldest>>
                    ELSE <<command.oldest, command.newest>>
           C == DagRange(VersionsOf({command.oldest}), VersionsOf({command.newest}))
           results == [records \in Log(C) |->
                          IF /\ records # <<>>
                             /\ ChangeOf(Head(records)) = command.oldest
                             /\ ChangeOf(Last(records)) = command.newest
                          THEN Selection(session, records) ELSE Rejected]
<1>2. \/ \E step \in 1 .. Len(reads) : Read("selectRange", step - 1, UniqueChange(reads[step]))
      \/ Read("selectRange", Len(reads), results)
  BY DEF SelectRange, ReadAt
<1>3. /\ Len(reads) \in Nat
      /\ \A i \in 1 .. Len(reads) : reads[i] \in {command.oldest, command.newest}
  OBVIOUS
<1>4. "selectRange" # "none" /\ "selectRange" # "extendSelection"
  OBVIOUS
<1> HIDE DEF reads
<1>5. ASSUME NEW step \in 1 .. Len(reads), Read("selectRange", step - 1, UniqueChange(reads[step]))
      PROVE  SelectionInv'
  <2> DEFINE x == reads[step]
             V == VersionsOf({x})
  <2>1. x \in {command.oldest, command.newest} /\ step - 1 \in Nat
    BY <1>3
  <2>2. V \in SUBSET Node
    BY <1>1, VersionsVisible, VisibleNodes
  <2>3. DOMAIN UniqueChange(x) = Log(V)
    BY DEF UniqueChange
  <2>4. ASSUME NEW records \in Log(V), UniqueChange(x)[records] # Pending
        PROVE  UniqueChange(x)[records] = Expected(session)
    <3>1. UniqueChange(x)[records] = Rejected /\ Len(records) # 1
      BY <2>4 DEF UniqueChange
    <3>2. command.name = "selectRange"
      BY <1>5 DEF Read
    <3> HIDE DEF x
    <3> QED BY <1>1, <2>1, <3>1, <3>2, RangeNotUnique
  <2>5. Read("selectRange", step - 1, UniqueChange(x))
    BY <1>5
  <2> HIDE DEF x, V
  <2> QED BY <1>4, <2>1, <2>2, <2>3, <2>4, <2>5, ReadPreserves
<1>6. ASSUME Read("selectRange", Len(reads), results) PROVE SelectionInv'
  <2>1. C \in SUBSET Node
    BY <1>1, VersionsVisible, DagIsVisible
  <2>2. command.name = "selectRange"
    BY <1>6 DEF Read
  <2>3. ASSUME NEW records \in Log(C) PROVE results[records] = Expected(session)
    BY <1>1, <2>2, RangeRight
  <2>4. DOMAIN results = Log(C)
    OBVIOUS
  <2> HIDE DEF C, results
  <2> QED BY <1>3, <1>4, <1>6, <2>1, <2>3, <2>4, ReadPreserves
<1> QED BY <1>2, <1>5, <1>6


LEMMA ExtendPreserves ==
    ASSUME SelectionInv, ExtendSelection
    PROVE  SelectionInv'
<1> DEFINE oldest == VersionsOf({Head(command.stored)})
           C0 == VersionsOf(ToSet(command.stored))
           r0 == [records \in Log(C0) |->
                     IF RefreshSelection(session, command.stored, records) = Rejected
                     THEN Rejected ELSE Pending]
           C1 == DagRange(oldest, {session.current})
           r1 == [records \in Log(C1) |-> ExtendedSelection(session, got[1], records, TRUE)]
           CX == VersionsOf({command.newest})
           C2 == DagRange(oldest, CX)
           r2 == [records \in Log(C2) |->
                     IF records = <<>> \/ ChangeOf(Last(records)) # command.newest THEN Rejected
                     ELSE ExtendedSelection(session, got[1], records, FALSE)]
<1>1. store \in Stores /\ session \in Views
  BY DEF SelectionInv
<1>2. /\ command.name = "extendSelection" /\ answer = Pending
      /\ command.stored \in Seq(Commit) /\ command.stored # <<>>
  BY DEF ExtendSelection, Read, SelectionInv, CommandGiven
<1>3. \/ Read("extendSelection", 0, r0)
      \/ command.newest = NoChange /\ Read("extendSelection", 1, r1)
      \/ command.newest # NoChange /\ Read("extendSelection", 1, UniqueChange(command.newest))
      \/ command.newest # NoChange /\ Read("extendSelection", 2, r2)
  BY DEF ExtendSelection, ReadAt
<1>4. "extendSelection" # "none" /\ {0, 1, 2} \subseteq Nat
  OBVIOUS
<1>5. C0 \in SUBSET Node /\ CX \in SUBSET Node
  BY <1>1, VersionsVisible, VisibleNodes
<1>6. C1 \in SUBSET Node
  <2>1. {session.current} \in SUBSET VisibleNode(session)
    BY <1>1, VisibleNodes DEF VisibleNode
  <2> HIDE DEF oldest
  <2> QED BY <1>1, <2>1, DagIsVisible
<1>7. C2 \in SUBSET Node
  <2>1. CX \in SUBSET VisibleNode(session)
    BY VersionsVisible
  <2> HIDE DEF oldest, CX
  <2> QED BY <1>1, <2>1, DagIsVisible
<1>8. ASSUME NEW step \in {1, 2}, Len(got) = step
      PROVE  got[1] \in Stacks(session) /\ Changes(got[1]) = command.stored
  <2>1. got # <<>>
    BY <1>8
  <2> QED BY <1>2, <2>1 DEF SelectionInv, ReadsAccepted
<1>9. CASE Read("extendSelection", 0, r0)
  <2>1. ASSUME NEW records \in Log(C0)
        PROVE  /\ r0[records] # Pending => r0[records] = Expected(session)
               /\ r0[records] = Pending =>
                     records \in Stacks(session) /\ Changes(records) = command.stored
    <3>1. IF RefreshSelection(session, command.stored, records) = Rejected
          THEN Expected(session) = Rejected
          ELSE records \in Stacks(session) /\ Changes(records) = command.stored
      BY <1>1, <1>2, ExtendStart
    <3>2. r0[records] = IF RefreshSelection(session, command.stored, records) = Rejected
                        THEN Rejected ELSE Pending
      OBVIOUS
    <3> HIDE DEF r0
    <3> QED BY <3>1, <3>2 DEF Rejected, Pending
  <2>2. DOMAIN r0 = Log(C0)
    OBVIOUS
  <2> HIDE DEF C0, r0
  <2> QED BY <1>4, <1>5, <1>9, <2>1, <2>2, ReadPreserves
<1>10. CASE command.newest = NoChange /\ Read("extendSelection", 1, r1)
  <2>1. got[1] \in Stacks(session) /\ Changes(got[1]) = command.stored
    BY <1>8, <1>10 DEF Read
  <2>2. ASSUME NEW records \in Log(C1) PROVE r1[records] = Expected(session)
    BY <1>1, <1>2, <1>10, <2>1, ExtendToWorkingCopy
  <2>3. DOMAIN r1 = Log(C1) /\ 1 # 0
    OBVIOUS
  <2> HIDE DEF C1, r1
  <2> QED BY <1>4, <1>6, <1>10, <2>2, <2>3, ReadPreserves
<1>11. CASE command.newest # NoChange /\ Read("extendSelection", 1, UniqueChange(command.newest))
  <2>1. DOMAIN UniqueChange(command.newest) = Log(CX) /\ 1 # 0
    BY DEF UniqueChange
  <2>2. ASSUME NEW records \in Log(CX), UniqueChange(command.newest)[records] # Pending
        PROVE  UniqueChange(command.newest)[records] = Expected(session)
    <3>1. UniqueChange(command.newest)[records] = Rejected /\ Len(records) # 1
      BY <2>2 DEF UniqueChange
    <3> QED BY <1>1, <1>2, <1>11, <3>1, ExtendNotUnique
  <2> HIDE DEF CX
  <2> QED BY <1>4, <1>5, <1>11, <2>1, <2>2, ReadPreserves
<1>12. CASE command.newest # NoChange /\ Read("extendSelection", 2, r2)
  <2>1. got[1] \in Stacks(session) /\ Changes(got[1]) = command.stored
    BY <1>8, <1>12 DEF Read
  <2>2. ASSUME NEW records \in Log(C2) PROVE r2[records] = Expected(session)
    BY <1>1, <1>2, <1>12, <2>1, ExtendToChange
  <2>3. DOMAIN r2 = Log(C2) /\ 2 # 0
    OBVIOUS
  <2> HIDE DEF C2, r2
  <2> QED BY <1>4, <1>7, <1>12, <2>2, <2>3, ReadPreserves
<1> HIDE DEF r0, r1, r2
<1> QED BY <1>3, <1>9, <1>10, <1>11, <1>12

(* The user's moves, and nothing at all.                                   *)
LEMMA RestPreserves ==
    ASSUME SelectionInv, UNCHANGED <<store, session, command, got, answer>>
    PROVE  SelectionInv'
<1>1. /\ Views' = Views
      /\ Stacks(session)' = Stacks(session)
      /\ \A s : Changes(s)' = Changes(s)
      /\ Expected(session)' = Expected(session)
  BY StacksStay, ExpectedStays
<1>2. CommandGiven'
  BY DEF SelectionInv, CommandGiven, VisibleNode
<1>3. ReadsAccepted'
  <2>1. Changes(got[1])' = Changes(got[1])
    BY CommitsStay DEF Changes
  <2> QED BY <1>1, <2>1 DEF SelectionInv, ReadsAccepted
<1>4. SelectionsMatchOperation'
  BY <1>1 DEF SelectionInv, SelectionsMatchOperation
<1> QED BY <1>1, <1>2, <1>3, <1>4 DEF SelectionInv

(* A command of a read session (selectLast, listHistory, selectRange,      *)
(* selectRevset, resolveSelection, extendSelection of JjReadSession)       *)
(* answers for the operation the session was opened at: with the one stack *)
(* of changes that was asked for, or with a refusal when there is none,    *)
(* whatever the graph of the commits and the user's moves.                 *)
THEOREM SelectionsAreExact == SelectionSpec => []SelectionsMatchOperation
<1>1. SelectionInit => SelectionInv
  <2> SUFFICES ASSUME SelectionInit PROVE SelectionInv
    OBVIOUS
  <2>1. store \in Stores /\ session \in Views /\ command = NoCommand /\ got = <<>>
            /\ answer = Pending
    BY DEF SelectionInit
  <2>2. CommandGiven
    BY <2>1, Nodes DEF CommandGiven, NoCommand
  <2>3. ReadsAccepted
    BY <2>1, EmptySeq DEF ReadsAccepted
  <2>4. SelectionsMatchOperation
    BY <2>1 DEF SelectionsMatchOperation
  <2> QED BY <2>1, <2>2, <2>3, <2>4 DEF SelectionInv
<1>2. SelectionInv /\ [SelectionNext]_selectionVars => SelectionInv'
  <2> SUFFICES ASSUME SelectionInv, [SelectionNext]_selectionVars PROVE SelectionInv'
    OBVIOUS
  <2>1. CASE Move
    BY <2>1, RestPreserves DEF Move
  <2>2. CASE StartCommand
    BY <2>2, StartPreserves
  <2>3. CASE SelectLast
    BY <2>3, LastPreserves
  <2>4. CASE ListHistory
    BY <2>4, HistoryPreserves
  <2>5. CASE SelectRevset
    BY <2>5, RevsetPreserves
  <2>6. CASE SelectRange
    BY <2>6, RangePreserves
  <2>7. CASE ResolveSelection
    BY <2>7, ResolvePreserves
  <2>8. CASE ExtendSelection
    BY <2>8, ExtendPreserves
  <2>9. CASE UNCHANGED selectionVars
    BY <2>9, RestPreserves DEF selectionVars
  <2> QED BY <2>1, <2>2, <2>3, <2>4, <2>5, <2>6, <2>7, <2>8, <2>9 DEF SelectionNext
<1>3. SelectionInv => SelectionsMatchOperation
  BY DEF SelectionInv
<1> QED BY <1>1, <1>2, <1>3, PTL DEF SelectionSpec

=============================================================================
