-------------------------- MODULE ReviewSelection ---------------------------
(***************************************************************************)
(* How the changes of a review are selected (jjClient.ts over              *)
(* reviewSelection.ts).  A read session fixes an operation of jj; each of  *)
(* its commands reads commits by one or several runs of jj at that         *)
(* operation, while the user goes on working, and accepts what it read if  *)
(* it is a stack of single-parent changes.                                 *)
(*                                                                         *)
(* jj is external: `store` is every commit there is or will be, with the   *)
(* change it is a version of; an operation is a view of it, the commits    *)
(* that are visible and the one the working copy is on.                    *)
(***************************************************************************)
EXTENDS Naturals, FiniteSets, Sequences, SequencesExt

CONSTANTS MaxCommits,    \* bound: commits besides the root
          MaxConflicts,  \* bound: commits with conflicts
          MaxMoves       \* bound: operations of the user during a command

ASSUME SelectionAssumption == {MaxCommits, MaxConflicts, MaxMoves} \subseteq Nat

Root == 0  \* the commit, and its change
Commit == 1 .. MaxCommits
NoChange == MaxCommits + 1

VARIABLES store,     \* the commits: their parents, changes and conflicts
          view,      \* the operation jj is at
          session,   \* the operation the read session was opened at
          command,   \* the command of the session
          got,       \* what its reads returned
          answer,
          moves

selectionVars == <<store, view, session, command, got, answer, moves>>

-----------------------------------------------------------------------------
(* jj.  A commit is numbered after its parents; the root is a change of    *)
(* its own, and no merge has it among its parents.                         *)

Parents(c) == IF c = Root THEN {} ELSE store.parents[c]
ChangeOf(c) == IF c = Root THEN Root ELSE store.change[c]

Ancestors(c) ==
    LET up[d \in 0 .. MaxCommits] == {d} \cup UNION {up[p] : p \in Parents(d)} IN up[c]

Stores ==
    [parents : {f \in [Commit -> SUBSET (Root .. MaxCommits)] :
                   \A c \in Commit : f[c] \in {{Root}} \cup kSubset(1, 1 .. c - 1)
                                             \cup kSubset(2, 1 .. c - 1)},
     change : {f \in [Commit -> Commit] :
                   \A c \in Commit : \A b \in 1 .. f[c] - 1 : \E d \in 1 .. c - 1 : f[d] = b},
     conflict : {cs \in SUBSET Commit : Cardinality(cs) <= MaxConflicts}]

Views ==
    {v \in [visible : SUBSET Commit, current : Commit] :
        /\ v.current \in v.visible
        /\ \A c \in v.visible : Parents(c) \subseteq v.visible \cup {Root}}

(* divergent, which jj also says of a hidden commit: its change has two     *)
(* versions that are visible.                                              *)
Divergent(v, c) == Cardinality({d \in v.visible : ChangeOf(d) = ChangeOf(c)}) > 1

(* Revsets: change_id("x"), ancestors(c, n), and x::y for sets of commits. *)
Versions(v, x) == {c \in v.visible \cup {Root} : ChangeOf(c) = x}

Generations(c, n) ==
    LET g[k \in 1 .. n] == IF k = 1 THEN {c} ELSE g[k - 1] \cup UNION {Parents(d) : d \in g[k - 1]}
    IN  g[n]

DagRange(xs, ys) ==
    {c \in UNION {Ancestors(y) : y \in ys} : Ancestors(c) \cap xs # {}}

(* jj log --reversed: parents before children, otherwise in any order.     *)
Log(commits) ==
    {s \in SetToSeqs(commits) : \A i, j \in DOMAIN s : s[i] \in Ancestors(s[j]) => i <= j}

-----------------------------------------------------------------------------
(* reviewSelection.ts.                                                     *)

Pending == <<"pending">>
Rejected == <<"rejected">>
NoNewChanges == <<"no new changes">>
Selected(commits) == <<"selected", commits>>
Page(commits, hasMore) == <<"page", commits, hasMore>>

Changes(commits) == [i \in DOMAIN commits |-> ChangeOf(commits[i])]

(* filter, by membership in a set.  (The provers know nothing of SelectSeq *)
(* but its name.)                                                          *)
Only(commits, wanted) ==
    LET kept[i \in 1 .. Len(commits) + 1] ==
            IF i = 1 THEN <<>>
            ELSE IF commits[i - 1] \in wanted THEN Append(kept[i - 1], commits[i - 1])
            ELSE kept[i - 1]
    IN  kept[Len(commits) + 1]

(* validateCommits.                                                        *)
Valid(v, commits) ==
    \A i \in DOMAIN commits :
        /\ commits[i] # Root
        /\ ~Divergent(v, commits[i])
        /\ \A j \in 1 .. i - 1 : ChangeOf(commits[j]) # ChangeOf(commits[i])
        /\ commits[i] \notin store.conflict
        /\ Cardinality(Parents(commits[i])) = 1
        /\ i > 1 => commits[i - 1] \in Parents(commits[i])

Selection(v, commits) ==
    IF commits # <<>> /\ Valid(v, commits) THEN Selected(commits) ELSE Rejected

(* buildLastSelection; without a head it must end at the working copy.     *)
LastSelection(v, head, count, records) ==
    LET nonRoot == Only(records, Commit) IN
    IF /\ nonRoot # <<>>
       /\ \A i \in DOMAIN nonRoot : Cardinality(Parents(nonRoot[i])) = 1
       /\ Len(nonRoot) <= count
       /\ Last(nonRoot) = IF head = Root THEN v.current ELSE head
    THEN Selection(v, nonRoot) ELSE Rejected

(* buildRefreshSelection.                                                  *)
RefreshSelection(v, stored, records) ==
    IF Changes(records) = stored THEN Selection(v, records) ELSE Rejected

(* buildExtendedSelection.                                                 *)
ExtendedSelection(v, current, records, toWorkingCopy) ==
    IF ~IsPrefix(current, records) THEN Rejected
    ELSE IF records = current THEN NoNewChanges
    ELSE IF toWorkingCopy /\ Last(records) # v.current THEN Rejected
    ELSE Selection(v, records)

(* JjReadSession.buildHistoryPage: down from the head, one parent at a     *)
(* time, as long as the commits can be selected.                           *)
HistoryPage(v, head, count, records) ==
    LET selectable == {c \in Commit : /\ c \notin store.conflict
                                      /\ ~Divergent(v, c)
                                      /\ Cardinality(Parents(c)) = 1}
        parent(c) == CHOOSE p \in Parents(c) : TRUE
        found(c) == c \in ToSet(records)
        walk[k \in 1 .. count + 1] ==
            IF k = 1 THEN <<head>>
            ELSE LET c == Last(walk[k - 1]) IN
                 IF c \in selectable /\ found(parent(c)) /\ Len(walk[k - 1]) = k - 1
                 THEN Append(walk[k - 1], parent(c)) ELSE walk[k - 1]
        path == Only(walk[count + 1], selectable)
        newestFirst == SubSeq(path, 1, IF Len(path) > count THEN count ELSE Len(path))
    IN  Page(Reverse(newestFirst),
             \/ Len(path) > count
             \/ path # <<>> /\ ~found(parent(Last(path))) /\ ~found(Root))

-----------------------------------------------------------------------------
(* The commands of JjReadSession.                                          *)

Counts == 1 .. MaxCommits
Stored == {s \in SeqOf(Commit, MaxCommits) : s # <<>> /\ Cardinality(ToSet(s)) = Len(s)}

NoCommand == [name |-> "none", head |-> Root, count |-> 0, oldest |-> NoChange,
              newest |-> NoChange, stored |-> <<>>, revset |-> {}]

SelectionInit ==
    /\ store \in Stores
    /\ view \in Views
    /\ session = view
    /\ command = NoCommand
    /\ got = <<>>
    /\ answer = Pending
    /\ moves = 0

(* The user, or jj taking a snapshot of the working copy; only what it     *)
(* does between the reads of a command is considered.                      *)
Move ==
    /\ got # <<>>
    /\ answer = Pending
    /\ moves < MaxMoves
    /\ view' \in Views \ {view}
    /\ moves' = moves + 1
    /\ UNCHANGED <<store, session, command, got, answer>>

(* A head is a commit of the operation, or Root for the working copy; the  *)
(* changes are any, as they come from a review or from another workspace.  *)
(* A revset is the user's own, so it may stand for any commits: jj finds   *)
(* one that is hidden by now by its commit id.                             *)
StartCommand ==
    /\ command = NoCommand
    /\ \/ \E n \in {"selectLast", "listHistory"}, h \in {Root} \cup session.visible, k \in Counts :
             command' = [NoCommand EXCEPT !.name = n, !.head = h, !.count = k]
       \/ \E x, y \in Commit :
             command' = [NoCommand EXCEPT !.name = "selectRange", !.oldest = x, !.newest = y]
       \/ \E cs \in SUBSET (Commit \cup {Root}), k \in Counts :
             command' = [NoCommand EXCEPT !.name = "selectRevset", !.revset = cs, !.count = k]
       \/ \E s \in Stored :
             command' = [NoCommand EXCEPT !.name = "resolveSelection", !.stored = s]
       \/ \E s \in Stored, y \in Commit \cup {NoChange} :
             command' = [NoCommand EXCEPT !.name = "extendSelection", !.stored = s, !.newest = y]
    /\ UNCHANGED <<store, view, session, got, answer, moves>>

(* buildCommandArgs: every read of a session is at its operation.          *)
ReadAt_Latest == view  \* a mutation: wherever jj is
ReadAt == session

(* readCommitRevset, and what the command makes of the records.            *)
Read(name, step, results) ==
    /\ command.name = name
    /\ answer = Pending
    /\ Len(got) = step
    /\ \E records \in DOMAIN results :
          /\ got' = Append(got, records)
          /\ answer' = results[records]
    /\ UNCHANGED <<store, view, session, command, moves>>

HeadOf(v) == IF command.head = Root THEN v.current ELSE command.head

SelectLast ==
    Read("selectLast", 0,
         [records \in Log(Generations(HeadOf(ReadAt), command.count)) |->
             LastSelection(ReadAt, command.head, command.count, records)])

ListHistory ==
    Read("listHistory", 0,
         [records \in Log(Generations(HeadOf(ReadAt), command.count + 1)) |->
             HistoryPage(ReadAt, HeadOf(ReadAt), command.count, records)])

SelectRevset ==
    Read("selectRevset", 0,
         [records \in Log(command.revset) |->
             IF Len(records) > command.count THEN Rejected ELSE Selection(ReadAt, records)])

VersionsOf(changes) == UNION {Versions(ReadAt, x) : x \in changes}

(* requireUniqueChange.                                                    *)
UniqueChange(x) ==
    [records \in Log(VersionsOf({x})) |-> IF Len(records) = 1 THEN Pending ELSE Rejected]

(* selectRange: both ends are looked up, then what lies between them.      *)
SelectRange ==
    LET c == command
        reads == IF c.oldest = c.newest THEN <<c.oldest>> ELSE <<c.oldest, c.newest>>
    IN  \/ \E step \in 1 .. Len(reads) :
              Read("selectRange", step - 1, UniqueChange(reads[step]))
        \/ Read("selectRange", Len(reads),
                [records \in Log(DagRange(VersionsOf({c.oldest}), VersionsOf({c.newest}))) |->
                    IF /\ records # <<>>
                       /\ ChangeOf(Head(records)) = c.oldest
                       /\ ChangeOf(Last(records)) = c.newest
                    THEN Selection(ReadAt, records) ELSE Rejected])

ResolveSelection ==
    Read("resolveSelection", 0,
         [records \in Log(VersionsOf(ToSet(command.stored))) |->
             RefreshSelection(ReadAt, command.stored, records)])

(* extendSelection: the stored changes, then everything from the oldest of *)
(* them to the working copy or to the change given.                        *)
ExtendSelection ==
    LET c == command
        oldest == VersionsOf({Head(c.stored)})
    IN  \/ Read("extendSelection", 0,
                [records \in Log(VersionsOf(ToSet(c.stored))) |->
                    IF RefreshSelection(ReadAt, c.stored, records) = Rejected
                    THEN Rejected ELSE Pending])
        \/ /\ c.newest = NoChange
           /\ Read("extendSelection", 1,
                   [records \in Log(DagRange(oldest, {ReadAt.current})) |->
                       ExtendedSelection(ReadAt, got[1], records, TRUE)])
        \/ /\ c.newest # NoChange
           /\ \/ Read("extendSelection", 1, UniqueChange(c.newest))
              \/ Read("extendSelection", 2,
                      [records \in Log(DagRange(oldest, VersionsOf({c.newest}))) |->
                          IF records = <<>> \/ ChangeOf(Last(records)) # c.newest THEN Rejected
                          ELSE ExtendedSelection(ReadAt, got[1], records, FALSE)])

SelectionNext ==
    \/ Move
    \/ StartCommand
    \/ SelectLast \/ ListHistory \/ SelectRevset
    \/ SelectRange \/ ResolveSelection \/ ExtendSelection

SelectionSpec == SelectionInit /\ [][SelectionNext]_selectionVars

-----------------------------------------------------------------------------
(* What the commands are for.  A stack is a path of visible commits of one *)
(* parent each, without conflicts, none of whose changes has another       *)
(* version.                                                                *)
IsStack(v, s) ==
    \A i \in DOMAIN s :
        /\ Versions(v, ChangeOf(s[i])) = {s[i]}
        /\ s[i] \notin store.conflict
        /\ IF i = 1 THEN Cardinality(Parents(s[i])) = 1 ELSE Parents(s[i]) = {s[i - 1]}

Stacks(v) == {s \in SeqOf(v.visible, MaxCommits) : s # <<>> /\ IsStack(v, s)}

(* The stacks a revset may name: also of commits that are superseded, as   *)
(* long as no two are of one change and no change of theirs has two        *)
(* visible versions.                                                       *)
NamedStacks(v) ==
    {s \in SeqOf(Commit, MaxCommits) :
        /\ s # <<>>
        /\ \A i \in DOMAIN s :
              /\ Cardinality(Versions(v, ChangeOf(s[i]))) <= 1
              /\ \A j \in DOMAIN s : ChangeOf(s[i]) = ChangeOf(s[j]) => i = j
              /\ s[i] \notin store.conflict
              /\ IF i = 1 THEN Cardinality(Parents(s[i])) = 1 ELSE Parents(s[i]) = {s[i - 1]}}

TheOne(stacks) == IF stacks = {} THEN Rejected ELSE Selected(CHOOSE s \in stacks : TRUE)

Longest(stacks) ==
    IF stacks = {} THEN <<>> ELSE CHOOSE s \in stacks : \A t \in stacks : Len(t) <= Len(s)

Expected(v) ==
    LET c == command
        endingAt(h) == {s \in Stacks(v) : Last(s) = h}
        resolved == {s \in Stacks(v) : Changes(s) = c.stored}
        target == IF c.newest = NoChange THEN {v.current} ELSE Versions(v, c.newest)
        extended == {s \in Stacks(v) : /\ IsStrictPrefix(c.stored, Changes(s))
                                       /\ target = {Last(s)}}
    IN  CASE c.name = "selectLast" ->
               TheOne({s \in endingAt(HeadOf(v)) :
                          \/ Len(s) = c.count
                          \/ Len(s) < c.count /\ Parents(Head(s)) = {Root}})
          [] c.name = "listHistory" ->
               Page(Longest({s \in endingAt(HeadOf(v)) : Len(s) <= c.count}),
                    \E s \in endingAt(HeadOf(v)) : Len(s) > c.count)
          [] c.name = "selectRange" ->
               TheOne({s \in Stacks(v) : /\ ChangeOf(Head(s)) = c.oldest
                                         /\ ChangeOf(Last(s)) = c.newest})
          [] c.name = "selectRevset" ->
               TheOne({s \in NamedStacks(v) : ToSet(s) = c.revset /\ Len(s) <= c.count})
          [] c.name = "resolveSelection" -> TheOne(resolved)
          [] c.name = "extendSelection" ->
               IF extended = {} /\ \E s \in resolved : target = {Last(s)} THEN NoNewChanges
               ELSE TheOne(extended)

(* What does not hold: that a selection is of visible commits.  A revset   *)
(* that names a superseded commit is accepted, and the review made of it   *)
(* is of another version than the next refresh will find.                  *)
SelectionsAreVisible ==
    answer[1] = "selected" => ToSet(answer[2]) \subseteq session.visible

(* Whatever the user does meanwhile, a command answers for the operation   *)
(* its session was opened at: with the stack that was asked for, if there  *)
(* is one in it; with a refusal otherwise; and that there is nothing to    *)
(* include only when the review ends where it was to be extended to.       *)
SelectionsMatchOperation == answer # Pending => answer = Expected(session)

=============================================================================
