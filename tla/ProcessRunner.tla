--------------------------- MODULE ProcessRunner ----------------------------
(***************************************************************************)
(* The runs of jj (processRunner.ts): a semaphore that lets only so many   *)
(* child processes live at a time, with its queue of waiting requests, and *)
(* the life of each child: aborted, timed out, writing too much, failing.  *)
(*                                                                         *)
(* The processes are external.  A request is executed once; its steps are  *)
(* the turns of the event loop, so an abort can come between the grant of  *)
(* a permit and the request's continuation, or between the end of a child  *)
(* and the release of its permit.                                          *)
(***************************************************************************)
EXTENDS Naturals, FiniteSets, Sequences

CONSTANTS Request,  \* the requests
          Limit     \* maxConcurrency

ASSUME RunnerAssumption == IsFiniteSet(Request) /\ Limit \in Nat \ {0}

VARIABLES active,   \* Semaphore.active
          waiters,  \* Semaphore.waiters
          stage,    \* where execute is
          aborted,  \* the requests whose signal has been aborted
          child,    \* the request's child process
          outcome   \* terminalError; from "settled" on, what execute returns

runnerVars == <<active, waiters, stage, aborted, child, outcome>>

Stage == {"new", "waiting", "granted", "running", "settled", "done"}
ChildState == {"none", "alive", "killed", "succeeded", "failed"}
Outcome == {"none", "ok", "cancelled", "timed out", "output limit", "not spawned", "failed"}

RunnerInit ==
    /\ active = 0
    /\ waiters = <<>>
    /\ stage = [r \in Request |-> "new"]
    /\ aborted = {}
    /\ child = [r \in Request |-> "none"]
    /\ outcome = [r \in Request |-> "none"]

Becomes(r, s) == stage' = [stage EXCEPT ![r] = s]
Ends(r, s, o) == Becomes(r, s) /\ outcome' = [outcome EXCEPT ![r] = o]

-----------------------------------------------------------------------------
(* Semaphore.                                                              *)

(* acquire: refused, granted at once, or queued.                           *)
Acquire(r) ==
    /\ stage[r] = "new"
    /\ \/ /\ r \in aborted
          /\ Ends(r, "done", "cancelled")
          /\ UNCHANGED <<active, waiters>>
       \/ /\ r \notin aborted
          /\ active < Limit
          /\ active' = active + 1
          /\ Becomes(r, "granted")
          /\ UNCHANGED <<waiters, outcome>>
       \/ /\ r \notin aborted
          /\ active >= Limit
          /\ waiters' = Append(waiters, r)
          /\ Becomes(r, "waiting")
          /\ UNCHANGED <<active, outcome>>
    /\ UNCHANGED <<aborted, child>>

(* A mutation: the permit is freed as well as handed on.                   *)
Release_FreesTwice(r) ==
    /\ stage[r] = "settled"
    /\ active' = active - 1
    /\ IF waiters = <<>>
       THEN Becomes(r, "done") /\ UNCHANGED waiters
       ELSE /\ waiters' = Tail(waiters)
            /\ stage' = [stage EXCEPT ![r] = "done", ![Head(waiters)] = "granted"]
    /\ UNCHANGED <<aborted, child, outcome>>

(* A mutation: the permit is freed, and nobody is woken.                   *)
Release_WakesNobody(r) ==
    /\ stage[r] = "settled"
    /\ active' = active - 1
    /\ Becomes(r, "done")
    /\ UNCHANGED <<waiters, aborted, child, outcome>>

(* The finally of execute: the permit goes to the first that waits, whose  *)
(* abort listener is taken off and whose continuation is still to run.     *)
Release(r) ==
    /\ stage[r] = "settled"
    /\ IF waiters = <<>>
       THEN /\ active' = active - 1
            /\ Becomes(r, "done")
            /\ UNCHANGED waiters
       ELSE /\ waiters' = Tail(waiters)
            /\ stage' = [stage EXCEPT ![r] = "done", ![Head(waiters)] = "granted"]
            /\ UNCHANGED active
    /\ UNCHANGED <<aborted, child, outcome>>

-----------------------------------------------------------------------------
(* spawnAndCapture.                                                        *)

Stopped(r, o) ==
    /\ outcome' = [outcome EXCEPT ![r] = IF @ = "none" THEN o ELSE @]
    /\ child' = [child EXCEPT ![r] =
                   IF @ = "alive" /\ outcome[r] = "none" THEN "killed" ELSE @]

(* The signal of a request is aborted: it leaves the queue, or its child   *)
(* is killed; otherwise only the flag is there for the next step to see.   *)
Abort(r) ==
    /\ r \notin aborted
    /\ aborted' = aborted \cup {r}
    /\ \/ /\ stage[r] = "waiting"
          /\ \E k \in DOMAIN waiters :
                /\ waiters[k] = r
                /\ waiters' = [i \in 1 .. Len(waiters) - 1 |->
                                 IF i < k THEN waiters[i] ELSE waiters[i + 1]]
          /\ Ends(r, "done", "cancelled")
          /\ UNCHANGED <<active, child>>
       \/ /\ stage[r] = "running"
          /\ Stopped(r, "cancelled")
          /\ UNCHANGED <<active, waiters, stage>>
       \/ /\ stage[r] \in {"new", "granted", "settled"}
          /\ UNCHANGED <<active, waiters, stage, child, outcome>>

(* A mutation: the signal is not looked at again once there is a permit.   *)
Spawn_Unchecked(r) ==
    /\ stage[r] = "granted"
    /\ \/ Ends(r, "settled", "not spawned") /\ UNCHANGED child
       \/ /\ child' = [child EXCEPT ![r] = "alive"]
          /\ Becomes(r, "running")
          /\ UNCHANGED outcome
    /\ UNCHANGED <<active, waiters, aborted>>

(* The request goes on with its permit: it finds itself aborted, or spawn  *)
(* throws, or there is a child.                                            *)
Spawn(r) ==
    /\ stage[r] = "granted"
    /\ \/ /\ r \in aborted
          /\ Ends(r, "settled", "cancelled")
          /\ UNCHANGED child
       \/ /\ r \notin aborted
          /\ Ends(r, "settled", "not spawned")
          /\ UNCHANGED child
       \/ /\ r \notin aborted
          /\ child' = [child EXCEPT ![r] = "alive"]
          /\ Becomes(r, "running")
          /\ UNCHANGED outcome
    /\ UNCHANGED <<active, waiters, aborted>>

(* stop: the first reason kills the child and stays the outcome.           *)
Timeout(r) ==
    /\ stage[r] = "running"
    /\ outcome[r] = "none"
    /\ Stopped(r, "timed out")
    /\ UNCHANGED <<active, waiters, stage, aborted>>

(* More is written than allowed; what was written before the child's end   *)
(* may be read after it.                                                   *)
OutputLimit(r) ==
    /\ stage[r] = "running"
    /\ outcome[r] = "none"
    /\ Stopped(r, "output limit")
    /\ UNCHANGED <<active, waiters, stage, aborted>>

(* The error event: the executable could not be started.                   *)
ChildError(r) ==
    /\ stage[r] = "running"
    /\ child[r] \in {"alive", "killed"}
    /\ outcome' = [outcome EXCEPT ![r] = IF @ = "none" THEN "not spawned" ELSE @]
    /\ child' = [child EXCEPT ![r] = "failed"]
    /\ UNCHANGED <<active, waiters, stage, aborted>>

ChildExits(r) ==
    /\ child[r] \in {"alive", "killed"}
    /\ \E end \in {"succeeded", "failed"} : child' = [child EXCEPT ![r] = end]
    /\ UNCHANGED <<active, waiters, stage, aborted, outcome>>

(* The close event: the child has ended and its streams are closed.        *)
Close(r) ==
    /\ stage[r] = "running"
    /\ child[r] \in {"succeeded", "failed"}
    /\ Ends(r, "settled", IF outcome[r] # "none" THEN outcome[r]
                          ELSE IF child[r] = "succeeded" THEN "ok" ELSE "failed")
    /\ UNCHANGED <<active, waiters, aborted, child>>

RunnerNext ==
    \E r \in Request :
        \/ Acquire(r) \/ Release(r) \/ Abort(r) \/ Spawn(r)
        \/ Timeout(r) \/ OutputLimit(r) \/ ChildError(r) \/ ChildExits(r) \/ Close(r)

(* The event loop runs what is ready and the timer fires.  A child that    *)
(* was killed ends, and with it its streams; nothing in the code sees to   *)
(* that.  Nobody need abort, and a child that was not killed may go on.    *)
RunnerFairness ==
    \A r \in Request :
        /\ WF_runnerVars(Spawn(r)) /\ WF_runnerVars(Release(r))
        /\ WF_runnerVars(Timeout(r)) /\ WF_runnerVars(Close(r))
        /\ WF_runnerVars(child[r] = "killed" /\ ChildExits(r))

RunnerSpec == RunnerInit /\ [][RunnerNext]_runnerVars

-----------------------------------------------------------------------------
(* A permit is held from its grant to its release, also while it is handed *)
(* on.  Every permit is with a request, no child lives without one, and    *)
(* nobody waits while there is one to be had.                              *)
Holders == {r \in Request : stage[r] \in {"granted", "running", "settled"}}
Living == {r \in Request : child[r] \in {"alive", "killed"}}

PermitsAreConserved ==
    /\ active = Cardinality(Holders)
    /\ active <= Limit
    /\ Living \subseteq Holders
    /\ waiters # <<>> => active = Limit

(* No child is spawned for a request that was aborted, wherever the abort  *)
(* found it: before it began, in the queue, or just given a permit.        *)
AbortedNeverSpawns ==
    [][\A r \in Request : r \in aborted /\ child[r] = "none" => child'[r] = "none"]_runnerVars

(* Every request that was made is answered, whatever its turn and however  *)
(* the ones before it end.                                                 *)
RequestsSettle == \A r \in Request : stage[r] # "new" ~> stage[r] = "done"

=============================================================================
