-------------------------------- MODULE MCJj --------------------------------
(***************************************************************************)
(* The jj client for model checking: the selection of changes, and the     *)
(* runs of jj.  The two share no state, so a behaviour is one of either,   *)
(* with the other at rest.                                                 *)
(***************************************************************************)
EXTENDS ReviewSelection, ProcessRunner

CONSTANTS r1, r2, r3

NoSelection ==
    /\ store = [parents |-> <<>>, change |-> <<>>, conflict |-> {}]
    /\ view = [visible |-> {}, current |-> Root]
    /\ session = view
    /\ command = NoCommand
    /\ got = <<>>
    /\ answer = Pending
    /\ moves = 0

Selecting == store.parents # <<>>

Init ==
    \/ SelectionInit /\ RunnerInit
    \/ NoSelection /\ RunnerInit

Next ==
    \/ Selecting /\ SelectionNext /\ UNCHANGED runnerVars
    \/ ~Selecting /\ RunnerNext /\ UNCHANGED selectionVars

Spec == Init /\ [][Next]_<<selectionVars, runnerVars>> /\ RunnerFairness
=============================================================================
