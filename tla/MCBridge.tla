------------------------------ MODULE MCBridge ------------------------------
(***************************************************************************)
(* Bridge for TLC: windows of one workspace, and of two.                   *)
(***************************************************************************)
EXTENDS Bridge, TLC

SameRoot == [w \in Window |-> {"repo"}]
OwnRoots == [w \in Window |-> {w}]

Windows == Permutations(Window)
=============================================================================
