--------------------------- MODULE MCBridgeClient ---------------------------
(* BridgeClient on a small instance, and plausible mistakes in it.         *)
EXTENDS BridgeClient, TLC

CONSTANTS a, b

Workspaces == {a, b}

Names == Permutations(Workspaces)

=============================================================================
