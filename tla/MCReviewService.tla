--------------------------- MODULE MCReviewService ---------------------------
(***************************************************************************)
(* ReviewService for TLC, with the workloads of its runs.                  *)
(***************************************************************************)
EXTENDS ReviewService, TLC

(* Two people at the life of a review and its first comments; one person   *)
(* and an agent at everything.                                             *)
Lifecycle == {"start", "refresh", "include", "archive", "restore", "replace", "delete",
              "create", "reply"}

AgentWork == {"start", "refresh", "archive", "restore", "replace", "delete", "create",
              "reply", "edit", "remove", "resolve", "reopen", "close"}

Names == Permutations(Review) \cup Permutations(User)
=============================================================================
