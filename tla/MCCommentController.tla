------------------------- MODULE MCCommentController -------------------------
(***************************************************************************)
(* CommentController for TLC: a diff of the active review, and one opened  *)
(* from History.                                                           *)
(***************************************************************************)
EXTENDS CommentController

CONSTANTS diff, history

Documents == {diff, history}
Histories == {history}

(* Both show the same place, where the thread is or is not.                *)
Together == {{}, {diff, history}}
=============================================================================
