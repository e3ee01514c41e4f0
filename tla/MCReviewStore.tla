---------------------------- MODULE MCReviewStore ----------------------------
(***************************************************************************)
(* ReviewStore for TLC: reviews and blobs are interchangeable model values.*)
(***************************************************************************)
EXTENDS ReviewStore, TLC

Names == Permutations(Review) \cup Permutations(Blob)
=============================================================================
