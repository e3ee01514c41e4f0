-------------------------- MODULE MCRepositoryLock --------------------------
(***************************************************************************)
(* RepositoryLock for TLC: the hosts are model values, interchangeable in  *)
(* the runs that give all of them the same faults.                         *)
(***************************************************************************)
EXTENDS RepositoryLock, TLC

Hosts == Permutations(Host)
=============================================================================
