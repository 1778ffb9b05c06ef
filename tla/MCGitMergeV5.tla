----------------------------- MODULE MCGitMergeV5 -----------------------------
(* TLC instance of GitMergeV5, and of the recovery of earlier journals. *)
EXTENDS GitMergeV5, LegacyRecovery, TLC

Interchangeable == Permutations(Procs)
===============================================================================
