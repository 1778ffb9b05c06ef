----------------------------- MODULE MCVaultStore -----------------------------
(* TLC instance of VaultStore: two documents in two directories. *)
EXTENDS VaultStore, TLC

CONSTANTS d1, d2, dirA, dirB

Interchangeable == Permutations(Procs)

TwoParents == d1 :> dirA @@ d2 :> dirB
===============================================================================
