-------------------------- MODULE MCImportPublication --------------------------
(* TLC instance of ImportPublication. *)
EXTENDS ImportPublication, PlainPublication, TLC

Interchangeable == Permutations(Procs)
================================================================================
