---------------------------- MODULE MCVaultDocuments ---------------------------
(* Instances of VaultDocuments for TLC, and of the texts behind it. *)
EXTENDS VaultDocuments, UmbraProjection, TextSearch, TLC

PathSymmetry == Permutations(Paths)

MCLetters == <<"a", "b", "c">>

\* "ss" stands for a character whose folding is two characters.
MCAlphabet ==
  [c \in {"a", "s", "ss", "smile", "CR", "LF"} |->
     [bytes |-> CASE c = "smile" -> 4 [] c = "ss" -> 2 [] OTHER -> 1,
      units |-> IF c = "smile" THEN 2 ELSE 1,
      fold  |-> IF c = "ss" THEN <<"s", "s">> ELSE <<c>>]]

=============================================================================
