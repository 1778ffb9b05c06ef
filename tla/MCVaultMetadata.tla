---------------------------- MODULE MCVaultMetadata ----------------------------
(* Instances of VaultMetadata for TLC, of the names of a vault and of its merges. *)
EXTENDS VaultMetadata, LogicalPaths, StreamedFold, MergePlan, TLC

Symmetry == Permutations(Sessions) \cup Permutations(Tags)

\* Two marks of one class and one of another, some of which compose with "a";
\* a case fold of two characters, and starters that compose with each other.
MCChars ==
  LET Char(fold, parts, class) == [fold |-> fold, parts |-> parts, class |-> class]
      Plain(c, class) == Char(<<c>>, <<c>>, class)
  IN "a" :> Plain("a", 0) @@ "e" :> Plain("e", 0)
     @@ "A" :> Char(<<"a">>, <<"A">>, 0) @@ "ligature" :> Char(<<"a", "e">>, <<"ligature">>, 0)
     @@ "low" :> Plain("low", 1) @@ "high" :> Plain("high", 2) @@ "high2" :> Plain("high2", 2)
     @@ "a low" :> Char(<<"a low">>, <<"a", "low">>, 0)
     @@ "a high" :> Char(<<"a high">>, <<"a", "high">>, 0)
     @@ "a low high" :> Char(<<"a low high">>, <<"a", "low", "high">>, 0)
     @@ "pair" :> Char(<<"pair">>, <<"e", "e">>, 0)
     @@ "pair low" :> Char(<<"pair low">>, <<"e", "e", "low">>, 0)
MCComposites ==
  <<"a", "low">> :> "a low" @@ <<"a", "high">> :> "a high"
    @@ <<"a low", "high">> :> "a low high"
    @@ <<"e", "e">> :> "pair" @@ <<"pair", "low">> :> "pair low"
MCNameChars == {"A", "e", "ligature", "low", "high", "high2", "a low"}
=============================================================================
