----------------------------- MODULE MCCustomEditor ----------------------------
(* Instances of CustomEditor for TLC. *)
EXTENDS CustomEditor

=============================================================================
