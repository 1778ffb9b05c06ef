--------------------------- MODULE MCSublimeDocuments --------------------------
(* Instances of SublimeDocuments for TLC. *)
EXTENDS SublimeDocuments

=============================================================================
