---------------------------- MODULE MCDaemonSession ----------------------------
(* The instance of DaemonSession for TLC, and of the frames that its calls   *)
(* arrive in.  Symmetry of the paths would be sound for its safety           *)
(* properties but not for IdleSessionEnds.                                   *)
EXTENDS DaemonSession, Framing, TLC

=============================================================================
