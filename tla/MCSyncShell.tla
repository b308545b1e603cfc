---------------------------- MODULE MCSyncShell ----------------------------
(* Instances of SyncShell for TLC: the tabs are model values. *)
EXTENDS SyncShell
=============================================================================
