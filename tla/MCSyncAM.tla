------------------------------- MODULE MCSyncAM -------------------------------
(* Instances of SyncAM for TLC.                                               *)
EXTENDS SyncAM
=============================================================================
