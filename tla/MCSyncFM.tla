------------------------------- MODULE MCSyncFM -------------------------------
(* Instances of SyncFM for TLC.                                               *)
EXTENDS SyncFM
=============================================================================
