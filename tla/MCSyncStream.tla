---------------------------- MODULE MCSyncStream ----------------------------
(* Instances of SyncStream for TLC. *)
EXTENDS SyncStream, TLC
=============================================================================
