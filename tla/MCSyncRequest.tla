---------------------------- MODULE MCSyncRequest ----------------------------
(* The instance of SyncRequest that TLC checks.                            *)
EXTENDS SyncRequest
=============================================================================
