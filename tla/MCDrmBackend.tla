---------------------------- MODULE MCDrmBackend ----------------------------
(* Instances of DrmBackend for TLC. *)
EXTENDS DrmBackend
=============================================================================
