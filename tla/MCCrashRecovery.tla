--------------------------- MODULE MCCrashRecovery ---------------------------
(* The instance of CrashRecovery that TLC checks.                          *)
EXTENDS CrashRecovery
=============================================================================
