---------------------------- MODULE MCLocksBench ----------------------------
(* Instances of LocksBench for TLC.                                          *)
EXTENDS LocksBench
=============================================================================
