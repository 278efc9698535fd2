----------------------------- MODULE MCSpinLock -----------------------------
(* An instance of SpinLock for TLC: all three builds, a few threads.         *)
EXTENDS SpinLock
=============================================================================
