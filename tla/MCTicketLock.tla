---------------------------- MODULE MCTicketLock ----------------------------
(* Instances of TicketLock for TLC.  The cfg files fix Threads and a small   *)
(* TicketMod, so that the numbers wrap within a few calls.                   *)
EXTENDS TicketLock
=============================================================================
