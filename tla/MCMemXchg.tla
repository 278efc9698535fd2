------------------------------ MODULE MCMemXchg ------------------------------
(* Instances of MemXchg for TLC.                                             *)
EXTENDS MemXchg
=============================================================================
