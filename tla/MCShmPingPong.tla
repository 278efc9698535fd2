---------------------------- MODULE MCShmPingPong ----------------------------
(* Instances of ShmPingPong for TLC.                                         *)
EXTENDS ShmPingPong
=============================================================================
