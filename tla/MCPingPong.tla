----------------------------- MODULE MCPingPong -----------------------------
(* Instances of PingPong for TLC.                                            *)
EXTENDS PingPong
=============================================================================
