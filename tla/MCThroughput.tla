----------------------------- MODULE MCThroughput -----------------------------
(* Instances of Throughput for TLC.                                          *)
EXTENDS Throughput
=============================================================================
