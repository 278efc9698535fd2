------------------------------ MODULE MCK42Lock ------------------------------
(* Instances of K42Lock for TLC.                                            *)
EXTENDS K42Lock
==============================================================================
