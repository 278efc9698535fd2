------------------------------ MODULE MCT1Queue ------------------------------
(* Instances of T1Queue for TLC.                                             *)
EXTENDS T1Queue

BlockNumbers == -1 .. FullBlocks + MaxErrors
=============================================================================
