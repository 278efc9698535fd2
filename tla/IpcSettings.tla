----------------------------- MODULE IpcSettings -----------------------------
(***************************************************************************)
(* ipc/common.c: what read_config takes from settings.cfg, which run.sh    *)
(* copies to all five programs of ipc/.                                    *)
(***************************************************************************)
EXTENDS Integers

CONSTANTS Sizes,       \* the message sizes run.sh writes there
          MaxMessages  \* bound on the number of messages

\* Below 3 not even the words fit into a message.
ASSUME IpcAssumption == Sizes \subseteq Nat \ 0 .. 2 /\ MaxMessages \in Nat

VARIABLES buffersiz, nmessages
settings == <<buffersiz, nmessages>>

ReadConfig == buffersiz \in Sizes /\ nmessages \in 0 .. MaxMessages
=============================================================================
