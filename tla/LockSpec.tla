------------------------------ MODULE LockSpec ------------------------------
(***************************************************************************)
(* What every lock of locks/ promises its callers, whatever the algorithm: *)
(* a line of callers of which only the first may be inside, served in the  *)
(* order in which they joined; a caller may only skip the line when it is  *)
(* empty.  ticketlock.c and k42.c implement all of it; spinlock.c and the  *)
(* TAS / TATAS loops of main.c never use the line for waiting (Join), so a *)
(* spinning caller has no place in it.                                     *)
(***************************************************************************)
EXTENDS Naturals, Sequences

CONSTANT Threads

VARIABLES line,   \* the callers that hold the lock or a place in the queue
          inside  \* the first of them has returned from its lock call

vars == <<line, inside>>

InLine(t) == \E k \in DOMAIN line : line[k] = t

Init == line = <<>> /\ inside = FALSE

\* A lock call takes its place behind every earlier one.
Join(t) == /\ ~InLine(t)
           /\ line' = Append(line, t)
           /\ UNCHANGED inside

\* The lock call of the first in line returns.
Enter(t) == /\ line # <<>> /\ Head(line) = t
            /\ ~inside
            /\ inside' = TRUE
            /\ UNCHANGED line

\* A call that finds the lock free takes it at once.
TryEnter(t) == /\ line = <<>>
               /\ line' = <<t>>
               /\ inside' = TRUE

\* The holder unlocks.
Leave(t) == /\ inside /\ Head(line) = t
            /\ line' = Tail(line)
            /\ inside' = FALSE

Next == \E t \in Threads : Join(t) \/ Enter(t) \/ TryEnter(t) \/ Leave(t)

Spec == Init /\ [][Next]_vars
=============================================================================
