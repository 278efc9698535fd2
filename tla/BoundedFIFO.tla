----------------------------- MODULE BoundedFIFO -----------------------------
(***************************************************************************)
(* What io-read/queue.h promises: a FIFO of at most Capacity elements,     *)
(* each handed to one caller of queue_pop.  A call that cannot proceed     *)
(* waits, which is no step here.                                           *)
(***************************************************************************)
EXTENDS Naturals, Sequences

CONSTANTS Consumers, Elements, Capacity

VARIABLES fifo,  \* the elements between a push and their pop
          elem   \* what the last queue_pop of each consumer returned
vars == <<fifo, elem>>

Init == fifo = <<>> /\ elem \in [Consumers -> Elements]

Push(e) == /\ Len(fifo) < Capacity
           /\ fifo' = Append(fifo, e)
           /\ UNCHANGED elem
Pop(c) == /\ fifo # <<>>
          /\ elem' = [elem EXCEPT ![c] = Head(fifo)]
          /\ fifo' = Tail(fifo)

Next == (\E e \in Elements : Push(e)) \/ (\E c \in Consumers : Pop(c))
Spec == Init /\ [][Next]_vars
=============================================================================
