----------------------------- MODULE BoundedQueue -----------------------------
(***************************************************************************)
(* io-read/queue.[ch]: a ring buffer under a mutex, with one condition     *)
(* variable for "not full" and one for "not empty".  A call's steps are    *)
(* the points where the mutex changes hands; what is done under it in one  *)
(* go is one action.  pthread_cond_signal wakes one sleeper, if any, which *)
(* then competes for the mutex like everybody else; a sleeper may also     *)
(* wake for no reason (POSIX allows it), MaxSpurious times in all.         *)
(***************************************************************************)
EXTENDS Integers, Sequences, FiniteSets

CONSTANTS Producers, Consumers, Elements,
          NoOne,       \* no thread
          maxelems,    \* queue->maxelems
          MaxSpurious  \* bound on the wake-ups without a signal

ASSUME QueueAssumption == /\ IsFiniteSet(Producers) /\ IsFiniteSet(Consumers)
                          /\ Producers \cap Consumers = {}
                          /\ NoOne \notin Producers \cup Consumers
                          /\ Elements # {}
                          /\ maxelems \in Nat \ {0}
                          /\ MaxSpurious \in Nat

Threads == Producers \cup Consumers

VARIABLES data, nelem, head, tail,  \* the fields of queue_t
          lock,                     \* the holder of queue->lock, or NoOne
          pc,                       \* "sleep" is inside pthread_cond_wait
          elem,                     \* *data of each caller
          spurious
vars == <<data, nelem, head, tail, lock, pc, elem, spurious>>
ring == <<data, nelem, head, tail>>

Slots == 0 .. maxelems - 1

\* queue_init: malloc leaves anything in the slots.
Init == /\ data \in [Slots -> Elements]
        /\ nelem = 0 /\ head = 0 /\ tail = 0
        /\ lock = NoOne
        /\ pc = [t \in Threads |-> "out"]
        /\ elem \in [Threads -> Elements]
        /\ spurious = 0

Goto(t, from, to) == pc[t] = from /\ pc' = [pc EXCEPT ![t] = to]

\* The calls; each starts by asking for the mutex.
PushCall(p, e) == /\ p \in Producers
                  /\ Goto(p, "out", "lock")
                  /\ elem' = [elem EXCEPT ![p] = e]
                  /\ UNCHANGED <<ring, lock, spurious>>
PopCall(c) == /\ c \in Consumers
              /\ Goto(c, "out", "lock")
              /\ UNCHANGED <<ring, lock, elem, spurious>>

\* pthread_mutex_lock, or the end of pthread_cond_wait.
Acquire(t) == /\ Goto(t, "lock", "test")
              /\ lock = NoOne
              /\ lock' = t
              /\ UNCHANGED <<ring, elem, spurious>>

\* while (full) / while (empty): a mutant misjudges a queue with one free slot.
OffByOne(t) == IF t \in Producers THEN nelem = maxelems + 1 ELSE nelem = 0
MustWait(t) == IF t \in Producers THEN nelem = maxelems ELSE nelem = 0
\* pthread_cond_wait gives the mutex up.
GivenUp(t) == NoOne
Sleep(t) == /\ Goto(t, "test", "sleep")
            /\ MustWait(t)
            /\ lock' = GivenUp(t)
            /\ UNCHANGED <<ring, elem, spurious>>

\* The body under the mutex: copy, advance modulo maxelems, count.
Advance(n) == (n + 1) % maxelems
Put(p) == /\ p \in Producers
          /\ Goto(p, "test", "signal")
          /\ ~MustWait(p)
          /\ data' = [data EXCEPT ![head] = elem[p]]
          /\ head' = Advance(head)
          /\ nelem' = nelem + 1
          /\ UNCHANGED <<tail, lock, elem, spurious>>
Take(c) == /\ c \in Consumers
           /\ Goto(c, "test", "signal")
           /\ ~MustWait(c)
           /\ elem' = [elem EXCEPT ![c] = data[tail]]
           /\ tail' = Advance(tail)
           /\ nelem' = nelem - 1
           /\ UNCHANGED <<data, head, lock, spurious>>

\* pthread_cond_signal on the other side's variable; a mutant signals
\* only when the queue was empty (full) before.
OnlyAtEdge(t) == IF t \in Producers
                 THEN IF nelem = 1 THEN Consumers ELSE {}
                 ELSE IF nelem = maxelems - 1 THEN Producers ELSE {}
OtherSide(t) == IF t \in Producers THEN Consumers ELSE Producers
Signal(t) == LET sleepers == {w \in OtherSide(t) : pc[w] = "sleep"}
             IN /\ pc[t] = "signal"
                /\ \/ /\ sleepers = {}
                      /\ pc' = [pc EXCEPT ![t] = "unlock"]
                   \/ \E w \in sleepers :
                        pc' = [pc EXCEPT ![t] = "unlock", ![w] = "lock"]
                /\ UNCHANGED <<ring, lock, elem, spurious>>

Unlock(t) == /\ Goto(t, "unlock", "out")
             /\ lock' = NoOne
             /\ UNCHANGED <<ring, elem, spurious>>

WakeUp(t) == /\ Goto(t, "sleep", "lock")
             /\ spurious < MaxSpurious
             /\ spurious' = spurious + 1
             /\ UNCHANGED <<ring, lock, elem>>

\* What a call does by itself; a sleeper depends on the others.
Step(t) == \/ Acquire(t) \/ Sleep(t) \/ Put(t) \/ Take(t)
           \/ Signal(t) \/ Unlock(t)
Next == \E t \in Threads : \/ \E e \in Elements : PushCall(t, e)
                           \/ PopCall(t)
                           \/ Step(t)
                           \/ WakeUp(t)

Spec == Init /\ [][Next]_vars
-----------------------------------------------------------------------------
InMutex(t) == pc[t] \in {"test", "signal", "unlock"}

TypeOK == /\ data \in [Slots -> Elements]
          /\ nelem \in 0 .. maxelems /\ head \in Slots /\ tail \in Slots
          /\ lock \in Threads \cup {NoOne}
          /\ pc \in [Threads -> {"out", "lock", "test", "sleep", "signal",
                                 "unlock"}]
          /\ elem \in [Threads -> Elements]
          /\ spurious \in 0 .. MaxSpurious

\* One caller at a time is between its mutex_lock and its mutex_unlock, and
\* the mutex is never left locked by a call that returned or sleeps.
LockExact == \A t \in Threads : InMutex(t) <=> lock = t

\* The three indexes agree: head is nelem slots ahead of tail.
RingExact == head = IF tail + nelem < maxelems THEN tail + nelem
                                               ELSE tail + nelem - maxelems

\* No wake-up is lost: while consumers sleep, each element in the queue has a
\* consumer awake that will look, or the push that brought it is still to
\* signal; and so for producers and free slots.
Sleeping(place, S) == {t \in S : place[t] = "sleep"}
Waking(place, S) == {t \in S : place[t] \in {"lock", "test"}}
Signalling(place, O) == {t \in O : place[t] = "signal"}
Covered(place, S, O, q) ==
  Sleeping(place, S) # {} =>
    q =< Cardinality(Waking(place, S)) + Cardinality(Signalling(place, O))
NoLostWakeUp == /\ Covered(pc, Consumers, Producers, nelem)
                /\ Covered(pc, Producers, Consumers, maxelems - nelem)

IInv == TypeOK /\ LockExact /\ RingExact /\ NoLostWakeUp

\* queue.c is a BoundedFIFO: elements come out once each, in the order in
\* which they went in, each into the memory of the caller that took it.
Contents == [x \in 1 .. nelem |-> data[(tail + x - 1) % maxelems]]
Abstract == INSTANCE BoundedFIFO WITH
  fifo <- Contents, elem <- [c \in Consumers |-> elem[c]],
  Capacity <- maxelems
RefinesFIFO == Abstract!Spec
=============================================================================
