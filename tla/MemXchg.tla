-------------------------------- MODULE MemXchg --------------------------------
(***************************************************************************)
(* memxchg/main.c: a producer writes two buffers NLOOPS - 1 times, a       *)
(* consumer, which first waits for the producer's "ready" on a condition   *)
(* variable, reads them NLOOPS times, and main() joins both and destroys   *)
(* the locks.  A buffer is used under a spin lock of its own: LOCK(l) and  *)
(* UNLOCK(l) are pthread_spin_lock(l) and its counterpart.                 *)
(***************************************************************************)
EXTENDS Integers

CONSTANTS NLOOPS,
          MaxSpurious    \* bound on the wake-ups without a signal

ASSUME MemXchgAssumption == NLOOPS \in Nat \ {0} /\ MaxSpurious \in Nat

Thread == {"producer", "consumer"}
LockVar == {"lock1", "lock2"}

VARIABLES at,        \* thread -> where it is
          j,         \* thread -> its loop index
          flag,      \* arg.flag
          mutex,     \* the holder of arg.mutex, or "nobody"
          spin,      \* lock -> its holder, or "nobody"
          spurious,
          main       \* where main() is
threads == <<at, j, flag, mutex, spin, spurious>>
vars == <<threads, main>>

Init == /\ at = [t \in Thread |-> "new"]
        /\ j = [t \in Thread |-> 0]
        /\ flag = "not_ready"
        /\ mutex = "nobody"
        /\ spin = [l \in LockVar |-> "nobody"]
        /\ spurious = 0
        /\ main = "create0"

Go(t, from, to) == at[t] = from /\ at' = [at EXCEPT ![t] = to]

\* The two pthread_create.
Create == /\ \/ main = "create0" /\ main' = "create1" /\ Go("producer", "new", "lock")
             \/ main = "create1" /\ main' = "join" /\ Go("consumer", "new", "lock")
          /\ UNCHANGED <<j, flag, mutex, spin, spurious>>

\* pthread_mutex_lock, and the end of pthread_cond_wait.
Acquire(t) == /\ Go(t, "lock", IF t = "producer" THEN "set" ELSE "test")
              /\ mutex = "nobody"
              /\ mutex' = t
              /\ UNCHANGED <<j, flag, spin, spurious, main>>
SetReady == /\ Go("producer", "set", "signal")
            /\ flag' = "ready"
            /\ UNCHANGED <<j, mutex, spin, spurious, main>>
\* pthread_cond_signal wakes the consumer if it waits.
Signal == /\ at["producer"] = "signal"
          /\ at' = [t \in Thread |->
                      IF t = "producer" THEN "unlock"
                      ELSE IF at[t] = "sleep" THEN "lock" ELSE at[t]]
          /\ UNCHANGED <<j, flag, mutex, spin, spurious, main>>
Unlock(t) == /\ Go(t, "unlock", "loop")
             /\ mutex' = "nobody"
             /\ UNCHANGED <<j, flag, spin, spurious, main>>

\* while (arg->flag != ready) wait; a mutant does not look.
NeverWait == FALSE
NotReady == flag # "ready"
Wait == /\ NotReady
        /\ Go("consumer", "test", "sleep")
        /\ mutex' = "nobody"
        /\ UNCHANGED <<j, flag, spin, spurious, main>>
WakeUp == /\ spurious < MaxSpurious
          /\ Go("consumer", "sleep", "lock")
          /\ spurious' = spurious + 1
          /\ UNCHANGED <<j, flag, mutex, spin, main>>
SeeReady == /\ ~NotReady
            /\ Go("consumer", "test", "unlock")
            /\ UNCHANGED <<j, flag, mutex, spin, spurious, main>>
-----------------------------------------------------------------------------
\* LOCK waits until the lock is free; a mutant is a macro that drops its
\* argument, as MUTEX_LOCK does, and so calls nothing.
NoCall(t, l) == UNCHANGED spin
LOCK(t, l) == spin[l] = "nobody" /\ spin' = [spin EXCEPT ![l] = t]
UNLOCK(l) == spin' = [spin EXCEPT ![l] = "nobody"]

\* A thread's own number of rounds.
Rounds(t) == IF t = "producer" THEN NLOOPS - 1 ELSE NLOOPS

Enter(t, from, l, to) == /\ Go(t, from, to)
                         /\ LOCK(t, l)
                         /\ UNCHANGED <<j, flag, mutex, spurious, main>>
\* A mutant does not count.
More(t) == j[t] < Rounds(t)
SameRound(t) == j[t]
NextRound(t) == j[t] + 1
First(t) == More(t) /\ Enter(t, "loop", "lock1", "buf1")
\* The loop over buf1, UNLOCK, LOCK; then the same for buf2 and j++.
Between(t) == /\ Go(t, "buf1", "between")
              /\ UNLOCK("lock1")
              /\ UNCHANGED <<j, flag, mutex, spurious, main>>
Second(t) == Enter(t, "between", "lock2", "buf2")
Last(t) == /\ Go(t, "buf2", "loop")
           /\ UNLOCK("lock2")
           /\ j' = [j EXCEPT ![t] = NextRound(t)]
           /\ UNCHANGED <<flag, mutex, spurious, main>>
Exit(t) == /\ ~More(t)
           /\ Go(t, "loop", "exit")
           /\ UNCHANGED <<j, flag, mutex, spin, spurious, main>>

\* main() joins both threads and destroys the locks.
Join == /\ main = "join" /\ main' = "destroy"
        /\ \A t \in Thread : at[t] = "exit"
        /\ UNCHANGED threads
Destroy == /\ main = "destroy" /\ main' = "destroyed"
           /\ UNCHANGED threads
Finished == main = "destroyed" /\ UNCHANGED vars

Run(t) == \/ Acquire(t) \/ Unlock(t)
          \/ First(t) \/ Between(t) \/ Second(t) \/ Last(t) \/ Exit(t)
          \/ t = "producer" /\ (SetReady \/ Signal)
          \/ t = "consumer" /\ (Wait \/ SeeReady)
Main == Create \/ Join \/ Destroy
Next == Main \/ (\E t \in Thread : Run(t)) \/ WakeUp \/ Finished

Spec == Init /\ [][Next]_vars
\* Every thread runs on; a sleeper needs its signal.
FairSpec == /\ Spec /\ WF_vars(Main)
            /\ \A t \in Thread : WF_vars(Run(t))
-----------------------------------------------------------------------------
TypeOK == /\ at \in [Thread -> {"new", "lock", "set", "signal", "test", "sleep",
                                "unlock", "loop", "buf1", "between", "buf2",
                                "exit"}]
          /\ j \in [Thread -> 0 .. NLOOPS]
          /\ \A t \in Thread : j[t] =< Rounds(t)
          /\ flag \in {"not_ready", "ready"}
          /\ mutex \in Thread \cup {"nobody"}
          /\ spin \in [LockVar -> Thread \cup {"nobody"}]
          /\ spurious \in 0 .. MaxSpurious
          /\ main \in {"create0", "create1", "join", "destroy", "destroyed"}

\* The consumer reads no buffer before the producer has said it is ready,
\* whatever wakes it.
ReadyFirst == at["consumer"] \in {"buf1", "between", "buf2", "exit"} =>
                flag = "ready" /\ at["producer"] \notin {"new", "lock", "set"}

\* When the mutex, the condition variable and the locks are destroyed nobody
\* holds, waits for or will ask for one of them, and all rounds are done.
DestroyedIdle == main \in {"destroy", "destroyed"} =>
  /\ mutex = "nobody" /\ \A l \in LockVar : spin[l] = "nobody"
  /\ \A t \in Thread : at[t] = "exit" /\ j[t] = Rounds(t)

\* A buffer is never written by one thread while the other uses it, and each
\* lock is held by the thread at its buffer and nobody else.
InBuffer(l) == {t \in Thread : at[t] = IF l = "lock1" THEN "buf1" ELSE "buf2"}
SectionsExclusive ==
  \A l \in LockVar : InBuffer(l) = {spin[l]} \ {"nobody"}

\* The mutex is held between lock and unlock, the flag set by the producer
\* before it signals and seen by the consumer before it goes on.
HandshakeExact ==
  /\ \A t \in Thread : at[t] \in {"set", "signal", "test", "unlock"} <=> mutex = t
  /\ flag = "ready" <=> at["producer"] \notin {"new", "lock", "set"}
  /\ at["consumer"] \in {"unlock", "loop"} => flag = "ready"
  /\ at["producer"] \notin {"test", "sleep"} /\ at["consumer"] \notin {"set", "signal"}

\* A round begun is one of the thread's rounds, and it leaves after the last.
RoundsExact == \A t \in Thread : /\ at[t] \in {"buf1", "between", "buf2"} => More(t)
                                 /\ at[t] = "exit" => ~More(t)

\* With the types, an inductive invariant: the handshake at the start and the
\* join at the end enclose every use of the buffers and of what guards them.
IInv == /\ TypeOK /\ ReadyFirst /\ DestroyedIdle
        /\ HandshakeExact /\ RoundsExact /\ SectionsExclusive

\* The signal is never lost to a consumer that looked before and waits after,
\* and both threads finish: one that spins on a lock gets it at the latest
\* when the other has done its rounds.
Terminates == <>(main = "destroyed")
=============================================================================
