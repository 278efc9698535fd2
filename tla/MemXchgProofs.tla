---------------------------- MODULE MemXchgProofs ----------------------------
(***************************************************************************)
(* Proofs about MemXchg, for any number of rounds and spurious wake-ups.   *)
(***************************************************************************)
EXTENDS MemXchg, TLAPS

\* In the initial state nobody has started.
LEMMA InitIInv == Init => IInv
<1> SUFFICES ASSUME Init PROVE IInv
  OBVIOUS
<1>1. TypeOK
  BY MemXchgAssumption DEF Init, TypeOK, Rounds, Thread, LockVar
<1>2. SectionsExclusive
  BY DEF Init, SectionsExclusive, InBuffer, LockVar
<1> QED
  BY <1>1, <1>2 DEF Init, IInv, ReadyFirst, DestroyedIdle, HandshakeExact,
                    RoundsExact, Thread

\* What main() does before the threads run and after they have ended.
LEMMA MainKeepsIInv == IInv /\ Main => IInv'
<1> SUFFICES ASSUME IInv, Main PROVE IInv'
  OBVIOUS
<1> USE DEF IInv, TypeOK, ReadyFirst, DestroyedIdle, HandshakeExact, RoundsExact,
            SectionsExclusive, InBuffer, Thread, LockVar, More, Rounds, threads
<1>1. CASE Create
  BY <1>1, MemXchgAssumption DEF Create, Go
<1>2. CASE Join
  BY <1>2, MemXchgAssumption DEF Join
<1>3. CASE Destroy
  BY <1>3, MemXchgAssumption DEF Destroy
<1> QED
  BY <1>1, <1>2, <1>3 DEF Main

\* The handshake: a step under the mutex, a wake-up or the wait for it.
LEMMA HandshakeKeepsIInv ==
  ASSUME IInv, NEW t \in Thread,
         \/ Acquire(t) \/ Unlock(t) \/ WakeUp
         \/ t = "producer" /\ (SetReady \/ Signal)
         \/ t = "consumer" /\ (Wait \/ SeeReady)
  PROVE  IInv'
<1> USE DEF IInv, TypeOK, ReadyFirst, DestroyedIdle, HandshakeExact, RoundsExact,
            SectionsExclusive, InBuffer, Thread, LockVar, More, Rounds, Go
<1>1. CASE Acquire(t)
  BY <1>1, MemXchgAssumption DEF Acquire
<1>2. CASE Unlock(t)
  BY <1>2, MemXchgAssumption DEF Unlock
<1>3. CASE WakeUp
  BY <1>3, MemXchgAssumption DEF WakeUp
<1>4. CASE t = "producer" /\ SetReady
  BY <1>4, MemXchgAssumption DEF SetReady
<1>5. CASE t = "producer" /\ Signal
  BY <1>5, MemXchgAssumption DEF Signal
<1>6. CASE t = "consumer" /\ Wait
  BY <1>6, MemXchgAssumption DEF Wait, NotReady
<1>7. CASE t = "consumer" /\ SeeReady
  BY <1>7, MemXchgAssumption DEF SeeReady, NotReady
<1> QED
  BY <1>1, <1>2, <1>3, <1>4, <1>5, <1>6, <1>7

\* A thread that takes a free lock is alone at its buffer.
LEMMA EnterKeepsIInv ==
  ASSUME IInv, NEW t \in Thread,
         NEW from, NEW l \in LockVar, NEW to, Enter(t, from, l, to),
         \/ from = "loop" /\ l = "lock1" /\ to = "buf1" /\ More(t)
         \/ from = "between" /\ l = "lock2" /\ to = "buf2"
  PROVE  IInv'
<1> USE DEF IInv, TypeOK, ReadyFirst, DestroyedIdle, HandshakeExact, RoundsExact,
            Thread, LockVar, More, Rounds, Go, Enter, LOCK
<1>1. TypeOK'
  BY MemXchgAssumption
<1>2. ReadyFirst' /\ DestroyedIdle' /\ HandshakeExact'
  BY MemXchgAssumption
<1>3. RoundsExact'
  BY MemXchgAssumption
<1>4. \A m \in LockVar : InBuffer(m) = {spin[m]} \ {"nobody"}
  BY DEF SectionsExclusive
<1>5. InBuffer(l)' = {t}
  BY <1>4 DEF InBuffer
<1>6. \A m \in LockVar : m # l => InBuffer(m)' = InBuffer(m)
  BY DEF InBuffer
<1>7. SectionsExclusive'
  BY <1>4, <1>5, <1>6 DEF SectionsExclusive
<1> QED
  BY <1>1, <1>2, <1>3, <1>7

\* The rounds: a thread enters a buffer whose lock is free, and leaves it.
LEMMA RoundKeepsIInv ==
  ASSUME IInv, NEW t \in Thread,
         First(t) \/ Between(t) \/ Second(t) \/ Last(t) \/ Exit(t)
  PROVE  IInv'
<1> USE DEF IInv, TypeOK, ReadyFirst, DestroyedIdle, HandshakeExact, RoundsExact,
            SectionsExclusive, InBuffer, Thread, LockVar, More, Rounds, Go
<1>1. CASE First(t)
  BY <1>1, EnterKeepsIInv DEF First
<1>2. CASE Between(t)
  BY <1>2, MemXchgAssumption DEF Between, UNLOCK
<1>3. CASE Second(t)
  BY <1>3, EnterKeepsIInv DEF Second
<1>4. CASE Last(t)
  BY <1>4, MemXchgAssumption DEF Last, UNLOCK, NextRound
<1>5. CASE Exit(t)
  BY <1>5, MemXchgAssumption DEF Exit
<1> QED
  BY <1>1, <1>2, <1>3, <1>4, <1>5

\* The handshake, the rounds and the join fit together, for any number of them.
THEOREM MemXchgInvariant == Spec => []IInv
<1>1. ASSUME IInv, [Next]_vars
      PROVE  IInv'
  <2>1. CASE Main
    BY <1>1, <2>1, MainKeepsIInv
  <2>2. ASSUME NEW t \in Thread, Run(t)
        PROVE  IInv'
    BY <1>1, <2>2, HandshakeKeepsIInv, RoundKeepsIInv DEF Run
  <2>3. CASE WakeUp
    BY <1>1, <2>3, HandshakeKeepsIInv DEF Thread
  <2>4. CASE UNCHANGED vars
    BY <1>1, <2>4 DEF vars, threads, IInv, TypeOK, ReadyFirst, DestroyedIdle,
         HandshakeExact, RoundsExact, SectionsExclusive, InBuffer, More
  <2> QED
    BY <1>1, <2>1, <2>2, <2>3, <2>4 DEF Next, Finished
<1> QED
  BY <1>1, InitIInv, PTL DEF Spec

\* Writer and reader are never at the same buffer.
THEOREM MemXchgSectionsExclusive == Spec => []SectionsExclusive
<1>1. IInv => SectionsExclusive
  BY DEF IInv
<1> QED
  BY <1>1, MemXchgInvariant, PTL
=============================================================================
