------------------------- MODULE BoundedQueueProofs -------------------------
(***************************************************************************)
(* Proofs about BoundedQueue for any finite sets of callers, any elements  *)
(* and any capacity: they cite QueueAssumption alone.  NoLostWakeUp counts *)
(* callers, so its proof needs what one caller's step does to the sets it  *)
(* counts: the lemmas below, stated for one side S, the other side O, and  *)
(* what they exchange (elements, or free slots), so that they serve both   *)
(* sides.  Then the same about T1Queue, which uses the queue, for any      *)
(* number of workers, of blocks and of slots.                              *)
(***************************************************************************)
EXTENDS T1Queue, FiniteSetTheorems, SequenceTheorems, TLAPS

Places == {"out", "lock", "test", "sleep", "signal", "unlock"}

\* The sets that Covered counts are finite, as their sides are.
LEMMA CountsAreNats ==
  ASSUME NEW S, IsFiniteSet(S), NEW O, IsFiniteSet(O), NEW f
  PROVE  /\ IsFiniteSet(Waking(f, S)) /\ Cardinality(Waking(f, S)) \in Nat
         /\ IsFiniteSet(Signalling(f, O))
         /\ Cardinality(Signalling(f, O)) \in Nat
<1>1. Waking(f, S) \subseteq S /\ Signalling(f, O) \subseteq O
  BY DEF Waking, Signalling
<1>2. IsFiniteSet(Waking(f, S)) /\ IsFiniteSet(Signalling(f, O))
  BY <1>1, FS_Subset
<1> QED
  BY <1>2, FS_CardinalityType

\* A caller of side S that starts, or wakes, is one more that will look.
LEMMA StartingKeepsCovered ==
  ASSUME NEW S, IsFiniteSet(S), NEW O, IsFiniteSet(O), S \cap O = {},
         NEW f \in [S \cup O -> Places], NEW q \in Int, NEW t \in S,
         f[t] \in {"out", "sleep"}, Covered(f, S, O, q)
  PROVE  Covered([f EXCEPT ![t] = "lock"], S, O, q)
<1> DEFINE g == [f EXCEPT ![t] = "lock"]
<1>1. t \notin Waking(f, S) /\ Waking(g, S) = Waking(f, S) \cup {t}
  BY DEF Waking, Places
<1>2. Signalling(g, O) = Signalling(f, O)
  BY DEF Signalling
<1>3. Cardinality(Waking(g, S)) = Cardinality(Waking(f, S)) + 1
  BY <1>1, CountsAreNats, FS_AddElement
<1>4. Sleeping(g, S) # {} => Sleeping(f, S) # {}
  BY DEF Sleeping
<1>5. /\ Cardinality(Waking(f, S)) \in Nat
      /\ Cardinality(Signalling(f, O)) \in Nat
  BY CountsAreNats
<1> HIDE DEF g
<1>6. Covered(g, S, O, q)
  BY <1>2, <1>3, <1>4, <1>5 DEF Covered
<1> QED
  BY <1>6 DEF g

\* A caller of side S takes one of what it came for.
LEMMA TakingKeepsCovered ==
  ASSUME NEW S, IsFiniteSet(S), NEW O, IsFiniteSet(O), S \cap O = {},
         NEW f \in [S \cup O -> Places], NEW q \in Int, NEW t \in S,
         f[t] = "test", Covered(f, S, O, q)
  PROVE  Covered([f EXCEPT ![t] = "signal"], S, O, q - 1)
<1> DEFINE g == [f EXCEPT ![t] = "signal"]
<1>1. t \in Waking(f, S) /\ Waking(g, S) = Waking(f, S) \ {t}
  BY DEF Waking, Places
<1>2. Signalling(g, O) = Signalling(f, O)
  BY DEF Signalling
<1>3. Cardinality(Waking(g, S)) = Cardinality(Waking(f, S)) - 1
  BY <1>1, CountsAreNats, FS_RemoveElement
<1>4. Sleeping(g, S) # {} => Sleeping(f, S) # {}
  BY DEF Sleeping
<1>5. /\ Cardinality(Waking(f, S)) \in Nat
      /\ Cardinality(Signalling(f, O)) \in Nat
  BY CountsAreNats
<1> HIDE DEF g
<1>6. Covered(g, S, O, q - 1)
  BY <1>2, <1>3, <1>4, <1>5 DEF Covered
<1> QED
  BY <1>6 DEF g

\* A caller of side O brings one more, and is yet to signal.
LEMMA BringingKeepsCovered ==
  ASSUME NEW S, IsFiniteSet(S), NEW O, IsFiniteSet(O), S \cap O = {},
         NEW f \in [S \cup O -> Places], NEW q \in Int, NEW t \in O,
         f[t] = "test", Covered(f, S, O, q)
  PROVE  Covered([f EXCEPT ![t] = "signal"], S, O, q + 1)
<1> DEFINE g == [f EXCEPT ![t] = "signal"]
<1>1. t \notin Signalling(f, O) /\ Signalling(g, O) = Signalling(f, O) \cup {t}
  BY DEF Signalling, Places
<1>2. Waking(g, S) = Waking(f, S)
  BY DEF Waking
<1>3. Cardinality(Signalling(g, O)) = Cardinality(Signalling(f, O)) + 1
  BY <1>1, CountsAreNats, FS_AddElement
<1>4. Sleeping(g, S) # {} => Sleeping(f, S) # {}
  BY DEF Sleeping
<1>5. /\ Cardinality(Waking(f, S)) \in Nat
      /\ Cardinality(Signalling(f, O)) \in Nat
  BY CountsAreNats
<1> HIDE DEF g
<1>6. Covered(g, S, O, q + 1)
  BY <1>2, <1>3, <1>4, <1>5 DEF Covered
<1> QED
  BY <1>6 DEF g

\* The signal of a caller of side O wakes a sleeper of side S.
LEMMA SignalKeepsCovered ==
  ASSUME NEW S, IsFiniteSet(S), NEW O, IsFiniteSet(O), S \cap O = {},
         NEW f \in [S \cup O -> Places], NEW q \in Int,
         NEW t \in O, f[t] = "signal", NEW w \in S, f[w] = "sleep",
         Covered(f, S, O, q)
  PROVE  Covered([f EXCEPT ![t] = "unlock", ![w] = "lock"], S, O, q)
<1> DEFINE g == [f EXCEPT ![t] = "unlock", ![w] = "lock"]
<1>1. w \notin Waking(f, S) /\ Waking(g, S) = Waking(f, S) \cup {w}
  BY DEF Waking, Places
<1>2. t \in Signalling(f, O) /\ Signalling(g, O) = Signalling(f, O) \ {t}
  BY DEF Signalling, Places
<1>3. /\ Cardinality(Waking(g, S)) = Cardinality(Waking(f, S)) + 1
      /\ Cardinality(Signalling(g, O)) = Cardinality(Signalling(f, O)) - 1
  <2>1. IsFiniteSet(Waking(f, S)) /\ IsFiniteSet(Signalling(f, O))
    BY CountsAreNats
  <2> HIDE DEF g
  <2>2. Cardinality(Waking(g, S)) = Cardinality(Waking(f, S)) + 1
    BY <1>1, <2>1, FS_AddElement
  <2>3. Cardinality(Signalling(g, O)) = Cardinality(Signalling(f, O)) - 1
    BY <1>2, <2>1, FS_RemoveElement
  <2> QED
    BY <2>2, <2>3
<1>4. Sleeping(f, S) # {}
  BY DEF Sleeping
<1>5. /\ Cardinality(Waking(f, S)) \in Nat
      /\ Cardinality(Signalling(f, O)) \in Nat
  BY CountsAreNats
<1> HIDE DEF g
<1>6. Covered(g, S, O, q)
  BY <1>3, <1>4, <1>5 DEF Covered
<1> QED
  BY <1>6 DEF g

\* Steps that move nobody in or out of the sets that are counted.
LEMMA BystandersKeepCovered ==
  ASSUME NEW S, NEW O, NEW f, NEW g, NEW q,
         Sleeping(g, S) \subseteq Sleeping(f, S),
         Waking(g, S) = Waking(f, S), Signalling(g, O) = Signalling(f, O),
         Covered(f, S, O, q)
  PROVE  Covered(g, S, O, q)
BY DEF Covered

----------------------------------------------------------------------------
\* The index of the next slot, without the modulus.
LEMMA AdvanceValue ==
  ASSUME NEW x \in Slots
  PROVE  /\ Advance(x) \in Slots
         /\ Advance(x) = IF x = maxelems - 1 THEN 0 ELSE x + 1
<1>1. maxelems \in Nat /\ maxelems > 0
  BY QueueAssumption
<1>2. CASE x = maxelems - 1
  <2>1. (x + 1) % maxelems = 0
    BY <1>1, <1>2, SMT
  <2> QED
    BY <2>1, <1>1, <1>2 DEF Advance, Slots
<1>3. CASE x # maxelems - 1
  <2>1. x + 1 \in 0 .. maxelems - 1
    BY <1>1, <1>3 DEF Slots
  <2>2. (x + 1) % maxelems = x + 1
    BY <1>1, <2>1, SMT
  <2> QED
    BY <2>1, <2>2, <1>3 DEF Advance, Slots
<1> QED
  BY <1>2, <1>3

\* The mutex is held exactly by the caller that is between lock and unlock, so
\* nobody else is inside while one works on the ring.
Basic == TypeOK /\ LockExact /\ RingExact

LEMMA NextKeepsBasic == Basic /\ [Next]_vars => Basic'
<1> SUFFICES ASSUME Basic, [Next]_vars
             PROVE  Basic'
  OBVIOUS
<1> USE QueueAssumption DEF Basic, TypeOK, LockExact, InMutex, Goto, ring, Threads
<1>1. ASSUME NEW t \in Threads, NEW e \in Elements, PushCall(t, e)
      PROVE  Basic'
  BY <1>1 DEF PushCall, RingExact
<1>2. ASSUME NEW t \in Threads, PopCall(t)
      PROVE  Basic'
  BY <1>2 DEF PopCall, RingExact
<1>3. ASSUME NEW t \in Threads, Acquire(t)
      PROVE  Basic'
  BY <1>3 DEF Acquire, RingExact
<1>4. ASSUME NEW t \in Threads, Sleep(t)
      PROVE  Basic'
  BY <1>4 DEF Sleep, GivenUp, RingExact
<1>5. ASSUME NEW t \in Threads, Put(t)
      PROVE  Basic'
  <2>1. nelem < maxelems
    BY <1>5 DEF Put, MustWait
  <2>2. /\ head' \in Slots
        /\ head' = IF head = maxelems - 1 THEN 0 ELSE head + 1
    BY <1>5, AdvanceValue DEF Put
  <2>3. RingExact'
    BY <1>5, <2>1, <2>2 DEF Put, RingExact, Slots
  <2>4. TypeOK'
    BY <1>5, <2>1, <2>2 DEF Put
  <2>5. LockExact'
    BY <1>5 DEF Put
  <2> QED
    BY <2>3, <2>4, <2>5
<1>6. ASSUME NEW t \in Threads, Take(t)
      PROVE  Basic'
  <2>1. nelem > 0
    BY <1>6 DEF Take, MustWait
  <2>2. /\ tail' \in Slots
        /\ tail' = IF tail = maxelems - 1 THEN 0 ELSE tail + 1
    BY <1>6, AdvanceValue DEF Take
  <2>3. RingExact'
    BY <1>6, <2>1, <2>2 DEF Take, RingExact, Slots
  <2>4. TypeOK'
    BY <1>6, <2>1, <2>2 DEF Take
  <2>5. LockExact'
    BY <1>6 DEF Take
  <2> QED
    BY <2>3, <2>4, <2>5
<1>7. ASSUME NEW t \in Threads, Signal(t)
      PROVE  Basic'
  BY <1>7 DEF Signal, OtherSide, RingExact
<1>8. ASSUME NEW t \in Threads, Unlock(t)
      PROVE  Basic'
  BY <1>8 DEF Unlock, RingExact
<1>9. ASSUME NEW t \in Threads, WakeUp(t)
      PROVE  Basic'
  BY <1>9 DEF WakeUp, RingExact
<1>10. CASE UNCHANGED vars
  BY <1>10 DEF vars, RingExact
<1> QED
  BY <1>1, <1>2, <1>3, <1>4, <1>5, <1>6, <1>7, <1>8, <1>9, <1>10
  DEF Next, Step

----------------------------------------------------------------------------
\* What the lemmas above ask of the two sides.
LEMMA Sides ==
  /\ IsFiniteSet(Producers) /\ IsFiniteSet(Consumers)
  /\ Producers \cap Consumers = {} /\ Consumers \cap Producers = {}
  /\ Threads = Producers \cup Consumers /\ Threads = Consumers \cup Producers
  /\ maxelems \in Int
BY QueueAssumption DEF Threads

\* A step that changes the place of one caller from and to places that are not
\* counted, or between the two that count as waking, is a bystander's.
LEMMA QuietMove ==
  ASSUME NEW S, NEW O, S \cap O = {}, NEW f \in [S \cup O -> Places], NEW q,
         NEW t \in S \cup O, NEW to,
         \/ f[t] = "lock" /\ to = "test"
         \/ f[t] = "unlock" /\ to = "out"
         \/ f[t] = "signal" /\ to = "unlock" /\ t \in S
         \/ f[t] = "out" /\ to = "lock" /\ t \in O
         \/ f[t] = "sleep" /\ to = "lock" /\ t \in O
         \/ f[t] = "test" /\ to = "sleep" /\ t \in O,
         Covered(f, S, O, q)
  PROVE  Covered([f EXCEPT ![t] = to], S, O, q)
<1> DEFINE g == [f EXCEPT ![t] = to]
<1>1. Sleeping(g, S) \subseteq Sleeping(f, S)
  BY DEF Sleeping
<1>2. Waking(g, S) = Waking(f, S)
  BY DEF Waking
<1>3. Signalling(g, O) = Signalling(f, O)
  BY DEF Signalling
<1> QED
  BY <1>1, <1>2, <1>3, BystandersKeepCovered

\* Every step keeps every element, and every free slot, covered.
LEMMA NextKeepsNoLostWakeUp ==
  Basic /\ NoLostWakeUp /\ [Next]_vars => NoLostWakeUp'
<1> SUFFICES ASSUME Basic, NoLostWakeUp, [Next]_vars
             PROVE  NoLostWakeUp'
  OBVIOUS
<1> DEFINE C(f, q) == Covered(f, Consumers, Producers, q)
           P(f, q) == Covered(f, Producers, Consumers, maxelems - q)
<1>0. /\ pc \in [Consumers \cup Producers -> Places]
      /\ pc \in [Producers \cup Consumers -> Places]
      /\ nelem \in Int /\ maxelems - nelem \in Int
      /\ C(pc, nelem) /\ P(pc, nelem)
  BY Sides, QueueAssumption DEF Basic, TypeOK, Places, NoLostWakeUp, Threads
<1>1. ASSUME NEW t \in Threads,
             \/ Goto(t, "lock", "test") \/ Goto(t, "unlock", "out"),
             UNCHANGED nelem
      PROVE  NoLostWakeUp'
  <2>1. PICK to : /\ pc' = [pc EXCEPT ![t] = to]
                  /\ \/ pc[t] = "lock" /\ to = "test"
                     \/ pc[t] = "unlock" /\ to = "out"
    BY <1>1 DEF Goto
  <2>2. C(pc', nelem)
    BY <2>1, <1>0, Sides, QuietMove
  <2>3. P(pc', nelem)
    BY <2>1, <1>0, Sides, QuietMove
  <2> QED
    BY <2>2, <2>3, <1>1 DEF NoLostWakeUp
<1>2. ASSUME NEW t \in Threads,
             Goto(t, "out", "lock") \/ Goto(t, "sleep", "lock"),
             UNCHANGED nelem
      PROVE  NoLostWakeUp'
  <2>1. /\ pc[t] \in {"out", "sleep"} /\ pc' = [pc EXCEPT ![t] = "lock"]
        /\ pc[t] = "out" \/ pc[t] = "sleep"
    BY <1>2 DEF Goto
  <2>2. CASE t \in Consumers
    <3>1. C(pc', nelem)
      BY <2>1, <2>2, <1>0, Sides, StartingKeepsCovered
    <3>2. P(pc', nelem)
      BY <2>1, <2>2, <1>0, Sides, QuietMove
    <3> QED
      BY <3>1, <3>2, <1>2 DEF NoLostWakeUp
  <2>3. CASE t \in Producers
    <3>1. P(pc', nelem)
      BY <2>1, <2>3, <1>0, Sides, StartingKeepsCovered
    <3>2. C(pc', nelem)
      BY <2>1, <2>3, <1>0, Sides, QuietMove
    <3> QED
      BY <3>1, <3>2, <1>2 DEF NoLostWakeUp
  <2> QED
    BY <2>2, <2>3, Sides
<1>3. ASSUME NEW t \in Threads, Sleep(t)
      PROVE  NoLostWakeUp'
  <2>1. pc[t] = "test" /\ pc' = [pc EXCEPT ![t] = "sleep"] /\ UNCHANGED nelem
    BY <1>3 DEF Sleep, Goto, ring
  <2>2. CASE t \in Consumers
    <3>1. nelem = 0
      BY <1>3, <2>2, Sides DEF Sleep, MustWait
    <3>2. C(pc', nelem)
      <4>1. /\ Cardinality(Waking(pc', Consumers)) \in Nat
            /\ Cardinality(Signalling(pc', Producers)) \in Nat
        BY Sides, CountsAreNats
      <4> QED
        BY <3>1, <4>1 DEF Covered
    <3>3. P(pc', nelem)
      BY <2>1, <2>2, <1>0, Sides, QuietMove
    <3> QED
      BY <3>2, <3>3, <2>1 DEF NoLostWakeUp
  <2>3. CASE t \in Producers
    <3>1. maxelems - nelem = 0
      BY <1>3, <2>3, <1>0, Sides DEF Sleep, MustWait
    <3>2. P(pc', nelem)
      <4>1. /\ Cardinality(Waking(pc', Producers)) \in Nat
            /\ Cardinality(Signalling(pc', Consumers)) \in Nat
        BY Sides, CountsAreNats
      <4> QED
        BY <3>1, <4>1 DEF Covered
    <3>3. C(pc', nelem)
      BY <2>1, <2>3, <1>0, Sides, QuietMove
    <3> QED
      BY <3>2, <3>3, <2>1 DEF NoLostWakeUp
  <2> QED
    BY <2>2, <2>3, Sides
<1>4. ASSUME NEW t \in Threads, Put(t)
      PROVE  NoLostWakeUp'
  <2>1. /\ t \in Producers /\ pc[t] = "test"
        /\ pc' = [pc EXCEPT ![t] = "signal"] /\ nelem' = nelem + 1
    BY <1>4 DEF Put, Goto
  <2>2. C(pc', nelem + 1)
    BY <2>1, <1>0, Sides, BringingKeepsCovered
  <2>3. Covered(pc', Producers, Consumers, maxelems - nelem - 1)
    BY <2>1, <1>0, Sides, TakingKeepsCovered
  <2>4. maxelems - nelem - 1 = maxelems - (nelem + 1)
    BY <1>0, Sides
  <2> QED
    BY <2>1, <2>2, <2>3, <2>4 DEF NoLostWakeUp
<1>5. ASSUME NEW t \in Threads, Take(t)
      PROVE  NoLostWakeUp'
  <2>1. /\ t \in Consumers /\ pc[t] = "test"
        /\ pc' = [pc EXCEPT ![t] = "signal"] /\ nelem' = nelem - 1
    BY <1>5 DEF Take, Goto
  <2>2. C(pc', nelem - 1)
    BY <2>1, <1>0, Sides, TakingKeepsCovered
  <2>3. Covered(pc', Producers, Consumers, maxelems - nelem + 1)
    BY <2>1, <1>0, Sides, BringingKeepsCovered
  <2>4. maxelems - nelem + 1 = maxelems - (nelem - 1)
    BY <1>0, Sides
  <2> QED
    BY <2>1, <2>2, <2>3, <2>4 DEF NoLostWakeUp
<1>6. ASSUME NEW t \in Threads, Signal(t)
      PROVE  NoLostWakeUp'
  <2>1. pc[t] = "signal" /\ UNCHANGED nelem
    BY <1>6 DEF Signal, ring
  <2>2. CASE t \in Producers
    <3>1. OtherSide(t) = Consumers
      BY <2>2 DEF OtherSide
    <3>2. CASE Sleeping(pc, Consumers) = {}
      <4>1. pc' = [pc EXCEPT ![t] = "unlock"]
        BY <1>6, <3>1, <3>2 DEF Signal, Sleeping
      <4>2. Sleeping(pc', Consumers) = {}
        BY <4>1, <3>2, <1>0, <2>2, Sides DEF Sleeping
      <4>3. C(pc', nelem)
        BY <4>2 DEF Covered
      <4>4. P(pc', nelem)
        BY <4>1, <2>1, <2>2, <1>0, Sides, QuietMove
      <4> QED
        BY <4>3, <4>4, <2>1 DEF NoLostWakeUp
    <3>3. CASE Sleeping(pc, Consumers) # {}
      <4>1. PICK w \in Consumers :
              /\ pc[w] = "sleep"
              /\ pc' = [pc EXCEPT ![t] = "unlock", ![w] = "lock"]
        BY <1>6, <3>1, <3>3 DEF Signal, Sleeping
      <4>2. C(pc', nelem)
        BY <4>1, <2>1, <2>2, <1>0, Sides, SignalKeepsCovered
      <4>3. /\ Sleeping(pc', Producers) \subseteq Sleeping(pc, Producers)
            /\ Waking(pc', Producers) = Waking(pc, Producers)
            /\ Signalling(pc', Consumers) = Signalling(pc, Consumers)
        BY <4>1, <2>1, <2>2, <1>0, Sides DEF Sleeping, Waking, Signalling
      <4>4. P(pc', nelem)
        BY <4>3, <1>0, BystandersKeepCovered
      <4> QED
        BY <4>2, <4>4, <2>1 DEF NoLostWakeUp
    <3> QED
      BY <3>2, <3>3
  <2>3. CASE t \in Consumers
    <3>1. OtherSide(t) = Producers
      BY <2>3, Sides DEF OtherSide
    <3>2. CASE Sleeping(pc, Producers) = {}
      <4>1. pc' = [pc EXCEPT ![t] = "unlock"]
        BY <1>6, <3>1, <3>2 DEF Signal, Sleeping
      <4>2. Sleeping(pc', Producers) = {}
        BY <4>1, <3>2, <1>0, <2>3, Sides DEF Sleeping
      <4>3. P(pc', nelem)
        BY <4>2 DEF Covered
      <4>4. C(pc', nelem)
        BY <4>1, <2>1, <2>3, <1>0, Sides, QuietMove
      <4> QED
        BY <4>3, <4>4, <2>1 DEF NoLostWakeUp
    <3>3. CASE Sleeping(pc, Producers) # {}
      <4>1. PICK w \in Producers :
              /\ pc[w] = "sleep"
              /\ pc' = [pc EXCEPT ![t] = "unlock", ![w] = "lock"]
        BY <1>6, <3>1, <3>3 DEF Signal, Sleeping
      <4>2. P(pc', nelem)
        BY <4>1, <2>1, <2>3, <1>0, Sides, SignalKeepsCovered
      <4>3. /\ Sleeping(pc', Consumers) \subseteq Sleeping(pc, Consumers)
            /\ Waking(pc', Consumers) = Waking(pc, Consumers)
            /\ Signalling(pc', Producers) = Signalling(pc, Producers)
        BY <4>1, <2>1, <2>3, <1>0, Sides DEF Sleeping, Waking, Signalling
      <4>4. C(pc', nelem)
        BY <4>3, <1>0, BystandersKeepCovered
      <4> QED
        BY <4>2, <4>4, <2>1 DEF NoLostWakeUp
    <3> QED
      BY <3>2, <3>3
  <2> QED
    BY <2>2, <2>3, Sides
<1>7. CASE UNCHANGED vars
  BY <1>7 DEF vars, NoLostWakeUp
<1> QED
  BY <1>1, <1>2, <1>3, <1>4, <1>5, <1>6, <1>7
  DEF Next, Step, PushCall, PopCall, Acquire, Unlock, WakeUp, ring

\* The whole invariant, for any number of producers and consumers.
THEOREM QueueInvariant == Spec => []IInv
<1>1. Init => Basic
  BY QueueAssumption
  DEF Init, Basic, TypeOK, LockExact, RingExact, InMutex, Slots, Threads
<1>2. Init => NoLostWakeUp
  BY QueueAssumption DEF Init, NoLostWakeUp, Covered, Sleeping, Threads
<1>3. Basic /\ NoLostWakeUp <=> IInv
  BY DEF Basic, IInv
<1> QED
  BY <1>1, <1>2, <1>3, NextKeepsBasic, NextKeepsNoLostWakeUp, PTL DEF Spec

\* No wake-up is lost: an element never waits in the queue for consumers that
\* all sleep through it, nor a free slot for producers.
THEOREM QueueNoLostWakeUp == Spec => []NoLostWakeUp
<1>1. IInv => NoLostWakeUp
  BY DEF IInv
<1> QED
  BY <1>1, QueueInvariant, PTL

\* One caller at a time works on the ring, and the mutex is given back.
THEOREM QueueLockExact == Spec => []LockExact
<1>1. IInv => LockExact
  BY DEF IInv
<1> QED
  BY <1>1, QueueInvariant, PTL

----------------------------------------------------------------------------
\* The slot k places after slot x, without the modulus.
LEMMA SlotAfter ==
  ASSUME NEW x \in Slots, NEW k \in 0 .. maxelems
  PROVE  (x + k) % maxelems = IF x + k < maxelems THEN x + k
                                                  ELSE x + k - maxelems
<1>1. maxelems \in Nat /\ maxelems > 0 /\ x \in Nat /\ k \in Nat
  BY QueueAssumption DEF Slots
<1>2. CASE x + k < maxelems
  BY <1>1, <1>2, SMT
<1>3. CASE ~(x + k < maxelems)
  <2>1. x + k - maxelems \in 0 .. maxelems - 1
    BY <1>1, <1>3 DEF Slots
  <2>2. (x + k - maxelems) % maxelems = x + k - maxelems
    BY <1>1, <2>1, SMT
  <2>3. (x + k - maxelems + maxelems) % maxelems = (x + k - maxelems) % maxelems
    BY <1>1, <2>1, SMT
  <2> QED
    BY <1>1, <1>3, <2>2, <2>3
<1> QED
  BY <1>2, <1>3

\* What a ring d with q elements from slot t on holds is a sequence of q
\* elements.
Held(d, t, q) == [x \in 1 .. q |-> d[(t + x - 1) % maxelems]]
LEMMA HeldIsSeq ==
  ASSUME NEW d \in [Slots -> Elements], NEW t \in Slots, NEW q \in 0 .. maxelems
  PROVE  /\ Held(d, t, q) \in Seq(Elements)
         /\ Len(Held(d, t, q)) = q
         /\ \A x \in 1 .. q : /\ (t + x - 1) % maxelems \in Slots
                              /\ Held(d, t, q)[x] = d[(t + x - 1) % maxelems]
<1>1. q \in Nat /\ maxelems \in Nat /\ q =< maxelems
  BY QueueAssumption
<1>2. ASSUME NEW x \in 1 .. q
      PROVE  (t + x - 1) % maxelems \in Slots
  <2>1. x - 1 \in 0 .. maxelems /\ t + x - 1 = t + (x - 1)
    BY <1>1 DEF Slots
  <2> QED
    BY <2>1, <1>1, SlotAfter DEF Slots
<1>3. Held(d, t, q) \in [1 .. q -> Elements]
  BY <1>2 DEF Held
<1> QED
  BY <1>1, <1>2, <1>3 DEF Held

\* Before and after a step.
LEMMA ContentsHeld ==
  ASSUME IInv, [Next]_vars
  PROVE  /\ TypeOK /\ TypeOK'
         /\ \A x \in 1 .. nelem :
              Contents[x] = data[(tail + x - 1) % maxelems]
         /\ \A x \in 1 .. nelem' :
              Contents'[x] = data'[(tail' + x - 1) % maxelems]
         /\ Contents \in Seq(Elements) /\ Len(Contents) = nelem
         /\ Contents' \in Seq(Elements) /\ Len(Contents') = nelem'
<1>1. TypeOK /\ TypeOK'
  BY NextKeepsBasic DEF IInv, Basic
<1>2. Contents = Held(data, tail, nelem) /\ Contents' = Held(data', tail', nelem')
  BY DEF Contents, Held
<1>3. /\ Held(data, tail, nelem) \in Seq(Elements)
      /\ Len(Held(data, tail, nelem)) = nelem
      /\ \A x \in 1 .. nelem :
           Held(data, tail, nelem)[x] = data[(tail + x - 1) % maxelems]
  BY <1>1, HeldIsSeq DEF TypeOK
<1>4. /\ Held(data', tail', nelem') \in Seq(Elements)
      /\ Len(Held(data', tail', nelem')) = nelem'
      /\ \A x \in 1 .. nelem' :
           Held(data', tail', nelem')[x] = data'[(tail' + x - 1) % maxelems]
  BY <1>1, HeldIsSeq DEF TypeOK
<1> QED
  BY <1>1, <1>2, <1>3, <1>4

\* queue_push appends to what the ring holds.
LEMMA PutIsPush ==
  ASSUME IInv, NEW p \in Threads, Put(p)
  PROVE  Abstract!Push(elem[p])
<1>1. /\ TypeOK /\ RingExact /\ p \in Producers /\ nelem' = nelem + 1
      /\ data' = [data EXCEPT ![head] = elem[p]] /\ tail' = tail
      /\ nelem \in Nat /\ nelem < maxelems /\ elem[p] \in Elements
  BY QueueAssumption DEF IInv, TypeOK, Put, MustWait, ring
<1>2. Next
  BY DEF Next, Step
<1>3. /\ TypeOK'
      /\ \A x \in 1 .. nelem :
           Contents[x] = data[(tail + x - 1) % maxelems]
      /\ \A x \in 1 .. nelem' :
           Contents'[x] = data'[(tail' + x - 1) % maxelems]
      /\ Contents \in Seq(Elements) /\ Len(Contents) = nelem
      /\ Contents' \in Seq(Elements) /\ Len(Contents') = nelem + 1
  BY <1>1, <1>2, ContentsHeld
<1>4. ASSUME NEW x \in 1 .. nelem + 1
      PROVE  Contents'[x] = Append(Contents, elem[p])[x]
  <2>1. /\ x - 1 \in 0 .. maxelems /\ nelem \in 0 .. maxelems
        /\ tail \in Slots /\ tail + x - 1 = tail + (x - 1)
    BY <1>1, QueueAssumption DEF TypeOK, Slots
  <2>2. Contents'[x] = data'[(tail + x - 1) % maxelems]
    BY <1>1, <1>3
  <2>3. CASE x = nelem + 1
    <3>1. (tail + x - 1) % maxelems = head
      BY <2>1, <2>3, <1>1, SlotAfter DEF RingExact
    <3>2. data'[head] = elem[p]
      BY <1>1 DEF TypeOK
    <3> QED
      BY <2>2, <2>3, <3>1, <3>2, <1>3, AppendProperties
  <2>4. CASE x # nelem + 1
    <3>1. x \in 1 .. nelem
      BY <1>1, <2>4
    <3>2. (tail + x - 1) % maxelems # head
      <4>1. (tail + x - 1) % maxelems = IF tail + (x - 1) < maxelems
                                        THEN tail + (x - 1)
                                        ELSE tail + (x - 1) - maxelems
        BY <2>1, SlotAfter
      <4> QED
        BY <4>1, <3>1, <1>1, <2>1, QueueAssumption DEF RingExact, Slots
    <3>3. data'[(tail + x - 1) % maxelems] = Contents[x]
      BY <1>1, <1>3, <2>1, <3>1, <3>2, SlotAfter DEF TypeOK
    <3> QED
      BY <2>2, <3>1, <3>3, <1>3, <1>1, AppendProperties
  <2> QED
    BY <2>3, <2>4
<1>5. Contents' = Append(Contents, elem[p])
  <2>1. /\ Append(Contents, elem[p]) \in Seq(Elements)
        /\ Len(Append(Contents, elem[p])) = nelem + 1
    BY <1>1, <1>3, AppendProperties
  <2> QED
    BY <2>1, <1>3, <1>4, SeqEqual
<1>6. elem' = elem
  BY DEF Put
<1> QED
  BY <1>1, <1>3, <1>5, <1>6 DEF Abstract!Push

\* queue_pop gives its caller the first of what the ring holds.
LEMMA TakeIsPop ==
  ASSUME IInv, NEW c \in Threads, Take(c)
  PROVE  Abstract!Pop(c)
<1>1. /\ TypeOK /\ c \in Consumers /\ nelem' = nelem - 1
      /\ data' = data /\ tail' = Advance(tail) /\ tail \in Slots
      /\ elem' = [elem EXCEPT ![c] = data[tail]]
      /\ nelem \in Nat /\ nelem > 0 /\ nelem =< maxelems
      /\ maxelems \in Nat
  BY QueueAssumption DEF IInv, TypeOK, Take, MustWait, ring, Threads
<1>2. Next
  BY DEF Next, Step
<1>3. /\ TypeOK'
      /\ \A x \in 1 .. nelem :
           Contents[x] = data[(tail + x - 1) % maxelems]
      /\ \A x \in 1 .. nelem' :
           Contents'[x] = data'[(tail' + x - 1) % maxelems]
      /\ Contents \in Seq(Elements) /\ Len(Contents) = nelem
      /\ Contents' \in Seq(Elements) /\ Len(Contents') = nelem - 1
      /\ Contents # <<>>
  BY <1>1, <1>2, ContentsHeld, EmptySeq
<1>4. Head(Contents) = data[tail]
  <2>1. (tail + 0) % maxelems = tail
    <3>1. 0 \in 0 .. maxelems /\ tail + 0 = tail /\ tail < maxelems
      BY <1>1 DEF Slots
    <3> QED
      BY <1>1, <3>1, SlotAfter
  <2>2. tail + 1 - 1 = tail + 0 /\ tail + 0 = tail /\ 1 \in 1 .. nelem
    BY <1>1 DEF Slots
  <2>3. Contents[1] = data[tail]
    BY <1>3, <2>1, <2>2
  <2> QED
    BY <2>3, <1>3, HeadTailProperties
<1>5. ASSUME NEW x \in 1 .. nelem - 1
      PROVE  Contents'[x] = Tail(Contents)[x]
  <2>1. /\ x - 1 \in 0 .. maxelems /\ x \in 0 .. maxelems /\ tail' \in Slots
        /\ tail' + x - 1 = tail' + (x - 1) /\ tail + (x + 1) - 1 = tail + x
        /\ x + 1 \in 1 .. nelem
    BY <1>1, <1>3 DEF TypeOK, Slots
  <2>2. Contents'[x] = data[(tail' + x - 1) % maxelems]
    BY <1>1, <1>3
  <2>3. Contents[x + 1] = data[(tail + x) % maxelems]
    BY <1>3, <2>1
  <2>4. (tail' + x - 1) % maxelems = (tail + x) % maxelems
    <3>1. tail' = IF tail = maxelems - 1 THEN 0 ELSE tail + 1
      BY <1>1, AdvanceValue
    <3>2. (tail + x) % maxelems = IF tail + x < maxelems
                                  THEN tail + x ELSE tail + x - maxelems
      BY <1>1, <2>1, SlotAfter
    <3>3. (tail' + (x - 1)) % maxelems = IF tail' + (x - 1) < maxelems
                                         THEN tail' + (x - 1)
                                         ELSE tail' + (x - 1) - maxelems
      BY <2>1, SlotAfter
    <3> QED
      BY <3>1, <3>2, <3>3, <1>1, <2>1 DEF Slots
  <2> QED
    BY <2>2, <2>3, <2>4, <1>3, HeadTailProperties
<1>6. Contents' = Tail(Contents)
  <2>1. Tail(Contents) \in Seq(Elements) /\ Len(Tail(Contents)) = nelem - 1
    BY <1>3, HeadTailProperties
  <2> QED
    BY <2>1, <1>3, <1>5, SeqEqual
<1>7. [x \in Consumers |-> elem[x]]'
        = [[x \in Consumers |-> elem[x]] EXCEPT ![c] = data[tail]]
  BY <1>1 DEF TypeOK, Threads
<1> QED
  BY <1>3, <1>4, <1>6, <1>7 DEF Abstract!Pop

\* queue.c is a FIFO: elements come out once each, in the order in which they
\* went in, whoever pushes, pops, sleeps and wakes in between.
THEOREM QueueRefinesFIFO == Spec => RefinesFIFO
<1>1. Init => Abstract!Init
  <2> SUFFICES ASSUME Init PROVE Abstract!Init
    OBVIOUS
  <2>1. nelem = 0 /\ 1 .. nelem = {}
    BY DEF Init
  <2>2. Contents = <<>>
    BY <2>1 DEF Contents
  <2>3. [c \in Consumers |-> elem[c]] \in [Consumers -> Elements]
    BY DEF Init, Threads
  <2> QED
    BY <2>2, <2>3 DEF Abstract!Init
<1>2. IInv /\ [Next]_vars => [Abstract!Next]_(Abstract!vars)
  <2> SUFFICES ASSUME IInv, [Next]_vars
               PROVE  Abstract!Next \/ UNCHANGED Abstract!vars
    OBVIOUS
  <2>1. ASSUME NEW t \in Threads, Put(t)
        PROVE  Abstract!Next
    <3>1. elem[t] \in Elements
      BY DEF IInv, TypeOK
    <3> QED
      BY <2>1, <3>1, PutIsPush DEF Abstract!Next
  <2>2. ASSUME NEW t \in Threads, Take(t)
        PROVE  Abstract!Next
    BY <2>2, TakeIsPop DEF Abstract!Next, Take
  <2>3. ASSUME UNCHANGED <<data, nelem, tail>>,
               \A c \in Consumers : elem'[c] = elem[c]
        PROVE  UNCHANGED Abstract!vars
    BY <2>3 DEF Abstract!vars, Contents
  <2>4. ASSUME NEW t \in Threads,
               \/ \E e \in Elements : PushCall(t, e)
               \/ PopCall(t) \/ Acquire(t) \/ Sleep(t) \/ Signal(t)
               \/ Unlock(t) \/ WakeUp(t)
        PROVE  UNCHANGED Abstract!vars
    <3>1. UNCHANGED <<data, nelem, tail>>
      BY <2>4 DEF PushCall, PopCall, Acquire, Sleep, Signal, Unlock, WakeUp, ring
    <3>2. \A c \in Consumers : elem'[c] = elem[c]
      BY <2>4, QueueAssumption
      DEF PushCall, PopCall, Acquire, Sleep, Signal, Unlock, WakeUp, IInv,
          TypeOK, Threads
    <3> QED
      BY <3>1, <3>2, <2>3
  <2>5. CASE UNCHANGED vars
    BY <2>5, <2>3 DEF vars
  <2> QED
    BY <2>1, <2>2, <2>4, <2>5 DEF Next, Step
<1> QED
  BY <1>1, <1>2, QueueInvariant, PTL DEF Spec, RefinesFIFO, Abstract!Spec

\* Callers of both sides never all sleep at once: the queue cannot be full and
\* empty, and no signal is lost.
THEOREM QueueSomeoneAwake ==
  ASSUME Producers # {}, Consumers # {}
  PROVE  Spec => [](\E t \in Threads : pc[t] # "sleep")
<1>1. IInv => \E t \in Threads : pc[t] # "sleep"
  <2> SUFFICES ASSUME IInv, \A t \in Threads : pc[t] = "sleep"
               PROVE  FALSE
    OBVIOUS
  <2>1. /\ Sleeping(pc, Producers) # {} /\ Sleeping(pc, Consumers) # {}
        /\ Waking(pc, Producers) = {} /\ Waking(pc, Consumers) = {}
        /\ Signalling(pc, Producers) = {} /\ Signalling(pc, Consumers) = {}
    BY DEF Sleeping, Waking, Signalling, Threads
  <2>2. nelem =< 0 + 0 /\ maxelems - nelem =< 0 + 0
    BY <2>1, FS_EmptySet DEF IInv, NoLostWakeUp, Covered
  <2> QED
    BY <2>2, QueueAssumption DEF IInv, TypeOK
<1> QED
  BY <1>1, QueueInvariant, PTL

-----------------------------------------------------------------------------
(* T1_queue: one producer and its workers over the queue *)

T1Inv == IInv /\ Consistent

\* The two sides, and what goes through the queue.
LEMMA T1Constants ==
  /\ Producers = {Producer} /\ Producer \notin Consumers
  /\ Threads = {Producer} \cup Consumers
  /\ IsFiniteSet(Consumers) /\ Poisons \in Nat /\ Poisons > 0
  /\ FullBlocks \in Nat /\ MaxErrors \in Nat /\ MaxBlocks = FullBlocks + MaxErrors
  /\ done = -1 /\ done \notin 0 .. MaxBlocks
  /\ \A e : e \in Elements <=> e = done \/ e \in 0 .. MaxBlocks
<1>1. Producers = {Producer} /\ Producer \notin Consumers /\ IsFiniteSet(Consumers)
      /\ Threads = {Producer} \cup Consumers
  BY QueueAssumption, T1Assumption DEF Threads
<1>2. Poisons \in Nat /\ Poisons # 0
  BY <1>1, T1Assumption, FS_CardinalityType, FS_EmptySet DEF Poisons
<1> QED
  BY <1>1, <1>2, T1Assumption DEF done, MaxBlocks

\* The bytes of the file, and that none of its products are of other values.
LEMMA FileConstants ==
  /\ BlockSize \in Nat /\ BlockSize > 0 /\ Rest \in Nat /\ Rest < BlockSize
  /\ FullBlocks * BlockSize \in Nat /\ FileSize \in Nat
  /\ FileSize < FullBlocks * BlockSize + BlockSize
  /\ FullBlocks * BlockSize =< FileSize
<1>1. \A a, b \in Nat : a * b \in Nat
  OBVIOUS
<1>2. BlockSize \in Nat /\ BlockSize > 0 /\ Rest \in Nat /\ Rest < BlockSize
      /\ FullBlocks \in Nat
  BY T1Assumption
<1>3. FullBlocks * BlockSize \in Nat
  BY <1>1, <1>2
<1> HIDE <1>1
<1> QED
  BY <1>2, <1>3 DEF FileSize

LEMMA Products ==
  ASSUME NEW a \in Int, NEW b \in Int
  PROVE  /\ a * BlockSize \in Int
         /\ (a + 1) * BlockSize = a * BlockSize + BlockSize
         /\ a * BlockSize < b * BlockSize + BlockSize => a =< b
<1>1. BlockSize \in Nat /\ BlockSize > 0
  BY FileConstants
<1>2. \A x, y, c \in Int : x >= y + 1 /\ c >= 0 => x * c >= y * c + c
  <2>1. \A d, c \in Int : d >= 0 /\ c >= 0 => d * c >= 0
    OBVIOUS
  <2> SUFFICES ASSUME NEW x \in Int, NEW y \in Int, NEW c \in Int,
                      x >= y + 1, c >= 0
               PROVE  x * c >= y * c + c
    OBVIOUS
  <2>2. (x - y - 1) * c >= 0
    BY <2>1
  <2>3. (x - y - 1) * c = x * c - y * c - c
    OBVIOUS
  <2> QED
    BY <2>2, <2>3
<1> QED
  BY <1>1, <1>2

\* No more blocks are read than the file has whole ones and reads fail.
LEMMA ReadsBounded ==
  ASSUME T1TypeOK, FileRead, at[Producer] \in {"read", "push"}
  PROVE  Reads \in Int /\ Reads =< FullBlocks + errors
<1>1. Reads \in Int /\ errors \in Int /\ pos \in Int /\ pos =< FileSize
      /\ FullBlocks \in Int
  BY T1Constants, FileConstants DEF T1TypeOK, Reads
<1>2. (Reads - errors) * BlockSize =< pos
  BY DEF FileRead
<1>3. (Reads - errors) * BlockSize < FullBlocks * BlockSize + BlockSize
  BY <1>1, <1>2, FileConstants, Products
<1> QED
  BY <1>1, <1>3, Products

\* A step of the program is one of the queue or leaves it alone: the numbers
\* pushed are elements.
LEMMA T1StepIsQueueStep ==
  ASSUME T1Inv, [T1Next]_t1vars
  PROVE  [Next]_vars
<1>1. ASSUME PushBlock \/ PushDone PROVE Next
  <2>1. PICK e \in Elements : PushCall(Producer, e)
    <3>1. CASE PushBlock
      <4>1. i \in 0 .. MaxBlocks
        <5>1. i \in Nat /\ errors \in 0 .. MaxErrors /\ at[Producer] = "push"
          BY <3>1, T1Constants
          DEF PushBlock, Go, T1Inv, Consistent, T1TypeOK, Poisons
        <5> QED
          BY <5>1, ReadsBounded, T1Constants DEF T1Inv, Consistent, Reads
      <4> QED
        BY <3>1, <4>1, T1Constants DEF PushBlock
    <3>2. CASE PushDone
      BY <3>2, T1Constants DEF PushDone
    <3> QED
      BY <1>1, <3>1, <3>2
  <2> QED
    BY <2>1, T1Constants DEF Next
<1>2. ASSUME NEW t \in Threads, Pop(t) \/ QueueStep(t) \/ Wake(t) PROVE Next
  BY <1>2 DEF Pop, QueueStep, Wake, Next
<1>3. CASE \/ Read \/ ReadError \/ ProducerExit \/ Destroy \/ Finished
           \/ UNCHANGED t1vars
  BY <1>3 DEF Read, ReadError, ProducerExit, Destroy, Finished, t1vars
<1>4. ASSUME NEW c \in Threads, Got(c) \/ Use(c) PROVE UNCHANGED vars
  BY <1>4 DEF Got, Use
<1> QED
  BY <1>1, <1>2, <1>3, <1>4 DEF T1Next, Run

LEMMA QueueKept == T1Inv /\ [T1Next]_t1vars => IInv'
<1> SUFFICES ASSUME T1Inv, [T1Next]_t1vars PROVE IInv'
  OBVIOUS
<1>1. [Next]_vars
  BY T1StepIsQueueStep
<1>2. Basic /\ NoLostWakeUp
  BY DEF T1Inv, IInv, Basic
<1> QED
  BY <1>1, <1>2, NextKeepsBasic, NextKeepsNoLostWakeUp DEF IInv, Basic

\* Nobody is brought into the queue by another thread's step.
LEMMA OutsideStays ==
  ASSUME TypeOK, NEW t \in Threads, Step(t) \/ WakeUp(t)
  PROVE  \A v \in Threads : pc[v] = "out" => pc'[v] = "out"
  BY DEF TypeOK, Step, WakeUp, Acquire, Sleep, Put, Take, Signal, Unlock, Goto

\* The types of the program's own variables.
LEMMA T1TypesKept ==
  ASSUME T1Inv, [T1Next]_t1vars
  PROVE  T1TypeOK'
<1> DEFINE places == {"read", "push", "stop", "pop", "got", "use", "exit"}
<1>1. TypeOK'
  BY QueueKept DEF IInv
<1>2. /\ i \in 0 .. MaxBlocks + Poisons /\ buf \in [Bytes -> -1 .. MaxBlocks]
      /\ at \in [Threads -> places] /\ delivered \in SUBSET (0 .. MaxBlocks)
      /\ pos \in 0 .. FileSize /\ errors \in 0 .. MaxErrors /\ sent \in 0 .. MaxBlocks
      /\ main \in {"join", "destroyed"} /\ TypeOK
  BY DEF T1Inv, Consistent, T1TypeOK, Poisons
<1>3. at' \in [Threads -> places]
  <2>1. at' = at \/ \E t \in Threads, a \in places : at' = [at EXCEPT ![t] = a]
    BY T1Constants
    DEF T1Next, Run, Read, ReadError, PushBlock, PushDone, ProducerExit, Pop, Got,
        Use, QueueStep, Wake, Destroy, Finished, t1vars, Go, AfterPop, LoopHead
  <2> HIDE DEF places
  <2> QED
    BY <1>2, <2>1
<1>4. at[Producer] = "push" => i = sent /\ i < MaxBlocks
  <2>1. at[Producer] = "push" => i + 1 =< FullBlocks + errors
    BY <1>2, ReadsBounded DEF Reads, T1Inv, Consistent
  <2> QED
    BY <1>2, <2>1, T1Constants DEF T1Inv, Consistent, InOwnPlace
<1>5. at[Producer] = "read" => i = sent
  BY DEF T1Inv, Consistent, InOwnPlace
<1>6. i' \in 0 .. MaxBlocks + Poisons /\ sent' \in 0 .. MaxBlocks
  <2>1. CASE PushBlock
    BY <1>2, <1>4, <2>1, T1Constants DEF PushBlock, Go, NextBlock
  <2>2. CASE PushDone
    BY <1>2, <2>2, T1Constants DEF PushDone
  <2>3. CASE Read
    BY <1>2, <2>3, T1Constants DEF Read
  <2>4. CASE UNCHANGED <<i, sent>>
    BY <1>2, <2>4
  <2> QED
    BY <2>1, <2>2, <2>3, <2>4
    DEF T1Next, Run, ReadError, ProducerExit, Pop, Got, Use, QueueStep, Wake,
        Destroy, Finished, t1vars
<1>7. /\ buf' \in [Bytes -> -1 .. MaxBlocks]
      /\ pos' \in 0 .. FileSize /\ errors' \in 0 .. MaxErrors
  <2>1. CASE Read \/ ReadError
    <3>1. i \in -1 .. MaxBlocks
      BY <1>2, <1>5, <2>1, T1Constants DEF Read, ReadError, Go
    <3>2. \A len : Fill(i, len) \in [Bytes -> -1 .. MaxBlocks]
      BY <1>2, <3>1 DEF Fill
    <3>3. PICK len \in Int : /\ pos' = pos + len /\ buf' = Fill(i, len)
                             /\ 0 =< len /\ len =< FileSize - pos
      <4>1. CASE Read
        <5> DEFINE len == IF AtEnd THEN Left ELSE BlockSize
        <5>1. pos' = pos + len /\ buf' = Fill(i, len)
          BY <4>1 DEF Read
        <5>2. len \in Int /\ 0 =< len /\ len =< FileSize - pos
          BY <1>2, FileConstants DEF AtEnd, Left
        <5> QED
          BY <5>1, <5>2
      <4>2. CASE ReadError
        <5>1. PICK len \in 0 .. BlockSize - 1 :
                len =< Left /\ pos' = pos + len /\ buf' = Fill(i, len)
          BY <4>2 DEF ReadError
        <5> QED
          BY <5>1, FileConstants DEF Left
      <4> QED
        BY <2>1, <4>1, <4>2
    <3>4. errors' \in 0 .. MaxErrors
      BY <1>2, <2>1, T1Constants DEF Read, ReadError
    <3> QED
      BY <1>2, <3>2, <3>3, <3>4, FileConstants
  <2>2. CASE ~Read /\ ~ReadError
    <3>1. UNCHANGED <<buf, pos, errors>>
      BY <2>2 DEF T1Next, Run, PushBlock, PushDone, ProducerExit, Pop, Got, Use,
                  QueueStep, Wake, Destroy, Finished, t1vars
    <3> QED
      BY <1>2, <3>1
  <2> QED
    BY <2>1, <2>2
<1>8. delivered' \in SUBSET (0 .. MaxBlocks)
  <2>1. ASSUME NEW t \in Threads, QueueStep(t)
        PROVE  delivered' \in SUBSET (0 .. MaxBlocks)
    <3>1. data[tail] \in Elements
      BY <1>2 DEF TypeOK
    <3> QED
      BY <1>2, <2>1, <3>1, T1Constants DEF QueueStep
  <2>2. CASE delivered' = delivered
    BY <1>2, <2>2
  <2> QED
    BY <2>1, <2>2
    DEF T1Next, Run, Read, ReadError, PushBlock, PushDone, ProducerExit, Pop, Got,
        Use, Wake, Destroy, Finished, t1vars
<1>9. main' \in {"join", "destroyed"}
  BY <1>2
  DEF T1Next, Run, Read, ReadError, PushBlock, PushDone, ProducerExit, Pop, Got,
      Use, QueueStep, Wake, Destroy, Finished, t1vars
<1> QED
  BY <1>1, <1>3, <1>6, <1>7, <1>8, <1>9 DEF T1TypeOK, Poisons

\* A thread stays out of the queue where its own code does not call it.
LEMMA OwnPlacesKept ==
  ASSUME T1Inv, [T1Next]_t1vars
  PROVE  InOwnPlace'
<1>1. i \in Nat /\ DOMAIN at = Threads /\ DOMAIN pc = Threads /\ TypeOK
  BY T1Constants DEF T1Inv, Consistent, T1TypeOK, TypeOK, Poisons
<1>2. InOwnPlace
  BY DEF T1Inv, Consistent
<1>3. CASE Read
  <2>1. /\ at[Producer] = "read" /\ pc[Producer] = "out" /\ sent' = sent
        /\ \/ at' = [at EXCEPT ![Producer] = "stop"] /\ i' = 0
           \/ at' = [at EXCEPT ![Producer] = "push"] /\ i' = i
        /\ pc' = pc
    BY <1>3 DEF Read, Go, InOwnCode, vars
  <2> QED
    BY <1>1, <1>2, <2>1, T1Constants DEF InOwnPlace, InOwnCode
<1>4. CASE ReadError
  <2>1. /\ at[Producer] = "read" /\ pc[Producer] = "out" /\ sent' = sent
        /\ at' = [at EXCEPT ![Producer] = "push"] /\ i' = i /\ pc' = pc
    BY <1>4 DEF ReadError, Go, InOwnCode, vars
  <2> QED
    BY <1>1, <1>2, <2>1, T1Constants DEF InOwnPlace, InOwnCode
<1>5. CASE PushBlock
  <2>1. /\ at[Producer] = "push" /\ sent' = sent + 1
        /\ at' = [at EXCEPT ![Producer] = "read"] /\ i' = i + 1
        /\ pc' = [pc EXCEPT ![Producer] = "lock"]
    BY <1>5 DEF PushBlock, PushCall, Go, Goto, NextBlock
  <2> QED
    BY <1>1, <1>2, <2>1, T1Constants DEF InOwnPlace, InOwnCode
<1>6. CASE PushDone
  <2>1. /\ at[Producer] = "stop" /\ at' = [at EXCEPT ![Producer] = "stop"]
        /\ i < Poisons /\ i' = i + 1 /\ sent' = sent
        /\ pc' = [pc EXCEPT ![Producer] = "lock"]
    BY <1>6 DEF PushDone, PushCall, Go, Goto
  <2> QED
    BY <1>1, <1>2, <2>1, T1Constants DEF InOwnPlace, InOwnCode
<1>7. CASE ProducerExit
  <2>1. /\ at[Producer] = "stop" /\ pc[Producer] = "out" /\ i = Poisons
        /\ at' = [at EXCEPT ![Producer] = "exit"] /\ UNCHANGED <<i, sent, pc>>
    BY <1>7 DEF ProducerExit, Go, InOwnCode, vars
  <2> QED
    BY <1>1, <1>2, <2>1, T1Constants DEF InOwnPlace, InOwnCode
<1>8. ASSUME NEW c \in Consumers, Pop(c) \/ Got(c) \/ Use(c) PROVE InOwnPlace'
  <2>1. UNCHANGED <<i, sent>> /\ c # Producer /\ c \in Threads
    BY <1>8, T1Constants DEF Pop, Got, Use
  <2>2. CASE Pop(c)
    <3>1. /\ at' = [at EXCEPT ![c] = "got"] /\ pc' = [pc EXCEPT ![c] = "lock"]
      BY <2>2 DEF Pop, PopCall, Go, Goto
    <3> QED
      BY <1>1, <1>2, <2>1, <3>1, T1Constants DEF InOwnPlace, InOwnCode
  <2>3. CASE Got(c) \/ Use(c)
    <3>1. /\ \E a \in {"exit", "use", "pop"} : at' = [at EXCEPT ![c] = a]
          /\ pc[c] = "out" /\ pc' = pc
      BY <1>2, <2>1, <2>3
      DEF Got, Use, Go, AfterPop, LoopHead, InOwnCode, InOwnPlace, vars
    <3> QED
      BY <1>1, <1>2, <2>1, <3>1, T1Constants DEF InOwnPlace, InOwnCode
  <2> QED
    BY <1>8, <2>2, <2>3
<1>9. ASSUME NEW t \in Threads, QueueStep(t) \/ Wake(t) PROVE InOwnPlace'
  <2>1. UNCHANGED <<i, at, sent>> /\ (Step(t) \/ WakeUp(t))
    BY <1>9 DEF QueueStep, Wake
  <2>2. \A v \in Threads : pc[v] = "out" => pc'[v] = "out"
    BY <1>1, <2>1, OutsideStays
  <2> QED
    BY <1>2, <2>1, <2>2 DEF InOwnPlace, InOwnCode
<1>10. CASE Destroy \/ Finished \/ UNCHANGED t1vars
  BY <1>2, <1>10 DEF Destroy, Finished, t1vars, vars, InOwnPlace, InOwnCode
<1> QED
  BY <1>3, <1>4, <1>5, <1>6, <1>7, <1>8, <1>9, <1>10 DEF T1Next, Run

\* A read that does not fail is of a whole block until less than one is left.
LEMMA FileReadKept ==
  ASSUME T1Inv, [T1Next]_t1vars
  PROVE  FileRead'
<1>1. /\ T1TypeOK /\ InOwnPlace /\ FileRead
      /\ i \in Nat /\ pos \in Nat /\ errors \in Nat /\ sent \in Nat /\ pos =< FileSize
      /\ DOMAIN at = Threads /\ Producer \in Threads
  BY T1Constants, FileConstants DEF T1Inv, Consistent, T1TypeOK, Poisons
<1>2. CASE Read
  <2>1. /\ at[Producer] = "read" /\ UNCHANGED <<errors, sent>>
        /\ at' = [at EXCEPT ![Producer] = IF AtEnd THEN "stop" ELSE "push"]
        /\ i' = (IF AtEnd THEN 0 ELSE i)
        /\ ~AtEnd => pos' = pos + BlockSize
    BY <1>2 DEF Read, Go
  <2>2. /\ Reads = i /\ i = sent /\ (i - errors) * BlockSize =< pos
        /\ pos =< i * BlockSize
    BY <1>1, <2>1 DEF Reads, FileRead, InOwnPlace
  <2>3. CASE AtEnd
    <3>1. FullBlocks * BlockSize < i * BlockSize + BlockSize
      <4>1. FileSize - pos < BlockSize
        BY <2>3 DEF AtEnd, Left
      <4> QED
        BY <1>1, <2>2, <4>1, FileConstants, Products
    <3>2. FullBlocks =< i
      BY <1>1, <3>1, T1Constants, Products
    <3>3. i =< FullBlocks + errors
      BY <1>1, <2>1, <2>2, ReadsBounded
    <3>4. at'[Producer] = "stop"
      BY <1>1, <2>1, <2>3
    <3> QED
      BY <1>1, <2>1, <2>2, <3>2, <3>3, <3>4, T1Constants DEF FileRead
  <2>4. CASE ~AtEnd
    <3>1. at'[Producer] = "push" /\ Reads' = i + 1
      BY <1>1, <2>1, <2>4 DEF Reads
    <3>2. (i + 1) * BlockSize = i * BlockSize + BlockSize /\ i * BlockSize \in Int
      <4>1. i \in Int
        BY <1>1
      <4> QED
        BY <4>1, Products
    <3>3. /\ (i + 1 - errors) * BlockSize = (i - errors) * BlockSize + BlockSize
          /\ (i - errors) * BlockSize \in Int
      <4>1. i - errors \in Int /\ i + 1 - errors = (i - errors) + 1
        BY <1>1
      <4> QED
        BY <4>1, Products
    <3>4. /\ (Reads' - errors') * BlockSize =< pos'
          /\ pos' =< Reads' * BlockSize
      BY <1>1, <2>1, <2>2, <2>4, <3>1, <3>2, <3>3, FileConstants
    <3> QED
      BY <3>1, <3>4 DEF FileRead
  <2> QED
    BY <2>3, <2>4
<1>3. CASE ReadError
  <2>1. PICK len \in 0 .. BlockSize - 1 : pos' = pos + len
    BY <1>3 DEF ReadError
  <2>2. /\ at[Producer] = "read" /\ at' = [at EXCEPT ![Producer] = "push"]
        /\ i' = i /\ errors' = errors + 1
    BY <1>3 DEF ReadError, Go
  <2>3. Reads = i /\ Reads' = i + 1 /\ at'[Producer] = "push"
    BY <1>1, <2>2 DEF Reads
  <2>4. (i - errors) * BlockSize =< pos /\ pos =< i * BlockSize
    <3> DEFINE Bounded(n) == (n - errors) * BlockSize =< pos /\ pos =< n * BlockSize
    <3>1. Bounded(Reads)
      BY <1>1, <2>2 DEF FileRead
    <3>2. Reads = i
      BY <2>3
    <3> HIDE DEF Bounded
    <3>3. Bounded(i)
      BY <3>1, <3>2, Zenon
    <3> QED
      BY <3>3, Zenon DEF Bounded
  <2>5. /\ (i + 1) * BlockSize = i * BlockSize + BlockSize
        /\ i * BlockSize \in Int /\ (i - errors) * BlockSize \in Int
    <3>1. i \in Int /\ i - errors \in Int
      BY <1>1
    <3> QED
      BY <3>1, Products
  <2>6. Reads' - errors' = i - errors
    BY <1>1, <2>2, <2>3
  <2>7. /\ (Reads' - errors') * BlockSize =< pos'
        /\ pos' =< Reads' * BlockSize
    BY <1>1, <2>1, <2>3, <2>4, <2>5, <2>6, FileConstants
  <2> QED
    BY <2>3, <2>7 DEF FileRead
<1>4. CASE PushBlock
  <2>1. /\ at[Producer] = "push" /\ at' = [at EXCEPT ![Producer] = "read"]
        /\ i' = i + 1 /\ UNCHANGED <<pos, errors>>
    BY <1>4 DEF PushBlock, Go, NextBlock
  <2>2. Reads' = Reads /\ at'[Producer] = "read"
    BY <1>1, <2>1 DEF Reads
  <2> QED
    BY <1>1, <2>1, <2>2 DEF FileRead
<1>5. CASE PushDone \/ ProducerExit
  <2>1. /\ at[Producer] = "stop" /\ at'[Producer] \in {"stop", "exit"}
        /\ UNCHANGED <<errors, sent>>
    BY <1>1, <1>5 DEF PushDone, ProducerExit, Go
  <2> QED
    BY <1>1, <2>1 DEF FileRead
<1>6. ASSUME UNCHANGED <<i, pos, errors, sent>>, at'[Producer] = at[Producer]
      PROVE  FileRead'
  <2>1. Reads' = Reads
    BY <1>6 DEF Reads
  <2> QED
    BY <1>1, <1>6, <2>1 DEF FileRead
<1>7. ASSUME NEW c \in Consumers, Pop(c) \/ Got(c) \/ Use(c) PROVE FileRead'
  <2>1. UNCHANGED <<i, pos, errors, sent>> /\ at'[Producer] = at[Producer]
    BY <1>1, <1>7, T1Constants DEF Pop, Got, Use, Go
  <2> QED
    BY <2>1, <1>6
<1> QED
  BY <1>2, <1>3, <1>4, <1>5, <1>6, <1>7
  DEF T1Next, Run, QueueStep, Wake, Destroy, Finished, t1vars

\* Told counts workers.
LEMMA ToldFinite ==
  /\ IsFiniteSet(Told) /\ Cardinality(Told) \in Nat /\ Cardinality(Told) =< Poisons
  /\ Cardinality(Told) = Poisons => Told = Consumers
<1>1. Told \in SUBSET Consumers
  BY DEF Told
<1> QED
  BY <1>1, T1Constants, FS_Subset, FS_CardinalityType DEF Poisons

\* A step that neither pushes nor pops, and after which a push that has begun
\* brings the next item, keeps the items in order.
LEMMA ItemsUndisturbed ==
  ASSUME ItemsInOrder, sent' = sent, Pushed' = Pushed, UNCHANGED <<ring, delivered>>,
         Told' = Told, Pending' => elem'[Producer] = Item(Calls' - 1)
  PROVE  ItemsInOrder'
<1>1. nelem' = nelem /\ data' = data /\ tail' = tail /\ delivered' = delivered
  BY DEF ring
<1>2. Popped' = Popped
  BY <1>1 DEF Popped
<1>3. Contents' = Contents
  BY <1>1 DEF Contents
<1>4. \A n : Item(n)' = Item(n)
  BY DEF Item
<1> SUFFICES /\ Popped >= 0
             /\ Pending' => elem'[Producer] = Item(Calls' - 1)
             /\ \A x \in 1 .. nelem : Contents[x] = Item(Popped + x - 1)
             /\ delivered = {n \in 0 .. sent - 1 : n < Popped}
             /\ Cardinality(Told) = IF Popped > sent THEN Popped - sent ELSE 0
  BY <1>1, <1>2, <1>3, <1>4 DEF ItemsInOrder, Item
<1> QED
  BY DEF ItemsInOrder

\* queue_push brings the next item.
LEMMA PutKeepsItems ==
  ASSUME T1Inv, NEW t \in Threads, QueueStep(t), Put(t)
  PROVE  ItemsInOrder'
<1>1. IInv /\ ItemsInOrder /\ TypeOK /\ t = Producer /\ nelem \in Nat
  BY T1Constants, QueueAssumption
  DEF T1Inv, Consistent, IInv, TypeOK, Put
<1>2. /\ UNCHANGED <<i, at, sent>> /\ elem' = elem /\ nelem' = nelem + 1
      /\ pc[t] = "test" /\ pc' = [pc EXCEPT ![t] = "signal"]
  BY DEF QueueStep, Put, Goto
<1>3. delivered' = delivered
  <2>1. ~Take(t)
    BY <1>1, T1Constants DEF Take
  <2> QED
    BY <2>1 DEF QueueStep
<1>4. Calls' = Calls /\ Calls \in Int
  BY <1>2, T1Constants DEF Calls, T1Inv, Consistent, T1TypeOK
<1>5. Pending /\ ~Pending'
  BY <1>1, <1>2 DEF Pending, TypeOK
<1>6. Pushed = Calls - 1 /\ Pushed' = Calls
  BY <1>4, <1>5 DEF Pushed
<1>7. Popped' = Popped /\ Popped = Calls - 1 - nelem /\ Popped \in Int
  BY <1>1, <1>2, <1>4, <1>6 DEF Popped
<1>8. Contents' = Append(Contents, elem[Producer])
  BY <1>1, PutIsPush DEF Abstract!Push
<1>9. /\ Contents \in Seq(Elements) /\ Len(Contents) = nelem
      /\ elem[Producer] \in Elements
  <2>1. [Next]_vars
    BY DEF Next, Step
  <2> QED
    BY <1>1, <2>1, ContentsHeld DEF TypeOK
<1>10. Told' = Told
  <2>1. \A c \in Consumers : pc'[c] = pc[c]
    BY <1>1, <1>2, T1Constants DEF TypeOK
  <2> QED
    BY <1>2, <2>1 DEF Told
<1>11. \A x \in 1 .. nelem' : Contents'[x] = Item(Popped' + x - 1)
  <2> SUFFICES ASSUME NEW x \in 1 .. nelem + 1
               PROVE  Contents'[x] = Item(Popped + x - 1)
    BY <1>2, <1>7
  <2>1. CASE x = nelem + 1
    <3>1. Contents'[x] = elem[Producer]
      BY <1>8, <1>9, <2>1, AppendProperties
    <3>2. elem[Producer] = Item(Calls - 1)
      BY <1>1, <1>5 DEF ItemsInOrder
    <3>3. Popped + x - 1 = Calls - 1
      BY <1>1, <1>4, <1>7, <2>1
    <3> QED
      BY <3>1, <3>2, <3>3
  <2>2. CASE x # nelem + 1
    <3>1. x \in 1 .. nelem
      BY <1>1, <2>2
    <3>2. Contents'[x] = Contents[x]
      BY <1>8, <1>9, <3>1, AppendProperties
    <3> QED
      BY <1>1, <3>1, <3>2 DEF ItemsInOrder
  <2> QED
    BY <2>1, <2>2
<1> QED
  BY <1>1, <1>2, <1>3, <1>5, <1>7, <1>10, <1>11 DEF ItemsInOrder, Item

\* The element that a queue_pop copies is the first of the queue.
LEMMA FirstOfRing ==
  ASSUME TypeOK, nelem > 0
  PROVE  Contents[1] = data[tail]
<1>1. /\ tail \in Slots /\ maxelems \in Nat /\ maxelems > 0 /\ tail + 0 = tail
      /\ tail < maxelems /\ 0 \in 0 .. maxelems /\ 1 \in 1 .. nelem
  BY QueueAssumption DEF TypeOK, Slots
<1>2. (tail + 0) % maxelems = tail /\ tail + 1 - 1 = tail + 0
  BY <1>1, SlotAfter DEF Slots
<1> QED
  BY <1>1, <1>2 DEF Contents

\* queue_pop takes the next item: a block that becomes delivered, or the -1 of
\* the worker that calls.
LEMMA TakeKeepsItems ==
  ASSUME T1Inv, NEW t \in Threads, QueueStep(t), Take(t)
  PROVE  ItemsInOrder'
<1>1. /\ IInv /\ ItemsInOrder /\ TypeOK /\ t \in Consumers /\ t # Producer
      /\ nelem \in Nat /\ nelem > 0 /\ sent \in Nat
  <2>1. t \in Consumers /\ t # Producer
    BY T1Constants DEF Take
  <2>2. TypeOK /\ nelem # 0
    BY <2>1, T1Constants DEF T1Inv, IInv, Take, MustWait
  <2> QED
    BY <2>1, <2>2, T1Constants DEF T1Inv, Consistent, TypeOK, T1TypeOK
<1>2. /\ UNCHANGED <<i, at, sent>> /\ elem' = [elem EXCEPT ![t] = data[tail]]
      /\ nelem' = nelem - 1 /\ pc[t] = "test" /\ pc' = [pc EXCEPT ![t] = "signal"]
      /\ delivered' = delivered \cup (IF data[tail] # done THEN {data[tail]} ELSE {})
  BY DEF QueueStep, Take, Goto
<1>3. Calls' = Calls /\ Calls \in Int /\ elem'[Producer] = elem[Producer]
  BY <1>1, <1>2, T1Constants DEF Calls, T1Inv, Consistent, T1TypeOK, TypeOK
<1>4. Pending' <=> Pending
  BY <1>1, <1>2, T1Constants DEF Pending, TypeOK
<1>5. Pushed' = Pushed /\ Pushed \in Int
  BY <1>3, <1>4 DEF Pushed
<1>6. Popped' = Popped + 1 /\ Popped \in Int
  BY <1>1, <1>2, <1>5 DEF Popped
<1>7. /\ Contents # <<>> /\ Contents' = Tail(Contents)
      /\ elem'[t] = Head(Contents)
  <2>1. Abstract!Pop(t)
    BY <1>1, TakeIsPop
  <2>2. /\ Contents # <<>> /\ Contents' = Tail(Contents)
        /\ [c \in Consumers |-> elem'[c]]
             = [[c \in Consumers |-> elem[c]] EXCEPT ![t] = Head(Contents)]
    BY <2>1 DEF Abstract!Pop
  <2>3. [c \in Consumers |-> elem'[c]][t] = Head(Contents)
    BY <1>1, <2>2
  <2> QED
    BY <1>1, <2>2, <2>3
<1>8. Contents \in Seq(Elements) /\ Len(Contents) = nelem
  <2>1. [Next]_vars
    BY DEF Next, Step
  <2> QED
    BY <1>1, <2>1, ContentsHeld
<1>9. elem'[t] = data[tail] /\ data[tail] = Contents[1]
  BY <1>1, <1>2, <1>7, <1>8, HeadTailProperties DEF TypeOK
<1>10. data[tail] = Item(Popped) /\ Popped >= 0
  <2>1. 1 \in 1 .. nelem /\ Popped + 1 - 1 = Popped
    BY <1>1, <1>6
  <2> QED
    BY <1>1, <1>9, <2>1 DEF ItemsInOrder
<1>11. \A x \in 1 .. nelem' : Contents'[x] = Item(Popped' + x - 1)
  <2> SUFFICES ASSUME NEW x \in 1 .. nelem - 1
               PROVE  Contents'[x] = Item(Popped + 1 + x - 1)
    BY <1>2, <1>6
  <2>1. x + 1 \in 1 .. nelem /\ Popped + (x + 1) - 1 = Popped + 1 + x - 1
    BY <1>1, <1>6
  <2>2. Contents'[x] = Contents[x + 1]
    BY <1>1, <1>7, <1>8, HeadTailProperties
  <2>3. Contents[x + 1] = Item(Popped + (x + 1) - 1)
    BY <1>1, <2>1 DEF ItemsInOrder
  <2> QED
    BY <2>1, <2>2, <2>3
<1>12. data[tail] = done <=> ~(Popped < sent)
  BY <1>6, <1>10, T1Constants DEF Item
<1>13. delivered' = {n \in 0 .. sent' - 1 : n < Popped'}
  <2>1. delivered = {n \in 0 .. sent - 1 : n < Popped}
    BY <1>1 DEF ItemsInOrder
  <2>2. CASE Popped < sent
    <3>1. delivered' = delivered \cup {Popped}
      BY <1>2, <1>10, <1>12, <2>2 DEF Item
    <3>2. sent' = sent /\ sent \in Nat /\ Popped >= 0
      BY <1>1, <1>2, <1>10
    <3> QED
      BY <1>6, <2>1, <2>2, <3>1, <3>2
  <2>3. CASE ~(Popped < sent)
    <3>1. delivered' = delivered
      BY <1>2, <1>12, <2>3
    <3>2. sent' = sent /\ sent \in Nat
      BY <1>1, <1>2
    <3> QED
      BY <1>6, <2>1, <2>3, <3>1, <3>2
  <2> QED
    BY <2>2, <2>3
<1>14. Cardinality(Told') = IF Popped' > sent' THEN Popped' - sent' ELSE 0
  <2>1. at[t] = "got"
    BY <1>1, <1>2 DEF T1Inv, Consistent, InOwnPlace, InOwnCode
  <2>2. t \notin Told
    BY <1>2, <2>1 DEF Told
  <2>3. \A c \in Consumers : c # t => pc'[c] = pc[c] /\ elem'[c] = elem[c]
    BY <1>1, <1>2, T1Constants DEF TypeOK
  <2>4. pc'[t] = "signal"
    BY <1>1, <1>2 DEF TypeOK
  <2>5. Told' = Told \cup (IF data[tail] = done THEN {t} ELSE {})
    <3>1. ASSUME NEW c \in Consumers
          PROVE  c \in Told' <=> c \in Told \/ (c = t /\ data[tail] = done)
      <4>1. CASE c = t
        BY <1>2, <1>9, <2>1, <2>2, <2>4, <4>1 DEF Told
      <4>2. CASE c # t
        BY <1>2, <2>3, <4>2 DEF Told
      <4> QED
        BY <4>1, <4>2
    <3> QED
      BY <1>1, <3>1 DEF Told
  <2>6. Cardinality(Told) = IF Popped > sent THEN Popped - sent ELSE 0
    BY <1>1 DEF ItemsInOrder
  <2>7. CASE Popped < sent
    <3>1. Told' = Told
      BY <1>12, <2>5, <2>7
    <3> QED
      BY <1>1, <1>2, <1>6, <2>6, <2>7, <3>1
  <2>8. CASE ~(Popped < sent)
    <3>1. Told' = Told \cup {t}
      BY <1>12, <2>5, <2>8
    <3>2. Cardinality(Told') = Cardinality(Told) + 1
      BY <2>2, <3>1, ToldFinite, FS_AddElement
    <3> QED
      BY <1>1, <1>2, <1>6, <2>6, <2>8, <3>2
  <2> QED
    BY <2>7, <2>8
<1>15. Pending' => elem'[Producer] = Item(Calls' - 1)
  BY <1>1, <1>3, <1>4 DEF ItemsInOrder
<1>16. Popped' >= 0
  BY <1>6, <1>10
<1> QED
  BY <1>2, <1>11, <1>13, <1>14, <1>15, <1>16 DEF ItemsInOrder, Item

\* Within a call nobody passes the point where the ring changes but by Put and
\* Take.
LEMMA OtherStepsKeepItems ==
  ASSUME T1Inv, NEW t \in Threads,
         (QueueStep(t) /\ ~Put(t) /\ ~Take(t)) \/ Wake(t)
  PROVE  ItemsInOrder'
<1>1. TypeOK /\ ItemsInOrder
  BY DEF T1Inv, Consistent, T1TypeOK
<1>2. /\ UNCHANGED <<i, at, sent, ring, elem>>
      /\ Acquire(t) \/ Sleep(t) \/ Signal(t) \/ Unlock(t) \/ WakeUp(t)
  BY DEF QueueStep, Wake, Step, Acquire, Sleep, Signal, Unlock, WakeUp
<1>3. delivered' = delivered
  BY DEF QueueStep, Wake
<1>4. \A v \in Threads :
        /\ pc'[v] \in {"lock", "test", "sleep"} <=> pc[v] \in {"lock", "test", "sleep"}
        /\ pc'[v] \in {"signal", "unlock", "out"} <=> pc[v] \in {"signal", "unlock", "out"}
  <2>1. CASE Acquire(t) \/ Sleep(t) \/ Unlock(t) \/ WakeUp(t)
    BY <1>1, <2>1 DEF TypeOK, Acquire, Sleep, Unlock, WakeUp, Goto
  <2>2. CASE Signal(t)
    <3>1. \/ pc[t] = "signal" /\ pc' = [pc EXCEPT ![t] = "unlock"]
          \/ \E w \in Threads :
               /\ pc[t] = "signal" /\ pc[w] = "sleep"
               /\ pc' = [pc EXCEPT ![t] = "unlock", ![w] = "lock"]
      BY <2>2 DEF Signal, OtherSide, Threads
    <3> QED
      BY <1>1, <3>1 DEF TypeOK
  <2> QED
    BY <1>2, <2>1, <2>2
<1>5. (Pending' <=> Pending) /\ Calls' = Calls
  BY <1>2, <1>4, T1Constants DEF Pending, Calls
<1>6. Pushed' = Pushed
  BY <1>5 DEF Pushed
<1>7. Told' = Told
  BY <1>2, <1>4, T1Constants DEF Told
<1>8. Pending' => elem'[Producer] = Item(Calls' - 1)
  BY <1>1, <1>2, <1>5 DEF ItemsInOrder
<1> QED
  BY <1>1, <1>2, <1>3, <1>6, <1>7, <1>8, ItemsUndisturbed

\* The producer numbers the calls of queue_push without gap or repetition.
LEMMA ProducerKeepsItems ==
  ASSUME T1Inv, Read \/ ReadError \/ PushBlock \/ PushDone \/ ProducerExit
  PROVE  ItemsInOrder'
<1>1. /\ InOwnPlace /\ ItemsInOrder /\ i \in Nat /\ sent \in Nat /\ nelem \in Nat
      /\ DOMAIN at = Threads /\ DOMAIN pc = Threads /\ DOMAIN elem = Threads
  BY T1Constants, QueueAssumption DEF T1Inv, Consistent, T1TypeOK, TypeOK, Poisons
<1>2. /\ UNCHANGED <<ring, delivered>>
      /\ \A c \in Consumers : UNCHANGED <<at[c], pc[c], elem[c]>>
  BY <1>1, T1Constants DEF Read, ReadError, PushBlock, PushDone, ProducerExit,
     PushCall, Go, Goto, vars, ring
<1>3. Told' = Told
  BY <1>2 DEF Told
<1>4. CASE Read \/ ReadError
  <2>1. /\ at[Producer] = "read" /\ pc[Producer] = "out" /\ sent' = sent
        /\ \/ at' = [at EXCEPT ![Producer] = "stop"] /\ i' = 0
           \/ at' = [at EXCEPT ![Producer] = "push"] /\ i' = i
        /\ pc' = pc
    BY <1>4 DEF Read, ReadError, Go, InOwnCode, vars
  <2>2. ~Pending /\ ~Pending'
    BY <2>1 DEF Pending
  <2>3. Calls' = Calls
    BY <1>1, <2>1, T1Constants DEF Calls, InOwnPlace
  <2>4. Pushed' = Pushed
    BY <2>2, <2>3 DEF Pushed
  <2> QED
    BY <1>1, <1>2, <1>3, <2>1, <2>2, <2>4, ItemsUndisturbed
<1>5. CASE PushBlock
  <2>1. /\ at[Producer] = "push" /\ sent' = sent + 1 /\ pc[Producer] = "out"
        /\ at' = [at EXCEPT ![Producer] = "read"] /\ i' = i + 1
        /\ pc' = [pc EXCEPT ![Producer] = "lock"]
        /\ elem' = [elem EXCEPT ![Producer] = i]
    BY <1>5 DEF PushBlock, PushCall, Go, Goto, NextBlock, InOwnPlace, InOwnCode
  <2>2. ~Pending /\ Pending'
    BY <1>1, <2>1, T1Constants DEF Pending
  <2>3. i = sent /\ Calls = sent /\ Calls' = sent + 1
    BY <1>1, <2>1, T1Constants DEF Calls, InOwnPlace
  <2>4. Pushed = sent /\ Pushed' = sent
    BY <1>1, <2>2, <2>3 DEF Pushed
  <2>5. Popped = sent - nelem /\ Popped' = Popped /\ Contents' = Contents
    BY <1>2, <2>4 DEF Popped, Contents, ring
  <2> DEFINE ItemNow(n) == IF n < sent + 1 THEN n ELSE done  \* Item, one block on
  <2>6. elem'[Producer] = ItemNow(Calls' - 1)
    BY <1>1, <2>1, <2>3, T1Constants
  <2>7. \A x \in 1 .. nelem : ItemNow(Popped + x - 1) = Item(Popped + x - 1)
    BY <1>1, <2>1, <2>5 DEF Item
  <2>8. {n \in 0 .. sent' - 1 : n < Popped} = {n \in 0 .. sent - 1 : n < Popped}
    BY <1>1, <2>1, <2>5
  <2>9. nelem' = nelem /\ delivered' = delivered
    BY <1>2 DEF ring
  <2>10. /\ Popped >= 0
         /\ \A x \in 1 .. nelem : Contents[x] = Item(Popped + x - 1)
         /\ delivered = {n \in 0 .. sent - 1 : n < Popped}
         /\ Cardinality(Told) = IF Popped > sent THEN Popped - sent ELSE 0
    BY <1>1 DEF ItemsInOrder
  <2>11. ~(Popped > sent) /\ ~(Popped > sent')
    BY <1>1, <2>1, <2>5
  <2>12. \A x \in 1 .. nelem' : Contents'[x] = ItemNow(Popped' + x - 1)
    BY <2>5, <2>7, <2>9, <2>10
  <2>13. Cardinality(Told') = IF Popped' > sent' THEN Popped' - sent' ELSE 0
    BY <1>3, <2>5, <2>10, <2>11
  <2> QED
    BY <2>1, <2>5, <2>6, <2>8, <2>9, <2>10, <2>12, <2>13 DEF ItemsInOrder, Item
<1>6. CASE PushDone
  <2>1. /\ at[Producer] = "stop" /\ at' = [at EXCEPT ![Producer] = "stop"]
        /\ i' = i + 1 /\ sent' = sent /\ pc[Producer] = "out"
        /\ pc' = [pc EXCEPT ![Producer] = "lock"]
        /\ elem' = [elem EXCEPT ![Producer] = done]
    BY <1>6 DEF PushDone, PushCall, Go, Goto
  <2>2. ~Pending /\ Pending'
    BY <1>1, <2>1, T1Constants DEF Pending
  <2>3. Calls = sent + i /\ Calls' = sent + i + 1
    BY <1>1, <2>1, T1Constants DEF Calls
  <2>4. Pushed' = Pushed
    BY <1>1, <2>2, <2>3, T1Constants DEF Pushed
  <2>5. elem'[Producer] = Item(Calls' - 1)
    BY <1>1, <2>1, <2>3, T1Constants DEF Item
  <2> QED
    BY <1>1, <1>2, <1>3, <2>1, <2>4, <2>5, ItemsUndisturbed
<1>7. CASE ProducerExit
  <2>1. /\ at[Producer] = "stop" /\ pc[Producer] = "out"
        /\ at' = [at EXCEPT ![Producer] = "exit"] /\ UNCHANGED <<i, sent, pc>>
    BY <1>7 DEF ProducerExit, Go, InOwnCode, vars
  <2>2. ~Pending /\ ~Pending'
    BY <2>1 DEF Pending
  <2>3. Calls' = Calls
    BY <1>1, <2>1, T1Constants DEF Calls
  <2>4. Pushed' = Pushed
    BY <2>2, <2>3 DEF Pushed
  <2> QED
    BY <1>1, <1>2, <1>3, <2>1, <2>2, <2>4, ItemsUndisturbed
<1> QED
  BY <1>4, <1>5, <1>6, <1>7

\* A worker counts as told from its queue_pop of a -1 on, whatever it does next.
LEMMA WorkerKeepsItems ==
  ASSUME T1Inv, NEW c \in Consumers, Pop(c) \/ Got(c) \/ Use(c)
  PROVE  ItemsInOrder'
<1>1. /\ InOwnPlace /\ ItemsInOrder /\ c \in Threads /\ c # Producer
      /\ DOMAIN at = Threads /\ DOMAIN pc = Threads
  BY T1Constants DEF T1Inv, Consistent, T1TypeOK, TypeOK
<1>2. /\ UNCHANGED <<ring, delivered, i, sent, elem>>
      /\ \A v \in Threads : v # c => UNCHANGED <<at[v], pc[v]>>
  BY <1>1 DEF Pop, Got, Use, PopCall, Go, Goto, vars, ring
<1>3. (Pending' <=> Pending) /\ Calls' = Calls
  BY <1>1, <1>2, T1Constants DEF Pending, Calls
<1>4. Pushed' = Pushed
  BY <1>3 DEF Pushed
<1>5. Told' = Told
  <2>1. c \in Told' <=> c \in Told
    <3>1. CASE Pop(c)
      <4>1. at[c] = "pop" /\ at'[c] = "got" /\ pc'[c] = "lock"
        BY <1>1, <3>1 DEF Pop, PopCall, Go, Goto
      <4> QED
        BY <4>1 DEF Told
    <3>2. CASE Got(c)
      <4>1. /\ at[c] = "got" /\ pc[c] = "out" /\ pc'[c] = "out"
            /\ at'[c] = IF elem[c] = done THEN "exit" ELSE "use"
        BY <1>1, <3>2 DEF Got, Go, AfterPop, InOwnCode, vars
      <4> QED
        BY <1>2, <4>1 DEF Told
    <3>3. CASE Use(c)
      <4>1. at[c] = "use" /\ at'[c] = "pop"
        BY <1>1, <3>3 DEF Use, Go, LoopHead
      <4> QED
        BY <4>1 DEF Told
    <3> QED
      BY <3>1, <3>2, <3>3
  <2>2. \A v \in Consumers : v # c => (v \in Told' <=> v \in Told)
    BY <1>2, T1Constants DEF Told
  <2> QED
    BY <2>1, <2>2 DEF Told
<1>6. Pending' => elem'[Producer] = Item(Calls' - 1)
  BY <1>1, <1>2, <1>3 DEF ItemsInOrder
<1> QED
  BY <1>1, <1>2, <1>4, <1>5, <1>6, ItemsUndisturbed

LEMMA ItemsKept ==
  ASSUME T1Inv, [T1Next]_t1vars
  PROVE  ItemsInOrder'
<1>1. CASE Destroy \/ Finished \/ UNCHANGED t1vars
  <2>1. UNCHANGED <<ring, delivered, i, sent, elem, at, pc>>
    BY <1>1 DEF Destroy, Finished, t1vars, vars, ring
  <2>2. (Pending' <=> Pending) /\ Calls' = Calls /\ Told' = Told
    BY <2>1 DEF Pending, Calls, Told
  <2>3. Pushed' = Pushed
    BY <2>2 DEF Pushed
  <2>4. ItemsInOrder
    BY DEF T1Inv, Consistent
  <2> QED
    BY <2>1, <2>2, <2>3, <2>4, ItemsUndisturbed DEF ItemsInOrder
<1>2. ASSUME NEW t \in Threads, QueueStep(t) \/ Wake(t) PROVE ItemsInOrder'
  BY <1>2, PutKeepsItems, TakeKeepsItems, OtherStepsKeepItems
<1> QED
  BY <1>1, <1>2, ProducerKeepsItems, WorkerKeepsItems DEF T1Next, Run

\* With all threads back from the queue and gone, what is left is counted: the
\* calls of queue_push are the blocks and a -1 for each worker, and as many
\* items as that were popped.
LEMMA AllJoined ==
  ASSUME T1Inv, \A t \in Threads : at[t] = "exit"
  PROVE  nelem = 0 /\ lock = NoOne /\ delivered = 0 .. sent - 1 /\ sent >= FullBlocks
<1>1. /\ IInv /\ InOwnPlace /\ FileRead /\ ItemsInOrder /\ nelem \in Nat /\ sent \in Nat
      /\ errors \in Nat
  BY QueueAssumption, T1Constants DEF T1Inv, Consistent, IInv, TypeOK, T1TypeOK
<1>2. at[Producer] = "exit" /\ \A t \in Threads : pc[t] = "out"
  BY <1>1, T1Constants DEF InOwnPlace, InOwnCode
<1>3. lock = NoOne
  BY <1>1, <1>2 DEF IInv, LockExact, InMutex, TypeOK
<1>4. i = Poisons /\ sent >= FullBlocks
  BY <1>1, <1>2, T1Constants DEF InOwnPlace, FileRead
<1>5. Pushed = sent + Poisons
  <2>1. ~Pending /\ Calls = sent + i
    BY <1>2, T1Constants DEF Pending, Calls
  <2> QED
    BY <1>4, <2>1 DEF Pushed
<1>6. Popped = sent + Poisons - nelem
  BY <1>1, <1>5, T1Constants DEF Popped
<1>7. Cardinality(Told) = Poisons
  <2>1. Told = Consumers
    BY T1Constants DEF Told
  <2> QED
    BY <2>1 DEF Poisons
<1>8. nelem = 0
  BY <1>1, <1>6, <1>7, T1Constants DEF ItemsInOrder
<1>9. delivered = 0 .. sent - 1
  <2>1. delivered = {n \in 0 .. sent - 1 : n < Popped}
    BY <1>1 DEF ItemsInOrder
  <2> QED
    BY <1>1, <1>6, <1>8, <2>1, T1Constants
<1> QED
  BY <1>3, <1>4, <1>8, <1>9

\* Nobody moves after queue_destroy, which waits for everybody.
LEMMA DestroyedKept ==
  ASSUME T1Inv, [T1Next]_t1vars
  PROVE  DestroyedIdle'
<1>1. InOwnPlace /\ DestroyedIdle
  BY DEF T1Inv, Consistent
<1>2. CASE Destroy
  <2>1. \A t \in Threads : at[t] = "exit"
    BY <1>2 DEF Destroy, Joined
  <2>2. UNCHANGED <<at, nelem, lock, sent, delivered>>
    BY <1>2 DEF Destroy, vars
  <2> QED
    BY <2>1, <2>2, AllJoined DEF DestroyedIdle
<1>3. ASSUME ~Destroy, main' = "destroyed", ~UNCHANGED t1vars PROVE FALSE
  <2>1. PICK t \in Threads : Run(t) \/ Wake(t)
    BY <1>3 DEF T1Next, Finished
  <2>2. main = "destroyed"
    BY <1>3, <2>1
    DEF Run, Read, ReadError, PushBlock, PushDone, ProducerExit, Pop, Got, Use,
        QueueStep, Wake
  <2>3. /\ at[t] = "exit" /\ at[Producer] = "exit" /\ pc[t] = "out"
        /\ \A c \in Consumers : at[c] = "exit"
    BY <1>1, <2>1, <2>2, T1Constants DEF DestroyedIdle, InOwnPlace, InOwnCode
  <2>4. ~Step(t) /\ ~WakeUp(t)
    BY <2>3 DEF Step, Acquire, Sleep, Put, Take, Signal, Unlock, WakeUp, Goto
  <2> QED
    BY <2>1, <2>3, <2>4
    DEF Run, Read, ReadError, PushBlock, PushDone, ProducerExit, Pop, Got, Use,
        QueueStep, Wake, Go
<1>4. CASE UNCHANGED t1vars
  BY <1>1, <1>4 DEF t1vars, vars, DestroyedIdle
<1> QED
  BY <1>2, <1>3, <1>4 DEF DestroyedIdle

LEMMA T1InitStarts == T1Init => T1Inv
<1> SUFFICES ASSUME T1Init PROVE T1Inv
  OBVIOUS
<1>1. /\ i = 0 /\ pos = 0 /\ errors = 0 /\ sent = 0 /\ delivered = {} /\ main = "join"
      /\ at[Producer] = "read" /\ \A c \in Consumers : at[c] = "pop"
      /\ at \in [Threads -> {"read", "pop"}]
      /\ nelem = 0 /\ pc = [t \in Threads |-> "out"] /\ pc[Producer] = "out"
  BY T1Constants DEF T1Init, Init
<1>2. IInv
  <2>1. Init => Basic
    BY QueueAssumption
    DEF Init, Basic, TypeOK, LockExact, RingExact, InMutex, Slots, Threads
  <2>2. NoLostWakeUp
    BY <1>1 DEF NoLostWakeUp, Covered, Sleeping, Threads
  <2> QED
    BY <2>1, <2>2 DEF T1Init, IInv, Basic
<1>3. T1TypeOK
  <2>1. buf \in [Bytes -> -1 .. MaxBlocks]
    BY T1Constants DEF T1Init
  <2>2. i \in 0 .. MaxBlocks + Poisons
    BY <1>1, T1Constants
  <2> QED
    BY <1>1, <1>2, <2>1, <2>2, T1Constants, FileConstants DEF T1TypeOK, IInv, Poisons
<1>4. InOwnPlace /\ FileRead
  <2>1. Reads = 0 /\ 0 * BlockSize = 0 /\ (0 - 0) * BlockSize = 0
    BY <1>1, FileConstants DEF Reads
  <2> QED
    BY <1>1, <2>1, T1Constants DEF InOwnPlace, InOwnCode, FileRead
<1>5. ItemsInOrder
  <2>1. ~Pending /\ Calls = 0
    BY <1>1 DEF Pending, Calls
  <2>2. Popped = 0
    BY <1>1, <2>1 DEF Popped, Pushed
  <2>3. Told = {}
    BY <1>1 DEF Told
  <2> QED
    BY <1>1, <2>1, <2>2, <2>3, T1Constants, FS_EmptySet DEF ItemsInOrder
<1>6. DestroyedIdle
  BY <1>1 DEF DestroyedIdle
<1> QED
  BY <1>2, <1>3, <1>4, <1>5, <1>6 DEF T1Inv, Consistent

LEMMA T1Invariant == T1Spec => []T1Inv
<1>1. T1Inv /\ [T1Next]_t1vars => T1Inv'
  BY QueueKept, T1TypesKept, OwnPlacesKept, FileReadKept, ItemsKept, DestroyedKept
  DEF T1Inv, Consistent
<1> QED
  BY <1>1, T1InitStarts, PTL DEF T1Spec

\* The protocol of numbers and -1s is kept for any number of workers, blocks,
\* slots and failed reads: what is in the queue is what has been pushed and not
\* popped, in order; each worker that stops has had a -1 of its own; the
\* producer stops only when every whole block of the file is pushed; and
\* queue_destroy finds the queue empty, unlocked and with nobody in it.
THEOREM T1Consistent == T1Spec => []Consistent
<1>1. T1Inv => Consistent
  BY DEF T1Inv
<1> QED
  BY <1>1, T1Invariant, PTL

\* The blocks reach the workers once each, in the order in which they were read,
\* and no worker is told to stop before all of them are taken, whatever reads
\* fail.
THEOREM T1InOrderOnce == T1Spec => InOrderOnce
<1> DEFINE Ordered ==
      \A c \in Consumers : Take(c) =>
        delivered = IF data[tail] = done THEN 0 .. sent - 1
                                         ELSE 0 .. data[tail] - 1
<1>1. T1Inv /\ [T1Next]_t1vars => [Ordered]_t1vars
  <2> SUFFICES ASSUME T1Inv, NEW c \in Consumers, Take(c)
               PROVE  delivered = IF data[tail] = done THEN 0 .. sent - 1
                                                       ELSE 0 .. data[tail] - 1
    OBVIOUS
  <2>1. /\ IInv /\ TypeOK /\ ItemsInOrder /\ nelem \in Nat /\ nelem > 0 /\ sent \in Nat
        /\ c \in Threads
    <3>1. c \notin Producers /\ c \in Threads
      BY T1Constants
    <3> QED
      BY <3>1, QueueAssumption, T1Constants
      DEF T1Inv, Consistent, T1TypeOK, IInv, TypeOK, Take, MustWait
  <2>2. Popped \in Int
    BY <2>1, T1Constants
    DEF Popped, Pushed, Calls, T1Inv, Consistent, T1TypeOK, Poisons
  <2>3. data[tail] = Item(Popped) /\ Popped >= 0
    <3>1. Contents[1] = data[tail]
      BY <2>1, FirstOfRing
    <3>2. 1 \in 1 .. nelem /\ Popped + 1 - 1 = Popped
      BY <2>1, <2>2
    <3> QED
      BY <2>1, <3>1, <3>2 DEF ItemsInOrder
  <2>4. delivered = {n \in 0 .. sent - 1 : n < Popped}
    BY <2>1 DEF ItemsInOrder
  <2>5. CASE Popped < sent
    <3>1. data[tail] = Popped /\ data[tail] # done
      BY <2>1, <2>2, <2>3, <2>5, T1Constants DEF Item
    <3> QED
      BY <2>1, <2>2, <2>3, <2>4, <2>5, <3>1
  <2>6. CASE ~(Popped < sent)
    <3>1. data[tail] = done
      BY <2>3, <2>6 DEF Item
    <3> QED
      BY <2>1, <2>2, <2>4, <2>6, <3>1
  <2> QED
    BY <2>5, <2>6
<1> QED
  BY <1>1, T1Invariant, PTL DEF T1Spec, InOrderOnce

\* The program is a run of the queue: what is proved of every use of the queue
\* holds of this one.
THEOREM T1UsesQueue == T1Spec => Spec
<1>1. T1Init => Init
  BY DEF T1Init
<1>2. T1Inv /\ [T1Next]_t1vars => [Next]_vars
  BY T1StepIsQueueStep
<1> QED
  BY <1>1, <1>2, T1Invariant, PTL DEF T1Spec, Spec
=============================================================================
