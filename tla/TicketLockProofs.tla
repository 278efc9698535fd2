-------------------------- MODULE TicketLockProofs --------------------------
(***************************************************************************)
(* Proofs about TicketLock for every finite set of at most TicketMod       *)
(* threads.  No history variable is needed: the numbers of the queued      *)
(* threads are dense (NumbersDense), which with Cardinality(Threads) =<    *)
(* TicketMod keeps two of them from ever colliding.                        *)
(***************************************************************************)
EXTENDS TicketLock, Sequences, FiniteSetTheorems, SequenceTheorems, TLAPS

\* The increment of an unsigned short, without the modulus.
LEMMA IncValue ==
  ASSUME NEW n \in Short
  PROVE  /\ Inc(n) \in Short
         /\ Inc(n) = IF n = TicketMod - 1 THEN 0 ELSE n + 1
<1>1. TicketMod \in Nat /\ TicketMod > 0
  BY TicketAssumption
<1>2. CASE n = TicketMod - 1
  <2>1. (n + 1) % TicketMod = 0
    BY <1>1, <1>2, SMT
  <2> QED
    BY <2>1, <1>1, <1>2 DEF Inc, Short
<1>3. CASE n # TicketMod - 1
  <2>1. n + 1 \in 0 .. TicketMod - 1
    BY <1>1, <1>3 DEF Short
  <2>2. (n + 1) % TicketMod = n + 1
    BY <1>1, <2>1, SMT
  <2> QED
    BY <2>1, <2>2, <1>3 DEF Inc, Short
<1> QED
  BY <1>2, <1>3

\* The queue is finite, and a thread outside it leaves a number unused.
LEMMA QueueSize ==
  /\ IsFiniteSet(Queued)
  /\ Cardinality(Queued) \in Nat
  /\ Cardinality(Queued) =< TicketMod
  /\ \A t \in Threads : t \notin Queued => Cardinality(Queued) < TicketMod
  /\ TicketMod \in Nat /\ TicketMod > 0
<1>1. Queued \in SUBSET Threads
  BY DEF Queued
<1>2. /\ IsFiniteSet(Queued)
      /\ Cardinality(Queued) =< Cardinality(Threads)
      /\ Cardinality(Threads) = Cardinality(Queued) => Threads = Queued
  BY <1>1, FS_Subset, TicketAssumption
<1>3. Cardinality(Queued) \in Nat /\ Cardinality(Threads) \in Nat
  BY <1>2, FS_CardinalityType, TicketAssumption
<1> QED
  BY <1>1, <1>2, <1>3, TicketAssumption

\* A number drawn by a thread outside the queue extends it, at its end.
LEMMA DrawKeepsDense ==
  ASSUME IInv, NEW t \in Threads, t \notin Queued,
         me'[t] = users, users' = Inc(users), ticket' = ticket,
         \A s \in Threads : s # t => me'[s] = me[s] /\ pc'[s] = pc[s],
         me' \in [Threads -> Short],
         pc'[t] = "spin" \/ (pc'[t] = "cs" /\ users = ticket)
  PROVE  NumbersDense'
<1> DEFINE c == Cardinality(Queued)
<1>1. /\ IsFiniteSet(Queued) /\ c \in Nat /\ c < TicketMod
      /\ TicketMod \in Nat
  BY QueueSize
<1>2. Queued' = Queued \cup {t}
  BY DEF Queued, Holding
<1>3. Cardinality(Queued') = c + 1
  BY <1>1, <1>2, FS_AddElement
<1>4. /\ ticket \in Short /\ users \in Short /\ me \in [Threads -> Short]
  BY DEF IInv, TypeOK
<1>5. Dist(users) = c
  BY <1>1, <1>4 DEF IInv, NumbersDense, Dist, Short
<1>6. \A s \in Queued : s \in Threads /\ s # t /\ me'[s] = me[s]
                        /\ Dist(me[s]) < c
  BY DEF IInv, NumbersDense, Queued
<1>7. \A s \in Queued' : (Dist(me[s]))' < c + 1
  <2> SUFFICES ASSUME NEW s \in Queued'
               PROVE  (Dist(me[s]))' < c + 1
    OBVIOUS
  <2>1. CASE s = t
    BY <1>1, <1>5, <2>1 DEF Dist
  <2>2. CASE s \in Queued
    <3>1. (Dist(me[s]))' = Dist(me[s])
      BY <1>6, <2>2 DEF Dist
    <3>2. Dist(me[s]) \in Int
      BY <1>1, <1>4, <1>6, <2>2 DEF Dist, Short
    <3> QED
      BY <1>1, <1>6, <2>2, <3>1, <3>2
  <2> QED
    BY <1>2, <2>1, <2>2
<1>8. \A r, s \in Queued' : me'[r] = me'[s] => r = s
  BY <1>1, <1>2, <1>5, <1>6 DEF IInv, NumbersDense
<1>9. users' = IF ticket' + (c + 1) < TicketMod THEN ticket' + (c + 1)
               ELSE ticket' + (c + 1) - TicketMod
  BY <1>1, <1>4, IncValue DEF IInv, NumbersDense, Short
<1>10. \A s \in Threads : Holding(s)' => me'[s] = ticket'
  BY DEF IInv, NumbersDense, Holding
<1> QED
  BY <1>3, <1>7, <1>8, <1>9, <1>10 DEF NumbersDense

\* The release serves the next number: every other distance drops by one.
LEMMA ReleaseKeepsDense ==
  ASSUME IInv, NEW t \in Threads, UnlockStore(t)
  PROVE  NumbersDense'
<1> DEFINE c == Cardinality(Queued)
<1>1. /\ IsFiniteSet(Queued) /\ c \in Nat /\ c =< TicketMod
      /\ TicketMod \in Nat /\ TicketMod > 0
  BY QueueSize
<1>2. /\ ticket \in Short /\ users \in Short /\ me \in [Threads -> Short]
      /\ pc \in [Threads -> {"out", "spin", "cs", "store", "try"}]
  BY DEF IInv, TypeOK
<1>3. /\ pc[t] = "store" /\ pc' = [pc EXCEPT ![t] = "out"]
      /\ users' = users /\ me' = me /\ ticket' = Inc(ticket)
  BY DEF UnlockStore, Goto, Stored, IInv, NoLostRelease
<1>4. t \in Queued /\ me[t] = ticket /\ Queued' = Queued \ {t}
  BY <1>2, <1>3 DEF Queued, Holding, IInv, NumbersDense
<1>5. Cardinality(Queued') = c - 1
  BY <1>1, <1>4, FS_RemoveElement
<1>6. c > 0
  BY <1>1, <1>4, FS_EmptySet
<1>7. \A s \in Queued' : s \in Threads /\ me[s] \in Short /\ me[s] # ticket
                         /\ Dist(me[s]) < c
  BY <1>2, <1>4 DEF IInv, NumbersDense, Queued
<1>8. \A s \in Queued' : (Dist(me[s]))' < c - 1
  <2> SUFFICES ASSUME NEW s \in Queued'
               PROVE  (Dist(me[s]))' < c - 1
    OBVIOUS
  <2>1. (Dist(me[s]))' = Dist(me[s]) - 1
    BY <1>1, <1>2, <1>3, <1>7, IncValue DEF Dist, Short
  <2>2. Dist(me[s]) \in Int
    BY <1>1, <1>2, <1>7 DEF Dist, Short
  <2> QED
    BY <1>1, <1>7, <2>1, <2>2
<1>9. users' = IF ticket' + (c - 1) < TicketMod THEN ticket' + (c - 1)
               ELSE ticket' + (c - 1) - TicketMod
  BY <1>1, <1>2, <1>3, <1>6, IncValue DEF IInv, NumbersDense, Short
<1>10. \A s \in Threads : ~Holding(s)'
  BY <1>2, <1>3, <1>4 DEF IInv, NumbersDense, Holding, Queued
<1> QED
  BY <1>3, <1>4, <1>5, <1>8, <1>9, <1>10 DEF NumbersDense, IInv

\* TicketLock's inductive invariant: the types, the dense numbers and the
\* register of an unlock in progress.
THEOREM TicketInvariant == Spec => []IInv
<1>1. Init => IInv
  <2> SUFFICES ASSUME Init
               PROVE  IInv
    OBVIOUS
  <2>1. TicketMod \in Nat /\ TicketMod > 0
    BY QueueSize
  <2>2. Queued = {} /\ \A t \in Threads : pc[t] = "out"
    BY DEF Init, Queued, Holding
  <2>3. Cardinality(Queued) = 0
    BY <2>2, FS_EmptySet
  <2>4. TypeOK
    BY <2>1 DEF Init, TypeOK, Short
  <2>5. NumbersDense
    BY <2>1, <2>2, <2>3 DEF Init, NumbersDense, Holding, Short
  <2>6. NoLostRelease
    BY <2>2 DEF NoLostRelease
  <2> QED
    BY <2>4, <2>5, <2>6 DEF IInv
<1>2. IInv /\ [Next]_vars => IInv'
  <2> SUFFICES ASSUME IInv, [Next]_vars
               PROVE  IInv'
    OBVIOUS
  <2>0. TypeOK
    BY DEF IInv
  <2>1. ASSUME NEW t \in Threads, Lock(t)
        PROVE  IInv'
    <3>1. t \notin Queued
      BY <2>1 DEF Lock, Goto, Queued, Holding
    <3>2. NumbersDense'
      BY <2>0, <2>1, <3>1, DrawKeepsDense DEF Lock, Goto, TypeOK
    <3>3. TypeOK'
      BY <2>0, <2>1, IncValue DEF Lock, Goto, TypeOK
    <3>4. NoLostRelease'
      BY <2>0, <2>1 DEF Lock, Goto, IInv, NoLostRelease, TypeOK
    <3> QED
      BY <3>2, <3>3, <3>4 DEF IInv
  <2>2. ASSUME NEW t \in Threads, TryTake(t)
        PROVE  IInv'
    <3>1. t \notin Queued
      BY <2>2 DEF TryTake, Goto, Queued, Holding
    <3>2. NumbersDense'
      BY <2>0, <2>2, <3>1, DrawKeepsDense DEF TryTake, Word, Goto, TypeOK
    <3>3. TypeOK'
      BY <2>0, <2>2, IncValue DEF TryTake, Goto, TypeOK
    <3>4. NoLostRelease'
      BY <2>0, <2>2 DEF TryTake, Goto, IInv, NoLostRelease, TypeOK
    <3> QED
      BY <3>2, <3>3, <3>4 DEF IInv
  <2>3. ASSUME NEW t \in Threads, UnlockStore(t)
        PROVE  IInv'
    <3>1. NumbersDense'
      BY <2>3, ReleaseKeepsDense
    <3>2. TypeOK'
      BY <2>0, <2>3, IncValue DEF UnlockStore, Stored, Goto, TypeOK
    <3>3. NoLostRelease'
      <4>1. \A s \in Threads : pc[s] = "store" => s = t
        BY <2>0, <2>3 DEF UnlockStore, Goto, IInv, NumbersDense, Queued,
                          Holding
      <4> QED
        BY <2>0, <2>3, <4>1 DEF UnlockStore, Goto, NoLostRelease, TypeOK
    <3> QED
      BY <3>1, <3>2, <3>3 DEF IInv
  <2>4. ASSUME NEW t \in Threads, Spin(t) \/ UnlockLoad(t)
        PROVE  IInv'
    <3>1. Queued' = Queued /\ \A n : Dist(n)' = Dist(n)
      BY <2>0, <2>4 DEF Spin, UnlockLoad, Goto, TypeOK, Queued, Holding, Dist
    <3>2. TypeOK' /\ NoLostRelease'
      BY <2>0, <2>4 DEF Spin, UnlockLoad, Goto, TypeOK, IInv, NoLostRelease
    <3>3. me' = me /\ users' = users /\ ticket' = ticket
      BY <2>4 DEF Spin, UnlockLoad
    <3>4. \A s \in Threads : Holding(s)' => me'[s] = ticket'
      BY <2>0, <2>4 DEF Spin, Served, UnlockLoad, Goto, TypeOK, IInv,
                        NumbersDense, Holding
    <3> QED
      BY <3>1, <3>2, <3>3, <3>4 DEF IInv, NumbersDense, Dist
  <2>5. ASSUME NEW t \in Threads, TryRead(t) \/ TryBusy(t)
        PROVE  IInv'
    <3>1. Queued' = Queued /\ \A s \in Threads : Holding(s)' = Holding(s)
      BY <2>0, <2>5 DEF TryRead, TryBusy, Goto, TypeOK, Queued, Holding
    <3>2. \A s \in Queued : me'[s] = me[s]
      BY <2>0, <2>5 DEF TryRead, TryBusy, Goto, TypeOK, Queued, Holding
    <3>3. TypeOK' /\ NoLostRelease'
      BY <2>0, <2>5 DEF TryRead, TryBusy, Goto, TypeOK, IInv, NoLostRelease
    <3>4. users' = users /\ ticket' = ticket
      BY <2>5 DEF TryRead, TryBusy
    <3> QED
      BY <3>1, <3>2, <3>3, <3>4
      DEF IInv, NumbersDense, Dist, Queued
  <2>6. CASE UNCHANGED vars
    BY <2>6 DEF vars, IInv, TypeOK, NumbersDense, NoLostRelease, Queued,
                Holding, Dist
  <2> QED
    BY <2>1, <2>2, <2>3, <2>4, <2>5, <2>6 DEF Next, Step
<1> QED
  BY <1>1, <1>2, PTL DEF Spec

\* ticket_lock, ticket_trylock and ticket_unlock exclude: never two threads
\* between the return of a lock call and the store of the unlock.
THEOREM TicketMutualExclusion == Spec => []MutualExclusion
<1>1. IInv => MutualExclusion
  BY DEF IInv, NumbersDense, MutualExclusion, Queued
<1> QED
  BY <1>1, TicketInvariant, PTL

\* The plain ticket++ of ticket_unlock never loses another thread's update.
THEOREM TicketNoLostRelease == Spec => []NoLostRelease
<1>1. IInv => NoLostRelease
  BY DEF IInv
<1> QED
  BY <1>1, TicketInvariant, PTL

\* ticket_lockable answers whether the lock is free, for an unqueued caller.
THEOREM TicketLockableExact == Spec => []LockableExact
<1>1. IInv => LockableExact
  <2> SUFFICES ASSUME IInv, Queued # Threads
               PROVE  Lockable <=> Queued = {}
    BY DEF LockableExact
  <2>1. PICK t \in Threads : t \notin Queued
    BY DEF Queued
  <2>2. Cardinality(Queued) \in Nat /\ Cardinality(Queued) < TicketMod
        /\ TicketMod \in Nat
    BY <2>1, QueueSize
  <2>3. Cardinality(Queued) = 0 <=> Queued = {}
    BY QueueSize, FS_EmptySet
  <2>4. ticket = users <=> Cardinality(Queued) = 0
    BY <2>2 DEF IInv, TypeOK, NumbersDense, Short
  <2> QED
    BY <2>3, <2>4 DEF Lockable
<1> QED
  BY <1>1, TicketInvariant, PTL

----------------------------------------------------------------------------
(* The line of LockSpec, read off the numbers *)

\* Queued threads are at different distances from the number now served.
LEMMA DistancesDiffer ==
  ASSUME IInv, NEW s \in Queued, NEW t \in Queued, Dist(me[s]) = Dist(me[t])
  PROVE  s = t
<1>1. TicketMod \in Nat /\ ticket \in Short /\ me[s] \in Short /\ me[t] \in Short
  BY QueueSize DEF IInv, TypeOK, Queued
<1>2. me[s] = me[t]
  BY <1>1 DEF Dist, Short
<1> QED
  BY <1>2 DEF IInv, NumbersDense

\* Every place of the line is taken: as many distances as queued threads, all
\* different, leave no gap.
LEMMA EveryPlaceTaken ==
  ASSUME IInv, NEW k \in 1 .. Cardinality(Queued)
  PROVE  \E t \in Queued : Dist(me[t]) = k - 1
<1> DEFINE c == Cardinality(Queued)
           P == 0 .. c - 1
           D == [t \in Queued |-> Dist(me[t])]
<1>1. /\ IsFiniteSet(Queued) /\ c \in Nat /\ TicketMod \in Nat
      /\ ticket \in Short /\ me \in [Threads -> Short] /\ Queued \subseteq Threads
  BY QueueSize DEF IInv, TypeOK, Queued
<1>2. \A t \in Queued : Dist(me[t]) \in P
  BY <1>1 DEF Dist, Short, IInv, NumbersDense
<1>3. D \in Injection(Queued, P)
  BY <1>2, DistancesDiffer DEF Injection, IsInjective
<1>4. IsFiniteSet(P) /\ Cardinality(P) = c
  <2>1. 0 \in Int /\ c - 1 \in Int /\ c - 1 - 0 + 1 = c /\ (0 > c - 1 => c = 0)
    BY <1>1
  <2> QED
    BY <2>1, FS_Interval
<1>5. D \in Surjection(Queued, P)
  BY <1>1, <1>3, <1>4, FS_Injection
<1>6. k - 1 \in P
  BY <1>1
<1>7. PICK t \in Queued : D[t] = k - 1
  BY <1>5, <1>6 DEF Surjection
<1> QED
  BY <1>7

\* Each queued thread has the place in line that its distance says.
PlacesByDistance ==
  /\ Line \in Seq(Threads) /\ Len(Line) = Cardinality(Queued)
  /\ \A k \in 1 .. Cardinality(Queued) : Line[k] \in Queued /\ Dist(me[Line[k]]) = k - 1
  /\ \A t \in Queued : /\ Dist(me[t]) + 1 \in 1 .. Cardinality(Queued)
                       /\ Line[Dist(me[t]) + 1] = t

\* The line is a sequence that holds the queued threads in order.
LEMMA LineByDistance == IInv => PlacesByDistance
<1> SUFFICES ASSUME IInv PROVE PlacesByDistance
  OBVIOUS
<1> DEFINE c == Cardinality(Queued)
<1>1. /\ c \in Nat /\ TicketMod \in Nat /\ Queued \subseteq Threads
      /\ ticket \in Short /\ me \in [Threads -> Short]
  BY QueueSize DEF IInv, TypeOK, Queued
<1>2. \A k \in 1 .. c : Line[k] \in Queued /\ Dist(me[Line[k]]) = k - 1
  BY EveryPlaceTaken DEF Line
<1>3. Line \in Seq(Threads) /\ Len(Line) = c
  <2>1. Line \in [1 .. c -> Threads]
    BY <1>1, <1>2 DEF Line
  <2> QED
    BY <1>1, <2>1
<1>4. ASSUME NEW t \in Queued
      PROVE  Dist(me[t]) + 1 \in 1 .. c /\ Line[Dist(me[t]) + 1] = t
  <2>1. Dist(me[t]) \in 0 .. c - 1
    BY <1>1 DEF Dist, Short, IInv, NumbersDense
  <2>2. Dist(me[t]) + 1 \in 1 .. c /\ (Dist(me[t]) + 1) - 1 = Dist(me[t])
    BY <1>1, <2>1
  <2>3. /\ Line[Dist(me[t]) + 1] \in Queued
        /\ Dist(me[Line[Dist(me[t]) + 1]]) = Dist(me[t])
    BY <1>2, <2>2
  <2> QED
    BY <2>2, <2>3, DistancesDiffer
<1> QED
  BY <1>2, <1>3, <1>4 DEF PlacesByDistance

\* The same in the next state.
LEMMA LineByDistanceNext == IInv' => PlacesByDistance'
  BY LineByDistance, PTL

\* A thread that draws the next number joins the line at its end.
LEMMA DrawAppends ==
  ASSUME IInv, IInv', NEW t \in Threads, t \notin Queued, Queued' = Queued \cup {t},
         me'[t] = users, ticket' = ticket,
         \A s \in Threads : s # t => me'[s] = me[s]
  PROVE  Line' = Append(Line, t)
<1> DEFINE c == Cardinality(Queued)
<1>1. /\ IsFiniteSet(Queued) /\ c \in Nat /\ c < TicketMod /\ TicketMod \in Nat
      /\ Queued \subseteq Threads
  BY QueueSize DEF Queued
<1>2. Cardinality(Queued)' = c + 1
  BY <1>1, FS_AddElement
<1>3. ticket \in Short /\ users \in Short
  BY DEF IInv, TypeOK
<1>4. Dist(users) = c
  BY <1>1, <1>3 DEF IInv, NumbersDense, Dist, Short
<1>5. /\ Line \in Seq(Threads) /\ Len(Line) = c
      /\ \A k \in 1 .. c : Line[k] \in Queued /\ Dist(me[Line[k]]) = k - 1
  BY LineByDistance DEF PlacesByDistance
<1>6. /\ Line' \in Seq(Threads) /\ Len(Line') = c + 1
      /\ \A s \in Queued' : Line'[(Dist(me[s]))' + 1] = s
  BY <1>2, LineByDistanceNext DEF PlacesByDistance
<1>7. Line'[c + 1] = t
  BY <1>4, <1>6 DEF Dist
<1>8. ASSUME NEW k \in 1 .. c
      PROVE  Line'[k] = Line[k]
  <2>0. PICK s \in Queued : s = Line[k]
    BY <1>5
  <2>1. s \in Queued /\ s \in Queued' /\ s # t /\ s \in Threads /\ Dist(me[s]) = k - 1
    BY <1>1, <1>5, <2>0
  <2>2. (Dist(me[s]))' = k - 1
    BY <2>1 DEF Dist
  <2> QED
    BY <1>1, <1>6, <2>0, <2>1, <2>2
<1>9. /\ Append(Line, t) \in Seq(Threads) /\ Len(Append(Line, t)) = c + 1
      /\ \A k \in 1 .. c + 1 : Line'[k] = Append(Line, t)[k]
  BY <1>1, <1>5, <1>7, <1>8, AppendProperties
<1> QED
  BY <1>6, <1>9, SeqEqual

\* The first in line is the one whose number is served.
LEMMA HeadIsServed ==
  ASSUME IInv, NEW t \in Queued
  PROVE  /\ Line # <<>> /\ Line \in Seq(Threads)
         /\ me[t] = ticket <=> Head(Line) = t
<1>1. /\ Cardinality(Queued) \in Nat /\ TicketMod \in Nat /\ Queued \subseteq Threads
      /\ ticket \in Short /\ me \in [Threads -> Short]
  BY QueueSize DEF IInv, TypeOK, Queued
<1>2. /\ Line \in Seq(Threads) /\ Len(Line) = Cardinality(Queued)
      /\ Dist(me[t]) + 1 \in 1 .. Cardinality(Queued) /\ Line[Dist(me[t]) + 1] = t
      /\ Line[1] \in Queued /\ Dist(me[Line[1]]) = 0
  BY <1>1, LineByDistance DEF PlacesByDistance
<1>3. me[t] = ticket <=> Dist(me[t]) = 0
  BY <1>1 DEF Dist, Short
<1> QED
  BY <1>1, <1>2, <1>3

\* A step that changes neither the queue, its numbers nor the number served
\* keeps the line.
LEMMA LineKept ==
  ASSUME Queued' = Queued, ticket' = ticket, \A s \in Queued : me'[s] = me[s]
  PROVE  Line' = Line
<1>1. \A s \in Queued : (Dist(me[s]))' = Dist(me[s])
  BY DEF Dist
<1>2. \A k \in 1 .. Cardinality(Queued) :
        (CHOOSE t \in Queued' : (Dist(me[t]))' = k - 1)
          = (CHOOSE t \in Queued : Dist(me[t]) = k - 1)
  BY <1>1
<1> QED
  BY <1>2 DEF Line

\* ticket_lock's xadd, and the swap of a ticket_trylock, queue the caller.
LEMMA DrawQueues ==
  ASSUME IInv, NEW t \in Threads, Lock(t) \/ TryTake(t)
  PROVE  /\ t \notin Queued /\ Queued' = Queued \cup {t}
         /\ me'[t] = users /\ ticket' = ticket
         /\ \A s \in Threads : s # t => me'[s] = me[s] /\ pc'[s] = pc[s]
<1>1. /\ me \in [Threads -> Short]
      /\ pc \in [Threads -> {"out", "spin", "cs", "store", "try"}]
  BY DEF IInv, TypeOK
<1>2. CASE Lock(t)
  BY <1>1, <1>2 DEF Lock, Goto, Queued, Holding
<1>3. CASE TryTake(t)
  BY <1>1, <1>3 DEF TryTake, Word, Goto, Queued, Holding
<1> QED
  BY <1>2, <1>3

\* The release takes the holder, and nobody else, out of the line's front.
LEMMA ReleaseTails ==
  ASSUME IInv, IInv', NEW t \in Threads, UnlockStore(t)
  PROVE  /\ t \in Queued /\ Head(Line) = t /\ Line # <<>> /\ Line' = Tail(Line)
         /\ \A s \in Threads : ~Holding(s)'
<1> DEFINE c == Cardinality(Queued)
<1>1. /\ ticket \in Short /\ me \in [Threads -> Short]
      /\ pc \in [Threads -> {"out", "spin", "cs", "store", "try"}]
      /\ IsFiniteSet(Queued) /\ c \in Nat /\ TicketMod \in Nat /\ TicketMod > 0
      /\ Queued \subseteq Threads
  BY QueueSize DEF IInv, TypeOK, Queued
<1>2. /\ pc[t] = "store" /\ pc' = [pc EXCEPT ![t] = "out"]
      /\ me' = me /\ ticket' = Inc(ticket)
  BY DEF UnlockStore, Goto, Stored, IInv, NoLostRelease
<1>3. t \in Queued /\ me[t] = ticket /\ Queued' = Queued \ {t} /\ Holding(t)
  BY <1>1, <1>2 DEF Queued, Holding, IInv, NumbersDense
<1>4. Cardinality(Queued)' = c - 1 /\ c > 0
  BY <1>1, <1>3, FS_RemoveElement, FS_EmptySet
<1>5. /\ Line \in Seq(Threads) /\ Len(Line) = c /\ Line # <<>> /\ Head(Line) = t
      /\ \A k \in 1 .. c : Line[k] \in Queued /\ Dist(me[Line[k]]) = k - 1
  BY <1>3, LineByDistance, HeadIsServed DEF PlacesByDistance
<1>6. /\ Line' \in Seq(Threads) /\ Len(Line') = c - 1
      /\ \A s \in Queued' : Line'[(Dist(me[s]))' + 1] = s
  BY <1>4, LineByDistanceNext DEF PlacesByDistance
<1>7. ASSUME NEW k \in 1 .. c - 1
      PROVE  Line'[k] = Line[k + 1]
  <2>1. k + 1 \in 1 .. c /\ (k + 1) - 1 = k
    BY <1>1
  <2>2. PICK s \in Queued : s = Line[k + 1] /\ Dist(me[s]) = k
    BY <1>5, <2>1
  <2>3. Dist(me[t]) = 0 /\ s # t /\ me[s] \in Short
    BY <1>1, <1>3, <2>2 DEF Dist, Short
  <2>4. me[s] # ticket
    BY <1>3, <2>3 DEF IInv, NumbersDense
  <2>5. (Dist(me[s]))' = Dist(me[s]) - 1
    BY <1>1, <1>2, <2>3, <2>4, IncValue DEF Dist, Short
  <2>6. (Dist(me[s]))' + 1 = k
    BY <2>2, <2>5
  <2> QED
    BY <1>3, <1>6, <2>2, <2>3, <2>6
<1>8. /\ Tail(Line) \in Seq(Threads) /\ Len(Tail(Line)) = c - 1
      /\ \A k \in 1 .. c - 1 : Tail(Line)[k] = Line[k + 1]
  BY <1>5, HeadTailProperties
<1>9. \A s \in Threads : Holding(s)' => FALSE
  BY <1>1, <1>2, <1>3 DEF Holding, IInv, NumbersDense, Queued
<1> QED
  BY <1>1, <1>3, <1>5, <1>6, <1>7, <1>8, <1>9, SeqEqual

\* At the start nobody is queued and the line is empty.
LEMMA InitRefines == Init => Abstract!Init
<1> SUFFICES ASSUME Init PROVE Abstract!Init
  OBVIOUS
<1>1. Queued = {} /\ \A t \in Threads : ~Holding(t)
  BY DEF Init, Queued, Holding
<1>2. Line = <<>>
  BY <1>1, FS_EmptySet DEF Line
<1> QED
  BY <1>1, <1>2 DEF Abstract!Init

\* Each step of ticketlock.c is a step of LockSpec on the line, or none.
LEMMA NextRefines == IInv /\ IInv' /\ [Next]_vars => [Abstract!Next]_(Abstract!vars)
<1> SUFFICES ASSUME IInv, IInv', [Next]_vars
             PROVE  Abstract!Next \/ UNCHANGED Abstract!vars
  OBVIOUS
<1> DEFINE inside == \E t \in Threads : Holding(t)
           insideNext == \E t \in Threads : Holding(t)'
<1>1. /\ me \in [Threads -> Short] /\ Queued \subseteq Threads
      /\ pc \in [Threads -> {"out", "spin", "cs", "store", "try"}]
      /\ \A s \in Threads : Holding(s) => s \in Queued /\ me[s] = ticket
  BY DEF IInv, TypeOK, Queued, NumbersDense
<1>2. ASSUME NEW t \in Threads, Lock(t)
      PROVE  Abstract!Join(t)
  <2>1. Line' = Append(Line, t)
    BY <1>2, DrawQueues, DrawAppends
  <2>2. ~ \E k \in DOMAIN Line : Line[k] = t
    <3>1. DOMAIN Line = 1 .. Cardinality(Queued)
      BY DEF Line
    <3> QED
      BY <1>2, <3>1, DrawQueues, LineByDistance DEF PlacesByDistance
  <2>3. insideNext <=> inside
    BY <1>1, <1>2 DEF Lock, Goto, Holding
  <2> QED
    BY <2>1, <2>2, <2>3 DEF Abstract!Join, Abstract!InLine
<1>3. ASSUME NEW t \in Threads, Spin(t)
      PROVE  Abstract!Enter(t)
  <2>1. /\ t \in Queued /\ me[t] = ticket /\ ~Holding(t) /\ Holding(t)'
        /\ Queued' = Queued /\ me' = me /\ ticket' = ticket
    BY <1>1, <1>3 DEF Spin, Served, Goto, Queued, Holding
  <2>2. Line # <<>> /\ Head(Line) = t
    BY <2>1, HeadIsServed
  <2>3. Line' = Line
    BY <2>1, LineKept
  <2>4. ~inside
    BY <1>1, <2>1 DEF IInv, NumbersDense
  <2>5. insideNext
    BY <2>1
  <2> QED
    BY <2>2, <2>3, <2>4, <2>5 DEF Abstract!Enter
<1>4. ASSUME NEW t \in Threads, TryTake(t)
      PROVE  Abstract!TryEnter(t)
  <2>1. /\ Cardinality(Queued) \in Nat /\ TicketMod \in Nat
        /\ Cardinality(Queued) < TicketMod
    BY <1>4, DrawQueues, QueueSize
  <2>2. ticket = users
    BY <1>4 DEF TryTake, Word
  <2>3. Cardinality(Queued) = 0
    BY <2>1, <2>2 DEF IInv, TypeOK, NumbersDense, Short
  <2>4. Line = <<>>
    BY <2>3, LineByDistance DEF PlacesByDistance
  <2>5. Line' = <<t>>
    BY <1>4, <2>4, DrawQueues, DrawAppends
  <2>6. insideNext
    BY <1>1, <1>4 DEF TryTake, Goto, Holding
  <2> QED
    BY <2>4, <2>5, <2>6 DEF Abstract!TryEnter
<1>5. ASSUME NEW t \in Threads, UnlockStore(t)
      PROVE  Abstract!Leave(t)
  <2>1. inside
    BY <1>5 DEF UnlockStore, Goto, Holding
  <2> QED
    BY <1>5, <2>1, ReleaseTails DEF Abstract!Leave
<1>6. ASSUME NEW t \in Threads, UnlockLoad(t) \/ TryRead(t) \/ TryBusy(t)
      PROVE  UNCHANGED Abstract!vars
  <2>1. /\ Queued' = Queued /\ ticket' = ticket /\ \A s \in Queued : me'[s] = me[s]
        /\ \A s \in Threads : Holding(s)' <=> Holding(s)
    BY <1>1, <1>6 DEF UnlockLoad, TryRead, TryBusy, Goto, Queued, Holding
  <2>2. Line' = Line
    BY <2>1, LineKept
  <2>3. insideNext <=> inside
    BY <2>1
  <2> QED
    BY <2>2, <2>3 DEF Abstract!vars
<1>7. ASSUME UNCHANGED vars
      PROVE  UNCHANGED Abstract!vars
  <2>1. /\ Queued' = Queued /\ ticket' = ticket /\ me' = me
        /\ \A s \in Threads : Holding(s)' <=> Holding(s)
    BY <1>7 DEF vars, Queued, Holding
  <2>2. Line' = Line
    BY <2>1, LineKept
  <2> QED
    BY <2>1, <2>2 DEF Abstract!vars
<1> QED
  BY <1>2, <1>3, <1>4, <1>5, <1>6, <1>7 DEF Next, Step, Abstract!Next

\* ticketlock.c is a LockSpec: it serves its callers in the order of the xadd,
\* and a ticket_trylock passes nobody, while the numbers wrap.
THEOREM TicketRefinesLock == Spec => RefinesLock
<1>1. Spec => Abstract!Init /\ [][Abstract!Next]_(Abstract!vars)
  BY InitRefines, TicketInvariant, NextRefines, PTL DEF Spec
<1> QED
  BY <1>1 DEF RefinesLock, Abstract!Spec
=============================================================================
