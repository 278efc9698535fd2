---------------------------- MODULE BlockSwapProofs ----------------------------
(***************************************************************************)
(* Proofs about Shuffle and BlockSwap, for every number of threads and     *)
(* blocks and every size, whatever is drawn.  The shuffle's list is a      *)
(* permutation, so that main() launches each worker once; a worker's swaps *)
(* lose no element of its block; and no batch is lost or printed twice.    *)
(***************************************************************************)
EXTENDS BlockSwap, FiniteSetTheorems, WellFoundedInduction, TLAPS

----------------------------------------------------------------------------
(* The launch order *)

\* There are nthreads threads.
LEMMA ThreadCount == IsFiniteSet(Thread) /\ Cardinality(Thread) = nthreads
<1>1. nthreads - 1 \in Int
  BY ShuffleAssumption
<1>2. Cardinality(0 .. nthreads - 1) = IF 0 > nthreads - 1 THEN 0
                                       ELSE nthreads - 1 - 0 + 1
  BY <1>1, FS_Interval
<1>3. IsFiniteSet(0 .. nthreads - 1)
  BY <1>1, FS_Interval
<1> QED
  BY <1>2, <1>3, ShuffleAssumption DEF Thread

\* The taken threads are some of them, and all of them when there are as many.
LEMMA TakenCount ==
  /\ IsFiniteSet(Taken)
  /\ Cardinality(Taken) \in Nat
  /\ Cardinality(Taken) =< nthreads
  /\ Cardinality(Taken) = nthreads => Taken = Thread
<1>1. Taken \subseteq Thread
  BY DEF Taken
<1> QED
  BY <1>1, ThreadCount, FS_Subset, FS_CardinalityType

\* While the list is short some thread is free, which the unbounded inner loop
\* of the shuffle relies on.
LEMMA FreeWhileShort ==
  ASSUME ShuffleTypeOK, ListExact, Len(random) < nthreads
  PROVE  \E t \in Thread : shuffle[t] = 0
<1>1. SUFFICES ASSUME \A t \in Thread : shuffle[t] # 0
               PROVE  FALSE
  OBVIOUS
<1>2. Taken = Thread
  BY <1>1 DEF Taken, ShuffleTypeOK
<1> QED
  BY <1>2, ThreadCount, ShuffleAssumption DEF ListExact

\* Nothing is marked at the start, and the list is empty.
LEMMA ShuffleStart == ShuffleInit => ShuffleInv
<1> SUFFICES ASSUME ShuffleInit PROVE ShuffleInv
  OBVIOUS
<1>1. ShuffleTypeOK
  BY ShuffleAssumption DEF ShuffleInit, ShuffleTypeOK
<1>2. Taken = {}
  BY DEF ShuffleInit, Taken
<1>3. ListExact
  BY <1>2, FS_EmptySet DEF ShuffleInit, ListExact
<1> QED
  BY <1>1, <1>3 DEF ShuffleInit, ShuffleInv, SomeFree

\* Each step keeps the marks and the list in agreement.
LEMMA ShuffleStep == ShuffleInv /\ [ShuffleNext]_shuffleVars => ShuffleInv'
<1> SUFFICES ASSUME ShuffleInv, [ShuffleNext]_shuffleVars PROVE ShuffleInv'
  OBVIOUS
<1> USE DEF ShuffleInv
<1>1. CASE Draw
  <2>1. \E t \in Thread : shuffle[t] = 0
    BY <1>1, FreeWhileShort DEF Draw, MoreToTake
  <2>2. ShuffleTypeOK'
    BY <1>1, ShuffleAssumption DEF Draw, ShuffleTypeOK, Thread
  <2>3. ListExact'
    BY <1>1 DEF Draw, ListExact, Taken
  <2> QED
    BY <1>1, <2>1, <2>2, <2>3 DEF Draw, SomeFree
<1>2. CASE Take
  <2>1. i \in Thread /\ shuffle[i] = 0
    BY <1>2 DEF Take, IsFree, ShuffleTypeOK
  <2>2. random' = Append(random, i) /\ random \in Seq(Thread)
    BY <1>2 DEF Take, ShuffleTypeOK
  <2>3. Len(random') = Len(random) + 1 /\ Len(random) \in Nat
    BY <2>1, <2>2
  <2>4. shuffle' = [shuffle EXCEPT ![i] = 1]
    BY <1>2 DEF Take, Mark
  <2>5. ShuffleTypeOK'
    BY <1>2, <2>1, <2>2, <2>4, ShuffleAssumption
    DEF Take, ShuffleTypeOK, Thread
  <2>6. Taken' = Taken \cup {i} /\ i \notin Taken
    BY <2>1, <2>4 DEF Taken, ShuffleTypeOK
  <2>7. Cardinality(Taken') = Len(random')
    BY <2>3, <2>6, TakenCount, FS_AddElement DEF ListExact
  <2>8. \A t \in Thread : shuffle'[t] = 1 <=> \E m \in DOMAIN random' :
                                                random'[m] = t
    <3>1. DOMAIN random' = 1 .. Len(random) + 1
      BY <2>1, <2>2
    <3>2. DOMAIN random = 1 .. Len(random)
      BY <2>2
    <3>3. random'[Len(random) + 1] = i
      BY <2>1, <2>2
    <3>4. \A m \in DOMAIN random : random'[m] = random[m]
      BY <2>1, <2>2
    <3>5. ASSUME NEW t \in Thread
          PROVE  (\E m \in DOMAIN random' : random'[m] = t)
                   <=> t = i \/ \E m \in DOMAIN random : random[m] = t
      BY <3>1, <3>2, <3>3, <3>4, <2>3
    <3>6. \A t \in Thread : shuffle'[t] = 1 <=> t = i \/ shuffle[t] = 1
      BY <2>1, <2>4 DEF ShuffleTypeOK
    <3> QED
      BY <3>5, <3>6 DEF ListExact
  <2> QED
    BY <1>2, <2>5, <2>7, <2>8 DEF Take, ListExact, SomeFree
<1>3. CASE StepOver
  <2>1. ShuffleTypeOK'
    <3>1. i \in 0 .. nthreads - 1 /\ n \in 0 .. nthreads - 1
      BY <1>3 DEF StepOver, ShuffleTypeOK, Thread
    <3>2. (i + 1) % nthreads \in 0 .. nthreads - 1
      BY <3>1, ShuffleAssumption
    <3>3. n' \in 0 .. nthreads - 1
      BY <1>3, <3>1, ShuffleAssumption DEF StepOver
    <3> QED
      BY <1>3, <3>1, <3>2, <3>3, ShuffleAssumption
      DEF StepOver, ShuffleTypeOK, Thread, NextThread
  <2>2. ListExact' /\ SomeFree'
    BY <1>3 DEF StepOver, ListExact, Taken, SomeFree
  <2> QED
    BY <1>3, <2>1, <2>2 DEF StepOver
<1>4. CASE Finish
  <2>1. Len(random) \in Nat
    BY DEF ShuffleTypeOK
  <2> QED
    BY <1>4, <2>1, ShuffleAssumption
    DEF Finish, MoreToTake, ShuffleTypeOK, ListExact, Taken, SomeFree
<1>5. CASE UNCHANGED shuffleVars
  BY <1>5 DEF shuffleVars, ShuffleTypeOK, ListExact, Taken, SomeFree
<1> QED
  BY <1>1, <1>2, <1>3, <1>4, <1>5 DEF ShuffleNext

\* The invariant: the list and the marks agree, and the scan is bounded.
THEOREM ShuffleInvariant == ShuffleSpec => []ShuffleInv
  BY ShuffleStart, ShuffleStep, PTL DEF ShuffleSpec


\* A finished list has every thread, each of them once.
LEMMA ListIsOrder == ShuffleInv => EachOnce
<1> SUFFICES ASSUME ShuffleInv, pc = "done"
             PROVE  /\ Len(random) = nthreads
                    /\ \A t \in Thread : \E m \in 1 .. nthreads : random[m] = t
  BY DEF EachOnce
<1>1. Len(random) \in Nat /\ DOMAIN random = 1 .. Len(random)
  BY DEF ShuffleInv, ShuffleTypeOK
<1>2. Len(random) = nthreads
  BY <1>1, TakenCount, ShuffleAssumption DEF ShuffleInv, ListExact
<1>3. Taken = Thread
  BY <1>2, TakenCount DEF ShuffleInv, ListExact
<1> QED
  BY <1>1, <1>2, <1>3 DEF ShuffleInv, ListExact, Taken

\* The launch order is a permutation: each worker is launched exactly once.
THEOREM ShuffleEachOnce == ShuffleSpec => []EachOnce
  BY ListIsOrder, ShuffleInvariant, PTL

\* The inner loop, which has no bound of its own, always finds a thread.
THEOREM ShuffleSomeFree == ShuffleSpec => []SomeFree
<1>1. ShuffleInv => SomeFree
  BY DEF ShuffleInv
<1> QED
  BY <1>1, ShuffleInvariant, PTL
-----------------------------------------------------------------------------
(* The pairs that a worker draws *)

\* The floats are numbers of units, and 1 is one of them.
LEMMA FloatsAreNumbers ==
  /\ Unit \in Nat \ {0} /\ Floats \subseteq Nat /\ Unit \in Floats
<1>1. Words \in Nat \ {0} /\ FloatSteps \in Nat \ {0}
  BY BlockSwapAssumption
<1>2. Unit \in Nat \ {0}
  BY <1>1 DEF Unit
<1>3. Gaps \subseteq Nat
  BY DEF Gaps
<1>4. Floats \subseteq Nat
  <2> SUFFICES ASSUME NEW m \in 0 .. FloatSteps, NEW g \in Gaps
               PROVE  m * g \in Nat
    BY DEF Floats
  <2>1. m \in Nat /\ g \in Nat
    BY <1>1, <1>3
  <2> QED
    BY <2>1
<1>5. Words \in Gaps
  <2>1. Words * Words \in Nat /\ Words =< Words * Words
    BY <1>1
  <2>2. Words \in 1 .. Words * Words
    BY <1>1, <2>1
  <2> QED
    BY <2>2 DEF Gaps
<1>6. FloatSteps * Words = Unit /\ FloatSteps \in 0 .. FloatSteps
  BY <1>1 DEF Unit
<1>7. Unit \in Floats
  BY <1>5, <1>6 DEF Floats
<1> QED
  BY <1>2, <1>4, <1>7

\* Rounding does not pass a float: what is at most the float t becomes at most t.
LEMMA NearestBelow ==
  ASSUME NEW x \in Nat, NEW d \in Nat \ {0}, NEW t \in Floats, x =< t * d,
         NEW f \in Nearest(x, d)
  PROVE  f \in Nat /\ f =< t
<1>1. f \in Floats /\ f \in Nat /\ t \in Nat
  BY FloatsAreNumbers DEF Nearest
<1>2. Off(f, x, d) =< Off(t, x, d)
  <2>1. f * d \in Nat /\ t * d \in Nat
    BY <1>1
  <2>2. Off(f, x, d) \in Int /\ Off(t, x, d) \in Int
    BY <2>1 DEF Off
  <2>3. Off(f, x, d) < Off(t, x, d) \/ Off(f, x, d) = Off(t, x, d)
    BY DEF Nearest
  <2> QED
    BY <2>2, <2>3
<1>3. ASSUME f > t PROVE FALSE
  <2>1. f * d \in Nat /\ t * d \in Nat /\ f * d > t * d
    BY <1>1, <1>3
  <2> QED
    BY <1>2, <2>1 DEF Off
<1> QED
  BY <1>1, <1>3

\* get_uniform never exceeds 1.
LEMMA AtMostOne ==
  ASSUME NEW u \in 0 .. Words - 1, NEW f \in get_uniform(u)
  PROVE  f \in Nat /\ f =< Unit
<1>1. u + 1 \in Nat /\ Divisor \in Nat \ {0} /\ u + 1 =< Divisor
  BY BlockSwapAssumption DEF Divisor
<1>2. Unit \in Nat \ {0} /\ Unit \in Floats
  BY FloatsAreNumbers
<1>3. (u + 1) * Unit \in Nat /\ (u + 1) * Unit =< Unit * Divisor
  BY <1>1, <1>2
<1> QED
  BY <1>1, <1>2, <1>3, NearestBelow DEF get_uniform

\* The indices are numbers, and those of the elements are among them.
LEMMA Indices ==
  /\ blocksize \in Nat \ {0}
  /\ Index \subseteq Nat /\ 0 .. blocksize \subseteq Index
  /\ \A f \in AsFloat : f \in Floats /\ 0 .. f \div Unit \subseteq Index
<1>1. blocksize \in Nat \ {0}
  BY BlockSwapAssumption
<1>2. ASSUME NEW f \in AsFloat
      PROVE  f \in Floats /\ f \div Unit \in Nat
  <2>1. f \in Floats /\ f \in Nat
    BY FloatsAreNumbers DEF AsFloat, Nearest
  <2> QED
    BY <2>1, FloatsAreNumbers
<1>3. \A l \in {blocksize} \cup {f \div Unit : f \in AsFloat} : l \in Nat
  BY <1>1, <1>2
<1> QED
  BY <1>1, <1>2, <1>3 DEF Index

\* Up to FloatSteps, blocksize is a float, and the block reaches no further.
LEMMA SmallBlocks == blocksize =< FloatSteps => Index = 0 .. blocksize
<1> SUFFICES ASSUME blocksize =< FloatSteps
             PROVE  Index = 0 .. blocksize
  OBVIOUS
<1>1. /\ Words \in Nat \ {0} /\ FloatSteps \in Nat \ {0}
      /\ blocksize \in Nat \ {0} /\ Unit \in Nat \ {0} /\ Floats \subseteq Nat
  BY BlockSwapAssumption, FloatsAreNumbers
<1>2. Unit \in Gaps
  <2>1. PICK k \in 1 .. Words : Words = FloatSteps * k
    BY BlockSwapAssumption
  <2>2. k \in Nat \ {0}
    BY <1>1, <2>1
  <2>3. Unit * k = Words * Words
    <3>1. Unit * k = Words * (FloatSteps * k)
      BY <1>1, <2>2 DEF Unit
    <3> QED
      BY <2>1, <3>1
  <2>4. Unit =< Unit * k /\ k =< Unit * k
    BY <1>1, <2>2
  <2>5. Unit \in 1 .. Words * Words /\ k \in 1 .. Words * Words
    BY <1>1, <2>2, <2>3, <2>4
  <2> QED
    BY <2>3, <2>5 DEF Gaps
<1>3. blocksize * Unit \in Floats /\ blocksize * Unit \in Nat
  <2>1. blocksize \in 0 .. FloatSteps
    BY <1>1
  <2>2. blocksize * Unit \in Nat
    BY <1>1
  <2>3. blocksize * Unit \in Floats
    BY <1>2, <2>1 DEF Floats
  <2> QED
    BY <2>2, <2>3
<1>4. ASSUME NEW f \in AsFloat PROVE f \div Unit = blocksize
  <2> DEFINE x == blocksize * Unit
  <2>1. f \in Nat /\ x \in Nat /\ x \in Floats
    BY <1>1, <1>3 DEF AsFloat, Nearest
  <2>2. Off(f, x, 1) < Off(x, x, 1) \/ Off(f, x, 1) = Off(x, x, 1)
    BY <2>1 DEF AsFloat, Nearest
  <2>3. f = x
    <3> HIDE DEF x
    <3> QED
      BY <2>1, <2>2 DEF Off
  <2>4. (blocksize * Unit) \div Unit = blocksize
    BY <1>1
  <2> QED
    BY <2>3, <2>4
<1> QED
  BY <1>4 DEF Index

\* A part of a whole, times blocksize and cut off, is an index of the block or
\* of the element behind it.
LEMMA PartOfBlock ==
  ASSUME NEW q \in Nat, NEW g \in Nat \ {0}, q =< g
  PROVE  (q * blocksize) \div g \in 0 .. blocksize
<1>1. blocksize \in Nat \ {0}
  BY BlockSwapAssumption
<1>2. q * blocksize >= 0 /\ q * blocksize =< g * blocksize
  BY <1>1
<1> QED
  BY <1>1, <1>2

\* Whatever the generator returns, i and j are indices of the block or of the
\* memory behind it, no further than blocksize as a float: that one can be drawn.
LEMMA DrawnInIndex == Drawn \subseteq Index
<1>1. ASSUME NEW u \in 0 .. Words - 1, NEW f \in get_uniform(u),
             NEW s \in AsFloat, NEW p \in Nearest(f * s, Unit)
      PROVE  p \div Unit \in Index
  <2>1. f \in Nat /\ f =< Unit /\ s \in Floats /\ s \in Nat /\ Unit \in Nat \ {0}
    BY AtMostOne, Indices, FloatsAreNumbers
  <2>2. f * s \in Nat /\ f * s =< s * Unit
    BY <2>1
  <2>3. p \in Nat /\ p =< s
    BY <2>1, <2>2, NearestBelow
  <2>4. p \div Unit \in 0 .. s \div Unit
    BY <2>1, <2>3
  <2> QED
    BY <2>4, Indices
<1>2. UniformDrawn \subseteq Index
  BY <1>1 DEF UniformDrawn, UniformIndex, Products
<1>3. ASSUME NEW r \in 0 .. RAND_MAX PROVE RatioIndex(r) \in Index
  <2>1. r \in Nat /\ RAND_MAX \in Nat \ {0} /\ r =< RAND_MAX
    BY BlockSwapAssumption
  <2> QED
    BY <2>1, PartOfBlock, Indices DEF RatioIndex
<1> QED
  BY <1>2, <1>3 DEF Drawn, RatioDrawn

\* The pairs of a turn are indices of the block, but for the first, which
\* reaches the element behind it.
LEMMA TurnRoundInBlock ==
  prog = "mem" => TurnRound \in [1 .. Swaps -> Index \X Index]
<1> SUFFICES ASSUME prog = "mem", NEW m \in 1 .. Swaps
             PROVE  <<m - 1, Mirrored(m - 1)>> \in Index \X Index
  BY DEF TurnRound
<1>1. m - 1 \in 0 .. blocksize /\ Mirrored(m - 1) \in 0 .. blocksize
  BY Indices DEF Swaps, Mirrored
<1> QED
  BY <1>1, Indices

-----------------------------------------------------------------------------
(* Batches, counted one by one *)

LEMMA BoundsAreNumbers == Bound \in Nat /\ Swaps \in Nat
  BY BlockSwapAssumption DEF Bound, Swaps

\* The sum of the workers' counts is at most nthreads times the bound.
LEMMA OnesFinite ==
  ASSUME NEW f
  PROVE  /\ IsFiniteSet(Ones(f))
         /\ Cardinality(Ones(f)) \in Nat
         /\ Cardinality(Ones(f)) =< nthreads * Bound
<1>1. IsFiniteSet(1 .. Bound) /\ Cardinality(1 .. Bound) = Bound
  BY BoundsAreNumbers, FS_Interval
<1>2. /\ IsFiniteSet(Thread \X (1 .. Bound))
      /\ Cardinality(Thread \X (1 .. Bound)) = nthreads * Bound
  BY <1>1, ThreadCount, FS_Product
<1>3. Ones(f) \in SUBSET (Thread \X (1 .. Bound))
  BY DEF Ones
<1> QED
  BY <1>2, <1>3, FS_Subset, FS_CardinalityType

\* At the start nothing is counted.
LEMMA NoOnes ==
  ASSUME NEW f, \A w \in Thread : f[w] = 0
  PROVE  Cardinality(Ones(f)) = 0
<1>1. Ones(f) = {}
  BY BoundsAreNumbers DEF Ones
<1> QED
  BY <1>1, FS_EmptySet

\* Counting one batch makes the sum one more.
LEMMA OneMoreCounted ==
  ASSUME NEW f \in [Thread -> 0 .. Bound], NEW w \in Thread, f[w] < Bound
  PROVE  /\ Cardinality(Ones([f EXCEPT ![w] = f[w] + 1]))
              = Cardinality(Ones(f)) + 1
         /\ [f EXCEPT ![w] = f[w] + 1] \in [Thread -> 0 .. Bound]
<1> DEFINE g == [f EXCEPT ![w] = f[w] + 1]
<1>1. f[w] \in 0 .. Bound /\ f[w] + 1 \in 1 .. Bound
  BY BoundsAreNumbers
<1>2. \A t \in Thread : g[t] = IF t = w THEN f[w] + 1 ELSE f[t]
  OBVIOUS
<1>3. <<w, f[w] + 1>> \notin Ones(f)
  BY <1>1 DEF Ones
<1>4. \A t \in Thread, m \in 1 .. Bound :
        m =< g[t] <=> m =< f[t] \/ (t = w /\ m = f[w] + 1)
  <2> SUFFICES ASSUME NEW t \in Thread, NEW m \in 1 .. Bound
               PROVE  m =< g[t] <=> m =< f[t] \/ (t = w /\ m = f[w] + 1)
    OBVIOUS
  <2>1. f[t] \in 0 .. Bound
    OBVIOUS
  <2> QED
    BY <1>1, <1>2, <2>1, BoundsAreNumbers
<1> HIDE DEF g
<1>5. Ones(g) = Ones(f) \cup {<<w, f[w] + 1>>}
  <2>1. ASSUME NEW p \in Thread \X (1 .. Bound)
        PROVE  p \in Ones(g) <=> p \in Ones(f) \/ p = <<w, f[w] + 1>>
    <3>1. p[1] \in Thread /\ p[2] \in 1 .. Bound /\ p = <<p[1], p[2]>>
      OBVIOUS
    <3> QED
      BY <1>4, <3>1 DEF Ones
  <2> QED
    BY <1>1, <2>1 DEF Ones
<1>6. g \in [Thread -> 0 .. Bound]
  <2>1. f[w] + 1 \in 0 .. Bound
    BY <1>1, BoundsAreNumbers
  <2> QED
    BY <2>1 DEF g
<1> QED
  BY <1>3, <1>5, <1>6, OnesFinite, FS_AddElement DEF g

\* Taking a counter's value and resetting it makes the sum that much less.
LEMMA CounterTaken ==
  ASSUME NEW f \in [Thread -> 0 .. Bound], NEW w \in Thread
  PROVE  /\ Cardinality(Ones([f EXCEPT ![w] = 0])) = Cardinality(Ones(f)) - f[w]
         /\ [f EXCEPT ![w] = 0] \in [Thread -> 0 .. Bound]
<1> DEFINE g == [f EXCEPT ![w] = 0]
           taken == {w} \X (1 .. f[w])
<1>1. f[w] \in 0 .. Bound /\ f[w] \in Nat /\ 1 .. f[w] \subseteq 1 .. Bound
  BY BoundsAreNumbers
<1>2. \A t \in Thread : g[t] = IF t = w THEN 0 ELSE f[t]
  OBVIOUS
<1>3. Cardinality(taken) = f[w]
  <2>1. IsFiniteSet(1 .. f[w]) /\ Cardinality(1 .. f[w]) = f[w]
    BY <1>1, FS_Interval
  <2>2. IsFiniteSet({w}) /\ Cardinality({w}) = 1
    BY FS_Singleton
  <2>3. Cardinality(taken) = 1 * f[w]
    BY <2>1, <2>2, FS_Product
  <2> QED
    BY <1>1, <2>3
<1> HIDE DEF g
<1>4. ASSUME NEW p \in Thread \X (1 .. Bound)
      PROVE  p \in Ones(g) <=> p \in Ones(f) /\ p \notin taken
  <2>1. p[1] \in Thread /\ p[2] \in 1 .. Bound /\ p = <<p[1], p[2]>>
    OBVIOUS
  <2>2. p \in taken <=> p[1] = w /\ p[2] =< f[w]
    BY <1>1, <2>1, BoundsAreNumbers
  <2>3. p[2] =< g[p[1]] <=> p[2] =< f[p[1]] /\ p[1] # w
    BY <1>2, <2>1, BoundsAreNumbers
  <2> QED
    BY <2>2, <2>3 DEF Ones
<1>5. Ones(g) = Ones(f) \ taken
  BY <1>4 DEF Ones
<1>6. Ones(f) \cap taken = taken
  <2> SUFFICES ASSUME NEW p \in taken PROVE p \in Ones(f)
    OBVIOUS
  <2>1. p[1] = w /\ p[2] \in 1 .. f[w] /\ p = <<p[1], p[2]>>
    OBVIOUS
  <2>2. p \in Thread \X (1 .. Bound)
    BY <1>1, <2>1
  <2> QED
    BY <1>1, <2>1, <2>2 DEF Ones
<1>7. Cardinality(Ones(g)) = Cardinality(Ones(f)) - Cardinality(taken)
  BY <1>5, <1>6, OnesFinite, FS_Difference
<1>8. 0 \in 0 .. Bound
  BY BoundsAreNumbers
<1> QED
  BY <1>3, <1>7, <1>8 DEF g

-----------------------------------------------------------------------------
(* What a step leaves alone *)

\* The program, the configuration and what depends on them stay.
LEMMA ConfigurationKept ==
  ASSUME [Next]_vars
  PROVE  /\ prog' = prog /\ block' = block
         /\ Bound' = Bound /\ Swaps' = Swaps /\ Drawn' = Drawn
<1>1. prog' = prog /\ block' = block
  BY DEF Next, vars, main, MainStep, Work, Measure, Order, ReadNThreads, Launch,
         Skip, Return, DrawBatch, StartTurn, Acquire, Save, Move, Store, Release,
         Count, Wake, Collect, PrintSum
<1> QED
  BY <1>1 DEF Bound, Swaps, Drawn

\* The thread that main() launches or skips next is a new one.
LEMMA NextIsNew ==
  ASSUME TypeOK, ShuffleInv, LaunchedOnce, MayLaunch, launched < nthreads
  PROVE  NextWorker \in Thread /\ at[NextWorker] = "new"
<1>1. launched \in 0 .. nthreads - 1 /\ launched + 1 \in 1 .. nthreads
  BY ShuffleAssumption DEF TypeOK
<1>2. CASE prog = "mem"
  BY <1>1, <1>2, ShuffleAssumption DEF NextWorker, LaunchedOnce, Thread
<1>3. CASE prog # "mem"
  <2>1. random \in Seq(Thread) /\ Len(random) >= nthreads
    BY <1>3 DEF MayLaunch, ShuffleInv, ShuffleTypeOK
  <2>2. launched + 1 \in DOMAIN random /\ 1 .. launched \subseteq DOMAIN random
    BY <1>1, <2>1, ShuffleAssumption
  <2>3. NextWorker = random[launched + 1] /\ NextWorker \in Thread
    BY <1>3, <2>1, <2>2 DEF NextWorker
  <2>4. \A m \in 1 .. launched : random[m] # random[launched + 1]
    BY <1>1, <2>2 DEF LaunchedOnce
  <2> QED
    BY <1>1, <1>3, <2>3, <2>4, ShuffleAssumption DEF LaunchedOnce
<1> QED
  BY <1>2, <1>3

\* Seen from the blocks and the workers a step starts a new worker, is a step
\* of a worker, or does nothing.
LEMMA StepKinds ==
  ASSUME TypeOK, ShuffleInv, LaunchedOnce, [Next]_vars
  PROVE  \/ UNCHANGED <<blocks, locks, at, c, seq, swap, batches>>
         \/ /\ \E w \in Thread, a \in {"draw", "skipped"} :
                 at[w] = "new" /\ at' = [at EXCEPT ![w] = a]
            /\ UNCHANGED <<blocks, locks, c, seq, swap, batches>>
         \/ \E w \in Thread : Work(w)
<1>1. CASE Launch \/ Skip
  <2>1. NextWorker \in Thread /\ at[NextWorker] = "new"
    BY <1>1, NextIsNew DEF Launch, Skip
  <2>2. /\ \E a \in {"draw", "skipped"} : at' = [at EXCEPT ![NextWorker] = a]
        /\ UNCHANGED <<blocks, locks, c, seq, swap, batches>>
    BY <1>1 DEF Launch, Skip, elements, counting
  <2> QED
    BY <2>1, <2>2
<1>2. CASE Order \/ ReadNThreads \/ Return \/ Measure \/ UNCHANGED vars
  BY <1>2 DEF Order, ReadNThreads, Return, Measure, Wake, Collect, PrintSum,
              vars, elements, counting
<1> QED
  BY <1>1, <1>2 DEF Next, MainStep

-----------------------------------------------------------------------------
(* Types, and the sums *)

LEMMA InitTypes == Init => TypeOK
<1> SUFFICES ASSUME Init PROVE TypeOK
  OBVIOUS
<1>1. blocksize \in Nat /\ nthreads \in Nat /\ Bound \in Nat
  BY BlockSwapAssumption, ShuffleAssumption, BoundsAreNumbers
<1>2. nthreads * Bound \in Nat
  BY <1>1
<1>3. blocks \in [Blocks -> [Index -> Index]]
  BY DEF Init
<1>4. 0 \in Index
  BY <1>1 DEF Index
<1> QED
  BY <1>1, <1>2, <1>3, <1>4 DEF Init, TypeOK

\* A worker's step keeps the types; the counts stay below their bound because
\* only one that may work on gets as far as counting.
LEMMA WorkTypes ==
  ASSUME TypeOK, PairsReady, [Next]_vars, NEW w \in Thread, Work(w)
  PROVE  TypeOK'
<1> DEFINE steps == {"new", "skipped", "draw", "lock", "save", "move", "store",
                     "unlock", "count"}
<1>1. prog' = prog /\ block' = block /\ Bound' = Bound /\ Swaps' = Swaps
  BY ConfigurationKept
<1>2. at' \in [Thread -> steps]
  <2>1. \E a \in steps : at' = [at EXCEPT ![w] = a]
    BY DEF Work, DrawBatch, StartTurn, Acquire, Save, Move, Store, Release,
           Count, Go, AfterSwaps
  <2>2. at \in [Thread -> steps]
    BY DEF TypeOK
  <2> HIDE DEF steps
  <2> QED
    BY <2>1, <2>2
<1>3. known' = known /\ launched' = launched
  BY DEF Work, DrawBatch, StartTurn, Acquire, Save, Move, Store, Release, Count,
         main
<1>4. UNCHANGED measuring
  BY DEF Work, DrawBatch, StartTurn, Acquire, Save, Move, Store, Release, Count
<1>5. block[w] \in Blocks
  BY DEF TypeOK
<1>6. at[w] \in {"save", "move", "store"} =>
        /\ I(w) \in Index /\ J(w) \in Index
        /\ Cell(w, I(w)) \in Index /\ Cell(w, J(w)) \in Index
  <2> SUFFICES ASSUME at[w] \in {"save", "move", "store"}
               PROVE  /\ I(w) \in Index /\ J(w) \in Index
                      /\ Cell(w, I(w)) \in Index /\ Cell(w, J(w)) \in Index
    OBVIOUS
  <2>1. seq[w] \in [1 .. Swaps -> Index \X Index] /\ c[w] \in 1 .. Swaps
    BY DEF PairsReady, Swapping
  <2>2. I(w) \in Index /\ J(w) \in Index
    BY <2>1 DEF I, J
  <2>3. blocks[block[w]] \in [Index -> Index]
    BY <1>5 DEF TypeOK
  <2> QED
    BY <2>2, <2>3 DEF Cell
<1>7. blocks' \in [Blocks -> [Index -> Index]]
  <2>1. blocks \in [Blocks -> [Index -> Index]] /\ swap[w] \in Index
    BY DEF TypeOK
  <2>2. CASE Move(w)
    BY <1>5, <1>6, <2>1, <2>2 DEF Move, Go
  <2>3. CASE Store(w)
    BY <1>5, <1>6, <2>1, <2>3 DEF Store, Go
  <2>4. CASE ~Move(w) /\ ~Store(w)
    BY <2>1, <2>4 DEF Work, DrawBatch, StartTurn, Acquire, Save, Release, Count,
                      elements
  <2> QED
    BY <2>2, <2>3, <2>4
<1>8. locks' \in [Blocks -> Thread \cup {Nobody}]
  BY DEF TypeOK, Work, DrawBatch, StartTurn, Acquire, Save, Move, Store, Release,
         Count, elements
<1>9. seq' \in [Thread -> {<<>>} \cup [1 .. Swaps -> Index \X Index]]
  <2>1. seq \in [Thread -> {<<>>} \cup [1 .. Swaps -> Index \X Index]]
    BY DEF TypeOK
  <2>2. CASE DrawBatch(w)
    <3>1. PICK s \in [1 .. Swaps -> Drawn \X Drawn] : seq' = [seq EXCEPT ![w] = s]
      BY <2>2 DEF DrawBatch
    <3>2. s \in [1 .. Swaps -> Index \X Index]
      BY DrawnInIndex
    <3> QED
      BY <2>1, <3>1, <3>2
  <2>3. CASE StartTurn(w)
    <3>1. prog = "mem" /\ seq' = [seq EXCEPT ![w] = TurnRound]
      BY <2>3 DEF StartTurn
    <3>2. TurnRound \in [1 .. Swaps -> Index \X Index]
      BY <3>1, TurnRoundInBlock
    <3> QED
      BY <2>1, <3>1, <3>2
  <2>4. CASE Count(w)
    BY <2>1, <2>4 DEF Count
  <2>5. CASE ~DrawBatch(w) /\ ~StartTurn(w) /\ ~Count(w)
    BY <2>1, <2>5 DEF Work, Acquire, Save, Move, Store, Release
  <2> QED
    BY <2>2, <2>3, <2>4, <2>5
<1>10. c' \in [Thread -> Nat]
  <2>1. c \in [Thread -> Nat] /\ (c' = c \/ \E m \in Nat : c' = [c EXCEPT ![w] = m])
    BY DEF TypeOK, Work, DrawBatch, StartTurn, Acquire, Save, Move, Store,
           Release, Count
  <2> QED
    BY <2>1
<1>11. swap' \in [Thread -> Index]
  <2>1. swap \in [Thread -> Index] /\ 0 \in Index
    BY Indices DEF TypeOK
  <2>2. CASE Save(w)
    BY <1>6, <2>1, <2>2 DEF Save, Go
  <2>3. CASE ~Save(w)
    BY <2>1, <2>3 DEF Work, DrawBatch, StartTurn, Acquire, Move, Store, Release,
                      Count
  <2> QED
    BY <2>2, <2>3
<1>12. /\ batches' \in [Thread -> 0 .. Bound] /\ counters' \in [Thread -> 0 .. Bound]
       /\ \A v \in Thread : counters'[v] =< batches'[v]
  <2>1. /\ batches \in [Thread -> 0 .. Bound] /\ counters \in [Thread -> 0 .. Bound]
        /\ \A v \in Thread : counters[v] =< batches[v]
    BY DEF TypeOK
  <2>2. CASE Count(w)
    <3>1. batches[w] < Bound
      BY <2>2 DEF Count, Go, PairsReady
    <3>2. counters[w] \in 0 .. Bound /\ batches[w] \in 0 .. Bound
      BY <2>1
    <3>3. counters[w] < Bound
      BY <2>1, <3>1, <3>2, BoundsAreNumbers
    <3>4. /\ counters' = [counters EXCEPT ![w] = counters[w] + 1]
          /\ batches' = [batches EXCEPT ![w] = batches[w] + 1]
      BY <2>2 DEF Count
    <3>5. counters' \in [Thread -> 0 .. Bound] /\ batches' \in [Thread -> 0 .. Bound]
      BY <2>1, <3>1, <3>3, <3>4, OneMoreCounted
    <3>6. counters[w] + 1 =< batches[w] + 1
      BY <2>1, <3>2, BoundsAreNumbers
    <3> QED
      BY <2>1, <3>4, <3>5, <3>6
  <2>3. CASE ~Count(w)
    BY <2>1, <2>3 DEF Work, DrawBatch, StartTurn, Acquire, Save, Move, Store,
                      Release, counting
  <2> QED
    BY <2>2, <2>3
<1> QED
  BY <1>1, <1>2, <1>3, <1>4, <1>7, <1>8, <1>9, <1>10, <1>11, <1>12
  DEF TypeOK, measuring

\* So do the steps of main() and of the measurer; what the measurer adds up is
\* part of what the workers have counted.
LEMMA OtherTypes ==
  ASSUME TypeOK, ShuffleInv, LaunchedOnce, BatchesConserved, [Next]_vars,
         \A w \in Thread : ~Work(w)
  PROVE  TypeOK'
<1> DEFINE steps == {"new", "skipped", "draw", "lock", "save", "move", "store",
                     "unlock", "count"}
<1>1. prog' = prog /\ block' = block /\ Bound' = Bound /\ Swaps' = Swaps
  BY ConfigurationKept
<1>2. /\ MainStep \/ Measure \/ UNCHANGED vars
      /\ UNCHANGED <<blocks, locks, seq, c, swap, batches>>
  <2>1. MainStep \/ Measure \/ UNCHANGED vars
    BY DEF Next
  <2>2. MainStep => UNCHANGED <<blocks, locks, seq, c, swap, batches>>
    BY DEF MainStep, Order, ReadNThreads, Launch, Skip, Return, elements, counting
  <2>3. Measure => UNCHANGED <<blocks, locks, seq, c, swap, batches>>
    BY DEF Measure, Wake, Collect, PrintSum, elements, counting
  <2>4. UNCHANGED vars => UNCHANGED <<blocks, locks, seq, c, swap, batches>>
    BY DEF vars, elements, counting
  <2> QED
    BY <2>1, <2>2, <2>3, <2>4
<1>3. nthreads \in Nat /\ Bound \in Nat /\ nthreads * Bound \in Nat
  <2>1. nthreads \in Nat /\ Bound \in Nat
    BY ShuffleAssumption, BoundsAreNumbers
  <2> QED
    BY <2>1
<1>4. CASE MainStep \/ UNCHANGED vars
  <2>1. UNCHANGED <<counters, mpc, mi, throughput, printed>>
    BY <1>4 DEF MainStep, Order, ReadNThreads, Launch, Skip, Return, counting,
                measuring, vars
  <2>2. at' \in [Thread -> steps]
    <3>1. at' = at \/ \E w \in Thread, a \in steps : at' = [at EXCEPT ![w] = a]
      <4>1. CASE Launch \/ Skip
        BY <4>1, NextIsNew DEF Launch, Skip
      <4>2. CASE ~(Launch \/ Skip)
        BY <1>4, <4>2 DEF MainStep, Order, ReadNThreads, Return, vars
      <4> QED
        BY <4>1, <4>2
    <3>2. at \in [Thread -> steps]
      BY DEF TypeOK
    <3> HIDE DEF steps
    <3> QED
      BY <3>1, <3>2
  <2>3. known' \in {0, nthreads} /\ launched' \in 0 .. nthreads + 1
    BY <1>3, <1>4
    DEF TypeOK, MainStep, Order, ReadNThreads, Launch, Skip, Return, vars, main
  <2> QED
    BY <1>1, <1>2, <2>1, <2>2, <2>3 DEF TypeOK
<1>5. CASE Wake
  BY <1>1, <1>2, <1>3, <1>5 DEF Wake, TypeOK, main, counting
<1>6. CASE Collect
  <2>1. /\ mi \in Thread /\ mi' \in 0 .. nthreads
    BY <1>3, <1>6 DEF Collect, TypeOK, Thread
  <2>2. counters \in [Thread -> 0 .. Bound] /\ counters[mi] \in 0 .. Bound
    BY <2>1 DEF TypeOK
  <2>3. counters' = [counters EXCEPT ![mi] = 0]
    BY <1>6 DEF Collect, ResetTo
  <2>4. /\ Cardinality(Ones(counters')) = Waiting - counters[mi]
        /\ counters' \in [Thread -> 0 .. Bound]
    BY <2>1, <2>2, <2>3, CounterTaken DEF Waiting
  <2>5. /\ Cardinality(Ones(counters')) \in Nat /\ Waiting \in Nat
        /\ Total \in Nat /\ Total =< nthreads * Bound
    BY OnesFinite DEF Waiting, Total
  <2>6. Total = Waiting + printed + throughput /\ printed \in Nat
        /\ throughput \in Nat /\ throughput' = throughput + counters[mi]
    <3>1. throughput \in 0 .. nthreads * Bound
      BY DEF TypeOK
    <3> QED
      BY <1>3, <1>6, <3>1 DEF Collect, BatchesConserved, TypeOK
  <2>7. throughput' \in 0 .. nthreads * Bound
    <3> DEFINE most == nthreads * Bound
               left == Cardinality(Ones(counters'))
    <3>1. most \in Nat /\ left \in Nat /\ left = Waiting - counters[mi]
          /\ Total =< most /\ counters[mi] \in Nat
      BY <1>3, <2>2, <2>4, <2>5
    <3> HIDE DEF most, left
    <3>2. throughput' \in 0 .. most
      BY <2>5, <2>6, <3>1
    <3> QED
      BY <3>2 DEF most
  <2>8. \A w \in Thread : counters'[w] =< batches'[w]
    <3>1. batches \in [Thread -> 0 .. Bound] /\ batches' = batches
      BY <1>2 DEF TypeOK
    <3>2. ASSUME NEW w \in Thread PROVE counters'[w] =< batches'[w]
      <4>1. batches[w] \in 0 .. Bound /\ counters[w] =< batches[w]
        BY <3>1 DEF TypeOK
      <4> QED
        BY <1>3, <2>1, <2>2, <2>3, <3>1, <4>1
    <3> QED
      BY <3>2
  <2>9. UNCHANGED <<at, mpc, printed, known, launched>>
    BY <1>6 DEF Collect, main
  <2> QED
    BY <1>1, <1>2, <2>1, <2>4, <2>7, <2>8, <2>9 DEF TypeOK
<1>7. CASE PrintSum
  <2>1. throughput \in 0 .. nthreads * Bound /\ printed \in Nat
    BY DEF TypeOK
  <2>2. printed + throughput \in Nat
    BY <1>3, <2>1
  <2> QED
    BY <1>1, <1>2, <1>7, <2>2 DEF PrintSum, TypeOK, main, counting
<1> QED
  BY <1>2, <1>4, <1>5, <1>6, <1>7 DEF Measure

\* No batch is lost or doubled between a worker's counter, the sum that is
\* being taken and what was printed.
LEMMA SumsKept ==
  ASSUME TypeOK, PairsReady, BatchesConserved, [Next]_vars
  PROVE  BatchesConserved'
<1>1. prog' = prog /\ Bound' = Bound
  BY ConfigurationKept
<1>2. Total' = Cardinality(Ones(batches')) /\ Waiting' = Cardinality(Ones(counters'))
  BY <1>1 DEF Total, Waiting, Ones
<1>3. /\ batches \in [Thread -> 0 .. Bound] /\ counters \in [Thread -> 0 .. Bound]
      /\ throughput \in Nat /\ printed \in Nat
  <2>1. nthreads * Bound \in Int
    BY ShuffleAssumption, BoundsAreNumbers
  <2> QED
    BY <2>1 DEF TypeOK
<1>4. Total \in Nat /\ Waiting \in Nat
  BY OnesFinite DEF Total, Waiting
<1>5. ASSUME NEW w \in Thread, Count(w) PROVE BatchesConserved'
  <2>1. batches[w] < Bound
    BY <1>5 DEF Count, Go, PairsReady
  <2>2. counters[w] \in 0 .. Bound /\ batches[w] \in 0 .. Bound
        /\ counters[w] =< batches[w]
    BY <1>3 DEF TypeOK
  <2>3. counters[w] < Bound
    BY <2>1, <2>2, BoundsAreNumbers
  <2>4. /\ counters' = [counters EXCEPT ![w] = counters[w] + 1]
        /\ batches' = [batches EXCEPT ![w] = batches[w] + 1]
        /\ UNCHANGED <<mpc, throughput, printed>>
    BY <1>5 DEF Count, measuring
  <2>5. Total' = Total + 1 /\ Waiting' = Waiting + 1
    BY <1>2, <1>3, <2>1, <2>3, <2>4, OneMoreCounted DEF Total, Waiting
  <2> QED
    BY <1>3, <1>4, <2>4, <2>5 DEF BatchesConserved
<1>6. CASE Collect
  <2>1. mi \in Thread
    BY <1>6, ShuffleAssumption DEF Collect, TypeOK, Thread
  <2>2. counters' = [counters EXCEPT ![mi] = 0]
    BY <1>6 DEF Collect, ResetTo
  <2>3. Waiting' = Waiting - counters[mi]
    BY <1>2, <1>3, <2>1, <2>2, CounterTaken DEF Waiting
  <2>4. /\ batches' = batches /\ mpc = "sum" /\ mpc' = "sum" /\ printed' = printed
        /\ throughput' = throughput + counters[mi]
    BY <1>6 DEF Collect
  <2>5. Total' = Total
    BY <1>2, <2>4 DEF Total
  <2>6. counters[mi] \in 0 .. Bound
    BY <1>3, <2>1
  <2> QED
    BY <1>3, <1>4, <2>3, <2>4, <2>5, <2>6, BoundsAreNumbers DEF BatchesConserved
<1>7. CASE \/ Wake \/ PrintSum
           \/ UNCHANGED <<counting, mpc, throughput, printed>>
  <2>1. batches' = batches /\ counters' = counters
    BY <1>7 DEF Wake, PrintSum, counting
  <2>2. Total' = Total /\ Waiting' = Waiting
    BY <1>2, <2>1 DEF Total, Waiting
  <2> QED
    BY <1>3, <1>4, <1>7, <2>2 DEF Wake, PrintSum, BatchesConserved
<1>8. ASSUME NEW w \in Thread, Work(w), ~Count(w)
      PROVE  UNCHANGED <<counting, mpc, throughput, printed>>
  BY <1>8 DEF Work, DrawBatch, StartTurn, Acquire, Save, Move, Store, Release,
              measuring
<1>9. MainStep \/ UNCHANGED vars => UNCHANGED <<counting, mpc, throughput, printed>>
  BY DEF MainStep, Order, ReadNThreads, Launch, Skip, Return, vars, counting,
         measuring
<1> QED
  BY <1>5, <1>6, <1>7, <1>8, <1>9 DEF Next, Measure

-----------------------------------------------------------------------------
(* The launches, the mutexes and the pairs *)

\* Main() shuffles before it launches, and nothing else touches the list.
LEMMA ShuffleKept == ShuffleInv /\ [Next]_vars => ShuffleInv'
<1> SUFFICES ASSUME ShuffleInv, [Next]_vars PROVE ShuffleInv'
  OBVIOUS
<1>1. [ShuffleNext]_shuffleVars
  BY DEF Next, MainStep, Work, Measure, Order, ReadNThreads, Launch, Skip, Return,
         DrawBatch, StartTurn, Acquire, Save, Move, Store, Release, Count, Wake,
         Collect, PrintSum, vars, main
<1> QED
  BY <1>1, ShuffleStep

\* No thread is launched a second time.
LEMMA LaunchesKept ==
  ASSUME TypeOK, ShuffleInv, LaunchedOnce, [Next]_vars
  PROVE  LaunchedOnce'
<1>1. prog' = prog
  BY ConfigurationKept
<1>2. nthreads \in Nat /\ launched \in 0 .. nthreads + 1
  BY ShuffleAssumption DEF TypeOK
<1>3. random \in Seq(Thread)
  BY DEF ShuffleInv, ShuffleTypeOK
<1>4. CASE Order
  <2>1. UNCHANGED <<prog, known, launched, at>> /\ prog # "mem" /\ ShuffleNext
    BY <1>4 DEF Order
  <2>2. launched = 0
    <3>1. pc # "done"
      BY <2>1 DEF ShuffleNext, Draw, Take, StepOver, Finish
    <3> QED
      BY <1>2, <2>1, <3>1 DEF LaunchedOnce
  <2>3. \A m, l \in DOMAIN random' : random'[m] = random'[l] => m = l
    <3>1. CASE Take
      <4>1. i \in Thread /\ shuffle[i] = 0 /\ random' = Append(random, i)
        BY <3>1 DEF Take, IsFree, ShuffleInv, ShuffleTypeOK
      <4>2. \A m \in DOMAIN random : random[m] # i
        BY <4>1 DEF ShuffleInv, ListExact
      <4>3. /\ DOMAIN random' = 1 .. Len(random) + 1
            /\ DOMAIN random = 1 .. Len(random) /\ Len(random) \in Nat
            /\ random'[Len(random) + 1] = i
            /\ \A m \in DOMAIN random : random'[m] = random[m]
        BY <1>3, <4>1
      <4>4. ASSUME NEW m \in DOMAIN random', NEW l \in DOMAIN random',
                   random'[m] = random'[l]
            PROVE  m = l
        <5>1. m \in DOMAIN random \/ m = Len(random) + 1
          BY <4>3
        <5>2. l \in DOMAIN random \/ l = Len(random) + 1
          BY <4>3
        <5> QED
          BY <4>2, <4>3, <4>4, <5>1, <5>2 DEF LaunchedOnce
      <4> QED
        BY <4>4
    <3>2. CASE ~Take
      <4>1. random' = random
        BY <2>1, <3>2 DEF ShuffleNext, Draw, StepOver, Finish
      <4> QED
        BY <4>1 DEF LaunchedOnce
    <3> QED
      BY <3>1, <3>2
  <2> QED
    BY <1>2, <2>1, <2>2, <2>3 DEF LaunchedOnce
<1>5. CASE ReadNThreads
  BY <1>1, <1>5 DEF ReadNThreads, LaunchedOnce, shuffleVars
<1>6. CASE Launch \/ Skip
  <2>1. MayLaunch /\ launched < nthreads /\ launched' = launched + 1
        /\ UNCHANGED <<prog, known, random, pc>>
    BY <1>6 DEF Launch, Skip, shuffleVars
  <2>2. NextWorker \in Thread /\ at[NextWorker] = "new"
    BY <2>1, NextIsNew
  <2>3. \A w \in Thread : at'[w] # "new" <=> w = NextWorker \/ at[w] # "new"
    <3>1. at' = [at EXCEPT ![NextWorker] = "draw"]
          \/ at' = [at EXCEPT ![NextWorker] = "skipped"]
      BY <1>6 DEF Launch, Skip
    <3>2. DOMAIN at = Thread
      BY DEF TypeOK
    <3> QED
      BY <2>2, <3>1, <3>2
  <2>4. ASSUME NEW w \in Thread
        PROVE  at'[w] # "new" <=> IF prog = "mem" THEN w < launched + 1
                                  ELSE \E m \in 1 .. launched + 1 : random[m] = w
    <3>1. CASE prog = "mem"
      <4>1. NextWorker = launched /\ w \in Int /\ (at[w] # "new" <=> w < launched)
        BY <1>2, <2>1, <3>1 DEF NextWorker, LaunchedOnce, Thread
      <4> QED
        BY <1>2, <2>3, <3>1, <4>1
    <3>2. CASE prog # "mem"
      <4>1. /\ NextWorker = random[launched + 1]
            /\ at[w] # "new" <=> \E m \in 1 .. launched : random[m] = w
        BY <1>2, <2>1, <3>2 DEF NextWorker, LaunchedOnce
      <4>2. \A m : m \in 1 .. launched + 1 <=> m \in 1 .. launched \/ m = launched + 1
        BY <1>2
      <4> QED
        BY <2>3, <3>2, <4>1, <4>2
    <3> QED
      BY <3>1, <3>2
  <2> QED
    BY <1>2, <2>1, <2>4 DEF LaunchedOnce, MayLaunch
<1>7. CASE Return
  BY <1>1, <1>2, <1>7 DEF Return, MayLaunch, LaunchedOnce, shuffleVars
<1>8. ASSUME NEW w \in Thread, Work(w) PROVE LaunchedOnce'
  <2>1. UNCHANGED <<prog, known, launched, random, pc>>
    BY <1>8 DEF Work, DrawBatch, StartTurn, Acquire, Save, Move, Store, Release,
                Count, main, shuffleVars
  <2>2. at[w] \notin {"new", "skipped"}
    BY <1>8 DEF Work, DrawBatch, StartTurn, Acquire, Save, Move, Store, Release,
                Count, Go
  <2>3. \E a \in {"draw", "lock", "save", "move", "store", "unlock", "count"} :
          at' = [at EXCEPT ![w] = a]
    BY <1>8 DEF Work, DrawBatch, StartTurn, Acquire, Save, Move, Store, Release,
                Count, Go, AfterSwaps
  <2>4. \A v \in Thread : at'[v] # "new" <=> at[v] # "new"
    BY <2>2, <2>3 DEF TypeOK
  <2> QED
    BY <1>2, <2>1, <2>2, <2>4 DEF LaunchedOnce
<1>9. CASE Measure \/ UNCHANGED vars
  BY <1>9 DEF Measure, Wake, Collect, PrintSum, vars, main, shuffleVars,
              LaunchedOnce
<1> QED
  BY <1>4, <1>5, <1>6, <1>7, <1>8, <1>9 DEF Next, MainStep

\* A mutex has a holder exactly while one of its block's workers swaps.
LEMMA LocksKept ==
  ASSUME TypeOK, ShuffleInv, LaunchedOnce, PairsReady, LocksExact, [Next]_vars
  PROVE  LocksExact'
<1>1. prog' = prog /\ block' = block
  BY ConfigurationKept
<1>2. DOMAIN at = Thread /\ DOMAIN locks = Blocks /\ Nobody \notin Thread
      /\ \A w \in Thread : block[w] \in Blocks
  BY BlockSwapAssumption DEF TypeOK
<1>3. ASSUME UNCHANGED <<locks>>,
             \A w \in Thread : InSection(w)' <=> InSection(w)
      PROVE  LocksExact'
  BY <1>1, <1>3 DEF LocksExact
<1>4. CASE UNCHANGED <<locks, at>>
  BY <1>1, <1>3, <1>4 DEF InSection
<1>5. ASSUME NEW w \in Thread, NEW a \in {"draw", "skipped"}, at[w] = "new",
             at' = [at EXCEPT ![w] = a], locks' = locks
      PROVE  LocksExact'
  <2>1. \A v \in Thread : InSection(v)' <=> InSection(v)
    BY <1>1, <1>2, <1>5 DEF InSection
  <2> QED
    BY <1>3, <1>5, <2>1
<1>6. ASSUME NEW w \in Thread, Work(w) PROVE LocksExact'
  <2>1. CASE Acquire(w)
    <3>1. prog # "mem" /\ locks[block[w]] = Nobody
      BY <2>1 DEF Acquire, Go, Free, Lock, PairsReady
    <3>2. locks' = [locks EXCEPT ![block[w]] = w] /\ at' = [at EXCEPT ![w] = "save"]
      BY <2>1 DEF Acquire, Go
    <3>3. \A v \in Thread : InSection(v)' <=> InSection(v) \/ v = w
      BY <1>1, <1>2, <3>1, <3>2 DEF InSection
    <3>4. ~InSection(w)
      BY <2>1 DEF Acquire, Go, InSection
    <3>5. \A v \in Thread : InSection(v) => block[v] # block[w]
      BY <1>2, <3>1 DEF LocksExact
    <3> QED
      BY <1>1, <1>2, <3>2, <3>3, <3>4, <3>5 DEF LocksExact
  <2>2. CASE Release(w)
    <3>1. prog # "mem"
      BY <2>2 DEF Release, Go, PairsReady
    <3>2. locks' = [locks EXCEPT ![block[w]] = Nobody]
          /\ at' = [at EXCEPT ![w] = "count"] /\ at[w] = "unlock"
      BY <2>2 DEF Release, Go
    <3>3. \A v \in Thread : InSection(v)' <=> InSection(v) /\ v # w
      BY <1>1, <1>2, <3>1, <3>2 DEF InSection
    <3>4. locks[block[w]] = w
      BY <1>2, <3>1, <3>2 DEF LocksExact, InSection
    <3> QED
      BY <1>1, <1>2, <3>2, <3>3, <3>4 DEF LocksExact
  <2>3. CASE ~Acquire(w) /\ ~Release(w)
    <3>1. locks' = locks
      BY <1>6, <2>3 DEF Work, DrawBatch, StartTurn, Save, Move, Store, Count,
                        elements
    <3>2. PICK a : at' = [at EXCEPT ![w] = a]
      BY <1>6 DEF Work, DrawBatch, StartTurn, Acquire, Save, Move, Store, Release,
                  Count, Go
    <3>3. InSection(w)' <=> InSection(w)
      BY <1>1, <1>2, <1>6, <2>3
      DEF Work, DrawBatch, StartTurn, Save, Move, Store, Count, Go, AfterSwaps,
          InSection
    <3>4. \A v \in Thread : v # w => (InSection(v)' <=> InSection(v))
      BY <1>1, <1>2, <3>2 DEF InSection
    <3> QED
      BY <1>3, <3>1, <3>3, <3>4
  <2> QED
    BY <2>1, <2>2, <2>3
<1> QED
  BY <1>4, <1>5, <1>6, StepKinds

\* A worker never reads a pair that it has not drawn.
LEMMA PairsKept ==
  ASSUME TypeOK, ShuffleInv, LaunchedOnce, PairsReady, [Next]_vars
  PROVE  PairsReady'
<1>1. prog' = prog /\ Bound' = Bound /\ Swaps' = Swaps /\ TurnRound' = TurnRound
  <2>1. Swaps' = Swaps
    BY ConfigurationKept
  <2> QED
    BY <2>1, ConfigurationKept DEF TurnRound
<1>2. DOMAIN at = Thread /\ DOMAIN c = Thread /\ DOMAIN seq = Thread
      /\ DOMAIN batches = Thread
  BY DEF TypeOK
<1> DEFINE Ready(w) ==
             /\ at[w] = "lock" \/ Swapping(w) =>
                  /\ seq[w] \in [1 .. Swaps -> Index \X Index]
                  /\ c[w] \in 1 .. Swaps
             /\ ~Swapping(w) => c[w] = 1
             /\ at[w] \notin {"new", "skipped", "draw"} => batches[w] < Bound
             /\ prog = "mem" => /\ at[w] \notin {"lock", "unlock"}
                                /\ Swapping(w) => seq[w] = TurnRound
<1>3. \A w \in Thread : Ready(w)
  BY DEF PairsReady
<1>4. SUFFICES ASSUME NEW v \in Thread PROVE Ready(v)'
  <2> HIDE DEF Ready
  <2>1. \A w \in Thread : Ready(w)'
    BY <1>4
  <2> QED
    BY <2>1 DEF PairsReady, Ready
<1>5. ASSUME at'[v] = at[v], c'[v] = c[v], seq'[v] = seq[v], batches'[v] = batches[v]
      PROVE  Ready(v)'
  BY <1>1, <1>3, <1>5 DEF Swapping
<1>6. CASE UNCHANGED <<at, c, seq, batches>>
  BY <1>5, <1>6
<1>7. ASSUME NEW w \in Thread, NEW a \in {"draw", "skipped"}, at[w] = "new",
             at' = [at EXCEPT ![w] = a], UNCHANGED <<c, seq, batches>>
      PROVE  Ready(v)'
  <2>1. CASE v = w
    BY <1>1, <1>2, <1>3, <1>7, <2>1 DEF Swapping
  <2>2. CASE v # w
    BY <1>2, <1>5, <1>7, <2>2
  <2> QED
    BY <2>1, <2>2
<1>8. ASSUME NEW w \in Thread, Work(w), v # w PROVE Ready(v)'
  <2>1. at'[v] = at[v]
    BY <1>2, <1>8 DEF Work, DrawBatch, StartTurn, Acquire, Save, Move, Store,
                      Release, Count, Go
  <2>2. c'[v] = c[v] /\ batches'[v] = batches[v]
    BY <1>2, <1>8 DEF Work, DrawBatch, StartTurn, Acquire, Save, Move, Store,
                      Release, Count, counting
  <2>3. seq'[v] = seq[v]
    BY <1>2, <1>8 DEF Work, DrawBatch, StartTurn, Acquire, Save, Move, Store,
                      Release, Count
  <2> QED
    BY <1>5, <2>1, <2>2, <2>3
<1>9. ASSUME Work(v) PROVE Ready(v)'
  <2>1. CASE DrawBatch(v)
    <3>1. PICK s \in [1 .. Swaps -> Drawn \X Drawn] : seq' = [seq EXCEPT ![v] = s]
      BY <2>1 DEF DrawBatch
    <3>2. s \in [1 .. Swaps -> Index \X Index]
      BY DrawnInIndex
    <3>3. prog # "mem" /\ batches[v] < Bound /\ at[v] = "draw"
          /\ at'[v] = "lock" /\ c' = c /\ batches' = batches
      BY <1>2, <2>1 DEF DrawBatch, Go, counting
    <3>4. Swaps \in Nat \ {0}
      BY <3>3, BlockSwapAssumption DEF Swaps
    <3>5. c[v] = 1 /\ c[v] \in 1 .. Swaps
      BY <1>3, <3>3, <3>4 DEF Swapping
    <3> QED
      BY <1>1, <1>2, <3>1, <3>2, <3>3, <3>5 DEF Swapping
  <2>2. CASE StartTurn(v)
    <3>1. /\ prog = "mem" /\ batches[v] < Bound /\ at[v] = "draw"
          /\ at'[v] = (IF Swaps = 0 THEN "count" ELSE "save")
          /\ seq'[v] = TurnRound /\ c' = c /\ batches' = batches
      BY <1>2, <2>2 DEF StartTurn, Go, counting
    <3>2. TurnRound \in [1 .. Swaps -> Index \X Index]
      BY <3>1, TurnRoundInBlock
    <3>3. c[v] = 1 /\ (Swaps # 0 => c[v] \in 1 .. Swaps)
      BY <1>3, <3>1, BoundsAreNumbers DEF Swapping
    <3> QED
      BY <1>1, <3>1, <3>2, <3>3 DEF Swapping
  <2>3. CASE Acquire(v) \/ Save(v) \/ Move(v)
    <3>1. /\ UNCHANGED <<c, seq, batches>>
          /\ at[v] \in {"lock", "save", "move"} /\ at'[v] \in {"save", "move", "store"}
          /\ at[v] = "lock" \/ Swapping(v)
      BY <1>2, <2>3 DEF Acquire, Save, Move, Go, counting, Swapping
    <3> QED
      BY <1>1, <1>3, <3>1 DEF Swapping
  <2>4. CASE Store(v)
    <3>1. /\ UNCHANGED <<seq, batches>> /\ at[v] = "store"
          /\ at'[v] = IF c[v] < Swaps THEN "save" ELSE AfterSwaps
          /\ c'[v] = IF c[v] < Swaps THEN c[v] + 1 ELSE 1
      BY <1>2, <2>4 DEF Store, Go, MoreSwaps, counting
    <3>2. /\ c[v] \in 1 .. Swaps /\ seq[v] \in [1 .. Swaps -> Index \X Index]
          /\ batches[v] < Bound /\ (prog = "mem" => seq[v] = TurnRound)
      BY <1>3, <3>1 DEF Swapping
    <3>3. CASE c[v] < Swaps
      <4>1. c'[v] \in 1 .. Swaps
        BY <3>1, <3>2, <3>3, BoundsAreNumbers
      <4> QED
        BY <1>1, <3>1, <3>2, <3>3, <4>1 DEF Swapping
    <3>4. CASE ~(c[v] < Swaps)
      BY <1>1, <3>1, <3>2, <3>4 DEF Swapping, AfterSwaps
    <3> QED
      BY <3>3, <3>4
  <2>5. CASE Release(v)
    <3>1. UNCHANGED <<c, seq, batches>> /\ at[v] = "unlock" /\ at'[v] = "count"
      BY <1>2, <2>5 DEF Release, Go, counting
    <3> QED
      BY <1>1, <1>3, <3>1 DEF Swapping
  <2>6. CASE Count(v)
    <3>1. c' = c /\ at[v] = "count" /\ at'[v] = "draw"
      BY <1>2, <2>6 DEF Count, Go
    <3> QED
      BY <1>1, <1>3, <3>1 DEF Swapping
  <2> QED
    BY <1>9, <2>1, <2>2, <2>3, <2>4, <2>5, <2>6 DEF Work
<1> QED
  BY <1>6, <1>7, <1>8, <1>9, StepKinds

-----------------------------------------------------------------------------
(* The elements of a block *)

\* Exchanging two elements loses none.
LEMMA SwapComplete ==
  ASSUME NEW f \in [Index -> Index], NEW x \in Index, NEW y \in Index, Complete(f)
  PROVE  Complete([[f EXCEPT ![x] = f[y]] EXCEPT ![y] = f[x]])
<1> DEFINE g == [[f EXCEPT ![x] = f[y]] EXCEPT ![y] = f[x]]
<1>1. g[y] = f[x] /\ g[x] = f[y]
  OBVIOUS
<1>2. \A z \in Index : z # x /\ z # y => g[z] = f[z]
  OBVIOUS
<1> HIDE DEF g
<1>3. ASSUME NEW v \in Index PROVE \E z \in Index : g[z] = v
  <2>1. PICK z \in Index : f[z] = v
    BY DEF Complete
  <2> QED
    BY <1>1, <1>2, <2>1
<1> QED
  BY <1>3 DEF Complete, g

\* Without a race one worker at a time swaps elements of a block: in mem it has
\* no other, else the mutex sees to it.
LEMMA OneSwaps ==
  ASSUME TypeOK, LocksExact, NEW b \in Blocks, ~Raced(b),
         NEW w \in Thread, NEW v \in Thread,
         block[w] = b, block[v] = b, Swapping(w), Swapping(v)
  PROVE  v = w
<1>1. CASE prog = "mem"
  BY <1>1 DEF Raced
<1>2. CASE prog # "mem"
  BY <1>2 DEF LocksExact, InSection, Swapping
<1> QED
  BY <1>1, <1>2

\* A step that leaves a block and its swapping workers alone keeps it whole.
LEMMA Undisturbed ==
  ASSUME block' = block, NEW b \in Blocks, BlockWhole(b), blocks'[b] = blocks[b],
         \A w \in Thread : block[w] = b =>
           /\ at'[w] = "move" <=> at[w] = "move"
           /\ at'[w] = "store" <=> at[w] = "store"
           /\ at[w] \in {"move", "store"} => /\ swap'[w] = swap[w]
                                             /\ c'[w] = c[w] /\ seq'[w] = seq[w]
  PROVE  BlockWhole(b)'
<1>1. (\A w \in Thread : block'[w] = b => at'[w] # "store") => Complete(blocks'[b])
  BY DEF BlockWhole
<1>2. ASSUME NEW w \in Thread, block[w] = b
      PROVE  /\ at'[w] = "move" => swap'[w] = Cell(w, I(w))'
             /\ at'[w] = "store" => Complete([blocks'[b] EXCEPT ![J(w)'] = swap'[w]])
  BY <1>2 DEF BlockWhole, Cell, I, J
<1>3. Complete(blocks[b])' <=> Complete(blocks'[b])
  BY DEF Complete
<1>4. \A w \in Thread : Complete([blocks[b] EXCEPT ![J(w)] = swap[w]])'
                          <=> Complete([blocks'[b] EXCEPT ![J(w)'] = swap'[w]])
  BY DEF Complete
<1> QED
  BY <1>1, <1>2, <1>3, <1>4 DEF BlockWhole

\* No step of a block's only swapper loses an element.
LEMMA BlocksKept ==
  ASSUME TypeOK, ShuffleInv, LaunchedOnce, LocksExact, PairsReady, NothingLost,
         [Next]_vars
  PROVE  NothingLost'
<1>1. prog' = prog /\ block' = block
  BY ConfigurationKept
<1>2. DOMAIN at = Thread /\ DOMAIN c = Thread /\ DOMAIN seq = Thread
      /\ DOMAIN swap = Thread /\ DOMAIN blocks = Blocks
  BY DEF TypeOK
<1>3. SUFFICES ASSUME NEW b \in Blocks, ~Raced(b) PROVE BlockWhole(b)'
  <2>1. \A b \in Blocks : Raced(b)' <=> Raced(b)
    BY <1>1 DEF Raced
  <2> QED
    BY <1>3, <2>1 DEF NothingLost
<1>4. BlockWhole(b)
  BY <1>3 DEF NothingLost
<1>5. CASE UNCHANGED <<blocks, at, c, seq, swap>>
  BY <1>1, <1>4, <1>5, Undisturbed
<1>6. ASSUME NEW w \in Thread, NEW a \in {"draw", "skipped"}, at[w] = "new",
             at' = [at EXCEPT ![w] = a], UNCHANGED <<blocks, c, seq, swap>>
      PROVE  BlockWhole(b)'
  BY <1>1, <1>2, <1>4, <1>6, Undisturbed
<1>7. ASSUME NEW w \in Thread, Work(w) PROVE BlockWhole(b)'
  <2>1. \A v \in Thread : v # w => /\ at'[v] = at[v] /\ c'[v] = c[v]
                                   /\ seq'[v] = seq[v] /\ swap'[v] = swap[v]
    <3>1. ASSUME NEW v \in Thread, v # w
          PROVE  /\ at'[v] = at[v] /\ c'[v] = c[v]
                 /\ seq'[v] = seq[v] /\ swap'[v] = swap[v]
      <4>1. at'[v] = at[v]
        BY <1>2, <1>7, <3>1 DEF Work, DrawBatch, StartTurn, Acquire, Save, Move,
                                Store, Release, Count, Go
      <4>2. c'[v] = c[v]
        BY <1>2, <1>7, <3>1 DEF Work, DrawBatch, StartTurn, Acquire, Save, Move,
                                Store, Release, Count
      <4>3. seq'[v] = seq[v]
        BY <1>2, <1>7, <3>1 DEF Work, DrawBatch, StartTurn, Acquire, Save, Move,
                                Store, Release, Count
      <4>4. swap'[v] = swap[v]
        BY <1>2, <1>7, <3>1 DEF Work, DrawBatch, StartTurn, Acquire, Save, Move,
                                Store, Release, Count
      <4> QED
        BY <4>1, <4>2, <4>3, <4>4
    <3> QED
      BY <3>1
  <2>2. CASE block[w] # b
    <3>1. blocks'[b] = blocks[b]
      BY <1>2, <1>7, <2>2 DEF Work, DrawBatch, StartTurn, Acquire, Save, Move,
                              Store, Release, Count, elements
    <3> QED
      BY <1>1, <1>4, <2>1, <2>2, <3>1, Undisturbed
  <2>3. CASE ~Save(w) /\ ~Move(w) /\ ~Store(w)
    <3>1. blocks' = blocks
      BY <1>7, <2>3 DEF Work, DrawBatch, StartTurn, Acquire, Release, Count,
                        elements
    <3>2. at[w] \notin {"move", "store"} /\ at'[w] \notin {"move", "store"}
      BY <1>2, <1>7, <2>3 DEF Work, DrawBatch, StartTurn, Acquire, Release, Count,
                              Go
    <3> QED
      BY <1>1, <1>4, <2>1, <3>1, <3>2, Undisturbed
  <2>4. CASE block[w] = b /\ (Save(w) \/ Move(w) \/ Store(w))
    <3> DEFINE f == blocks[b]
               p == I(w)
               q == J(w)
    <3>1. f \in [Index -> Index] /\ p \in Index /\ q \in Index /\ Swapping(w)
      <4>1. Swapping(w)
        BY <2>4 DEF Save, Move, Store, Go, Swapping
      <4>2. seq[w] \in [1 .. Swaps -> Index \X Index] /\ c[w] \in 1 .. Swaps
        BY <4>1 DEF PairsReady
      <4> QED
        BY <4>1, <4>2 DEF TypeOK, I, J
    <3>2. \A v \in Thread : block[v] = b /\ v # w => ~Swapping(v)
      BY <1>3, <2>4, <3>1, OneSwaps
    <3>3. \A v \in Thread : block[v] = b /\ v # w =>
            /\ at[v] \notin {"move", "store"} /\ at'[v] \notin {"move", "store"}
      BY <2>1, <3>2 DEF Swapping
    <3>4. CASE Save(w)
      <4>1. /\ at[w] = "save" /\ at'[w] = "move" /\ UNCHANGED <<blocks, c, seq>>
            /\ swap'[w] = f[p]
        BY <1>2, <2>4, <3>4 DEF Save, Go, Cell, elements
      <4>2. Complete(f)
        BY <1>4, <3>3, <4>1 DEF BlockWhole
      <4>3. Complete(blocks[b])' <=> Complete(f)
        BY <4>1 DEF Complete
      <4>4. Cell(w, I(w))' = f[p]
        BY <1>1, <2>4, <4>1 DEF Cell, I
      <4> QED
        BY <1>1, <2>4, <3>3, <4>1, <4>2, <4>3, <4>4 DEF BlockWhole
    <3>5. CASE Move(w)
      <4>1. /\ at[w] = "move" /\ at'[w] = "store" /\ UNCHANGED <<c, seq, swap>>
            /\ blocks'[b] = [f EXCEPT ![p] = f[q]]
        BY <1>2, <2>4, <3>5 DEF Move, Go, Cell
      <4>2. Complete(f) /\ swap[w] = f[p]
        BY <1>4, <2>4, <3>3, <4>1 DEF BlockWhole, Cell
      <4>3. Complete([[f EXCEPT ![p] = f[q]] EXCEPT ![q] = f[p]])
        BY <3>1, <4>2, SwapComplete
      <4>4. Complete([blocks[b] EXCEPT ![J(w)] = swap[w]])'
              <=> Complete([blocks'[b] EXCEPT ![q] = swap[w]])
        BY <4>1 DEF Complete, J
      <4>5. Complete([blocks[b] EXCEPT ![J(w)] = swap[w]])'
        BY <4>1, <4>2, <4>3, <4>4
      <4> QED
        BY <1>1, <2>4, <3>3, <4>1, <4>5 DEF BlockWhole
    <3>6. CASE Store(w)
      <4>1. /\ at[w] = "store" /\ at'[w] \notin {"move", "store"}
            /\ blocks'[b] = [f EXCEPT ![q] = swap[w]]
        BY <1>2, <2>4, <3>6 DEF Store, Go, AfterSwaps
      <4>2. Complete([f EXCEPT ![q] = swap[w]])
        BY <1>4, <2>4, <4>1 DEF BlockWhole
      <4>3. Complete(blocks[b])' <=> Complete(blocks'[b])
        BY DEF Complete
      <4> QED
        BY <1>1, <2>4, <3>3, <4>1, <4>2, <4>3 DEF BlockWhole
    <3> QED
      BY <2>4, <3>4, <3>5, <3>6
  <2> QED
    BY <2>2, <2>3, <2>4
<1> QED
  BY <1>5, <1>6, <1>7, StepKinds

-----------------------------------------------------------------------------
(* The turns of mem *)

\* What a turn has done to the index x after m exchanges: nothing before the
\* first, each exchange its own two indices, and twice the same is nothing.
LEMMA TurnedNone ==
  ASSUME NEW x \in Index
  PROVE  Turned(x, 0) = x
  BY Indices DEF Turned, Mirrored

LEMMA TurnedOneMore ==
  ASSUME NEW x \in Index, NEW m \in 1 .. blocksize \div 2
  PROVE  Turned(x, m) = IF x = m - 1 THEN Mirrored(m - 1)
                        ELSE IF x = Mirrored(m - 1) THEN m - 1
                        ELSE Turned(x, m - 1)
  BY Indices DEF Turned, Mirrored

LEMMA TurnedReach ==
  ASSUME NEW m \in 1 .. blocksize \div 2
  PROVE  /\ m - 1 \in Index /\ Mirrored(m - 1) \in Index /\ Mirrored(m - 1) # m - 1
         /\ Turned(m - 1, m - 1) = m - 1
         /\ Turned(Mirrored(m - 1), m - 1) = Mirrored(m - 1)
  BY Indices DEF Turned, Mirrored

LEMMA TurnedTwice ==
  ASSUME NEW x \in Index, NEW m \in Nat
  PROVE  Turned(x, m) \in Index /\ Turned(Turned(x, m), m) = x
  BY Indices DEF Turned, Mirrored

\* What is left alone stays as it is.
LEMMA SameTurn ==
  ASSUME Swaps' = Swaps, NEW w \in Thread, TurnExact(w),
         batches'[w] = batches[w], SwapsDone(w)' = SwapsDone(w),
         \A x \in Index : Cell(w, x)' = Cell(w, x),
         \/ at[w] # "store" /\ at'[w] # "store"
         \/ /\ at[w] = "store" /\ at'[w] = "store"
            /\ seq'[w] = seq[w] /\ c'[w] = c[w] /\ swap'[w] = swap[w]
  PROVE  TurnExact(w)'
<1>1. Index' = Index /\ \A x : Before(w, x)' = Before(w, x)
  BY DEF Before, Turned, Mirrored
<1>2. \A x : Before(w, Turned(x, SwapsDone(w)))'
               = Before(w, Turned(x, SwapsDone(w)))
  BY DEF Before, Turned, Mirrored
<1>3. CASE at[w] # "store" /\ at'[w] # "store"
  BY <1>2, <1>3 DEF TurnExact
<1>4. CASE /\ at[w] = "store" /\ at'[w] = "store"
           /\ seq'[w] = seq[w] /\ c'[w] = c[w] /\ swap'[w] = swap[w]
  <2>1. I(w)' = I(w) /\ J(w)' = J(w)
    BY <1>4 DEF I, J
  <2>2. Before(w, I(w))' = Before(w, I(w)) /\ Before(w, J(w))' = Before(w, J(w))
    BY <2>1 DEF Before, Turned, Mirrored
  <2> QED
    BY <1>2, <1>4, <2>1, <2>2 DEF TurnExact
<1> QED
  BY <1>3, <1>4

\* The steps of a turn: each exchanges the next two elements from the ends, and
\* counting the turn makes its result the start of the next.
LEMMA OwnTurn ==
  ASSUME TypeOK, PairsReady, prog = "mem", NEW w \in Thread, TurnExact(w),
         BlockWhole(block[w]), Work(w), [Next]_vars
  PROVE  TurnExact(w)'
<1>1. prog' = prog /\ block' = block /\ Swaps' = Swaps
  BY ConfigurationKept
<1>2. /\ DOMAIN at = Thread /\ DOMAIN c = Thread /\ DOMAIN seq = Thread
      /\ DOMAIN swap = Thread /\ DOMAIN blocks = Blocks /\ DOMAIN batches = Thread
      /\ block[w] \in Blocks /\ blocks[block[w]] \in [Index -> Index]
  BY DEF TypeOK
<1>3. Swaps = blocksize \div 2 /\ Swaps \in Nat
  BY BlockSwapAssumption DEF Swaps
<1>4. Index' = Index
  OBVIOUS
<1>5. CASE StartTurn(w)
  <2>1. /\ at[w] = "draw" /\ at'[w] = (IF Swaps = 0 THEN "count" ELSE "save")
        /\ c' = c /\ batches' = batches /\ blocks' = blocks
    BY <1>2, <1>5 DEF StartTurn, Go, counting, elements
  <2>2. c[w] = 1
    BY <2>1 DEF PairsReady, Swapping
  <2>3. SwapsDone(w)' = SwapsDone(w)
    BY <1>1, <1>3, <2>1, <2>2 DEF SwapsDone
  <2>4. \A x \in Index : Cell(w, x)' = Cell(w, x)
    BY <1>1, <2>1 DEF Cell
  <2> QED
    BY <1>1, <2>1, <2>3, <2>4, SameTurn
<1>6. CASE Save(w)
  <2>1. /\ at[w] = "save" /\ at'[w] = "move"
        /\ c' = c /\ batches' = batches /\ blocks' = blocks
    BY <1>2, <1>6 DEF Save, Go, counting, elements
  <2>2. SwapsDone(w)' = SwapsDone(w)
    BY <2>1 DEF SwapsDone
  <2>3. \A x \in Index : Cell(w, x)' = Cell(w, x)
    BY <1>1, <2>1 DEF Cell
  <2> QED
    BY <1>1, <2>1, <2>2, <2>3, SameTurn
<1>7. ASSUME Swapping(w)
      PROVE  /\ c[w] \in 1 .. blocksize \div 2
             /\ I(w) = c[w] - 1 /\ J(w) = Mirrored(c[w] - 1)
  <2>1. c[w] \in 1 .. Swaps /\ seq[w] = TurnRound
    BY <1>7 DEF PairsReady
  <2>2. seq[w][c[w]] = <<c[w] - 1, Mirrored(c[w] - 1)>>
    BY <2>1 DEF TurnRound
  <2> QED
    BY <1>3, <2>1, <2>2 DEF I, J
<1> DEFINE m == c[w]
           p == I(w)
           q == J(w)
<1>8. CASE Move(w)
  <2>1. /\ at[w] = "move" /\ at'[w] = "store"
        /\ UNCHANGED <<c, seq, swap, batches>>
        /\ \A x \in Index : blocks'[block[w]][x] = IF x = p THEN Cell(w, q)
                                                   ELSE Cell(w, x)
    BY <1>2, <1>8 DEF Move, Go, Cell, counting
  <2>2. /\ m \in 1 .. blocksize \div 2 /\ p = m - 1 /\ q = Mirrored(m - 1)
        /\ p \in Index /\ q \in Index
        /\ Turned(p, m - 1) = p /\ Turned(q, m - 1) = q
    BY <1>7, <2>1, TurnedReach DEF Swapping
  <2>3. \A x \in Index : Cell(w, x) = Before(w, Turned(x, m - 1))
    BY <2>1 DEF TurnExact, SwapsDone
  <2>4. Cell(w, p) = Before(w, p) /\ Cell(w, q) = Before(w, q)
    BY <2>2, <2>3
  <2>5. swap[w] = Before(w, p)
    BY <1>2, <2>1, <2>4 DEF BlockWhole
  <2>6. \A x \in Index : Cell(w, x)' = IF x = p THEN Before(w, q)
                                       ELSE Before(w, Turned(x, m - 1))
    BY <1>1, <2>1, <2>3, <2>4 DEF Cell
  <2>7. I(w)' = p /\ J(w)' = q /\ SwapsDone(w)' = m - 1
    BY <2>1 DEF I, J, SwapsDone
  <2>8. \A x : Before(w, x)' = Before(w, x)
    BY <1>1, <2>1 DEF Before, Turned, Mirrored
  <2>9. /\ Before(w, J(w))' = Before(w, q) /\ Before(w, I(w))' = Before(w, p)
        /\ \A x : Before(w, Turned(x, SwapsDone(w)))' = Before(w, Turned(x, m - 1))
    BY <1>1, <2>1, <2>7 DEF Before, Turned, Mirrored
  <2> QED
    BY <2>1, <2>5, <2>6, <2>7, <2>9 DEF TurnExact
<1>9. CASE Store(w)
  <2>1. /\ at[w] = "store" /\ at'[w] \in {"save", "count"} /\ batches' = batches
        /\ at'[w] = IF m < Swaps THEN "save" ELSE "count"
        /\ c'[w] = IF m < Swaps THEN m + 1 ELSE 1
        /\ \A x \in Index : blocks'[block[w]][x] = IF x = q THEN swap[w]
                                                   ELSE Cell(w, x)
    BY <1>2, <1>9 DEF Store, Go, Cell, counting, MoreSwaps, AfterSwaps
  <2>2. /\ m \in 1 .. blocksize \div 2 /\ p = m - 1 /\ q = Mirrored(m - 1)
        /\ p \in Index /\ q \in Index /\ p # q
    BY <1>7, <2>1, TurnedReach DEF Swapping
  <2>3. /\ \A x \in Index : Cell(w, x) = IF x = p THEN Before(w, q)
                                         ELSE Before(w, Turned(x, m - 1))
        /\ swap[w] = Before(w, p)
    BY <2>1 DEF TurnExact, SwapsDone
  <2>4. \A x \in Index : Turned(x, m) = IF x = p THEN q ELSE IF x = q THEN p
                                        ELSE Turned(x, m - 1)
    BY <2>2, TurnedOneMore
  <2>5. \A x \in Index : Cell(w, x)' = Before(w, Turned(x, m))
    BY <1>1, <2>1, <2>2, <2>3, <2>4 DEF Cell
  <2>6. SwapsDone(w)' = m
    BY <1>1, <1>3, <2>1, <2>2 DEF SwapsDone
  <2>7. \A x : Before(w, Turned(x, SwapsDone(w)))' = Before(w, Turned(x, m))
    BY <1>1, <2>1, <2>6 DEF Before, Turned, Mirrored
  <2> QED
    BY <2>1, <2>5, <2>7 DEF TurnExact
<1>10. CASE Count(w)
  <2>1. /\ at[w] = "count" /\ at'[w] = "draw" /\ c' = c /\ blocks' = blocks
        /\ batches'[w] = batches[w] + 1
    BY <1>2, <1>10 DEF Count, Go, elements
  <2>2. c[w] = 1
    BY <2>1 DEF PairsReady, Swapping
  <2>3. SwapsDone(w)' = 0
    BY <2>1, <2>2 DEF SwapsDone
  <2>4. \A x \in Index : Cell(w, x)' = Before(w, Turned(x, Swaps))
    <3>1. \A x \in Index : Cell(w, x) = Before(w, Turned(x, Swaps))
      BY <2>1 DEF TurnExact, SwapsDone
    <3> QED
      BY <1>1, <2>1, <3>1 DEF Cell
  <2>5. batches[w] \in Nat
    BY BoundsAreNumbers DEF TypeOK
  <2>6. batches'[w] % 2 = 1 <=> batches[w] % 2 # 1
    BY <2>1, <2>5
  <2>7. \A x \in Index : Turned(Turned(x, Swaps), Swaps) = x
    BY <1>3, TurnedTwice
  <2>8. \A x \in Index : Before(w, Turned(x, SwapsDone(w)))'
                           = IF batches[w] % 2 # 1 THEN Turned(x, Swaps) ELSE x
    <3>1. \A x \in Index : Turned(x, 0) = x
      BY TurnedNone
    <3>2. \A x \in Index : Before(w, Turned(x, SwapsDone(w)))'
            = IF batches'[w] % 2 = 1 THEN Turned(Turned(x, 0), Swaps)
              ELSE Turned(x, 0)
      BY <1>1, <2>3 DEF Before, Turned, Mirrored
    <3> QED
      BY <2>6, <3>1, <3>2
  <2>9. \A x \in Index : Cell(w, x)' = Before(w, Turned(x, SwapsDone(w)))'
    BY <2>4, <2>7, <2>8 DEF Before
  <2> QED
    BY <2>1, <2>9 DEF TurnExact
<1>11. ~DrawBatch(w) /\ ~Acquire(w) /\ ~Release(w)
  BY DEF DrawBatch, Acquire, Release, Go, PairsReady
<1> QED
  BY <1>5, <1>6, <1>8, <1>9, <1>10, <1>11 DEF Work

\* Another worker's steps are in another block.
LEMMA TurnsKept ==
  ASSUME TypeOK, ShuffleInv, LaunchedOnce, PairsReady, NothingLost, TurnsExact,
         [Next]_vars
  PROVE  TurnsExact'
<1>1. prog' = prog /\ block' = block /\ Swaps' = Swaps
  BY ConfigurationKept
<1>2. DOMAIN at = Thread /\ DOMAIN blocks = Blocks
      /\ \A w \in Thread : block[w] \in Blocks
  BY DEF TypeOK
<1>3. SUFFICES ASSUME prog = "mem", NEW w \in Thread, ~Raced(block[w])
               PROVE  TurnExact(w)'
  <2>1. \A w \in Thread : Raced(block[w])' <=> Raced(block[w])
    BY <1>1 DEF Raced
  <2> QED
    BY <1>1, <1>3, <2>1 DEF TurnsExact
<1>4. TurnExact(w) /\ BlockWhole(block[w])
  BY <1>2, <1>3 DEF TurnsExact, NothingLost
<1>5. ASSUME at'[w] = at[w], c'[w] = c[w], seq'[w] = seq[w], swap'[w] = swap[w],
             batches'[w] = batches[w], blocks'[block[w]] = blocks[block[w]]
      PROVE  TurnExact(w)'
  <2>1. SwapsDone(w)' = SwapsDone(w)
    BY <1>1, <1>5 DEF SwapsDone
  <2>2. \A x \in Index : Cell(w, x)' = Cell(w, x)
    BY <1>1, <1>5 DEF Cell
  <2> QED
    BY <1>1, <1>4, <1>5, <2>1, <2>2, SameTurn
<1>6. CASE UNCHANGED <<blocks, at, c, seq, swap, batches>>
  BY <1>5, <1>6
<1>7. ASSUME NEW v \in Thread, NEW a \in {"draw", "skipped"}, at[v] = "new",
             at' = [at EXCEPT ![v] = a], UNCHANGED <<blocks, c, seq, swap, batches>>
      PROVE  TurnExact(w)'
  <2>1. CASE v = w
    <3>1. at[w] = "new" /\ at'[w] \in {"draw", "skipped"}
      BY <1>2, <1>7, <2>1
    <3>2. SwapsDone(w)' = SwapsDone(w)
      BY <1>7, <3>1 DEF SwapsDone
    <3>3. \A x \in Index : Cell(w, x)' = Cell(w, x)
      BY <1>1, <1>7 DEF Cell
    <3> QED
      BY <1>1, <1>4, <1>7, <3>1, <3>2, <3>3, SameTurn
  <2>2. CASE v # w
    BY <1>2, <1>5, <1>7, <2>2
  <2> QED
    BY <2>1, <2>2
<1>8. ASSUME NEW v \in Thread, Work(v) PROVE TurnExact(w)'
  <2>1. CASE v = w
    BY <1>3, <1>4, <1>8, <2>1, OwnTurn
  <2>2. CASE v # w
    <3>1. block[v] # block[w]
      BY <1>3, <2>2 DEF Raced
    <3>2. at'[w] = at[w]
      BY <1>2, <1>8, <2>2 DEF Work, DrawBatch, StartTurn, Acquire, Save, Move,
                              Store, Release, Count, Go
    <3>3. c'[w] = c[w]
      BY <1>8, <2>2 DEF TypeOK, Work, DrawBatch, StartTurn, Acquire, Save, Move,
                        Store, Release, Count
    <3>4. seq'[w] = seq[w]
      BY <1>8, <2>2 DEF TypeOK, Work, DrawBatch, StartTurn, Acquire, Save, Move,
                        Store, Release, Count
    <3>5. swap'[w] = swap[w]
      BY <1>8, <2>2 DEF TypeOK, Work, DrawBatch, StartTurn, Acquire, Save, Move,
                        Store, Release, Count
    <3>6. batches'[w] = batches[w]
      BY <1>8, <2>2 DEF TypeOK, Work, DrawBatch, StartTurn, Acquire, Save, Move,
                        Store, Release, Count, counting
    <3>7. blocks'[block[w]] = blocks[block[w]]
      BY <1>2, <1>8, <3>1 DEF Work, DrawBatch, StartTurn, Acquire, Save, Move,
                              Store, Release, Count, elements
    <3> QED
      BY <1>5, <3>2, <3>3, <3>4, <3>5, <3>6, <3>7
  <2> QED
    BY <2>1, <2>2
<1> QED
  BY <1>6, <1>7, <1>8, StepKinds

-----------------------------------------------------------------------------
(* The theorems *)

\* At the start every block is in order, no mutex is held and nothing counted.
LEMMA AtStart == Init => Consistent /\ BatchesConserved
<1> SUFFICES ASSUME Init PROVE Consistent /\ BatchesConserved
  OBVIOUS
<1>1. TypeOK /\ ShuffleInv
  BY InitTypes, ShuffleStart DEF Init
<1>2. LaunchedOnce
  <2>1. DOMAIN random = {} /\ nthreads \in Nat
    BY ShuffleAssumption DEF Init, ShuffleInit
  <2>2. launched = 0 /\ \A w \in Thread : at[w] = "new"
    BY DEF Init
  <2>3. \A w \in Thread : ~(w < launched)
    BY <2>1, <2>2 DEF Thread
  <2> QED
    BY <2>1, <2>2, <2>3 DEF LaunchedOnce
<1>3. LocksExact
  BY BlockSwapAssumption DEF Init, LocksExact, InSection
<1>4. PairsReady
  BY DEF Init, PairsReady, Swapping
<1>5. NothingLost
  <2>1. ASSUME NEW b \in Blocks PROVE Complete(blocks[b])
    BY DEF Init, Complete
  <2> QED
    BY <2>1 DEF Init, NothingLost, BlockWhole
<1>6. TurnsExact
  <2> SUFFICES ASSUME NEW w \in Thread PROVE TurnExact(w)
    BY DEF TurnsExact
  <2>1. /\ at[w] = "new" /\ c[w] = 1 /\ batches[w] = 0 /\ block[w] \in Blocks
        /\ \A x \in Index : Cell(w, x) = x
    BY DEF Init, Cell
  <2>2. SwapsDone(w) = 0 /\ \A x : Before(w, x) = x
    BY <2>1 DEF SwapsDone, Before
  <2> QED
    BY <2>1, <2>2, TurnedNone DEF TurnExact
<1>7. BatchesConserved
  <2>1. Total = 0 /\ Waiting = 0
    BY NoOnes DEF Init, Total, Waiting
  <2> QED
    BY <2>1 DEF Init, BatchesConserved
<1> QED
  BY <1>1, <1>2, <1>3, <1>4, <1>5, <1>6, <1>7 DEF Consistent

\* Each step keeps all of it.
LEMMA Step ==
  Consistent /\ BatchesConserved /\ [Next]_vars => (Consistent /\ BatchesConserved)'
<1> SUFFICES ASSUME Consistent, BatchesConserved, [Next]_vars
             PROVE  (Consistent /\ BatchesConserved)'
  OBVIOUS
<1> USE DEF Consistent
<1>1. TypeOK'
  BY WorkTypes, OtherTypes
<1>2. ShuffleInv' /\ LaunchedOnce'
  BY ShuffleKept, LaunchesKept
<1>3. LocksExact' /\ PairsReady'
  BY LocksKept, PairsKept
<1>4. NothingLost' /\ TurnsExact'
  BY BlocksKept, TurnsKept
<1>5. BatchesConserved'
  BY SumsKept
<1> QED
  BY <1>1, <1>2, <1>3, <1>4, <1>5

LEMMA BlocksAndBatches == Spec => [](Consistent /\ BatchesConserved)
  BY AtStart, Step, PTL DEF Spec

\* Every worker is launched at most once, one at a time swaps elements of a
\* block that is not raced for, no element is lost or doubled there, and in mem
\* the block is what the exchanges done so far make of it.
THEOREM BlocksConsistent == Spec => []Consistent
  BY BlocksAndBatches, PTL

\* No batch is lost or doubled on its way from a worker to the printed sum.
THEOREM EveryBatchPrinted == Spec => []BatchesConserved
  BY BlocksAndBatches, PTL

\* When the shuffle is done, its list has every worker once, in every program
\* that launches by it.
THEOREM LaunchOrder == Spec => []EachOnce
<1>1. Consistent => EachOnce
  BY ListIsOrder DEF Consistent
<1> QED
  BY <1>1, BlocksConsistent, PTL
=============================================================================
