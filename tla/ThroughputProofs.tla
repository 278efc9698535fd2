--------------------------- MODULE ThroughputProofs ---------------------------
(***************************************************************************)
(* Proofs about Throughput for any finite set of workers, any number of    *)
(* counters and any bound on the increments.                               *)
(***************************************************************************)
EXTENDS Throughput, FiniteSetTheorems, TLAPS

(* Sums as numbers of pairs *)

LEMMA Numbers ==
  /\ Cardinality(Workers) \in Nat /\ Most \in Nat \ {0} /\ MaxAdds \in Nat
  /\ ncounters \in Nat /\ ncounters =< MAXCOUNTERS /\ MAXCOUNTERS \in Nat
  /\ Counters \subseteq Table /\ IsFiniteSet(Workers) /\ IsFiniteSet(Counters)
  /\ \A w \in Workers : MaxAdds < Most
<1>1. Cardinality(Workers) \in Nat /\ MaxAdds \in Nat
  BY ThroughputAssumption, FS_CardinalityType
<1>2. Cardinality(Workers) * MaxAdds \in Nat
  BY <1>1
<1>3. Most \in Nat \ {0}
  BY <1>2 DEF Most
<1>4. ASSUME NEW w \in Workers PROVE MaxAdds < Most
  <2>1. Cardinality(Workers) # 0
    BY <1>4, ThroughputAssumption, FS_EmptySet
  <2>2. PICK n \in Nat : Cardinality(Workers) = n + 1
    <3>1. Cardinality(Workers) - 1 \in Nat
      BY <1>1, <2>1
    <3> QED
      BY <1>1, <3>1
  <2>3. (n + 1) * MaxAdds = n * MaxAdds + MaxAdds /\ n * MaxAdds \in Nat
    BY <1>1
  <2> QED
    BY <1>1, <2>2, <2>3 DEF Most
<1>5. ncounters \in Nat /\ ncounters =< MAXCOUNTERS /\ MAXCOUNTERS \in Nat
  BY ThroughputAssumption
<1>6. IsFiniteSet(Counters) /\ Counters \subseteq Table
  BY <1>5, FS_Interval DEF Counters, Table
<1> QED
  BY <1>1, <1>3, <1>4, <1>5, <1>6, ThroughputAssumption

LEMMA OnesFinite ==
  ASSUME NEW S, IsFiniteSet(S), NEW f
  PROVE  IsFiniteSet(Ones(S, f)) /\ Cardinality(Ones(S, f)) \in Nat
<1>1. IsFiniteSet(1 .. Most)
  BY Numbers, FS_Interval
<1>2. IsFiniteSet(S \X (1 .. Most))
  BY <1>1, FS_Product
<1>3. Ones(S, f) \in SUBSET (S \X (1 .. Most))
  BY DEF Ones
<1> QED
  BY <1>2, <1>3, FS_Subset, FS_CardinalityType

\* Workers add less than Most in all.
LEMMA TotalBounded ==
  ASSUME added \in [Workers -> 0 .. MaxAdds]
  PROVE  Total \in 0 .. Most - 1
<1>1. IsFiniteSet(1 .. MaxAdds) /\ Cardinality(1 .. MaxAdds) = MaxAdds
  <2>1. MaxAdds \in Nat
    BY ThroughputAssumption
  <2> QED
    BY <2>1, FS_Interval
<1>2. /\ IsFiniteSet(Workers \X (1 .. MaxAdds))
      /\ Cardinality(Workers \X (1 .. MaxAdds)) = Cardinality(Workers) * MaxAdds
  <2>1. IsFiniteSet(Workers)
    BY ThroughputAssumption
  <2> QED
    BY <1>1, <2>1, FS_Product
<1>3. Ones(Workers, added) \in SUBSET (Workers \X (1 .. MaxAdds))
  <2> SUFFICES ASSUME NEW p \in Ones(Workers, added)
               PROVE  p \in Workers \X (1 .. MaxAdds)
    OBVIOUS
  <2>1. p \in Workers \X (1 .. Most) /\ p[2] =< added[p[1]]
    BY DEF Ones
  <2>2. p[1] \in Workers /\ p[2] \in 1 .. Most /\ p = <<p[1], p[2]>>
    BY <2>1
  <2>3. added[p[1]] \in 0 .. MaxAdds
    BY <2>2
  <2>4. p[2] \in 1 .. MaxAdds
    BY <2>1, <2>2, <2>3, Numbers
  <2> QED
    BY <2>2, <2>4
<1>4. Cardinality(Ones(Workers, added)) =< Cardinality(Workers) * MaxAdds
  BY <1>2, <1>3, FS_Subset
<1>5. Total \in Nat /\ Total =< Most - 1
  BY <1>4, Numbers, OnesFinite DEF Total, Most
<1> QED
  BY <1>5, Numbers

\* One more increment is one more pair.
LEMMA OneMore ==
  ASSUME NEW S, IsFiniteSet(S), NEW f, NEW g, NEW x \in S,
         \A y \in S : f[y] \in 0 .. Most, f[x] < Most,
         \A y \in S : g[y] = IF y = x THEN f[x] + 1 ELSE f[y]
  PROVE  Cardinality(Ones(S, g)) = Cardinality(Ones(S, f)) + 1
<1>1. f[x] \in 0 .. Most /\ f[x] + 1 \in 1 .. Most
  BY Numbers
<1>2. <<x, f[x] + 1>> \notin Ones(S, f)
  BY <1>1 DEF Ones
<1>3. ASSUME NEW p \in S \X (1 .. Most)
      PROVE  p \in Ones(S, g) <=> p \in Ones(S, f) \/ p = <<x, f[x] + 1>>
  <2>1. p[1] \in S /\ p[2] \in 1 .. Most /\ p = <<p[1], p[2]>>
    OBVIOUS
  <2>2. p[2] =< g[p[1]] <=> p[2] =< f[p[1]] \/ (p[1] = x /\ p[2] = f[x] + 1)
    <3>1. f[p[1]] \in 0 .. Most
      BY <2>1
    <3> QED
      BY <1>1, <2>1, <3>1, Numbers
  <2> QED
    BY <2>1, <2>2 DEF Ones
<1>4. Ones(S, g) = Ones(S, f) \cup {<<x, f[x] + 1>>}
  BY <1>1, <1>3 DEF Ones
<1> QED
  BY <1>2, <1>4, OnesFinite, FS_AddElement

\* The pairs of one and a number up to m are m.
LEMMA PairsOfOne ==
  ASSUME NEW x, NEW m \in Nat
  PROVE  Cardinality({x} \X (1 .. m)) = m
<1>1. IsFiniteSet(1 .. m) /\ Cardinality(1 .. m) = m
  BY FS_Interval
<1>2. IsFiniteSet({x}) /\ Cardinality({x}) = 1
  BY FS_Singleton
<1>3. Cardinality({x} \X (1 .. m)) = 1 * m
  BY <1>1, <1>2, FS_Product
<1> QED
  BY <1>3

\* Setting a count to 0 takes as many pairs away as it was.
LEMMA Taken ==
  ASSUME NEW S, IsFiniteSet(S), NEW f, NEW g, NEW x \in S,
         \A y \in S : f[y] \in 0 .. Most,
         \A y \in S : g[y] = IF y = x THEN 0 ELSE f[y]
  PROVE  /\ Cardinality(Ones(S, g)) = Cardinality(Ones(S, f)) - f[x]
         /\ f[x] =< Cardinality(Ones(S, f))
<1> DEFINE taken == {x} \X (1 .. f[x])
<1>1. f[x] \in 0 .. Most /\ f[x] \in Nat /\ 1 .. f[x] \subseteq 1 .. Most
  BY Numbers
<1>2. Cardinality(taken) = f[x]
  BY <1>1, PairsOfOne
<1>3. ASSUME NEW p \in S \X (1 .. Most)
      PROVE  p \in Ones(S, g) <=> p \in Ones(S, f) /\ p \notin taken
  <2>1. p[1] \in S /\ p[2] \in 1 .. Most /\ p = <<p[1], p[2]>>
    OBVIOUS
  <2>2. p \in taken <=> p[1] = x /\ p[2] =< f[x]
    BY <1>1, <2>1, Numbers
  <2>3. p[2] =< g[p[1]] <=> p[2] =< f[p[1]] /\ p[1] # x
    BY <2>1, Numbers
  <2> QED
    BY <2>2, <2>3 DEF Ones
<1>4. Ones(S, g) = Ones(S, f) \ taken
  BY <1>3 DEF Ones
<1>5. taken \subseteq Ones(S, f)
  <2> SUFFICES ASSUME NEW p \in taken PROVE p \in Ones(S, f)
    OBVIOUS
  <2>1. p[1] = x /\ p[2] \in 1 .. f[x] /\ p = <<p[1], p[2]>>
    OBVIOUS
  <2>2. p \in S \X (1 .. Most)
    BY <1>1, <2>1
  <2> QED
    BY <1>1, <2>1, <2>2 DEF Ones
<1>6. Ones(S, f) \cap taken = taken
  BY <1>5
<1>7. Cardinality(Ones(S, g)) = Cardinality(Ones(S, f)) - Cardinality(taken)
  <2>1. IsFiniteSet(Ones(S, f))
    BY OnesFinite
  <2> HIDE DEF taken
  <2>2. Cardinality(Ones(S, f) \ taken)
          = Cardinality(Ones(S, f)) - Cardinality(Ones(S, f) \cap taken)
    BY <2>1, FS_Difference
  <2> QED
    BY <1>4, <1>6, <2>2, Zenon
<1>8. Cardinality(taken) =< Cardinality(Ones(S, f))
  <2>1. IsFiniteSet(Ones(S, f))
    BY OnesFinite
  <2> HIDE DEF taken
  <2> QED
    BY <1>5, <2>1, FS_Subset
<1> QED
  BY <1>2, <1>7, <1>8

\* A step that changes no clean counter and cleans only zeros adds nothing.
LEMMA SameUncounted ==
  ASSUME \A x \in Counters : Cleaned(x) => Cleaned(x)' /\ c'[x] = c[x],
         \A x \in Counters : ~Cleaned(x) /\ Cleaned(x)' => c'[x] = 0
  PROVE  Uncounted' = Uncounted
<1> DEFINE S == {x \in Counters : Cleaned(x)}
           T == {x \in Counters : Cleaned(x)'}
<1>1. ASSUME NEW p \in Ones(S, c) PROVE p \in Ones(T, c')
  <2>1. p \in S \X (1 .. Most) /\ p[2] =< c[p[1]]
    BY <1>1 DEF Ones
  <2>2. p[1] \in S /\ p[2] \in 1 .. Most /\ p = <<p[1], p[2]>>
    BY <2>1
  <2>3. p[1] \in T /\ c'[p[1]] = c[p[1]]
    BY <2>2
  <2>4. p \in T \X (1 .. Most) /\ p[2] =< c'[p[1]]
    BY <2>1, <2>2, <2>3
  <2> QED
    BY <2>4 DEF Ones
<1>2. ASSUME NEW p \in Ones(T, c') PROVE p \in Ones(S, c)
  <2>1. p \in T \X (1 .. Most) /\ p[2] =< c'[p[1]]
    BY <1>2 DEF Ones
  <2>2. p[1] \in T /\ p[2] \in 1 .. Most /\ p = <<p[1], p[2]>>
    BY <2>1
  <2>3. c'[p[1]] # 0
    BY <2>1, <2>2, Numbers
  <2>4. p[1] \in S /\ c'[p[1]] = c[p[1]]
    BY <2>2, <2>3
  <2>5. p \in S \X (1 .. Most) /\ p[2] =< c[p[1]]
    BY <2>1, <2>2, <2>4
  <2> QED
    BY <2>5 DEF Ones
<1>3. Ones(T, c') = Ones(S, c)
  BY <1>1, <1>2
<1> QED
  BY <1>3 DEF Uncounted, Ones

\* What the counters hold, and what was printed, is less than Most.
LEMMA Sums ==
  ASSUME Consistent, Running
  PROVE  /\ Total \in Nat /\ Total < Most /\ Most \in Nat
         /\ Uncounted \in Nat /\ sum \in Nat /\ printed \in Nat
         /\ Total = Uncounted + printed + (IF mpc = "sleep" THEN 0 ELSE sum)
                                        - (IF mpc = "reset" THEN c[mi] ELSE 0)
         /\ Uncounted + printed =< Total
         /\ mpc \notin {"sleep", "reset"} => Uncounted + printed + sum = Total
         /\ \A x \in Counters : c[x] \in Nat /\ (Cleaned(x) => c[x] =< Uncounted)
<1> DEFINE S == {x \in Counters : Cleaned(x)}
<1>1. TypeOK /\ InOrder /\ WordsHeld /\ Conserved /\ ~fault
  BY DEF Consistent, Running
<1>2. Total \in 0 .. Most - 1 /\ Most \in Nat \ {0}
  BY <1>1, TotalBounded, Numbers DEF TypeOK
<1>3. sum \in Nat /\ printed \in Nat
  BY <1>1, Numbers DEF TypeOK
<1>4. IsFiniteSet(S)
  BY Numbers, FS_Subset
<1>5. Uncounted \in Nat
  BY <1>4, OnesFinite DEF Uncounted
<1>6. \A x \in Counters : c[x] \in 0 .. Most /\ c[x] \in Nat
  BY <1>1, Numbers DEF TypeOK
<1>7. ASSUME NEW x \in Counters, Cleaned(x) PROVE c[x] =< Uncounted
  <2> DEFINE g == [y \in S |-> IF y = x THEN 0 ELSE c[y]]
  <2>1. x \in S /\ \A y \in S : c[y] \in 0 .. Most
    BY <1>6, <1>7
  <2>2. \A y \in S : g[y] = IF y = x THEN 0 ELSE c[y]
    OBVIOUS
  <2>3. c[x] =< Cardinality(Ones(S, c))
    <3> HIDE DEF S, g
    <3> QED
      BY <1>4, <2>1, <2>2, Taken
  <2> QED
    BY <2>3 DEF Uncounted
<1>8. mpc = "reset" => mi \in Counters /\ c[mi] \in Nat /\ c[mi] =< sum
  <2>1. mpc = "reset" => mi < ncount /\ ncount \in 0 .. ncounters /\ mi \in 0 .. ncounters
    BY <1>1 DEF InOrder, TypeOK
  <2>2. mpc = "reset" => mi \in Counters
    BY <2>1, Numbers DEF Counters
  <2> QED
    BY <1>1, <1>6, <2>2 DEF WordsHeld
<1>9. Total = Uncounted + printed + (IF mpc = "sleep" THEN 0 ELSE sum)
                                  - (IF mpc = "reset" THEN c[mi] ELSE 0)
  BY <1>1 DEF Conserved
<1>10. /\ Uncounted + printed =< Total
       /\ mpc \notin {"sleep", "reset"} => Uncounted + printed + sum = Total
  BY <1>2, <1>3, <1>5, <1>8, <1>9
<1> QED
  BY <1>2, <1>3, <1>5, <1>6, <1>7, <1>9, <1>10

(* The steps of main() *)

\* What holds while the program runs, in words for the provers.
LEMMA Running1 ==
  ASSUME Consistent, Running
  PROVE  /\ TypeOK /\ Conserved /\ UndefinedOnlyEarly /\ InOrder /\ WordsHeld
         /\ ~fault /\ main # "exit"
         /\ ncounters \in Nat /\ k \in Nat /\ mi \in Nat
         /\ k =< ncounters /\ mi =< ncounters
         /\ \A x \in Counters : x \in Nat /\ x < ncounters
         /\ \A x \in Nat : x < ncounters => x \in Counters
         /\ main \in {"launch", "join"} => \A x \in Counters : stage[x] = "ready"
         /\ \A w \in Workers : at[w] \notin {"new", "skipped"} =>
              (Mine(w) \in Counters => stage[Mine(w)] = "ready")
         /\ mpc \in {"take", "add", "reset", "unlock"} =>
              mi \in Counters /\ mi < ncounters /\ Cleaned(mi)
<1>1. TypeOK /\ Conserved /\ UndefinedOnlyEarly /\ InOrder /\ WordsHeld
  BY DEF Consistent
<1>2. /\ ncounters \in Nat /\ k \in Nat /\ mi \in Nat
      /\ k =< ncounters /\ mi =< ncounters
  BY <1>1, Numbers DEF TypeOK
<1>3. /\ \A x \in Counters : x \in Nat /\ x < ncounters
      /\ \A x \in Nat : x < ncounters => x \in Counters
  BY <1>2 DEF Counters
<1>4. main \in {"launch", "join"} => \A x \in Counters : stage[x] = "ready"
  BY <1>1, <1>3 DEF InOrder
<1>5. \A w \in Workers : at[w] \notin {"new", "skipped"} =>
        (Mine(w) \in Counters => stage[Mine(w)] = "ready")
  BY <1>1, <1>4 DEF InOrder
<1>6. mpc \in {"take", "add", "reset", "unlock"} =>
        mi \in Counters /\ mi < ncounters /\ Cleaned(mi)
  BY <1>1, <1>2, <1>3 DEF InOrder
<1> QED
  BY <1>1, <1>2, <1>3, <1>4, <1>5, <1>6 DEF Running

\* Before the launch no worker does anything, and main() alone uses the words.
LEMMA MainKeeps ==
  ASSUME Consistent, Running, MainStep \/ MissLine \/ GiveUp
  PROVE  Consistent'
<1>0. /\ TypeOK /\ Conserved /\ UndefinedOnlyEarly /\ InOrder /\ WordsHeld
      /\ ~fault /\ main # "exit"
      /\ ncounters \in Nat /\ k \in Nat /\ mi \in Nat
      /\ k =< ncounters /\ mi =< ncounters
      /\ \A x \in Counters : x \in Nat /\ x < ncounters
      /\ \A x \in Nat : x < ncounters => x \in Counters
      /\ mpc \in {"take", "add", "reset", "unlock"} =>
           mi \in Counters /\ mi < ncounters /\ Cleaned(mi)
  BY Running1
<1>1. UNCHANGED <<prog, build, slow, mpc, mi, sum, printed, word, tmp, added>>
  BY DEF MainStep, MissLine, GiveUp, ReadNCounters, Alloc, ZeroCounter, LockInit,
         StartLaunch, Launch, Join, conf, workers, measurer
<1>2. UndefinedOnlyEarly'
  <2>1. CASE \E w \in Workers : Launch(w)
    <3>1. PICK w \in Workers, value \in Table \cup {-1, MAXCOUNTERS} :
            /\ counterOf' = [counterOf EXCEPT ![w] = value]
            /\ at' = [at EXCEPT ![w] = IF Skips(value) THEN "skipped" ELSE "loop"]
            /\ fault' = (~Skips(value) /\ value \notin Table)
      BY <2>1 DEF Launch
    <3>2. fault' => at'[w] = "loop" /\ Mine(w)' \notin Counters
      BY <1>0, <3>1, Numbers DEF TypeOK, Mine
    <3> QED
      BY <3>2 DEF UndefinedOnlyEarly
  <2>2. CASE MissLine
    BY <2>2 DEF MissLine, UndefinedOnlyEarly
  <2>3. CASE fault' = fault
    BY <1>0, <2>3 DEF UndefinedOnlyEarly
  <2> QED
    BY <2>1, <2>2, <2>3
    DEF MainStep, GiveUp, ReadNCounters, Alloc, ZeroCounter, LockInit, StartLaunch,
        Join
<1>3. Total' = Total
  BY <1>1 DEF Total, Ones
<1>4. ASSUME Uncounted' = Uncounted, mpc = "reset" => c'[mi] = c[mi]
      PROVE  Conserved'
  BY <1>0, <1>1, <1>3, <1>4 DEF Conserved
<1>5. ASSUME UNCHANGED <<stage, c>>
      PROVE  Conserved'
  <2>1. Uncounted' = Uncounted
    BY <1>5 DEF Uncounted, Ones, Cleaned
  <2> QED
    BY <1>4, <1>5, <2>1
<1>6. CASE ReadNCounters
  <2>1. UNCHANGED <<missed, fault, k, stage, c, counterOf, at>>
        /\ main = "ncounters"
        /\ main' = "alloc" /\ ncount' = ncounters
    BY <1>6 DEF ReadNCounters, GoMain, workers, measurer, conf
  <2>2. TypeOK'
    BY <1>0, <1>1, <2>1 DEF TypeOK
  <2>3. InOrder'
    BY <1>0, <1>1, <2>1 DEF InOrder, Cleaned, Mine
  <2>4. WordsHeld'
    BY <1>0, <1>1, <2>1 DEF WordsHeld, Mine
  <2> QED
    BY <1>2, <1>5, <2>1, <2>2, <2>3, <2>4 DEF Consistent
<1>7. CASE StartLaunch
  <2>1. UNCHANGED <<missed, fault, k, stage, c, counterOf, at, ncount>> /\ main = "alloc"
        /\ main' = "launch" /\ k = ncount /\ ncount = ncounters
    BY <1>0, <1>7 DEF StartLaunch, AllReady, GoMain, workers, measurer, conf, InOrder
  <2>2. TypeOK'
    BY <1>0, <1>1, <2>1 DEF TypeOK
  <2>3. InOrder'
    BY <1>0, <1>1, <2>1 DEF InOrder, Cleaned, Mine
  <2>4. WordsHeld'
    BY <1>0, <1>1, <2>1 DEF WordsHeld, Mine
  <2> QED
    BY <1>2, <1>5, <2>1, <2>2, <2>3, <2>4 DEF Consistent
<1>8. CASE Join
  <2>1. UNCHANGED <<missed, fault, k, stage, c, counterOf, at, ncount>> /\ main = "launch"
        /\ main' \in {"join", "exit"}
    BY <1>0, <1>8 DEF Join, GoMain, workers, measurer, conf
  <2>2. TypeOK'
    BY <1>0, <1>1, <2>1 DEF TypeOK
  <2>3. main' = "join" => InOrder'
    BY <1>0, <1>1, <2>1 DEF InOrder, Cleaned, Mine
  <2>4. WordsHeld'
    BY <1>0, <1>1, <2>1 DEF WordsHeld, Mine
  <2> QED
    BY <1>2, <1>5, <2>1, <2>2, <2>3, <2>4 DEF Consistent, Running
<1>9. CASE GiveUp
  <2>1. UNCHANGED <<missed, fault, k, stage, c, counterOf, at, ncount>> /\ main' = "exit"
    BY <1>0, <1>9 DEF GiveUp, workers, measurer, conf
  <2>2. TypeOK'
    BY <1>0, <1>1, <2>1 DEF TypeOK
  <2> QED
    BY <1>2, <1>5, <2>1, <2>2 DEF Consistent, Running
<1>10. CASE Alloc
  <2>1. /\ UNCHANGED <<missed, fault, k, counterOf, at, ncount>> /\ main = "alloc"
        /\ main' = "zero" /\ k < ncount /\ ncount = ncounters /\ k \in Counters
        /\ stage' = [stage EXCEPT ![k] = "raw"]
        /\ \E garbage \in 0 .. 1 : c' = [c EXCEPT ![k] = garbage]
    BY <1>0, <1>10 DEF Alloc, GoMain, workers, measurer, conf, InOrder
  <2>2. /\ ~Cleaned(k) /\ stage'[k] = "raw" /\ c'[k] \in 0 .. 1
        /\ \A x \in Counters : x # k => c'[x] = c[x] /\ stage'[x] = stage[x]
    BY <1>0, <2>1 DEF TypeOK, InOrder, Cleaned
  <2>3. Uncounted' = Uncounted
    BY <2>2, SameUncounted DEF Cleaned
  <2>4. mpc \in {"take", "add", "reset", "unlock"} => c'[mi] = c[mi] /\ Cleaned(mi)'
    BY <1>0, <1>1, <2>2 DEF Cleaned
  <2>5. TypeOK'
    <3>1. 0 .. 1 \subseteq 0 .. Most
      BY Numbers
    <3> QED
      BY <1>0, <1>1, <2>1, <3>1 DEF TypeOK
  <2>6. InOrder'
    BY <1>0, <1>1, <2>1, <2>2, <2>4 DEF InOrder, Mine
  <2>7. WordsHeld'
    BY <1>0, <1>1, <2>1, <2>4 DEF WordsHeld, InOrder, Mine, TypeOK
  <2> QED
    BY <1>2, <1>4, <2>3, <2>4, <2>5, <2>6, <2>7 DEF Consistent
<1>11. CASE ZeroCounter
  <2>1. /\ UNCHANGED <<missed, fault, k, counterOf, at, ncount>> /\ main = "zero"
        /\ main' = "lockinit" /\ k < ncounters /\ k \in Counters
        /\ stage' = [stage EXCEPT ![k] = "zeroed"]
        /\ c' = [c EXCEPT ![k] = 0]
    BY <1>0, <1>11 DEF ZeroCounter, Zero, GoMain, workers, measurer, conf, InOrder
  <2>2. /\ ~Cleaned(k) /\ stage'[k] = "zeroed" /\ c'[k] = 0
        /\ \A x \in Counters : x # k => c'[x] = c[x] /\ stage'[x] = stage[x]
    BY <1>0, <2>1 DEF TypeOK, InOrder, Cleaned
  <2>3. Uncounted' = Uncounted
    BY <2>2, SameUncounted DEF Cleaned
  <2>4. mpc \in {"take", "add", "reset", "unlock"} => c'[mi] = c[mi] /\ Cleaned(mi)'
    BY <1>0, <1>1, <2>2 DEF Cleaned
  <2>5. TypeOK'
    <3>1. 0 \in 0 .. Most
      BY Numbers
    <3> QED
      BY <1>0, <1>1, <2>1, <3>1 DEF TypeOK
  <2>6. InOrder'
    BY <1>0, <1>1, <2>1, <2>2, <2>4 DEF InOrder, Mine
  <2>7. WordsHeld'
    BY <1>0, <1>1, <2>1, <2>4 DEF WordsHeld, InOrder, Mine, TypeOK
  <2> QED
    BY <1>2, <1>4, <2>3, <2>4, <2>5, <2>6, <2>7 DEF Consistent
<1>12. CASE LockInit
  <2>1. /\ UNCHANGED <<missed, fault, c, counterOf, at, ncount>> /\ main = "lockinit"
        /\ main' = "alloc" /\ k < ncounters /\ k \in Counters /\ k' = k + 1
        /\ stage' = [stage EXCEPT ![k] = "ready"]
    BY <1>0, <1>12 DEF LockInit, Initialised, GoMain, workers, measurer, conf, InOrder
  <2>2. /\ Cleaned(k) /\ stage'[k] = "ready"
        /\ \A x \in Counters : x # k => stage'[x] = stage[x]
    BY <1>0, <2>1 DEF TypeOK, InOrder, Cleaned
  <2>3. Uncounted' = Uncounted
    BY <2>1, <2>2, SameUncounted DEF Cleaned
  <2>4. mpc \in {"take", "add", "reset", "unlock"} => c'[mi] = c[mi] /\ Cleaned(mi)'
    BY <1>0, <1>1, <2>1, <2>2 DEF Cleaned
  <2>5. TypeOK'
    <3>1. k + 1 \in 0 .. ncounters
      BY <1>0, <2>1
    <3> QED
      BY <1>0, <1>1, <2>1, <3>1 DEF TypeOK
  <2>6. InOrder'
    BY <1>0, <1>1, <2>1, <2>2, <2>4 DEF InOrder, Mine
  <2>7. WordsHeld'
    BY <1>0, <1>1, <2>1, <2>4 DEF WordsHeld, Mine
  <2> QED
    BY <1>2, <1>4, <2>3, <2>4, <2>5, <2>6, <2>7 DEF Consistent
<1>13. ASSUME NEW w \in Workers, Launch(w)
       PROVE  Consistent'
  <2>1. PICK value \in Table \cup {-1, MAXCOUNTERS} :
             /\ counterOf' = [counterOf EXCEPT ![w] = value]
             /\ at' = [at EXCEPT ![w] = IF Skips(value) THEN "skipped" ELSE "loop"]
             /\ fault' = (~Skips(value) /\ value \notin Table)
    BY <1>13 DEF Launch
  <2>2. /\ UNCHANGED <<missed, main, k, ncount, stage, c>>
        /\ at[w] = "new" /\ main = "launch"
    BY <1>13 DEF Launch, conf
  <2>3. /\ at'[w] \in {"skipped", "loop"} /\ Mine(w)' = value
        /\ \A v \in Workers : v # w => at'[v] = at[v] /\ Mine(v)' = Mine(v)
    BY <1>0, <2>1 DEF Mine, TypeOK
  <2>4. TypeOK'
    <3>1. fault' \in BOOLEAN
      BY <2>1
    <3>2. counterOf' \in [Workers -> Table \cup {-1, MAXCOUNTERS}]
      BY <1>0, <2>1 DEF TypeOK
    <3> QED
      BY <1>0, <1>1, <2>1, <2>2, <3>1, <3>2 DEF TypeOK
  <2>5. ~fault' => InOrder'
    <3>1. ASSUME ~fault', NEW v \in Workers, at'[v] \notin {"new", "skipped"}
          PROVE  Mine(v)' \in Table
      <4>1. CASE v = w
        BY <1>0, <2>1, <2>3, <3>1, <4>1 DEF TypeOK
      <4>2. CASE v # w
        BY <1>0, <2>3, <3>1, <4>2 DEF InOrder
      <4> QED
        BY <4>1, <4>2
    <3>2. ASSUME NEW v \in Workers, at'[v] \in {"load", "store", "unlock"}
          PROVE  Mine(v)' \in Counters
      BY <1>0, <2>3, <3>2 DEF InOrder
    <3> QED
      BY <1>0, <1>1, <2>2, <3>1, <3>2 DEF InOrder, Cleaned
  <2>6. WordsHeld'
    BY <1>0, <1>1, <2>2, <2>3 DEF WordsHeld
  <2> QED
    BY <1>2, <1>5, <2>2, <2>4, <2>5, <2>6 DEF Consistent, Running
<1>14. CASE MissLine
  <2>1. /\ UNCHANGED <<k, stage, c, counterOf, at, ncount>> /\ missed' = TRUE
        /\ prog \in {"counters", "locks-v2"}
        /\ \/ prog = "counters" /\ main' = "exit" /\ fault' = FALSE
           \/ prog = "locks-v2" /\ main' = main /\ fault' = TRUE
    BY <1>0, <1>14 DEF MissLine, workers, measurer, TypeOK
  <2>2. TypeOK'
    BY <1>0, <1>1, <2>1 DEF TypeOK
  <2> QED
    BY <1>2, <1>5, <2>1, <2>2 DEF Consistent, Running
<1> QED
  BY <1>6, <1>7, <1>8, <1>9, <1>10, <1>11, <1>12, <1>13, <1>14 DEF MainStep

(* The workers *)

\* What a worker does is inside its lock, or atomic; whoever holds the word of
\* its counter is this worker, so that nobody else has loaded from it.
LEMMA WorkKeeps ==
  ASSUME Consistent, Running, NEW w \in Workers, Work(w), ~UseNull(w)
  PROVE  Consistent'
<1>0. /\ TypeOK /\ Conserved /\ UndefinedOnlyEarly /\ InOrder /\ WordsHeld
      /\ ~fault /\ main # "exit" /\ ncounters \in Nat
      /\ \A v \in Workers : at[v] \notin {"new", "skipped"} =>
           (Mine(v) \in Counters => stage[Mine(v)] = "ready")
      /\ mpc \in {"take", "add", "reset", "unlock"} =>
           mi \in Counters /\ mi < ncounters /\ Cleaned(mi)
  BY Running1
<1>1. /\ UNCHANGED <<prog, build, slow, missed, main, k, ncount, stage, counterOf, mpc, mi,
                     sum, printed>>
      /\ at[w] \notin {"new", "skipped"}
      /\ Mine(w) \in Counters /\ stage[Mine(w)] = "ready" /\ Cleaned(Mine(w))
  <2>1. /\ UNCHANGED <<prog, build, slow, missed, main, k, ncount, stage, counterOf, mpc, mi,
                       sum, printed>>
        /\ at[w] \notin {"new", "skipped"}
        /\ at[w] \in {"load", "store", "unlock"} \/ Mine(w) \in Counters
    BY DEF Work, AtomicAdd, Lock, Load, Store, Unlock, Go, conf, measurer
  <2> QED
    BY <1>0, <2>1 DEF Cleaned, InOrder
<1>2. fault' = FALSE
  <2>1. fault = FALSE
    BY <1>0 DEF TypeOK
  <2> QED
    BY <1>0, <1>1, <2>1 DEF Work, AtomicAdd, Lock, Load, Store, Unlock
<1>3. \A v \in Workers : Mine(v)' = Mine(v)
  BY <1>1 DEF Mine
<1>4. InOrder'
  <2>1. \A v \in Workers :
          /\ at'[v] \notin {"new", "skipped"} => at[v] \notin {"new", "skipped"}
          /\ at'[v] \in {"load", "store", "unlock"} =>
               v = w \/ at[v] \in {"load", "store", "unlock"}
    BY <1>0, <1>1 DEF Work, AtomicAdd, Lock, Load, Store, Unlock, Go, TypeOK
  <2> QED
    BY <1>0, <1>1, <1>3, <2>1 DEF InOrder, Cleaned
<1>5. ASSUME UNCHANGED <<c, added>>
      PROVE  Conserved'
  <2>1. Uncounted' = Uncounted /\ Total' = Total
    BY <1>1, <1>5 DEF Uncounted, Total, Ones, Cleaned
  <2> QED
    BY <1>0, <1>1, <1>5, <2>1 DEF Conserved
<1>6. ASSUME added[w] < MaxAdds, mpc = "reset" => mi # Mine(w),
             added' = [added EXCEPT ![w] = @ + 1],
             c' = [c EXCEPT ![Mine(w)] = c[Mine(w)] + 1]
      PROVE  /\ Conserved' /\ added' \in [Workers -> 0 .. MaxAdds]
             /\ c' \in [Counters -> 0 .. Most]
  <2> DEFINE x == Mine(w)
             S == {y \in Counters : Cleaned(y)}
  <2>1. /\ Total < Most /\ Uncounted + printed =< Total /\ c[x] =< Uncounted
        /\ c[x] \in Nat /\ Uncounted \in Nat /\ printed \in Nat /\ Total \in Nat
        /\ Most \in Nat /\ sum \in Nat
        /\ Total = Uncounted + printed + (IF mpc = "sleep" THEN 0 ELSE sum)
                                       - (IF mpc = "reset" THEN c[mi] ELSE 0)
        /\ \A y \in Counters : c[y] \in Nat
    BY <1>1, Sums
  <2>2. /\ added[w] \in 0 .. MaxAdds /\ MaxAdds \in Nat /\ MaxAdds < Most
        /\ added[w] + 1 \in 0 .. MaxAdds
    BY <1>0, <1>6, Numbers DEF TypeOK
  <2>3. added' \in [Workers -> 0 .. MaxAdds]
    BY <1>0, <1>6, <2>2 DEF TypeOK
  <2>4. c[x] < Most /\ c[x] + 1 \in 0 .. Most
    BY <2>1
  <2>5. c' \in [Counters -> 0 .. Most]
    BY <1>0, <1>6, <2>4 DEF TypeOK
  <2>6. Uncounted' = Uncounted + 1
    <3>1. x \in S /\ IsFiniteSet(S)
      BY <1>1, Numbers, FS_Subset
    <3>2. /\ \A y \in S : c[y] \in 0 .. Most
          /\ \A y \in S : c'[y] = IF y = x THEN c[x] + 1 ELSE c[y]
      BY <1>0, <1>6 DEF TypeOK
    <3>3. Cardinality(Ones(S, c')) = Cardinality(Ones(S, c)) + 1
      <4> HIDE DEF S, x
      <4> QED
        BY <2>4, <3>1, <3>2, OneMore
    <3>4. {y \in Counters : Cleaned(y)'} = S
      BY <1>1 DEF Cleaned
    <3> QED
      BY <3>3, <3>4 DEF Uncounted, Ones
  <2>7. Total' = Total + 1
    <3>1. /\ \A v \in Workers : added[v] \in 0 .. Most
          /\ \A v \in Workers : added'[v] = IF v = w THEN added[w] + 1 ELSE added[v]
      <4>1. \A v \in Workers : added[v] \in 0 .. MaxAdds
        BY <1>0 DEF TypeOK
      <4> QED
        BY <1>0, <1>6, <2>1, <2>2, <4>1 DEF TypeOK
    <3>2. Cardinality(Ones(Workers, added')) = Cardinality(Ones(Workers, added)) + 1
      <4>1. added[w] < Most /\ IsFiniteSet(Workers)
        BY <2>1, <2>2, Numbers
      <4> QED
        BY <3>1, <4>1, OneMore
    <3> QED
      BY <3>2 DEF Total, Ones
  <2>8. mpc = "reset" => c'[mi] = c[mi]
    BY <1>0, <1>6 DEF TypeOK
  <2>9. Conserved'
    <3>1. mpc = "reset" => c[mi] \in Nat
      BY <1>0, <2>1
    <3> QED
      BY <1>1, <2>1, <2>6, <2>7, <2>8, <3>1 DEF Conserved
  <2> QED
    BY <2>3, <2>5, <2>9
<1>7. UndefinedOnlyEarly'
  BY <1>2 DEF UndefinedOnlyEarly
<1>8. CASE AtomicAdd(w)
  <2>1. /\ build = "SYNC" /\ added[w] < MaxAdds /\ UNCHANGED <<word, at, tmp>>
        /\ added' = [added EXCEPT ![w] = @ + 1] /\ at[w] = "loop"
        /\ c' = [c EXCEPT ![Mine(w)] = c[Mine(w)] + 1]
    BY <1>8 DEF AtomicAdd
  <2>2. mpc # "reset" /\ \A v \in Workers : at[v] \notin {"load", "store", "unlock"}
    BY <1>0, <2>1 DEF WordsHeld
  <2>3. TypeOK' /\ Conserved'
    <3>1. Conserved'
      BY <1>6, <2>1, <2>2
    <3>2. TypeOK'
      BY <1>0, <1>1, <1>2, <1>6, <2>1, <2>2 DEF TypeOK
    <3> QED
      BY <3>1, <3>2
  <2>4. WordsHeld'
    BY <1>0, <1>1, <1>3, <2>1, <2>2 DEF WordsHeld
  <2> QED
    BY <1>4, <1>7, <2>3, <2>4 DEF Consistent
<1>9. CASE Lock(w)
  <2>1. /\ build = "LOCK" /\ added[w] < MaxAdds /\ UNCHANGED <<c, tmp, added>>
        /\ at[w] = "loop" /\ at' = [at EXCEPT ![w] = "load"]
        /\ word[Mine(w)] = Nobody /\ word' = [word EXCEPT ![Mine(w)] = w]
    BY <1>9 DEF Lock, Go, Free
  <2>2. TypeOK' /\ Conserved'
    <3>1. Conserved'
      BY <1>5, <2>1
    <3>2. TypeOK'
      BY <1>0, <1>1, <1>2, <2>1 DEF TypeOK
    <3> QED
      BY <3>1, <3>2
  <2>3. WordsHeld'
    <3>1. word'[Mine(w)] = w /\ \A x \in Counters : x # Mine(w) => word'[x] = word[x]
      BY <1>0, <1>1, <2>1 DEF TypeOK
    <3>2. mpc \in {"add", "reset", "unlock"} => mi # Mine(w) /\ word'[mi] = Measurer
      BY <1>0, <2>1, <3>1, ThroughputAssumption DEF WordsHeld
    <3>3. ASSUME NEW v \in Workers, v # w, at[v] \in {"load", "store", "unlock"}
          PROVE  word'[Mine(v)] = v
      BY <1>0, <2>1, <3>1, <3>3, ThroughputAssumption DEF WordsHeld
    <3>4. at'[w] = "load" /\ \A v \in Workers : v # w => at'[v] = at[v]
      BY <1>0, <2>1 DEF TypeOK
    <3> QED
      BY <1>0, <1>1, <1>3, <2>1, <3>1, <3>2, <3>3, <3>4 DEF WordsHeld
  <2> QED
    BY <1>4, <1>7, <2>2, <2>3 DEF Consistent
<1>10. CASE Load(w)
  <2>1. /\ UNCHANGED <<c, word, added>>
        /\ at[w] = "load" /\ at' = [at EXCEPT ![w] = "store"]
        /\ tmp' = [tmp EXCEPT ![w] = c[Mine(w)]]
    BY <1>10 DEF Load, Go
  <2>2. TypeOK' /\ Conserved'
    <3>1. Conserved'
      BY <1>5, <2>1
    <3>2. TypeOK'
      BY <1>0, <1>1, <1>2, <2>1 DEF TypeOK
    <3> QED
      BY <3>1, <3>2
  <2>3. WordsHeld'
    <3>1. /\ at'[w] = "store" /\ tmp'[w] = c[Mine(w)]
          /\ \A v \in Workers : v # w => at'[v] = at[v] /\ tmp'[v] = tmp[v]
      BY <1>0, <2>1 DEF TypeOK
    <3> QED
      BY <1>0, <1>1, <1>3, <2>1, <3>1 DEF WordsHeld
  <2> QED
    BY <1>4, <1>7, <2>2, <2>3 DEF Consistent
<1>11. CASE Store(w)
  <2>1. /\ UNCHANGED <<word, tmp>>
        /\ at[w] = "store" /\ at' = [at EXCEPT ![w] = "unlock"]
        /\ added' = [added EXCEPT ![w] = @ + 1]
        /\ c' = [c EXCEPT ![Mine(w)] = tmp[w] + 1]
    BY <1>11 DEF Store, Go
  <2>2. added[w] < MaxAdds /\ tmp[w] = c[Mine(w)] /\ word[Mine(w)] = w
    BY <1>0, <2>1 DEF WordsHeld
  <2>3. mpc \in {"add", "reset", "unlock"} => mi # Mine(w)
    BY <1>0, <2>2, ThroughputAssumption DEF WordsHeld
  <2>4. TypeOK' /\ Conserved'
    <3>1. Conserved'
      BY <1>6, <2>1, <2>2, <2>3
    <3>2. TypeOK'
      BY <1>0, <1>1, <1>2, <1>6, <2>1, <2>2, <2>3 DEF TypeOK
    <3> QED
      BY <3>1, <3>2
  <2>5. WordsHeld'
    <3>1. /\ \A x \in Counters : x # Mine(w) => c'[x] = c[x]
          /\ at'[w] = "unlock"
          /\ \A v \in Workers : v # w => at'[v] = at[v] /\ added'[v] = added[v]
      BY <1>0, <2>1 DEF TypeOK
    <3>2. ASSUME NEW v \in Workers, v # w, at[v] = "store"
          PROVE  Mine(v) # Mine(w)
      BY <1>0, <2>2, <3>2 DEF WordsHeld
    <3>3. mpc = "reset" => c'[mi] = c[mi]
      BY <1>0, <2>3, <3>1
    <3> QED
      BY <1>0, <1>1, <1>3, <2>1, <3>1, <3>2, <3>3 DEF WordsHeld
  <2> QED
    BY <1>4, <1>7, <2>4, <2>5 DEF Consistent
<1>12. CASE Unlock(w)
  <2>1. /\ UNCHANGED <<c, tmp, added>>
        /\ at[w] = "unlock" /\ at' = [at EXCEPT ![w] = "loop"]
        /\ word' = [word EXCEPT ![Mine(w)] = Nobody]
    BY <1>12 DEF Unlock, Go
  <2>2. TypeOK' /\ Conserved'
    <3>1. Conserved'
      BY <1>5, <2>1
    <3>2. TypeOK'
      BY <1>0, <1>1, <1>2, <2>1 DEF TypeOK
    <3> QED
      BY <3>1, <3>2
  <2>3. WordsHeld'
    <3>1. \A x \in Counters : x # Mine(w) => word'[x] = word[x]
      BY <1>0, <2>1 DEF TypeOK
    <3>2. word[Mine(w)] = w
      BY <1>0, <2>1 DEF WordsHeld
    <3>3. mpc \in {"add", "reset", "unlock"} => mi # Mine(w) /\ word'[mi] = Measurer
      BY <1>0, <3>1, <3>2, ThroughputAssumption DEF WordsHeld
    <3>4. ASSUME NEW v \in Workers, v # w, at[v] \in {"load", "store", "unlock"}
          PROVE  word'[Mine(v)] = v
      <4>1. Mine(v) \in Counters
        BY <1>0, <3>4 DEF InOrder
      <4>2. word[Mine(v)] = v /\ Mine(v) # Mine(w)
        BY <1>0, <3>2, <3>4 DEF WordsHeld
      <4> QED
        BY <3>1, <4>1, <4>2
    <3>5. at'[w] = "loop" /\ \A v \in Workers : v # w => at'[v] = at[v]
      BY <1>0, <2>1 DEF TypeOK
    <3> QED
      BY <1>0, <1>1, <1>3, <2>1, <3>3, <3>4, <3>5 DEF WordsHeld
  <2> QED
    BY <1>4, <1>7, <2>2, <2>3 DEF Consistent
<1> QED
  BY <1>8, <1>9, <1>10, <1>11, <1>12 DEF Work

\* A worker whose entry is NULL ends the claim.
LEMMA UseNullKeeps ==
  ASSUME Consistent, Running, NEW w \in Workers, UseNull(w)
  PROVE  Consistent'
<1>1. /\ fault' = TRUE /\ at[w] = "loop" /\ Mine(w) \notin Counters
      /\ UNCHANGED <<conf, main, k, ncount, stage, c, word, workers, measurer>>
  BY DEF UseNull
<1>2. TypeOK'
  BY <1>1 DEF Consistent, TypeOK, conf, workers, measurer
<1>3. Mine(w)' = Mine(w) /\ at'[w] = "loop"
  BY <1>1 DEF Mine, workers
<1> QED
  BY <1>1, <1>2, <1>3 DEF Consistent, Running, Conserved, UndefinedOnlyEarly

(* The measuring thread *)

\* What it takes out of a counter is in its sum, and what was in its sum when
\* it printed is printed; undefined memory ends the claim.
LEMMA MeasureKeeps ==
  ASSUME Consistent, Running, Measure
  PROVE  Consistent'
<1>0. /\ TypeOK /\ Conserved /\ UndefinedOnlyEarly /\ InOrder /\ WordsHeld
      /\ ~fault /\ main # "exit"
      /\ ncounters \in Nat /\ mi \in Nat /\ mi =< ncounters
      /\ \A x \in Counters : x \in Nat /\ x < ncounters
      /\ \A x \in Nat : x < ncounters => x \in Counters
      /\ main \in {"launch", "join"} => \A x \in Counters : stage[x] = "ready"
      /\ mpc \in {"take", "add", "reset", "unlock"} =>
           mi \in Counters /\ mi < ncounters /\ Cleaned(mi)
  BY Running1
<1>1. /\ UNCHANGED <<prog, build, slow, missed, main, k, ncount, stage, counterOf, at, tmp,
                     added>>
      /\ Total' = Total /\ \A w \in Workers : Mine(w)' = Mine(w)
  <2>1. UNCHANGED <<prog, build, slow, missed, main, k, ncount, stage, counterOf, at, tmp,
                    added>>
    BY DEF Measure, Wake, Test, Swap, MLock, Add, Reset, MUnlock, PrintSum, conf,
           workers
  <2> QED
    BY <2>1 DEF Total, Ones, Mine
<1>2. /\ Total < Most /\ Most \in Nat /\ Uncounted \in Nat /\ sum \in Nat
      /\ printed \in Nat /\ Total \in Nat
      /\ Total = Uncounted + printed + (IF mpc = "sleep" THEN 0 ELSE sum)
                                     - (IF mpc = "reset" THEN c[mi] ELSE 0)
      /\ mpc \notin {"sleep", "reset"} => Uncounted + printed + sum = Total
      /\ \A x \in Counters : c[x] \in Nat /\ (Cleaned(x) => c[x] =< Uncounted)
  BY Sums
<1>3. ASSUME UNCHANGED c
      PROVE  Uncounted' = Uncounted
  BY <1>1, <1>3 DEF Uncounted, Ones, Cleaned
<1>4. ASSUME mi \in Counters, Cleaned(mi), c' = [c EXCEPT ![mi] = 0]
      PROVE  /\ c' \in [Counters -> 0 .. Most]
             /\ \A x \in Counters : x # mi => c'[x] = c[x]
             /\ Uncounted' = Uncounted - c[mi]
  <2> DEFINE S == {y \in Counters : Cleaned(y)}
  <2>1. 0 \in 0 .. Most
    BY <1>2
  <2>2. /\ c' \in [Counters -> 0 .. Most]
        /\ \A y \in Counters : c'[y] = IF y = mi THEN 0 ELSE c[y]
    BY <1>0, <1>4, <2>1 DEF TypeOK
  <2>3. mi \in S /\ IsFiniteSet(S)
    BY <1>4, Numbers, FS_Subset
  <2>4. /\ \A y \in S : c[y] \in 0 .. Most
        /\ \A y \in S : c'[y] = IF y = mi THEN 0 ELSE c[y]
    BY <1>0, <2>2 DEF TypeOK
  <2>5. Cardinality(Ones(S, c')) = Cardinality(Ones(S, c)) - c[mi]
    <3> HIDE DEF S
    <3> QED
      BY <2>3, <2>4, Taken
  <2>6. {y \in Counters : Cleaned(y)'} = S
    BY <1>1 DEF Cleaned
  <2> QED
    BY <2>2, <2>5, <2>6 DEF Uncounted, Ones
<1>5. CASE Wake
  <2>1. /\ mpc = "sleep" /\ mpc' = "test" /\ mi' = 0 /\ sum' = 0
        /\ slow \/ main \in {"launch", "join"}
        /\ UNCHANGED <<fault, c, word, printed>>
    BY <1>5 DEF Wake, GoMeasure, Cleared
  <2>2. TypeOK'
    <3>1. 0 \in 0 .. ncounters /\ 0 \in 0 .. Most - 1
      BY <1>0, <1>2
    <3> QED
      BY <1>0, <1>1, <2>1, <3>1 DEF TypeOK
  <2>3. Conserved' /\ UndefinedOnlyEarly'
    BY <1>0, <1>1, <1>2, <1>3, <2>1 DEF Conserved, UndefinedOnlyEarly
  <2>4. InOrder' /\ WordsHeld'
    BY <1>0, <1>1, <2>1 DEF InOrder, WordsHeld, Cleaned
  <2> QED
    BY <2>2, <2>3, <2>4 DEF Consistent
<1>6. CASE Test
  <2>1. /\ mi < ncount /\ mpc = "test" /\ mpc' \in {"take", "test"}
        /\ fault' = (stage[mi] \notin {"zeroed", "ready"})
        /\ mi' = IF c[mi] # 0 THEN mi ELSE mi + 1
        /\ mpc' = "take" => mi' = mi
        /\ UNCHANGED <<c, word, sum, printed>>
    BY <1>6 DEF Test, GoMeasure, MoreCounters
  <2>2. mi < ncounters /\ mi \in Counters
    BY <1>0, <2>1 DEF InOrder
  <2>3. TypeOK'
    <3>1. mi' \in 0 .. ncounters
      BY <1>0, <2>1, <2>2
    <3> QED
      BY <1>0, <1>1, <2>1, <3>1 DEF TypeOK
  <2>4. Conserved'
    BY <1>0, <1>1, <1>2, <1>3, <2>1 DEF Conserved
  <2>5. UndefinedOnlyEarly'
    <3>1. slow \/ main \in {"launch", "join"}
      BY <1>0, <2>1 DEF InOrder
    <3> QED
      BY <1>0, <1>1, <2>1, <2>2, <3>1 DEF UndefinedOnlyEarly
  <2>6. ~fault' => InOrder'
    <3>1. ~fault' => Cleaned(mi)
      BY <2>1 DEF Cleaned
    <3>2. slow \/ main \in {"launch", "join"}
      BY <1>0, <2>1 DEF InOrder
    <3> QED
      BY <1>0, <1>1, <2>1, <3>1, <3>2 DEF InOrder, Cleaned
  <2>7. WordsHeld'
    BY <1>0, <1>1, <2>1 DEF WordsHeld
  <2> QED
    BY <2>3, <2>4, <2>5, <2>6, <2>7 DEF Consistent, Running
<1>7. CASE Swap
  <2>1. /\ build = "SYNC" /\ mpc = "take" /\ mpc' = "test"
        /\ sum' = sum + c[mi] /\ c' = [c EXCEPT ![mi] = 0] /\ mi' = mi + 1
        /\ UNCHANGED <<fault, word, printed>>
    BY <1>7 DEF Swap, GoMeasure
  <2>2. /\ mi \in Counters /\ mi < ncounters /\ Cleaned(mi) /\ c[mi] \in Nat
        /\ c[mi] =< Uncounted /\ Uncounted + printed + sum = Total
    BY <1>0, <1>2, <2>1
  <2>3. /\ c' \in [Counters -> 0 .. Most] /\ Uncounted' = Uncounted - c[mi]
    BY <1>4, <2>1, <2>2
  <2>4. TypeOK'
    <3>1. mi' \in 0 .. ncounters /\ sum' \in 0 .. Most - 1
      BY <1>0, <1>2, <2>1, <2>2
    <3> QED
      BY <1>0, <1>1, <2>1, <2>3, <3>1 DEF TypeOK
  <2>5. Conserved' /\ UndefinedOnlyEarly'
    BY <1>0, <1>1, <1>2, <2>1, <2>2, <2>3 DEF Conserved, UndefinedOnlyEarly
  <2>6. InOrder' /\ WordsHeld'
    BY <1>0, <1>1, <2>1 DEF InOrder, WordsHeld, Cleaned
  <2> QED
    BY <2>4, <2>5, <2>6 DEF Consistent
<1>8. CASE MLock
  <2>1. /\ build = "LOCK" /\ mpc = "take" /\ mpc' = "add"
        /\ word[mi] = Nobody /\ word' = [word EXCEPT ![mi] = Measurer]
        /\ fault' = (stage[mi] # "ready")
        /\ UNCHANGED <<c, mi, sum, printed>>
    BY <1>8 DEF MLock, GoMeasure, Free
  <2>2. mi \in Counters /\ Cleaned(mi)
    BY <1>0, <2>1
  <2>3. TypeOK'
    BY <1>0, <1>1, <2>1 DEF TypeOK
  <2>4. Conserved'
    BY <1>0, <1>1, <1>2, <1>3, <2>1 DEF Conserved
  <2>5. UndefinedOnlyEarly'
    <3>1. slow \/ main \in {"launch", "join"}
      BY <1>0, <2>1 DEF InOrder
    <3> QED
      BY <1>0, <1>1, <2>1, <2>2, <3>1 DEF UndefinedOnlyEarly
  <2>6. InOrder'
    BY <1>0, <1>1, <2>1, <2>2 DEF InOrder, Cleaned
  <2>7. WordsHeld'
    <3>1. word'[mi] = Measurer /\ \A x \in Counters : x # mi => word'[x] = word[x]
      BY <1>0, <2>1, <2>2 DEF TypeOK
    <3>2. ASSUME NEW w \in Workers, at[w] \in {"load", "store", "unlock"}
          PROVE  word'[Mine(w)] = w
      <4>1. word[Mine(w)] = w /\ Mine(w) \in Counters
        BY <1>0, <3>2 DEF WordsHeld, InOrder
      <4>2. Mine(w) # mi
        BY <2>1, <4>1, ThroughputAssumption
      <4> QED
        BY <3>1, <4>1, <4>2
    <3> QED
      BY <1>0, <1>1, <2>1, <3>1, <3>2 DEF WordsHeld
  <2> QED
    BY <2>3, <2>4, <2>5, <2>6, <2>7 DEF Consistent
<1>9. CASE Add
  <2>1. /\ mpc = "add" /\ mpc' = "reset" /\ sum' = sum + c[mi]
        /\ UNCHANGED <<fault, c, word, mi, printed>>
    BY <1>9 DEF Add, GoMeasure
  <2>2. /\ mi \in Counters /\ mi < ncounters /\ Cleaned(mi) /\ c[mi] \in Nat
        /\ c[mi] =< Uncounted /\ Uncounted + printed + sum = Total
    BY <1>0, <1>2, <2>1
  <2>3. TypeOK'
    <3>1. sum' \in 0 .. Most - 1
      BY <1>2, <2>1, <2>2
    <3> QED
      BY <1>0, <1>1, <2>1, <3>1 DEF TypeOK
  <2>4. Conserved' /\ UndefinedOnlyEarly'
    BY <1>0, <1>1, <1>2, <1>3, <2>1, <2>2 DEF Conserved, UndefinedOnlyEarly
  <2>5. InOrder'
    BY <1>0, <1>1, <2>1 DEF InOrder, Cleaned
  <2>6. WordsHeld'
    <3>1. c'[mi'] =< sum'
      BY <1>2, <2>1, <2>2
    <3> QED
      BY <1>0, <1>1, <2>1, <3>1 DEF WordsHeld
  <2> QED
    BY <2>3, <2>4, <2>5, <2>6 DEF Consistent
<1>10. CASE Reset
  <2>1. /\ mpc = "reset" /\ mpc' = "unlock" /\ c' = [c EXCEPT ![mi] = 0]
        /\ UNCHANGED <<fault, word, mi, sum, printed>>
    BY <1>10 DEF Reset, GoMeasure
  <2>2. mi \in Counters /\ Cleaned(mi) /\ c[mi] \in Nat
    BY <1>0, <1>2, <2>1
  <2>3. /\ c' \in [Counters -> 0 .. Most] /\ Uncounted' = Uncounted - c[mi]
        /\ \A x \in Counters : x # mi => c'[x] = c[x]
    BY <1>4, <2>1, <2>2
  <2>4. TypeOK'
    BY <1>0, <1>1, <2>1, <2>3 DEF TypeOK
  <2>5. Conserved' /\ UndefinedOnlyEarly'
    BY <1>0, <1>1, <1>2, <2>1, <2>2, <2>3 DEF Conserved, UndefinedOnlyEarly
  <2>6. InOrder'
    BY <1>0, <1>1, <2>1 DEF InOrder, Cleaned
  <2>7. WordsHeld'
    <3>1. ASSUME NEW w \in Workers, at[w] = "store"
          PROVE  c'[Mine(w)] = c[Mine(w)]
      <4>1. word[Mine(w)] = w /\ word[mi] = Measurer /\ Mine(w) \in Counters
        BY <1>0, <2>1, <3>1 DEF WordsHeld, InOrder
      <4>2. Mine(w) # mi
        BY <4>1, ThroughputAssumption
      <4> QED
        BY <2>3, <4>1, <4>2
    <3> QED
      BY <1>0, <1>1, <2>1, <3>1 DEF WordsHeld
  <2> QED
    BY <2>4, <2>5, <2>6, <2>7 DEF Consistent
<1>11. CASE MUnlock
  <2>1. /\ mpc = "unlock" /\ mpc' = "test" /\ word' = [word EXCEPT ![mi] = Nobody]
        /\ mi' = mi + 1 /\ UNCHANGED <<fault, c, sum, printed>>
    BY <1>11 DEF MUnlock, GoMeasure
  <2>2. mi \in Counters /\ mi < ncounters
    BY <1>0, <2>1
  <2>3. TypeOK'
    <3>1. mi' \in 0 .. ncounters
      BY <1>0, <2>1, <2>2
    <3> QED
      BY <1>0, <1>1, <2>1, <3>1 DEF TypeOK
  <2>4. Conserved' /\ UndefinedOnlyEarly'
    BY <1>0, <1>1, <1>2, <1>3, <2>1 DEF Conserved, UndefinedOnlyEarly
  <2>5. InOrder'
    BY <1>0, <1>1, <2>1 DEF InOrder, Cleaned
  <2>6. WordsHeld'
    <3>1. \A x \in Counters : x # mi => word'[x] = word[x]
      BY <1>0, <2>1, <2>2 DEF TypeOK
    <3>2. ASSUME NEW w \in Workers, at[w] \in {"load", "store", "unlock"}
          PROVE  word'[Mine(w)] = w
      <4>1. word[Mine(w)] = w /\ word[mi] = Measurer /\ Mine(w) \in Counters
        BY <1>0, <2>1, <3>2 DEF WordsHeld, InOrder
      <4>2. Mine(w) # mi
        BY <4>1, ThroughputAssumption
      <4> QED
        BY <3>1, <4>1, <4>2
    <3> QED
      BY <1>0, <1>1, <2>1, <3>2 DEF WordsHeld
  <2> QED
    BY <2>3, <2>4, <2>5, <2>6 DEF Consistent
<1>12. CASE PrintSum
  <2>1. /\ mpc = "test" /\ mpc' = "sleep" /\ printed' = printed + sum
        /\ UNCHANGED <<fault, c, word, mi, sum>>
    BY <1>12 DEF PrintSum, GoMeasure
  <2>2. Uncounted + printed + sum = Total
    BY <1>2, <2>1
  <2>3. TypeOK'
    <3>1. printed' \in 0 .. Most - 1
      BY <1>2, <2>1, <2>2
    <3> QED
      BY <1>0, <1>1, <2>1, <3>1 DEF TypeOK
  <2>4. Conserved' /\ UndefinedOnlyEarly'
    BY <1>0, <1>1, <1>2, <1>3, <2>1, <2>2 DEF Conserved, UndefinedOnlyEarly
  <2>5. InOrder' /\ WordsHeld'
    BY <1>0, <1>1, <2>1 DEF InOrder, WordsHeld, Cleaned
  <2> QED
    BY <2>3, <2>4, <2>5 DEF Consistent
<1> QED
  BY <1>5, <1>6, <1>7, <1>8, <1>9, <1>10, <1>11, <1>12 DEF Measure

\* At the start nothing is initialised, and nothing has been counted.
LEMMA InitConsistent == Init => Consistent
<1> SUFFICES ASSUME Init PROVE Consistent
  OBVIOUS
<1>1. /\ 0 \in 0 .. Most /\ 0 \in 0 .. Most - 1 /\ 0 \in 0 .. MaxAdds
      /\ 0 \in 0 .. ncounters
  BY Numbers
<1>2. TypeOK
  BY <1>1 DEF Init, TypeOK
<1>3. Total = 0 /\ Uncounted = 0
  <2>1. Ones(Workers, added) = {}
    <3> SUFFICES ASSUME NEW p \in Ones(Workers, added) PROVE FALSE
      OBVIOUS
    <3>1. p \in Workers \X (1 .. Most) /\ p[2] =< added[p[1]]
      BY DEF Ones
    <3>2. p[1] \in Workers /\ p[2] \in 1 .. Most
      BY <3>1
    <3>3. added[p[1]] = 0
      BY <3>2 DEF Init
    <3> QED
      BY <3>1, <3>2, <3>3, Numbers
  <2>2. {x \in Counters : Cleaned(x)} = {}
    BY DEF Init, Cleaned
  <2>3. Ones({}, c) = {}
    BY DEF Ones
  <2> QED
    BY <2>1, <2>2, <2>3, FS_EmptySet DEF Total, Uncounted
<1>4. InOrder /\ WordsHeld
  <2>1. \A x \in Counters : ~(x < 0)
    BY Numbers DEF Counters
  <2> QED
    BY <2>1 DEF Init, InOrder, WordsHeld
<1>5. Conserved /\ UndefinedOnlyEarly
  BY <1>3 DEF Init, Conserved, UndefinedOnlyEarly
<1> QED
  BY <1>2, <1>4, <1>5 DEF Consistent

\* The inductive invariant: every increment is in a counter, in the sum being
\* taken or in what was printed, for both ways of counting and any assignment
\* of threads to counters; only a line missing from locks-v2's file, a thread on
\* a counter that main() has not made or a measurer ahead of main() reaches
\* memory that nobody has set.
THEOREM ThroughputConsistent == Spec => []Consistent
<1>1. Consistent /\ [Next]_vars => Consistent'
  <2> SUFFICES ASSUME Consistent, [Next]_vars PROVE Consistent'
    OBVIOUS
  <2>1. CASE UNCHANGED vars
    BY <2>1 DEF vars, conf, workers, measurer, Consistent, TypeOK, Conserved,
                UndefinedOnlyEarly, Running, InOrder, WordsHeld, Total, Uncounted, Ones,
                Cleaned, Mine
  <2> QED
    BY <2>1, MainKeeps, WorkKeeps, UseNullKeeps, MeasureKeeps DEF Next
<1> QED
  BY InitConsistent, <1>1, PTL DEF Spec
=============================================================================
