--------------------------- MODULE LocksBenchProofs ---------------------------
(***************************************************************************)
(* Proofs about LocksBench for every number of cores, loops and runs, and  *)
(* (in the last part) about the locks that worker() has inline, SpinLock.  *)
(* Consistent is inductive: where main is determines which workers there   *)
(* are (ThreadsFollowMain), hence what they read (MappingKept) and whom    *)
(* the locks can hold (LinesExact); so no increment meets another          *)
(* (IncrementsConserved) and the assert holds (AssertHolds).               *)
(***************************************************************************)
EXTENDS LocksBench, SpinLock, FiniteSetTheorems, SequenceTheorems, TLAPS

\* The types of what the steps read, and the range of the numbers.
LEMMA Types ==
  ASSUME TypeOK
  PROVE  /\ NCORES \in Nat /\ NCORES > 1 /\ NLOOPS \in Nat /\ NLOOPS > 0
         /\ NRUNS \in Nat /\ NRUNS > 0
         /\ i \in Nat /\ i < NCORES /\ j \in Nat /\ j < NCORES
         /\ k \in Nat /\ k < NRUNS /\ m \in Nat /\ m =< NCORES
         /\ \A t \in Core : n[t] \in Nat /\ n[t] =< NLOOPS
         /\ 0 \in Core /\ -1 \notin Core
  BY BenchAssumption DEF TypeOK, Core

\* A worker that counts is one of the pair, and main waits for it.
LEMMA WorkersOfPair ==
  ASSUME Consistent, NEW t \in Core, Working(t)
  PROVE  /\ t \in {i, j} /\ slot[t] = i /\ slot[t] \in Core /\ Started(t)
         /\ mpc \in {"create", "work", "join"}
<1>1. /\ TypeOK /\ ThreadsFollowMain /\ MappingKept /\ AssertHolds
  BY DEF Consistent
<1>2. /\ mpc \in {"map", "reset", "create", "work", "join", "check", "done", "abort"}
      /\ i \in Core
  BY <1>1 DEF TypeOK
<1>3. mpc \in {"create", "work", "join"}
  BY <1>1, <1>2 DEF ThreadsFollowMain, AssertHolds, Working
<1>4. Started(t)
  BY DEF Working, Started
<1>5. slot[t] = mapping[t] /\ slot[t] # -1
  BY <1>1, <1>3, <1>4 DEF MappingKept
<1>6. t \in {i, j} /\ slot[t] = i
  BY <1>1, <1>3, <1>5 DEF MappingKept
<1> QED
  BY <1>2, <1>3, <1>4, <1>6

\* Who waits, holds or is counting has got the mapping.
LEMMA LineIsWork ==
  ASSUME NEW t \in Core
  PROVE  (Holding(t) => InLine(t)) /\ (InLine(t) => Working(t))
  BY DEF Holding, InLine, Working

\* A worker has counted at most NLOOPS times.
LEMMA AddedBound ==
  ASSUME Consistent, NEW t \in Core
  PROVE  /\ Added(t) \in Nat /\ Added(t) =< NLOOPS
         /\ tpc[t] \in {"loop", "load", "store"} => Added(t) = n[t]
<1>1. TypeOK /\ MappingKept
  BY DEF Consistent
<1> QED
  BY <1>1, Types DEF Added, Started, MappingKept, InLine

\* The holder of a lock is the only one.
LEMMA OneHolder ==
  ASSUME Consistent, NEW s \in Core, NEW t \in Core, Holding(s), Holding(t)
  PROVE  s = t
<1>1. /\ TypeOK /\ LinesExact /\ slot[s] = i /\ slot[t] = i /\ i \in Core
      /\ InLine(s) /\ InLine(t)
  BY LineIsWork, WorkersOfPair DEF Consistent, TypeOK
<1>2. PICK p \in DOMAIN line[i] : line[i][p] = s
  BY <1>1 DEF LinesExact, LineExact, Lists, Callers
<1>3. PICK q \in DOMAIN line[i] : line[i][q] = t
  BY <1>1 DEF LinesExact, LineExact, Lists, Callers
<1>4. p = 1 /\ q = 1
  BY <1>1, <1>2, <1>3 DEF LinesExact, LineExact, Holders
<1> QED
  BY <1>2, <1>3, <1>4

\* A caller in line is the head when the lock is held by itself.
LEMMA HolderIsHead ==
  ASSUME Consistent, NEW t \in Core, Holding(t)
  PROVE  /\ line[i] \in Seq(Core) /\ line[i] # <<>> /\ Head(line[i]) = t
         /\ inside[i] /\ slot[t] = i
<1>1. /\ TypeOK /\ LinesExact /\ slot[t] = i /\ i \in Core /\ InLine(t)
  BY LineIsWork, WorkersOfPair DEF Consistent, TypeOK
<1>2. PICK p \in DOMAIN line[i] : line[i][p] = t
  BY <1>1 DEF LinesExact, LineExact, Lists, Callers
<1>3. p = 1
  BY <1>1, <1>2 DEF LinesExact, LineExact, Holders
<1>4. line[i] \in Seq(Core)
  BY <1>1 DEF TypeOK
<1>5. line[i] # <<>> /\ Head(line[i]) = t
  BY <1>2, <1>3, <1>4
<1> QED
  BY <1>1, <1>4, <1>5 DEF LinesExact, LineExact, Holders
-----------------------------------------------------------------------------
\* Whatever the lock, main waits until no worker is left in it.
LEMMA NextKeepsThreads == Consistent /\ [Next]_vars => ThreadsFollowMain'
<1> SUFFICES ASSUME Consistent, [Next]_vars PROVE ThreadsFollowMain'
  OBVIOUS
<1>0. /\ TypeOK /\ ThreadsFollowMain /\ MappingKept /\ AssertHolds
  BY DEF Consistent
<1>a. /\ NCORES \in Nat /\ NCORES > 1 /\ m \in Nat /\ m =< NCORES /\ 0 \in Core
      /\ \A t \in Core : t \in Nat /\ t < NCORES
      /\ \A t : t \in Nat /\ t < NCORES => t \in Core
  BY <1>0, Types DEF Core
<1>b. tpc \in [Core -> Places]
      /\ mpc \in {"map", "reset", "create", "work", "join", "check", "done", "abort"}
  BY <1>0 DEF TypeOK
<1>1. CASE SetMapping
  BY <1>0, <1>1 DEF SetMapping, Step, ThreadsFollowMain
<1>2. CASE Reset
  BY <1>0, <1>a, <1>2 DEF Reset, Step, ThreadsFollowMain
<1>3. CASE Create
  <2>1. /\ mpc = "create" /\ m' = m + 1 /\ m < NCORES /\ m >= 1
        /\ \A t \in Core : tpc[t] = "none" <=> t = 0 \/ t >= m
        /\ tpc' = [t \in Core |-> IF t = m \/ (t = 0 /\ m + 1 = NCORES)
                                  THEN "start" ELSE tpc[t]]
    BY <1>0, <1>3, <1>a DEF Create, Step, ThreadsFollowMain
  <2>2. CASE m + 1 < NCORES
    BY <1>3, <1>a, <2>1, <2>2 DEF Create, Step, ThreadsFollowMain
  <2>3. CASE ~(m + 1 < NCORES)
    <3>1. m + 1 = NCORES /\ mpc' = "work"
      BY <1>3, <1>a, <2>1, <2>3 DEF Create, Step
    <3>2. \A t \in Core : tpc'[t] # "none"
      BY <1>a, <2>1, <3>1
    <3> QED
      BY <3>1, <3>2 DEF ThreadsFollowMain
  <2> QED
    BY <2>2, <2>3
<1>4. CASE Worked
  <2>1. \A t \in 0 .. 1 - 1 : t = 0
    OBVIOUS
  <2> QED
    BY <1>0, <1>a, <1>4, <2>1 DEF Worked, Step, ThreadsFollowMain
<1>5. CASE JoinWorker
  <2>1. /\ mpc = "join" /\ m' = m + 1 /\ m < NCORES /\ m >= 1 /\ tpc[m] = "exit"
        /\ \A t \in Core : tpc[t] # "none"
        /\ \A t \in 0 .. m - 1 : tpc[t] = "exit"
        /\ tpc' = tpc /\ mpc' = IF m + 1 < NCORES THEN "join" ELSE "check"
    BY <1>0, <1>5, <1>a DEF JoinWorker, Joinable, Step, ThreadsFollowMain
  <2>2. \A t \in 0 .. m : tpc[t] = "exit"
    BY <1>a, <2>1
  <2>3. m + 1 - 1 = m
    BY <1>a
  <2>4. ~(m + 1 < NCORES) => \A t \in Core : tpc[t] = "exit"
    BY <1>a, <2>1, <2>2
  <2> QED
    BY <1>a, <2>1, <2>2, <2>3, <2>4 DEF ThreadsFollowMain
<1>6. CASE Check
  <2>1. /\ mpc = "check" /\ tpc' = tpc
        /\ mpc' \in {"reset", "map", "done", "abort"}
    BY <1>6 DEF Check, Advance
  <2> QED
    BY <1>0, <2>1 DEF ThreadsFollowMain
<1>7. ASSUME NEW t \in Core, Worker(t)
      PROVE  ThreadsFollowMain'
  <2>1. /\ mpc' = mpc /\ m' = m
        /\ tpc' = tpc \/ \E pl \in Places \ {"none"} :
                           /\ tpc[t] \notin {"none", "exit"}
                           /\ tpc' = [tpc EXCEPT ![t] = pl]
    BY <1>7 DEF Worker, Begin, AddAtomic, Join, Enter, TryEnter, Spin, Load, Store,
                Unlock, Return, Goto, vars, Places
  <2> QED
    BY <1>0, <1>a, <1>b, <2>1 DEF ThreadsFollowMain
<1>8. CASE UNCHANGED vars
  BY <1>0, <1>8 DEF vars, ThreadsFollowMain
<1> QED
  BY <1>1, <1>2, <1>3, <1>4, <1>5, <1>6, <1>7, <1>8 DEF Next, Main, Exited

\* A worker keeps what mapping said when it began.
LEMMA NextKeepsMapping == Consistent /\ [Next]_vars => MappingKept'
<1> SUFFICES ASSUME Consistent, [Next]_vars PROVE MappingKept'
  OBVIOUS
<1>0. /\ TypeOK /\ ThreadsFollowMain /\ MappingKept /\ AssertHolds
  BY DEF Consistent
<1>a. /\ NCORES \in Nat /\ i \in Nat /\ j \in Nat /\ i < j /\ i < NCORES /\ j < NCORES
      /\ NLOOPS \in Nat /\ NLOOPS > 0
      /\ \A t \in Core : n[t] \in Nat /\ n[t] =< NLOOPS
  BY <1>0, Types DEF MappingKept
<1>b. /\ tpc \in [Core -> Places] /\ slot \in [Core -> Core \cup {-1}]
      /\ n \in [Core -> 0 .. NLOOPS]
      /\ mapping \in [Core -> Core \cup {-1}]
  BY <1>0 DEF TypeOK
<1>c. \A t \in Core : Working(t) => Started(t)
  BY DEF Working, Started
<1> USE DEF Started, Working, InLine
<1>1. CASE SetMapping
  <2>1. /\ mpc = "map" /\ mpc' = "reset" /\ i' = i /\ j' = j
        /\ slot' = slot /\ n' = n /\ tpc' = tpc
        /\ mapping' = [t \in Core |-> IF t \in {i, j} THEN i ELSE -1]
    BY <1>1 DEF SetMapping, Step, Shared, workers
  <2> QED
    BY <1>0, <2>1 DEF MappingKept
<1>2. CASE Reset
  <2>1. /\ mpc = "reset" /\ mpc' = "create" /\ i' = i /\ j' = j /\ mapping' = mapping
        /\ slot' = slot /\ n' = n /\ tpc' = [t \in Core |-> "none"]
    BY <1>2 DEF Reset, Step, pairs, workers
  <2> QED
    BY <1>0, <2>1 DEF MappingKept
<1>3. CASE Create
  <2>1. /\ mpc = "create" /\ mpc' \in {"create", "work"}
        /\ i' = i /\ j' = j /\ mapping' = mapping /\ slot' = slot /\ n' = n
        /\ tpc' = [t \in Core |-> IF t = m \/ (t = 0 /\ m + 1 = NCORES)
                                  THEN "start" ELSE tpc[t]]
    BY <1>3 DEF Create, Step, pairs, workers
  <2> QED
    BY <1>0, <2>1 DEF MappingKept
<1>4. CASE Worked \/ JoinWorker
  <2>1. /\ mpc \in {"work", "join"} /\ mpc' \in {"join", "check"}
        /\ i' = i /\ j' = j /\ mapping' = mapping /\ slot' = slot /\ n' = n /\ tpc' = tpc
    BY <1>4 DEF Worked, JoinWorker, Step, pairs, workers
  <2> QED
    BY <1>0, <2>1 DEF MappingKept
<1>5. CASE Check
  <2>1. /\ mpc = "check" /\ mpc' \in {"map", "reset", "done", "abort"}
        /\ mapping' = mapping /\ slot' = slot /\ n' = n /\ tpc' = tpc
        /\ (i' = i /\ j' = j) \/ (mpc' = "map" /\ i' = i /\ j' = j + 1)
           \/ (mpc' = "map" /\ i' = i + 1 /\ j' = i + 2)
    BY <1>5 DEF Check, Advance, pairs, workers
  <2>2. i' < j'
    BY <1>a, <2>1
  <2> QED
    BY <1>0, <2>1, <2>2 DEF MappingKept
<1>6. ASSUME NEW t \in Core, Worker(t)
      PROVE  MappingKept'
  <2>0. i' = i /\ j' = j /\ mpc' = mpc /\ mapping' = mapping
    BY <1>6 DEF Worker, Begin, AddAtomic, Join, Enter, TryEnter, Spin, Load, Store,
                Unlock, Return, vars, pairs
  <2>1. CASE Begin(t)
    <3>1. /\ tpc[t] = "start" /\ slot' = [slot EXCEPT ![t] = mapping[t]]
          /\ n' = [n EXCEPT ![t] = 0]
          /\ tpc' = [tpc EXCEPT ![t] = IF mapping[t] < 0 THEN "exit" ELSE "loop"]
      BY <2>1 DEF Begin, Goto
    <3>2. mpc \notin {"map", "reset"}
      BY <1>0, <3>1 DEF ThreadsFollowMain
    <3>3. mapping[t] < 0 <=> mapping[t] = -1
      BY <1>b DEF Core
    <3> QED
      BY <1>0, <1>b, <2>0, <3>1, <3>2, <3>3 DEF MappingKept
  <2>2. CASE AddAtomic(t)
    <3>1. /\ tpc[t] = "loop" /\ n' = [n EXCEPT ![t] = n[t] + 1] /\ tpc' = tpc
          /\ slot' = slot
      BY <2>2 DEF AddAtomic
    <3> QED
      BY <1>0, <1>b, <2>0, <3>1 DEF MappingKept
  <2>3. CASE Unlock(t)
    <3>1. /\ tpc[t] = "unlock" /\ n' = [n EXCEPT ![t] = n[t] + 1] /\ slot' = slot
          /\ tpc' = [tpc EXCEPT ![t] = "loop"]
      BY <2>3 DEF Unlock, Goto
    <3> QED
      BY <1>0, <1>b, <2>0, <3>1 DEF MappingKept
  <2>4. CASE Return(t)
    <3>1. /\ tpc[t] = "loop" /\ n' = n /\ slot' = slot /\ n[t] = NLOOPS
          /\ tpc' = [tpc EXCEPT ![t] = "exit"]
      BY <2>4 DEF Return, Goto, workers
    <3> QED
      BY <1>0, <1>b, <2>0, <3>1 DEF MappingKept
  <2>5. CASE Join(t) \/ Enter(t) \/ TryEnter(t) \/ Spin(t) \/ Load(t) \/ Store(t)
    <3>1. /\ n' = n /\ slot' = slot
          /\ tpc' = tpc \/ \E pl \in {"wait", "load", "store", "unlock"} :
                             /\ \/ tpc[t] = "loop" /\ n[t] < NLOOPS
                                \/ tpc[t] \in {"wait", "load", "store"}
                             /\ tpc' = [tpc EXCEPT ![t] = pl]
      BY <2>5 DEF Join, Enter, TryEnter, Spin, Load, Store, Goto, vars, workers
    <3> QED
      BY <1>0, <1>b, <2>0, <3>1 DEF MappingKept
  <2> QED
    BY <1>6, <2>1, <2>2, <2>3, <2>4, <2>5 DEF Worker
<1>7. CASE UNCHANGED vars
  BY <1>0, <1>7 DEF vars, MappingKept
<1> QED
  BY <1>1, <1>2, <1>3, <1>4, <1>5, <1>6, <1>7 DEF Next, Main, Exited
-----------------------------------------------------------------------------

\* Steps that change nothing of the lines leave them right.
LEMMA LinesKept ==
  ASSUME LinesExact, UNCHANGED <<line, inside, build>>,
         \A t \in Core : /\ InLine(t)' <=> InLine(t)
                         /\ Holding(t)' <=> Holding(t)
                         /\ InLine(t) => slot'[t] = slot[t]
  PROVE  LinesExact'
<1>1. Holders' = Holders /\ \A c \in Core : Callers(c)' = Callers(c)
  BY DEF Holders, Callers
<1> QED
  BY <1>1 DEF LinesExact, LineExact

\* A newcomer at the end of a list.
LEMMA ListAppend ==
  ASSUME NEW S, NEW q, Lists(q, S), NEW t, t \notin S
  PROVE  /\ Lists(Append(q, t), S \cup {t})
         /\ Append(q, t) # <<>>
         /\ Head(Append(q, t)) = IF q = <<>> THEN t ELSE Head(q)
         /\ \A p \in DOMAIN Append(q, t) :
              \/ p \in DOMAIN q /\ Append(q, t)[p] = q[p]
              \/ Append(q, t)[p] = t
<1> DEFINE T == S \cup {t}
           a == Append(q, t)
<1>1. /\ q \in Seq(S) /\ q \in Seq(T) /\ Len(q) \in Nat /\ DOMAIN q = 1 .. Len(q)
      /\ \A p \in 1 .. Len(q) : q[p] \in S
  BY DEF Lists
<1>2. /\ a \in Seq(T) /\ Len(a) = Len(q) + 1 /\ DOMAIN a = 1 .. Len(q) + 1
      /\ \A p \in 1 .. Len(q) : a[p] = q[p]
      /\ a[Len(q) + 1] = t
  BY <1>1
<1>3. /\ a # <<>> /\ Head(a) = a[1]
  BY <1>1, <1>2
<1>4. Head(a) = IF q = <<>> THEN t ELSE Head(q)
  <2>1. CASE q = <<>>
    BY <1>1, <1>2, <1>3, <2>1
  <2>2. CASE q # <<>>
    <3>1. 1 \in 1 .. Len(q) /\ Head(q) = q[1]
      BY <1>1, <2>2
    <3> QED
      BY <1>2, <1>3, <2>2, <3>1
  <2> QED
    BY <2>1, <2>2
<1>5. \A p \in 1 .. Len(q) + 1 : p \in 1 .. Len(q) \/ p = Len(q) + 1
  BY <1>1
<1>6. \A s \in T : \E p \in DOMAIN a : a[p] = s
  <2> SUFFICES ASSUME NEW s \in T PROVE \E p \in 1 .. Len(q) + 1 : a[p] = s
    BY <1>2
  <2>1. CASE s = t
    <3>1. Len(q) + 1 \in 1 .. Len(q) + 1
      BY <1>1
    <3> QED
      BY <1>2, <2>1, <3>1
  <2>2. CASE s # t
    <3>1. PICK p \in 1 .. Len(q) : q[p] = s
      BY <1>1, <2>2 DEF Lists
    <3>2. p \in 1 .. Len(q) + 1
      BY <1>1
    <3> QED
      BY <1>2, <3>1, <3>2
  <2> QED
    BY <2>1, <2>2
<1>7. \A p, r \in DOMAIN a : a[p] = a[r] => p = r
  <2> SUFFICES ASSUME NEW p \in 1 .. Len(q) + 1, NEW r \in 1 .. Len(q) + 1, a[p] = a[r]
               PROVE  p = r
    BY <1>2
  <2>1. \A x \in 1 .. Len(q) : a[x] # t
    BY <1>1, <1>2
  <2>2. CASE p \in 1 .. Len(q) /\ r \in 1 .. Len(q)
    BY <1>1, <1>2, <2>2 DEF Lists
  <2> QED
    BY <1>2, <1>5, <2>1, <2>2
<1> QED
  BY <1>1, <1>2, <1>3, <1>4, <1>5, <1>6, <1>7 DEF Lists

\* The head leaving a list.
LEMMA ListTail ==
  ASSUME NEW S, NEW q, Lists(q, S), q # <<>>
  PROVE  /\ Lists(Tail(q), S \ {Head(q)})
         /\ \A p \in DOMAIN Tail(q) : p + 1 \in DOMAIN q /\ Tail(q)[p] = q[p + 1]
         /\ \A p \in DOMAIN Tail(q) : p \in Nat
         /\ Tail(q) # <<>> => Head(Tail(q)) = q[2] /\ 2 \in DOMAIN q
<1> DEFINE T == S \ {Head(q)}
           a == Tail(q)
<1>1. /\ q \in Seq(S) /\ Len(q) \in Nat /\ Len(q) > 0 /\ DOMAIN q = 1 .. Len(q)
      /\ Head(q) = q[1] /\ \A p \in 1 .. Len(q) : q[p] \in S
  BY DEF Lists
<1>2. /\ a \in Seq(S) /\ Len(a) = Len(q) - 1 /\ DOMAIN a = 1 .. Len(q) - 1
      /\ \A p \in 1 .. Len(q) - 1 : a[p] = q[p + 1]
  BY <1>1, HeadTailProperties
<1>3. \A p \in 1 .. Len(q) - 1 : p + 1 \in 1 .. Len(q) /\ p + 1 # 1
  BY <1>1
<1>4. \A p \in 1 .. Len(q) - 1 : a[p] \in T
  BY <1>1, <1>2, <1>3 DEF Lists
<1>5. a \in Seq(T)
  <2>1. Len(q) - 1 \in Nat
    BY <1>1
  <2>2. a \in [1 .. Len(a) -> S]
    BY <1>2, LenProperties
  <2>3. a \in [1 .. Len(q) - 1 -> S]
    BY <1>2, <2>2
  <2>4. a \in [1 .. Len(q) - 1 -> T]
    BY <1>4, <2>3
  <2> QED
    BY <2>1, <2>4, SeqDef
<1>6. \A s \in T : \E p \in DOMAIN a : a[p] = s
  <2> SUFFICES ASSUME NEW s \in T PROVE \E p \in 1 .. Len(q) - 1 : a[p] = s
    BY <1>2
  <2>1. PICK p \in 1 .. Len(q) : q[p] = s
    BY <1>1 DEF Lists
  <2>2. p # 1
    BY <1>1, <2>1
  <2>3. p - 1 \in 1 .. Len(q) - 1 /\ p - 1 + 1 = p
    BY <1>1, <2>2
  <2> QED
    BY <1>2, <2>1, <2>3
<1>7. \A p, r \in DOMAIN a : a[p] = a[r] => p = r
  <2> SUFFICES ASSUME NEW p \in 1 .. Len(q) - 1, NEW r \in 1 .. Len(q) - 1, a[p] = a[r]
               PROVE  p = r
    BY <1>2
  <2>1. p + 1 = r + 1
    BY <1>1, <1>2, <1>3 DEF Lists
  <2> QED
    BY <2>1
<1>8. a # <<>> => Head(a) = q[2] /\ 2 \in DOMAIN q
  <2> SUFFICES ASSUME a # <<>> PROVE Head(a) = q[2] /\ 2 \in 1 .. Len(q)
    BY <1>1
  <2>1. Len(a) > 0 /\ Head(a) = a[1]
    BY <1>5
  <2>2. 1 \in 1 .. Len(q) - 1
    BY <1>1, <1>2, <2>1
  <2> QED
    BY <1>2, <1>3, <2>1, <2>2
<1> QED
  BY <1>1, <1>2, <1>3, <1>5, <1>6, <1>7, <1>8 DEF Lists

\* A worker that steps at the pair's lock touches no other lock.
LEMMA OtherLines ==
  ASSUME Consistent, NEW t \in Core, slot[t] = i, UNCHANGED <<i, slot, build>>,
         \A s \in Core : s # t => tpc'[s] = tpc[s],
         \A c \in Core : c # i => line'[c] = line[c] /\ inside'[c] = inside[c],
         build = "FETCH_ADD" => ~InLine(t)',
         LineExact(i)'
  PROVE  LinesExact'
<1>1. LinesExact
  BY DEF Consistent
<1>2. build' = "FETCH_ADD" => \A s \in Core : ~InLine(s)'
  BY <1>1 DEF LinesExact, InLine
<1>3. ASSUME NEW c \in Core PROVE LineExact(c)'
  <2>1. CASE c = i
    BY <2>1
  <2>2. CASE c # i
    <3>1. Callers(c)' = Callers(c)
      BY <2>2 DEF Callers, InLine
    <3>2. t \notin Callers(c)
      BY <2>2 DEF Callers
    <3>3. \A s \in Callers(c) : s \in Holders' <=> s \in Holders
      BY <3>2 DEF Callers, Holders, Holding
    <3>4. LineExact(c) /\ line'[c] = line[c] /\ inside'[c] = inside[c]
      BY <1>1, <2>2 DEF LinesExact
    <3>5. /\ \A p \in DOMAIN line[c] : line[c][p] \in Callers(c)
          /\ line[c] # <<>> => Head(line[c]) \in Callers(c)
      BY <3>4 DEF LineExact, Lists
    <3> QED
      BY <3>1, <3>3, <3>4, <3>5 DEF LineExact
  <2> QED
    BY <2>1, <2>2
<1> QED
  BY <1>2, <1>3 DEF LinesExact

\* Joining: the caller, not holding yet, comes last.
LEMMA JoinKeepsLines == ASSUME Consistent, NEW t \in Core, Join(t) PROVE LinesExact'
<1>1. /\ i \in Core /\ tpc[t] = "loop" /\ slot[t] = i /\ build # "FETCH_ADD"
      /\ tpc \in [Core -> Places] /\ line \in [Core -> Seq(Core)] /\ LineExact(i)
  BY WorkersOfPair DEF Consistent, TypeOK, LinesExact, Join, Goto, Working
<1>2. /\ UNCHANGED <<i, slot, build, inside>>
      /\ tpc' = [tpc EXCEPT ![t] = "wait"]
      /\ line' = [line EXCEPT ![i] = Append(line[i], t)]
  BY <1>1 DEF Join, Goto, pairs, workers
<1>3. /\ t \notin Callers(i) /\ Callers(i)' = Callers(i) \cup {t}
      /\ t \notin Holders /\ Holders' = Holders
  BY <1>1, <1>2 DEF Callers, Holders, InLine, Holding
<1> DEFINE q == line[i]
           a == Append(q, t)
<1>4. line'[i] = a /\ inside'[i] = inside[i] /\ i' = i
  BY <1>1, <1>2
<1>5. /\ Lists(a, Callers(i) \cup {t}) /\ a # <<>>
      /\ Head(a) = IF q = <<>> THEN t ELSE Head(q)
      /\ \A p \in DOMAIN a : (p \in DOMAIN q /\ a[p] = q[p]) \/ a[p] = t
  <2>1. Lists(q, Callers(i)) /\ t \notin Callers(i)
    BY <1>1, <1>3 DEF LineExact
  <2> HIDE DEF q
  <2> QED
    BY <2>1, ListAppend
<1>6. /\ \A p \in DOMAIN a : a[p] \in Holders => p = 1
      /\ inside[i] <=> Head(a) \in Holders
  BY <1>1, <1>3, <1>5 DEF LineExact
<1>7. LineExact(i)'
  BY <1>3, <1>4, <1>5, <1>6 DEF LineExact
<1> QED
  BY <1>1, <1>2, <1>7, OtherLines

\* Entering: the head takes the idle lock.
LEMMA EnterKeepsLines == ASSUME Consistent, NEW t \in Core, Enter(t) PROVE LinesExact'
<1>1. /\ i \in Core /\ tpc[t] = "wait" /\ slot[t] = i
      /\ tpc \in [Core -> Places] /\ inside \in [Core -> BOOLEAN]
      /\ LineExact(i) /\ LinesExact
  BY WorkersOfPair DEF Consistent, TypeOK, LinesExact, Enter, Goto, Working
<1>2. /\ UNCHANGED <<i, slot, build, line>>
      /\ Head(line[i]) = t /\ ~inside[i]
      /\ tpc' = [tpc EXCEPT ![t] = "load"]
      /\ inside' = [inside EXCEPT ![i] = TRUE]
  BY <1>1 DEF Enter, Goto, pairs, workers
<1>3. /\ t \in Callers(i) /\ Callers(i)' = Callers(i)
      /\ Holders' = Holders \cup {t}
  BY <1>1, <1>2 DEF Callers, Holders, InLine, Holding
<1>4. line[i] # <<>> /\ 1 \in DOMAIN line[i] /\ line[i][1] = t
  BY <1>1, <1>2, <1>3 DEF LineExact, Lists
<1>5. \A p \in DOMAIN line[i] : line[i][p] \in Holders' => p = 1
  BY <1>1, <1>3, <1>4 DEF LineExact, Lists
<1>6. LineExact(i)'
  BY <1>1, <1>2, <1>3, <1>4, <1>5 DEF LineExact
<1>7. build # "FETCH_ADD"
  BY <1>1 DEF LinesExact, InLine
<1> QED
  BY <1>1, <1>2, <1>6, <1>7, OtherLines

\* Taking a lock that is free: the caller is alone.
LEMMA TryEnterKeepsLines ==
  ASSUME Consistent, NEW t \in Core, TryEnter(t) PROVE LinesExact'
<1>1. /\ i \in Core /\ tpc[t] = "loop" /\ slot[t] = i /\ build # "FETCH_ADD"
      /\ tpc \in [Core -> Places] /\ line \in [Core -> Seq(Core)]
      /\ inside \in [Core -> BOOLEAN] /\ LineExact(i)
  BY WorkersOfPair DEF Consistent, TypeOK, LinesExact, TryEnter, Goto, Working
<1>2. /\ UNCHANGED <<i, slot, build>> /\ line[i] = <<>>
      /\ tpc' = [tpc EXCEPT ![t] = "load"]
      /\ line' = [line EXCEPT ![i] = <<t>>]
      /\ inside' = [inside EXCEPT ![i] = TRUE]
  BY <1>1 DEF TryEnter, Goto, Free, pairs, workers
<1>3. Callers(i) = {}
  BY <1>1, <1>2 DEF LineExact, Lists
<1>4. Callers(i)' = {t} /\ t \in Holders'
  BY <1>1, <1>2, <1>3 DEF Callers, Holders, InLine, Holding
<1>5. /\ <<t>> \in Seq({t}) /\ DOMAIN <<t>> = {1} /\ <<t>>[1] = t
      /\ <<t>> # <<>> /\ Head(<<t>>) = t
  OBVIOUS
<1>6. line'[i] = <<t>> /\ inside'[i] /\ i' = i
  BY <1>1, <1>2
<1>7. Lists(<<t>>, {t})
  BY <1>5 DEF Lists
<1>8. LineExact(i)'
  BY <1>4, <1>5, <1>6, <1>7 DEF LineExact
<1> QED
  BY <1>1, <1>2, <1>8, OtherLines

\* Leaving: the head goes, and nobody is inside.
LEMMA UnlockKeepsLines == ASSUME Consistent, NEW t \in Core, Unlock(t) PROVE LinesExact'
<1>1. /\ i \in Core /\ tpc[t] = "unlock" /\ slot[t] = i
      /\ tpc \in [Core -> Places] /\ line \in [Core -> Seq(Core)]
      /\ inside \in [Core -> BOOLEAN] /\ LineExact(i)
  BY WorkersOfPair DEF Consistent, TypeOK, LinesExact, Unlock, Goto, Working
<1>2. /\ UNCHANGED <<i, slot, build>>
      /\ tpc' = [tpc EXCEPT ![t] = "loop"]
      /\ line' = [line EXCEPT ![i] = Tail(line[i])]
      /\ inside' = [inside EXCEPT ![i] = FALSE]
  BY <1>1 DEF Unlock, Goto, Released, pairs
<1>3. line[i] # <<>> /\ Head(line[i]) = t
  BY <1>1, HolderIsHead DEF Holding
<1>4. Callers(i)' = Callers(i) \ {t} /\ Holders' = Holders \ {t}
  BY <1>1, <1>2 DEF Callers, Holders, InLine, Holding
<1> DEFINE a == Tail(line[i])
<1>5. /\ Lists(a, Callers(i) \ {t})
      /\ \A p \in DOMAIN a : p \in Nat /\ p + 1 \in DOMAIN line[i] /\ a[p] = line[i][p + 1]
      /\ \A p \in DOMAIN line[i] : line[i][p] \in Holders => p = 1
      /\ a # <<>> => Head(a) = line[i][2] /\ 2 \in DOMAIN line[i]
  BY <1>1, <1>3, ListTail DEF LineExact
<1>6. \A p \in DOMAIN a : a[p] \notin Holders
  <2> TAKE p \in DOMAIN a
  <2>1. p \in Nat /\ p > 0
    BY <1>5 DEF Lists
  <2> QED
    BY <1>5, <2>1
<1>7. a # <<>> => Head(a) \notin Holders
  BY <1>5
<1>8. line'[i] = a /\ inside'[i] = FALSE /\ i' = i
  BY <1>1, <1>2
<1>9. LineExact(i)'
  BY <1>4, <1>5, <1>6, <1>7, <1>8 DEF LineExact
<1>10. ~InLine(t)'
  BY <1>1, <1>2 DEF InLine
<1> QED
  BY <1>1, <1>2, <1>9, <1>10, OtherLines

\* Every step leaves every line with its callers.
LEMMA NextKeepsLines == Consistent /\ [Next]_vars => LinesExact'
<1> SUFFICES ASSUME Consistent, [Next]_vars PROVE LinesExact'
  OBVIOUS
<1>0. /\ LinesExact /\ ThreadsFollowMain
      /\ tpc \in [Core -> Places] /\ slot \in [Core -> Core \cup {-1}]
  BY DEF Consistent, TypeOK
<1>1. CASE SetMapping \/ Worked \/ JoinWorker \/ Check \/ UNCHANGED vars
  <2>1. UNCHANGED <<line, inside, build, tpc, slot>>
    BY <1>1 DEF SetMapping, Worked, JoinWorker, Check, Advance, vars, locks, workers
  <2> QED
    BY <1>0, <2>1, LinesKept DEF InLine, Holding
<1>2. CASE Reset
  <2>1. /\ UNCHANGED <<line, inside, build, slot>> /\ mpc = "reset"
        /\ tpc' = [t \in Core |-> "none"]
    BY <1>2 DEF Reset, Step, locks, workers
  <2>2. \A t \in Core : tpc[t] \in {"none", "exit"}
    BY <1>0, <2>1 DEF ThreadsFollowMain
  <2> QED
    BY <1>0, <2>1, <2>2, LinesKept DEF InLine, Holding
<1>3. CASE Create
  <2>1. /\ UNCHANGED <<line, inside, build, slot>> /\ mpc = "create"
        /\ tpc' = [t \in Core |-> IF t = m \/ (t = 0 /\ m + 1 = NCORES)
                                  THEN "start" ELSE tpc[t]]
    BY <1>3 DEF Create, Step, locks, workers
  <2>2. /\ m \in Nat /\ \A t \in Core : t = m \/ t = 0 => tpc[t] = "none"
    BY <1>0, <2>1 DEF ThreadsFollowMain, Core
  <2> QED
    BY <1>0, <2>1, <2>2, LinesKept DEF InLine, Holding
<1>4. ASSUME NEW t \in Core, Worker(t)
      PROVE  LinesExact'
  <2>1. CASE Begin(t) \/ AddAtomic(t) \/ Spin(t) \/ Load(t) \/ Store(t) \/ Return(t)
    <3>1. /\ UNCHANGED <<line, inside, build>>
          /\ \A s \in Core : InLine(s) => slot'[s] = slot[s]
          /\ \/ tpc' = tpc
             \/ \E pl \in {"loop", "exit"} : tpc[t] \in {"start", "loop"}
                                             /\ tpc' = [tpc EXCEPT ![t] = pl]
             \/ \E pl \in {"store", "unlock"} : tpc[t] \in {"load", "store"}
                                                /\ tpc' = [tpc EXCEPT ![t] = pl]
      BY <1>0, <2>1 DEF Begin, AddAtomic, Spin, Load, Store, Return, Goto, vars, locks,
                        workers, InLine
    <3>2. \A s \in Core : (InLine(s)' <=> InLine(s)) /\ (Holding(s)' <=> Holding(s))
      BY <1>0, <3>1 DEF InLine, Holding
    <3> QED
      BY <1>0, <3>1, <3>2, LinesKept
  <2> QED
    BY <1>4, <2>1, JoinKeepsLines, EnterKeepsLines, TryEnterKeepsLines, UnlockKeepsLines
    DEF Worker
<1> QED
  BY <1>1, <1>2, <1>3, <1>4 DEF Next, Main, Exited
-----------------------------------------------------------------------------
\* A step that neither counts nor stores keeps the sums.
LEMMA SumsKept ==
  ASSUME IncrementsConserved, UNCHANGED <<i, j, counters>>, i \in Core, j \in Core,
         mpc' \notin {"map", "reset"} => mpc \notin {"map", "reset"},
         \A s \in Core : /\ Added(s)' = Added(s)
                         /\ tpc'[s] = "store" => \/ reg'[s] = counters[slot'[s]]
                                                 \/ /\ tpc[s] = "store" /\ reg'[s] = reg[s]
                                                    /\ slot'[s] = slot[s]
  PROVE  IncrementsConserved'
<1>1. mpc' \notin {"map", "reset"} =>
        \A c \in Core : counters'[c] = IF c = i' THEN Added(i)' + Added(j)' ELSE 0
  <2>1. Added(i)' = Added(i) /\ Added(j)' = Added(j)
    BY DEF Added, Started
  <2> QED
    BY <2>1 DEF IncrementsConserved
<1>2. \A t \in Core : tpc'[t] = "store" => reg'[t] = counters'[slot'[t]]
  BY DEF IncrementsConserved
<1> QED
  BY <1>1, <1>2 DEF IncrementsConserved

\* The one that counts adds one to its own share and to the pair's counter.
LEMMA SumsGrow ==
  ASSUME Consistent, NEW t \in Core, Working(t), UNCHANGED <<i, j, mpc>>,
         counters' = [counters EXCEPT ![i] = counters[i] + 1],
         \A s \in Core : s # t => n'[s] = n[s] /\ tpc'[s] = tpc[s],
         Added(t)' = Added(t) + 1,
         \A s \in Core : tpc'[s] # "store"
  PROVE  IncrementsConserved'
<1>1. /\ IncrementsConserved /\ MappingKept /\ counters \in [Core -> 0 .. 2 * NLOOPS]
      /\ i \in Core /\ j \in Core /\ i # j
  BY DEF Consistent, TypeOK, MappingKept, Core
<1>2. t \in {i, j} /\ mpc \notin {"map", "reset"}
  BY WorkersOfPair
<1>3. \A s \in Core : s # t => Added(s)' = Added(s)
  BY DEF Added, Started
<1>4. /\ Added(i) \in Nat /\ Added(j) \in Nat
      /\ \A c \in Core : counters[c] = IF c = i THEN Added(i) + Added(j) ELSE 0
  BY <1>1, <1>2, AddedBound DEF IncrementsConserved
<1>5. counters'[i] = Added(i) + Added(j) + 1
      /\ \A c \in Core : c # i => counters'[c] = 0
  BY <1>1, <1>4
<1>6. \/ Added(i)' = Added(i) + 1 /\ Added(j)' = Added(j)
      \/ Added(i)' = Added(i) /\ Added(j)' = Added(j) + 1
  <2>1. CASE t = i
    <3>1. Added(j)' = Added(j)
      BY <1>1, <1>3, <2>1 DEF Added, Started
    <3>2. Added(i)' = Added(i) + 1
      BY <2>1 DEF Added, Started
    <3> QED
      BY <3>1, <3>2
  <2>2. CASE t = j
    <3>1. Added(i)' = Added(i)
      BY <1>1, <1>3, <2>2 DEF Added, Started
    <3>2. Added(j)' = Added(j) + 1
      BY <2>2 DEF Added, Started
    <3> QED
      BY <3>1, <3>2
  <2> QED
    BY <1>2, <2>1, <2>2
<1>7. counters'[i] = Added(i)' + Added(j)'
  BY <1>4, <1>5, <1>6
<1> QED
  BY <1>5, <1>7 DEF IncrementsConserved

\* No increment is lost: one at a time is between its load and its store.
LEMMA NextKeepsIncrements == Consistent /\ [Next]_vars => IncrementsConserved'
<1> SUFFICES ASSUME Consistent, [Next]_vars PROVE IncrementsConserved'
  OBVIOUS
<1>0. /\ IncrementsConserved /\ ThreadsFollowMain /\ MappingKept /\ LinesExact
      /\ i \in Core /\ j \in Core
      /\ tpc \in [Core -> Places] /\ slot \in [Core -> Core \cup {-1}]
      /\ n \in [Core -> 0 .. NLOOPS] /\ reg \in [Core -> 0 .. 2 * NLOOPS]
      /\ counters \in [Core -> 0 .. 2 * NLOOPS]
  BY DEF Consistent, TypeOK
<1>1. CASE SetMapping
  <2>1. /\ mpc = "map" /\ mpc' = "reset" /\ tpc' = tpc
    BY <1>1 DEF SetMapping, Step
  <2>2. \A t \in Core : tpc[t] \in {"none", "exit"}
    BY <1>0, <2>1 DEF ThreadsFollowMain
  <2> QED
    BY <2>1, <2>2 DEF IncrementsConserved
<1>2. CASE Reset
  <2>1. /\ i' = i /\ j' = j /\ tpc' = [t \in Core |-> "none"]
        /\ counters' = [c \in Core |-> 0]
    BY <1>2 DEF Reset, Cleared, pairs
  <2>2. Added(i)' = 0 /\ Added(j)' = 0
    BY <1>0, <2>1 DEF Added, Started
  <2> QED
    BY <1>0, <2>1, <2>2 DEF IncrementsConserved
<1>3. CASE Create
  <2>1. /\ UNCHANGED <<i, j, counters, slot, n, reg>>
        /\ mpc = "create"
        /\ tpc' = [t \in Core |-> IF t = m \/ (t = 0 /\ m + 1 = NCORES)
                                  THEN "start" ELSE tpc[t]]
    BY <1>3 DEF Create, Step, pairs, workers
  <2>2. /\ m \in Nat /\ \A t \in Core : t = m \/ t = 0 => tpc[t] = "none"
    BY <1>0, <2>1 DEF ThreadsFollowMain, Core
  <2>3. \A s \in Core : Added(s)' = Added(s) /\ (tpc'[s] = "store" => tpc[s] = "store")
    BY <1>0, <2>1, <2>2 DEF Added, Started
  <2> QED
    BY <1>0, <2>1, <2>3, SumsKept
<1>4. CASE Worked \/ JoinWorker \/ UNCHANGED vars
  <2>1. /\ UNCHANGED <<i, j, counters, slot, n, reg, tpc>>
        /\ mpc' \notin {"map", "reset"} => mpc \notin {"map", "reset"}
    BY <1>4 DEF Worked, JoinWorker, Step, pairs, workers, vars
  <2>2. \A s \in Core : Added(s)' = Added(s)
    BY <2>1 DEF Added, Started
  <2> QED
    BY <1>0, <2>1, <2>2, SumsKept
<1>5. CASE Check
  <2>1. /\ UNCHANGED <<counters, slot, n, reg, tpc>> /\ mpc = "check"
        /\ mpc' \in {"map", "reset"} \/ (i' = i /\ j' = j)
    BY <1>5 DEF Check, Advance, workers
  <2>2. \A s \in Core : Added(s)' = Added(s)
    BY <2>1 DEF Added, Started
  <2>3. CASE i' = i /\ j' = j
    BY <1>0, <2>1, <2>2, <2>3, SumsKept
  <2>4. CASE mpc' \in {"map", "reset"}
    BY <1>0, <2>1, <2>4 DEF IncrementsConserved
  <2> QED
    BY <2>1, <2>3, <2>4
<1>6. ASSUME NEW t \in Core, Worker(t)
      PROVE  IncrementsConserved'
  <2>0. UNCHANGED <<i, j, mpc>>
    BY <1>6 DEF Worker, Begin, AddAtomic, Join, Enter, TryEnter, Spin, Load, Store,
                Unlock, Return, vars, pairs
  <2>1. CASE Begin(t) \/ Join(t) \/ Enter(t) \/ TryEnter(t) \/ Spin(t) \/ Unlock(t)
             \/ Return(t)
    <3>1. /\ UNCHANGED <<counters, reg>>
          /\ \/ UNCHANGED <<slot, n, tpc>>
             \/ /\ tpc[t] = "start" /\ \A s \in Core : s # t => slot'[s] = slot[s]
                /\ n' = [n EXCEPT ![t] = 0]
                /\ \E pl \in {"loop", "exit"} : tpc' = [tpc EXCEPT ![t] = pl]
             \/ /\ tpc[t] \in {"loop", "wait"} /\ UNCHANGED <<slot, n>>
                /\ \E pl \in {"wait", "load", "exit"} : tpc' = [tpc EXCEPT ![t] = pl]
             \/ /\ tpc[t] = "unlock" /\ UNCHANGED slot
                /\ n' = [n EXCEPT ![t] = n[t] + 1]
                /\ tpc' = [tpc EXCEPT ![t] = "loop"]
      BY <1>0, <2>1 DEF Begin, Join, Enter, TryEnter, Spin, Unlock, Return, Goto, vars,
                        workers
    <3>2. \A s \in Core : Added(s)' = Added(s)
      BY <1>0, <3>1 DEF Added, Started
    <3>3. \A s \in Core : tpc'[s] = "store" => tpc[s] = "store" /\ slot'[s] = slot[s]
      BY <1>0, <3>1
    <3> QED
      BY <1>0, <2>0, <3>1, <3>2, <3>3, SumsKept
  <2>2. CASE AddAtomic(t)
    <3>1. /\ tpc[t] = "loop" /\ slot[t] = i /\ build = "FETCH_ADD"
          /\ counters' = [counters EXCEPT ![i] = counters[i] + 1]
          /\ n' = [n EXCEPT ![t] = n[t] + 1] /\ tpc' = tpc
      BY <2>2, WorkersOfPair DEF AddAtomic, Working
    <3>2. Added(t)' = Added(t) + 1
      BY <1>0, <3>1 DEF Added, Started
    <3>3. \A s \in Core : tpc[s] # "store"
      BY <1>0, <3>1 DEF LinesExact, InLine
    <3> QED
      BY <1>0, <2>0, <3>1, <3>2, <3>3, SumsGrow DEF Working
  <2>3. CASE Load(t)
    <3>1. /\ tpc[t] = "load" /\ UNCHANGED <<counters, slot, n>>
          /\ reg' = [reg EXCEPT ![t] = counters[slot[t]]]
          /\ tpc' = [tpc EXCEPT ![t] = "store"]
      BY <2>3 DEF Load, Goto
    <3>2. \A s \in Core : Added(s)' = Added(s)
      BY <1>0, <3>1 DEF Added, Started
    <3>3. \A s \in Core : tpc'[s] = "store" => \/ reg'[s] = counters[slot'[s]]
                                               \/ tpc[s] = "store" /\ reg'[s] = reg[s]
      BY <1>0, <3>1
    <3> QED
      BY <1>0, <2>0, <3>1, <3>2, <3>3, SumsKept
  <2>4. CASE Store(t)
    <3>1. /\ tpc[t] = "store" /\ slot[t] = i /\ UNCHANGED <<slot, n>>
          /\ counters' = [counters EXCEPT ![i] = reg[t] + 1]
          /\ tpc' = [tpc EXCEPT ![t] = "unlock"]
      BY <2>4, WorkersOfPair DEF Store, Goto, workers, Working
    <3>2. reg[t] = counters[i]
      BY <1>0, <3>1 DEF IncrementsConserved
    <3>3. Added(t)' = Added(t) + 1
      BY <1>0, <3>1 DEF Added, Started
    <3>4. \A s \in Core : tpc'[s] # "store"
      BY <1>0, <3>1, OneHolder DEF Holding
    <3> QED
      BY <1>0, <2>0, <3>1, <3>2, <3>3, <3>4, SumsGrow DEF Working
  <2> QED
    BY <1>6, <2>1, <2>2, <2>3, <2>4 DEF Worker
<1> QED
  BY <1>1, <1>2, <1>3, <1>4, <1>5, <1>6 DEF Next, Main, Exited
-----------------------------------------------------------------------------
\* What the assert compares: both workers of the pair have counted NLOOPS
\* times when main has joined them, and the mapping names nobody else.
LEMMA CountersAsExpected ==
  ASSUME Consistent, mpc = "check", NEW c \in Core
  PROVE  counters[c] = Expected(c)
<1>1. /\ NLOOPS \in Nat /\ i \in Core /\ j \in Core /\ i # j /\ -1 \notin Core
  <2>1. TypeOK /\ i < j /\ i \in Core /\ j \in Core
    BY DEF Consistent, TypeOK, MappingKept
  <2> QED
    BY <2>1, Types
<1>2. /\ \A t \in Core : mapping[t] = IF t \in {i, j} THEN i ELSE -1
      /\ \A t \in Core : tpc[t] = "exit" /\ slot[t] = mapping[t]
  BY DEF Consistent, ThreadsFollowMain, MappingKept, Started
<1>3. n[i] = NLOOPS /\ n[j] = NLOOPS
  BY <1>1, <1>2 DEF Consistent, MappingKept
<1>4. counters[c] = IF c = i THEN NLOOPS + NLOOPS ELSE 0
  BY <1>1, <1>2, <1>3 DEF Consistent, IncrementsConserved, Added, Started
<1> DEFINE Mapped == {t \in Core : mapping[t] = c}
<1>5. CASE c = i
  <2>1. Mapped = {i, j}
    BY <1>1, <1>2, <1>5
  <2>2. Cardinality({i}) = 1 /\ IsFiniteSet({i})
    BY FS_Singleton
  <2>3. Cardinality({i} \cup {j}) = 2
    BY <1>1, <2>2, FS_AddElement
  <2>4. {i, j} = {i} \cup {j}
    OBVIOUS
  <2>5. Expected(c) = NLOOPS * 2
    BY <2>1, <2>3, <2>4 DEF Expected
  <2> QED
    BY <1>1, <1>4, <1>5, <2>5
<1>6. CASE c # i
  <2>1. Mapped = {}
    BY <1>1, <1>2, <1>6
  <2>2. Expected(c) = NLOOPS * 0
    BY <2>1, FS_EmptySet DEF Expected
  <2> QED
    BY <1>1, <1>4, <1>6, <2>2
<1> QED
  BY <1>5, <1>6

\* The assert never fires.
LEMMA NextKeepsAssert == Consistent /\ [Next]_vars => AssertHolds'
<1> SUFFICES ASSUME Consistent, [Next]_vars PROVE mpc' # "abort"
  BY DEF AssertHolds
<1>1. mpc # "abort"
  BY DEF Consistent, AssertHolds
<1>2. CASE Check
  <2>1. \A c \in Core : counters[c] = Expected(c)
    BY <1>2, CountersAsExpected DEF Check
  <2> QED
    BY <1>2, <2>1 DEF Check, Advance
<1>3. CASE SetMapping \/ Reset \/ Create \/ Worked \/ JoinWorker \/ UNCHANGED vars
  BY <1>1, <1>3 DEF SetMapping, Reset, Create, Worked, JoinWorker, Step, vars
<1>4. ASSUME NEW t \in Core, Worker(t) PROVE mpc' = mpc
  BY <1>4 DEF Worker, Begin, AddAtomic, Join, Enter, TryEnter, Spin, Load, Store,
              Unlock, Return, vars
<1> QED
  BY <1>1, <1>2, <1>3, <1>4 DEF Next, Main, Exited

\* The log, over the ends of the three loops.
LEMMA NextKeepsTook == Consistent /\ [Next]_vars => TookExact'
<1> SUFFICES ASSUME Consistent, [Next]_vars PROVE TookExact'
  OBVIOUS
<1>0. /\ TookExact /\ i < j /\ took \in [Core \X Core -> 0 .. NRUNS]
      /\ NCORES \in Nat /\ i \in Nat /\ j \in Nat /\ i < NCORES /\ j < NCORES
      /\ i \in Core /\ j \in Core
      /\ NRUNS \in Nat /\ k \in Nat /\ k < NRUNS /\ NRUNS > 0
      /\ \A t \in Core : t \in Nat /\ t < NCORES
  <2>1. /\ TypeOK /\ TookExact /\ i < j /\ took \in [Core \X Core -> 0 .. NRUNS]
        /\ i \in Core /\ j \in Core
    BY DEF Consistent, TypeOK, MappingKept
  <2>2. \A t \in Core : t \in Nat /\ t < NCORES
    BY BenchAssumption DEF Core
  <2> QED
    BY <2>1, <2>2, Types
<1>1. CASE Check
  <2>1. /\ mpc = "check" /\ Advance
        /\ took' = [took EXCEPT ![<<i, j>>] = took[<<i, j>>] + 1]
    <3>1. \A c \in Core : counters[c] = Expected(c)
      BY <1>1, CountersAsExpected DEF Check
    <3> QED
      BY <1>1, <3>1 DEF Check
  <2>2. \A a, b \in Core :
          took'[<<a, b>>] = IF a = i /\ b = j THEN k + 1
                            ELSE IF a < b /\ (a < i \/ (a = i /\ b < j)) THEN NRUNS
                            ELSE 0
    BY <1>0, <2>1 DEF TookExact, Before
  <2>3. SUFFICES
          /\ \A a, b \in Core :
               took'[<<a, b>>]
                 = IF a = i' /\ b = j' THEN (IF mpc' = "done" THEN NRUNS ELSE k')
                   ELSE IF a < b /\ (a < i' \/ (a = i' /\ b < j')) THEN NRUNS ELSE 0
          /\ mpc' = "done" => i' + 2 = NCORES /\ j' + 1 = NCORES
    <3>1. \A p \in Core \X Core : p = <<p[1], p[2]>> /\ p[1] \in Core /\ p[2] \in Core
      OBVIOUS
    <3> QED
      BY <3>1 DEF TookExact, Before
  <2>4. CASE /\ k + 1 # NRUNS
             /\ mpc' = "reset" /\ k' = k + 1 /\ i' = i /\ j' = j
    BY <1>0, <2>2, <2>4
  <2>5. CASE /\ k + 1 = NRUNS /\ k' = 0
             /\ j + 1 < NCORES /\ i' = i /\ j' = j + 1 /\ mpc' = "map"
    <3>1. ASSUME NEW a \in Core, NEW b \in Core
          PROVE  took'[<<a, b>>] = IF a = i /\ b = j + 1 THEN 0
                                   ELSE IF a < b /\ (a < i \/ (a = i /\ b < j + 1))
                                        THEN NRUNS ELSE 0
      BY <1>0, <2>2, <2>5
    <3> QED
      BY <2>5, <3>1
  <2>6. CASE /\ k + 1 = NRUNS /\ k' = 0 /\ j + 1 = NCORES
             /\ i + 2 < NCORES /\ i' = i + 1 /\ j' = i + 2 /\ mpc' = "map"
    <3>1. ASSUME NEW a \in Core, NEW b \in Core
          PROVE  took'[<<a, b>>]
                   = IF a = i + 1 /\ b = i + 2 THEN 0
                     ELSE IF a < b /\ (a < i + 1 \/ (a = i + 1 /\ b < i + 2))
                          THEN NRUNS ELSE 0
      BY <1>0, <2>2, <2>6
    <3> QED
      BY <2>6, <3>1
  <2>7. CASE /\ k + 1 = NRUNS /\ k' = 0 /\ j + 1 = NCORES
             /\ i + 2 = NCORES /\ mpc' = "done" /\ i' = i /\ j' = j
    BY <1>0, <2>2, <2>7
  <2> QED
    BY <2>1, <2>4, <2>5, <2>6, <2>7 DEF Advance, LastRun
<1>2. CASE SetMapping \/ Reset \/ Create \/ Worked \/ JoinWorker
  BY <1>0, <1>2 DEF SetMapping, Reset, Create, Worked, JoinWorker, Step, pairs,
                    TookExact, Before
<1>3. ASSUME NEW t \in Core, Worker(t) PROVE UNCHANGED <<i, j, k, took, mpc>>
  BY <1>3 DEF Worker, Begin, AddAtomic, Join, Enter, TryEnter, Spin, Load, Store,
              Unlock, Return, vars, pairs
<1>4. CASE UNCHANGED <<i, j, k, took, mpc>>
  BY <1>0, <1>4 DEF TookExact, Before
<1> QED
  BY <1>1, <1>2, <1>3, <1>4 DEF Next, Main, Exited, vars

-----------------------------------------------------------------------------
\* A function with one value replaced keeps its type.
LEMMA ExceptType ==
  ASSUME NEW S, NEW T, NEW f \in [S -> T], NEW x, NEW y \in T
  PROVE  [f EXCEPT ![x] = y] \in [S -> T]
OBVIOUS

\* A count below its bound has room for one more.
LEMMA OneMore == ASSUME NEW a \in Nat, NEW b \in Nat, a < b PROVE a + 1 \in 0 .. b
OBVIOUS

\* The types; a counter stays below its bound as long as a worker still counts.
LEMMA NextKeepsTypes == Consistent /\ [Next]_vars => TypeOK'
<1> SUFFICES ASSUME Consistent, [Next]_vars PROVE TypeOK'
  OBVIOUS
<1>0. /\ TypeOK /\ i < j
  BY DEF Consistent, MappingKept
<1>a. /\ NCORES \in Nat /\ NCORES > 1 /\ NLOOPS \in Nat /\ NLOOPS > 0
      /\ NRUNS \in Nat /\ NRUNS > 0 /\ 0 \in Core
      /\ i \in Nat /\ j \in Nat /\ i < NCORES /\ j < NCORES
      /\ k \in Nat /\ k < NRUNS /\ m \in Nat /\ m =< NCORES
      /\ \A x \in Nat : x < NCORES => x \in Core
  BY <1>0, Types DEF Core
<1>b. /\ counters \in [Core -> 0 .. 2 * NLOOPS] /\ n \in [Core -> 0 .. NLOOPS]
      /\ \A x \in Core : n[x] \in Nat
      /\ slot \in [Core -> Core \cup {-1}] /\ mapping \in [Core -> Core \cup {-1}]
      /\ line \in [Core -> Seq(Core)] /\ inside \in [Core -> BOOLEAN]
      /\ i \in Core /\ j \in Core
  BY <1>0, Types DEF TypeOK
<1>c. /\ 2 * NLOOPS \in Nat
      /\ \A x \in Core : counters[x] \in Nat
  BY <1>a, <1>b
<1>1. CASE SetMapping
  <2>1. mapping' \in [Core -> Core \cup {-1}]
    BY <1>0, <1>1 DEF SetMapping, Shared, TypeOK
  <2> QED
    BY <1>0, <1>1, <2>1 DEF SetMapping, Step, TypeOK, locks, workers
<1>2. CASE Reset
  <2>1. /\ counters' \in [Core -> 0 .. 2 * NLOOPS] /\ tpc' \in [Core -> Places]
        /\ m' \in 0 .. NCORES
    BY <1>a, <1>2 DEF Reset, Cleared, Places
  <2> QED
    BY <1>0, <1>2, <2>1 DEF Reset, Step, TypeOK, pairs, locks, workers
<1>3. CASE Create
  <2>1. m < NCORES
    BY <1>3, <1>a DEF Create, Step, Consistent, ThreadsFollowMain
  <2>2. tpc' \in [Core -> Places]
    BY <1>0, <1>3 DEF Create, TypeOK, Places
  <2>3. m' \in 0 .. NCORES /\ mpc' \in {"create", "work"}
    BY <1>3, <1>a, <2>1 DEF Create, Step
  <2> QED
    BY <1>0, <1>3, <2>2, <2>3 DEF Create, TypeOK, pairs, locks, workers
<1>4. CASE Worked
  <2>1. m' \in 0 .. NCORES
    BY <1>4, <1>a DEF Worked
  <2> QED
    BY <1>0, <1>4, <2>1 DEF Worked, Step, TypeOK, pairs, locks, workers
<1>5. CASE JoinWorker
  <2>1. m < NCORES
    BY <1>5, <1>a DEF JoinWorker, Step, Consistent, ThreadsFollowMain
  <2>2. m' \in 0 .. NCORES /\ mpc' \in {"join", "check"}
    BY <1>5, <1>a, <2>1 DEF JoinWorker, Step
  <2> QED
    BY <1>0, <1>5, <2>2 DEF JoinWorker, TypeOK, pairs, locks, workers
<1>6. CASE Check
  <2>1. UNCHANGED <<build, mapping, counters, line, inside, m, tpc, slot, n, reg>>
    BY <1>6 DEF Check, locks, workers
  <2>2. /\ i' \in Core /\ j' \in Core /\ k' \in 0 .. NRUNS - 1
        /\ mpc' \in {"reset", "map", "done", "abort"}
    <3>1. /\ k + 1 # NRUNS => k + 1 \in 0 .. NRUNS - 1
          /\ 0 \in 0 .. NRUNS - 1
          /\ k \in 0 .. NRUNS - 1
          /\ j + 1 < NCORES => j + 1 \in Core
          /\ i + 2 < NCORES => i + 1 \in Core /\ i + 2 \in Core
      BY <1>a
    <3> QED
      BY <1>b, <1>6, <3>1 DEF Check, Advance, LastRun
  <2>3. took' \in [Core \X Core -> 0 .. NRUNS]
    <3>1. took[<<i, j>>] = k /\ <<i, j>> \in Core \X Core
      BY <1>0, <1>6 DEF Consistent, TookExact, Check, TypeOK
    <3>2. took[<<i, j>>] + 1 \in 0 .. NRUNS
      BY <1>a, <3>1
    <3> QED
      BY <1>0, <1>6, <3>2 DEF Check, TypeOK
  <2> QED
    BY <1>0, <2>1, <2>2, <2>3 DEF TypeOK
<1>7. ASSUME NEW t \in Core, Worker(t)
      PROVE  TypeOK'
  <2>0. UNCHANGED <<build, i, j, k, m, mapping, mpc, took>>
    BY <1>7 DEF Worker, Begin, AddAtomic, Join, Enter, TryEnter, Spin, Load, Store,
                Unlock, Return, vars, pairs
  <2>1. tpc' \in [Core -> Places]
    BY <1>0, <1>7 DEF Worker, Begin, AddAtomic, Join, Enter, TryEnter, Spin, Load, Store,
                Unlock, Return, Goto, vars, TypeOK, Places
  <2>2. CASE Begin(t)
    <3>1. slot' \in [Core -> Core \cup {-1}] /\ n' \in [Core -> 0 .. NLOOPS]
      <4>1. mapping[t] \in Core \cup {-1} /\ 0 \in 0 .. NLOOPS
        BY <1>a, <1>b
      <4>2. [slot EXCEPT ![t] = mapping[t]] \in [Core -> Core \cup {-1}]
        BY <1>b, <4>1, ExceptType
      <4>3. [n EXCEPT ![t] = 0] \in [Core -> 0 .. NLOOPS]
        BY <1>b, <4>1, ExceptType
      <4> QED
        BY <2>2, <4>2, <4>3 DEF Begin
    <3> QED
      BY <1>0, <2>0, <2>1, <2>2, <3>1 DEF Begin, TypeOK, locks
  <2>3. CASE AddAtomic(t)
    <3>1. /\ Working(t) /\ tpc[t] = "loop" /\ n[t] < NLOOPS
      BY <2>3 DEF AddAtomic, Working
    <3>2. n' \in [Core -> 0 .. NLOOPS]
      <4>1. n[t] + 1 \in 0 .. NLOOPS
        BY <1>a, <1>b, <3>1, OneMore
      <4>2. [n EXCEPT ![t] = n[t] + 1] \in [Core -> 0 .. NLOOPS]
        BY <1>b, <4>1, ExceptType
      <4> QED
        BY <2>3, <4>2 DEF AddAtomic
    <3>3. counters[i] < 2 * NLOOPS
      <4>1. counters[i] = Added(i) + Added(j) /\ t \in {i, j} /\ i \in Core /\ j \in Core
        BY <1>0, <3>1, WorkersOfPair DEF Consistent, IncrementsConserved, TypeOK
      <4>2. /\ Added(i) \in Nat /\ Added(j) \in Nat
            /\ Added(i) =< NLOOPS /\ Added(j) =< NLOOPS
        BY <4>1, AddedBound
      <4>3. Added(t) < NLOOPS
        BY <3>1, AddedBound
      <4>4. Added(i) < NLOOPS \/ Added(j) < NLOOPS
        BY <4>1, <4>3
      <4> QED
        BY <1>a, <4>1, <4>2, <4>4
    <3>4. slot[t] = i /\ i \in Core
      BY <1>0, <3>1, WorkersOfPair DEF TypeOK
    <3>5. counters' \in [Core -> 0 .. 2 * NLOOPS]
      <4>1. counters[i] + 1 \in 0 .. 2 * NLOOPS
        BY <1>b, <1>c, <3>3, OneMore
      <4>2. [counters EXCEPT ![i] = counters[i] + 1] \in [Core -> 0 .. 2 * NLOOPS]
        BY <1>b, <4>1, ExceptType
      <4> QED
        BY <2>3, <3>4, <4>2 DEF AddAtomic
    <3> QED
      BY <1>0, <2>0, <2>1, <2>3, <3>2, <3>5 DEF AddAtomic, TypeOK, locks
  <2>4. CASE Join(t) \/ Enter(t) \/ TryEnter(t) \/ Spin(t) \/ Return(t)
    <3>1. line' \in [Core -> Seq(Core)] /\ inside' \in [Core -> BOOLEAN]
      <4>1. CASE Join(t)
        <5>1. Append(line[slot[t]], t) \in Seq(Core) \/ slot[t] \notin Core
          BY <1>b
        <5> QED
          BY <1>b, <2>4, <4>1, <5>1 DEF Join
      <4>2. CASE TryEnter(t)
        <5>1. <<t>> \in Seq(Core)
          OBVIOUS
        <5> QED
          BY <1>b, <4>2, <5>1 DEF TryEnter
      <4>3. CASE Enter(t) \/ Spin(t) \/ Return(t)
        BY <1>b, <4>3 DEF Enter, Spin, Return, vars, locks
      <4> QED
        BY <2>4, <4>1, <4>2, <4>3
    <3>2. UNCHANGED <<counters, slot, n, reg>>
      BY <2>4 DEF Join, Enter, TryEnter, Spin, Return, vars, workers
    <3> QED
      BY <1>0, <2>0, <2>1, <3>1, <3>2 DEF TypeOK
  <2>5. CASE Load(t)
    <3>1. slot[t] \in Core
      BY <2>5, WorkersOfPair DEF Load, Goto, Working
    <3>2. reg' \in [Core -> 0 .. 2 * NLOOPS]
      BY <1>0, <2>5, <3>1 DEF Load, TypeOK
    <3> QED
      BY <1>0, <2>0, <2>1, <2>5, <3>2 DEF Load, TypeOK, locks
  <2>6. CASE Store(t)
    <3>1. /\ Working(t) /\ tpc[t] = "store"
      BY <2>6 DEF Store, Goto, Working
    <3>2. /\ slot[t] = i /\ i \in Core /\ j \in Core /\ t \in {i, j}
          /\ reg[t] = counters[i] /\ n[t] < NLOOPS
          /\ counters[i] = Added(i) + Added(j)
      BY <1>0, <3>1, WorkersOfPair
      DEF Consistent, IncrementsConserved, MappingKept, InLine, TypeOK
    <3>3. counters[i] < 2 * NLOOPS
      <4>1. /\ Added(i) \in Nat /\ Added(j) \in Nat
            /\ Added(i) =< NLOOPS /\ Added(j) =< NLOOPS
        BY <3>2, AddedBound
      <4>2. Added(t) < NLOOPS
        BY <3>1, <3>2, AddedBound
      <4>3. Added(i) < NLOOPS \/ Added(j) < NLOOPS
        BY <3>2, <4>2
      <4> QED
        BY <1>a, <3>2, <4>1, <4>3
    <3>4. counters' \in [Core -> 0 .. 2 * NLOOPS]
      <4>1. reg[t] + 1 \in 0 .. 2 * NLOOPS
        BY <1>b, <1>c, <3>2, <3>3, OneMore
      <4>2. [counters EXCEPT ![i] = reg[t] + 1] \in [Core -> 0 .. 2 * NLOOPS]
        BY <1>b, <4>1, ExceptType
      <4> QED
        BY <2>6, <3>2, <4>2 DEF Store
    <3> QED
      BY <1>0, <2>0, <2>1, <2>6, <3>4 DEF Store, TypeOK, locks, workers
  <2>7. CASE Unlock(t)
    <3>1. /\ Holding(t) /\ tpc[t] = "unlock"
      BY <2>7 DEF Unlock, Goto, Holding
    <3>2. /\ slot[t] = i /\ n[t] < NLOOPS
          /\ line[i] \in Seq(Core) /\ line[i] # <<>>
      BY <3>1, HolderIsHead DEF Consistent, MappingKept, InLine
    <3>3. n' \in [Core -> 0 .. NLOOPS]
      <4>1. n[t] + 1 \in 0 .. NLOOPS
        BY <1>a, <1>b, <3>2, OneMore
      <4>2. [n EXCEPT ![t] = n[t] + 1] \in [Core -> 0 .. NLOOPS]
        BY <1>b, <4>1, ExceptType
      <4> QED
        BY <2>7, <4>2 DEF Unlock
    <3>4. Tail(line[i]) \in Seq(Core)
      BY <3>2, HeadTailProperties
    <3>5. line' \in [Core -> Seq(Core)] /\ inside' \in [Core -> BOOLEAN]
      BY <1>0, <2>7, <3>2, <3>4 DEF Unlock, Released, TypeOK
    <3> QED
      BY <1>0, <2>0, <2>1, <2>7, <3>3, <3>5 DEF Unlock, TypeOK
  <2> QED
    BY <1>7, <2>2, <2>3, <2>4, <2>5, <2>6, <2>7 DEF Worker
<1>8. CASE UNCHANGED vars
  BY <1>0, <1>8 DEF vars, TypeOK
<1> QED
  BY <1>1, <1>2, <1>3, <1>4, <1>5, <1>6, <1>7, <1>8 DEF Next, Main, Exited
-----------------------------------------------------------------------------
\* The start: main is about to map the first pair.
LEMMA InitConsistent == Init => Consistent
<1> SUFFICES ASSUME Init PROVE Consistent
  OBVIOUS
<1>1. /\ NCORES \in Nat /\ NCORES > 1 /\ NLOOPS \in Nat /\ NLOOPS > 0
      /\ NRUNS \in Nat /\ NRUNS > 0 /\ 0 \in Core /\ 1 \in Core
      /\ \A t \in Core : t \in Nat
      /\ 0 \in 0 .. NLOOPS /\ 0 \in 0 .. 2 * NLOOPS /\ 0 \in 0 .. NRUNS
      /\ 0 \in 0 .. NRUNS - 1 /\ 0 \in 0 .. NCORES
  BY BenchAssumption DEF Core
<1>2. TypeOK
  <2>1. line \in [Core -> Seq(Core)] /\ inside \in [Core -> BOOLEAN]
    BY DEF Init
  <2>2. /\ counters \in [Core -> 0 .. 2 * NLOOPS] /\ reg \in [Core -> 0 .. 2 * NLOOPS]
        /\ n \in [Core -> 0 .. NLOOPS] /\ took \in [Core \X Core -> 0 .. NRUNS]
    BY <1>1 DEF Init
  <2>3. /\ mapping \in [Core -> Core \cup {-1}] /\ slot \in [Core -> Core \cup {-1}]
        /\ tpc \in [Core -> Places]
    BY <1>1 DEF Init, Places
  <2> QED
    BY <1>1, <2>1, <2>2, <2>3 DEF Init, TypeOK
<1>3. ThreadsFollowMain
  BY DEF Init, ThreadsFollowMain
<1>4. MappingKept
  BY DEF Init, MappingKept, Started, Working, InLine
<1>5. LinesExact
  <2>1. ASSUME NEW c \in Core PROVE LineExact(c)
    <3>1. Callers(c) = {} /\ line[c] = <<>> /\ inside[c] = FALSE
      BY DEF Init, Callers, InLine
    <3>2. <<>> \in Seq({}) /\ DOMAIN <<>> = {}
      OBVIOUS
    <3> QED
      BY <3>1, <3>2 DEF LineExact, Lists
  <2> QED
    BY <2>1 DEF Init, LinesExact, InLine
<1>6. AssertHolds /\ IncrementsConserved
  BY DEF Init, AssertHolds, IncrementsConserved
<1>7. TookExact
  <2>1. \A p \in Core \X Core : p[1] \in Nat /\ p[2] \in Nat /\ p = <<p[1], p[2]>>
    BY <1>1
  <2> QED
    BY <2>1 DEF Init, TookExact, Before
<1> QED
  BY <1>2, <1>3, <1>4, <1>5, <1>6, <1>7 DEF Consistent

\* The inductive invariant: whatever lock is compiled in and however the
\* workers are scheduled, the counters agree with the work done at every step,
\* and the assert at the end of run() never fires.
THEOREM BenchConsistent == Spec => []Consistent
<1>1. Consistent /\ [Next]_vars => Consistent'
  BY NextKeepsTypes, NextKeepsThreads, NextKeepsMapping, NextKeepsLines, NextKeepsAssert,
     NextKeepsIncrements, NextKeepsTook
  DEF Consistent
<1> QED
  BY InitConsistent, <1>1, PTL DEF Spec

\* Between two runs the threads are joined and the locks are idle, so that
\* main() may clear the counters without a lock and need not initialise the
\* locks again.
THEOREM BenchQuiet == Spec => []QuietBetweenRuns
<1>1. Consistent => QuietBetweenRuns
  <2> SUFFICES ASSUME Consistent, mpc \in {"map", "reset", "check", "done"}
               PROVE  /\ \A t \in Core : tpc[t] \in {"none", "exit"}
                      /\ \A c \in Core : line[c] = <<>> /\ ~inside[c]
    BY DEF QuietBetweenRuns
  <2>1. \A t \in Core : tpc[t] \in {"none", "exit"}
    BY DEF Consistent, ThreadsFollowMain
  <2>2. ASSUME NEW c \in Core PROVE line[c] = <<>> /\ ~inside[c]
    <3>1. Callers(c) = {}
      BY <2>1 DEF Callers, InLine
    <3>2. line[c] \in Seq({}) /\ (inside[c] => line[c] # <<>>)
      BY <3>1 DEF Consistent, LinesExact, LineExact, Lists
    <3>3. line[c] = <<>>
      BY <3>2, EmptySeq
    <3> QED
      BY <3>2, <3>3
  <2> QED
    BY <2>1, <2>2
<1> QED
  BY <1>1, BenchConsistent, PTL

\* At the end the log has NRUNS times for each pair, and for nothing else.
THEOREM BenchMeasuresAll == Spec => []EveryPairMeasured
<1>1. Consistent => EveryPairMeasured
  <2> SUFFICES ASSUME Consistent, mpc = "done", NEW p \in Core \X Core
               PROVE  took[p] = IF p[1] < p[2] THEN NRUNS ELSE 0
    BY DEF EveryPairMeasured
  <2>1. /\ TookExact /\ i + 2 = NCORES /\ j + 1 = NCORES
    BY DEF Consistent, TookExact
  <2>2. /\ NCORES \in Nat /\ i \in Nat /\ j \in Nat
    BY Types DEF Consistent
  <2>3. /\ p[1] \in Nat /\ p[1] < NCORES /\ p[2] \in Nat /\ p[2] < NCORES
        /\ p = <<p[1], p[2]>>
    BY <2>2 DEF Core
  <2>4. p = <<i, j>> <=> p[1] = i /\ p[2] = j
    BY <2>3
  <2> QED
    BY <2>1, <2>2, <2>3, <2>4 DEF TookExact, Before
<1> QED
  BY <1>1, BenchConsistent, PTL
-----------------------------------------------------------------------------
(* The spin locks, for any set of threads and all three builds *)

\* Every step of every variant keeps the word and the holder together: the
\* exchange that takes the lock found it free, so that nobody was inside.
LEMMA SpinNextKeepsIInv == IInv /\ [SpinNext]_spinVars => IInv'
<1> SUFFICES ASSUME IInv, [SpinNext]_spinVars
             PROVE  IInv'
  OBVIOUS
<1> USE DEF IInv, SpinTypeOK, MutualExclusion, WordExact, Owns, Go
<1>1. ASSUME NEW t \in Threads, Call(t)
      PROVE  IInv'
  BY <1>1 DEF Call
<1>2. ASSUME NEW t \in Threads, Read(t)
      PROVE  IInv'
  BY <1>2 DEF Read, AfterRead
<1>3. ASSUME NEW t \in Threads, Take(t)
      PROVE  IInv'
  <2>1. \A s \in Threads : ~Owns(s)
    BY <1>3 DEF Take
  <2>2. /\ lock' = 1 /\ pc'[t] = "cs"
        /\ \A s \in Threads : s # t => pc'[s] = pc[s]
        /\ pc' \in [Threads -> {"out", "read", "xchg", "cs"}]
    BY <1>3 DEF Take, Marked
  <2> QED
    BY <2>1, <2>2, <1>3 DEF Take
<1>4. ASSUME NEW t \in Threads, Miss(t)
      PROVE  IInv'
  BY <1>4 DEF Miss, Retry, Marked
<1>5. ASSUME NEW t \in Threads, Release(t)
      PROVE  IInv'
  BY <1>5 DEF Release, Freed
<1>6. CASE UNCHANGED spinVars
  BY <1>6 DEF spinVars
<1> QED
  BY <1>1, <1>2, <1>3, <1>4, <1>5, <1>6 DEF SpinNext, SpinStep

\* Type correctness, mutual exclusion and the exactness of the word, together.
THEOREM SpinInvariant == SpinSpec => []IInv
<1>1. SpinInit => IInv
  BY DEF SpinInit, IInv, SpinTypeOK, MutualExclusion, WordExact, Owns
<1> QED
  BY <1>1, SpinNextKeepsIInv, PTL DEF SpinSpec

\* Two threads are never inside a spin lock, in any of the three builds.
THEOREM SpinMutualExclusion == SpinSpec => []MutualExclusion
<1>1. IInv => MutualExclusion
  BY DEF IInv
<1> QED
  BY <1>1, SpinInvariant, PTL

\* The refinement mapping picks the holder: the one thread whose pc is "cs".
LEMMA OnlyHolder ==
  ASSUME NEW f, NEW t \in Threads, f[t] = "cs",
         \A s \in Threads : f[s] = "cs" => s = t
  PROVE  (CHOOSE s \in Threads : f[s] = "cs") = t
OBVIOUS

\* The spin locks implement LockSpec: an exchange that takes the lock is a
\* TryEnter, an unlock a Leave, and everything else is invisible.
THEOREM SpinRefinesLock == SpinSpec => RefinesLock
<1> DEFINE Inside == \E t \in Threads : Owns(t)
           Line == IF Inside THEN <<CHOOSE t \in Threads : Owns(t)>> ELSE <<>>
<1>1. SpinInit => Abstract!Init
  BY DEF SpinInit, Abstract!Init, Owns
<1>2. ASSUME IInv, IInv', [SpinNext]_spinVars
      PROVE  [Abstract!Next]_Abstract!vars
  <2>0. MutualExclusion /\ MutualExclusion'
    BY <1>2 DEF IInv
  <2>1. ASSUME NEW t \in Threads, Take(t)
        PROVE  Abstract!TryEnter(t)
    <3>1. ~Inside
      BY <2>1, <1>2 DEF Take, IInv, WordExact
    <3>2. Owns(t)'
      BY <2>1, <1>2 DEF Take, Go, Owns, IInv, SpinTypeOK
    <3>3. \A s \in Threads : pc'[s] = "cs" => s = t
      BY <2>0, <3>2 DEF MutualExclusion, Owns
    <3>4. pc'[t] = "cs"
      BY <3>2 DEF Owns
    <3>5. (CHOOSE s \in Threads : pc'[s] = "cs") = t
      BY <3>3, <3>4, OnlyHolder
    <3>6. Inside' /\ Line' = <<t>>
      BY <3>4, <3>5 DEF Owns
    <3> QED
      BY <3>1, <3>6 DEF Abstract!TryEnter
  <2>2. ASSUME NEW t \in Threads, Release(t)
        PROVE  Abstract!Leave(t)
    <3>1. Owns(t)
      BY <2>2 DEF Release, Go, Owns
    <3>2. (CHOOSE s \in Threads : pc[s] = "cs") = t
      BY <2>0, <3>1, OnlyHolder DEF MutualExclusion, Owns
    <3>3. Inside /\ Line = <<t>>
      BY <3>1, <3>2 DEF Owns
    <3>4. ~Inside'
      BY <2>2, <1>2 DEF Release, Freed, IInv, WordExact, SpinTypeOK
    <3>5. Line' = <<>> /\ Head(Line) = t /\ Tail(Line) = <<>>
      BY <3>3, <3>4
    <3> QED
      BY <3>3, <3>4, <3>5 DEF Abstract!Leave
  <2>3. ASSUME \A t \in Threads : Owns(t)' <=> Owns(t)
        PROVE  UNCHANGED Abstract!vars
    <3>1. Inside' <=> Inside
      BY <2>3
    <3>2. Line' = Line
      <4>1. CASE Inside
        <5>1. PICK t \in Threads : pc[t] = "cs"
          BY <4>1 DEF Owns
        <5>2. /\ pc'[t] = "cs"
              /\ \A s \in Threads : pc[s] = "cs" => s = t
              /\ \A s \in Threads : pc'[s] = "cs" => s = t
          BY <5>1, <2>0, <2>3 DEF MutualExclusion, Owns
        <5>3. /\ (CHOOSE s \in Threads : pc[s] = "cs") = t
              /\ (CHOOSE s \in Threads : pc'[s] = "cs") = t
          BY <5>1, <5>2, OnlyHolder
        <5> QED
          BY <5>3, <4>1, <3>1 DEF Owns
      <4>2. CASE ~Inside
        BY <4>2, <3>1
      <4> QED
        BY <4>1, <4>2
    <3> QED
      BY <3>1, <3>2 DEF Abstract!vars
  <2>4. ASSUME NEW t \in Threads, Call(t) \/ Read(t) \/ Miss(t)
        PROVE  \A s \in Threads : Owns(s)' <=> Owns(s)
    BY <2>4, <1>2 DEF Call, Read, Miss, Retry, AfterRead, Go, Owns,
                      IInv, SpinTypeOK
  <2>5. CASE UNCHANGED spinVars
    BY <2>5, <2>3 DEF spinVars, Owns
  <2> QED
    BY <1>2, <2>1, <2>2, <2>3, <2>4, <2>5 DEF SpinNext, SpinStep, Abstract!Next
<1> QED
  BY <1>1, <1>2, SpinInvariant, PTL DEF SpinSpec, RefinesLock, Abstract!Spec
=============================================================================
