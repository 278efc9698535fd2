------------------------------ MODULE LocksBench ------------------------------
(***************************************************************************)
(* locks/main.c: the benchmark around the locks.  main() measures each     *)
(* pair of cores NRUNS times; run() clears the counters, starts a worker   *)
(* on every core (its own included), joins them and asserts that the       *)
(* counter the pair shares counts all its increments.  Thread 0 is main    *)
(* itself.  A lock is what LockSpec promises: a queue (k42, ticketlock) or *)
(* a lock taken when it happens to be free (pthread's two, TAS, TATAS and  *)
(* spinlock.c); USE_SYNC_FETCH_ADD has none.                               *)
(***************************************************************************)
EXTENDS Integers, Sequences, FiniteSets

CONSTANTS NCORES, NLOOPS, NRUNS

ASSUME BenchAssumption == /\ NCORES \in Nat /\ NCORES > 1
                          /\ NLOOPS \in Nat \ {0} /\ NRUNS \in Nat \ {0}

Core == 0 .. NCORES - 1

VARIABLES build,             \* which kind of lock was compiled in
          i, j, k,           \* main's loops: the pair and the run
          mapping, counters, \* the globals
          line, inside,      \* the locks, each a LockSpec
          mpc, m,            \* where main is; the loop index in run
          tpc, slot, n, reg, \* the workers: place, mapping read, i, *c loaded
          took               \* history: the times logged, for each pair
vars == <<build, i, j, k, mapping, counters, line, inside, mpc, m, tpc, slot,
          n, reg, took>>
pairs == <<i, j, k, mapping, took>>
locks == <<line, inside>>
workers == <<slot, n, reg>>

\* From after the allocations on.  The log is empty, no thread was started.
Init == /\ build \in {"FETCH_ADD", "QUEUE", "SPIN"}
        /\ i = 0 /\ j = 1 /\ k = 0
        /\ mapping = [t \in Core |-> 0]
        /\ counters = [c \in Core |-> 0]
        /\ line = [c \in Core |-> <<>>] /\ inside = [c \in Core |-> FALSE]
        /\ mpc = "map" /\ m = 0
        /\ tpc = [t \in Core |-> "none"]
        /\ slot = [t \in Core |-> -1]
        /\ n = [t \in Core |-> 0] /\ reg = [t \in Core |-> 0]
        /\ took = [p \in Core \X Core |-> 0]

Step(from, to) == mpc = from /\ mpc' = to
Goto(t, from, to) == tpc[t] = from /\ tpc' = [tpc EXCEPT ![t] = to]

----------------------------------------------------------------------------
(* worker(t) *)

\* An inactive thread returns; the others keep the pointers they read once.
Begin(t) == /\ Goto(t, "start", IF mapping[t] < 0 THEN "exit" ELSE "loop")
            /\ slot' = [slot EXCEPT ![t] = mapping[t]]
            /\ n' = [n EXCEPT ![t] = 0]
            /\ UNCHANGED <<build, pairs, counters, locks, mpc, m, reg>>

AddAtomic(t) == /\ build = "FETCH_ADD" /\ n[t] < NLOOPS
                /\ tpc[t] = "loop"
                /\ counters' = [counters EXCEPT ![slot[t]] = @ + 1]
                /\ n' = [n EXCEPT ![t] = @ + 1]
                /\ UNCHANGED <<build, pairs, locks, mpc, m, tpc, slot, reg>>

\* A queue lock's call joins the line and returns when it is its turn ...
Join(t) == /\ build = "QUEUE" /\ n[t] < NLOOPS
           /\ Goto(t, "loop", "wait")
           /\ line' = [line EXCEPT ![slot[t]] = Append(@, t)]
           /\ UNCHANGED <<build, pairs, counters, inside, mpc, m, workers>>
Enter(t) == /\ Goto(t, "wait", "load")
            /\ Head(line[slot[t]]) = t /\ ~inside[slot[t]]
            /\ inside' = [inside EXCEPT ![slot[t]] = TRUE]
            /\ UNCHANGED <<build, pairs, counters, line, mpc, m, workers>>

\* ... any other waits until it meets the lock free.
Free(c) == line[c] = <<>>
TryEnter(t) == /\ build = "SPIN" /\ n[t] < NLOOPS
               /\ Goto(t, "loop", "load")
               /\ Free(slot[t])
               /\ line' = [line EXCEPT ![slot[t]] = <<t>>]
               /\ inside' = [inside EXCEPT ![slot[t]] = TRUE]
               /\ UNCHANGED <<build, pairs, counters, mpc, m, workers>>

\* Meanwhile a waiting call looks at the lock again and again.
Spin(t) == /\ \/ tpc[t] = "wait" /\ (Head(line[slot[t]]) # t \/ inside[slot[t]])
              \/ build = "SPIN" /\ tpc[t] = "loop" /\ n[t] < NLOOPS
                 /\ ~Free(slot[t])
           /\ UNCHANGED vars

\* *c += 1
Load(t) == /\ Goto(t, "load", "store")
           /\ reg' = [reg EXCEPT ![t] = counters[slot[t]]]
           /\ UNCHANGED <<build, pairs, counters, locks, mpc, m, slot, n>>
Store(t) == /\ Goto(t, "store", "unlock")
            /\ counters' = [counters EXCEPT ![slot[t]] = reg[t] + 1]
            /\ UNCHANGED <<build, pairs, locks, mpc, m, workers>>

\* A mutant leaves the holder in the lock.
StillHeld(q) == q
Released(q) == Tail(q)
Unlock(t) == /\ Goto(t, "unlock", "loop")
             /\ line' = [line EXCEPT ![slot[t]] = Released(@)]
             /\ inside' = [inside EXCEPT ![slot[t]] = FALSE]
             /\ n' = [n EXCEPT ![t] = @ + 1]
             /\ UNCHANGED <<build, pairs, counters, mpc, m, slot, reg>>

Return(t) == /\ Goto(t, "loop", "exit")
             /\ n[t] = NLOOPS
             /\ UNCHANGED <<build, pairs, counters, locks, mpc, m, workers>>

Worker(t) == \/ Begin(t) \/ AddAtomic(t) \/ Join(t) \/ Enter(t) \/ TryEnter(t)
             \/ Spin(t) \/ Load(t) \/ Store(t) \/ Unlock(t) \/ Return(t)

----------------------------------------------------------------------------
(* run() *)

\* counters[i]->c = 0; a mutant clears only the first of the pair's two.
ClearFirst(c) == IF c = 0 THEN 0 ELSE counters[c]
Cleared(c) == 0
Reset == /\ Step("reset", "create")
         /\ counters' = [c \in Core |-> Cleared(c)]
         /\ tpc' = [t \in Core |-> "none"]
         /\ m' = 1
         /\ UNCHANGED <<build, pairs, locks, workers>>

\* pthread_create(m), and after the last of them worker(0).
Create == /\ Step("create", IF m + 1 < NCORES THEN "create" ELSE "work")
          /\ tpc' = [t \in Core |->
                       IF t = m \/ (t = 0 /\ m + 1 = NCORES)
                       THEN "start" ELSE tpc[t]]
          /\ m' = m + 1
          /\ UNCHANGED <<build, pairs, counters, locks, workers>>

Worked == /\ Step("work", "join")
          /\ tpc[0] = "exit"
          /\ m' = 1
          /\ UNCHANGED <<build, pairs, counters, locks, tpc, workers>>

\* pthread_join(m); a mutant does not wait.
JoinNobody == TRUE
Joinable == tpc[m] = "exit"
JoinWorker == /\ Step("join", IF m + 1 < NCORES THEN "join" ELSE "check")
              /\ Joinable
              /\ m' = m + 1
              /\ UNCHANGED <<build, pairs, counters, locks, tpc, workers>>

\* The assert on every counter, then the ends of the loops over k, j and i; a
\* mutant runs a pair once too often.
Expected(c) == NLOOPS * Cardinality({t \in Core : mapping[t] = c})
OnceMore == k = NRUNS
LastRun == k + 1 = NRUNS
Advance == \/ /\ ~LastRun
              /\ mpc' = "reset" /\ k' = k + 1
              /\ UNCHANGED <<i, j>>
           \/ /\ LastRun
              /\ k' = 0
              /\ \/ j + 1 < NCORES /\ i' = i /\ j' = j + 1 /\ mpc' = "map"
                 \/ j + 1 = NCORES /\ i + 2 < NCORES
                    /\ i' = i + 1 /\ j' = i + 2 /\ mpc' = "map"
                 \/ j + 1 = NCORES /\ i + 2 = NCORES
                    /\ mpc' = "done" /\ UNCHANGED <<i, j>>
Check == /\ mpc = "check"
         /\ IF \A c \in Core : counters[c] = Expected(c)
            THEN Advance /\ took' = [took EXCEPT ![<<i, j>>] = @ + 1]
            ELSE mpc' = "abort" /\ UNCHANGED <<i, j, k, took>>
         /\ UNCHANGED <<build, mapping, counters, locks, m, tpc, workers>>

\* main(): both cores of the pair count on the first one's counter.
Shared(t) == i
SetMapping == /\ Step("map", "reset")
              /\ mapping' = [t \in Core |->
                               IF t \in {i, j} THEN Shared(t) ELSE -1]
              /\ UNCHANGED <<build, i, j, k, took, counters, locks, m, tpc,
                             workers>>

Main == SetMapping \/ Reset \/ Create \/ Worked \/ JoinWorker \/ Check
Exited == mpc \in {"done", "abort"} /\ UNCHANGED vars
Next == Main \/ (\E t \in Core : Worker(t)) \/ Exited

Spec == Init /\ [][Next]_vars
\* Threads pinned to cores of their own (USE_AFFINITY) keep running.
FairSpec == /\ Spec /\ WF_vars(Main)
            /\ \A t \in Core : WF_vars(Worker(t))
----------------------------------------------------------------------------
Places == {"none", "start", "loop", "wait", "load", "store", "unlock", "exit"}

\* A counter has at most the two workers of the pair.
TypeOK ==
  /\ build \in {"FETCH_ADD", "QUEUE", "SPIN"}
  /\ i \in Core /\ j \in Core /\ k \in 0 .. NRUNS - 1 /\ m \in 0 .. NCORES
  /\ mapping \in [Core -> Core \cup {-1}]
  /\ counters \in [Core -> 0 .. 2 * NLOOPS]
  /\ line \in [Core -> Seq(Core)] /\ inside \in [Core -> BOOLEAN]
  /\ mpc \in {"map", "reset", "create", "work", "join", "check", "done",
              "abort"}
  /\ tpc \in [Core -> Places]
  /\ slot \in [Core -> Core \cup {-1}]
  /\ n \in [Core -> 0 .. NLOOPS] /\ reg \in [Core -> 0 .. 2 * NLOOPS]
  /\ took \in [Core \X Core -> 0 .. NRUNS]

\* The threads that are there are those that main has created and not joined.
ThreadsFollowMain ==
  /\ mpc \in {"create", "join"} => m \in 1 .. NCORES - 1
  /\ mpc = "create" => \A t \in Core : tpc[t] = "none" <=> t = 0 \/ t >= m
  /\ mpc \in {"work", "join", "check", "done"} =>
       \A t \in Core : tpc[t] # "none"
  /\ mpc = "join" => \A t \in 0 .. m - 1 : tpc[t] = "exit"
  /\ mpc \in {"check", "done"} => \A t \in Core : tpc[t] = "exit"
  /\ mpc \in {"map", "reset"} => \A t \in Core : tpc[t] \in {"none", "exit"}

\* A worker works for what mapping says, NLOOPS times.
Started(t) == tpc[t] \notin {"none", "start"}
Working(t) == tpc[t] \in {"loop", "wait", "load", "store", "unlock"}
InLine(t) == tpc[t] \in {"wait", "load", "store", "unlock"}
Holding(t) == tpc[t] \in {"load", "store", "unlock"}
MappingKept ==
  /\ i < j
  /\ mpc # "map" => \A t \in Core : mapping[t] = IF t \in {i, j} THEN i ELSE -1
  /\ \A t \in Core :
       /\ Started(t) /\ mpc \notin {"map", "reset"} => slot[t] = mapping[t]
       /\ Working(t) => slot[t] # -1
       /\ InLine(t) => n[t] < NLOOPS
       /\ tpc[t] = "exit" /\ slot[t] # -1 => n[t] = NLOOPS

\* A lock's line lists its callers, each once; who is inside is at the head.
Lists(q, S) == /\ q \in Seq(S)
               /\ \A s \in S : \E p \in DOMAIN q : q[p] = s
               /\ \A p, r \in DOMAIN q : q[p] = q[r] => p = r
Callers(c) == {t \in Core : InLine(t) /\ slot[t] = c}
Holders == {t \in Core : Holding(t)}
LineExact(c) ==
  /\ Lists(line[c], Callers(c))
  /\ \A p \in DOMAIN line[c] : line[c][p] \in Holders => p = 1
  /\ inside[c] <=> line[c] # <<>> /\ Head(line[c]) \in Holders
LinesExact == /\ build = "FETCH_ADD" => \A t \in Core : ~InLine(t)
              /\ \A c \in Core : LineExact(c)

\* The assert at the end of run() never fires: after the joins each counter
\* holds NLOOPS for each core mapped to it, whatever the lock and the schedule.
AssertHolds == mpc # "abort"

\* No increment is ever lost, not only at the end: the pair's counter holds
\* what its two workers have added so far, one that is about to unlock
\* included, and what a worker has loaded is not stale when it stores.
Added(t) == IF ~Started(t) THEN 0
            ELSE n[t] + (IF tpc[t] = "unlock" THEN 1 ELSE 0)
IncrementsConserved ==
  /\ mpc \notin {"map", "reset"} =>
       \A c \in Core : counters[c] = IF c = i THEN Added(i) + Added(j) ELSE 0
  /\ \A t \in Core : tpc[t] = "store" => reg[t] = counters[slot[t]]

\* The pairs before this one are measured, this one as often as k says.
Before(p) == p[1] < i \/ (p[1] = i /\ p[2] < j)
TookExact ==
  /\ \A p \in Core \X Core :
       took[p] = IF p = <<i, j>> THEN (IF mpc = "done" THEN NRUNS ELSE k)
                 ELSE IF p[1] < p[2] /\ Before(p) THEN NRUNS ELSE 0
  /\ mpc = "done" => i + 2 = NCORES /\ j + 1 = NCORES

\* With the types, by induction: at no step do the counters disagree with the
\* work done, the locks with their callers or the log with the pairs measured.
Consistent == /\ TypeOK /\ ThreadsFollowMain /\ MappingKept /\ LinesExact
              /\ AssertHolds /\ IncrementsConserved /\ TookExact

\* main() initialises spinlock.c's, k42's and ticketlock's locks at most once
\* and clears the counters without a lock: between two runs no worker is left
\* and every lock is idle.
QuietBetweenRuns ==
  mpc \in {"map", "reset", "check", "done"} =>
    /\ \A t \in Core : tpc[t] \in {"none", "exit"}
    /\ \A c \in Core : line[c] = <<>> /\ ~inside[c]

\* Every pair is measured NRUNS times and no more, although the loop over the
\* runs shares its index with the loops that fill and print the mapping.
EveryPairMeasured ==
  mpc = "done" => \A p \in Core \X Core :
                    took[p] = IF p[1] < p[2] THEN NRUNS ELSE 0

\* The program ends, also with the locks that may starve a caller: the other
\* caller runs out of loops.
Terminates == <>(mpc \in {"done", "abort"})
=============================================================================
