------------------------------ MODULE Throughput ------------------------------
(***************************************************************************)
(* counters/main.c and locks-v2/main.c: main() starts the measuring        *)
(* thread, then allocates and initialises the counters and only then       *)
(* starts the workers, which increment their counter for ever while the    *)
(* measuring thread adds the counters up and resets them once a second.    *)
(* Nothing but its sleep(1) keeps the measuring thread behind main().      *)
(***************************************************************************)
EXTENDS Integers, FiniteSets

CONSTANTS Workers,
          Measurer, Nobody,  \* holders of a lock that is not a worker's
          MAXCOUNTERS,       \* entries in the table of pointers
          ncounters,         \* the value the configuration gives
          MaxAdds            \* bound on each worker's increments

ASSUME ThroughputAssumption == /\ IsFiniteSet(Workers)
                               /\ Measurer \notin Workers
                               /\ Nobody \notin Workers \cup {Measurer}
                               /\ MAXCOUNTERS \in Nat
                               /\ ncounters \in 0 .. MAXCOUNTERS
                               /\ MaxAdds \in Nat

Table == 0 .. MAXCOUNTERS - 1
Counters == 0 .. ncounters - 1  \* the entries of Table that main() sets

VARIABLES prog, build,   \* which program; "SYNC" or "LOCK" (spin or mutex)
          counterOf,     \* what the file gives as each thread's counter
          slow,          \* main() may still initialise when sleep(1) ends
          missed,        \* main() has asked for a key that has no line
          fault,         \* memory was used that nobody had set
          main, k,       \* where main() is; its loop index
          ncount,        \* the global ncounters
          stage, c, word,            \* counters[]: progress, count, lock
          at, tmp, added,            \* each worker; history of increments
          mpc, mi, sum, printed      \* the measurer; history of what it printed
conf == <<prog, build, slow, missed>>
workers == <<counterOf, at, tmp, added>>
measurer == <<mpc, mi, sum, printed>>
vars == <<conf, fault, main, k, ncount, stage, c, word, workers, measurer>>

Init == /\ prog \in {"counters", "locks-v2"} /\ build \in {"SYNC", "LOCK"}
        /\ counterOf = [w \in Workers |-> -1]
        /\ slow \in BOOLEAN /\ missed = FALSE /\ fault = FALSE
        /\ main = "ncounters" /\ k = 0 /\ ncount = 0
        /\ stage = [x \in Counters |-> "null"]
        /\ c = [x \in Counters |-> 0]
        /\ word = [x \in Counters |-> Nobody]
        /\ at = [w \in Workers |-> "new"]
        /\ tmp = [w \in Workers |-> 0] /\ added = [w \in Workers |-> 0]
        /\ mpc = "sleep" /\ mi = 0 /\ sum = 0 /\ printed = 0

\* exit() ends all threads, and nothing is said after undefined behaviour.
Running == main # "exit" /\ ~fault
-----------------------------------------------------------------------------
GoMain(from, to) == main = from /\ main' = to

ReadNCounters == /\ GoMain("ncounters", "alloc")
                 /\ ncount' = ncounters
                 /\ UNCHANGED <<conf, fault, k, stage, c, word, workers, measurer>>

\* valloc leaves any count in a counter.
Zero(x) == 0
Alloc == /\ k < ncount
         /\ GoMain("alloc", "zero")
         /\ stage' = [stage EXCEPT ![k] = "raw"]
         /\ \E garbage \in 0 .. 1 : c' = [c EXCEPT ![k] = garbage]
         /\ UNCHANGED <<conf, fault, k, ncount, word, workers, measurer>>
ZeroCounter == /\ GoMain("zero", "lockinit")
               /\ stage' = [stage EXCEPT ![k] = "zeroed"]
               /\ c' = [c EXCEPT ![k] = Zero(k)]
               /\ UNCHANGED <<conf, fault, k, ncount, word, workers, measurer>>
Initialised == "ready"
LockInit == /\ GoMain("lockinit", "alloc")
            /\ stage' = [stage EXCEPT ![k] = Initialised]
            /\ k' = k + 1
            /\ UNCHANGED <<conf, fault, ncount, c, word, workers, measurer>>

\* The workers are launched when all counters are there.
AllReady == k = ncount
StartLaunch == /\ AllReady
               /\ GoMain("alloc", "launch")
               /\ UNCHANGED <<conf, fault, k, ncount, stage, c, word, workers,
                              measurer>>
\* The file may give any number as a thread's counter: -1 and MAXCOUNTERS stand
\* for all that are outside the table, where the pointer that the thread gets is
\* read all the same.  Threads start in the order of the shuffle, hence in any;
\* locks-v2 leaves out those with a negative counter.
Skips(value) == prog = "locks-v2" /\ value < 0
Launch(w) ==
  /\ main = "launch" /\ at[w] = "new"
  /\ \E value \in Table \cup {-1, MAXCOUNTERS} :
       /\ counterOf' = [counterOf EXCEPT ![w] = value]
       /\ at' = [at EXCEPT ![w] = IF Skips(value) THEN "skipped" ELSE "loop"]
       /\ fault' = (~Skips(value) /\ value \notin Table)
  /\ UNCHANGED <<conf, main, k, ncount, stage, c, word, tmp, added, measurer>>
\* get_int_config_value of a key without a line: counters reports it and gives
\* up; locks-v2 reports success and converts a string that it never set.
MissLine == /\ \/ main \in {"ncounters", "alloc"}
               \/ main = "launch" /\ \E w \in Workers : at[w] = "new"
            /\ missed' = TRUE
            /\ main' = IF prog = "counters" THEN "exit" ELSE main
            /\ fault' = (prog = "locks-v2")
            /\ UNCHANGED <<prog, build, slow, k, ncount, stage, c, word, workers,
                           measurer>>
\* pthread_join of a worker never returns; without workers main() does.
Join == /\ \A w \in Workers : at[w] # "new"
        /\ GoMain("launch", IF \A w \in Workers : at[w] = "skipped"
                            THEN "exit" ELSE "join")
        /\ UNCHANGED <<conf, fault, k, ncount, stage, c, word, workers, measurer>>
\* valloc or mbind fails, or there are too many counters or, in counters, too
\* many threads.
GiveUp == /\ \/ main \in {"ncounters", "zero"}
             \/ main = "alloc" /\ (k < ncount \/ prog = "counters")
          /\ main' = "exit"
          /\ UNCHANGED <<conf, fault, k, ncount, stage, c, word, workers, measurer>>
-----------------------------------------------------------------------------
\* A worker's steps.  With the lock, ++*pcounter is a load and a store.
Go(w, from, to) == at[w] = from /\ at' = [at EXCEPT ![w] = to]
Mine(w) == counterOf[w]

\* An entry beyond ncounters is NULL.
UseNull(w) == /\ at[w] = "loop" /\ Mine(w) \notin Counters
              /\ fault' = TRUE
              /\ UNCHANGED <<conf, main, k, ncount, stage, c, word, workers, measurer>>

AtomicAdd(w) == /\ build = "SYNC" /\ at[w] = "loop" /\ added[w] < MaxAdds
                /\ Mine(w) \in Counters
                /\ fault' = (stage[Mine(w)] \notin {"zeroed", "ready"})
                /\ c' = [c EXCEPT ![Mine(w)] = @ + 1]
                /\ added' = [added EXCEPT ![w] = @ + 1]
                /\ UNCHANGED <<conf, main, k, ncount, stage, word, counterOf, at,
                               tmp, measurer>>

\* pthread_spin_lock or pthread_mutex_lock; a mutant does not wait.
Barge(x) == TRUE
Free(x) == word[x] = Nobody
Lock(w) == /\ build = "LOCK" /\ added[w] < MaxAdds
           /\ Go(w, "loop", "load")
           /\ Mine(w) \in Counters /\ Free(Mine(w))
           /\ fault' = (stage[Mine(w)] # "ready")
           /\ word' = [word EXCEPT ![Mine(w)] = w]
           /\ UNCHANGED <<conf, main, k, ncount, stage, c, counterOf, tmp, added,
                          measurer>>
Load(w) == /\ Go(w, "load", "store")
           /\ tmp' = [tmp EXCEPT ![w] = c[Mine(w)]]
           /\ UNCHANGED <<conf, fault, main, k, ncount, stage, c, word, counterOf,
                          added, measurer>>
Store(w) == /\ Go(w, "store", "unlock")
            /\ c' = [c EXCEPT ![Mine(w)] = tmp[w] + 1]
            /\ added' = [added EXCEPT ![w] = @ + 1]
            /\ UNCHANGED <<conf, fault, main, k, ncount, stage, word, counterOf,
                           tmp, measurer>>
Unlock(w) == /\ Go(w, "unlock", "loop")
             /\ word' = [word EXCEPT ![Mine(w)] = Nobody]
             /\ UNCHANGED <<conf, fault, main, k, ncount, stage, c, counterOf, tmp,
                            added, measurer>>
-----------------------------------------------------------------------------
\* The measurer's steps; a mutant leaves out the last counter.
GoMeasure(from, to) == mpc = from /\ mpc' = to

Cleared == 0
Wake == /\ slow \/ main \in {"launch", "join"}
        /\ GoMeasure("sleep", "test")
        /\ mi' = 0 /\ sum' = Cleared
        /\ UNCHANGED <<conf, fault, main, k, ncount, stage, c, word, workers,
                       printed>>

OneLess == mi < ncount - 1
MoreCounters == mi < ncount
\* if (counters[i]->c), without the lock.
Test == /\ MoreCounters
        /\ GoMeasure("test", IF c[mi] # 0 THEN "take" ELSE "test")
        /\ fault' = (stage[mi] \notin {"zeroed", "ready"})
        /\ mi' = IF c[mi] # 0 THEN mi ELSE mi + 1
        /\ UNCHANGED <<conf, main, k, ncount, stage, c, word, workers, sum,
                       printed>>
Swap == /\ build = "SYNC"
        /\ GoMeasure("take", "test")
        /\ sum' = sum + c[mi]
        /\ c' = [c EXCEPT ![mi] = 0]
        /\ mi' = mi + 1
        /\ UNCHANGED <<conf, fault, main, k, ncount, stage, word, workers, printed>>

MLock == /\ build = "LOCK"
         /\ GoMeasure("take", "add")
         /\ Free(mi)
         /\ fault' = (stage[mi] # "ready")
         /\ word' = [word EXCEPT ![mi] = Measurer]
         /\ UNCHANGED <<conf, main, k, ncount, stage, c, workers, mi, sum, printed>>
Add == /\ GoMeasure("add", "reset")
       /\ sum' = sum + c[mi]
       /\ UNCHANGED <<conf, fault, main, k, ncount, stage, c, word, workers, mi,
                      printed>>
Reset == /\ GoMeasure("reset", "unlock")
         /\ c' = [c EXCEPT ![mi] = 0]
         /\ UNCHANGED <<conf, fault, main, k, ncount, stage, word, workers, mi,
                        sum, printed>>
MUnlock == /\ GoMeasure("unlock", "test")
           /\ word' = [word EXCEPT ![mi] = Nobody]
           /\ mi' = mi + 1
           /\ UNCHANGED <<conf, fault, main, k, ncount, stage, c, workers, sum,
                          printed>>
PrintSum == /\ ~MoreCounters
            /\ GoMeasure("test", "sleep")
            /\ printed' = printed + sum
            /\ UNCHANGED <<conf, fault, main, k, ncount, stage, c, word, workers,
                           mi, sum>>
-----------------------------------------------------------------------------
MainStep == \/ ReadNCounters \/ Alloc \/ ZeroCounter \/ LockInit \/ StartLaunch
            \/ (\E w \in Workers : Launch(w)) \/ Join
Work(w) == \/ UseNull(w) \/ AtomicAdd(w)
           \/ Lock(w) \/ Load(w) \/ Store(w) \/ Unlock(w)
Measure == \/ Wake \/ Test \/ Swap \/ MLock \/ Add \/ Reset \/ MUnlock \/ PrintSum

Next == \/ /\ Running
           /\ \/ MainStep \/ MissLine \/ GiveUp
              \/ \E w \in Workers : Work(w)
              \/ Measure
        \/ ~Running /\ UNCHANGED vars
Spec == Init /\ [][Next]_vars
\* Every thread gets to run; the locks promise nobody a turn.
FairSpec == /\ Spec
            /\ WF_vars(Running /\ MainStep) /\ WF_vars(Running /\ Measure)
            /\ \A w \in Workers : WF_vars(Running /\ Work(w))
-----------------------------------------------------------------------------
\* Sums over workers and counters, as the number of pairs of one and a number
\* up to its count.
Most == Cardinality(Workers) * MaxAdds + 1
Ones(S, f) == {p \in S \X (1 .. Most) : p[2] =< f[p[1]]}
Total == Cardinality(Ones(Workers, added))
Cleaned(x) == stage[x] \in {"zeroed", "ready"}
Uncounted == Cardinality(Ones({x \in Counters : Cleaned(x)}, c))

TypeOK == /\ prog \in {"counters", "locks-v2"} /\ build \in {"SYNC", "LOCK"}
          /\ counterOf \in [Workers -> Table \cup {-1, MAXCOUNTERS}]
          /\ {slow, missed, fault} \subseteq BOOLEAN
          /\ stage \in [Counters -> {"null", "raw", "zeroed", "ready"}]
          /\ c \in [Counters -> 0 .. Most]
          /\ word \in [Counters -> Workers \cup {Measurer, Nobody}]
          /\ at \in [Workers -> {"new", "skipped", "loop", "load", "store",
                                 "unlock"}]
          /\ tmp \in [Workers -> 0 .. Most]
          /\ added \in [Workers -> 0 .. MaxAdds]
          /\ main \in {"ncounters", "alloc", "zero", "lockinit", "launch",
                       "join", "exit"}
          /\ mpc \in {"sleep", "test", "take", "add", "reset", "unlock"}
          /\ {k, ncount, mi} \subseteq 0 .. ncounters
          /\ {sum, printed} \subseteq 0 .. Most - 1

\* main() initialises one counter after the other; whoever works on them does
\* so after it, but for a measurer that woke up early.
InOrder ==
  /\ ncount = IF main = "ncounters" THEN 0 ELSE ncounters
  /\ main \in {"launch", "join"} => k = ncounters
  /\ main \in {"zero", "lockinit"} => k < ncounters
  /\ \A x \in Counters :
       stage[x] = IF x < k THEN "ready"
                  ELSE IF x = k /\ main = "zero" THEN "raw"
                  ELSE IF x = k /\ main = "lockinit" THEN "zeroed" ELSE "null"
  /\ \A w \in Workers :
       /\ at[w] \notin {"new", "skipped"} =>
            main \in {"launch", "join"} /\ Mine(w) \in Table
       /\ at[w] \in {"load", "store", "unlock"} => Mine(w) \in Counters
  /\ mpc # "sleep" => slow \/ main \in {"launch", "join"}
  /\ mpc \in {"take", "add", "reset", "unlock"} => mi < ncount /\ Cleaned(mi)

\* Who is between lock and unlock has its name in the lock; what a worker has
\* loaded, or the measurer added, is still there when it stores.
WordsHeld ==
  /\ \A w \in Workers :
       /\ at[w] \in {"load", "store", "unlock"} => build = "LOCK" /\ word[Mine(w)] = w
       /\ at[w] \in {"load", "store"} => added[w] < MaxAdds
       /\ at[w] = "store" => tmp[w] = c[Mine(w)]
  /\ mpc \in {"add", "reset", "unlock"} => build = "LOCK" /\ word[mi] = Measurer
  /\ mpc = "reset" => c[mi] =< sum

\* No increment is lost or printed twice: those done are in a counter, in the
\* sum being taken or in what was printed.
Conserved == ~fault =>
  Total = Uncounted + printed + (IF mpc = "sleep" THEN 0 ELSE sum)
                              - (IF mpc = "reset" THEN c[mi] ELSE 0)

\* Memory that nobody has set is used only if main() needs longer than the
\* measurer's first sleep, if locks-v2 misses a line, or for a thread whose
\* counter main() has not made and does not skip.
UndefinedOnlyEarly ==
  fault => \/ slow
           \/ prog = "locks-v2" /\ missed
           \/ \E w \in Workers : at[w] = "loop" /\ Mine(w) \notin Counters

\* With the types, by induction: counters, sums and what was printed agree at
\* every step, and a late initialisation or a file with a missing line or a
\* number out of range is all that can spoil it.
Consistent == /\ TypeOK /\ Conserved /\ UndefinedOnlyEarly
              /\ Running => InOrder /\ WordsHeld

\* With atomic increments every increment is printed in the end, unless the
\* program gives up.
Reported == build = "SYNC" =>
  \A n \in 1 .. Cardinality(Workers) * MaxAdds :
    Total = n ~> (printed >= n \/ ~Running)
=============================================================================
