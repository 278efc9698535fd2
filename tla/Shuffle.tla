------------------------------- MODULE Shuffle -------------------------------
(***************************************************************************)
(* The order in which main() launches its workers: the "(crappy version    *)
(* of) Fisher-Yates" that counters, locks-v2, mem-v2 and mem-v3 share.     *)
(* Each round draws n and takes the n-th thread not yet taken, counting    *)
(* from thread 0 and round again; rand() % nthreads may be anything.       *)
(***************************************************************************)
EXTENDS Integers, Sequences, FiniteSets

CONSTANT nthreads

ASSUME ShuffleAssumption == nthreads \in Nat

Thread == 0 .. nthreads - 1

VARIABLES shuffle,  \* thread -> 1 once it is taken
          random,   \* the list built so far (its length is j)
          n, i,     \* draws left in this round; the thread looked at
          pc        \* "draw", "scan" in the inner loop, "done"
shuffleVars == <<shuffle, random, n, i, pc>>

ShuffleInit == /\ shuffle = [t \in Thread |-> 0]
               /\ random = <<>>
               /\ n = 0 /\ i = 0
               /\ pc = "draw"

\* while (j < nthreads): n = rand() % nthreads; a mutant goes round once more.
OneRoundMore == Len(random) =< nthreads
MoreToTake == Len(random) < nthreads
Draw == /\ pc = "draw" /\ MoreToTake
        /\ n' \in Thread
        /\ i' = 0
        /\ pc' = "scan"
        /\ UNCHANGED <<shuffle, random>>

\* while (1): count the free threads down, from i on and round again (a
\* mutant counts the taken ones as well), and mark the one found.
CountAll == TRUE
IsFree == shuffle[i] = 0
Mark == 1
NextThread == (i + 1) % nthreads
Take == /\ pc = "scan" /\ IsFree /\ n = 0
        /\ shuffle' = [shuffle EXCEPT ![i] = Mark]
        /\ random' = Append(random, i)
        /\ n' = -1
        /\ pc' = "draw"
        /\ UNCHANGED i
StepOver == /\ pc = "scan" /\ ~(IsFree /\ n = 0)
            /\ n' = IF IsFree THEN n - 1 ELSE n
            /\ i' = NextThread
            /\ UNCHANGED <<shuffle, random, pc>>

Finish == /\ pc = "draw" /\ ~MoreToTake
          /\ pc' = "done"
          /\ UNCHANGED <<shuffle, random, n, i>>
ShuffleNext == Draw \/ Take \/ StepOver \/ Finish
ShuffleSpec == ShuffleInit /\ [][ShuffleNext]_shuffleVars
-----------------------------------------------------------------------------
Taken == {t \in Thread : shuffle[t] = 1}

ShuffleTypeOK == /\ shuffle \in [Thread -> {0, 1}]
                 /\ random \in Seq(Thread)
                 /\ n \in Thread \cup {-1, 0} /\ i \in Thread \cup {0}
                 /\ pc \in {"draw", "scan", "done"}
                 /\ pc = "scan" => i \in Thread /\ n \in Thread

\* The list holds exactly the marked threads, each of them once.
ListExact == /\ \A t \in Thread : shuffle[t] = 1 <=> \E k \in DOMAIN random :
                                                       random[k] = t
             /\ Cardinality(Taken) = Len(random)

\* The inner loop, which has no bound, always has a free thread to find.
SomeFree == pc = "scan" => \E t \in Thread : shuffle[t] = 0

\* Every thread is launched exactly once, whatever is drawn.
EachOnce == pc = "done" =>
              /\ Len(random) = nthreads
              /\ \A t \in Thread : \E k \in 1 .. nthreads : random[k] = t

ShuffleInv == ShuffleTypeOK /\ ListExact /\ SomeFree
              /\ (pc = "done" => Len(random) >= nthreads)
=============================================================================
