------------------------------- MODULE BlockSwap -------------------------------
(***************************************************************************)
(* mem, mem-v2 and mem-v3: main() sets the blocks up, starts a thread that *)
(* measures, and launches the workers, in mem in order, in the others as   *)
(* Shuffle lists them.  A worker swaps elements of the block that the      *)
(* configuration gives it and counts: in mem the whole block is turned     *)
(* round, without a lock; in the others a batch of random pairs is swapped *)
(* under the mutex of the block.                                           *)
(***************************************************************************)
EXTENDS Shuffle, FiniteSetsExt

CONSTANTS Blocks,
          Nobody,                \* holds no mutex
          blocksize, batchsize,
          Words,                 \* 2^32, the words of the generator
          FloatSteps,            \* 2^24: a float in [1/2, 1) is a multiple of 1/2^24
          RAND_MAX,
          MaxTurns, MaxBatches   \* bounds on each worker's counts

ASSUME BlockSwapAssumption == /\ Nobody \notin Thread
                              /\ blocksize \in Nat \ {0} /\ blocksize =< Words
                              /\ batchsize \in Nat \ {0}
                              /\ {Words, FloatSteps, RAND_MAX} \subseteq Nat \ {0}
                              /\ \E k \in 1 .. Words : Words = FloatSteps * k
                              /\ {MaxTurns, MaxBatches} \subseteq Nat

VARIABLES prog,
          known, launched,       \* the global nthreads; i of the launch loop
          block,                 \* thread -> args[id].block
          blocks, locks,         \* the elements and the mutex of each block
          at, c, seq, swap,      \* the locals of each worker
          counters,
          batches,               \* history: the batches each worker has done
          mpc, mi, throughput,   \* the measurer
          printed                \* history: the sum of what it printed
main == <<prog, known, launched, block, shuffleVars>>
elements == <<blocks, locks>>
counting == <<counters, batches>>
measuring == <<mpc, mi, throughput, printed>>
vars == <<main, elements, at, c, seq, swap, counting, measuring>>

\* The numbers from 0 to Words that a float can be, in units so small that all
\* of them are whole: up to FloatSteps gaps of one size, which is a power of two
\* as Words and FloatSteps are.
Unit == Words * FloatSteps
Gaps == {g \in 1 .. Words * Words : \E h \in 1 .. Words * Words : g * h = Words * Words}
Floats == {m * g : m \in 0 .. FloatSteps, g \in Gaps}

\* What x / d is rounded to: the nearest float, of two the one with an even
\* number of gaps.
Off(f, x, d) == IF f * d < x THEN x - f * d ELSE f * d - x
Even(f, h) == \A g \in Gaps : h % g = 0 => f % g = 0
Nearest(x, d) == {f \in Floats : \A h \in Floats :
                    \/ Off(f, x, d) < Off(h, x, d)
                    \/ Off(f, x, d) = Off(h, x, d) /\ Even(f, h)}
AsFloat == Nearest(blocksize * Unit, 1)

\* The elements, and the memory behind them up to blocksize as an int or as
\* a float.
Index == UNION {0 .. l : l \in {blocksize} \cup {f \div Unit : f \in AsFloat}}
Swaps == IF prog = "mem" THEN blocksize \div 2 ELSE batchsize
Bound == IF prog = "mem" THEN MaxTurns ELSE MaxBatches

Init == /\ ShuffleInit
        /\ prog \in {"mem", "mem-v2", "mem-v3"}
        /\ known = IF prog = "mem" THEN 0 ELSE nthreads
        /\ launched = 0
        /\ block \in [Thread -> Blocks]
        /\ blocks = [b \in Blocks |-> [x \in Index |-> x]]
        /\ locks = [b \in Blocks |-> Nobody]
        /\ at = [w \in Thread |-> "new"]
        /\ c = [w \in Thread |-> 1]
        /\ seq = [w \in Thread |-> <<>>]
        /\ swap = [w \in Thread |-> 0]
        /\ counters = [w \in Thread |-> 0]
        /\ batches = [w \in Thread |-> 0]
        /\ mpc = "sleep" /\ mi = 0 /\ throughput = 0 /\ printed = 0

\* main() returns only if it started no thread: in mem, when none has a block.
Running == launched =< nthreads
-----------------------------------------------------------------------------
\* main(), from the start of the measuring thread on.
Order == /\ prog # "mem" /\ ShuffleNext
         /\ UNCHANGED <<prog, known, launched, block, elements, at, c, seq, swap,
                        counting, measuring>>
\* mem reads nthreads only now.
ReadNThreads == /\ prog = "mem" /\ known = 0
                /\ known' = nthreads
                /\ UNCHANGED <<prog, launched, block, shuffleVars, elements, at, c,
                               seq, swap, counting, measuring>>

MayLaunch == known = nthreads /\ (prog # "mem" => pc = "done")
NextWorker == IF prog = "mem" THEN launched ELSE random[launched + 1]
Launch == /\ MayLaunch /\ launched < nthreads
          /\ launched' = launched + 1
          /\ at' = [at EXCEPT ![NextWorker] = "draw"]
          /\ UNCHANGED <<prog, known, block, shuffleVars, elements, c, seq, swap,
                         counting, measuring>>
\* A negative block: mem starts no thread.
Skip == /\ MayLaunch /\ prog = "mem" /\ launched < nthreads
        /\ launched' = launched + 1
        /\ at' = [at EXCEPT ![NextWorker] = "skipped"]
        /\ UNCHANGED <<prog, known, block, shuffleVars, elements, c, seq, swap,
                       counting, measuring>>
\* The joins of the workers never return.
Return == /\ MayLaunch /\ launched = nthreads
          /\ \A w \in Thread : at[w] = "skipped"
          /\ launched' = launched + 1
          /\ UNCHANGED <<prog, known, block, shuffleVars, elements, at, c, seq,
                         swap, counting, measuring>>
-----------------------------------------------------------------------------
\* get_uniform(u) is (u + 1) / Divisor as a float.  Its product with blocksize,
\* which is made a float first, is one again, and then cut off.  In mem-v2 all
\* are doubles, which hold blocksize, and whose rounding adds no index.
Divisor == Words + 2
get_uniform(u) == Nearest((u + 1) * Unit, Divisor)
Products(u) == UNION {Nearest(f * s, Unit) : f \in get_uniform(u), s \in AsFloat}
UniformIndex(u) == {p \div Unit : p \in Products(u)}
RatioIndex(r) == (r * blocksize) \div RAND_MAX
UniformDrawn == UNION {UniformIndex(u) : u \in 0 .. Words - 1}
RatioDrawn == {RatioIndex(r) : r \in 0 .. RAND_MAX}
Drawn == IF prog = "mem-v2" THEN RatioDrawn ELSE UniformDrawn

\* i and j of mem.
Mirrored(x) == blocksize - x
TurnRound == [x \in 1 .. Swaps |-> <<x - 1, Mirrored(x - 1)>>]

Go(w, from, to) == at[w] = from /\ at' = [at EXCEPT ![w] = to]
Lock(w) == locks[block[w]]
Cell(w, x) == blocks[block[w]][x]
I(w) == seq[w][c[w]][1]
J(w) == seq[w][c[w]][2]

DrawBatch(w) == /\ prog # "mem" /\ batches[w] < Bound
                /\ Go(w, "draw", "lock")
                /\ \E s \in [1 .. Swaps -> Drawn \X Drawn] :
                     seq' = [seq EXCEPT ![w] = s]
                /\ UNCHANGED <<main, elements, c, swap, counting, measuring>>
StartTurn(w) == /\ prog = "mem" /\ batches[w] < Bound
                /\ Go(w, "draw", IF Swaps = 0 THEN "count" ELSE "save")
                /\ seq' = [seq EXCEPT ![w] = TurnRound]
                /\ UNCHANGED <<main, elements, c, swap, counting, measuring>>

\* pthread_mutex_lock; a mutant does not wait.
Barge(w) == TRUE
Free(w) == Lock(w) = Nobody
Acquire(w) == /\ Go(w, "lock", "save")
              /\ Free(w)
              /\ locks' = [locks EXCEPT ![block[w]] = w]
              /\ UNCHANGED <<main, blocks, c, seq, swap, counting, measuring>>

\* swap = block[i]; block[i] = block[j]; block[j] = swap.
Save(w) == /\ Go(w, "save", "move")
           /\ swap' = [swap EXCEPT ![w] = Cell(w, I(w))]
           /\ UNCHANGED <<main, elements, c, seq, counting, measuring>>
Move(w) == /\ Go(w, "move", "store")
           /\ blocks' = [blocks EXCEPT ![block[w]][I(w)] = Cell(w, J(w))]
           /\ UNCHANGED <<main, locks, c, seq, swap, counting, measuring>>
MoreSwaps(w) == c[w] < Swaps
AfterSwaps == IF prog = "mem" THEN "count" ELSE "unlock"
Store(w) == /\ Go(w, "store", IF MoreSwaps(w) THEN "save" ELSE AfterSwaps)
            /\ blocks' = [blocks EXCEPT ![block[w]][J(w)] = swap[w]]
            /\ c' = [c EXCEPT ![w] = IF MoreSwaps(w) THEN c[w] + 1 ELSE 1]
            /\ UNCHANGED <<main, locks, seq, swap, counting, measuring>>
Release(w) == /\ Go(w, "unlock", "count")
              /\ locks' = [locks EXCEPT ![block[w]] = Nobody]
              /\ UNCHANGED <<main, blocks, c, seq, swap, counting, measuring>>
\* __sync_fetch_and_add; the pairs and the saved element are not used again,
\* and forgotten.
Count(w) == /\ Go(w, "count", "draw")
            /\ counters' = [counters EXCEPT ![w] = @ + 1]
            /\ batches' = [batches EXCEPT ![w] = @ + 1]
            /\ seq' = [seq EXCEPT ![w] = <<>>]
            /\ swap' = [swap EXCEPT ![w] = 0]
            /\ UNCHANGED <<main, elements, c, measuring>>
-----------------------------------------------------------------------------
\* The measurer swaps each counter with 0; a mutant reads without resetting.
Wake == /\ mpc = "sleep" /\ mpc' = "sum"
        /\ mi' = 0 /\ throughput' = 0
        /\ UNCHANGED <<main, elements, at, c, seq, swap, counting, printed>>
NotReset(x) == counters[x]
ResetTo(x) == 0
Collect == /\ mpc = "sum" /\ mi < known
           /\ mi' = mi + 1
           /\ throughput' = throughput + counters[mi]
           /\ counters' = [counters EXCEPT ![mi] = ResetTo(mi)]
           /\ UNCHANGED <<main, elements, at, c, seq, swap, batches, mpc, printed>>
PrintSum == /\ mpc = "sum" /\ mi >= known
            /\ mpc' = "sleep"
            /\ printed' = printed + throughput
            /\ UNCHANGED <<main, elements, at, c, seq, swap, counting, mi,
                           throughput>>
-----------------------------------------------------------------------------
MainStep == Order \/ ReadNThreads \/ Launch \/ Skip \/ Return
Work(w) == \/ DrawBatch(w) \/ StartTurn(w) \/ Acquire(w) \/ Save(w) \/ Move(w)
           \/ Store(w) \/ Release(w) \/ Count(w)
Measure == Wake \/ Collect \/ PrintSum
Next == \/ Running /\ (MainStep \/ (\E w \in Thread : Work(w)) \/ Measure)
        \/ ~Running /\ UNCHANGED vars
Spec == Init /\ [][Next]_vars
\* main() gets to run.
FairSpec == Spec /\ WF_vars(Running /\ MainStep)
-----------------------------------------------------------------------------
TypeOK == /\ prog \in {"mem", "mem-v2", "mem-v3"} /\ block \in [Thread -> Blocks]
          /\ known \in {0, nthreads} /\ launched \in 0 .. nthreads + 1
          /\ blocks \in [Blocks -> [Index -> Index]]
          /\ locks \in [Blocks -> Thread \cup {Nobody}]
          /\ at \in [Thread -> {"new", "skipped", "draw", "lock", "save", "move",
                                "store", "unlock", "count"}]
          /\ seq \in [Thread -> {<<>>} \cup [1 .. Swaps -> Index \X Index]]
          /\ c \in [Thread -> Nat] /\ swap \in [Thread -> Index]
          /\ batches \in [Thread -> 0 .. Bound]
          /\ counters \in [Thread -> 0 .. Bound]
          /\ \A w \in Thread : counters[w] =< batches[w]
          /\ mpc \in {"sleep", "sum"} /\ mi \in 0 .. nthreads
          /\ throughput \in 0 .. nthreads * Bound /\ printed \in Nat

\* A thread that main() launches or skips is a new one, the next of the list,
\* which is complete by then.
LaunchedOnce ==
  /\ launched > 0 => known = nthreads /\ (prog # "mem" => pc = "done")
  /\ \A k, l \in DOMAIN random : random[k] = random[l] => k = l
  /\ launched =< nthreads => \A w \in Thread : at[w] # "new" <=>
       IF prog = "mem" THEN w < launched ELSE \E k \in 1 .. launched : random[k] = w
  /\ launched > nthreads => \A w \in Thread : at[w] = "skipped"

\* A mutex is its holder's, between lock and unlock.
InSection(w) == prog # "mem" /\ at[w] \in {"save", "move", "store", "unlock"}
LocksExact == \A b \in Blocks : \A w \in Thread :
                locks[b] = w <=> InSection(w) /\ block[w] = b

\* While it swaps, a worker is at one of its pairs.
Swapping(w) == at[w] \in {"save", "move", "store"}
PairsReady == \A w \in Thread :
  /\ at[w] = "lock" \/ Swapping(w) => /\ seq[w] \in [1 .. Swaps -> Index \X Index]
                                      /\ c[w] \in 1 .. Swaps
  /\ ~Swapping(w) => c[w] = 1
  /\ at[w] \notin {"new", "skipped", "draw"} => batches[w] < Bound
  /\ prog = "mem" => /\ at[w] \notin {"lock", "unlock"}
                     /\ Swapping(w) => seq[w] = TurnRound

\* Workers that share a block without a lock race for its elements.
Raced(b) == prog = "mem" /\ \E w, v \in Thread : w # v /\ {block[w], block[v]} = {b}

\* Without a race a block and the memory behind it hold all of their elements,
\* hence each of them once, although workers that share it swap overlapping
\* pairs; in the middle of a swap they do so with the saved element in place.
Complete(f) == \A v \in Index : \E x \in Index : f[x] = v
BlockWhole(b) ==
  /\ (\A w \in Thread : block[w] = b => at[w] # "store") => Complete(blocks[b])
  /\ \A w \in Thread : block[w] = b =>
       /\ at[w] = "move" => swap[w] = Cell(w, I(w))
       /\ at[w] = "store" => Complete([blocks[b] EXCEPT ![J(w)] = swap[w]])
NothingLost == \A b \in Blocks : ~Raced(b) => BlockWhole(b)

\* A turn in mem exchanges the elements one after the other from both ends, up
\* to index half of blocksize; two turns restore the block.
Turned(x, k) == IF x =< blocksize /\ (x < k \/ Mirrored(x) < k)
                THEN Mirrored(x) ELSE x
Before(w, x) == IF batches[w] % 2 = 1 THEN Turned(x, Swaps) ELSE x
SwapsDone(w) == IF at[w] = "count" THEN Swaps ELSE c[w] - 1
TurnExact(w) ==
  /\ \A x \in Index :
       Cell(w, x) = IF at[w] = "store" /\ x = I(w) THEN Before(w, J(w))
                    ELSE Before(w, Turned(x, SwapsDone(w)))
  /\ at[w] = "store" => swap[w] = Before(w, I(w))
TurnsExact == prog = "mem" => \A w \in Thread : ~Raced(block[w]) => TurnExact(w)

\* With the types, by induction: every thread is launched once, and no element
\* is lost, doubled or misplaced.
Consistent == /\ TypeOK /\ ShuffleInv /\ LaunchedOnce /\ LocksExact /\ PairsReady
              /\ NothingLost /\ TurnsExact

\* Each batch is in a counter, in the sum being taken or was printed.
Ones(f) == {p \in Thread \X (1 .. Bound) : p[2] =< f[p[1]]}
Total == Cardinality(Ones(batches))
Waiting == Cardinality(Ones(counters))
BatchesConserved ==
  Total = Waiting + printed + (IF mpc = "sum" THEN throughput ELSE 0)

\* The shuffle ends and every thread is launched or skipped.
AllLaunched == <>(\A w \in Thread : at[w] # "new")

\* "It puts element 0 in position N-1, 1 in N-2, etc" (mem's README): so a
\* block of one worker is reversed after the first turn.
FirstTurnReverses == prog = "mem" =>
  \A w \in Thread : at[w] = "draw" /\ batches[w] = 1 /\ ~Raced(block[w]) =>
    \A x \in 0 .. blocksize \div 2 - 1 : Cell(w, blocksize - 1 - x) = x
=============================================================================
