# mbench-islands in TLA+

mbench-islands is a collection of micro-benchmarks for multicore machines,
written in C over POSIX threads, x86 atomics and POSIX IPC. Most programs are
small, but their core is what is hard to test: hand-written locks, a blocking
queue, threads that are kept apart only by a `sleep`, and pairs of processes
that take turns over one byte, one message queue or a pair of streams. This directory holds TLA+
models of that core, the TLC configurations that check them and the TLAPS
proofs about them. Everything is translated from the source under `src/`;
`PROJECT.json` maps each definition to the lines it stands for.

    tlc -config MCTicketLock.cfg MCTicketLock.tla     model-check one run
    tlapm TicketLockProofs.tla                        check the proofs of one module

## 1. The system

There is no program as a whole: each directory builds one or more
stand-alone benchmarks. They share code by copying (the configuration reader,
the launch shuffle, `diff`).

| component | state it keeps | operations | what is hard |
|---|---|---|---|
| `locks/ticketlock.c` | one word: `ticket`, `users` (unsigned shorts) | lock, unlock, trylock, lockable | numbers wrap; `ticket++` is not atomic; trylock reads half a word, then swaps the whole |
| `locks/k42.c` | `next`, `tail`; queue nodes on the waiters' stacks | lock, unlock, trylock | pointers to nodes of calls that return; a successor may slip in at each of the two compare-and-swaps; stores that reach memory late |
| `locks/spinlock.c`, TAS and TATAS in `locks/main.c` | one word | lock, unlock, trylock | test and exchange are separate; no order among callers |
| `locks/main.c` | counters, mapping of cores to counters, locks, threads | for each pair of cores: `NRUNS` times clear, start, join, assert | counters used without lock between runs; locks reused without being initialised again |
| `io-read/queue.c` | ring, indexes, a mutex and two condition variables | init, push, pop, destroy | lost wake-ups, spurious wake-ups, full against empty |
| `io-read/T1_queue.c` | file buffer, queue, threads | a reader pushes block numbers and one -1 per worker; workers pop; main joins and destroys | termination; reads that fail; a buffer overwritten while used |
| `io-read/T1_simple.c` | a file handle per worker | each worker reads blocks of its own | little: no shared state |
| `counters/main.c`, `locks-v2/main.c` | counters and their locks | workers increment, a measurer sums and resets once a second | the measurer starts before the counters exist; test without lock; a key without a line; a thread's counter that does not exist |
| the shuffle of four `main.c` files | marks and the launch list | draw and take until all are taken | an inner `while (1)` |
| `mem-v3/main.c`, `mem-v2/main.c` | blocks and their mutexes, counters | workers swap random pairs; a measurer collects | workers share blocks; counter reset under increments |
| `mem/main.c` | blocks, counters | workers turn their block round | no lock; the index range; `nthreads` is read after the measurer has started |
| `mem-v3/myrand.c` | two words per worker | random reals, from which `main.c` draws indices | three roundings to `float` |
| `memxchg/main.c` | two buffers, spin locks, a handshake | producer writes, consumer reads both buffers; main joins, prints the time, destroys | signal before wait; locks without a queue |
| `*/config.c` | list of lines | read file, look up a key | absent keys, in two variants |
| `ipc/shm` | a shared segment with a flag byte | client writes "Hi", server answers "ACK" | turn taking by a byte; left-over segments; who initialises |
| `ipc/mq` | one POSIX queue for both directions | the same | a program may receive its own message; the name is created anew |
| `ipc/fifos`, `ipc/pipes`, `ipc/sockets` | a byte stream each way | the same | short reads, end of file, a peer that is gone, left-over names |
| `mutex`, `random`, `ipc/common.c`, `memxchg/dateutil.c`, scripts | none shared | timing loops, one `fscanf`, `diff`, starting programs | nothing concurrent |

How they interact: `locks/main.c` calls the locks; `T1_queue.c` calls
`queue.c`; every measuring program has the same three parties (main, workers,
measurer) over shared counters; an ipc server and its client share one kernel
object and are started by `run.sh`, the server half a second earlier.

What makes each part correct is what its section in part 3 states; the
hazards in `PROJECT.json`, each at its line, are what those properties are for.

## 2. Modules

    LockSpec <--- TicketLock <--- MCTicketLock, TicketLockProofs
        ^-------- K42Lock    <--- MCK42Lock, K42LockProofs
        ^-------- SpinLock   <--- MCSpinLock, LocksBenchProofs
        (its actions, one line per lock) LocksBench <--- MCLocksBench,
                                                             LocksBenchProofs
    BoundedFIFO <--- BoundedQueue <--- T1Queue   <--- MCT1Queue, BoundedQueueProofs
    Shuffle <--- BlockSwap   <--- MCBlockSwap, BlockSwapProofs
    Throughput  <--- MCThroughput, ThroughputProofs
    MemXchg     <--- MCMemXchg, MemXchgProofs
    IpcSettings <--- PingPong    <--- MCPingPong, IpcProofs
        ^----------- ShmPingPong <--- MCShmPingPong, IpcProofs

`LockSpec` and `BoundedFIFO` are abstract specifications: what a lock and a
bounded queue promise. The detailed modules implement them by a refinement
mapping (`Abstract == INSTANCE ... WITH`). `LocksBench` is then written over
locks that behave as `LockSpec` says, so each lock is checked once and the
benchmark once. `T1Queue` extends `BoundedQueue` and `BlockSwap` extends
`Shuffle`: they compose the steps of the part with those of the program, and
their runs check the part's properties too.

Conventions:

* One action is one access to memory (or one system call) that another thread
  or process can see. What a thread does alone, or under a mutex that every
  other user takes too, is one action. `pc[t]` (`at[w]`, `server`, ...) names
  the place in the code.
* Names are the source's where TLA+ allows them. A variable marked "history"
  is not in the code; it records what happened so that a property can talk
  about it, and no guard reads it, with one exception: the history counters
  `added` and `batches` also bound how long a worker runs.
* Some small operators have a second form above them that a comment calls a
  mutant: a plausible mistake at that place. `PROJECT.json` pairs every
  property with one that breaks it.
* Each `MC` module instantiates one component; its `.cfg` gives the constants
  their values and says why they are enough.

### What stands for what

* **TicketLock.** `ticket` and `users` are the halves of the shared word, and
  `TicketMod` is 2^16. `UnlockLoad` and `UnlockStore` are the two accesses of
  `ticket++`; `TryRead` and `TryTake`/`TryBusy` are the read of `users` and
  the compare-and-swap of the whole word. The lock may start with any equal
  pair, since the benchmark reuses locks.
* **K42Lock.** A node is named by the thread whose stack it lies on, or `L` for
  the lock's own; the code takes the address of `l->next`, the first field, as
  that node. `waiting[t]` is `me.tail`, NULL or not; between calls it holds
  whatever the stack held. `Write` puts a plain store into the thread's
  `buffer`, `Drain` brings the oldest to memory, `Load` sees the own stores
  first, and `Locked` (for `xchg` and `cmpxchg`) waits until the buffer is empty.
  A store to a frame that is gone would be a `Drain` that still names it.
  `line` is history: the callers in the order of their exchange of the tail.
* **SpinLock.** `build` chooses among three compile-time variants; `pc` tells
  whether a caller reads or is about to exchange. `spin_trylock` is `Take` from
  "out" (CUSTOM only); when it fails it leaves no trace.
* **LocksBench.** Thread 0 is main, as in `run()`. `*c += 1` is `Load` and
  `Store`. The loop of `main()` over pairs and runs is `Check`/`Advance`; `k`
  is shared by three loops in the code, and its value after the mapping loops
  is overwritten before it is read.
* **BoundedQueue.** A call is cut where the mutex changes hands: `Acquire`,
  `Sleep` (the atomic release-and-sleep), `Put`/`Take`, `Signal`, `Unlock`.
  A woken caller is back at `lock` and tests again. `MaxSpurious` bounds the
  wake-ups without a signal.
* **T1Queue.** `at[t]` is where the thread's own code is, `pc[t]` where it is
  in the queue. `buf` says for every byte of `g_Buf` which block it belongs
  to, by the offset the code computes; `pos` is how far the file has been read.
  `Read` fails to fill its block only at the end of the file; `ReadError` gets
  any part of one, is taken for a block, and the next round reads on from there,
  as the loop tests `feof` alone. `MaxErrors` bounds the reads that fail; `sent`
  and `delivered` are history.
* **Throughput.** `main` walks through `ReadNCounters`, `Alloc`, `ZeroCounter`,
  `LockInit`, `StartLaunch`, `Launch`, `Join`; `stage` is how far a counter is;
  `fault` is a use of memory that `main()` has not initialised, after which
  nothing more is said. `slow` is an assumption made visible: when it is
  FALSE, the measurer's `sleep(1)` does not end before `main()` has
  initialised everything.
  `Launch` gives a thread any counter that the file may name: one in use, an
  entry of the table (`Table`, `MAXCOUNTERS` entries) that `main()` left NULL (`UseNull` is its use), or
  a number outside of the table, of which -1 and `MAXCOUNTERS` stand for all;
  `locks-v2` skips the negative ones, `counters` does not. `MissLine` is a key
  without a line, with the difference between the two `config.c`. The trace ends
  with `fault`, so the runs go on only where the file makes sense.
* **Shuffle.** `random` is the list of `j` entries, `n` and `i` the inner
  loop's; `rand() % nthreads` is any thread number.
* **IpcSettings.** The two numbers of `settings.cfg`, which stay as they are: both
  programs of a pair read the same file.
* **ShmPingPong.** Each write to the text (`bzero`, `sprintf`) is a step of its
  own. `FlagAt` and `Length` place the flag behind the text and the NUL of
  `sprintf` behind the word, so that it would be seen if they met. `late` says
  that the server may still be starting when the client opens the segment.
* **PingPong.** `prog` chooses among the four programs, which share the two
  loops and differ in `Setup`, `Opening` and the channel. A stream is a
  sequence of bytes, each named by the message it belongs to. For `mq`, `names`
  and `channel` hold the queue of an earlier run ("old") and the new one: the
  name is unlinked and created again, a handle stays; `back` and `echo` count
  messages that a program received from itself, and `HandOver` is the kernel's
  direct delivery to a receiver that waits. `short` allows a socket's reads to
  return part of a message; `Kill` ends one of the two programs anywhere.
* **BlockSwap.** `prog` chooses `mem`, `mem-v2` or `mem-v3`. `seq[w]` is the list
  of index pairs that a worker is about to swap, drawn (`DrawBatch`) or, in
  `mem`, running inwards from both ends (`StartTurn`); `Save`, `Move`, `Store` are
  the three statements of a swap. `UniformIndex` rounds to `float` three times as the
  expression does: what `get_uniform` returns, `blocksize`, and their product. `Nearest` is the
  rounding, with ties to even, into `Floats`, which are counted in units of the
  smallest step; there are `Words` words and `FloatSteps` steps below 1 (2^32 and 2^24 in the code, where
  floats in [1/2, 1) are multiples of 2^-24). `Index` is the
  block and the memory behind it, up to `blocksize` as an int or as a float. The floats are those of
  a build that keeps each result at its type's width, as x86-64 does.
* **MemXchg.** The loops over the buffers are a place each ("buf1", "buf2"), between
  `LOCK` and `UNLOCK`. The time that `main()` takes and prints is left out.

## 3. The runs

Each is one question; all of them finish within about three minutes.

| run | question | instance | states |
|---|---|---|---|
| `ticket` | Is the ticket lock a FIFO lock that starves nobody while its numbers wrap? | 3 threads, 3 numbers | 25 834 |
| `k42` | The same for K42 with store buffers, and does every late store still find its place? | 3 threads | 44 058 |
| `spin` | Do the spin locks exclude, and does somebody get in? | 4 threads, 3 builds | 425 |
| `bench` | Does `run()`'s assert hold, is nothing shared between runs, does it end? | 3 cores, 2 loops, 2 runs | 20 646 |
| `t1` | Is the queue a bounded FIFO without lost wake-ups, does each block reach one worker, does the program end? | 3 workers, 2 slots, 2 blocks and a rest, a read that fails | 394 656 |
| `t1_data` | Is a block still in memory when its worker uses it? (No.) | 1 worker, 2 blocks | |
| `throughput` | Is each increment printed once, and when is unset memory used? | 2 workers, 2 counters in a table of 3 | 95 464 |
| `mem` | Is every thread launched once, do blocks keep their elements, is every batch counted? | 3 programs, 2 workers, 2 blocks of 6, which as a float is 8 | 2 743 786 |
| `mem_turn` | Does the first turn of `mem` reverse a block? (No.) | 2 workers, 2 blocks of 4 | |
| `memxchg` | Do producer and consumer meet, exclude each other and finish? | 4 rounds, 2 spurious wake-ups | 859 |
| `shm` | Does the flag byte make the programs take turns, whatever an earlier run left? | 2 sizes, 0-4 messages | 1 564 |
| `pingpong` | Who ends, over a message queue, fifos, pipes and sockets? | 0-4 messages of 4 bytes, a kill, short reads | 29 557 |

### What they show

* `ticket`: `IInv` (the queued threads hold consecutive numbers from `ticket`
  on, and the value loaded for `ticket++` is current when stored),
  `MutualExclusion`, `LockableExact`, the refinement of `LockSpec`, and
  `StarvationFree`. As many threads as numbers is the tightest case: with one
  more, two threads would hold one number. `LockableExact` needs one thread
  outside of the queue, which the caller of `ticket_lockable` is; when all
  2^16 numbers are out, the halves are equal again.
* `k42`: `NoLateWrite` is the reason why the algorithm is subtle: a store that
  leaves its buffer late still finds what it was meant for. Whoever
  links behind `pred` finds it still in `k42_lock` (or it is the lock), because
  `pred` cannot leave before it has seen the link; a store to `l->next` comes before
  the next holder's own; and whoever is woken is spinning on the flag that is
  cleared. `Consistent` says that nodes, tail and pointers form one chain in the order of
  the exchanges, and that an idle lock is as it was at first, which
  justifies that `k42_trylock` does not touch `l->next`. It also lists what each thread's buffer holds at each place
  of the code, which makes it inductive. The mutant of `Consistent`
  lets the locked instructions overtake the stores before them: the algorithm
  needs them as fences, and no other fence. Three threads are
  enough to have a holder, a thread that has been chosen as its successor and
  one that arrives between that one's test and its compare-and-swap.
* `spin`: exclusion and exactness of the word (`IInv`), the refinement, and
  `Progress`; single callers may starve, so no more than that is true.
* `bench`: `Consistent` says that the threads follow `main()`, that each lock's line holds exactly its
  callers and that counters are right at every step (what is in the counters of the two cores of a
  pair is what their threads have added, and a value loaded is current when stored); with that the program's own `assert` at the end of `run()` holds; `QuietBetweenRuns` is
  what makes it legal to clear the counters and rewrite the mapping without a
  lock. Three cores give pairs with an inactive thread.
* `t1`: with more workers than slots one signal per operation could be too few;
  `IInv` counts: as long as consumers
  sleep, there are no more elements than consumers awake plus signals about to
  be sent. `InOrderOnce` and `Consistent` are about the protocol of numbers and
  -1s: `ItemsInOrder` numbers what goes through the queue and says that it holds the items between
  those popped and those pushed, and that the workers told to stop are as many as the -1s popped.
  `FileRead` relates the numbers pushed to the bytes read: at the end every
  whole block of the file was pushed, and at most one number more for each read that failed.
  All of it holds with failing reads, and `Terminates` says that the program ends as
  long as reads fail a bounded number of times. Its mutant is a worker
  that misses its -1. The absence of deadlock is checked
  as well. More than one producer, which the queue allows and T1 never has, is
  covered by the theorems. The buffer is not right: see Findings.
* `throughput`: `Consistent` conserves increments across counters, the sum
  being taken and what was printed, and says that uninitialised memory is used
  only when the first `sleep` of the measurer ends before `main()` is ready, when
  `locks-v2` reports an absent key as found, or by a thread whose counter
  the file puts outside of those that `main()` makes; before that everybody works on counters that are
  ready (`InOrder`), and the locks' words tell who is between lock and unlock (`WordsHeld`);
  `Reported` says that with the atomic build everything is
  printed in the end (with locks the measurer may wait for ever for an unfair
  lock).
* `mem`: `Consistent` says that a block always holds all of its elements, in the middle of a swap
  with the saved one put back by the holder of its mutex or, in `mem`, by its only worker, and in `mem` also
  where each of them is; two workers of `mem` on one block race, and nothing is said of it.
  `EachOnce` and `AllLaunched` are the shuffle's correctness and the end of
  its loop. The draws include `blocksize` itself, which is one element too far, and, where `blocksize`
  is rounded up, as 6 is to 8 in this run, as much more; the model
  shows that no draw goes further, and that nothing is lost when it occurs.
* `memxchg`: `IInv` covers the handshake: whatever the order of signal and wait and
  with spurious wake-ups, the consumer reads nothing before the producer is ready. The spin
  locks promise nobody a turn, yet both threads finish (`Terminates`), because a thread
  that loses the lock again and again loses it to a bounded number of rounds.
* `shm`: `TurnTaking` also holds on a left-over segment with the flag set and
  with a late server, which loses one message at most (`OneLostAtMost`) and
  then waits for one that never comes, so `Finishes` promises the server's end
  only for servers that were ready.
* `pingpong`: `Consistent` is a token argument: one whole message is under way while
  the client wants an answer and none otherwise, so the two-message
  queue never fills. With short reads this is lost, and the loops of the two programs
  count different messages; still nobody hangs, because a read takes no more than
  a write gives, but a program may die of writing to a peer that has left
  (`NoBrokenPipe` says that only then). `ClientFinishes` and `ServerFinishes` name the
  cases in which a program waits for ever: a server that gave up on a left-over
  name (`mkfifo`) or was killed, under everything except a socket; a client that
  took its own message back or was killed.

### Bounds

Numbers of threads, slots, blocks and messages are small constants, named in
the modules (`TicketMod`, `maxelems`, `MaxSpurious`, `MaxAdds`, `MaxTurns`, `MaxBatches`,
`MaxErrors`, `MaxMessages`, `Sizes`, `NLOOPS`, `NRUNS`; `Words`, `FloatSteps` and
`RAND_MAX` for widths). They are chosen so that what could go wrong
happens: numbers and ring indexes wrap, queues are full and empty with callers
asleep on both sides, workers share and do not share a counter or block,
sequences of messages go once around and begin again, a read splits a
message, a draw rounds up to 1 and a block's size to a larger float, a read fails. Store buffers of `k42` need no bound: each
call ends or is followed by a locked instruction. Where a theorem exists
(part 5) the bound is immaterial for the property it covers; that is why the shuffle
runs with two threads only. No symmetry is used. Deadlock checking is off in
`pingpong` alone: there a program really can be left waiting.

## 4. Fairness and memory

* The benchmarks pin threads to cores (or leave them to a preemptive
  scheduler), so a thread that can take a step of its own code takes it in the
  end: weak fairness for each thread. Nothing obliges a thread to call a lock
  or the queue, so calls have no fairness in the component modules.
* Locks without a queue promise nobody a turn: no strong fairness anywhere.
  `bench` terminates regardless, because each thread's number of loops is
  finite.
* A sleeper of a condition variable wakes by a signal; spurious wake-ups may
  happen but never must.
* A store buffer drains: weak fairness of `Drain` for each thread.
* The two processes of an ipc pair run on independently.

On x86 plain stores may be delayed behind later loads and locked instructions are
fences. `K42Lock` models this, since its waiters and its holder write and read
different words; each of the other locks is a single word that a core's own loads
see its stores to, and the buffers drain in order, so that a delayed `ticket++` or unlock only
delays the next caller. All other modules interleave single accesses
(sequential consistency); what they share is guarded by locks or by locked instructions, with
the exception of the measurer's unlocked test in `counters`, whose outcome may be
old in any case.

## 5. What is proved

For every value of the constants under the named assumptions, by TLAPS:

* **Ticket lock** (`TicketLockProofs`). `TicketInvariant`: `IInv` is inductive.
  Mutual exclusion is not: it needs that queued threads hold different
  numbers, which after wrapping follows only from their being the
  `Cardinality(Queued)` consecutive numbers from `ticket` on, with `users` the
  next; that in turn needs the store of `ticket++` to find the value loaded,
  for which only the holder, who exists once, may be storing. Distances modulo
  `TicketMod` are treated by lemmas about `Dist`. Assumed: finitely many
  threads, not more than `TicketMod`. From it follow
  `TicketMutualExclusion`, `TicketNoLostRelease` and `TicketLockableExact`.
  `TicketRefinesLock`: every step is one of `LockSpec` or a stutter. The abstract line is the sequence of
  queued threads by their distance from `ticket` (`Line`); a new caller stands at its end because its
  number is `users`, the only distance not taken, and `ticket++` moves all of them one place up.
* **K42 lock** (`K42LockProofs`). `ConsistentAlways`, and from it `K42MutualExclusion` and
  `K42NoLateWrite`, for any set of threads and however late a store arrives. Exclusion rests on who can be woken, which rests on
  what lies in whose store buffer: the invariant says for every place in the code which stores may be
  under way (`BufferInOrder`), that neighbours in the line are linked, or that their link is in the
  successor's buffer (`ChainInOrder`), that the lock's own node leads the line's second (`LockLeads`),
  and that at most one wake-up is under way, to the head of the line (`OneWakeUp`). The proof has one
  step per action and uses at each locked instruction that the buffer is empty there.
  `K42RefinesLock`: grants come in the order of the exchanges; a store that drains is always a stutter, the
  wake-up too. The abstract grant is the caller's own last step in `k42_lock`, whether it had to wait or
  not: `Pass`, `AwaitNext`, or a `Detach` that finds itself at the tail.
* **Spin locks** (`LocksBenchProofs`, last part, since `worker()` has two of them inline). `SpinInvariant`, `SpinMutualExclusion` and
  `SpinRefinesLock`: the three builds implement `LockSpec` for any set of
  threads.
* **Queue** (`BoundedQueueProofs`). `QueueInvariant`, `QueueLockExact`,
  `QueueNoLostWakeUp` and `QueueSomeoneAwake`, for any finite sets of callers and any
  number of slots. The proof counts: a push adds one element and one pending signal, a
  signal turns into one waking consumer or there is nobody asleep, and a
  consumer that goes back to sleep has found the queue empty.
  `QueueRefinesFIFO`: every step is one of a bounded FIFO or a stutter. It rests on lemmas
  about the ring (`SlotAfter`, `ContentsHeld`): the slots from `tail` on, `nelem` of them,
  hold the sequence; a push appends to it (`PutIsPush`) and a pop takes its
  first element (`TakeIsPop`).
* **T1 over the queue** (`BoundedQueueProofs`, second part). `T1Consistent` and
  `T1InOrderOnce`, for any numbers of workers, blocks, slots and failing reads and any block size. `T1UsesQueue`: every
  step of the program is one of the queue or leaves it alone, so that the queue's invariant holds and a
  `Put` appends and a `Take` takes the first. That alone does not say who gets a -1: `Item(k)` is what the
  k-th call of `queue_push` brings, `Popped` counts the pops from what the producer has called and the
  queue still holds, and `Told` are the workers with a -1; a `Take` either delivers block `Popped` or adds its caller to `Told`
  (`TakeKeepsItems`). When all have exited, `Told` is every worker, so as many items were popped as pushed,
  and the queue that is destroyed is empty (`AllJoined`). That every whole block was among the items is
  `FileRead`: each read moves `pos` by a block unless it failed, so the end of the file cannot come early
  (`FileReadKept`, `ReadsBounded`).
* **Benchmark of core pairs** (`LocksBenchProofs`). `BenchConsistent`, for any numbers of cores, runs and
  loops and over any lock that `LockSpec` admits; it contains the program's own `assert`. That the counters
  add up is inductive only with the lock: a thread between load and store has loaded the current value
  (`IncrementsConserved`), because it is its line's first and the counter's other user is not; that the
  lists hold exactly the callers (`LinesExact`) needs in turn that the mapping of cores to locks stands
  still while a thread runs (`MappingKept`, `ThreadsFollowMain`). `BenchQuiet` and `BenchMeasuresAll` follow
  from it, the latter by counting the pairs before the current one (`TookExact`).
* **Shuffle and block swapping** (`BlockSwapProofs`). `ShuffleInvariant`, `ShuffleEachOnce` and
  `ShuffleSomeFree`, for any number of threads: the list and the marks have the same cardinality.
  `BlocksConsistent` for any number of workers and blocks, any block and batch size and any word width:
  a worker is launched once (`LaunchedOnce`, from the list's entries being distinct), so that whoever swaps
  without a race holds the mutex alone (`LocksExact`, lemma `OneSwaps`); whatever pairs are drawn they stay
  within `Index` (`DrawnInIndex`: rounding does not pass a float, lemma `NearestBelow`, so `get_uniform` is at
  most 1 and its product with `blocksize` at most `blocksize` as a float; up to `FloatSteps`, 2^24, that is
  `blocksize` itself, lemma `SmallBlocks`), and exchanging two elements loses none (`SwapComplete`). That the types hold needs
  the sums, since what the measurer adds up is bounded only by what was counted; so the inductive
  invariant is `Consistent` with `BatchesConserved`, which `EveryBatchPrinted` states. Sums over workers are
  written as cardinalities (`Ones`), to which one more batch adds one pair. In `mem`, `TurnsExact`
  follows the exchanges from both ends; lemmas about `Turned` say that each reaches two new indices and
  that two turns are none.
* **Ping-pong over queue, fifos, pipes and sockets** (`IpcProofs`). `PingPongConsistent` and
  `PingPongNoBrokenPipe`, for any number and any size of messages. One induction for both: that a program never
  meets a peer that has left rests on the token (`OneToken`), which says what every channel holds, on
  the counts (`AnswersAddUp`), by which a program that is done leaves the other with a whole answer to read
  or with nothing to do (`PeerStays`), and the counts rest on reads that find a peer. A message that is its sender's own
  (`mq`) keeps both (`ReceiveKeepsToken`), because `back` and `echo` count it. The places (`InPlace`) and
  the loops' bounds (`Counted`) hold with short reads and kills too.
* **Shared memory** (`IpcProofs`, second part). `ShmTurnTaking`, `ShmClientReadsAck`,
  `ShmOneLostAtMost`, for any set of message sizes that excludes 3 (where the NUL of
  "ACK" falls on the flag) and is above 2, and any number of messages.
* **memxchg** (`MemXchgProofs`). `MemXchgInvariant` and `MemXchgSectionsExclusive`,
  for any number of rounds and of spurious wake-ups. Exclusion alone
  is not inductive: that a thread at a buffer holds its lock must go with the handshake (who holds the
  mutex at which place) and with the join that precedes the destruction.
* **Throughput counters** (`ThroughputProofs`). `ThroughputConsistent`, for any finite set of workers, any
  number of counters, of table entries and of increments, and any number that the file gives a thread as its counter, for
  both ways of counting. That increments are conserved is inductive only with the words of the locks (`WordsHeld`): what
  a worker has loaded is still in the counter when it stores, and what the measurer has added is still
  there when it resets, because whoever is between lock and unlock has its name in the word. That no
  counter or lock is touched before `main()` is done with it is `InOrder`, whose exceptions are the three in
  `UndefinedOnlyEarly`; after one of them the invariant says nothing but which it was. The sums over workers and counters are cardinalities of sets of pairs (`Ones`):
  one more increment is one more pair (`OneMore`), a reset takes as many pairs away as the counter held
  (`Taken`), and a counter that is cleaned adds none (`SameUncounted`).

Every safety invariant that a run checks is proved. Model-checked only: everything about liveness and
termination (out of the prover's reach). Sums over
threads are never folds, which would need induction over data: `LocksBench` names the two terms that are
not zero, `BlockSwap` and `Throughput` count sets of pairs. No module declares a RECURSIVE operator.

## 6. Findings and observations

* **Finding** (run `t1_data`). `T1_queue.c:52` places block `i` at byte
  `( i * g_BlockSize ) % g_NBlocks`: the byte offset is reduced modulo the
  number of blocks. Blocks overlap, and one is overwritten while a worker has
  been told to use it.
* A worker is also told of a block while the producer may already read a later
  one into the same place: even with the offset `( i % g_NBlocks ) * g_BlockSize`
  the bounded queue counts pushes and not uses, so the buffer would have to
  hold a block for each slot, for each worker and for the one being read.
* `mq` client: the two directions share one queue, so "Read acknowledgment"
  may read the client's own message (modelled; `back` counts it).
* **Finding** (run `mem_turn`). `mem/main.c:80` starts the reversal with `j = blocksize`,
  one element beyond the block, where `mem/README.md:8` says that element 0 goes to
  position N-1. The first turn brings what lies behind the block to its front, and the second takes it
  back; elements next to the middle stay in place for odd sizes. Nothing is lost (`TurnsExact`).
* `mem-v3/myrand.c:22`: the comment says "strictly between 0 and 1", and so is the double;
  as a float the 127 largest words give exactly 1.0, and the index is
  `blocksize`. `mem-v2/main.c:95` draws the same index when `random_r` returns `RAND_MAX`.
  `mem-v3/main.c:105` converts `blocksize` to `float` as well: above 2^24 it may round up, and the index drawn
  can then lie beyond `blocksize`, by half the gap between floats of that size at most. The model has all of it, at a reduced width.
* `locks-v2/config.c:54-58` (and its copies in `mem*`): without braces, a lookup reports keys that are
  absent as found and leaves the value unset. `Throughput` models what follows for
  the threads' counters (`MissLine`).
* `counters/main.c:295` and `locks-v2/main.c:229` index the table with whatever number the file gives
  (`locks-v2` after skipping negative ones): a number from `ncounters` on is a NULL pointer or outside of the
  table (`UndefinedOnlyEarly` names the case).
* `T1_queue.c:51-58` tests `feof` and not `ferror`: a read that fails is pushed as a block, and blocks after it
  no longer lie at multiples of the block size. Were every read to fail, the producer would push numbers
  for ever and no worker would get its -1; the bound `MaxErrors` excludes that.
* `diff` in `memxchg/dateutil.c` and `ipc/common.c` borrows a second when the nanoseconds do not suffice, and then adds
  both parts as one real number, which is the same without the borrow: left out.
* `ipc/pipes`: a client whose core does not exist gives up, and the server, which holds both ends of
  its pipe, waits for ever; the same for `ipc/fifos` after a left-over name.

## 7. Not modelled, and the plan

Not modelled because nothing in them can go wrong that a model would show:
`mutex`, `random` (single-threaded timing), the scripts, the settings reader,
`T1_simple` (its workers share nothing), `diff`, the loop of `read_config_file` and the sequence of
`get_uint`.
Failing system calls mostly end a program at once and are left out; where they
are modelled the action is `GiveUp` (`Throughput`) or the program is "failed" (`PingPong`).

The order of work, most important first:

1. `locks/` and `io-read/queue.c`: the locks, the queue and their abstract
   specifications; store buffers for K42 (done).
2. The programs over them: benchmark, T1, counters, block swapping, `memxchg`, shared
   memory, and the ping-pongs over queues and streams (done).
3. Proofs about the queue's refinement and `memxchg` (done).
4. K42 under late stores, the ticket lock's refinement, the benchmark, block swapping and T1 (done).
   Each needed its invariant strengthened first: the buffers of K42, the lines of the benchmark, complete
   blocks instead of missing elements, numbered items for T1.
5. The token argument of `PingPong` (done), with what every channel holds in place of counts of words.
6. The invariant of `Throughput`, with its sums as cardinalities (done).
7. `read_config_file` with what a failed conversion leaves in its buffers, and the lookup, as a module of
   their own; the numbering of blocks in `T1_simple`.
