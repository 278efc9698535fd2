------------------------------- MODULE T1Queue -------------------------------
(***************************************************************************)
(* io-read/T1_queue.c over the queue: one producer reads the file block by *)
(* block into g_Buf and pushes the blocks' numbers, then -1 for each       *)
(* worker; the workers pop until they get a -1; main joins them all and    *)
(* destroys the queue.  The queue has g_NBlocks slots (maxelems).          *)
(***************************************************************************)
EXTENDS BoundedQueue

CONSTANTS Producer,
          FullBlocks,  \* whole blocks in the file
          Rest,        \* bytes after them
          BlockSize,   \* g_BlockSize
          MaxErrors    \* bound on the reads that fail

done == -1  \* the local of producer()

ASSUME T1Assumption == /\ Producers = {Producer} /\ Consumers # {}
                       /\ FullBlocks \in Nat /\ BlockSize \in Nat \ {0}
                       /\ Rest \in 0 .. BlockSize - 1
                       /\ MaxErrors \in Nat
                       /\ Elements = {done} \cup 0 .. FullBlocks + MaxErrors

VARIABLES i,         \* the producer's loop index
          pos,       \* how many bytes of the file have been read
          buf,       \* g_Buf: the block that each byte belongs to, or -1
          at,        \* where each thread's own code is
          main,      \* "join" or "destroyed"
          errors,    \* the reads that have failed
          sent,      \* history: how many blocks have been pushed
          delivered  \* history: the blocks that workers have popped
t1vars == <<vars, i, pos, buf, at, main, errors, sent, delivered>>

Bytes == 0 .. maxelems * BlockSize - 1

T1Init == /\ Init
          /\ data = [s \in Slots |-> 0] /\ elem = [t \in Threads |-> 0]
          /\ i = 0 /\ pos = 0
          /\ buf = [b \in Bytes |-> -1]
          /\ at = [t \in Threads |-> IF t = Producer THEN "read" ELSE "pop"]
          /\ main = "join"
          /\ errors = 0
          /\ sent = 0 /\ delivered = {}

Go(t, from, to) == at[t] = from /\ at' = [at EXCEPT ![t] = to]
InOwnCode(t) == pc[t] = "out"

\* The bytes of block n.
Offset(n) == (n * BlockSize) % maxelems
Place(n) == Offset(n) .. Offset(n) + BlockSize - 1

Fill(n, len) == [b \in Bytes |-> IF b \in Offset(n) .. Offset(n) + len - 1
                                 THEN n ELSE buf[b]]

\* fread and the test of feof: a file that ends within a block sets it, and so
\* does the read after the last whole block; the bytes read stay in g_Buf.
FileSize == FullBlocks * BlockSize + Rest
Left == FileSize - pos
AtEnd == Left < BlockSize
Read == /\ InOwnCode(Producer)
        /\ Go(Producer, "read", IF AtEnd THEN "stop" ELSE "push")
        /\ LET len == IF AtEnd THEN Left ELSE BlockSize
           IN pos' = pos + len /\ buf' = Fill(i, len)
        /\ i' = IF AtEnd THEN 0 ELSE i
        /\ UNCHANGED <<vars, main, errors, sent, delivered>>

\* A read error sets ferror, which nobody tests: what came before it counts as
\* a block, and the next round reads on from there.
ReadError == /\ InOwnCode(Producer) /\ errors < MaxErrors
             /\ Go(Producer, "read", "push")
             /\ \E len \in 0 .. BlockSize - 1 :
                  /\ len =< Left
                  /\ pos' = pos + len /\ buf' = Fill(i, len)
             /\ errors' = errors + 1
             /\ UNCHANGED <<vars, i, main, sent, delivered>>

\* queue_push(&i), then i++, forgotten by a mutant.
SameBlock == i
NextBlock == i + 1
PushBlock == /\ Go(Producer, "push", "read")
             /\ PushCall(Producer, i)
             /\ i' = NextBlock
             /\ sent' = sent + 1
             /\ UNCHANGED <<pos, buf, main, errors, delivered>>

\* queue_push(&done), once for each worker.
Poisons == Cardinality(Consumers)
PushDone == /\ i < Poisons
            /\ Go(Producer, "stop", "stop")
            /\ PushCall(Producer, done)
            /\ i' = i + 1
            /\ UNCHANGED <<pos, buf, main, errors, sent, delivered>>
ProducerExit == /\ InOwnCode(Producer) /\ i = Poisons
                /\ Go(Producer, "stop", "exit")
                /\ UNCHANGED <<vars, i, pos, buf, main, errors, sent, delivered>>

Pop(c) == /\ Go(c, "pop", "got")
          /\ PopCall(c)
          /\ UNCHANGED <<i, pos, buf, main, errors, sent, delivered>>
\* The worker looks at what queue_pop returned.
AfterPop(c) == IF elem[c] = done THEN "exit" ELSE "use"
Got(c) == /\ InOwnCode(c)
          /\ Go(c, "got", AfterPop(c))
          /\ UNCHANGED <<vars, i, pos, buf, main, errors, sent, delivered>>
\* "do something with the data", then round the loop; in a mutant the queue_pop
\* is before it.
PopBefore == "got"
LoopHead == "pop"
Use(c) == /\ Go(c, "use", LoopHead)
          /\ UNCHANGED <<vars, i, pos, buf, main, errors, sent, delivered>>

\* The steps inside the queue.
QueueStep(t) == /\ Step(t)
                /\ delivered' = delivered \cup
                     (IF Take(t) /\ data[tail] # done THEN {data[tail]} ELSE {})
                /\ UNCHANGED <<i, pos, buf, at, main, errors, sent>>
Wake(t) == /\ WakeUp(t)
           /\ UNCHANGED <<i, pos, buf, at, main, errors, sent, delivered>>

\* main joins every thread before queue_destroy; a mutant only the producer.
JoinProducer == {Producer}
Joined == Threads
Destroy == /\ main = "join"
           /\ \A t \in Joined : at[t] = "exit"
           /\ main' = "destroyed"
           /\ UNCHANGED <<vars, i, pos, buf, at, errors, sent, delivered>>
Finished == main = "destroyed" /\ UNCHANGED t1vars

Run(t) == \/ /\ t = Producer
             /\ (Read \/ ReadError \/ PushBlock \/ PushDone \/ ProducerExit)
          \/ /\ t \in Consumers
             /\ (Pop(t) \/ Got(t) \/ Use(t))
          \/ QueueStep(t)
T1Next == \/ \E t \in Threads : Run(t) \/ Wake(t)
          \/ Destroy \/ Finished

T1Spec == T1Init /\ [][T1Next]_t1vars
\* No thread stops in its own code, and one that asks for a mutex gets it when
\* it stays free; nothing makes a sleeper wake but a signal.
T1FairSpec == /\ T1Spec
              /\ \A t \in Threads : WF_t1vars(Run(t))
              /\ WF_t1vars(Destroy)
-----------------------------------------------------------------------------
MaxBlocks == FullBlocks + MaxErrors
T1TypeOK == /\ TypeOK
            /\ i \in 0 .. MaxBlocks + Cardinality(Consumers)
            /\ pos \in 0 .. FileSize
            /\ buf \in [Bytes -> -1 .. MaxBlocks]
            /\ at \in [Threads -> {"read", "push", "stop", "pop", "got", "use",
                                   "exit"}]
            /\ main \in {"join", "destroyed"}
            /\ errors \in 0 .. MaxErrors
            /\ sent \in 0 .. MaxBlocks
            /\ delivered \in SUBSET (0 .. MaxBlocks)

\* Blocks reach the workers once each and in the order in which they were read,
\* also when reads fail, and no worker is told to stop before all of them are
\* taken.
InOrderOnce ==
  [][\A c \in Consumers : Take(c) =>
       delivered = IF data[tail] = done THEN 0 .. sent - 1
                                        ELSE 0 .. data[tail] - 1]_t1vars

\* A thread is in the queue only where its own code calls it.
InOwnPlace ==
  /\ at[Producer] \in {"read", "push", "stop", "exit"}
  /\ \A c \in Consumers : at[c] \in {"pop", "got", "use", "exit"}
  /\ \A t \in Threads : at[t] \in {"push", "pop", "use", "exit"} => InOwnCode(t)
  /\ at[Producer] \in {"read", "push"} => i = sent
  /\ at[Producer] \in {"stop", "exit"} => i =< Poisons
  /\ at[Producer] = "exit" => i = Poisons

\* What was read: a whole block by each read that did not fail, less by one
\* that did.  The producer stops with every whole block of the file pushed, and
\* with at most one number more for each failed read.
Reads == IF at[Producer] = "push" THEN i + 1 ELSE i
FileRead ==
  /\ at[Producer] \in {"read", "push"} =>
       /\ (Reads - errors) * BlockSize =< pos
       /\ pos =< Reads * BlockSize
  /\ at[Producer] \in {"stop", "exit"} =>
       sent \in FullBlocks .. FullBlocks + errors

\* What goes through the queue, as numbered by the calls of queue_push: the
\* blocks, then a -1 for each worker.
Item(k) == IF k < sent THEN k ELSE done
Calls == IF at[Producer] \in {"read", "push"} THEN i ELSE sent + i
Pending == pc[Producer] \in {"lock", "test", "sleep"}
Pushed == IF Pending THEN Calls - 1 ELSE Calls
Popped == Pushed - nelem
\* The workers that have got their -1.
Told == {c \in Consumers :
           \/ at[c] = "exit"
           \/ at[c] = "got" /\ elem[c] = done /\ pc[c] \in {"signal", "unlock", "out"}}

\* The queue holds the items between those popped and those pushed; the blocks
\* popped are delivered, each -1 popped is a worker's.
ItemsInOrder ==
  /\ Popped >= 0
  /\ Pending => elem[Producer] = Item(Calls - 1)
  /\ \A x \in 1 .. nelem : Contents[x] = Item(Popped + x - 1)
  /\ delivered = {n \in 0 .. sent - 1 : n < Popped}
  /\ Cardinality(Told) = IF Popped > sent THEN Popped - sent ELSE 0

\* When the queue is destroyed nobody is in it, nothing is left in it, its
\* mutex is free and everything that was pushed was delivered, every whole
\* block of the file among it.
DestroyedIdle == main = "destroyed" => /\ \A t \in Threads : at[t] = "exit"
                                       /\ nelem = 0 /\ lock = NoOne
                                       /\ delivered = 0 .. sent - 1
                                       /\ sent >= FullBlocks

\* With the types, by induction: the protocol of numbers and -1s is kept, and no
\* use of the queue outlives it.
Consistent == T1TypeOK /\ InOwnPlace /\ FileRead /\ ItemsInOrder /\ DestroyedIdle

\* Every worker gets its -1 and the program ends, although workers and the
\* producer sleep on a full and an empty queue of any size, if no more than
\* MaxErrors reads fail.
Terminates == <>(main = "destroyed")

\* The block a worker is told of is in g_Buf while it does something with it.
BlockIntact == \A c \in Consumers :
                 at[c] = "use" => \A b \in Place(elem[c]) : buf[b] = elem[c]
=============================================================================
