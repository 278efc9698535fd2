---------------------------- MODULE K42LockProofs ----------------------------
(***************************************************************************)
(* Proofs about K42Lock for every set of threads, however late the stores  *)
(* reach memory.  Consistent is inductive as it stands: the shape of each  *)
(* store buffer at each point of the two calls, and the chain of callers   *)
(* that memory and those stores describe together.                         *)
(***************************************************************************)
EXTENDS K42Lock, SequenceTheorems, TLAPS

\* Buffers hold at most three stores: what Append and Tail make of them.
LEMMA ShortAppend ==
  /\ \A a : Append(<<>>, a) = <<a>>
  /\ \A a, b : Append(<<a>>, b) = <<a, b>>
  /\ \A a, b, c : Append(<<a, b>>, c) = <<a, b, c>>
<1>1. \A a : Append(<<>>, a) = <<a>>
  OBVIOUS
<1>2. ASSUME NEW a, NEW b
      PROVE  Append(<<a>>, b) = <<a, b>>
  <2> DEFINE S == {a, b}
  <2>1. <<a>> \in Seq(S) /\ Len(<<a>>) = 1 /\ b \in S
    OBVIOUS
  <2>2. <<a, b>> \in Seq(S) /\ Len(<<a, b>>) = 2 /\ <<a, b>>[1] = <<a>>[1] /\ <<a, b>>[2] = b
    OBVIOUS
  <2> HIDE DEF S
  <2>3. /\ Append(<<a>>, b) \in Seq(S) /\ Len(Append(<<a>>, b)) = 2
        /\ \A i \in 1 .. 2 : Append(<<a>>, b)[i] = <<a, b>>[i]
    BY <2>1, <2>2, AppendProperties
  <2> QED
    BY <2>2, <2>3, SeqEqual
<1>3. ASSUME NEW a, NEW b, NEW c
      PROVE  Append(<<a, b>>, c) = <<a, b, c>>
  <2> DEFINE S == {a, b, c}
  <2>1. <<a, b>> \in Seq(S) /\ Len(<<a, b>>) = 2 /\ c \in S
    OBVIOUS
  <2>2. /\ <<a, b, c>> \in Seq(S) /\ Len(<<a, b, c>>) = 3
        /\ <<a, b, c>>[1] = <<a, b>>[1] /\ <<a, b, c>>[2] = <<a, b>>[2] /\ <<a, b, c>>[3] = c
    OBVIOUS
  <2> HIDE DEF S
  <2>3. /\ Append(<<a, b>>, c) \in Seq(S) /\ Len(Append(<<a, b>>, c)) = 3
        /\ \A i \in 1 .. 3 : Append(<<a, b>>, c)[i] = <<a, b, c>>[i]
    BY <2>1, <2>2, AppendProperties
  <2> QED
    BY <2>2, <2>3, SeqEqual
<1> QED
  BY <1>1, <1>2, <1>3

\* The oldest store of a buffer, and those behind it.
LEMMA ShortTail ==
  /\ \A a : Tail(<<a>>) = <<>> /\ Head(<<a>>) = a
  /\ \A a, b : Tail(<<a, b>>) = <<b>> /\ Head(<<a, b>>) = a
  /\ \A a, b, c : Tail(<<a, b, c>>) = <<b, c>> /\ Head(<<a, b, c>>) = a
<1>1. \A a : Tail(<<a>>) = <<>> /\ Head(<<a>>) = a
  OBVIOUS
<1>2. \A a, b : Tail(<<a, b>>) = <<b>>
  OBVIOUS
<1>3. \A a, b : Head(<<a, b>>) = a
  OBVIOUS
<1>4. \A a, b, c : Tail(<<a, b, c>>) = <<b, c>>
  OBVIOUS
<1>5. \A a, b, c : Head(<<a, b, c>>) = a
  OBVIOUS
<1> QED
  BY <1>1, <1>2, <1>3, <1>4, <1>5

\* A load that finds no store of its own in the buffer reads memory.
LEMMA NoneOwn ==
  ASSUME NEW t, NEW field, NEW n, NEW inMemory,
         \A k \in DOMAIN buffer[t] : buffer[t][k].field # field \/ buffer[t][k].node # n
  PROVE  Load(t, field, n, inMemory) = inMemory
  BY DEF Load, Pending

\* A load that finds one store of its own reads that.
LEMMA OneOwn ==
  ASSUME NEW t, NEW field, NEW n, NEW inMemory, NEW i \in Nat,
         i \in DOMAIN buffer[t],
         \A k \in DOMAIN buffer[t] :
            (buffer[t][k].field = field /\ buffer[t][k].node = n) <=> k = i
  PROVE  Load(t, field, n, inMemory) = buffer[t][i].value
<1>1. Pending(t, field, n) = {i}
  BY DEF Pending
<1>2. Max({i}) = i
  BY DEF Max
<1> QED
  BY <1>1, <1>2 DEF Load

\* The line as a sequence, and who is where: whoever has exchanged the tail is in
\* line, and whoever is past its wait is the first.
LEMMA LineFacts ==
  ASSUME Consistent
  PROVE  /\ line \in Seq(Threads) /\ Len(line) \in Nat /\ DOMAIN line = 1 .. Len(line)
         /\ line = <<>> <=> Len(line) = 0
         /\ \A k \in DOMAIN line : line[k] \in Threads
         /\ \A t \in Threads : pc[t] \in States
         /\ \A t \in Threads : pc[t] \notin {"out", "xchg"} => \E k \in DOMAIN line : line[k] = t
         /\ \A t \in Threads : pc[t] \notin {"out", "xchg", "arm", "link", "spin"} =>
              line # <<>> /\ t = line[1]
<1>1. /\ line \in Seq(Threads) /\ Len(line) \in Nat /\ DOMAIN line = 1 .. Len(line)
      /\ line = <<>> <=> Len(line) = 0
      /\ \A k \in DOMAIN line : line[k] \in Threads
      /\ \A t \in Threads : pc[t] \in States
  BY DEF Consistent, TypeOK
<1>2. \A t \in Threads : pc[t] \notin {"out", "xchg"} => \E k \in DOMAIN line : line[k] = t
  BY DEF Consistent, LineInOrder
<1>3. ASSUME NEW t \in Threads, pc[t] \notin {"out", "xchg", "arm", "link", "spin"}
      PROVE  line # <<>> /\ t = line[1]
  <2>1. PICK k \in DOMAIN line : line[k] = t
    BY <1>2, <1>3
  <2>2. k \in 2 .. Len(line) => FALSE
    BY <2>1, <1>3 DEF Consistent, ChainInOrder, Blocked
  <2> QED
    BY <1>1, <2>1, <2>2
<1> QED
  BY <1>1, <1>2, <1>3

\* What each load of k42_lock and k42_unlock returns.
LEMMA Loads ==
  ASSUME Consistent, NEW t \in Threads
  PROVE  /\ pc[t] \in {"granted", "await"} => Succ(t, t) = next[t]
         /\ pc[t] = "seek" => Succ(t, L) = next[L]
         /\ pc[t] = "cs" => Succ(t, L) = IF buffer[t] = <<>> THEN next[L] ELSE line[2]
         /\ pc[t] = "spin" => Waiting(t) = IF buffer[t] = <<ArmStore(t), LinkStore(t)>>
                                           THEN TRUE ELSE waiting[t]
<1>1. ASSUME buffer[t] = <<>>
      PROVE  \A f, n, v : Load(t, f, n, v) = v
  BY <1>1, NoneOwn
<1>2. ASSUME pc[t] \in {"granted", "await", "seek"}
      PROVE  buffer[t] = <<>>
  BY <1>2 DEF Consistent, BuffersInOrder, BufferInOrder
<1>3. ASSUME pc[t] = "cs", buffer[t] # <<>>
      PROVE  Succ(t, L) = line[2]
  <2>1. buffer[t] = <<LockNext(line[2])>>
    BY <1>3, LineFacts DEF Consistent, LockLeads, Holding
  <2>2. 1 \in DOMAIN buffer[t] /\ \A k \in DOMAIN buffer[t] : k = 1
    BY <2>1
  <2>3. buffer[t][1] = LockNext(line[2])
    BY <2>1
  <2> QED
    BY <2>2, <2>3, OneOwn DEF Succ, LockNext, Assign
<1>4. ASSUME pc[t] = "spin", buffer[t] = <<ArmStore(t), LinkStore(t)>>
      PROVE  Waiting(t) = TRUE
  <2>2. DOMAIN buffer[t] = 1 .. 2
    BY <1>4
  <2>3. buffer[t][1] = ArmStore(t) /\ buffer[t][2] = LinkStore(t)
    BY <1>4
  <2>4. \A k \in DOMAIN buffer[t] : (buffer[t][k].field = "tail" /\ buffer[t][k].node = t) <=> k = 1
    BY <2>2, <2>3 DEF ArmStore, LinkStore, Assign
  <2> QED
    BY <2>2, <2>3, <2>4, OneOwn DEF Waiting, ArmStore, Assign
<1>5. ASSUME pc[t] = "spin", buffer[t] = <<LinkStore(t)>>
      PROVE  Waiting(t) = waiting[t]
  <2>2. \A k \in DOMAIN buffer[t] : buffer[t][k] = LinkStore(t)
    BY <1>5
  <2> QED
    BY <2>2, NoneOwn DEF Waiting, LinkStore, Assign
<1>6. pc[t] = "spin" => buffer[t] \in {<<>>, <<LinkStore(t)>>, <<ArmStore(t), LinkStore(t)>>}
  BY DEF Consistent, BuffersInOrder, BufferInOrder
<1>7. <<>> # <<ArmStore(t), LinkStore(t)>> /\ <<LinkStore(t)>> # <<ArmStore(t), LinkStore(t)>>
  OBVIOUS
<1> QED
  BY <1>1, <1>2, <1>3, <1>4, <1>5, <1>6, <1>7 DEF Succ, Waiting

\* Whoever is granted and has not left is the first in line, and no wake-up is on
\* its way.
LEMMA FirstFacts ==
  ASSUME Consistent, NEW t \in Threads,
         pc[t] \notin {"out", "xchg", "arm", "link", "spin"}
  PROVE  /\ line # <<>> /\ t = line[1] /\ Len(line) \in Nat /\ Len(line) > 0
         /\ DOMAIN line = 1 .. Len(line)
         /\ \A k \in 2 .. Len(line) : line[k] \in Threads /\ line[k] # t
         /\ \A s \in Threads : ~Waker(s)
         /\ Len(line) > 1 => line[2] \in Threads /\ line[2] # t /\ line[2] # NULL
<1>1. /\ line # <<>> /\ t = line[1] /\ Len(line) \in Nat /\ Len(line) > 0
      /\ DOMAIN line = 1 .. Len(line)
  BY LineFacts
<1>2. \A k \in 2 .. Len(line) : line[k] \in Threads /\ line[k] # t
  BY <1>1, LineFacts DEF Consistent, LineInOrder
<1>3. \A s \in Threads : ~Waker(s)
  BY <1>1 DEF Consistent, OneWakeUp, Linked
<1> QED
  BY <1>1, <1>2, <1>3, K42Assumption

\* The tail as the line tells it.
LEMMA TailFact ==
  ASSUME Consistent, line # <<>>
  PROVE  tail = IF Len(line) = 1 /\ Holding(line[1]) THEN L ELSE line[Len(line)]
  BY DEF Consistent, LineInOrder

\* A wake-up is not the preparation of a node.
LEMMA StoresDiffer ==
  \A s, t : <<WakeStore(s)>> # <<PrepareStore(t)>>
  BY DEF WakeStore, PrepareStore, Assign

\* The buffer of a caller outside the line from which no wake-up comes.
LEMMA NotWaker ==
  ASSUME Consistent, NEW s \in Threads, ~Waker(s)
  PROVE  /\ pc[s] = "out" => buffer[s] = <<>>
         /\ pc[s] = "xchg" => \/ buffer[s] = <<>> /\ next[s] = NULL
                             \/ buffer[s] = <<PrepareStore(s)>>
<1>1. BufferInOrder(s)
  BY DEF Consistent, BuffersInOrder
<1>2. pc[s] \in {"out", "xchg"} => buffer[s] = <<>> \/ buffer[s] = <<PrepareStore(s)>>
  BY DEF Waker
<1>3. ASSUME pc[s] = "out"
      PROVE  buffer[s] # <<PrepareStore(s)>>
  BY <1>1, <1>3, StoresDiffer DEF BufferInOrder
<1> QED
  BY <1>1, <1>2, <1>3 DEF BufferInOrder

\* The steps of the first in line after its grant and before it leaves: what
\* they do not touch stays as it was.
LEMMA FirstStep ==
  ASSUME Consistent, NEW t \in Threads,
         pc[t] \notin {"out", "xchg", "arm", "link", "spin"},
         pc'[t] \notin {"out", "xchg", "arm", "link", "spin"},
         \A s \in Threads : s # t => pc'[s] = pc[s] /\ buffer'[s] = buffer[s],
         UNCHANGED <<waiting, pred, line>>,
         \A s \in Threads : next'[s] = next[s],
         Holding(t) => Holding(t)',
         TypeOK', BufferInOrder(t)', LockLeads',
         tail' = IF Len(line) = 1 /\ Holding(t)' THEN L ELSE line[Len(line)]
  PROVE  Consistent'
<1>1. /\ line # <<>> /\ t = line[1] /\ Len(line) \in Nat /\ Len(line) > 0
      /\ DOMAIN line = 1 .. Len(line)
      /\ \A k \in 2 .. Len(line) : line[k] \in Threads /\ line[k] # t
      /\ \A s \in Threads : ~Waker(s)
  BY FirstFacts
<1>2. \A s \in Threads : s # t => /\ ~Waker(s)'
                                  /\ Linked(s)' <=> Linked(s)
                                  /\ Holding(s)' <=> Holding(s)
                                  /\ Framed(s)' <=> Framed(s)
                                  /\ Blocked(s)' <=> Blocked(s)
  BY <1>1 DEF Waker, PrepareStore, Linked, Holding, Framed, Blocked
<1>3. ~Waker(t)' /\ (Framed(t)' => Framed(t)) /\ ~Linked(t)' /\ ~Linked(t)
  BY DEF Waker, Framed, Holding, Linked
<1>4. BuffersInOrder'
  <2> SUFFICES ASSUME NEW s \in Threads, s # t PROVE BufferInOrder(s)'
    BY DEF BuffersInOrder
  <2>1. pc[s] # "detach"
    BY <1>1, LineFacts
  <2> QED
    BY <2>1, ZenonT(30) DEF Consistent, BuffersInOrder, BufferInOrder, PrepareStore,
       ArmStore, LinkStore, LockNext, WakeStore
<1>5. LineInOrder'
  BY <1>1 DEF Consistent, LineInOrder
<1>6. ChainInOrder'
  BY <1>1, <1>2 DEF Consistent, ChainInOrder
<1>7. NodesLead'
  BY <1>1, <1>2, <1>3 DEF Consistent, NodesLead
<1>8. OneWakeUp'
  BY <1>1, <1>2, <1>3 DEF OneWakeUp
<1> QED
  BY <1>4, <1>5, <1>6, <1>7, <1>8 DEF Consistent

----------------------------------------------------------------------------
(* One lemma per action *)

\* me.next = NULL joins a buffer that may still hold the last wake-up.
LEMMA LockBeginKeeps ==
  ASSUME Consistent, NEW t \in Threads, LockBegin(t)
  PROVE  Consistent'
<1>1. /\ pc[t] = "out" /\ pc' = [pc EXCEPT ![t] = "xchg"]
      /\ buffer' = [buffer EXCEPT ![t] = Append(buffer[t], PrepareStore(t))]
      /\ UNCHANGED <<next, tail, waiting, pred, succ, line>>
  BY DEF LockBegin, Prepare, Write, Goto, PrepareStore, memory, locals
<1>2. /\ pc \in [Threads -> States] /\ buffer \in [Threads -> Seq(Store)]
      /\ PrepareStore(t) \in Store
  BY K42Assumption DEF Consistent, TypeOK, PrepareStore, Assign, Store, Node
<1>3. /\ pc'[t] = "xchg" /\ buffer'[t] = Append(buffer[t], PrepareStore(t))
      /\ \A s \in Threads : s # t => pc'[s] = pc[s] /\ buffer'[s] = buffer[s]
  BY <1>1, <1>2
<1>4. \/ buffer[t] = <<>> /\ buffer'[t] = <<PrepareStore(t)>>
      \/ line # <<>> /\ buffer[t] = <<WakeStore(line[1])>>
         /\ buffer'[t] = <<WakeStore(line[1]), PrepareStore(t)>>
      \/ line # <<>> /\ buffer[t] = <<LockNext(line[1]), WakeStore(line[1])>>
         /\ buffer'[t] = <<LockNext(line[1]), WakeStore(line[1]), PrepareStore(t)>>
  <2>1. \/ buffer[t] = <<>>
        \/ line # <<>> /\ buffer[t] = <<WakeStore(line[1])>>
        \/ line # <<>> /\ buffer[t] = <<LockNext(line[1]), WakeStore(line[1])>>
    BY <1>1 DEF Consistent, BuffersInOrder, BufferInOrder
  <2> QED
    BY <1>3, <2>1, ShortAppend, ZenonT(30)
<1>5. \A k \in DOMAIN line : line[k] \in Threads /\ line[k] # t
  BY <1>1, LineFacts DEF Consistent, LineInOrder
<1>6. \A s \in Threads : Waker(s)' <=> Waker(s)
  <2>1. Waker(t)' <=> Waker(t)
    BY <1>1, <1>3, <1>4, StoresDiffer DEF Waker, PrepareStore
  <2> QED
    BY <1>3, <2>1 DEF Waker, PrepareStore
<1>7. TypeOK'
  BY <1>1, <1>2, <1>3 DEF Consistent, TypeOK, Blocked, States
<1>8. BuffersInOrder'
  <2> SUFFICES ASSUME NEW s \in Threads PROVE BufferInOrder(s)'
    BY DEF BuffersInOrder
  <2>1. CASE s = t
    BY <1>1, <1>3, <1>4, <2>1 DEF BufferInOrder, PrepareStore, LockNext, WakeStore
  <2>2. CASE s # t
    BY <1>1, <1>3, <2>2, ZenonT(30) DEF Consistent, BuffersInOrder, BufferInOrder, PrepareStore,
       ArmStore, LinkStore, LockNext, WakeStore
  <2> QED
    BY <2>1, <2>2
<1>9. LineInOrder'
  BY <1>1, <1>3, <1>5, LineFacts DEF Consistent, LineInOrder, Holding
<1>10. ChainInOrder'
  BY <1>1, <1>3, <1>5, LineFacts DEF Consistent, ChainInOrder, Holding, Linked, Blocked
<1>11. NodesLead'
  BY <1>1, <1>3, <1>5, LineFacts DEF Consistent, NodesLead, Framed, Holding, Linked
<1>12. LockLeads'
  BY <1>1, <1>3, <1>5, LineFacts DEF Consistent, LockLeads, Holding, Linked, LockNext
<1>13. OneWakeUp'
  BY <1>1, <1>3, <1>5, <1>6, LineFacts DEF Consistent, OneWakeUp, Linked
<1> QED
  BY <1>7, <1>8, <1>9, <1>10, <1>11, <1>12, <1>13 DEF Consistent

\* The exchange appends to the line, whose last node becomes the predecessor.
LEMMA XchgKeeps ==
  ASSUME Consistent, NEW t \in Threads, Xchg(t)
  PROVE  Consistent'
<1>1. /\ pc[t] = "xchg" /\ pc' = [pc EXCEPT ![t] = IF tail # NULL THEN "arm" ELSE "granted"]
      /\ buffer[t] = <<>> /\ tail' = t /\ line' = Append(line, t)
      /\ pred' = [pred EXCEPT ![t] = tail]
      /\ UNCHANGED <<next, waiting, succ, buffer>>
  BY DEF Xchg, Goto, Locked, Fenced, Join
<1>2. /\ pc'[t] = IF tail # NULL THEN "arm" ELSE "granted"
      /\ pred'[t] = tail
      /\ \A s \in Threads : s # t => pc'[s] = pc[s] /\ pred'[s] = pred[s]
  BY <1>1 DEF Consistent, TypeOK
<1>3. /\ line' \in Seq(Threads) /\ Len(line') = Len(line) + 1
      /\ DOMAIN line' = 1 .. Len(line) + 1
      /\ line'[Len(line) + 1] = t /\ line' # <<>>
      /\ \A k \in DOMAIN line : line'[k] = line[k]
  BY <1>1, LineFacts
<1>4. next[t] = NULL
  <2>1. ~Waker(t)
    BY <1>1 DEF Waker
  <2>2. <<>> # <<PrepareStore(t)>>
    OBVIOUS
  <2> QED
    BY <1>1, <2>1, <2>2, NotWaker
<1>5. \A k \in DOMAIN line : line[k] \in Threads /\ line[k] # t
  BY <1>1, LineFacts DEF Consistent, LineInOrder
<1>6. /\ tail = NULL <=> line = <<>>
      /\ line # <<>> => tail = IF Len(line) = 1 /\ Holding(line[1]) THEN L ELSE line[Len(line)]
  BY K42Assumption, LineFacts DEF Consistent, LineInOrder
<1>7. \A s \in Threads : Waker(s)' <=> Waker(s)
  BY <1>1, <1>2 DEF Waker, PrepareStore
<1>8. TypeOK'
  <2>1. /\ pc' \in [Threads -> States] /\ pred' \in [Threads -> Node \cup {NULL}]
        /\ tail' \in Node
    BY <1>1 DEF Consistent, TypeOK, States, Node
  <2>2. \A s \in Threads : /\ pred'[s] # NULL <=> Blocked(s)'
                           /\ succ[s] # NULL <=> pc'[s] \in {"pass", "wake"}
    <3> SUFFICES ASSUME NEW s \in Threads
                 PROVE  /\ pred'[s] # NULL <=> Blocked(s)'
                        /\ succ[s] # NULL <=> pc'[s] \in {"pass", "wake"}
      OBVIOUS
    <3>1. /\ pred[s] # NULL <=> Blocked(s)
          /\ succ[s] # NULL <=> pc[s] \in {"pass", "wake"}
      BY DEF Consistent, TypeOK, Blocked
    <3>2. CASE s = t
      BY <1>1, <1>2, <3>1, <3>2 DEF Blocked
    <3>3. CASE s # t
      BY <1>2, <3>1, <3>3 DEF Blocked
    <3> QED
      BY <3>2, <3>3
  <2>3. /\ next' \in [Node -> Threads \cup {NULL}] /\ waiting' \in [Threads -> BOOLEAN]
        /\ buffer' \in [Threads -> Seq(Store)] /\ succ' \in [Threads -> Threads \cup {NULL}]
    BY <1>1 DEF Consistent, TypeOK
  <2> QED
    BY <1>1, <1>3, <2>1, <2>2, <2>3 DEF TypeOK
<1>9. BuffersInOrder'
  <2> SUFFICES ASSUME NEW s \in Threads PROVE BufferInOrder(s)'
    BY DEF BuffersInOrder
  <2>1. CASE s = t
    BY <1>1, <1>2, <2>1 DEF BufferInOrder
  <2>2. CASE s # t
    <3>1. line # <<>> => line'[1] = line[1] /\ line' # <<>>
      BY <1>3, LineFacts
    <3> QED
      BY <1>1, <1>2, <2>2, <3>1, ZenonT(30)
         DEF Consistent, BuffersInOrder, BufferInOrder, PrepareStore,
         ArmStore, LinkStore, LockNext, WakeStore
  <2> QED
    BY <2>1, <2>2
<1>10. LineInOrder'
  BY <1>1, <1>2, <1>3, <1>5, <1>6, LineFacts DEF Consistent, LineInOrder, Holding
<1>11. ChainInOrder'
  <2> SUFFICES ASSUME NEW k \in 2 .. Len(line')
               PROVE  /\ Blocked(line[k])'
                      /\ \/ pred'[line'[k]] = line'[k - 1]
                         \/ pred'[line'[k]] = L /\ k = 2 /\ Holding(line[1])'
                      /\ Linked(line[k])' => waiting'[line'[k]]
    BY DEF ChainInOrder
  <2>1. CASE k \in DOMAIN line
    BY <1>1, <1>2, <1>3, <1>5, <2>1, LineFacts
       DEF Consistent, ChainInOrder, Holding, Linked, Blocked
  <2>2. CASE k = Len(line) + 1
    <3>1. /\ line # <<>> /\ line'[k] = t /\ line'[k - 1] = line[k - 1] /\ k - 1 = Len(line)
          /\ line'[1] = line[1] /\ line[1] \in Threads /\ line[1] # t
      BY <1>3, <1>5, <2>2, LineFacts
    <3>2. pc'[t] = "arm" /\ (Holding(line[1])' <=> Holding(line[1]))
      BY <1>2, <1>6, <3>1 DEF Holding
    <3> QED
      BY <1>2, <1>6, <3>1, <3>2 DEF Linked, Blocked
  <2> QED
    BY <1>3, <2>1, <2>2, LineFacts
<1>12. NodesLead'
  <2> SUFFICES ASSUME NEW k \in DOMAIN line', Framed(line[k])'
               PROVE  next'[line'[k]] = IF k < Len(line') /\ Linked(line[k + 1])'
                                        THEN line'[k + 1] ELSE NULL
    BY DEF NodesLead
  <2>1. CASE k = Len(line) + 1
    BY <1>1, <1>3, <1>4, <2>1, LineFacts
  <2>2. CASE k = Len(line)
    BY <1>1, <1>2, <1>3, <1>5, <2>2, LineFacts DEF Consistent, NodesLead, Framed, Holding, Linked
  <2>3. CASE k < Len(line)
    BY <1>1, <1>2, <1>3, <1>5, <2>3, LineFacts DEF Consistent, NodesLead, Framed, Holding, Linked
  <2> QED
    BY <1>3, <2>1, <2>2, <2>3, LineFacts
<1>13. LockLeads'
  <2>1. CASE line = <<>>
    BY <1>1, <1>2, <1>3, <1>6, <2>1, LineFacts DEF LockLeads, Holding
  <2>2. CASE Len(line) = 1
    <3>1. Holding(line[1]) => Len(line') = 2 /\ pred'[t] = L /\ line'[2] = t /\ ~Linked(line[2])'
      BY <1>1, <1>2, <1>3, <1>6, <2>2, LineFacts DEF Linked
    <3>2. pc'[line'[1]] = pc[line[1]] /\ (Holding(line[1])' <=> Holding(line[1]))
      BY <1>1, <1>2, <1>3, <1>5, <2>2, LineFacts DEF Holding
    <3> QED
      BY <1>1, <1>2, <1>3, <1>5, <2>2, <3>1, <3>2, LineFacts DEF Consistent, LockLeads
  <2>3. CASE Len(line) > 1
    BY <1>1, <1>2, <1>3, <1>5, <2>3, LineFacts
       DEF Consistent, LockLeads, Holding, Linked, LockNext
  <2> QED
    BY <2>1, <2>2, <2>3, LineFacts
<1>14. OneWakeUp'
  BY <1>1, <1>2, <1>3, <1>5, <1>6, <1>7, LineFacts DEF Consistent, OneWakeUp, Linked
<1> QED
  BY <1>8, <1>9, <1>10, <1>11, <1>12, <1>13, <1>14 DEF Consistent

\* A k42_trylock finds l->next as an idle lock must have it.
LEMMA TryLockKeeps ==
  ASSUME Consistent, NEW t \in Threads, TryLock(t)
  PROVE  Consistent'
<1>1. /\ pc[t] = "out" /\ pc' = [pc EXCEPT ![t] = "cs"]
      /\ buffer[t] = <<>> /\ tail = NULL /\ tail' = L /\ line' = Append(line, t)
      /\ UNCHANGED <<next, waiting, succ, pred, buffer>>
  BY DEF TryLock, Goto, Locked, Fenced, Join, locals
<1>2. /\ pc'[t] = "cs"
      /\ \A s \in Threads : s # t => pc'[s] = pc[s]
  BY <1>1 DEF Consistent, TypeOK
<1>3. line = <<>>
  BY <1>1, K42Assumption, LineFacts DEF Consistent, LineInOrder
<1>4. /\ line' = <<t>> /\ line' # <<>> /\ Len(line') = 1 /\ line'[1] = t /\ DOMAIN line' = {1}
  BY <1>1, <1>3
<1>5. \A s \in Threads : Waker(s)' <=> Waker(s)
  BY <1>1, <1>2 DEF Waker, PrepareStore
<1>6. \A s \in Threads : ~Waker(s) /\ pc[s] \in {"out", "xchg"}
  BY <1>3 DEF Consistent, OneWakeUp, LineInOrder
<1>7. TypeOK'
  BY <1>1, <1>2, <1>4 DEF Consistent, TypeOK, Blocked, States, Node
<1>8. BuffersInOrder'
  <2> SUFFICES ASSUME NEW s \in Threads PROVE BufferInOrder(s)'
    BY DEF BuffersInOrder
  <2>1. CASE s = t
    BY <1>2, <2>1 DEF BufferInOrder
  <2>2. CASE s # t
    BY <1>1, <1>2, <1>3, <1>6, <2>2 DEF Consistent, BuffersInOrder, BufferInOrder, PrepareStore
  <2> QED
    BY <2>1, <2>2
<1>9. LineInOrder'
  BY <1>1, <1>2, <1>4, <1>6 DEF LineInOrder, Holding
<1>10. ChainInOrder' /\ NodesLead' /\ LockLeads'
  BY <1>1, <1>2, <1>3, <1>4 DEF Consistent, ChainInOrder, NodesLead, LockLeads, Holding, Framed
<1>11. OneWakeUp'
  BY <1>2, <1>4, <1>5, <1>6 DEF OneWakeUp
<1> QED
  BY <1>7, <1>8, <1>9, <1>10, <1>11 DEF Consistent

\* me.tail = 1 is buffered before anybody can clear it.
LEMMA ArmKeeps ==
  ASSUME Consistent, NEW t \in Threads, Arm(t)
  PROVE  Consistent'
<1>1. /\ pc[t] = "arm" /\ pc' = [pc EXCEPT ![t] = "link"]
      /\ buffer' = [buffer EXCEPT ![t] = Append(buffer[t], ArmStore(t))]
      /\ UNCHANGED <<next, tail, waiting, pred, succ, line>>
  BY DEF Arm, Armed, Write, Goto, ArmStore, memory, locals
<1>2. /\ pc'[t] = "link" /\ buffer'[t] = <<ArmStore(t)>> /\ ArmStore(t) \in Store
      /\ \A s \in Threads : s # t => pc'[s] = pc[s] /\ buffer'[s] = buffer[s]
  <2>1. buffer[t] = <<>>
    BY <1>1 DEF Consistent, BuffersInOrder, BufferInOrder
  <2> QED
    BY <1>1, <2>1, ShortAppend DEF Consistent, TypeOK, ArmStore, Assign, Store
<1>3. \A s \in Threads : /\ Waker(s)' <=> Waker(s)
                         /\ Linked(s)' <=> Linked(s)
                         /\ Holding(s)' <=> Holding(s)
                         /\ Framed(s)' <=> Framed(s)
                         /\ Blocked(s)' <=> Blocked(s)
  BY <1>1, <1>2 DEF Waker, PrepareStore, Linked, Holding, Framed, Blocked
<1>4. TypeOK'
  BY <1>1, <1>2, <1>3 DEF Consistent, TypeOK, States
<1>5. BuffersInOrder'
  <2> SUFFICES ASSUME NEW s \in Threads PROVE BufferInOrder(s)'
    BY DEF BuffersInOrder
  <2>1. CASE s = t
    BY <1>2, <2>1 DEF BufferInOrder, ArmStore
  <2>2. CASE s # t
    BY <1>1, <1>2, <2>2, ZenonT(30) DEF Consistent, BuffersInOrder, BufferInOrder, PrepareStore,
       ArmStore, LinkStore, LockNext, WakeStore
  <2> QED
    BY <2>1, <2>2
<1>6. LineInOrder'
  BY <1>1, <1>2, <1>3, LineFacts DEF Consistent, LineInOrder
<1>7. ChainInOrder' /\ NodesLead'
  BY <1>1, <1>2, <1>3, LineFacts DEF Consistent, ChainInOrder, NodesLead
<1>8. LockLeads'
  BY <1>1, <1>2, <1>3, LineFacts DEF Consistent, LockLeads, Holding, LockNext
<1>9. OneWakeUp'
  BY <1>1, <1>2, <1>3, LineFacts DEF Consistent, OneWakeUp
<1> QED
  BY <1>4, <1>5, <1>6, <1>7, <1>8, <1>9 DEF Consistent

\* pred->next = &me links nobody while it is in the buffer.
LEMMA LinkKeeps ==
  ASSUME Consistent, NEW t \in Threads, Link(t)
  PROVE  Consistent'
<1>1. /\ pc[t] = "link" /\ pc' = [pc EXCEPT ![t] = "spin"]
      /\ buffer' = [buffer EXCEPT ![t] = Append(buffer[t], LinkStore(t))]
      /\ UNCHANGED <<next, tail, waiting, pred, succ, line>>
  BY DEF Link, Write, Goto, LinkStore, memory, locals
<1>2. /\ pc'[t] = "spin" /\ buffer'[t] = Append(buffer[t], LinkStore(t))
      /\ \A s \in Threads : s # t => pc'[s] = pc[s] /\ buffer'[s] = buffer[s]
  BY <1>1 DEF Consistent, TypeOK
<1>3. LinkStore(t) \in Store
  <2>1. pred[t] \in Node
    BY <1>1 DEF Consistent, TypeOK, Blocked
  <2> QED
    BY <2>1 DEF LinkStore, Assign, Store
<1>4. \/ buffer'[t] = <<ArmStore(t), LinkStore(t)>>
      \/ buffer'[t] = <<LinkStore(t)>> /\ waiting[t]
  <2>1. \/ buffer[t] = <<ArmStore(t)>>
        \/ buffer[t] = <<>> /\ waiting[t]
    BY <1>1 DEF Consistent, BuffersInOrder, BufferInOrder
  <2> QED
    BY <1>2, <2>1, ShortAppend, ZenonT(30)
<1>5. buffer'[t] # <<>>
  <2>1. \A a, b : <<a>> # <<>> /\ <<a, b>> # <<>>
    OBVIOUS
  <2> QED
    BY <1>4, <2>1, Zenon
<1>6. \A s \in Threads : /\ Waker(s)' <=> Waker(s)
                         /\ Linked(s)' <=> Linked(s)
                         /\ Holding(s)' <=> Holding(s)
                         /\ Framed(s)' <=> Framed(s)
                         /\ Blocked(s)' <=> Blocked(s)
  BY <1>1, <1>2, <1>5 DEF Waker, PrepareStore, Linked, Holding, Framed, Blocked
<1>7. TypeOK'
  BY <1>1, <1>2, <1>3, <1>6 DEF Consistent, TypeOK, States
<1>8. BuffersInOrder'
  <2> SUFFICES ASSUME NEW s \in Threads PROVE BufferInOrder(s)'
    BY DEF BuffersInOrder
  <2>1. CASE s = t
    BY <1>1, <1>2, <1>4, <2>1 DEF BufferInOrder, ArmStore, LinkStore
  <2>2. CASE s # t
    BY <1>1, <1>2, <2>2, ZenonT(30) DEF Consistent, BuffersInOrder, BufferInOrder, PrepareStore,
       ArmStore, LinkStore, LockNext, WakeStore
  <2> QED
    BY <2>1, <2>2
<1>9. t # line[1] \/ line = <<>>
  BY <1>1 DEF Consistent, LineInOrder
<1>10. LineInOrder'
  BY <1>1, <1>2, <1>6, <1>9, LineFacts DEF Consistent, LineInOrder
<1>11. ChainInOrder' /\ NodesLead'
  BY <1>1, <1>2, <1>6, LineFacts DEF Consistent, ChainInOrder, NodesLead
<1>12. LockLeads'
  BY <1>1, <1>2, <1>6, <1>9, LineFacts DEF Consistent, LockLeads, Holding, LockNext
<1>13. OneWakeUp'
  BY <1>1, <1>2, <1>6, <1>9, LineFacts DEF Consistent, OneWakeUp
<1> QED
  BY <1>7, <1>8, <1>10, <1>11, <1>12, <1>13 DEF Consistent

\* Only the first in line, linked and woken by memory, ends its wait.
LEMMA SpinEnds ==
  ASSUME Consistent, NEW t \in Threads, Spin(t)
  PROVE  /\ line # <<>> /\ t = line[1] /\ Linked(t) /\ ~waiting[t]
         /\ \A s \in Threads : ~Waker(s)
<1>1. pc[t] = "spin" /\ ~Waiting(t)
  BY DEF Spin, Goto
<1>2. buffer[t] # <<ArmStore(t), LinkStore(t)>> /\ ~waiting[t]
  BY <1>1, Loads DEF Consistent, TypeOK
<1>3. buffer[t] = <<>>
  BY <1>1, <1>2 DEF Consistent, BuffersInOrder, BufferInOrder
<1>4. PICK k \in DOMAIN line : line[k] = t
  BY <1>1, LineFacts
<1>5. k \notin 2 .. Len(line)
  BY <1>1, <1>2, <1>3, <1>4 DEF Consistent, ChainInOrder, Linked
<1>6. line # <<>> /\ t = line[1]
  BY <1>4, <1>5, LineFacts
<1> QED
  BY <1>1, <1>2, <1>3, <1>6 DEF Linked, Consistent, OneWakeUp

\* The granted caller forgets its predecessor; it is the first in line.
LEMMA SpinKeeps ==
  ASSUME Consistent, NEW t \in Threads, Spin(t)
  PROVE  Consistent'
<1>1. /\ pc[t] = "spin" /\ pc' = [pc EXCEPT ![t] = "granted"]
      /\ pred' = [pred EXCEPT ![t] = NULL]
      /\ UNCHANGED <<next, tail, waiting, buffer, succ, line>>
  BY DEF Spin, Goto, memory
<1>2. /\ pc'[t] = "granted" /\ pred'[t] = NULL
      /\ \A s \in Threads : s # t => pc'[s] = pc[s] /\ pred'[s] = pred[s]
  BY <1>1 DEF Consistent, TypeOK
<1>3. /\ line # <<>> /\ t = line[1] /\ buffer[t] = <<>>
      /\ \A s \in Threads : ~Waker(s)
  BY SpinEnds DEF Linked
<1>4. \A k \in 2 .. Len(line) : line[k] # t /\ line[k] \in Threads
  BY <1>3, LineFacts DEF Consistent, LineInOrder
<1>5. \A s \in Threads : /\ ~Waker(s)'
                         /\ s # t => (Linked(s)' <=> Linked(s))
                         /\ Holding(s)' <=> Holding(s)
                         /\ Framed(s)' <=> Framed(s)
                         /\ s # t => (Blocked(s)' <=> Blocked(s))
  BY <1>1, <1>2, <1>3 DEF Waker, PrepareStore, Linked, Holding, Framed, Blocked
<1>6. TypeOK'
  <2>1. /\ pc' \in [Threads -> States] /\ pred' \in [Threads -> Node \cup {NULL}]
    BY <1>1 DEF Consistent, TypeOK, States
  <2>2. ~Blocked(t)'
    BY <1>2 DEF Blocked
  <2> QED
    BY <1>1, <1>2, <1>5, <2>1, <2>2 DEF Consistent, TypeOK
<1>7. BuffersInOrder'
  <2> SUFFICES ASSUME NEW s \in Threads PROVE BufferInOrder(s)'
    BY DEF BuffersInOrder
  <2>1. CASE s = t
    BY <1>1, <1>2, <1>3, <2>1 DEF BufferInOrder
  <2>2. CASE s # t
    BY <1>1, <1>2, <2>2, ZenonT(30) DEF Consistent, BuffersInOrder, BufferInOrder, PrepareStore,
       ArmStore, LinkStore, LockNext, WakeStore
  <2> QED
    BY <2>1, <2>2
<1>8. LineInOrder'
  BY <1>1, <1>2, <1>5, LineFacts DEF Consistent, LineInOrder
<1>9. ~Holding(t)
  BY <1>1 DEF Holding
<1>10. ChainInOrder'
  BY <1>1, <1>2, <1>3, <1>4, <1>5, <1>9, LineFacts DEF Consistent, ChainInOrder
<1>11. NodesLead'
  BY <1>1, <1>2, <1>3, <1>4, <1>5, <1>9, LineFacts DEF Consistent, NodesLead
<1>12. LockLeads'
  BY <1>1, <1>2, <1>3, <1>5, <1>9 DEF Consistent, LockLeads
<1>13. OneWakeUp'
  BY <1>1, <1>2, <1>3, <1>5 DEF OneWakeUp
<1> QED
  BY <1>6, <1>7, <1>8, <1>10, <1>11, <1>12, <1>13 DEF Consistent

\* me.next decides between handing the lock's node the successor and taking the
\* caller's node off the queue.
LEMMA GrantedKeeps ==
  ASSUME Consistent, NEW t \in Threads, Granted(t)
  PROVE  Consistent'
<1>1. /\ pc[t] = "granted"
      /\ pc' = [pc EXCEPT ![t] = IF next[t] = NULL THEN "clear" ELSE "pass"]
      /\ succ' = [succ EXCEPT ![t] = next[t]]
      /\ UNCHANGED <<next, tail, waiting, buffer, pred, line>>
  BY Loads DEF Granted, Goto, memory
<1>2. /\ pc'[t] = IF next[t] = NULL THEN "clear" ELSE "pass"
      /\ succ'[t] = next[t]
      /\ \A s \in Threads : s # t => pc'[s] = pc[s] /\ succ'[s] = succ[s]
  BY <1>1 DEF Consistent, TypeOK
<1>3. /\ line # <<>> /\ t = line[1] /\ Len(line) \in Nat /\ Len(line) > 0 /\ 1 \in DOMAIN line
      /\ Len(line) > 1 => line[2] \in Threads /\ line[2] # t
  BY <1>1, FirstFacts
<1>4. next[t] = IF 1 < Len(line) /\ Linked(line[2]) THEN line[2] ELSE NULL
  BY <1>1, <1>3 DEF Consistent, NodesLead, Framed, Holding
<1>5. TypeOK'
  BY <1>1, <1>2, <1>3, <1>4, K42Assumption DEF Consistent, TypeOK, States, Blocked
<1>6. BufferInOrder(t)'
  BY <1>1, <1>2 DEF Consistent, BuffersInOrder, BufferInOrder
<1>7. LockLeads'
  BY <1>1, <1>2, <1>3, <1>4 DEF LockLeads, Linked, Holding
<1> QED
  BY <1>1, <1>2, <1>3, <1>5, <1>6, <1>7, FirstStep, TailFact DEF Holding

\* l->next = succ: the successor, linked already, is found from the lock.
LEMMA PassKeeps ==
  ASSUME Consistent, NEW t \in Threads, Pass(t)
  PROVE  Consistent'
<1>1. /\ pc[t] = "pass" /\ pc' = [pc EXCEPT ![t] = "cs"]
      /\ buffer' = [buffer EXCEPT ![t] = Append(buffer[t], LockNext(succ[t]))]
      /\ succ' = [succ EXCEPT ![t] = NULL]
      /\ UNCHANGED <<next, tail, waiting, pred, line>>
  BY DEF Pass, Goto, Write, LockNext, memory
<1>2. /\ line # <<>> /\ t = line[1] /\ Len(line) \in Nat
      /\ Len(line) > 1 => line[2] \in Threads /\ line[2] # t
  BY <1>1, FirstFacts
<1>3. Len(line) > 1 /\ Linked(line[2]) /\ succ[t] = line[2] /\ pred[line[2]] = t
  BY <1>1, <1>2 DEF Consistent, LockLeads, ChainInOrder, Holding
<1>4. /\ pc'[t] = "cs" /\ buffer'[t] = <<LockNext(line[2])>> /\ succ'[t] = NULL
      /\ \A s \in Threads : s # t => pc'[s] = pc[s] /\ buffer'[s] = buffer[s] /\ succ'[s] = succ[s]
  <2>1. buffer[t] = <<>>
    BY <1>1 DEF Consistent, BuffersInOrder, BufferInOrder
  <2> QED
    BY <1>1, <1>3, <2>1, ShortAppend DEF Consistent, TypeOK
<1>5. TypeOK'
  <2>1. LockNext(succ[t]) \in Store
    BY <1>2, <1>3 DEF LockNext, Assign, Store, Node
  <2>2. buffer' \in [Threads -> Seq(Store)]
    BY <1>1, <2>1 DEF Consistent, TypeOK
  <2> QED
    BY <1>1, <1>4, <2>2 DEF Consistent, TypeOK, States, Blocked
<1>6. BufferInOrder(t)'
  BY <1>4 DEF BufferInOrder
<1>7. LockLeads'
  BY <1>1, <1>2, <1>3, <1>4 DEF LockLeads, Linked, Holding, LockNext
<1> QED
  BY <1>1, <1>2, <1>3, <1>4, <1>5, <1>6, <1>7, FirstStep, TailFact DEF Holding

\* l->next = NULL is buffered before the lock's node can be the tail.
LEMMA ClearKeeps ==
  ASSUME Consistent, NEW t \in Threads, Clear(t)
  PROVE  Consistent'
<1>1. /\ pc[t] = "clear" /\ pc' = [pc EXCEPT ![t] = "detach"]
      /\ buffer' = [buffer EXCEPT ![t] = Append(buffer[t], LockNext(NULL))]
      /\ UNCHANGED <<next, tail, waiting, pred, succ, line>>
  BY DEF Clear, Goto, Write, LockNext, memory, locals
<1>2. /\ line # <<>> /\ t = line[1] /\ Len(line) \in Nat
  BY <1>1, FirstFacts
<1>3. /\ pc'[t] = "detach" /\ buffer'[t] = <<LockNext(NULL)>>
      /\ \A s \in Threads : s # t => pc'[s] = pc[s] /\ buffer'[s] = buffer[s]
  <2>1. buffer[t] = <<>>
    BY <1>1 DEF Consistent, BuffersInOrder, BufferInOrder
  <2> QED
    BY <1>1, <2>1, ShortAppend DEF Consistent, TypeOK
<1>4. TypeOK'
  <2>1. LockNext(NULL) \in Store
    BY DEF LockNext, Assign, Store, Node
  <2> QED
    BY <1>1, <1>3, <2>1 DEF Consistent, TypeOK, States, Blocked
<1>5. BufferInOrder(t)'
  BY <1>3 DEF BufferInOrder, LockNext
<1>6. LockLeads'
  BY <1>1, <1>2, <1>3 DEF LockLeads, Holding
<1> QED
  BY <1>1, <1>2, <1>3, <1>4, <1>5, <1>6, FirstStep, TailFact DEF Holding

\* The cmpxchg succeeds exactly when the caller is alone in line.
LEMMA DetachKeeps ==
  ASSUME Consistent, NEW t \in Threads, Detach(t)
  PROVE  Consistent'
<1>1. /\ pc[t] = "detach" /\ pc' = [pc EXCEPT ![t] = IF tail = t THEN "cs" ELSE "await"]
      /\ buffer[t] = <<>> /\ tail' = IF tail = t THEN L ELSE tail
      /\ UNCHANGED <<next, waiting, buffer, pred, succ, line>>
  BY DEF Detach, Detached, Goto, Locked, Fenced, locals
<1>2. /\ line # <<>> /\ t = line[1] /\ Len(line) \in Nat /\ Len(line) > 0
      /\ \A k \in 2 .. Len(line) : line[k] \in Threads /\ line[k] # t
  BY <1>1, FirstFacts
<1>3. tail = t <=> Len(line) = 1
  BY <1>1, <1>2, TailFact DEF Holding
<1>4. next[L] = NULL
  BY <1>1 DEF Consistent, BuffersInOrder, BufferInOrder
<1>5. /\ pc'[t] = IF tail = t THEN "cs" ELSE "await"
      /\ \A s \in Threads : s # t => pc'[s] = pc[s]
  BY <1>1 DEF Consistent, TypeOK
<1>6. TypeOK'
  BY <1>1, <1>5 DEF Consistent, TypeOK, States, Blocked, Node
<1>7. BufferInOrder(t)'
  BY <1>1, <1>5 DEF BufferInOrder
<1>8. LockLeads'
  BY <1>1, <1>2, <1>3, <1>4, <1>5 DEF LockLeads, Holding
<1> QED
  BY <1>1, <1>2, <1>3, <1>5, <1>6, <1>7, <1>8, FirstStep, TailFact DEF Holding

\* l->next = me.next, once the successor's link has reached memory.
LEMMA AwaitNextKeeps ==
  ASSUME Consistent, NEW t \in Threads, AwaitNext(t)
  PROVE  Consistent'
<1>1. /\ pc[t] = "await" /\ pc' = [pc EXCEPT ![t] = "cs"] /\ next[t] # NULL
      /\ buffer' = [buffer EXCEPT ![t] = Append(buffer[t], LockNext(next[t]))]
      /\ UNCHANGED <<next, tail, waiting, pred, succ, line>>
  BY Loads DEF AwaitNext, Goto, Write, LockNext, memory, locals
<1>2. /\ line # <<>> /\ t = line[1] /\ Len(line) \in Nat /\ 1 \in DOMAIN line
      /\ Len(line) > 1 => line[2] \in Threads /\ line[2] # t
  BY <1>1, FirstFacts
<1>3. Len(line) > 1 /\ Linked(line[2]) /\ next[t] = line[2] /\ pred[line[2]] = t
  BY <1>1, <1>2 DEF Consistent, NodesLead, ChainInOrder, Framed, Holding
<1>4. /\ pc'[t] = "cs" /\ buffer'[t] = <<LockNext(line[2])>>
      /\ \A s \in Threads : s # t => pc'[s] = pc[s] /\ buffer'[s] = buffer[s]
  <2>1. buffer[t] = <<>>
    BY <1>1 DEF Consistent, BuffersInOrder, BufferInOrder
  <2> QED
    BY <1>1, <1>3, <2>1, ShortAppend DEF Consistent, TypeOK
<1>5. TypeOK'
  <2>1. LockNext(next[t]) \in Store
    BY <1>2, <1>3 DEF LockNext, Assign, Store, Node
  <2>2. buffer' \in [Threads -> Seq(Store)]
    BY <1>1, <2>1 DEF Consistent, TypeOK
  <2> QED
    BY <1>1, <1>4, <2>2 DEF Consistent, TypeOK, States, Blocked
<1>6. BufferInOrder(t)'
  BY <1>4 DEF BufferInOrder
<1>7. LockLeads'
  BY <1>1, <1>2, <1>3, <1>4 DEF LockLeads, Linked, Holding, LockNext
<1> QED
  BY <1>1, <1>2, <1>3, <1>4, <1>5, <1>6, <1>7, FirstStep, TailFact DEF Holding

\* l->next, loaded past the holder's own store, is the next in line if linked.
LEMMA UnlockKeeps ==
  ASSUME Consistent, NEW t \in Threads, Unlock(t)
  PROVE  Consistent'
<1>1. /\ pc[t] = "cs" /\ pc' = [pc EXCEPT ![t] = IF Succ(t, L) = NULL THEN "release" ELSE "wake"]
      /\ succ' = [succ EXCEPT ![t] = Succ(t, L)]
      /\ UNCHANGED <<next, tail, waiting, buffer, pred, line>>
  BY DEF Unlock, Goto, memory
<1>2. /\ line # <<>> /\ t = line[1] /\ Len(line) \in Nat
      /\ Len(line) > 1 => line[2] \in Threads /\ line[2] # t /\ line[2] # NULL
  BY <1>1, FirstFacts
<1>3. Succ(t, L) = IF buffer[t] = <<>> THEN next[L] ELSE line[2]
  BY <1>1, Loads
<1>4. \/ /\ Len(line) = 1 /\ buffer[t] = <<>> /\ next[L] = NULL /\ Succ(t, L) = NULL
      \/ /\ Len(line) > 1 /\ pred[line[2]] = L /\ buffer[t] = <<>>
         /\ next[L] = IF Linked(line[2]) THEN line[2] ELSE NULL
         /\ Succ(t, L) = next[L]
      \/ /\ Len(line) > 1 /\ pred[line[2]] = t /\ Linked(line[2]) /\ Succ(t, L) = line[2]
         /\ buffer[t] = <<LockNext(line[2])>> \/ (buffer[t] = <<>> /\ next[L] = line[2])
  BY <1>1, <1>2, <1>3 DEF Consistent, LockLeads, Holding
<1>5. /\ pc'[t] = IF Succ(t, L) = NULL THEN "release" ELSE "wake"
      /\ succ'[t] = Succ(t, L)
      /\ \A s \in Threads : s # t => pc'[s] = pc[s] /\ succ'[s] = succ[s]
  BY <1>1 DEF Consistent, TypeOK
<1>6. TypeOK'
  <2>1. Succ(t, L) \in Threads \cup {NULL}
    BY <1>2, <1>4
  <2> QED
    BY <1>1, <1>5, <2>1 DEF Consistent, TypeOK, States, Blocked
<1>7. BufferInOrder(t)'
  BY <1>1, <1>2, <1>4, <1>5 DEF BufferInOrder
<1>8. \A s \in Threads : s # t => (Linked(s)' <=> Linked(s))
  BY <1>1, <1>5 DEF Linked
<1>9. LockLeads'
  BY <1>1, <1>2, <1>4, <1>5, <1>8 DEF LockLeads, Holding, LockNext
<1> QED
  BY <1>1, <1>2, <1>5, <1>6, <1>7, <1>9, FirstStep, TailFact DEF Holding

\* The successor that linked behind the lock is found there.
LEMMA SeekKeeps ==
  ASSUME Consistent, NEW t \in Threads, Seek(t)
  PROVE  Consistent'
<1>1. /\ pc[t] = "seek" /\ pc' = [pc EXCEPT ![t] = "wake"] /\ next[L] # NULL
      /\ succ' = [succ EXCEPT ![t] = next[L]]
      /\ UNCHANGED <<next, tail, waiting, buffer, pred, line>>
  BY Loads DEF Seek, Goto, memory
<1>2. /\ line # <<>> /\ t = line[1] /\ Len(line) \in Nat
      /\ Len(line) > 1 => line[2] \in Threads /\ line[2] # t
  BY <1>1, FirstFacts
<1>3. /\ Len(line) > 1 /\ pred[line[2]] = L /\ buffer[t] = <<>>
      /\ Linked(line[2]) /\ next[L] = line[2]
  BY <1>1, <1>2 DEF Consistent, LockLeads, Holding
<1>4. /\ pc'[t] = "wake" /\ succ'[t] = line[2]
      /\ \A s \in Threads : s # t => pc'[s] = pc[s] /\ succ'[s] = succ[s]
  BY <1>1, <1>3 DEF Consistent, TypeOK
<1>5. TypeOK'
  BY <1>1, <1>2, <1>3, <1>4, K42Assumption DEF Consistent, TypeOK, States, Blocked
<1>6. BufferInOrder(t)'
  BY <1>1, <1>3, <1>4 DEF BufferInOrder
<1>7. LockLeads'
  BY <1>1, <1>2, <1>3, <1>4 DEF LockLeads, Linked, Holding, LockNext
<1> QED
  BY <1>1, <1>2, <1>3, <1>4, <1>5, <1>6, <1>7, FirstStep, TailFact DEF Holding

\* The cmpxchg frees the lock exactly when the holder is alone; memory is then as
\* run() found it.
LEMMA ReleaseKeeps ==
  ASSUME Consistent, NEW t \in Threads, Release(t)
  PROVE  Consistent'
<1>1. /\ pc[t] = "release" /\ pc' = [pc EXCEPT ![t] = IF tail = L THEN "out" ELSE "seek"]
      /\ tail' = IF tail = L THEN NULL ELSE tail
      /\ line' = IF tail = L THEN Tail(line) ELSE line
      /\ buffer[t] = <<>>
      /\ UNCHANGED <<next, waiting, pred, succ, buffer>>
  BY DEF Release, NoWaiter, Goto, Locked, Fenced, Leave, locals
<1>2. /\ pc'[t] = IF tail = L THEN "out" ELSE "seek"
      /\ \A s \in Threads : s # t => pc'[s] = pc[s]
      /\ pc' \in [Threads -> States]
  BY <1>1 DEF Consistent, TypeOK, States
<1>3. /\ line # <<>> /\ t = line[1] /\ Len(line) \in Nat /\ Len(line) > 0
      /\ DOMAIN line = 1 .. Len(line)
      /\ \A s \in Threads : ~Waker(s)
  BY <1>1, FirstFacts
<1>4. tail = L <=> Len(line) = 1
  BY <1>1, <1>3, TailFact, LineFacts, K42Assumption DEF Holding
<1>5. CASE tail = L
  <2>1. line' = <<>> /\ DOMAIN line' = {} /\ Len(line') = 0 /\ line' \in Seq(Threads)
    BY <1>1, <1>3, <1>4, <1>5, LineFacts, HeadTailProperties
  <2>2. ASSUME NEW s \in Threads
        PROVE  pc'[s] \in {"out", "xchg"}
    <3>1. s # t => pc[s] \in {"out", "xchg"}
      <4> SUFFICES ASSUME s # t, pc[s] \notin {"out", "xchg"} PROVE FALSE
        OBVIOUS
      <4>1. PICK k \in DOMAIN line : line[k] = s
        BY LineFacts
      <4>2. k \in 1 .. Len(line)
        BY <1>3
      <4>3. Len(line) = 1
        BY <1>4, <1>5
      <4> QED
        BY <1>3, <4>1, <4>2, <4>3
    <3> QED
      BY <1>2, <1>5, <3>1
  <2>3. next[L] = NULL
    <3>1. Holding(line[1]) /\ ~(Len(line) > 1)
      BY <1>1, <1>3, <1>4, <1>5 DEF Holding
    <3> QED
      BY <1>3, <3>1 DEF Consistent, LockLeads
  <2>4. \A s \in Threads : ~Waker(s)'
    BY <1>1, <1>2, <1>3, <1>5 DEF Waker, PrepareStore
  <2>5. TypeOK'
    <3>1. pc'[t] = "out" /\ pc[t] = "release"
      BY <1>1, <1>2, <1>5
    <3> QED
      BY <1>1, <1>2, <1>5, <2>1, <3>1 DEF Consistent, TypeOK, Blocked
  <2>6. BuffersInOrder'
    <3> SUFFICES ASSUME NEW s \in Threads PROVE BufferInOrder(s)'
      BY DEF BuffersInOrder
    <3>1. /\ pc'[s] = "out" => buffer[s] = <<>>
          /\ pc'[s] = "xchg" => \/ buffer[s] = <<>> /\ next[s] = NULL
                               \/ buffer[s] = <<PrepareStore(s)>>
      BY <1>1, <1>2, <1>3, <1>5, NotWaker
    <3> QED
      BY <1>1, <2>2, <3>1 DEF BufferInOrder, PrepareStore
  <2>7. LineInOrder'
    BY <1>1, <1>5, <2>1, <2>2 DEF LineInOrder
  <2>8. ChainInOrder' /\ NodesLead'
    BY <2>1 DEF ChainInOrder, NodesLead
  <2>9. LockLeads' /\ OneWakeUp'
    BY <1>1, <2>1, <2>3, <2>4 DEF LockLeads, OneWakeUp
  <2> QED
    BY <2>5, <2>6, <2>7, <2>8, <2>9 DEF Consistent
<1>6. CASE tail # L
  <2>1. TypeOK'
    BY <1>1, <1>2, <1>6 DEF Consistent, TypeOK, Blocked
  <2>2. BufferInOrder(t)'
    BY <1>1, <1>2, <1>6 DEF BufferInOrder
  <2>3. \A s \in Threads : s # t => (Linked(s)' <=> Linked(s))
    BY <1>1, <1>2 DEF Linked
  <2>4. LockLeads'
    <3>1. Len(line) > 1 /\ line[2] \in Threads /\ line[2] # t
      BY <1>1, <1>3, <1>4, <1>6, FirstFacts
    <3> QED
      BY <1>1, <1>2, <1>3, <1>6, <2>3, <3>1 DEF Consistent, LockLeads, Holding
  <2> QED
    BY <1>1, <1>2, <1>3, <1>6, <2>1, <2>2, <2>4, FirstStep, TailFact DEF Holding
<1> QED
  BY <1>5, <1>6

\* The line moves up by one, with a wake-up on its way to the new first.
LEMMA WakeKeeps ==
  ASSUME Consistent, NEW t \in Threads, Wake(t)
  PROVE  Consistent'
<1>1. /\ pc[t] = "wake" /\ pc' = [pc EXCEPT ![t] = "out"]
      /\ buffer' = [buffer EXCEPT ![t] = Append(buffer[t], WakeStore(succ[t]))]
      /\ succ' = [succ EXCEPT ![t] = NULL] /\ line' = Tail(line)
      /\ UNCHANGED <<next, tail, waiting, pred>>
  BY DEF Wake, Goto, Write, WakeStore, Leave, memory
<1>2. /\ line # <<>> /\ t = line[1] /\ Len(line) \in Nat
      /\ DOMAIN line = 1 .. Len(line)
      /\ \A k \in 2 .. Len(line) : line[k] \in Threads /\ line[k] # t
      /\ \A s \in Threads : ~Waker(s)
  BY <1>1, FirstFacts
<1>3. /\ Len(line) > 1 /\ Linked(line[2]) /\ succ[t] = line[2] /\ waiting[line[2]]
  BY <1>1, <1>2 DEF Consistent, LockLeads, ChainInOrder
<1>4. /\ line' \in Seq(Threads) /\ Len(line') = Len(line) - 1 /\ line' # <<>>
      /\ DOMAIN line' = 1 .. Len(line) - 1
      /\ \A k \in 1 .. Len(line) - 1 : line'[k] = line[k + 1]
      /\ line'[1] = line[2] /\ line'[Len(line')] = line[Len(line)]
  <2>1. /\ line' \in Seq(Threads) /\ Len(line') = Len(line) - 1
        /\ \A k \in 1 .. Len(line') : line'[k] = line[k + 1]
    BY <1>1, <1>2, LineFacts, HeadTailProperties
  <2> QED
    BY <1>2, <1>3, <2>1
<1>5. \/ buffer'[t] = <<WakeStore(line'[1])>>
      \/ buffer'[t] = <<LockNext(line'[1]), WakeStore(line'[1])>>
  <2>1. buffer[t] = <<>> \/ buffer[t] = <<LockNext(line[2])>>
    BY <1>1, <1>2, <1>3 DEF Consistent, LockLeads, Holding
  <2>2. buffer'[t] = Append(buffer[t], WakeStore(line[2]))
    BY <1>1, <1>3 DEF Consistent, TypeOK
  <2> QED
    BY <1>4, <2>1, <2>2, ShortAppend, ZenonT(30)
<1>6. /\ pc'[t] = "out" /\ succ'[t] = NULL
      /\ \A s \in Threads : s # t => pc'[s] = pc[s] /\ buffer'[s] = buffer[s] /\ succ'[s] = succ[s]
  BY <1>1 DEF Consistent, TypeOK
<1>7. \A s \in Threads : s # t => /\ ~Waker(s)'
                                  /\ Linked(s)' <=> Linked(s)
                                  /\ Holding(s)' <=> Holding(s)
                                  /\ Framed(s)' <=> Framed(s)
                                  /\ Blocked(s)' <=> Blocked(s)
  BY <1>2, <1>6 DEF Waker, PrepareStore, Linked, Holding, Framed, Blocked
<1>8. TypeOK'
  <2>1. buffer' \in [Threads -> Seq(Store)]
    <3>1. WakeStore(succ[t]) \in Store
      BY <1>2, <1>3 DEF WakeStore, Assign, Store
    <3> QED
      BY <1>1, <3>1 DEF Consistent, TypeOK
  <2>2. pc' \in [Threads -> States] /\ succ' \in [Threads -> Threads \cup {NULL}]
    BY <1>1 DEF Consistent, TypeOK, States
  <2> QED
    BY <1>1, <1>4, <1>6, <2>1, <2>2 DEF Consistent, TypeOK, Blocked
<1>9. BuffersInOrder'
  <2> SUFFICES ASSUME NEW s \in Threads PROVE BufferInOrder(s)'
    BY DEF BuffersInOrder
  <2>1. CASE s = t
    BY <1>4, <1>5, <1>6, <2>1 DEF BufferInOrder, LockNext, WakeStore
  <2>2. CASE s # t
    <3>1. /\ pc[s] = "out" => buffer[s] = <<>>
          /\ pc[s] = "xchg" => \/ buffer[s] = <<>> /\ next[s] = NULL
                              \/ buffer[s] = <<PrepareStore(s)>>
      BY <1>2, NotWaker
    <3> QED
      BY <1>1, <1>6, <2>2, <3>1 DEF Consistent, BuffersInOrder, BufferInOrder, PrepareStore,
         ArmStore, LinkStore
  <2> QED
    BY <2>1, <2>2
<1>10. LineInOrder'
  <2>1. \A j, k \in DOMAIN line' : line'[j] = line'[k] => j = k
    <3> SUFFICES ASSUME NEW j \in DOMAIN line', NEW k \in DOMAIN line', line'[j] = line'[k]
                 PROVE  j = k
      OBVIOUS
    <3>1. j + 1 \in DOMAIN line /\ k + 1 \in DOMAIN line /\ line[j + 1] = line[k + 1]
      BY <1>2, <1>4
    <3>2. j + 1 = k + 1
      BY <3>1 DEF Consistent, LineInOrder
    <3> QED
      BY <1>2, <1>4, <3>2
  <2>2. ASSUME NEW s \in Threads
        PROVE  (\E k \in DOMAIN line' : line'[k] = s) <=> pc'[s] \notin {"out", "xchg"}
    <3>1. CASE s = t
      BY <1>2, <1>4, <1>6, <3>1
    <3>2. CASE s # t
      <4>1. (\E k \in DOMAIN line : line[k] = s) <=> pc[s] \notin {"out", "xchg"}
        BY DEF Consistent, LineInOrder
      <4>2. ASSUME NEW k \in DOMAIN line, line[k] = s
            PROVE  k - 1 \in DOMAIN line' /\ line'[k - 1] = s
        BY <1>2, <1>4, <3>2, <4>2
      <4>3. ASSUME NEW k \in DOMAIN line', line'[k] = s
            PROVE  k + 1 \in DOMAIN line /\ line[k + 1] = s
        BY <1>2, <1>4, <4>3
      <4> QED
        BY <1>6, <3>2, <4>1, <4>2, <4>3
    <3> QED
      BY <3>1, <3>2
  <2>3. pc'[line'[1]] = "spin"
    BY <1>2, <1>3, <1>4, <1>6 DEF Linked
  <2>4. tail' = line'[Len(line')]
    BY <1>1, <1>2, <1>3, <1>4, TailFact
  <2> QED
    BY <1>4, <2>1, <2>2, <2>3, <2>4 DEF LineInOrder, Holding
<1>11. ChainInOrder'
  <2> SUFFICES ASSUME NEW k \in 2 .. Len(line')
               PROVE  /\ Blocked(line[k])' /\ pred'[line'[k]] = line'[k - 1]
                      /\ Linked(line[k])' => waiting'[line'[k]]
    BY DEF ChainInOrder
  <2>1. /\ k + 1 \in 3 .. Len(line) /\ line'[k] = line[k + 1] /\ line'[k - 1] = line[k]
        /\ line[k + 1] \in Threads /\ line[k + 1] # t
    BY <1>2, <1>3, <1>4
  <2>2. /\ Blocked(line[k + 1]) /\ pred[line[k + 1]] = line[k]
        /\ Linked(line[k + 1]) => waiting[line[k + 1]]
    BY <1>2, <2>1 DEF Consistent, ChainInOrder
  <2>3. pc'[line[k + 1]] = pc[line[k + 1]] /\ buffer'[line[k + 1]] = buffer[line[k + 1]]
    BY <1>6, <2>1
  <2> QED
    BY <1>1, <2>1, <2>2, <2>3 DEF Blocked, Linked
<1>12. NodesLead'
  <2> SUFFICES ASSUME NEW k \in DOMAIN line', Framed(line[k])'
               PROVE  next'[line'[k]] = IF k < Len(line') /\ Linked(line[k + 1])'
                                        THEN line'[k + 1] ELSE NULL
    BY DEF NodesLead
  <2>1. /\ k + 1 \in DOMAIN line /\ line'[k] = line[k + 1]
        /\ line[k + 1] \in Threads /\ line[k + 1] # t
    BY <1>2, <1>4
  <2>2. Framed(line[k + 1])
    BY <1>6, <2>1 DEF Framed, Holding
  <2>3. next[line[k + 1]] = IF k + 1 < Len(line) /\ Linked(line[k + 2]) THEN line[k + 2] ELSE NULL
    BY <1>2, <1>4, <2>1, <2>2 DEF Consistent, NodesLead
  <2>4. CASE k + 1 < Len(line)
    <3>1. /\ k < Len(line') /\ line'[k + 1] = line[k + 2]
          /\ line[k + 2] \in Threads /\ line[k + 2] # t
      BY <1>2, <1>4, <2>4
    <3>2. Linked(line[k + 1])' <=> Linked(line[k + 2])
      BY <1>6, <3>1 DEF Linked
    <3> QED
      BY <1>1, <2>1, <2>3, <2>4, <3>1, <3>2
  <2>5. CASE ~(k + 1 < Len(line))
    BY <1>1, <1>2, <1>4, <2>1, <2>3, <2>5
  <2> QED
    BY <2>4, <2>5
<1>13. LockLeads'
  BY <1>2, <1>3, <1>4, <1>6 DEF LockLeads, Holding, Linked
<1>14. OneWakeUp'
  <2>1. Linked(line[1])' /\ waiting'[line'[1]]
    BY <1>1, <1>2, <1>3, <1>4, <1>6 DEF Linked
  <2>2. Waker(t)'
    BY <1>5, <1>6, StoresDiffer DEF Waker, PrepareStore
  <2> QED
    BY <1>4, <1>7, <2>1, <2>2 DEF OneWakeUp
<1> QED
  BY <1>8, <1>9, <1>10, <1>11, <1>12, <1>13, <1>14 DEF Consistent

\* What Drain(t) does, whatever store is the oldest.
LEMMA DrainStep ==
  ASSUME Consistent, NEW t \in Threads, Drain(t)
  PROVE  /\ buffer[t] # <<>> /\ buffer' = [buffer EXCEPT ![t] = Tail(buffer[t])]
         /\ buffer'[t] = Tail(buffer[t])
         /\ \A s \in Threads : s # t => buffer'[s] = buffer[s]
         /\ UNCHANGED <<tail, pred, succ, pc, line>>
         /\ \A n, v : Head(buffer[t]) = Assign("next", n, v) =>
              next' = [next EXCEPT ![n] = v] /\ waiting' = waiting
         /\ \A n, v : Head(buffer[t]) = Assign("tail", n, v) =>
              waiting' = [waiting EXCEPT ![n] = v] /\ next' = next
         /\ TypeOK'
<1>1. /\ buffer[t] # <<>> /\ buffer' = [buffer EXCEPT ![t] = Tail(buffer[t])]
      /\ UNCHANGED <<tail, pred, succ, pc, line>>
      /\ IF Head(buffer[t]).field = "next"
         THEN /\ next' = [next EXCEPT ![Head(buffer[t]).node] = Head(buffer[t]).value]
              /\ waiting' = waiting
         ELSE /\ waiting' = [waiting EXCEPT ![Head(buffer[t]).node] = Head(buffer[t]).value]
              /\ next' = next
  BY DEF Drain, locals
<1>2. /\ buffer'[t] = Tail(buffer[t])
      /\ \A s \in Threads : s # t => buffer'[s] = buffer[s]
  BY <1>1 DEF Consistent, TypeOK
<1>3. /\ \A n, v : Head(buffer[t]) = Assign("next", n, v) =>
           next' = [next EXCEPT ![n] = v] /\ waiting' = waiting
      /\ \A n, v : Head(buffer[t]) = Assign("tail", n, v) =>
           waiting' = [waiting EXCEPT ![n] = v] /\ next' = next
  BY <1>1 DEF Assign
<1>4. Head(buffer[t]) \in Store /\ Tail(buffer[t]) \in Seq(Store)
  BY <1>1, HeadTailProperties DEF Consistent, TypeOK
<1>5. /\ next' \in [Node -> Threads \cup {NULL}] /\ waiting' \in [Threads -> BOOLEAN]
  BY <1>1, <1>4 DEF Consistent, TypeOK, Store
<1>6. buffer' \in [Threads -> Seq(Store)]
  BY <1>1, <1>4 DEF Consistent, TypeOK
<1>7. TypeOK'
  BY <1>1, <1>5, <1>6 DEF Consistent, TypeOK, Blocked
<1> QED
  BY <1>1, <1>2, <1>3, <1>7

\* The stores that can be the oldest of a buffer, and what is left behind them.
LEMMA OldestStore ==
  ASSUME Consistent, NEW t \in Threads, buffer[t] # <<>>
  PROVE  \/ /\ Waker(t) /\ Head(buffer[t]) = LockNext(line[1])
            /\ \/ pc[t] = "out" /\ Tail(buffer[t]) = <<WakeStore(line[1])>>
               \/ pc[t] = "xchg" /\ Tail(buffer[t]) = <<WakeStore(line[1]), PrepareStore(t)>>
         \/ /\ Waker(t) /\ Head(buffer[t]) = WakeStore(line[1])
            /\ \/ pc[t] = "out" /\ Tail(buffer[t]) = <<>>
               \/ pc[t] = "xchg" /\ Tail(buffer[t]) = <<PrepareStore(t)>>
         \/ /\ pc[t] = "xchg" /\ ~Waker(t)
            /\ Head(buffer[t]) = PrepareStore(t) /\ Tail(buffer[t]) = <<>>
         \/ /\ Head(buffer[t]) = ArmStore(t)
            /\ \/ pc[t] = "link" /\ Tail(buffer[t]) = <<>>
               \/ pc[t] = "spin" /\ Tail(buffer[t]) = <<LinkStore(t)>>
         \/ /\ pc[t] = "spin" /\ waiting[t]
            /\ Head(buffer[t]) = LinkStore(t) /\ Tail(buffer[t]) = <<>>
         \/ /\ pc[t] = "detach"
            /\ Head(buffer[t]) = LockNext(NULL) /\ Tail(buffer[t]) = <<>>
         \/ /\ pc[t] \in {"cs", "wake"} /\ line # <<>> /\ t = line[1]
            /\ Len(line) > 1 /\ pred[line[2]] = t /\ Linked(line[2])
            /\ Head(buffer[t]) = LockNext(line[2]) /\ Tail(buffer[t]) = <<>>
<1>1. BufferInOrder(t) /\ pc[t] \in States
  BY LineFacts DEF Consistent, BuffersInOrder
<1>2. pc[t] \in {"cs", "wake"} =>
        /\ line # <<>> /\ t = line[1] /\ Len(line) > 1 /\ pred[line[2]] = t /\ Linked(line[2])
        /\ buffer[t] = <<LockNext(line[2])>>
  BY LineFacts DEF Consistent, LockLeads, Holding
<1>3. CASE pc[t] = "out"
  <2>1. Waker(t)
    BY <1>3, NotWaker
  <2>2. buffer[t] \in {<<LockNext(line[1]), WakeStore(line[1])>>, <<WakeStore(line[1])>>}
    BY <1>1, <1>3 DEF BufferInOrder
  <2> QED
    BY <1>3, <2>1, <2>2, ShortTail, ZenonT(30)
<1>4. CASE pc[t] = "xchg"
  <2>1. buffer[t] \in {<<PrepareStore(t)>>, <<WakeStore(line[1]), PrepareStore(t)>>,
                       <<LockNext(line[1]), WakeStore(line[1]), PrepareStore(t)>>}
    BY <1>1, <1>4 DEF BufferInOrder
  <2>2. CASE buffer[t] = <<PrepareStore(t)>>
    BY <1>4, <2>2, ShortTail DEF Waker
  <2>3. CASE buffer[t] = <<WakeStore(line[1]), PrepareStore(t)>>
    <3>1. Waker(t)
      BY <1>4, <2>3 DEF Waker, WakeStore, PrepareStore, Assign
    <3> QED
      BY <1>4, <2>3, <3>1, ShortTail, ZenonT(30)
  <2>4. CASE buffer[t] = <<LockNext(line[1]), WakeStore(line[1]), PrepareStore(t)>>
    <3>1. Waker(t)
      BY <1>4, <2>4 DEF Waker, WakeStore, PrepareStore, LockNext, Assign
    <3>2. /\ Head(buffer[t]) = LockNext(line[1])
          /\ Tail(buffer[t]) = <<WakeStore(line[1]), PrepareStore(t)>>
      BY <2>4, ShortTail
    <3> QED
      BY <1>4, <3>1, <3>2
  <2> QED
    BY <2>1, <2>2, <2>3, <2>4
<1>5. CASE pc[t] = "link"
  BY <1>1, <1>5, ShortTail DEF BufferInOrder
<1>6. CASE pc[t] = "spin"
  <2>1. \/ buffer[t] = <<ArmStore(t), LinkStore(t)>>
        \/ buffer[t] = <<LinkStore(t)>> /\ waiting[t]
    BY <1>1, <1>6 DEF BufferInOrder
  <2> QED
    BY <1>6, <2>1, ShortTail, ZenonT(30)
<1>7. CASE pc[t] = "detach"
  BY <1>1, <1>7, ShortTail DEF BufferInOrder
<1>8. CASE pc[t] \in {"cs", "wake"}
  BY <1>2, <1>8, ShortTail
<1> QED
  BY <1>1, <1>3, <1>4, <1>5, <1>6, <1>7, <1>8 DEF BufferInOrder, States

\* Whichever store reaches memory, the chain stands: the heart of the proof.
LEMMA DrainKeeps ==
  ASSUME Consistent, NEW t \in Threads, Drain(t)
  PROVE  Consistent'
<1>1. /\ buffer[t] # <<>> /\ buffer'[t] = Tail(buffer[t])
      /\ \A s \in Threads : s # t => buffer'[s] = buffer[s]
      /\ UNCHANGED <<tail, pred, succ, pc, line>>
      /\ \A n, v : Head(buffer[t]) = Assign("next", n, v) =>
           next' = [next EXCEPT ![n] = v] /\ waiting' = waiting
      /\ \A n, v : Head(buffer[t]) = Assign("tail", n, v) =>
           waiting' = [waiting EXCEPT ![n] = v] /\ next' = next
      /\ TypeOK'
  BY DrainStep, Zenon
<1>2. \A s \in Threads : /\ Holding(s)' <=> Holding(s)
                         /\ Framed(s)' <=> Framed(s)
                         /\ Blocked(s)' <=> Blocked(s)
                         /\ s # t => (Linked(s)' <=> Linked(s))
                         /\ s # t => (Waker(s)' <=> Waker(s))
  BY <1>1 DEF Holding, Framed, Blocked, Linked, Waker, PrepareStore
<1>3. LineInOrder'
  BY <1>1, <1>2, LineFacts DEF Consistent, LineInOrder
<1>4. /\ next \in [Node -> Threads \cup {NULL}] /\ waiting \in [Threads -> BOOLEAN]
      /\ L \in Node /\ L \notin Threads /\ Threads \subseteq Node
  BY K42Assumption DEF Consistent, TypeOK, Node
<1>5. ASSUME Waker(t), Head(buffer[t]) = LockNext(line[1]),
             \/ pc[t] = "out" /\ Tail(buffer[t]) = <<WakeStore(line[1])>>
             \/ pc[t] = "xchg" /\ Tail(buffer[t]) = <<WakeStore(line[1]), PrepareStore(t)>>
      PROVE  Consistent'
  <2>1. /\ waiting' = waiting /\ \A s \in Threads : next'[s] = next[s]
    BY <1>1, <1>4, <1>5 DEF LockNext
  <2>2. line # <<>> /\ Linked(line[1]) /\ line[1] \in Threads /\ line[1] # t
    BY <1>5, LineFacts DEF Consistent, OneWakeUp, Linked
  <2>3. Waker(t)'
    <3>1. buffer'[t] # <<>> /\ buffer'[t] # <<PrepareStore(t)>>
      BY <1>1, <1>5, StoresDiffer
    <3> QED
      BY <1>1, <1>5, <3>1 DEF Waker, PrepareStore
  <2>4. ~Linked(t) /\ ~Linked(t)'
    BY <1>1, <1>5 DEF Linked
  <2>5. BuffersInOrder'
    <3> SUFFICES ASSUME NEW s \in Threads PROVE BufferInOrder(s)'
      BY DEF BuffersInOrder
    <3>1. CASE s = t
      BY <1>1, <1>5, <2>2, <3>1 DEF BufferInOrder, WakeStore, PrepareStore, LockNext
    <3>2. CASE s # t
      <4>1. pc[s] # "detach"
        BY <2>2, LineFacts DEF Linked
      <4> QED
        BY <1>1, <2>1, <3>2, <4>1, ZenonT(30)
           DEF Consistent, BuffersInOrder, BufferInOrder, PrepareStore,
           ArmStore, LinkStore, LockNext, WakeStore
    <3> QED
      BY <3>1, <3>2
  <2>6. ChainInOrder' /\ NodesLead'
    BY <1>1, <1>2, <2>1, <2>4, LineFacts DEF Consistent, ChainInOrder, NodesLead
  <2>7. LockLeads'
    BY <1>1, <1>2, <2>2 DEF LockLeads, Holding, Linked
  <2>8. OneWakeUp'
    BY <1>1, <1>2, <1>5, <2>1, <2>2, <2>3 DEF Consistent, OneWakeUp
  <2> QED
    BY <1>1, <1>3, <2>5, <2>6, <2>7, <2>8 DEF Consistent
<1>6. ASSUME Waker(t), Head(buffer[t]) = WakeStore(line[1]),
             \/ pc[t] = "out" /\ Tail(buffer[t]) = <<>>
             \/ pc[t] = "xchg" /\ Tail(buffer[t]) = <<PrepareStore(t)>>
      PROVE  Consistent'
  <2>1. line # <<>> /\ Linked(line[1]) /\ line[1] \in Threads /\ line[1] # t
    BY <1>6, LineFacts DEF Consistent, OneWakeUp, Linked
  <2>2. /\ next' = next /\ ~waiting'[line[1]]
        /\ \A s \in Threads : s # line[1] => waiting'[s] = waiting[s]
    <3>1. next' = next /\ waiting' = [waiting EXCEPT ![line[1]] = FALSE]
      BY <1>1, <1>6 DEF WakeStore
    <3> QED
      BY <1>4, <2>1, <3>1
  <2>3. \A s \in Threads : ~Waker(s)'
    BY <1>1, <1>2, <1>6 DEF Waker, PrepareStore, Consistent, OneWakeUp
  <2>4. ~Linked(t) /\ ~Linked(t)'
    BY <1>1, <1>6 DEF Linked
  <2>5. BuffersInOrder'
    <3> SUFFICES ASSUME NEW s \in Threads PROVE BufferInOrder(s)'
      BY DEF BuffersInOrder
    <3>1. CASE s = t
      BY <1>1, <1>6, <3>1 DEF BufferInOrder, PrepareStore
    <3>2. CASE s = line[1]
      BY <1>1, <2>1, <3>2 DEF BufferInOrder, Linked
    <3>3. CASE s # t /\ s # line[1]
      BY <1>1, <2>2, <3>3, ZenonT(30) DEF Consistent, BuffersInOrder, BufferInOrder, PrepareStore,
         ArmStore, LinkStore, LockNext, WakeStore
    <3> QED
      BY <3>1, <3>2, <3>3
  <2>6. \A k \in 2 .. Len(line) : line[k] \in Threads /\ line[k] # line[1]
    BY <2>1, LineFacts DEF Consistent, LineInOrder
  <2>7. ChainInOrder'
    BY <1>1, <1>2, <2>2, <2>4, <2>6, LineFacts DEF Consistent, ChainInOrder
  <2>8. NodesLead'
    BY <1>1, <1>2, <2>2, <2>4, LineFacts DEF Consistent, NodesLead
  <2>9. LockLeads'
    BY <1>1, <1>2, <2>1 DEF LockLeads, Holding, Linked
  <2>10. OneWakeUp'
    BY <1>1, <1>2, <2>1, <2>2, <2>3 DEF OneWakeUp
  <2> QED
    BY <1>1, <1>3, <2>5, <2>7, <2>8, <2>9, <2>10 DEF Consistent
<1>7. ASSUME pc[t] = "xchg", ~Waker(t),
             Head(buffer[t]) = PrepareStore(t), Tail(buffer[t]) = <<>>
      PROVE  Consistent'
  <2>1. /\ waiting' = waiting /\ next'[t] = NULL
        /\ \A n \in Node : n # t => next'[n] = next[n]
    BY <1>1, <1>4, <1>7 DEF PrepareStore
  <2>2. ~Waker(t)' /\ ~Linked(t) /\ ~Linked(t)'
    BY <1>1, <1>7 DEF Waker, Linked
  <2>3. \A k \in DOMAIN line : line[k] \in Threads /\ line[k] # t
    BY <1>7, LineFacts DEF Consistent, LineInOrder
  <2>4. BuffersInOrder'
    <3> SUFFICES ASSUME NEW s \in Threads PROVE BufferInOrder(s)'
      BY DEF BuffersInOrder
    <3>1. CASE s = t
      BY <1>1, <1>7, <2>1, <3>1 DEF BufferInOrder
    <3>2. CASE s # t
      BY <1>1, <1>4, <2>1, <3>2, ZenonT(30)
         DEF Consistent, BuffersInOrder, BufferInOrder, PrepareStore,
         ArmStore, LinkStore, LockNext, WakeStore
    <3> QED
      BY <3>1, <3>2
  <2>5. ChainInOrder'
    BY <1>1, <1>2, <2>1, <2>2, <2>3, LineFacts DEF Consistent, ChainInOrder
  <2>6. NodesLead'
    BY <1>1, <1>2, <1>4, <2>1, <2>3, LineFacts DEF Consistent, NodesLead
  <2>7. LockLeads'
    BY <1>1, <1>2, <1>4, <2>1, <2>2, <2>3, LineFacts DEF Consistent, LockLeads, LockNext
  <2>8. OneWakeUp'
    BY <1>1, <1>2, <1>7, <2>1, <2>2, <2>3, LineFacts DEF Consistent, OneWakeUp
  <2> QED
    BY <1>1, <1>3, <2>4, <2>5, <2>6, <2>7, <2>8 DEF Consistent
<1>8. ASSUME Head(buffer[t]) = ArmStore(t),
             \/ pc[t] = "link" /\ Tail(buffer[t]) = <<>>
             \/ pc[t] = "spin" /\ Tail(buffer[t]) = <<LinkStore(t)>>
      PROVE  Consistent'
  <2>1. /\ next' = next /\ waiting'[t] = TRUE
        /\ \A s \in Threads : s # t => waiting'[s] = waiting[s]
    <3>1. next' = next /\ waiting' = [waiting EXCEPT ![t] = TRUE]
      BY <1>1, <1>8 DEF ArmStore
    <3> QED
      BY <1>4, <3>1
  <2>2. ~Linked(t) /\ ~Linked(t)' /\ ~Waker(t) /\ ~Waker(t)'
    <3>1. <<LinkStore(t)>> # <<>>
      OBVIOUS
    <3> QED
      BY <1>1, <1>8, <3>1 DEF Linked, Waker
  <2>3. line = <<>> \/ line[1] # t
    BY <1>1, <1>8 DEF Consistent, LineInOrder, OneWakeUp, Linked
  <2>4. BuffersInOrder'
    <3> SUFFICES ASSUME NEW s \in Threads PROVE BufferInOrder(s)'
      BY DEF BuffersInOrder
    <3>1. CASE s = t
      BY <1>1, <1>8, <2>1, <3>1 DEF BufferInOrder, LinkStore
    <3>2. CASE s # t
      BY <1>1, <2>1, <3>2, ZenonT(30) DEF Consistent, BuffersInOrder, BufferInOrder, PrepareStore,
         ArmStore, LinkStore, LockNext, WakeStore
    <3> QED
      BY <3>1, <3>2
  <2>5. ChainInOrder' /\ NodesLead'
    BY <1>1, <1>2, <2>1, <2>2, LineFacts DEF Consistent, ChainInOrder, NodesLead
  <2>6. LockLeads'
    BY <1>1, <1>2, <2>1, <2>2, <2>3, LineFacts DEF Consistent, LockLeads, LockNext
  <2>7. OneWakeUp'
    BY <1>1, <1>2, <2>1, <2>2, <2>3, LineFacts DEF Consistent, OneWakeUp
  <2> QED
    BY <1>1, <1>3, <2>4, <2>5, <2>6, <2>7 DEF Consistent
<1>9. ASSUME pc[t] = "spin", waiting[t],
             Head(buffer[t]) = LinkStore(t), Tail(buffer[t]) = <<>>
      PROVE  Consistent'
  <2>1. PICK k \in DOMAIN line : line[k] = t
    BY <1>9, LineFacts
  <2>2. line # <<>> /\ line[1] # t /\ line[1] \in Threads /\ k \in 2 .. Len(line)
    BY <1>1, <1>9, <2>1, LineFacts DEF Consistent, OneWakeUp, Linked
  <2>3. \/ pred[t] = line[k - 1] /\ line[k - 1] \in Threads /\ pred[t] # L
        \/ pred[t] = L /\ k = 2 /\ Holding(line[1])
    BY <1>4, <2>1, <2>2, LineFacts DEF Consistent, ChainInOrder
  <2>4. /\ waiting' = waiting /\ next'[pred[t]] = t
        /\ \A n \in Node : n # pred[t] => next'[n] = next[n]
    BY <1>1, <1>4, <1>9, <2>3 DEF LinkStore
  <2>5. Linked(t)' /\ ~Linked(t) /\ ~Waker(t) /\ ~Waker(t)'
    BY <1>1, <1>9 DEF Linked, Waker
  <2>6. \A j \in DOMAIN line : line[j] \in Threads /\ (line[j] = t => j = k)
                               /\ (k - 1 \in DOMAIN line /\ line[j] = line[k - 1] => j = k - 1)
    BY <2>1, LineFacts DEF Consistent, LineInOrder
  <2>7. pred[t] # L => k - 1 \in DOMAIN line /\ pc[line[k - 1]] \notin {"out", "xchg"}
    BY <2>2, <2>3, <2>6, LineFacts DEF Consistent, LineInOrder
  <2>8. BuffersInOrder'
    <3> SUFFICES ASSUME NEW s \in Threads PROVE BufferInOrder(s)'
      BY DEF BuffersInOrder
    <3>1. CASE s = t
      BY <1>1, <1>9, <3>1 DEF BufferInOrder
    <3>2. CASE s # t
      <4>1. pc[s] = "xchg" => next'[s] = next[s]
        BY <1>4, <2>3, <2>4, <2>7
      <4>2. pc[s] = "detach" => next'[L] = next[L]
        BY <1>4, <2>3, <2>4, LineFacts DEF Holding
      <4> QED
        BY <1>1, <2>4, <3>2, <4>1, <4>2 DEF Consistent, BuffersInOrder, BufferInOrder,
           PrepareStore, ArmStore, LinkStore, LockNext, WakeStore
    <3> QED
      BY <3>1, <3>2
  <2>9. ChainInOrder'
    BY <1>1, <1>2, <1>9, <2>4, <2>5, LineFacts DEF Consistent, ChainInOrder
  <2>10. NodesLead'
    <3> SUFFICES ASSUME NEW j \in DOMAIN line, Framed(line[j])
                 PROVE  next'[line[j]] = IF j < Len(line) /\ Linked(line[j + 1])'
                                         THEN line[j + 1] ELSE NULL
      BY <1>1, <1>2, LineFacts DEF NodesLead
    <3>1. next[line[j]] = IF j < Len(line) /\ Linked(line[j + 1]) THEN line[j + 1] ELSE NULL
      BY DEF Consistent, NodesLead
    <3>2. CASE j = k - 1
      <4>1. pred[t] = line[j]
        BY <2>2, <2>3, <3>2 DEF Framed
      <4> QED
        BY <1>1, <2>1, <2>2, <2>4, <2>5, <3>2, <4>1, LineFacts
    <3>3. CASE j # k - 1
      <4>1. next'[line[j]] = next[line[j]]
        BY <1>4, <2>3, <2>4, <2>6, <2>7, <3>3
      <4>2. j < Len(line) => line[j + 1] \in Threads /\ line[j + 1] # t
        BY <2>1, <2>6, <3>3, LineFacts
      <4>3. j < Len(line) => (Linked(line[j + 1])' <=> Linked(line[j + 1]))
        BY <1>1, <4>2 DEF Linked
      <4> QED
        BY <3>1, <4>1, <4>2, <4>3
    <3> QED
      BY <3>2, <3>3
  <2>11. LockLeads'
    <3>1. CASE Holding(line[1]) /\ k = 2
      <4>1. pred[t] = L
        BY <1>4, <2>1, <2>2, <2>5, <3>1, LineFacts DEF Consistent, LockLeads
      <4> QED
        BY <1>1, <1>2, <1>4, <2>1, <2>2, <2>4, <2>5, <3>1, <4>1, LineFacts
           DEF Consistent, LockLeads, Holding
    <3>2. CASE ~Holding(line[1]) \/ k # 2
      <4>1. Holding(line[1]) => next'[L] = next[L]
        BY <1>4, <2>3, <2>4, <3>2
      <4>2. k # 2 => line[2] # t
        BY <2>1, <2>2, <2>6, LineFacts
      <4> QED
        BY <1>1, <1>2, <2>1, <2>2, <2>5, <3>2, <4>1, <4>2, LineFacts
           DEF Consistent, LockLeads, Holding, LockNext
    <3> QED
      BY <3>1, <3>2
  <2>12. OneWakeUp'
    BY <1>1, <1>2, <2>2, <2>4, <2>5 DEF Consistent, OneWakeUp
  <2> QED
    BY <1>1, <1>3, <2>8, <2>9, <2>10, <2>11, <2>12 DEF Consistent
<1>10. ASSUME pc[t] = "detach",
              Head(buffer[t]) = LockNext(NULL), Tail(buffer[t]) = <<>>
       PROVE  Consistent'
  <2>1. /\ waiting' = waiting /\ next'[L] = NULL
        /\ \A s \in Threads : next'[s] = next[s]
    BY <1>1, <1>4, <1>10 DEF LockNext
  <2>2. line # <<>> /\ t = line[1]
    BY <1>10, LineFacts
  <2>3. BufferInOrder(t)'
    BY <1>1, <1>10, <2>1 DEF BufferInOrder
  <2>4. LockLeads'
    BY <1>1, <1>10, <2>2 DEF LockLeads, Holding
  <2> QED
    BY <1>1, <1>2, <1>10, <2>1, <2>2, <2>3, <2>4, FirstStep, TailFact
<1>11. ASSUME pc[t] \in {"cs", "wake"}, line # <<>>, t = line[1],
              Len(line) > 1, pred[line[2]] = t, Linked(line[2]),
              Head(buffer[t]) = LockNext(line[2]), Tail(buffer[t]) = <<>>
       PROVE  Consistent'
  <2>1. /\ waiting' = waiting /\ next'[L] = line[2]
        /\ \A s \in Threads : next'[s] = next[s]
    BY <1>1, <1>4, <1>11 DEF LockNext
  <2>2. BufferInOrder(t)'
    BY <1>1, <1>11 DEF BufferInOrder
  <2>3. Linked(line[2])' /\ pc'[t] = pc[t] /\ buffer'[t] = <<>>
    BY <1>1, <1>2, <1>11, LineFacts DEF Linked
  <2>4. LockLeads'
    BY <1>1, <1>11, <2>1, <2>3, LineFacts DEF Consistent, LockLeads, Holding
  <2> QED
    BY <1>1, <1>2, <1>11, <2>1, <2>2, <2>4, FirstStep, TailFact
<1> QED
  BY <1>1, <1>5, <1>6, <1>7, <1>8, <1>9, <1>10, <1>11, OldestStore, SMTT(30)

----------------------------------------------------------------------------
(* The theorems *)

\* The lock as run() finds it.
LEMMA InitConsistent == Init => Consistent
<1> SUFFICES ASSUME Init PROVE Consistent
  OBVIOUS
<1>1. /\ line = <<>> /\ DOMAIN line = {} /\ Len(line) = 0 /\ line \in Seq(Threads)
  BY DEF Init
<1>2. \A t \in Threads : /\ pc[t] = "out" /\ buffer[t] = <<>> /\ pred[t] = NULL /\ succ[t] = NULL
                         /\ ~Waker(t)
  BY DEF Init, Waker
<1>3. TypeOK
  <2>1. \A t \in Threads : <<>> \in Seq(Store)
    OBVIOUS
  <2> QED
    BY <1>1, <1>2, <2>1 DEF Init, TypeOK, States, Node, Blocked
<1>4. BuffersInOrder
  BY <1>2 DEF BuffersInOrder, BufferInOrder
<1>5. LineInOrder /\ ChainInOrder /\ NodesLead /\ LockLeads /\ OneWakeUp
  BY <1>1, <1>2 DEF Init, Node, LineInOrder, ChainInOrder, NodesLead, LockLeads, OneWakeUp
<1> QED
  BY <1>3, <1>4, <1>5 DEF Consistent

\* Every step keeps the chain.
LEMMA NextConsistent == Consistent /\ [Next]_vars => Consistent'
<1> SUFFICES ASSUME Consistent, [Next]_vars PROVE Consistent'
  OBVIOUS
<1>1. ASSUME UNCHANGED vars PROVE Consistent'
  <2>1. UNCHANGED <<next, tail, waiting, buffer, pred, succ, pc, line>>
    BY <1>1 DEF vars
  <2>2. TypeOK' /\ BuffersInOrder'
    BY <2>1, ZenonT(30)
       DEF Consistent, TypeOK, Blocked, BuffersInOrder, BufferInOrder, PrepareStore,
       ArmStore, LinkStore, LockNext, WakeStore
  <2>3. LineInOrder' /\ ChainInOrder' /\ NodesLead' /\ LockLeads' /\ OneWakeUp'
    BY <2>1 DEF Consistent, LineInOrder, ChainInOrder, NodesLead, LockLeads, OneWakeUp,
       Holding, Framed, Blocked, Linked, Waker, PrepareStore, LockNext
  <2> QED
    BY <2>2, <2>3 DEF Consistent
<1>2. ASSUME NEW t \in Threads, LockBegin(t) \/ TryLock(t) PROVE Consistent'
  BY <1>2, LockBeginKeeps, TryLockKeeps
<1>3. ASSUME NEW t \in Threads, Acquire(t) PROVE Consistent'
  BY <1>3, XchgKeeps, ArmKeeps, LinkKeeps, SpinKeeps, GrantedKeeps, PassKeeps, ClearKeeps,
     DetachKeeps, AwaitNextKeeps DEF Acquire
<1>4. ASSUME NEW t \in Threads, Unlocking(t) PROVE Consistent'
  BY <1>4, UnlockKeeps, ReleaseKeeps, SeekKeeps, WakeKeeps DEF Unlocking
<1>5. ASSUME NEW t \in Threads, Drain(t) PROVE Consistent'
  BY <1>5, DrainKeeps
<1> QED
  BY <1>1, <1>2, <1>3, <1>4, <1>5 DEF Next

\* At any time the nodes, the tail, the flags, the callers' pointers and the stores
\* still in flight describe one chain of callers.
THEOREM ConsistentAlways == Spec => []Consistent
<1> QED
  BY InitConsistent, NextConsistent, PTL DEF Spec

\* A holder is the first in line, and there is one first.
LEMMA ConsistentExcludes == Consistent => MutualExclusion
  BY LineFacts DEF MutualExclusion, Holding

\* Two threads are never between the return of k42_lock, or of a k42_trylock that
\* succeeded, and the end of their k42_unlock.
THEOREM K42MutualExclusion == Spec => []MutualExclusion
<1> QED
  BY ConsistentAlways, ConsistentExcludes, PTL

\* Store by store, from the shapes of the buffers.
LEMMA ConsistentNoLateWrite == Consistent => NoLateWrite
<1> SUFFICES ASSUME Consistent, NEW t \in Threads, NEW i \in DOMAIN buffer[t]
             PROVE  LET w == buffer[t][i]  n == w.node
                    IN CASE w.field = "next" /\ n = L ->
                              \/ Holding(t) \/ pc[t] \in {"detach", "spin"}
                              \/ \E k \in DOMAIN buffer[t] : k > i /\ buffer[t][k].field = "tail"
                         [] w.field = "next" /\ n # L -> Framed(n)
                         [] w.field = "tail" /\ n = t -> Blocked(t)
                         [] w.field = "tail" /\ n # t -> pc[n] = "spin" /\ waiting[n]
  BY DEF NoLateWrite
<1> DEFINE w == buffer[t][i]
           LockFree == Holding(t) \/ pc[t] \in {"detach", "spin"}
                       \/ \E k \in DOMAIN buffer[t] : k > i /\ buffer[t][k].field = "tail"
<1>0. SUFFICES \/ w.field = "next" /\ w.node = L /\ LockFree
               \/ w.field = "next" /\ w.node # L /\ Framed(w.node)
               \/ w.field = "tail" /\ w.node = t /\ Blocked(t)
               \/ w.field = "tail" /\ w.node # t /\ pc[w.node] = "spin" /\ waiting[w.node]
  OBVIOUS
<1>1. BufferInOrder(t) /\ pc[t] \in States /\ buffer[t] # <<>>
  BY LineFacts DEF Consistent, BuffersInOrder
\* The stores, by what they may still find.
<1>2. \A n : w = LockNext(n) => w.field = "next" /\ w.node = L
  BY DEF LockNext, Assign
<1>3. ASSUME Waker(t), w = WakeStore(line[1])
      PROVE  w.field = "tail" /\ w.node # t /\ pc[w.node] = "spin" /\ waiting[w.node]
  <2>1. line[1] # t /\ pc[line[1]] = "spin" /\ waiting[line[1]]
    BY <1>3 DEF Consistent, OneWakeUp, Linked, Waker
  <2> QED
    BY <1>3, <2>1 DEF WakeStore, Assign
<1>4. ASSUME w = PrepareStore(t), pc[t] = "xchg"
      PROVE  w.field = "next" /\ w.node # L /\ Framed(w.node)
  BY <1>4, K42Assumption DEF PrepareStore, Assign, Framed, Holding
<1>5. CASE pc[t] = "out"
  <2>1. Waker(t)
    BY <1>1, <1>5, NotWaker
  <2>2. \/ buffer[t] = <<LockNext(line[1]), WakeStore(line[1])>>
        \/ buffer[t] = <<WakeStore(line[1])>>
    BY <1>1, <1>5 DEF BufferInOrder
  <2>3. CASE buffer[t] = <<WakeStore(line[1])>>
    BY <1>3, <2>1, <2>3
  <2>4. CASE buffer[t] = <<LockNext(line[1]), WakeStore(line[1])>>
    <3>1. (i = 1 /\ w = LockNext(line[1])) \/ w = WakeStore(line[1])
      BY <2>4
    <3>2. 2 \in DOMAIN buffer[t] /\ buffer[t][2].field = "tail"
      BY <2>4 DEF WakeStore, Assign
    <3> QED
      BY <1>2, <1>3, <2>1, <3>1, <3>2
  <2> QED
    BY <2>2, <2>3, <2>4
<1>6. CASE pc[t] = "xchg"
  <2>1. CASE buffer[t] = <<PrepareStore(t)>>
    BY <1>4, <1>6, <2>1
  <2>2. CASE buffer[t] # <<PrepareStore(t)>>
    <3>1. Waker(t)
      BY <1>1, <1>6, <2>2 DEF Waker
    <3>2. \/ buffer[t] = <<LockNext(line[1]), WakeStore(line[1]), PrepareStore(t)>>
          \/ buffer[t] = <<WakeStore(line[1]), PrepareStore(t)>>
      BY <1>1, <1>6, <2>2 DEF BufferInOrder
    <3>3. CASE buffer[t] = <<WakeStore(line[1]), PrepareStore(t)>>
      <4>1. w = WakeStore(line[1]) \/ w = PrepareStore(t)
        BY <3>3
      <4> QED
        BY <1>3, <1>4, <1>6, <3>1, <4>1
    <3>4. CASE buffer[t] = <<LockNext(line[1]), WakeStore(line[1]), PrepareStore(t)>>
      <4>1. \/ i = 1 /\ w = LockNext(line[1])
            \/ w = WakeStore(line[1])
            \/ w = PrepareStore(t)
        BY <3>4
      <4>2. 2 \in DOMAIN buffer[t] /\ buffer[t][2].field = "tail"
        BY <3>4 DEF WakeStore, Assign
      <4> QED
        BY <1>2, <1>3, <1>4, <1>6, <3>1, <4>1, <4>2
    <3> QED
      BY <3>2, <3>3, <3>4
  <2> QED
    BY <2>1, <2>2
<1>7. CASE pc[t] \in {"link", "spin"}
  <2>1. w = ArmStore(t) \/ (w = LinkStore(t) /\ pc[t] = "spin")
    BY <1>1, <1>7 DEF BufferInOrder
  <2>2. Blocked(t)
    BY <1>7 DEF Blocked
  <2>3. ASSUME w = LinkStore(t), pc[t] = "spin", pred[t] # L
        PROVE  Framed(pred[t])
    <3>1. PICK k \in DOMAIN line : line[k] = t
      BY <1>7, LineFacts
    <3>2. k \in 2 .. Len(line)
      BY <1>1, <2>3, <3>1, LineFacts DEF Consistent, OneWakeUp, Linked
    <3>3. pred[t] = line[k - 1] /\ line[k - 1] \in Threads /\ k - 1 \in DOMAIN line
      BY <2>3, <3>1, <3>2, LineFacts DEF Consistent, ChainInOrder
    <3>4. pc[line[k - 1]] \notin {"out", "xchg"}
      BY <3>3 DEF Consistent, LineInOrder
    <3>5. ~Holding(line[k - 1])
      <4> SUFFICES ASSUME Holding(line[k - 1]) PROVE FALSE
        OBVIOUS
      <4>1. line[k - 1] = line[1] /\ line # <<>>
        BY <3>3, LineFacts DEF Holding
      <4>2. k = 2
        BY <3>2, <3>3, <4>1, LineFacts DEF Consistent, LineInOrder
      <4> QED
        BY <1>1, <2>3, <3>1, <3>2, <3>3, <4>1, <4>2, LineFacts DEF Consistent, LockLeads, Linked
    <3> QED
      BY <3>3, <3>4, <3>5 DEF Framed
  <2>4. CASE w = ArmStore(t)
    BY <2>2, <2>4 DEF ArmStore, Assign
  <2>5. CASE w = LinkStore(t) /\ pc[t] = "spin"
    <3>1. w.field = "next" /\ w.node = pred[t]
      BY <2>5 DEF LinkStore, Assign
    <3> QED
      BY <2>3, <2>5, <3>1
  <2> QED
    BY <2>1, <2>4, <2>5
<1>8. CASE pc[t] = "detach"
  <2>1. w = LockNext(NULL)
    BY <1>1, <1>8 DEF BufferInOrder
  <2> QED
    BY <1>2, <1>8, <2>1
<1>9. CASE Holding(t)
  <2>1. line # <<>> /\ t = line[1]
    BY <1>9, LineFacts DEF Holding
  <2>2. buffer[t] = <<LockNext(line[2])>>
    BY <1>1, <1>9, <2>1 DEF Consistent, LockLeads
  <2>3. w = LockNext(line[2])
    BY <2>2
  <2> QED
    BY <1>2, <1>9, <2>3
<1> QED
  BY <1>1, <1>5, <1>6, <1>7, <1>8, <1>9 DEF BufferInOrder, States, Holding

\* A store finds what it was meant for, however late it reaches memory.
THEOREM K42NoLateWrite == Spec => []NoLateWrite
<1> QED
  BY ConsistentAlways, ConsistentNoLateWrite, PTL

\* Somebody is inside exactly when the first in line is.
LEMMA SomebodyHolds ==
  Consistent => ((\E t \in Threads : Holding(t)) <=> (line # <<>> /\ Holding(line[1])))
<1> SUFFICES ASSUME Consistent
             PROVE  (\E t \in Threads : Holding(t)) <=> (line # <<>> /\ Holding(line[1]))
  OBVIOUS
<1>1. ASSUME NEW t \in Threads, Holding(t) PROVE line # <<>> /\ Holding(line[1])
  BY <1>1, LineFacts DEF Holding
<1>2. line # <<>> => line[1] \in Threads
  BY LineFacts
<1> QED
  BY <1>1, <1>2

\* The same in the next state.
LEMMA SomebodyHoldsNext ==
  Consistent' => ((\E t \in Threads : Holding(t)')
                  <=> (line' # <<>> /\ pc'[line'[1]] \in {"cs", "release", "seek", "wake"}))
<1>1. (Consistent => ((\E t \in Threads : Holding(t)) <=> (line # <<>> /\ Holding(line[1]))))'
  BY SomebodyHolds, PTL
<1> QED
  BY <1>1 DEF Holding

\* The free lock maps to the empty line.
LEMMA InitRefines == Init => Abstract!Init
  BY DEF Init, Abstract!Init, Holding

\* The exchange joins; the last store, or the cmpxchg, of k42_lock enters;
\* k42_trylock enters at once; the free or the wake-up leaves; all else stutters.
LEMMA NextRefines ==
  Consistent /\ Consistent' /\ [Next]_vars => [Abstract!Next]_(Abstract!vars)
<1> SUFFICES ASSUME Consistent, Consistent', [Next]_vars
             PROVE  Abstract!Next \/ UNCHANGED Abstract!vars
  OBVIOUS
<1> DEFINE inside == \E t \in Threads : Holding(t)
           insideNext == \E t \in Threads : Holding(t)'
<1>1. inside <=> (line # <<>> /\ Holding(line[1]))
  BY SomebodyHolds
<1>2. insideNext <=> (line' # <<>> /\ pc'[line'[1]] \in {"cs", "release", "seek", "wake"})
  BY SomebodyHoldsNext
<1>3. pc \in [Threads -> States] /\ line \in Seq(Threads)
  BY DEF Consistent, TypeOK
\* A step that neither grants nor joins nor leaves is a stutter.
<1>4. ASSUME NEW t \in Threads, line' = line,
             \A s \in Threads : s # t => pc'[s] = pc[s],
             Holding(t)' <=> Holding(t)
      PROVE  UNCHANGED Abstract!vars
  <2>1. insideNext <=> inside
    BY <1>4 DEF Holding
  <2> QED
    BY <1>4, <2>1 DEF Abstract!vars
\* A step that grants the lock to the first in line is its entry.
<1>5. ASSUME NEW t \in Threads, line' = line, pc[t] \notin {"out", "xchg", "arm", "link", "spin"},
             ~Holding(t), Holding(t)'
      PROVE  Abstract!Enter(t)
  <2>1. line # <<>> /\ t = line[1]
    BY <1>5, LineFacts
  <2>2. ~inside /\ insideNext
    BY <1>1, <1>5, <2>1
  <2> QED
    BY <1>3, <1>5, <2>1, <2>2 DEF Abstract!Enter
<1>6. ASSUME NEW t \in Threads, Xchg(t) PROVE Abstract!Join(t)
  <2>1. /\ pc[t] = "xchg" /\ line' = Append(line, t)
        /\ \A s \in Threads : s # t => pc'[s] = pc[s]
        /\ ~Holding(t) /\ ~Holding(t)'
    BY <1>3, <1>6 DEF Xchg, Goto, Join, Holding
  <2>2. insideNext <=> inside
    BY <2>1 DEF Holding
  <2>3. ~ \E k \in DOMAIN line : line[k] = t
    BY <2>1 DEF Consistent, LineInOrder
  <2> QED
    BY <2>1, <2>2, <2>3 DEF Abstract!Join, Abstract!InLine
<1>7. ASSUME NEW t \in Threads, TryLock(t) PROVE Abstract!TryEnter(t)
  <2>1. line = <<>>
    BY <1>7, K42Assumption, LineFacts DEF TryLock, Consistent, LineInOrder
  <2>2. line' = <<t>> /\ Holding(t)'
    BY <1>3, <1>7, <2>1 DEF TryLock, Goto, Join, Holding
  <2> QED
    BY <2>1, <2>2 DEF Abstract!TryEnter
<1>8. ASSUME NEW t \in Threads, line' = Tail(line), Holding(t), pc'[t] = "out",
             \A s \in Threads : s # t => pc'[s] = pc[s]
      PROVE  Abstract!Leave(t)
  <2>1. line # <<>> /\ t = line[1] /\ inside
    BY <1>8, LineFacts DEF Holding
  <2>2. \A s \in Threads : Holding(s) => s = t
    BY <2>1, LineFacts DEF Holding
  <2>3. ~insideNext
    BY <1>8, <2>2 DEF Holding
  <2> QED
    BY <1>3, <1>8, <2>1, <2>3 DEF Abstract!Leave
<1>9. ASSUME UNCHANGED vars PROVE UNCHANGED Abstract!vars
  BY <1>9 DEF vars, Abstract!vars, Holding
<1>10. ASSUME NEW t \in Threads, LockBegin(t) PROVE UNCHANGED Abstract!vars
  BY <1>3, <1>4, <1>10 DEF LockBegin, Prepare, Goto, Holding
<1>11. ASSUME NEW t \in Threads, Drain(t) PROVE UNCHANGED Abstract!vars
  BY <1>3, <1>4, <1>11 DEF Drain, Holding
<1>12. ASSUME NEW t \in Threads, Acquire(t) PROVE Abstract!Next \/ UNCHANGED Abstract!vars
  <2>1. ASSUME Arm(t) \/ Link(t) \/ Spin(t) \/ Granted(t) \/ Clear(t)
        PROVE  UNCHANGED Abstract!vars
    BY <1>3, <1>4, <2>1 DEF Arm, Link, Spin, Granted, Clear, Goto, Holding
  <2>2. ASSUME Pass(t) \/ AwaitNext(t) PROVE Abstract!Enter(t)
    BY <1>3, <1>5, <2>2 DEF Pass, AwaitNext, Goto, Holding
  <2>3. ASSUME Detach(t), tail = t PROVE Abstract!Enter(t)
    BY <1>3, <1>5, <2>3 DEF Detach, Detached, Goto, Holding
  <2>4. ASSUME Detach(t), tail # t PROVE UNCHANGED Abstract!vars
    BY <1>3, <1>4, <2>4 DEF Detach, Detached, Goto, Holding
  <2> QED
    BY <1>6, <1>12, <2>1, <2>2, <2>3, <2>4 DEF Acquire, Abstract!Next
<1>13. ASSUME NEW t \in Threads, Unlocking(t) PROVE Abstract!Next \/ UNCHANGED Abstract!vars
  <2>1. ASSUME Unlock(t) \/ Seek(t) PROVE UNCHANGED Abstract!vars
    BY <1>3, <1>4, <2>1 DEF Unlock, Seek, Goto, Holding
  <2>2. ASSUME Release(t), tail = L PROVE Abstract!Leave(t)
    BY <1>3, <1>8, <2>2 DEF Release, NoWaiter, Leave, Goto, Holding
  <2>3. ASSUME Release(t), tail # L PROVE UNCHANGED Abstract!vars
    BY <1>3, <1>4, <2>3 DEF Release, NoWaiter, Goto, Holding
  <2>4. ASSUME Wake(t) PROVE Abstract!Leave(t)
    BY <1>3, <1>8, <2>4 DEF Wake, Leave, Goto, Holding
  <2> QED
    BY <1>13, <2>1, <2>2, <2>3, <2>4 DEF Unlocking, Abstract!Next
<1> QED
  BY <1>7, <1>9, <1>10, <1>11, <1>12, <1>13 DEF Next, Abstract!Next

\* k42.c is a LockSpec: the lock is granted in the order of the exchanges, whatever
\* the store buffers delay.
THEOREM K42RefinesLock == Spec => RefinesLock
<1>1. Spec => Abstract!Init /\ [][Abstract!Next]_(Abstract!vars)
  BY InitRefines, ConsistentAlways, NextRefines, PTL DEF Spec
<1> QED
  BY <1>1 DEF RefinesLock, Abstract!Spec
=============================================================================
