------------------------------- MODULE K42Lock -------------------------------
(***************************************************************************)
(* locks/k42.[ch]: the K42 variant of the MCS queue lock.  The lock is a   *)
(* node of its own, and a waiter's node is a local of k42_lock, dead once  *)
(* that call has returned.  The lock's first field has the lock's address, *)
(* so &l->next is the node L here.  A thread calls k42_lock again at the   *)
(* same stack depth: its node is named by the thread.  One action per      *)
(* access to memory that another thread can see.                           *)
(*                                                                         *)
(* barrier() stops only the compiler.  A plain store goes to the store     *)
(* buffer of its core, whose later loads see it, and reaches memory when   *)
(* Drain says so, in order; xchg and cmpxchg wait for the buffer to empty  *)
(* and act on memory (x86, total store order).                             *)
(***************************************************************************)
EXTENDS Naturals, Sequences, FiniteSetsExt

CONSTANTS Threads, L, NULL

ASSUME K42Assumption == L \notin Threads /\ NULL \notin Threads \cup {L}

VARIABLES next,        \* node -> its next field; next[L] is l->next
          tail,        \* l->tail: NULL, L, or the last node queued
          waiting,     \* me.tail, NULL (FALSE) or 1 (TRUE), of each thread
          buffer,      \* per thread: its plain stores not yet in memory
          pred, succ,  \* the locals of k42_lock and k42_unlock, NULL when dead
          pc,
          line         \* history: the callers in the order of their xchg
vars == <<next, tail, waiting, buffer, pred, succ, pc, line>>
memory == <<next, tail, waiting>>
locals == <<pred, succ>>

Node == Threads \cup {L}

\* run() leaves the lock as it found it; its pages start zeroed.  A stack slot
\* holds anything.
Init == /\ next \in [Node -> {NULL}] /\ tail = NULL
        /\ waiting \in [Threads -> BOOLEAN]
        /\ buffer = [t \in Threads |-> <<>>]
        /\ pred = [t \in Threads |-> NULL] /\ succ = [t \in Threads |-> NULL]
        /\ pc = [t \in Threads |-> "out"]
        /\ line = <<>>

Goto(t, from, to) == pc[t] = from /\ pc' = [pc EXCEPT ![t] = to]
Join(t) == line' = Append(line, t)
Leave == line' = Tail(line)

\* A plain store of v to a field of node n.
Assign(field, n, v) == [field |-> field, node |-> n, value |-> v]
Write(t, field, n, v) ==
  /\ buffer' = [buffer EXCEPT ![t] = Append(@, Assign(field, n, v))]
  /\ UNCHANGED memory

\* A plain load: the youngest own store to that place, or else memory.
Pending(t, field, n) ==
  {k \in DOMAIN buffer[t] : buffer[t][k].field = field /\ buffer[t][k].node = n}
Load(t, field, n, inMemory) == IF Pending(t, field, n) = {} THEN inMemory
                               ELSE buffer[t][Max(Pending(t, field, n))].value
Succ(t, n) == Load(t, "next", n, next[n])
Waiting(t) == Load(t, "tail", t, waiting[t])

\* xchg and cmpxchg are locked: a mutant lets them overtake the stores.
Unfenced(t) == TRUE
Fenced(t) == buffer[t] = <<>>
Locked(t) == Fenced(t) /\ UNCHANGED buffer

\* The oldest store of t reaches memory.
Drain(t) ==
  /\ buffer[t] # <<>>
  /\ buffer' = [buffer EXCEPT ![t] = Tail(@)]
  /\ LET w == Head(buffer[t])
     IN IF w.field = "next"
        THEN next' = [next EXCEPT ![w.node] = w.value] /\ UNCHANGED waiting
        ELSE waiting' = [waiting EXCEPT ![w.node] = w.value] /\ UNCHANGED next
  /\ UNCHANGED <<tail, locals, pc, line>>

----------------------------------------------------------------------------
(* k42_lock *)

\* me.next = NULL, in the fresh frame; forgetting it keeps the previous call's.
NoPrepare(t) == Goto(t, "out", "xchg") /\ UNCHANGED <<memory, buffer>>
Prepare(t) == Goto(t, "out", "xchg") /\ Write(t, "next", t, NULL)
LockBegin(t) == Prepare(t) /\ UNCHANGED <<locals, line>>

\* pred = xchg_64(&l->tail, &me)
Xchg(t) == /\ Goto(t, "xchg", IF tail # NULL THEN "arm" ELSE "granted")
           /\ Locked(t)
           /\ pred' = [pred EXCEPT ![t] = tail]
           /\ tail' = t
           /\ Join(t)
           /\ UNCHANGED <<next, waiting, succ>>

\* me.tail = 1; a mutant leaves what the stack held.
NotArmed(t) == Waiting(t)
Armed(t) == TRUE
Arm(t) == /\ Goto(t, "arm", "link")
          /\ Write(t, "tail", t, Armed(t))
          /\ UNCHANGED <<locals, line>>

\* pred->next = &me
Link(t) == /\ Goto(t, "link", "spin")
           /\ Write(t, "next", pred[t], t)
           /\ UNCHANGED <<locals, line>>

\* while (me.tail);
Spin(t) == /\ Goto(t, "spin", "granted")
           /\ ~Waiting(t)
           /\ pred' = [pred EXCEPT ![t] = NULL]
           /\ UNCHANGED <<memory, buffer, succ, line>>

\* succ = me.next, and the branch on it
Granted(t) == /\ Goto(t, "granted", IF Succ(t, t) = NULL THEN "clear" ELSE "pass")
              /\ succ' = [succ EXCEPT ![t] = Succ(t, t)]
              /\ UNCHANGED <<memory, buffer, pred, line>>

\* l->next = succ
Pass(t) == /\ Goto(t, "pass", "cs")
           /\ Write(t, "next", L, succ[t])
           /\ succ' = [succ EXCEPT ![t] = NULL]
           /\ UNCHANGED <<pred, line>>

\* l->next = NULL
Clear(t) == /\ Goto(t, "clear", "detach")
            /\ Write(t, "next", L, NULL)
            /\ UNCHANGED <<locals, line>>

\* cmpxchg(&l->tail, &me, &l->next): the lock's node replaces the caller's;
\* a mutant returns even when a successor has slipped in.
DetachReturns(t) == "cs"
Detached(t) == IF tail = t THEN "cs" ELSE "await"
Detach(t) == /\ Goto(t, "detach", Detached(t))
             /\ Locked(t)
             /\ tail' = IF tail = t THEN L ELSE tail
             /\ UNCHANGED <<next, waiting, locals, line>>

\* while (!me.next); l->next = me.next
AwaitNext(t) == /\ Goto(t, "await", "cs")
                /\ Succ(t, t) # NULL
                /\ Write(t, "next", L, Succ(t, t))
                /\ UNCHANGED <<locals, line>>

----------------------------------------------------------------------------
(* k42_unlock *)

\* succ = l->next, and the branch on it
Unlock(t) == /\ Goto(t, "cs", IF Succ(t, L) = NULL THEN "release" ELSE "wake")
             /\ succ' = [succ EXCEPT ![t] = Succ(t, L)]
             /\ UNCHANGED <<memory, buffer, pred, line>>

\* cmpxchg(&l->tail, &l->next, NULL); a mutant frees the lock over a waiter
ReleaseAlways == TRUE
NoWaiter == tail = L
Release(t) == /\ Goto(t, "release", IF NoWaiter THEN "out" ELSE "seek")
              /\ Locked(t)
              /\ tail' = IF NoWaiter THEN NULL ELSE tail
              /\ IF NoWaiter THEN Leave ELSE UNCHANGED line
              /\ UNCHANGED <<next, waiting, locals>>

\* while (!l->next); succ = l->next
Seek(t) == /\ Goto(t, "seek", "wake")
           /\ Succ(t, L) # NULL
           /\ succ' = [succ EXCEPT ![t] = Succ(t, L)]
           /\ UNCHANGED <<memory, buffer, pred, line>>

\* succ->tail = NULL
Wake(t) == /\ Goto(t, "wake", "out")
           /\ Write(t, "tail", succ[t], FALSE)
           /\ succ' = [succ EXCEPT ![t] = NULL]
           /\ Leave
           /\ UNCHANGED pred

----------------------------------------------------------------------------
(* k42_trylock: cmpxchg(&l->tail, NULL, &l->next); failing changes nothing *)

TryLock(t) == /\ Goto(t, "out", "cs")
              /\ Locked(t)
              /\ tail = NULL
              /\ tail' = L
              /\ Join(t)
              /\ UNCHANGED <<next, waiting, locals>>

Acquire(t) == \/ Xchg(t) \/ Arm(t) \/ Link(t) \/ Spin(t) \/ Granted(t)
              \/ Pass(t) \/ Clear(t) \/ Detach(t) \/ AwaitNext(t)
Unlocking(t) == Unlock(t) \/ Release(t) \/ Seek(t) \/ Wake(t)
Next == \E t \in Threads :
          LockBegin(t) \/ TryLock(t) \/ Acquire(t) \/ Unlocking(t) \/ Drain(t)

\* Threads pinned to cores of their own run on inside a call and inside the
\* critical section; nothing obliges one to call.  A store buffer drains.
Spec == Init /\ [][Next]_vars
FairSpec == Spec /\ \A t \in Threads : /\ WF_vars(Acquire(t) \/ Unlocking(t))
                                       /\ WF_vars(Drain(t))
----------------------------------------------------------------------------
States == {"out", "xchg", "arm", "link", "spin", "granted", "pass", "clear",
           "detach", "await", "cs", "release", "seek", "wake"}
Store == [field : {"next"}, node : Node, value : Threads \cup {NULL}]
         \cup [field : {"tail"}, node : Threads, value : BOOLEAN]
Holding(t) == pc[t] \in {"cs", "release", "seek", "wake"}
\* The caller's frame, and with it its node, exists.
Framed(t) == pc[t] # "out" /\ ~Holding(t)
\* t has exchanged the tail and not yet been granted the lock.
Blocked(t) == pc[t] \in {"arm", "link", "spin"}

\* The variables have their types, and a local is a node exactly while it is used.
TypeOK == /\ next \in [Node -> Threads \cup {NULL}]
          /\ tail \in Node \cup {NULL}
          /\ waiting \in [Threads -> BOOLEAN]
          /\ buffer \in [Threads -> Seq(Store)]
          /\ pred \in [Threads -> Node \cup {NULL}]
          /\ succ \in [Threads -> Threads \cup {NULL}]
          /\ pc \in [Threads -> States]
          /\ line \in Seq(Threads)
          /\ \A t \in Threads : /\ pred[t] # NULL <=> Blocked(t)
                                /\ succ[t] # NULL <=> pc[t] \in {"pass", "wake"}

\* Two threads are never between the return of k42_lock (or a k42_trylock that
\* succeeded) and the end of their k42_unlock.
MutualExclusion == \A s, t \in Threads : Holding(s) /\ Holding(t) => s = t

\* A store that is on its way to memory still finds what it was meant for,
\* however late it arrives: me.next = NULL the call that has just begun, a link
\* its predecessor in k42_lock, or the lock, and never a frame that is gone; a
\* store to l->next comes from the holder, or before it from the thread that
\* links behind it; a wake-up finds its successor on the flag it clears.
NoLateWrite ==
  \A t \in Threads : \A i \in DOMAIN buffer[t] :
    LET w == buffer[t][i]  n == w.node
    IN CASE w.field = "next" /\ n = L ->
              \/ Holding(t) \/ pc[t] \in {"detach", "spin"}
              \/ \E k \in DOMAIN buffer[t] : k > i /\ buffer[t][k].field = "tail"
         [] w.field = "next" /\ n # L -> Framed(n)
         [] w.field = "tail" /\ n = t -> Blocked(t)
         [] w.field = "tail" /\ n # t -> pc[n] = "spin" /\ waiting[n]

\* The stores of k42_lock and k42_unlock, each in flight while in a buffer.
PrepareStore(t) == Assign("next", t, NULL)
ArmStore(t) == Assign("tail", t, TRUE)
LinkStore(t) == Assign("next", pred[t], t)
LockNext(n) == Assign("next", L, n)
WakeStore(t) == Assign("tail", t, FALSE)

\* The link of t has reached its predecessor: t can be found, and waits.
Linked(t) == pc[t] = "spin" /\ buffer[t] = <<>>
\* t has left, but the wake-up of its successor is still in its buffer.
Waker(t) == pc[t] \in {"out", "xchg"} /\ buffer[t] \notin {<<>>, <<PrepareStore(t)>>}

\* What each buffer may hold, oldest first, and what has reached memory instead.
BufferInOrder(t) ==
  LET own == buffer[t]
  IN /\ pc[t] = "out" =>
          \/ own = <<>>
          \/ line # <<>> /\ own \in {<<LockNext(line[1]), WakeStore(line[1])>>,
                                     <<WakeStore(line[1])>>}
     /\ pc[t] = "xchg" =>
          \/ own = <<>> /\ next[t] = NULL
          \/ own = <<PrepareStore(t)>>
          \/ line # <<>> /\ own \in
               {<<LockNext(line[1]), WakeStore(line[1]), PrepareStore(t)>>,
                <<WakeStore(line[1]), PrepareStore(t)>>}
     /\ pc[t] = "link" => own = <<ArmStore(t)>> \/ (own = <<>> /\ waiting[t])
     /\ pc[t] = "spin" => \/ own = <<ArmStore(t), LinkStore(t)>>
                          \/ own = <<LinkStore(t)>> /\ waiting[t]
                          \/ own = <<>>
     /\ pc[t] = "detach" => own = <<LockNext(NULL)>> \/ (own = <<>> /\ next[L] = NULL)
     /\ pc[t] \in {"arm", "granted", "pass", "clear", "await", "release", "seek"} =>
          own = <<>>
BuffersInOrder == \A t \in Threads : BufferInOrder(t)

\* The line holds the callers that have exchanged the tail, each once; the
\* first needs no predecessor any more, and the tail is the last of them, or
\* the lock's own node when the holder is alone.
LineInOrder ==
  /\ \A j, k \in DOMAIN line : line[j] = line[k] => j = k
  /\ \A t \in Threads : (\E k \in DOMAIN line : line[k] = t) <=> pc[t] \notin {"out", "xchg"}
  /\ line # <<>> => pc[line[1]] \notin {"arm", "link"}
  /\ tail = IF line = <<>> THEN NULL
            ELSE IF Len(line) = 1 /\ Holding(line[1]) THEN L ELSE line[Len(line)]

\* Everybody behind the first in line is blocked, its flag set, behind the
\* caller just before it or behind the lock that has taken that one's place.
ChainInOrder ==
  \A k \in 2 .. Len(line) :
    LET t == line[k]
    IN /\ Blocked(t)
       /\ \/ pred[t] = line[k - 1]
          \/ pred[t] = L /\ k = 2 /\ Holding(line[1])
       /\ Linked(t) => waiting[t]

\* A node in k42_lock leads to the next in line exactly when that one is linked.
NodesLead ==
  \A k \in DOMAIN line : Framed(line[k]) =>
    next[line[k]] = IF k < Len(line) /\ Linked(line[k + 1]) THEN line[k + 1] ELSE NULL

\* The holder finds the next in line from the lock, once linked, wherever that
\* one has linked; and a lock nobody holds or waits for is as run() first
\* found it: neither field needs to be initialised again, and k42_trylock may
\* skip l->next = NULL.
LockLeads ==
  /\ line = <<>> => next[L] = NULL
  /\ line # <<>> /\ Holding(line[1]) =>
       LET h == line[1]  s == line[2]
       IN \/ Len(line) = 1 /\ pc[h] \in {"cs", "release"}
             /\ buffer[h] = <<>> /\ next[L] = NULL
          \/ Len(line) > 1 /\ pred[s] = L
             /\ buffer[h] = <<>> /\ next[L] = IF Linked(s) THEN s ELSE NULL
          \/ Len(line) > 1 /\ pred[s] = h /\ pc[h] \in {"cs", "wake"} /\ Linked(s)
             /\ (buffer[h] = <<LockNext(s)>> \/ (buffer[h] = <<>> /\ next[L] = s))
  /\ line # <<>> /\ pc[line[1]] \in {"pass", "wake"} =>
       Len(line) > 1 /\ Linked(line[2]) /\ succ[line[1]] = line[2]
  /\ line # <<>> /\ pc[line[1]] \in {"await", "seek"} => Len(line) > 1

\* Exactly one wake-up is on its way to a first in line that still waits for
\* one, and none to anybody else.
OneWakeUp ==
  /\ \A t \in Threads : Waker(t) => line # <<>> /\ Linked(line[1]) /\ waiting[line[1]]
  /\ \A s, t \in Threads : Waker(s) /\ Waker(t) => s = t
  /\ line # <<>> /\ pc[line[1]] = "spin" =>
       Linked(line[1]) /\ (waiting[line[1]] => \E t \in Threads : Waker(t))

\* At any time the nodes, the tail, the flags, the callers' pointers and the
\* stores still in flight describe one chain of callers: an inductive invariant.
Consistent == /\ TypeOK
              /\ BuffersInOrder
              /\ LineInOrder
              /\ ChainInOrder
              /\ NodesLead
              /\ LockLeads
              /\ OneWakeUp

\* k42.c is a LockSpec: the lock is granted in the order of the exchanges.
Abstract == INSTANCE LockSpec WITH inside <- \E t \in Threads : Holding(t)
RefinesLock == Abstract!Spec

\* A thread that has called k42_lock gets the lock.
StarvationFree == \A t \in Threads : pc[t] = "xchg" ~> pc[t] = "cs"
=============================================================================
