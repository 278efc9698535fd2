----------------------------- MODULE TicketLock -----------------------------
(***************************************************************************)
(* locks/ticketlock.[ch]: the 32-bit ticket lock.  Two unsigned shorts,    *)
(* ticket (now served) and users (next to hand out), both modulo TicketMod *)
(* (2^16 in the code), overlaid by the word u that ticket_trylock          *)
(* compares and swaps.  Every thread is a caller that may lock, trylock    *)
(* and, once inside, unlock.  One action per access to shared memory.      *)
(***************************************************************************)
EXTENDS Integers, FiniteSets

CONSTANTS Threads,   \* the callers
          TicketMod  \* 2^16: the values of an unsigned short

\* A number is handed out again only after TicketMod others.
ASSUME TicketAssumption == /\ IsFiniteSet(Threads)
                           /\ TicketMod \in Nat \ {0}
                           /\ Cardinality(Threads) =< TicketMod

VARIABLES ticket, users,  \* the shared word
          me,             \* local me of ticket_lock and ticket_trylock
          reg,            \* register of the load / add / store of ticket++
          pc
vars == <<ticket, users, me, reg, pc>>

Short == 0 .. TicketMod - 1

\* Increment of an unsigned short.
Inc(n) == (n + 1) % TicketMod

\* Fresh pages are zero; run() is called again and again on the same locks,
\* so a run may start with any equal pair.
Init == /\ ticket \in Short /\ users = ticket
        /\ me \in [Threads -> {0}] /\ reg = [t \in Threads |-> 0]
        /\ pc = [t \in Threads |-> "out"]

Goto(t, from, to) == pc[t] = from /\ pc' = [pc EXCEPT ![t] = to]

\* ticket_lock: atomic_xadd hands out a number ...
Lock(t) == /\ Goto(t, "out", "spin")
           /\ me' = [me EXCEPT ![t] = users]
           /\ users' = Inc(users)
           /\ UNCHANGED <<ticket, reg>>

\* ... and the loop ends when it is served.
ServedOrNext(t) == ticket = me[t] \/ Inc(ticket) = me[t]
Served(t) == ticket = me[t]
Spin(t) == /\ Goto(t, "spin", "cs")
           /\ Served(t)
           /\ UNCHANGED <<ticket, users, me, reg>>

\* ticket_unlock: ticket++ is a load and a store, not an atomic addition.
UnlockLoad(t) == /\ Goto(t, "cs", "store")
                 /\ reg' = [reg EXCEPT ![t] = ticket]
                 /\ UNCHANGED <<ticket, users, me>>

\* Mutant: the release skips a number.
StoreSkip(t) == Inc(Inc(reg[t]))
Stored(t) == Inc(reg[t])
UnlockStore(t) == /\ Goto(t, "store", "out")
                  /\ ticket' = Stored(t)
                  /\ UNCHANGED <<users, me, reg>>

\* ticket_trylock: reads users, then swaps the word ticket = users = me.
TryRead(t) == /\ Goto(t, "out", "try")
              /\ me' = [me EXCEPT ![t] = users]
              /\ UNCHANGED <<ticket, users, reg>>

\* Mutant: only the half that was read is compared.
WordUsersOnly(t) == users = me[t]
Word(t) == ticket = me[t] /\ users = me[t]
TryTake(t) == /\ Goto(t, "try", "cs")
              /\ Word(t)
              /\ users' = Inc(me[t])
              /\ UNCHANGED <<ticket, me, reg>>
TryBusy(t) == /\ Goto(t, "try", "out")
              /\ ~Word(t)
              /\ UNCHANGED <<ticket, users, me, reg>>

Step(t) == \/ Lock(t) \/ Spin(t) \/ UnlockLoad(t) \/ UnlockStore(t)
           \/ TryRead(t) \/ TryTake(t) \/ TryBusy(t)
Next == \E t \in Threads : Step(t)

\* The threads are pinned to cores of their own and never stop inside a call
\* or the critical section; nothing obliges one to call.
Fairness == \A t \in Threads : /\ WF_vars(Spin(t))
                               /\ WF_vars(UnlockLoad(t) \/ UnlockStore(t))
                               /\ WF_vars(TryTake(t) \/ TryBusy(t))
Spec == Init /\ [][Next]_vars
FairSpec == Spec /\ Fairness

\* ticket_lockable: the answer it gives.
LockableStale == \E t \in Threads : me[t] = users /\ users = ticket
Lockable == ticket = users
-----------------------------------------------------------------------------
Holding(t) == pc[t] \in {"cs", "store"}
Queued == {t \in Threads : pc[t] = "spin" \/ Holding(t)}

\* How many numbers are served before n is.
Dist(n) == IF n >= ticket THEN n - ticket ELSE n - ticket + TicketMod

TypeOK == /\ ticket \in Short /\ users \in Short
          /\ me \in [Threads -> Short] /\ reg \in [Threads -> Short]
          /\ pc \in [Threads -> {"out", "spin", "cs", "store", "try"}]

\* Two threads are never between the return of their lock call and the store
\* of ticket_unlock, although numbers wrap and are reused.
MutualExclusion == \A s, t \in Threads : Holding(s) /\ Holding(t) => s = t

\* The plain store of ticket++ never undoes another thread's change: the value
\* loaded is still the one in memory when it is stored.
NoLostRelease == \A t \in Threads : pc[t] = "store" => reg[t] = ticket

\* The queued threads hold the Cardinality(Queued) numbers from ticket on,
\* one each, and users is the next one.
NumbersDense ==
  /\ \A s, t \in Queued : me[s] = me[t] => s = t
  /\ \A t \in Queued : Dist(me[t]) < Cardinality(Queued)
  /\ users = IF ticket + Cardinality(Queued) < TicketMod
             THEN ticket + Cardinality(Queued)
             ELSE ticket + Cardinality(Queued) - TicketMod
  /\ \A t \in Threads : Holding(t) => me[t] = ticket

\* The inductive invariant behind the two properties above.
IInv == TypeOK /\ NumbersDense /\ NoLostRelease

\* While one thread, the one that asks, is not queued, ticket_lockable tells
\* whether the lock is free: a full turn of numbers cannot be mistaken for none.
LockableExact == Queued # Threads => (Lockable <=> Queued = {})

\* The queued threads in the order of their numbers.
Line == [k \in 1 .. Cardinality(Queued) |->
           CHOOSE t \in Queued : Dist(me[t]) = k - 1]

\* ticketlock.c is a LockSpec: numbers are served in the order of the xadd, a
\* trylock succeeds only on an empty line, only the holder leaves.
Abstract == INSTANCE LockSpec WITH line <- Line,
                                   inside <- \E t \in Threads : Holding(t)
RefinesLock == Abstract!Spec

\* Whoever has drawn a number gets the lock, however the others lock and
\* trylock meanwhile.
StarvationFree == \A t \in Threads : pc[t] = "spin" ~> pc[t] = "cs"
=============================================================================
