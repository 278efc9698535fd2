------------------------------- MODULE SpinLock -------------------------------
(***************************************************************************)
(* The spin locks of locks/ that keep no queue: spinlock.c (CUSTOM) and    *)
(* the two loops that worker() of main.c has inline over GCC's built-ins   *)
(* (TAS, TATAS).  They differ in when they read the word before and        *)
(* between their atomic exchanges.  One action per access to the word.     *)
(***************************************************************************)
EXTENDS Naturals, Sequences

CONSTANT Threads

VARIABLES variant, \* which of the three the program was compiled with
          lock,    \* the word: 0, or 1 (EBUSY) while somebody holds it
          pc       \* "read" is in while (*lock), "xchg" about to exchange
spinVars == <<variant, lock, pc>>

\* main() stores 0 for TAS and TATAS; the pages of CUSTOM start zeroed.
SpinInit == /\ variant \in {"TAS", "TATAS", "CUSTOM"}
            /\ lock = 0
            /\ pc = [t \in Threads |-> "out"]

Go(t, from, to) == pc[t] = from /\ pc' = [pc EXCEPT ![t] = to]

\* TATAS looks at the word before its first exchange; a mutant that believes
\* what it saw enters without one.
TrustRead == "cs"
AfterRead == "xchg"
Call(t) == /\ Go(t, "out", IF variant = "TATAS" THEN "read" ELSE "xchg")
           /\ UNCHANGED <<variant, lock>>

\* while (*lock): a caller that reads 1 reads again.
Read(t) == /\ Go(t, "read", IF lock = 0 THEN AfterRead ELSE "read")
           /\ UNCHANGED <<variant, lock>>

\* The exchange, of the lock call or of spin_trylock, that finds the lock free
\* (a mutant does not write the word) ...
Unmarked == lock
Marked == 1
Take(t) == /\ lock = 0
           /\ \/ Go(t, "xchg", "cs")
              \/ variant = "CUSTOM" /\ Go(t, "out", "cs")
           /\ lock' = Marked
           /\ UNCHANGED variant

\* ... or held: it writes the 1 that is there already.  CUSTOM then waits in
\* reads, TAS and TATAS exchange again; spin_trylock returns.
Retry(t) == Go(t, "xchg", IF variant = "CUSTOM" THEN "read" ELSE "xchg")
Miss(t) == /\ lock = 1
           /\ Retry(t)
           /\ lock' = Marked
           /\ UNCHANGED variant

\* spin_unlock and __sync_lock_release; a mutant leaves the word as it is.
Kept == lock
Freed == 0
Release(t) == /\ Go(t, "cs", "out")
              /\ lock' = Freed
              /\ UNCHANGED variant

SpinStep(t) == Read(t) \/ Take(t) \/ Miss(t) \/ Release(t)
SpinNext == \E t \in Threads : Call(t) \/ SpinStep(t)

\* Threads pinned to cores of their own run on inside a call and inside the
\* critical section; nothing obliges one to call.
SpinSpec == SpinInit /\ [][SpinNext]_spinVars
FairSpinSpec == SpinSpec /\ \A t \in Threads :
                               WF_spinVars(pc[t] # "out" /\ SpinStep(t))
-----------------------------------------------------------------------------
Owns(t) == pc[t] = "cs"

SpinTypeOK == /\ variant \in {"TAS", "TATAS", "CUSTOM"} /\ lock \in {0, 1}
              /\ pc \in [Threads -> {"out", "read", "xchg", "cs"}]

\* Two threads are never inside at once: between its last read of the word and
\* its exchange another thread may have taken the lock.
MutualExclusion == \A s, t \in Threads : Owns(s) /\ Owns(t) => s = t

\* The word tells exactly whether somebody holds the lock; a failing trylock
\* or a missed exchange never leaves it set for nobody.
WordExact == lock = 1 <=> \E t \in Threads : Owns(t)

IInv == SpinTypeOK /\ MutualExclusion /\ WordExact

\* The spin locks are a LockSpec without waiting in line.
Abstract == INSTANCE LockSpec WITH
  line <- IF \E t \in Threads : Owns(t)
          THEN <<CHOOSE t \in Threads : Owns(t)>> ELSE <<>>,
  inside <- \E t \in Threads : Owns(t)
RefinesLock == Abstract!Spec

\* While callers spin, somebody gets in (one given caller may starve).
Progress == (\E t \in Threads : pc[t] \in {"read", "xchg"})
              ~> (\E t \in Threads : Owns(t))
=============================================================================
