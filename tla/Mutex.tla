-------------------------------- MODULE Mutex --------------------------------
(***************************************************************************)
(* The futex mutex of sync/2.4/mutex/mutex.c.                              *)
(*                                                                         *)
(* "state" is the atomic word of mutex_t.  A thread's "pc" names the       *)
(* atomic instruction or system call it executes next, "c" is the local of *)
(* mutex_lock, and the threads at "asleep" are the kernel's futex queue.   *)
(* Every step is one atomic access to the word or one futex call, so any   *)
(* two threads may interleave between any two of them.                     *)
(***************************************************************************)
EXTENDS Integers, FiniteSets

CONSTANTS Threads, None

ASSUME MutexAssumption == None \notin Threads

VARIABLES state, pc, c

vars == <<state, pc, c>>

Labels == {"idle", "slow", "wait", "asleep", "retry", "cs", "unlock_store",
           "unlock_wake"}

\* mutex_init, and threads that have not yet called anything.
Init ==
    /\ state = 0
    /\ pc = [t \in Threads |-> "idle"]
    /\ c = [t \in Threads |-> 0]

Goto(t, from, to) ==
    /\ pc[t] = from
    /\ pc' = [pc EXCEPT ![t] = to]

-----------------------------------------------------------------------------
(* mutex_lock *)

\* The first cmpxchg(&state, 0, 1): the lock is taken, or c remembers what was
\* found and the loop is entered.
LockFast(t) ==
    \/ /\ state = 0
       /\ Goto(t, "idle", "cs")
       /\ state' = 1
       /\ c' = [c EXCEPT ![t] = 0]
    \/ /\ state # 0
       /\ Goto(t, "idle", "slow")
       /\ c' = [c EXCEPT ![t] = state]
       /\ UNCHANGED state

\* c == 2 || cmpxchg(&state, 1, 2) != 0: the futex call is skipped only when
\* the exchange was tried and found the mutex free.
LockSlow(t) ==
    \/ /\ c[t] = 2
       /\ Goto(t, "slow", "wait")
       /\ UNCHANGED <<state, c>>
    \/ /\ c[t] # 2
       /\ state # 0
       /\ Goto(t, "slow", "wait")
       /\ state' = 2
       /\ UNCHANGED c
    \/ /\ c[t] # 2
       /\ state = 0
       /\ Goto(t, "slow", "retry")
       /\ UNCHANGED <<state, c>>

\* Mutant: a thread whose futex call returns believes that it was handed the lock.
FutexWaitHandsOver(t) ==
    /\ \/ state = 2 /\ Goto(t, "wait", "asleep")
       \/ state # 2 /\ Goto(t, "wait", "cs")
    /\ UNCHANGED <<state, c>>

\* FUTEX_WAIT with expected value 2: the kernel compares and queues in one
\* step, and returns at once when the word has changed.
FutexWait(t) ==
    /\ \/ state = 2 /\ Goto(t, "wait", "asleep")
       \/ state # 2 /\ Goto(t, "wait", "retry")
    /\ UNCHANGED <<state, c>>

\* A wait that returns without a wake-up (EINTR, a spurious return); the code
\* does not look at the result of the call.
FutexInterrupted(t) ==
    /\ Goto(t, "asleep", "retry")
    /\ UNCHANGED <<state, c>>

\* Mutant: the exchange after a wait is a plain test of the word.
LockRetryNoExchange(t) ==
    /\ Goto(t, "retry", IF state = 0 THEN "cs" ELSE "slow")
    /\ c' = [c EXCEPT ![t] = state]
    /\ UNCHANGED state

\* Mutant: a thread that has waited marks the word 1, as on the fast path.
LockRetryUncontended(t) ==
    /\ Goto(t, "retry", IF state = 0 THEN "cs" ELSE "slow")
    /\ c' = [c EXCEPT ![t] = state]
    /\ state' = IF state = 0 THEN 1 ELSE state

\* cmpxchg(&state, 0, 2) at the end of the loop: a thread that has waited
\* takes the lock marked as contended.
LockRetry(t) ==
    \/ /\ state = 0
       /\ Goto(t, "retry", "cs")
       /\ state' = 2
       /\ c' = [c EXCEPT ![t] = 0]
    \/ /\ state # 0
       /\ Goto(t, "retry", "slow")
       /\ c' = [c EXCEPT ![t] = state]
       /\ UNCHANGED state

\* mutex_trylock: a single exchange, whose failure changes nothing.  A holder
\* may try the mutex as well.
TryLock(t) ==
    /\ pc[t] \in {"idle", "cs"}
    /\ \/ /\ state = 0
          /\ state' = 1
          /\ pc' = [pc EXCEPT ![t] = "cs"]
       \/ /\ state # 0
          /\ UNCHANGED <<state, pc>>
    /\ UNCHANGED c

-----------------------------------------------------------------------------
(* mutex_unlock *)

\* atomic_fetch_sub: the word goes from 1 to 0 and the call is over, or from 2
\* to 1 and the slow path follows.
UnlockSub(t) ==
    /\ \/ state = 1 /\ Goto(t, "cs", "idle")
       \/ state # 1 /\ Goto(t, "cs", "unlock_store")
    /\ state' = state - 1
    /\ UNCHANGED c

UnlockStore(t) ==
    /\ Goto(t, "unlock_store", "unlock_wake")
    /\ state' = 0
    /\ UNCHANGED c

\* FUTEX_WAKE of one thread: any sleeper, or nobody when none sleeps.
UnlockWake(t) ==
    /\ pc[t] = "unlock_wake"
    /\ \/ \E u \in Threads :
            /\ pc[u] = "asleep"
            /\ pc' = [pc EXCEPT ![t] = "idle", ![u] = "retry"]
       \/ /\ \A u \in Threads : pc[u] # "asleep"
          /\ pc' = [pc EXCEPT ![t] = "idle"]
    /\ UNCHANGED <<state, c>>

-----------------------------------------------------------------------------
Lock(t) == LockFast(t) \/ LockSlow(t) \/ FutexWait(t) \/ LockRetry(t)
Unlock(t) == UnlockSub(t) \/ UnlockStore(t) \/ UnlockWake(t)

Next == \E t \in Threads :
          Lock(t) \/ FutexInterrupted(t) \/ TryLock(t) \/ Unlock(t)

Spec == Init /\ [][Next]_vars

-----------------------------------------------------------------------------
(* Properties *)

TypeOK ==
    /\ state \in 0..2
    /\ pc \in [Threads -> Labels]
    /\ c \in [Threads -> 0..2]

\* A thread owns the mutex from the exchange that took it to the instruction
\* that makes the word 0 again.
Holds(t) == pc[t] \in {"cs", "unlock_store"}

\* At most one thread is between mutex_lock/mutex_trylock and the end of its
\* mutex_unlock, whatever exchanges the others have in flight.
MutualExclusion ==
    \A t, u \in Threads : Holds(t) /\ Holds(u) => t = u

\* A thread that will look at the word again before it can sleep, or that is
\* about to wake a sleeper.
Attends(t) == pc[t] \in {"slow", "wait", "retry", "unlock_store", "unlock_wake"}

\* No lost wake-up: when threads sleep on the futex and the word does not say
\* "locked, with waiters", so that no unlock to come would wake them, some
\* thread is still on its way to mark the word or to wake one of them.
NoStrandedWaiter ==
    (\E t \in Threads : pc[t] = "asleep") /\ state # 2
        => \E t \in Threads : Attends(t)

\* The word tells free from taken: 0 exactly when nobody owns the mutex; and a
\* thread inside its slow unlock still finds a decremented or re-marked word.
StateMatchesHolder ==
    state = 0 <=> \A t \in Threads : ~Holds(t)

\* The inductive invariant.
Inv == TypeOK /\ MutualExclusion /\ StateMatchesHolder

holder == IF \E t \in Threads : Holds(t)
          THEN CHOOSE t \in Threads : Holds(t)
          ELSE None

L == INSTANCE Lock

\* The mutex is a lock: every step acquires, releases or changes nothing that a
\* caller could see.
LockSpec == L!Spec
=============================================================================
