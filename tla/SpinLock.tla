------------------------------ MODULE SpinLock ------------------------------
(***************************************************************************)
(* The spinlock of sync/2.4/spinlock/spinlock.c.  Each step is one         *)
(* __sync_val_compare_and_swap; an exchange that fails changes nothing and *)
(* is repeated by spinlock_lock.                                           *)
(*                                                                         *)
(* The error returns are left out: a word other than 0 and 1 would break   *)
(* the test for SLBUSY, and an unlock of a word that is 0 would not return *)
(* here, which the termination of LockTests rules out.                     *)
(***************************************************************************)
EXTENDS Naturals

CONSTANTS Threads, None

VARIABLES
    is_acquired,
    spc         \* of a thread: "idle" outside, "cs" inside the lock

spinVars == <<is_acquired, spc>>

\* spinlock_init
Init ==
    /\ is_acquired = 0
    /\ spc = [t \in Threads |-> "idle"]

spinlock_lock(t) ==
    /\ spc[t] = "idle"
    /\ is_acquired = 0
    /\ is_acquired' = 1
    /\ spc' = [spc EXCEPT ![t] = "cs"]

\* SLBUSY is returned when the word is 1, to the holder too.
spinlock_trylock(t) ==
    \/ /\ is_acquired = 0
       /\ is_acquired' = 1
       /\ spc' = [spc EXCEPT ![t] = "cs"]
    \/ /\ is_acquired = 1
       /\ UNCHANGED spinVars

spinlock_unlock(t) ==
    /\ spc[t] = "cs"
    /\ is_acquired = 1
    /\ is_acquired' = 0
    /\ spc' = [spc EXCEPT ![t] = "idle"]

Next == \E t \in Threads :
          spinlock_lock(t) \/ spinlock_trylock(t) \/ spinlock_unlock(t)

Spec == Init /\ [][Next]_spinVars

-----------------------------------------------------------------------------
(* Properties *)

TypeOK ==
    /\ is_acquired \in {0, 1}
    /\ spc \in [Threads -> {"idle", "cs"}]

\* The inductive invariant: one thread at a time is inside, and the word says
\* whether one is.
Inv ==
    /\ TypeOK
    /\ \A t, u \in Threads : spc[t] = "cs" /\ spc[u] = "cs" => t = u
    /\ is_acquired = 1 <=> \E t \in Threads : spc[t] = "cs"

holder == IF \E t \in Threads : spc[t] = "cs"
          THEN CHOOSE t \in Threads : spc[t] = "cs"
          ELSE None

L == INSTANCE Lock

\* The spinlock is a lock, as the mutex is.
SpinLockSpec == L!Spec
=============================================================================
