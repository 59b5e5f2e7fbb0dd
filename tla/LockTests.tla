------------------------------ MODULE LockTests ------------------------------
(***************************************************************************)
(* The program sync/2.4/tests.c: main tests the spinlock and then the      *)
(* mutex, each with a basic test, a multi-threaded test and a trylock      *)
(* test.  In the multi-threaded tests the workers increment the shared     *)
(* plain int "counter" Iterations times under the lock.                    *)
(*                                                                         *)
(* counter++ of a worker is a load into a register and a store, so an      *)
(* increment is lost whenever two threads are between the two.  That       *)
(* pthread_create succeeds is assumed: otherwise the test returns at once  *)
(* and leaves the threads it has created running.                          *)
(***************************************************************************)
EXTENDS Mutex, Sequences

CONSTANTS main, Iterations

ASSUME TestsAssumption ==
    /\ Iterations \in Nat \ {0}
    /\ main \in Threads /\ IsFiniteSet(Threads)

VARIABLES
    is_acquired, spc,
    counter,
    step,       \* of main
    reg, i, at, \* of a worker
    failed      \* the steps that print FAILED

testVars == <<counter, step, reg, i, at, failed>>
allVars == <<vars, is_acquired, spc, testVars>>

S == INSTANCE SpinLock

Workers == Threads \ {main}

-----------------------------------------------------------------------------
(* main *)

\* What the three test functions of a lock do.
Tests == <<"init", "lock", "inc", "unlock", "check 1",                  \* basic_functionality
           "init 0", "create", "join",                                  \* multithreaded
           "init", "lock", "try busy", "unlock", "try free", "unlock">> \* trylock

\* main tests the spinlock first; place is the operation it has come to.
Spinning == step <= Len(Tests)
place == IF Spinning THEN step ELSE step - Len(Tests)

Completed == step > 2 * Len(Tests)
At(op) == ~Completed /\ Tests[place] = op

\* main is done with the operation and goes on to the next.
Proceed(op) == At(op) /\ step' = step + 1

Verdict(ok) == failed' = IF ok THEN failed ELSE failed \cup {step}

TestInit ==
    /\ Init
    /\ S!Init
    /\ counter = 0
    /\ step = 1
    /\ reg = [t \in Workers |-> 0]
    /\ i = [t \in Workers |-> 0]
    /\ at = [t \in Workers |-> "unborn"]
    /\ failed = {}

\* The initialisation of a lock that nobody uses; the multi-threaded tests also
\* reset the counter.
InitLock ==
    /\ \/ Proceed("init") /\ UNCHANGED counter
       \/ Proceed("init 0") /\ counter' = 0
    /\ \/ /\ Spinning
          /\ is_acquired' = 0
          /\ UNCHANGED state
       \/ /\ ~Spinning
          /\ state' = 0
          /\ UNCHANGED is_acquired
    /\ UNCHANGED <<pc, c, spc, reg, i, at, failed>>

\* A step of a call that t makes to the lock under test, and its return.
LockStep(t) ==
    \/ Spinning /\ S!spinlock_lock(t) /\ UNCHANGED vars
    \/ ~Spinning /\ Lock(t) /\ UNCHANGED <<is_acquired, spc>>

UnlockStep(t) ==
    \/ Spinning /\ S!spinlock_unlock(t) /\ UNCHANGED vars
    \/ ~Spinning /\ Unlock(t) /\ UNCHANGED <<is_acquired, spc>>

TryStep(t) ==
    \/ Spinning /\ S!spinlock_trylock(t) /\ UNCHANGED vars
    \/ ~Spinning /\ TryLock(t) /\ UNCHANGED <<is_acquired, spc>>

\* The step is the last of the call: the lock is taken, or left.
Entered(t) == IF Spinning THEN spc'[t] = "cs" ELSE pc'[t] = "cs"
Left(t) == IF Spinning THEN spc'[t] = "idle" ELSE pc'[t] = "idle"

MainLock ==
    /\ At("lock")
    /\ LockStep(main)
    /\ step' = IF Entered(main) THEN step + 1 ELSE step
    /\ UNCHANGED <<counter, reg, i, at, failed>>

MainUnlock ==
    /\ At("unlock")
    /\ UnlockStep(main)
    /\ step' = IF Left(main) THEN step + 1 ELSE step
    /\ UNCHANGED <<counter, reg, i, at, failed>>

MainIncrement ==
    /\ Proceed("inc")
    /\ counter' = counter + 1
    /\ UNCHANGED <<vars, is_acquired, spc, reg, i, at, failed>>

\* counter == 1, and the reset after it.
CheckOne ==
    /\ Proceed("check 1")
    /\ Verdict(counter = 1)
    /\ counter' = 0
    /\ UNCHANGED <<vars, is_acquired, spc, reg, i, at>>

CreateWorkers ==
    /\ Proceed("create")
    /\ at' = [t \in Workers |-> "lock"]
    /\ i' = [t \in Workers |-> 0]
    /\ UNCHANGED <<vars, is_acquired, spc, counter, reg, failed>>

\* All are joined and the counter is compared; only the spinlock's test resets
\* the counter afterwards.
JoinWorkers ==
    /\ Proceed("join")
    /\ \A t \in Workers : at[t] = "done"
    /\ Verdict(counter = Cardinality(Workers) * Iterations)
    /\ counter' = IF Spinning THEN 0 ELSE counter
    /\ UNCHANGED <<vars, is_acquired, spc, reg, i, at>>

\* main tries the lock it holds itself, and then the released one, which must be
\* refused and granted.  (An unexpected grant would be unlocked again.)
MainTry ==
    /\ \/ Proceed("try busy") /\ TryStep(main) /\ Verdict(UNCHANGED <<state, is_acquired>>)
       \/ Proceed("try free") /\ TryStep(main) /\ Verdict(Entered(main))
    /\ UNCHANGED <<counter, reg, i, at>>

Main ==
    \/ InitLock \/ MainLock \/ MainUnlock \/ MainIncrement \/ CheckOne
    \/ CreateWorkers \/ JoinWorkers \/ MainTry

-----------------------------------------------------------------------------
(* spinlock_increment_counter and mutex_increment_counter *)

CallLock(t) ==
    /\ at[t] = "lock"
    /\ LockStep(t)
    /\ at' = [at EXCEPT ![t] = IF Entered(t) THEN "load" ELSE "lock"]
    /\ UNCHANGED <<counter, step, reg, i, failed>>

LoadCounter(t) ==
    /\ at[t] = "load"
    /\ reg' = [reg EXCEPT ![t] = counter]
    /\ at' = [at EXCEPT ![t] = "store"]
    /\ UNCHANGED <<vars, is_acquired, spc, counter, step, i, failed>>

StoreCounter(t) ==
    /\ at[t] = "store"
    /\ counter' = reg[t] + 1
    /\ at' = [at EXCEPT ![t] = "unlock"]
    /\ UNCHANGED <<vars, is_acquired, spc, step, reg, i, failed>>

\* The last instruction of the unlock closes the iteration.
CallUnlock(t) ==
    /\ at[t] = "unlock"
    /\ UnlockStep(t)
    /\ \/ /\ ~Left(t)
          /\ UNCHANGED <<i, at>>
       \/ /\ Left(t)
          /\ i' = [i EXCEPT ![t] = @ + 1]
          /\ at' = [at EXCEPT ![t] = IF i[t] + 1 < Iterations THEN "lock" ELSE "done"]
    /\ UNCHANGED <<counter, step, reg, failed>>

increment_counter(t) ==
    CallLock(t) \/ LoadCounter(t) \/ StoreCounter(t) \/ CallUnlock(t)

-----------------------------------------------------------------------------
Interrupted(t) == FutexInterrupted(t) /\ UNCHANGED <<is_acquired, spc, testVars>>

\* "All tests completed!"
TestsOver == Completed /\ UNCHANGED allVars

TestNext ==
    \/ Main
    \/ \E t \in Workers : increment_counter(t) \/ Interrupted(t)
    \/ TestsOver

\* The operating system runs every runnable thread; nothing makes a wait return
\* spuriously.
TestSpec ==
    /\ TestInit
    /\ [][TestNext]_allVars
    /\ WF_allVars(Main)
    /\ \A t \in Workers : WF_allVars(increment_counter(t))

-----------------------------------------------------------------------------
(* Properties *)

\* No test prints FAILED: no increment is lost under either lock, and the
\* trylocks are refused and granted as the tests expect.
NoneFailed == failed = {}

SpinLockSpec == S!SpinLockSpec

\* The program comes to its last line: no sequence of sleeps, interrupted waits
\* and barging locks leaves a thread, or the main that joins it, waiting for
\* ever.
Termination == <>Completed
-----------------------------------------------------------------------------
(* The inductive invariant *)

\* Where a thread stands towards the lock under test.
Calls(t) ==
    IF t = main
    THEN CASE place \in {2, 10} -> "locking"
           [] place \in {3, 11} -> "inside"
           [] place \in {4, 12, 14} -> "unlocking"
           [] OTHER -> "outside"
    ELSE CASE at[t] = "lock" -> "locking"
           [] at[t] \in {"load", "store"} -> "inside"
           [] at[t] = "unlock" -> "unlocking"
           [] OTHER -> "outside"

SpinLabels(w) == IF w \in {"inside", "unlocking"} THEN {"cs"} ELSE {"idle"}
MutexLabels(w) ==
    CASE w = "locking" -> {"idle", "slow", "wait", "asleep", "retry"}
      [] w = "inside" -> {"cs"}
      [] w = "unlocking" -> {"cs", "unlock_store", "unlock_wake"}
      [] w = "outside" -> {"idle"}

\* The lock that is not under test is at rest.
InCalls(t) ==
    IF Spinning THEN spc[t] \in SpinLabels(Calls(t)) /\ pc[t] = "idle"
                ELSE pc[t] \in MutexLabels(Calls(t)) /\ spc[t] = "idle"

\* The workers live while main joins them; a register is only used while the
\* counter is what it was when it was loaded.
InLoop(t) ==
    /\ place # 8 => at[t] \in {"unborn", "done"}
    /\ place = 8 => at[t] # "unborn"
    /\ at[t] \in {"lock", "load", "store", "unlock"} => i[t] < Iterations
    /\ at[t] = "done" => i[t] = Iterations
    /\ at[t] = "store" => reg[t] = counter

\* The increments that the workers have made.
Increments ==
    {x \in Workers \X (1..Iterations) :
        x[2] <= IF at[x[1]] = "unlock" THEN i[x[1]] + 1 ELSE i[x[1]]}

CounterIs ==
    /\ place \in {1, 2, 3, 7} => counter = 0
    /\ place \in {4, 5} => counter = 1
    /\ place = 8 => counter = Cardinality(Increments)
    /\ Spinning /\ place > 8 => counter = 0

TestTypeOK ==
    /\ counter \in Nat
    /\ step \in 1..2 * Len(Tests) + 1
    /\ reg \in [Workers -> Nat]
    /\ i \in [Workers -> 0..Iterations]
    /\ at \in [Workers -> {"unborn", "lock", "load", "store", "unlock", "done"}]

TestInv ==
    /\ Inv /\ S!Inv
    /\ TestTypeOK
    /\ \A t \in Threads : InCalls(t)
    /\ \A t \in Workers : InLoop(t)
    /\ CounterIs
    /\ NoneFailed
=============================================================================
