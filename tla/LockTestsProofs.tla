--------------------------- MODULE LockTestsProofs ---------------------------
(***************************************************************************)
(* Proofs about the futex mutex, for any set of threads: its invariants,   *)
(* the absence of lost wake-ups and that it implements Lock.  Then proofs  *)
(* about the program of sync/2.4/tests.c, for any number of workers and    *)
(* iterations: it uses the two locks as their specifications require, and  *)
(* none of its tests can fail.                                             *)
(***************************************************************************)
EXTENDS LockTests, FiniteSetTheorems, TLAPS

SP == INSTANCE SpinLockProofs

-----------------------------------------------------------------------------
(* The futex mutex *)


\* mutex_init establishes the inductive invariant.
LEMMA InitInv == Init => Inv
  BY DEF Init, Inv, TypeOK, MutualExclusion, StateMatchesHolder, Holds, Labels

\* Every instruction of mutex_lock, mutex_trylock and mutex_unlock, and every
\* return of the futex call, preserves the inductive invariant.
LEMMA StepInv == Inv /\ [Next]_vars => Inv'
<1> SUFFICES ASSUME Inv, [Next]_vars PROVE Inv'
  OBVIOUS
<1> USE DEF Inv, TypeOK, MutualExclusion, StateMatchesHolder, Holds, Labels, Goto
<1>1. ASSUME NEW t \in Threads, LockFast(t) PROVE Inv'
  BY <1>1 DEF LockFast
<1>2. ASSUME NEW t \in Threads, LockSlow(t) PROVE Inv'
  BY <1>2 DEF LockSlow
<1>3. ASSUME NEW t \in Threads, FutexWait(t) PROVE Inv'
  BY <1>3 DEF FutexWait
<1>4. ASSUME NEW t \in Threads, FutexInterrupted(t) PROVE Inv'
  BY <1>4 DEF FutexInterrupted
<1>5. ASSUME NEW t \in Threads, LockRetry(t) PROVE Inv'
  BY <1>5 DEF LockRetry
<1>6. ASSUME NEW t \in Threads, TryLock(t) PROVE Inv'
  BY <1>6 DEF TryLock
<1>7. ASSUME NEW t \in Threads, UnlockSub(t) PROVE Inv'
  BY <1>7 DEF UnlockSub
<1>8. ASSUME NEW t \in Threads, UnlockStore(t) PROVE Inv'
  BY <1>8 DEF UnlockStore
<1>9. ASSUME NEW t \in Threads, UnlockWake(t) PROVE Inv'
  BY <1>9 DEF UnlockWake
<1>10. CASE UNCHANGED vars
  BY <1>10 DEF vars
<1> QED
  BY <1>1, <1>2, <1>3, <1>4, <1>5, <1>6, <1>7, <1>8, <1>9, <1>10
     DEF Next, Lock, Unlock

\* The word, the program counters and the locals keep their types: in
\* particular atomic_fetch_sub never takes the word below 0.
THEOREM TypeCorrect == Spec => []TypeOK
<1>1. Inv => TypeOK
  BY DEF Inv
<1> QED
  BY InitInv, StepInv, <1>1, PTL DEF Spec

\* Two threads never own the mutex at the same time.
THEOREM MutexExcludes == Spec => []MutualExclusion
<1>1. Inv => MutualExclusion
  BY DEF Inv
<1> QED
  BY InitInv, StepInv, <1>1, PTL DEF Spec

-----------------------------------------------------------------------------
\* No step strands the sleepers: a thread stops attending only by taking the
\* lock with the word at 2 or by waking one of them.
LEMMA StepNoStranded ==
  ASSUME Inv, NoStrandedWaiter, [Next]_vars
  PROVE  NoStrandedWaiter'
<1> USE DEF Inv, TypeOK, StateMatchesHolder, NoStrandedWaiter, Attends, Holds,
            Labels, Goto
<1>1. ASSUME NEW t \in Threads, LockFast(t) PROVE NoStrandedWaiter'
  BY <1>1 DEF LockFast
<1>2. ASSUME NEW t \in Threads, LockSlow(t) PROVE NoStrandedWaiter'
  BY <1>2 DEF LockSlow
<1>3. ASSUME NEW t \in Threads, FutexWait(t) PROVE NoStrandedWaiter'
  BY <1>3 DEF FutexWait
<1>4. ASSUME NEW t \in Threads, FutexInterrupted(t) PROVE NoStrandedWaiter'
  BY <1>4 DEF FutexInterrupted
<1>5. ASSUME NEW t \in Threads, LockRetry(t) PROVE NoStrandedWaiter'
  BY <1>5 DEF LockRetry
<1>6. ASSUME NEW t \in Threads, TryLock(t) PROVE NoStrandedWaiter'
  BY <1>6 DEF TryLock
<1>7. ASSUME NEW t \in Threads, UnlockSub(t) PROVE NoStrandedWaiter'
  BY <1>7 DEF UnlockSub
<1>8. ASSUME NEW t \in Threads, UnlockStore(t) PROVE NoStrandedWaiter'
  BY <1>8 DEF UnlockStore
<1>9. ASSUME NEW t \in Threads, UnlockWake(t) PROVE NoStrandedWaiter'
  BY <1>9 DEF UnlockWake
<1>10. CASE UNCHANGED vars
  BY <1>10 DEF vars
<1> QED
  BY <1>1, <1>2, <1>3, <1>4, <1>5, <1>6, <1>7, <1>8, <1>9, <1>10
     DEF Next, Lock, Unlock

\* No wake-up is lost: sleepers with an unmarked word always have a thread that
\* will mark the word or wake one of them.
THEOREM NoLostWakeup == Spec => []NoStrandedWaiter
<1>1. Init => NoStrandedWaiter
  BY DEF Init, NoStrandedWaiter
<1>2. Inv /\ NoStrandedWaiter /\ [Next]_vars => NoStrandedWaiter'
  BY StepNoStranded
<1> QED
  BY InitInv, StepInv, <1>1, <1>2, PTL DEF Spec

-----------------------------------------------------------------------------
\* The refinement mapping: the holder of the abstract lock is the one thread
\* that owns the mutex, or None.
LEMMA HolderIs ==
  ASSUME MutualExclusion
  PROVE  /\ \A t \in Threads : Holds(t) => holder = t
         /\ (\A t \in Threads : ~Holds(t)) => holder = None
  BY DEF MutualExclusion, holder

\* The same in the next state.
LEMMA HolderIsPrimed ==
  ASSUME MutualExclusion'
  PROVE  /\ \A t \in Threads : Holds(t)' => holder' = t
         /\ (\A t \in Threads : ~Holds(t)') => holder' = None
  BY DEF MutualExclusion, holder

\* An instruction that changes who owns the mutex acquires or releases the
\* abstract lock; any other one leaves it alone.
LEMMA StepRefines ==
  ASSUME Inv, Inv', [Next]_vars
  PROVE  [L!Next]_holder
<1> MutualExclusion /\ MutualExclusion'
  BY DEF Inv
<1>a. ASSUME NEW t \in Threads, \A u \in Threads : ~Holds(u), Holds(t)'
      PROVE  [L!Next]_holder
  BY <1>a, HolderIs, HolderIsPrimed DEF L!Next, L!Acquire
<1>b. ASSUME NEW t \in Threads, Holds(t), \A u \in Threads : ~Holds(u)'
      PROVE  [L!Next]_holder
  BY <1>b, HolderIs, HolderIsPrimed DEF L!Next, L!Release
<1>c. ASSUME \A u \in Threads : Holds(u) <=> Holds(u)'
      PROVE  [L!Next]_holder
  <2>1. CASE \E u \in Threads : Holds(u)
    BY <1>c, <2>1, HolderIs, HolderIsPrimed
  <2>2. CASE \A u \in Threads : ~Holds(u)
    BY <1>c, <2>2, HolderIs, HolderIsPrimed
  <2> QED
    BY <2>1, <2>2
<1> USE DEF Inv, TypeOK, StateMatchesHolder, Holds, Labels, Goto
<1>1. ASSUME NEW t \in Threads, LockFast(t) PROVE [L!Next]_holder
  <2>1. CASE state = 0
    BY <1>1, <2>1, <1>a DEF LockFast
  <2>2. CASE state # 0
    BY <1>1, <2>2, <1>c DEF LockFast
  <2> QED
    BY <2>1, <2>2
<1>2. ASSUME NEW t \in Threads, LockSlow(t) PROVE [L!Next]_holder
  BY <1>2, <1>c DEF LockSlow
<1>3. ASSUME NEW t \in Threads, FutexWait(t) PROVE [L!Next]_holder
  BY <1>3, <1>c DEF FutexWait
<1>4. ASSUME NEW t \in Threads, FutexInterrupted(t) PROVE [L!Next]_holder
  BY <1>4, <1>c DEF FutexInterrupted
<1>5. ASSUME NEW t \in Threads, LockRetry(t) PROVE [L!Next]_holder
  <2>1. CASE state = 0
    BY <1>5, <2>1, <1>a DEF LockRetry
  <2>2. CASE state # 0
    BY <1>5, <2>2, <1>c DEF LockRetry
  <2> QED
    BY <2>1, <2>2
<1>6. ASSUME NEW t \in Threads, TryLock(t) PROVE [L!Next]_holder
  <2>1. CASE state = 0
    BY <1>6, <2>1, <1>a DEF TryLock
  <2>2. CASE state # 0
    BY <1>6, <2>2, <1>c DEF TryLock
  <2> QED
    BY <2>1, <2>2
<1>7. ASSUME NEW t \in Threads, UnlockSub(t) PROVE [L!Next]_holder
  <2>1. CASE state = 1
    BY <1>7, <2>1, <1>b DEF UnlockSub
  <2>2. CASE state # 1
    BY <1>7, <2>2, <1>c DEF UnlockSub
  <2> QED
    BY <2>1, <2>2
<1>8. ASSUME NEW t \in Threads, UnlockStore(t) PROVE [L!Next]_holder
  BY <1>8, <1>b DEF UnlockStore
<1>9. ASSUME NEW t \in Threads, UnlockWake(t) PROVE [L!Next]_holder
  BY <1>9, <1>c DEF UnlockWake
<1>10. CASE UNCHANGED vars
  BY <1>10, <1>c DEF vars
<1> QED
  BY <1>1, <1>2, <1>3, <1>4, <1>5, <1>6, <1>7, <1>8, <1>9, <1>10
     DEF Next, Lock, Unlock

\* The futex mutex implements the abstract lock for every set of threads.
THEOREM MutexImplementsLock == Spec => LockSpec
<1>1. Init => L!Init
  BY DEF Init, L!Init, holder, Holds
<1>2. Inv /\ Inv' /\ [Next]_vars => [L!Next]_holder
  BY StepRefines
<1> QED
  BY InitInv, StepInv, <1>1, <1>2, PTL DEF Spec, LockSpec, L!Spec
-----------------------------------------------------------------------------
(* The tests: main's script *)

LEMMA TestsAre ==
  /\ Len(Tests) = 14
  /\ Tests[1] = "init" /\ Tests[2] = "lock" /\ Tests[3] = "inc" /\ Tests[4] = "unlock"
  /\ Tests[5] = "check 1" /\ Tests[6] = "init 0" /\ Tests[7] = "create" /\ Tests[8] = "join"
  /\ Tests[9] = "init" /\ Tests[10] = "lock" /\ Tests[11] = "try busy"
  /\ Tests[12] = "unlock" /\ Tests[13] = "try free" /\ Tests[14] = "unlock"
BY DEF Tests

\* The operation that main has come to, by its place.
LEMMA Places ==
  ASSUME TestTypeOK
  PROVE  /\ step \in 1..29 /\ place \in 1..15 /\ (Completed <=> place = 15)
         /\ Spinning <=> step <= 14
         /\ place = 15 => ~Spinning
         /\ At("init") <=> place \in {1, 9}
         /\ At("lock") <=> place \in {2, 10}
         /\ At("inc") <=> place = 3
         /\ At("unlock") <=> place \in {4, 12, 14}
         /\ At("check 1") <=> place = 5
         /\ At("init 0") <=> place = 6
         /\ At("create") <=> place = 7
         /\ At("join") <=> place = 8
         /\ At("try busy") <=> place = 11
         /\ At("try free") <=> place = 13
<1>0. Len(Tests) = 14
  BY TestsAre
<1>1. step \in 1..29 /\ (Spinning <=> step <= 14) /\ (Completed <=> step > 28)
  BY <1>0 DEF TestTypeOK, Spinning, Completed
<1>2. place = IF step <= 14 THEN step ELSE step - 14
  BY <1>0, <1>1 DEF place
<1>3. place \in 1..15 /\ (Completed <=> place = 15) /\ (place = 15 => ~Spinning)
  BY <1>1, <1>2
<1>4. ASSUME place \in 1..14 PROVE \A op : At(op) <=> Tests[place] = op
  BY <1>3, <1>4 DEF At
<1>5. CASE place = 15
  BY <1>1, <1>3, <1>5 DEF At
<1>6. CASE place \in 1..14
  <2> DEFINE p == place
  <2>1. \A op : At(op) <=> Tests[p] = op
    BY <1>4, <1>6
  <2>2. p \in {1, 2, 3, 4, 5, 6, 7, 8, 9, 10, 11, 12, 13, 14}
    BY <1>6
  <2> HIDE DEF p
  <2>3. /\ Tests[p] = "init" <=> p \in {1, 9}
        /\ Tests[p] = "lock" <=> p \in {2, 10}
        /\ Tests[p] = "inc" <=> p = 3
        /\ Tests[p] = "unlock" <=> p \in {4, 12, 14}
        /\ Tests[p] = "check 1" <=> p = 5
        /\ Tests[p] = "init 0" <=> p = 6
        /\ Tests[p] = "create" <=> p = 7
        /\ Tests[p] = "join" <=> p = 8
        /\ Tests[p] = "try busy" <=> p = 11
        /\ Tests[p] = "try free" <=> p = 13
    BY <2>2, TestsAre
  <2>4. /\ At("init") <=> Tests[p] = "init"
        /\ At("lock") <=> Tests[p] = "lock"
        /\ At("inc") <=> Tests[p] = "inc"
        /\ At("unlock") <=> Tests[p] = "unlock"
        /\ At("check 1") <=> Tests[p] = "check 1"
        /\ At("init 0") <=> Tests[p] = "init 0"
        /\ At("create") <=> Tests[p] = "create"
        /\ At("join") <=> Tests[p] = "join"
        /\ At("try busy") <=> Tests[p] = "try busy"
        /\ At("try free") <=> Tests[p] = "try free"
    BY <2>1, Zenon
  <2> QED
    BY <1>1, <1>3, <2>3, <2>4 DEF p
<1>7. place = 15 \/ place \in 1..14
  BY <1>3
<1> QED
  BY <1>5, <1>6, <1>7, Zenon

LEMMA Stays ==
  ASSUME step' = step
  PROVE  place' = place /\ (Spinning' <=> Spinning)
BY DEF place, Spinning

LEMMA Advances ==
  ASSUME TestTypeOK, ~Completed, step' = step + 1
  PROVE  /\ step' \in 1..2 * Len(Tests) + 1
         /\ place # 14 => place' = place + 1 /\ (Spinning' <=> Spinning)
         /\ place = 14 => ~Spinning' /\ place' = IF Spinning THEN 1 ELSE 15
<1>0. Len(Tests) = 14
  BY TestsAre
<1>1. step \in 1..28 /\ step' \in 2..29
  BY <1>0 DEF TestTypeOK, Completed
<1>2. /\ Spinning <=> step <= 14
      /\ Spinning' <=> step' <= 14
      /\ place = IF step <= 14 THEN step ELSE step - 14
      /\ place' = IF step' <= 14 THEN step' ELSE step' - 14
  BY <1>0 DEF Spinning, place
<1>3. step' \in 1..2 * Len(Tests) + 1
  BY <1>0, <1>1
<1> QED
  BY <1>1, <1>2, <1>3
-----------------------------------------------------------------------------
(* The tests use the locks as the specifications of the locks allow *)

LEMMA TestFacts ==
  ASSUME TestInv
  PROVE  /\ Inv /\ S!Inv /\ TestTypeOK /\ CounterIs /\ failed = {}
         /\ \A t \in Threads : InCalls(t) /\ pc[t] \in Labels
         /\ \A t \in Workers : InLoop(t) /\ t \in Threads /\ t # main
         /\ main \in Threads /\ state \in 0..2 /\ is_acquired \in {0, 1}
<1>1. state \in 0..2 /\ (\A t \in Threads : pc[t] \in Labels) /\ is_acquired \in {0, 1}
  BY DEF TestInv, Inv, TypeOK, S!Inv, S!TypeOK
<1> QED
  BY <1>1, TestsAssumption DEF TestInv, NoneFailed, Workers

\* Workers are outside the locks except while main joins them.
LEMMA WorkersRest ==
  ASSUME TestInv, place # 8, NEW t \in Workers
  PROVE  spc[t] = "idle" /\ pc[t] = "idle"
<1>1. InLoop(t) /\ InCalls(t) /\ t # main
  BY TestFacts
<1>2. Calls(t) = "outside"
  BY <1>1 DEF InLoop, Calls
<1>3. SpinLabels("outside") = {"idle"} /\ MutexLabels("outside") = {"idle"}
  BY DEF SpinLabels, MutexLabels
<1> QED
  BY <1>1, <1>2, <1>3 DEF InCalls

\* What main has done with the lock under test.
LEMMA MainCalls ==
  ASSUME TestInv
  PROVE  /\ Spinning => pc[main] = "idle"
         /\ ~Spinning => spc[main] = "idle"
         /\ place \in {1, 5, 6, 7, 8, 9, 13, 15} => spc[main] = "idle" /\ pc[main] = "idle"
         /\ place \in {2, 10} => /\ Spinning => spc[main] = "idle"
                                 /\ pc[main] \in {"idle", "slow", "wait", "asleep", "retry"}
         /\ place \in {3, 11} => /\ Spinning => spc[main] = "cs"
                                 /\ ~Spinning => pc[main] = "cs"
         /\ place \in {4, 12, 14} =>
                 /\ Spinning => spc[main] = "cs"
                 /\ ~Spinning => pc[main] \in {"cs", "unlock_store", "unlock_wake"}
<1>1. InCalls(main)
  BY TestFacts
<1>2. CASE place \in {1, 5, 6, 7, 8, 9, 13, 15}
  BY <1>1, <1>2 DEF InCalls, Calls, SpinLabels, MutexLabels
<1>3. CASE place \in {2, 10}
  BY <1>1, <1>3 DEF InCalls, Calls, SpinLabels, MutexLabels
<1>4. CASE place \in {3, 11}
  BY <1>1, <1>4 DEF InCalls, Calls, SpinLabels, MutexLabels
<1>5. CASE place \in {4, 12, 14}
  BY <1>1, <1>5 DEF InCalls, Calls, SpinLabels, MutexLabels
<1>6. place \in 1..15
  BY TestFacts, Places
<1> QED
  BY <1>1, <1>2, <1>3, <1>4, <1>5, <1>6 DEF InCalls

\* The lock is free when main initialises it and when main tries it the second
\* time, and taken when main tries it the first time.
LEMMA WordKnown ==
  ASSUME TestInv
  PROVE  /\ place \in {1, 6, 9, 13} => /\ Spinning => is_acquired = 0
                                       /\ ~Spinning => state = 0
         /\ place = 11 => /\ Spinning => is_acquired = 1
                          /\ ~Spinning => state # 0
<1>1. StateMatchesHolder /\ (is_acquired = 1 <=> \E t \in Threads : spc[t] = "cs")
  BY TestFacts DEF Inv, S!Inv
<1>2. main \in Threads /\ is_acquired \in {0, 1}
  BY TestFacts
<1>3. ASSUME place \in {1, 6, 9, 13}
      PROVE  \A t \in Threads : spc[t] = "idle" /\ pc[t] = "idle"
  BY <1>3, WorkersRest, MainCalls DEF Workers
<1> QED
  BY <1>1, <1>2, <1>3, MainCalls DEF StateMatchesHolder, Holds

\* Every step of the program is a step of each lock, or leaves it alone.
LEMMA TestStepIsNext ==
  ASSUME TestInv, [TestNext]_allVars
  PROVE  [Next]_vars /\ [S!Next]_<<is_acquired, spc>>
<1>0. main \in Threads /\ Workers \subseteq Threads /\ TestTypeOK
  BY TestFacts DEF Workers
<1> USE DEF Next, S!Next, vars
<1>1. CASE InitLock
  <2>1. place \in {1, 6, 9}
    BY <1>0, <1>1, Places DEF InitLock, Proceed
  <2>2. /\ Spinning => is_acquired = 0
        /\ ~Spinning => state = 0
    BY <2>1, WordKnown
  <2> QED
    BY <1>1, <2>2 DEF InitLock
<1>2. ASSUME NEW t \in Threads, LockStep(t)
      PROVE  [Next]_vars /\ [S!Next]_<<is_acquired, spc>>
  BY <1>2 DEF LockStep
<1>3. ASSUME NEW t \in Threads, UnlockStep(t)
      PROVE  [Next]_vars /\ [S!Next]_<<is_acquired, spc>>
  BY <1>3 DEF UnlockStep
<1>4. ASSUME NEW t \in Threads, TryStep(t)
      PROVE  [Next]_vars /\ [S!Next]_<<is_acquired, spc>>
  BY <1>4 DEF TryStep
<1>5. CASE MainLock
  BY <1>0, <1>2, <1>5 DEF MainLock
<1>6. CASE MainUnlock
  BY <1>0, <1>3, <1>6 DEF MainUnlock
<1>7. CASE MainTry
  BY <1>0, <1>4, <1>7 DEF MainTry
<1>8. CASE MainIncrement \/ CheckOne \/ CreateWorkers \/ JoinWorkers
  BY <1>8 DEF MainIncrement, CheckOne, CreateWorkers, JoinWorkers
<1>9. ASSUME NEW t \in Workers, increment_counter(t)
      PROVE  [Next]_vars /\ [S!Next]_<<is_acquired, spc>>
  <2>1. CASE CallLock(t)
    BY <1>0, <1>2, <2>1 DEF CallLock
  <2>2. CASE CallUnlock(t)
    BY <1>0, <1>3, <2>2 DEF CallUnlock
  <2>3. CASE LoadCounter(t) \/ StoreCounter(t)
    BY <2>3 DEF LoadCounter, StoreCounter
  <2> QED
    BY <1>9, <2>1, <2>2, <2>3 DEF increment_counter
<1>10. ASSUME NEW t \in Workers, Interrupted(t)
       PROVE  [Next]_vars /\ [S!Next]_<<is_acquired, spc>>
  BY <1>0, <1>10 DEF Interrupted
<1>11. CASE TestsOver \/ UNCHANGED allVars
  BY <1>11 DEF TestsOver, allVars
<1> QED
  BY <1>1, <1>5, <1>6, <1>7, <1>8, <1>9, <1>10, <1>11 DEF TestNext, Main

LEMMA LocksInv ==
  ASSUME TestInv, [TestNext]_allVars
  PROVE  Inv' /\ S!Inv'
<1>1. [Next]_vars /\ [S!Next]_<<is_acquired, spc>> /\ Inv /\ S!Inv
  BY TestStepIsNext, TestFacts
<1>2. Inv'
  BY <1>1, StepInv
<1>3. SP!Inv /\ [SP!Next]_SP!spinVars
  BY <1>1 DEF SP!Inv, S!Inv, SP!TypeOK, S!TypeOK, SP!Next, S!Next, SP!spinVars,
     SP!spinlock_lock, S!spinlock_lock, SP!spinlock_unlock, S!spinlock_unlock,
     SP!spinlock_trylock, S!spinlock_trylock, S!spinVars
<1>4. SP!Inv'
  BY <1>3, SP!StepInv
<1>5. S!Inv'
  BY <1>4 DEF SP!Inv, S!Inv, SP!TypeOK, S!TypeOK
<1> QED
  BY <1>2, <1>5
-----------------------------------------------------------------------------
(* The steps of main *)

\* A step of main outside the multi-threaded tests.
LEMMA MainMoves ==
  ASSUME TestInv, TestTypeOK', Inv' /\ S!Inv', place \notin {7, 8}, ~Completed,
         step' \in {step, step + 1}, at' = at, i' = i, failed' = failed,
         \A t \in Workers : pc'[t] = pc[t] /\ spc'[t] = spc[t],
         InCalls(main)', CounterIs'
  PROVE  TestInv'
<1>1. TestTypeOK /\ place \in 1..15
  BY TestFacts, Places
<1>2. place' # 8
  <2>1. CASE step' = step
    BY <2>1, Stays
  <2>2. CASE step' = step + 1
    <3>1. /\ place # 14 => place' = place + 1
          /\ place = 14 => place' = IF Spinning THEN 1 ELSE 15
      BY <1>1, <2>2, Advances
    <3> QED
      BY <1>1, <3>1
  <2> QED
    BY <2>1, <2>2
<1>3. ASSUME NEW t \in Workers PROVE InCalls(t)' /\ InLoop(t)'
  <2>1. InLoop(t) /\ t # main /\ at[t] \in {"unborn", "done"}
    BY TestFacts DEF InLoop
  <2>2. spc'[t] = "idle" /\ pc'[t] = "idle"
    BY WorkersRest
  <2>3. Calls(t)' = "outside"
    BY <2>1 DEF Calls
  <2>4. SpinLabels("outside") = {"idle"} /\ MutexLabels("outside") = {"idle"}
    BY DEF SpinLabels, MutexLabels
  <2>5. InCalls(t)'
    BY <2>2, <2>3, <2>4 DEF InCalls
  <2> QED
    BY <1>2, <2>1, <2>5 DEF InLoop
<1>4. \A t \in Threads : InCalls(t)'
  BY <1>3 DEF Workers
<1>5. NoneFailed'
  BY TestFacts DEF NoneFailed
<1> QED
  BY <1>3, <1>4, <1>5 DEF TestInv

\* What main knows of the counter outside the multi-threaded tests.
LEMMA CounterPlaces ==
  ASSUME TestInv, step' = step + 1, ~Completed, place \notin {7, 8},
         place \in {1, 2, 9, 10, 11, 12, 13, 14} => counter' = counter,
         place = 3 => counter' = counter + 1,
         place = 4 => counter' = counter,
         place \in {5, 6} => counter' = 0
  PROVE  CounterIs'
<1>1. TestTypeOK /\ place \in 1..15 /\ CounterIs /\ (Completed <=> place = 15)
  BY TestFacts, Places
<1>2. /\ place # 14 => place' = place + 1 /\ (Spinning' <=> Spinning)
      /\ place = 14 => ~Spinning' /\ place' = IF Spinning THEN 1 ELSE 15
  BY <1>1, Advances
<1>3. place \in {1, 2, 3, 4, 5, 6, 9, 10, 11, 12, 13, 14}
  BY <1>1
<1>4. place' \in {2, 3, 4, 5, 6, 7, 10, 11, 12, 13, 14, 15, 1} /\ place' # 8
  BY <1>2, <1>3
<1>5. CASE place = 14
  BY <1>1, <1>2, <1>5 DEF CounterIs
<1>6. CASE place # 14
  BY <1>1, <1>2, <1>3, <1>6 DEF CounterIs
<1> QED
  BY <1>5, <1>6

\* main's registers: what it calls next, after a step to the next operation.
LEMMA InitLockInv ==
  ASSUME TestInv, [TestNext]_allVars, InitLock
  PROVE  TestInv'
<1>1. TestTypeOK /\ place \in {1, 6, 9} /\ ~Completed /\ step' = step + 1
  BY TestFacts, Places DEF InitLock, Proceed, At
<1>2. /\ place' = place + 1 /\ (Spinning' <=> Spinning) /\ place' \in {2, 7, 10}
      /\ step' \in 1..2 * Len(Tests) + 1
  BY <1>1, Advances
<1>3. /\ UNCHANGED <<pc, c, spc, reg, i, at, failed>>
      /\ counter' = IF place = 6 THEN 0 ELSE counter
  <2>1. (At("init") <=> place \in {1, 9}) /\ (At("init 0") <=> place = 6)
    BY <1>1, Places
  <2>2. \/ At("init") /\ counter' = counter
        \/ At("init 0") /\ counter' = 0
    BY Zenon DEF InitLock, Proceed
  <2>3. UNCHANGED <<pc, c, spc, reg, i, at, failed>>
    BY Zenon DEF InitLock
  <2>4. CASE At("init") /\ counter' = counter
    <3>1. place \in {1, 9}
      BY <2>1, <2>4, Zenon
    <3> QED
      BY <2>3, <2>4, <3>1
  <2>5. CASE At("init 0") /\ counter' = 0
    <3>1. place = 6
      BY <2>1, <2>5, Zenon
    <3> QED
      BY <2>3, <2>5, <3>1
  <2> QED
    BY <2>2, <2>4, <2>5
<1>4. TestTypeOK'
  BY <1>1, <1>2, <1>3 DEF TestTypeOK
<1>5. CounterIs'
  BY <1>1, <1>3, CounterPlaces
<1>6. InCalls(main)'
  <2>1. spc[main] = "idle" /\ pc[main] = "idle"
    BY <1>1, MainCalls
  <2> QED
    BY <1>2, <1>3, <2>1 DEF InCalls, Calls, SpinLabels, MutexLabels
<1> QED
  BY <1>1, <1>3, <1>4, <1>5, <1>6, LocksInv, MainMoves

LEMMA CounterStays ==
  ASSUME TestInv, step' = step, place # 8, counter' = counter
  PROVE  CounterIs'
BY TestFacts, Stays DEF CounterIs

\* A call that main makes to the lock under test moves no other thread.
LEMMA AloneInLock ==
  ASSUME TestInv, [TestNext]_allVars, place # 8,
         LockStep(main) \/ UnlockStep(main) \/ TryStep(main)
  PROVE  \A t \in Workers : pc'[t] = pc[t] /\ spc'[t] = spc[t]
<1> SUFFICES ASSUME NEW t \in Workers PROVE pc'[t] = pc[t] /\ spc'[t] = spc[t]
  OBVIOUS
<1>1. t \in Threads /\ t # main /\ pc[t] = "idle" /\ spc[t] = "idle"
  BY TestFacts, WorkersRest
<1>2. pc \in [Threads -> Labels] /\ spc \in [Threads -> {"idle", "cs"}]
  BY TestFacts DEF Inv, TypeOK, S!Inv, S!TypeOK
<1>3. CASE LockStep(main)
  BY <1>1, <1>2, <1>3 DEF LockStep, S!spinlock_lock, Lock, LockFast, LockSlow, FutexWait,
     LockRetry, Goto, vars
<1>4. CASE TryStep(main)
  BY <1>1, <1>2, <1>4 DEF TryStep, S!spinlock_trylock, S!spinVars, TryLock, vars
<1>5. CASE UnlockStep(main)
  BY <1>1, <1>2, <1>5 DEF UnlockStep, S!spinlock_unlock, Unlock, UnlockSub, UnlockStore,
     UnlockWake, Goto, vars
<1> QED
  BY <1>3, <1>4, <1>5

LEMMA MainLockInv ==
  ASSUME TestInv, [TestNext]_allVars, MainLock
  PROVE  TestInv'
<1>1. /\ TestTypeOK /\ place \in {2, 10} /\ ~Completed /\ LockStep(main)
      /\ UNCHANGED <<counter, reg, i, at, failed>>
      /\ step' = IF Entered(main) THEN step + 1 ELSE step
      /\ step \in 1..2 * Len(Tests) + 1
  BY TestFacts, Places DEF MainLock, At, TestTypeOK
<1>2. pc \in [Threads -> Labels] /\ spc \in [Threads -> {"idle", "cs"}] /\ main \in Threads
  BY TestFacts DEF Inv, TypeOK, S!Inv, S!TypeOK
<1>3. \A t \in Workers : pc'[t] = pc[t] /\ spc'[t] = spc[t]
  BY <1>1, AloneInLock
<1>4. /\ Spinning => Entered(main) /\ spc'[main] = "cs" /\ pc' = pc /\ pc[main] = "idle"
      /\ ~Spinning => /\ spc'[main] = "idle"
                      /\ Entered(main) <=> pc'[main] = "cs"
                      /\ pc'[main] \in {"cs", "slow", "wait", "asleep", "retry"}
  BY <1>1, <1>2, MainCalls DEF Entered, LockStep, S!spinlock_lock, Lock, LockFast, LockSlow,
     FutexWait, LockRetry, Goto, vars
<1>5. CASE Entered(main)
  <2>1. /\ place' \in {3, 11} /\ (Spinning' <=> Spinning) /\ step' \in 1..2 * Len(Tests) + 1
        /\ step' = step + 1
    BY <1>1, <1>5, Advances
  <2>2. CounterIs'
    BY <1>1, <2>1, CounterPlaces
  <2>3. TestTypeOK'
    BY <1>1, <2>1 DEF TestTypeOK
  <2>4. InCalls(main)'
    BY <1>4, <1>5, <2>1 DEF InCalls, Calls, SpinLabels, MutexLabels
  <2> QED
    BY <1>1, <1>3, <2>1, <2>2, <2>3, <2>4, LocksInv, MainMoves
<1>6. CASE ~Entered(main)
  <2>1. place' = place /\ (Spinning' <=> Spinning) /\ step' = step
    BY <1>1, <1>6, Stays
  <2>2. CounterIs'
    BY <1>1, <2>1, CounterStays
  <2>3. TestTypeOK'
    BY <1>1, <2>1 DEF TestTypeOK
  <2>4. InCalls(main)'
    BY <1>1, <1>4, <1>6, <2>1 DEF InCalls, Calls, SpinLabels, MutexLabels
  <2> QED
    BY <1>1, <1>3, <2>1, <2>2, <2>3, <2>4, LocksInv, MainMoves
<1> QED
  BY <1>5, <1>6

LEMMA MainUnlockInv ==
  ASSUME TestInv, [TestNext]_allVars, MainUnlock
  PROVE  TestInv'
<1>1. /\ TestTypeOK /\ place \in {4, 12, 14} /\ ~Completed /\ UnlockStep(main)
      /\ UNCHANGED <<counter, reg, i, at, failed>>
      /\ step' = IF Left(main) THEN step + 1 ELSE step
      /\ step \in 1..2 * Len(Tests) + 1
  BY TestFacts, Places DEF MainUnlock, At, TestTypeOK
<1>2. pc \in [Threads -> Labels] /\ spc \in [Threads -> {"idle", "cs"}] /\ main \in Threads
  BY TestFacts DEF Inv, TypeOK, S!Inv, S!TypeOK
<1>3. \A t \in Workers : pc'[t] = pc[t] /\ spc'[t] = spc[t]
  BY <1>1, AloneInLock
<1>4. /\ Spinning => Left(main) /\ spc'[main] = "idle" /\ pc'[main] = "idle"
      /\ ~Spinning => /\ spc'[main] = "idle"
                      /\ Left(main) <=> pc'[main] = "idle"
                      /\ pc'[main] \in {"idle", "unlock_store", "unlock_wake"}
  <2>1. CASE Spinning
    BY <1>1, <1>2, <2>1, MainCalls DEF Left, UnlockStep, S!spinlock_unlock, vars
  <2>2. CASE ~Spinning
    <3>1. spc'[main] = "idle" /\ (Left(main) <=> pc'[main] = "idle")
      BY <1>1, <2>2, MainCalls DEF Left, UnlockStep
    <3>2. Unlock(main)
      BY <1>1, <2>2 DEF UnlockStep
    <3>3. CASE UnlockSub(main) \/ UnlockStore(main)
      BY <1>2, <3>1, <3>3, <2>2 DEF UnlockSub, UnlockStore, Goto
    <3>4. CASE UnlockWake(main)
      <4>1. pc'[main] = "idle"
        BY <1>2, <3>4 DEF UnlockWake
      <4> QED
        BY <3>1, <4>1, <2>2
    <3> QED
      BY <3>2, <3>3, <3>4 DEF Unlock
  <2> QED
    BY <2>1, <2>2
<1>5. CASE Left(main)
  <2>1. /\ place' \in {1, 5, 13, 15} /\ step' \in 1..2 * Len(Tests) + 1 /\ step' = step + 1
    BY <1>1, <1>5, Advances
  <2>2. CounterIs'
    BY <1>1, <2>1, CounterPlaces
  <2>3. TestTypeOK'
    BY <1>1, <2>1 DEF TestTypeOK
  <2>4. InCalls(main)'
    BY <1>4, <1>5, <2>1 DEF InCalls, Calls, SpinLabels, MutexLabels
  <2> QED
    BY <1>1, <1>3, <2>1, <2>2, <2>3, <2>4, LocksInv, MainMoves
<1>6. CASE ~Left(main)
  <2>1. place' = place /\ (Spinning' <=> Spinning) /\ step' = step
    BY <1>1, <1>6, Stays
  <2>2. CounterIs'
    BY <1>1, <2>1, CounterStays
  <2>3. TestTypeOK'
    BY <1>1, <2>1 DEF TestTypeOK
  <2>4. InCalls(main)'
    BY <1>1, <1>4, <1>6, <2>1 DEF InCalls, Calls, SpinLabels, MutexLabels
  <2> QED
    BY <1>1, <1>3, <2>1, <2>2, <2>3, <2>4, LocksInv, MainMoves
<1> QED
  BY <1>5, <1>6

\* counter++ of main, and the comparison with 1.
LEMMA MainCountsInv ==
  ASSUME TestInv, [TestNext]_allVars, MainIncrement \/ CheckOne
  PROVE  TestInv'
<1>1. TestTypeOK /\ ~Completed /\ step' = step + 1 /\ CounterIs /\ failed = {}
  BY TestFacts DEF MainIncrement, CheckOne, Proceed, At
<1>2. /\ UNCHANGED <<pc, spc, reg, i, at>>
      /\ \/ place = 3 /\ counter' = counter + 1 /\ failed' = failed
         \/ place = 5 /\ counter' = 0 /\ failed' = failed
  <2>1. CASE MainIncrement
    <3>1. At("inc")
      BY <2>1 DEF MainIncrement, Proceed
    <3>2. place = 3
      BY <1>1, <3>1, Places
    <3> QED
      BY <2>1, <3>2 DEF MainIncrement, vars
  <2>2. CASE CheckOne
    <3>1. At("check 1")
      BY <2>2 DEF CheckOne, Proceed
    <3>2. place = 5
      BY <1>1, <3>1, Places
    <3>3. counter = 1
      BY <1>1, <3>2 DEF CounterIs
    <3> QED
      BY <2>2, <3>2, <3>3 DEF CheckOne, Verdict, vars
  <2> QED
    BY <2>1, <2>2
<1>3. place' = place + 1 /\ (Spinning' <=> Spinning) /\ step' \in 1..2 * Len(Tests) + 1
  BY <1>1, <1>2, Advances
<1>4. CounterIs'
  BY <1>1, <1>2, CounterPlaces
<1>5. TestTypeOK'
  BY <1>1, <1>2, <1>3 DEF TestTypeOK
<1>6. InCalls(main)'
  <2>1. place' \in {4, 6}
    BY <1>2, <1>3
  <2>2. CASE place = 3
    <3>1. place' = 4
      BY <1>3, <2>2
    <3> QED
      BY <1>2, <1>3, <2>2, <3>1, MainCalls DEF InCalls, Calls, SpinLabels, MutexLabels
  <2>3. CASE place = 5
    <3>1. place' = 6
      BY <1>3, <2>3
    <3> QED
      BY <1>2, <1>3, <2>3, <3>1, MainCalls DEF InCalls, Calls, SpinLabels, MutexLabels
  <2> QED
    BY <1>2, <2>2, <2>3
<1> QED
  BY <1>1, <1>2, <1>4, <1>5, <1>6, LocksInv, MainMoves

\* The trylocks are refused and granted as the tests expect.
LEMMA MainTryInv ==
  ASSUME TestInv, [TestNext]_allVars, MainTry
  PROVE  TestInv'
<1>1. /\ TestTypeOK /\ ~Completed /\ step' = step + 1 /\ failed = {} /\ TryStep(main)
      /\ UNCHANGED <<counter, reg, i, at>>
  BY TestFacts DEF MainTry, Proceed, At
<1>2. pc \in [Threads -> Labels] /\ spc \in [Threads -> {"idle", "cs"}] /\ main \in Threads
  BY TestFacts DEF Inv, TypeOK, S!Inv, S!TypeOK
<1>3. /\ place \in {11, 13} /\ failed' = failed
      /\ Spinning => spc'[main] = "cs" /\ pc' = pc /\ pc[main] = "idle"
      /\ ~Spinning => pc'[main] = "cs" /\ spc' = spc /\ spc[main] = "idle"
  <2>1. CASE At("try busy") /\ Verdict(UNCHANGED <<state, is_acquired>>)
    <3>1. place = 11
      BY <1>1, <2>1, Places
    <3>2. /\ Spinning => is_acquired = 1 /\ spc[main] = "cs" /\ pc[main] = "idle"
          /\ ~Spinning => state # 0 /\ pc[main] = "cs" /\ spc[main] = "idle"
      BY <3>1, WordKnown, MainCalls
    <3>3. UNCHANGED <<state, is_acquired, pc, spc>>
      BY <1>1, <3>2 DEF TryStep, S!spinlock_trylock, S!spinVars, TryLock, vars
    <3>4. failed' = failed
      BY <2>1, <3>3 DEF Verdict
    <3> QED
      BY <3>1, <3>2, <3>3, <3>4
  <2>2. CASE At("try free") /\ Verdict(Entered(main))
    <3>1. place = 13
      BY <1>1, <2>2, Places
    <3>2. /\ Spinning => is_acquired = 0 /\ pc[main] = "idle"
          /\ ~Spinning => state = 0 /\ spc[main] = "idle"
      BY <3>1, WordKnown, MainCalls
    <3>3. /\ Spinning => spc'[main] = "cs" /\ pc' = pc
          /\ ~Spinning => pc'[main] = "cs" /\ spc' = spc
      BY <1>1, <1>2, <3>2 DEF TryStep, S!spinlock_trylock, S!spinVars, TryLock, vars
    <3>4. failed' = failed
      BY <2>2, <3>3 DEF Verdict, Entered
    <3> QED
      BY <3>1, <3>2, <3>3, <3>4
  <2> QED
    BY <2>1, <2>2 DEF MainTry, Proceed
<1>4. /\ place' \in {12, 14} /\ (Spinning' <=> Spinning) /\ step' \in 1..2 * Len(Tests) + 1
  BY <1>1, <1>3, Advances
<1>5. CounterIs'
  BY <1>1, <1>3, CounterPlaces
<1>6. TestTypeOK'
  BY <1>1, <1>4 DEF TestTypeOK
<1>7. InCalls(main)'
  BY <1>3, <1>4 DEF InCalls, Calls, SpinLabels, MutexLabels
<1>8. \A t \in Workers : pc'[t] = pc[t] /\ spc'[t] = spc[t]
  BY <1>1, <1>3, AloneInLock
<1> QED
  BY <1>1, <1>3, <1>5, <1>6, <1>7, <1>8, LocksInv, MainMoves

LEMMA CreateWorkersInv ==
  ASSUME TestInv, [TestNext]_allVars, CreateWorkers
  PROVE  TestInv'
<1>1. /\ TestTypeOK /\ ~Completed /\ step' = step + 1 /\ failed = {} /\ CounterIs
      /\ UNCHANGED <<pc, spc, counter, reg, failed>>
      /\ at' = [t \in Workers |-> "lock"] /\ i' = [t \in Workers |-> 0]
  BY TestFacts DEF CreateWorkers, Proceed, At, vars
<1>2. place = 7
  <2>1. At("create")
    BY DEF CreateWorkers, Proceed
  <2> QED
    BY <1>1, <2>1, Places
<1>3. place' = 8 /\ (Spinning' <=> Spinning) /\ step' \in 1..2 * Len(Tests) + 1
  BY <1>1, <1>2, Advances
<1>4. TestTypeOK'
  BY <1>1, <1>3, TestsAssumption DEF TestTypeOK
<1>5. CounterIs'
  <2>1. counter' = 0
    BY <1>1, <1>2 DEF CounterIs
  <2>2. Increments' = {}
    BY <1>1, TestsAssumption DEF Increments
  <2>3. Cardinality(Increments') = 0
    BY <2>2, FS_EmptySet
  <2> QED
    BY <1>3, <2>1, <2>3 DEF CounterIs
<1>6. ASSUME NEW t \in Workers PROVE InCalls(t)' /\ InLoop(t)'
  <2>1. t # main /\ pc[t] = "idle" /\ spc[t] = "idle"
    BY <1>2, TestFacts, WorkersRest
  <2>2. at'[t] = "lock" /\ i'[t] = 0
    BY <1>1
  <2>3. InCalls(t)'
    BY <1>1, <1>3, <2>1, <2>2 DEF InCalls, Calls, SpinLabels, MutexLabels
  <2> QED
    BY <1>3, <2>2, <2>3, TestsAssumption DEF InLoop
<1>7. InCalls(main)'
  BY <1>1, <1>2, <1>3, MainCalls DEF InCalls, Calls, SpinLabels, MutexLabels
<1>8. \A t \in Threads : InCalls(t)'
  BY <1>6, <1>7 DEF Workers
<1>9. NoneFailed'
  BY <1>1 DEF NoneFailed
<1> QED
  BY <1>4, <1>5, <1>6, <1>8, <1>9, LocksInv DEF TestInv

\* When every worker has returned, every increment is in the counter.
LEMMA AllCounted ==
  ASSUME TestInv, place = 8, \A t \in Workers : at[t] = "done"
  PROVE  counter = Cardinality(Workers) * Iterations
<1>1. \A t \in Workers : i[t] = Iterations
  BY TestFacts DEF InLoop
<1>2. Increments = Workers \X (1..Iterations)
  BY <1>1, TestsAssumption DEF Increments
<1>3. IsFiniteSet(Workers)
  BY TestsAssumption, FS_Subset DEF Workers
<1>4. IsFiniteSet(1..Iterations) /\ Cardinality(1..Iterations) = Iterations
  BY TestsAssumption, FS_Interval
<1>5. Cardinality(Workers \X (1..Iterations)) = Cardinality(Workers) * Iterations
  BY <1>3, <1>4, FS_Product
<1> QED
  BY <1>2, <1>5, TestFacts DEF CounterIs

LEMMA JoinWorkersInv ==
  ASSUME TestInv, [TestNext]_allVars, JoinWorkers
  PROVE  TestInv'
<1>1. /\ TestTypeOK /\ ~Completed /\ step' = step + 1 /\ failed = {}
      /\ UNCHANGED <<pc, spc, reg, i, at>>
      /\ counter' = IF Spinning THEN 0 ELSE counter
      /\ \A t \in Workers : at[t] = "done"
  BY TestFacts DEF JoinWorkers, Proceed, At, vars
<1>2. place = 8
  <2>1. At("join")
    BY DEF JoinWorkers, Proceed
  <2> QED
    BY <1>1, <2>1, Places
<1>3. place' = 9 /\ (Spinning' <=> Spinning) /\ step' \in 1..2 * Len(Tests) + 1
  BY <1>1, <1>2, Advances
<1>4. failed' = failed
  <2>1. counter = Cardinality(Workers) * Iterations
    BY <1>1, <1>2, AllCounted
  <2> QED
    BY <2>1 DEF JoinWorkers, Verdict
<1>5. TestTypeOK'
  BY <1>1, <1>3 DEF TestTypeOK
<1>6. CounterIs'
  BY <1>1, <1>3 DEF CounterIs
<1>7. ASSUME NEW t \in Workers PROVE InCalls(t)' /\ InLoop(t)'
  <2>1. t # main /\ InCalls(t) /\ InLoop(t) /\ at[t] = "done" /\ at'[t] = "done"
    BY <1>1, TestFacts
  <2>2. InCalls(t)'
    BY <1>1, <1>3, <2>1 DEF InCalls, Calls
  <2> QED
    BY <1>1, <1>3, <2>1, <2>2 DEF InLoop
<1>8. InCalls(main)'
  BY <1>1, <1>2, <1>3, MainCalls DEF InCalls, Calls, SpinLabels, MutexLabels
<1>9. \A t \in Threads : InCalls(t)'
  BY <1>7, <1>8 DEF Workers
<1>10. NoneFailed'
  BY <1>1, <1>4 DEF NoneFailed
<1> QED
  BY <1>5, <1>6, <1>7, <1>9, <1>10, LocksInv DEF TestInv
-----------------------------------------------------------------------------
(* The steps of the workers *)

\* A worker that is not outside runs while main joins.
LEMMA WorkerRuns ==
  ASSUME TestInv, NEW t \in Workers, at[t] \notin {"unborn", "done"}
  PROVE  /\ place = 8 /\ ~Completed /\ t \in Threads /\ t # main /\ TestTypeOK
         /\ i[t] \in 0..Iterations /\ i[t] < Iterations
         /\ i \in [Workers -> 0..Iterations] /\ reg \in [Workers -> Nat] /\ counter \in Nat
         /\ at \in [Workers -> {"unborn", "lock", "load", "store", "unlock", "done"}]
         /\ counter = Cardinality(Increments)
<1>1. /\ TestTypeOK /\ InLoop(t) /\ CounterIs /\ (Completed <=> place = 15)
      /\ t \in Threads /\ t # main
  BY TestFacts, Places
<1>2. /\ i \in [Workers -> 0..Iterations] /\ reg \in [Workers -> Nat] /\ counter \in Nat
      /\ at \in [Workers -> {"unborn", "lock", "load", "store", "unlock", "done"}]
  BY <1>1 DEF TestTypeOK
<1>3. place = 8 /\ i[t] < Iterations
  BY <1>1, <1>2 DEF InLoop
<1> QED
  BY <1>1, <1>2, <1>3 DEF CounterIs

\* A step of t, which may wake a sleeper.
LEMMA WorkerMoves ==
  ASSUME TestInv, [TestNext]_allVars, NEW t \in Workers, place = 8, step' = step,
         TestTypeOK', failed' = failed,
         \A u \in Threads \ {t} :
            /\ spc'[u] = spc[u]
            /\ pc'[u] = pc[u] \/ (pc[u] = "asleep" /\ pc'[u] = "retry"),
         \A u \in Workers \ {t} : at'[u] = at[u] /\ i'[u] = i[u] /\ reg'[u] = reg[u],
         \A u \in Workers \ {t} : at[u] = "store" => counter' = counter,
         InCalls(t)', InLoop(t)', counter' = Cardinality(Increments')
  PROVE  TestInv'
<1>1. place' = place /\ (Spinning' <=> Spinning)
  BY Stays
<1>2. ASSUME NEW u \in Threads, u # t PROVE InCalls(u)'
  <2>1. InCalls(u)
    BY TestFacts
  <2>2. Calls(u)' = Calls(u)
    BY <1>1, <1>2 DEF Calls, Workers
  <2>3. CASE pc'[u] = pc[u]
    BY <1>1, <1>2, <2>1, <2>2, <2>3 DEF InCalls
  <2>4. CASE pc[u] = "asleep" /\ pc'[u] = "retry"
    <3>1. ~Spinning /\ pc[u] \in MutexLabels(Calls(u)) /\ spc[u] = "idle"
      BY <2>1, <2>4 DEF InCalls
    <3>2. "retry" \in MutexLabels(Calls(u))
      <4>1. Calls(u) \in {"locking", "inside", "unlocking", "outside"}
        BY DEF Calls
      <4> QED
        BY <2>4, <3>1, <4>1 DEF MutexLabels
    <3> QED
      BY <1>1, <1>2, <2>2, <2>4, <3>1, <3>2 DEF InCalls
  <2> QED
    BY <1>2, <2>3, <2>4
<1>3. ASSUME NEW u \in Workers, u # t PROVE InLoop(u)'
  <2>1. InLoop(u)
    BY TestFacts
  <2> QED
    BY <1>1, <1>3, <2>1 DEF InLoop
<1>4. CounterIs'
  BY <1>1 DEF CounterIs
<1>5. NoneFailed'
  BY TestFacts DEF NoneFailed
<1>6. (\A u \in Threads : InCalls(u)') /\ (\A u \in Workers : InLoop(u)')
  BY <1>2, <1>3
<1> QED
  BY <1>4, <1>5, <1>6, LocksInv DEF TestInv

LEMMA CallLockInv ==
  ASSUME TestInv, [TestNext]_allVars, NEW t \in Workers, CallLock(t)
  PROVE  TestInv'
<1>1. /\ at[t] = "lock" /\ LockStep(t)
      /\ at' = [at EXCEPT ![t] = IF Entered(t) THEN "load" ELSE "lock"]
      /\ UNCHANGED <<counter, step, reg, i, failed>>
  BY DEF CallLock
<1>2. /\ place = 8 /\ t \in Threads /\ t # main /\ TestTypeOK
      /\ at \in [Workers -> {"unborn", "lock", "load", "store", "unlock", "done"}]
      /\ counter = Cardinality(Increments)
  BY <1>1, WorkerRuns
<1>3. pc \in [Threads -> Labels] /\ spc \in [Threads -> {"idle", "cs"}]
  BY TestFacts DEF Inv, TypeOK, S!Inv, S!TypeOK
<1>4. \A u \in Threads \ {t} : pc'[u] = pc[u] /\ spc'[u] = spc[u]
  BY <1>1, <1>2, <1>3 DEF LockStep, S!spinlock_lock, Lock, LockFast, LockSlow, FutexWait,
     LockRetry, Goto, vars
<1>5. Calls(t) = "locking" /\ InCalls(t)
  BY <1>1, <1>2, TestFacts DEF Calls
<1>6. /\ Spinning => pc[t] = "idle"
      /\ ~Spinning => spc[t] = "idle" /\ pc[t] \in {"idle", "slow", "wait", "asleep", "retry"}
  BY <1>5 DEF InCalls, MutexLabels
<1>7. /\ Spinning => Entered(t) /\ spc'[t] = "cs" /\ pc'[t] = "idle"
      /\ ~Spinning => /\ spc'[t] = "idle"
                      /\ Entered(t) <=> pc'[t] = "cs"
                      /\ pc'[t] \in {"cs", "slow", "wait", "asleep", "retry"}
  BY <1>1, <1>2, <1>3, <1>6 DEF Entered, LockStep, S!spinlock_lock, Lock, LockFast, LockSlow,
     FutexWait, LockRetry, Goto, vars
<1>8. place' = place /\ (Spinning' <=> Spinning)
  BY <1>1, Stays
<1>9. TestTypeOK'
  BY <1>1, <1>2 DEF TestTypeOK
<1>10. InCalls(t)'
  <2>1. at'[t] = IF Entered(t) THEN "load" ELSE "lock"
    BY <1>1, <1>2
  <2> QED
    BY <1>2, <1>7, <1>8, <2>1 DEF InCalls, Calls, SpinLabels, MutexLabels
<1>11. InLoop(t)'
  <2>1. InLoop(t) /\ at'[t] \in {"load", "lock"}
    BY <1>1, <1>2, TestFacts
  <2> QED
    BY <1>1, <1>8, <2>1 DEF InLoop
<1>12. Increments' = Increments
  BY <1>1, <1>2 DEF Increments
<1> QED
  BY <1>1, <1>2, <1>4, <1>9, <1>10, <1>11, <1>12, WorkerMoves

\* The load of the counter: the register is right.
LEMMA LoadCounterInv ==
  ASSUME TestInv, [TestNext]_allVars, NEW t \in Workers, LoadCounter(t)
  PROVE  TestInv'
<1>1. /\ at[t] = "load" /\ reg' = [reg EXCEPT ![t] = counter]
      /\ at' = [at EXCEPT ![t] = "store"]
      /\ UNCHANGED <<pc, spc, counter, step, i, failed>>
  BY DEF LoadCounter, vars
<1>2. /\ place = 8 /\ t \in Threads /\ t # main /\ TestTypeOK /\ counter \in Nat
      /\ at \in [Workers -> {"unborn", "lock", "load", "store", "unlock", "done"}]
      /\ reg \in [Workers -> Nat] /\ counter = Cardinality(Increments)
  BY <1>1, WorkerRuns
<1>3. place' = place /\ (Spinning' <=> Spinning)
  BY <1>1, Stays
<1>4. TestTypeOK'
  BY <1>1, <1>2 DEF TestTypeOK
<1>5. InCalls(t)'
  <2>1. InCalls(t) /\ Calls(t)' = Calls(t)
    BY <1>1, <1>2, TestFacts DEF Calls
  <2> QED
    BY <1>1, <1>3, <2>1 DEF InCalls
<1>6. InLoop(t)'
  <2>1. InLoop(t) /\ at'[t] = "store" /\ reg'[t] = counter
    BY <1>1, <1>2, TestFacts
  <2> QED
    BY <1>1, <1>3, <2>1 DEF InLoop
<1>7. Increments' = Increments
  BY <1>1, <1>2 DEF Increments
<1> QED
  BY <1>1, <1>2, <1>4, <1>5, <1>6, <1>7, WorkerMoves

\* Two workers are never both between the load and the store.
LEMMA OneStores ==
  ASSUME TestInv, NEW t \in Workers, NEW u \in Workers, at[t] = "store", at[u] = "store"
  PROVE  t = u
<1>1. /\ InCalls(t) /\ InCalls(u) /\ t \in Threads /\ u \in Threads
      /\ t # main /\ u # main /\ Inv /\ S!Inv
  BY TestFacts
<1>2. Calls(t) = "inside" /\ Calls(u) = "inside"
  BY <1>1 DEF Calls
<1>3. CASE Spinning
  BY <1>1, <1>2, <1>3 DEF InCalls, SpinLabels, S!Inv
<1>4. CASE ~Spinning
  BY <1>1, <1>2, <1>4 DEF InCalls, MutexLabels, Inv, MutualExclusion, Holds
<1> QED
  BY <1>3, <1>4

\* The store loses no increment of another worker.
LEMMA StoreCounterInv ==
  ASSUME TestInv, [TestNext]_allVars, NEW t \in Workers, StoreCounter(t)
  PROVE  TestInv'
<1>1. /\ at[t] = "store" /\ counter' = reg[t] + 1
      /\ at' = [at EXCEPT ![t] = "unlock"]
      /\ UNCHANGED <<pc, spc, step, reg, i, failed>>
  BY DEF StoreCounter, vars
<1>2. /\ place = 8 /\ t \in Threads /\ t # main /\ TestTypeOK /\ counter \in Nat
      /\ at \in [Workers -> {"unborn", "lock", "load", "store", "unlock", "done"}]
      /\ reg \in [Workers -> Nat] /\ counter = Cardinality(Increments)
      /\ i \in [Workers -> 0..Iterations] /\ i[t] < Iterations
  BY <1>1, WorkerRuns
<1>3. place' = place /\ (Spinning' <=> Spinning)
  BY <1>1, Stays
<1>4. TestTypeOK'
  BY <1>1, <1>2 DEF TestTypeOK
<1>5. InCalls(t)'
  <2>1. InCalls(t) /\ Calls(t) = "inside" /\ Calls(t)' = "unlocking"
    BY <1>1, <1>2, TestFacts DEF Calls
  <2> QED
    BY <1>1, <1>3, <2>1 DEF InCalls, SpinLabels, MutexLabels
<1>6. InLoop(t)'
  <2>1. InLoop(t) /\ at'[t] = "unlock"
    BY <1>1, <1>2, TestFacts
  <2> QED
    BY <1>1, <1>3, <2>1 DEF InLoop
<1>7. counter' = Cardinality(Increments')
  <2> DEFINE x == <<t, i[t] + 1>>
  <2>1. reg[t] = counter
    BY <1>1, TestFacts DEF InLoop
  <2>2. Iterations \in Nat /\ i[t] \in Nat /\ i[t] + 1 \in 1..Iterations
    BY <1>2, TestsAssumption
  <2>3. x \in Workers \X (1..Iterations) /\ x \notin Increments
    BY <1>1, <2>2 DEF Increments
  <2>4. Increments' = Increments \cup {x}
    <3>1. ASSUME NEW u \in Workers, NEW k \in 1..Iterations
          PROVE  <<u, k>> \in Increments' <=> <<u, k>> \in Increments \/ <<u, k>> = x
      <4>1. CASE u = t
        BY <1>1, <1>2, <2>2, <4>1 DEF Increments
      <4>2. CASE u # t
        BY <1>1, <1>2, <4>2 DEF Increments
      <4> QED
        BY <4>1, <4>2
    <3>2. Increments \subseteq Workers \X (1..Iterations) /\
          Increments' \subseteq Workers \X (1..Iterations)
      BY DEF Increments
    <3> QED
      BY <2>3, <3>1, <3>2
  <2>5. IsFiniteSet(Increments)
    <3>1. IsFiniteSet(Workers) /\ IsFiniteSet(1..Iterations)
      BY TestsAssumption, FS_Subset, FS_Interval DEF Workers
    <3>2. IsFiniteSet(Workers \X (1..Iterations))
      BY <3>1, FS_Product
    <3>3. Increments \subseteq Workers \X (1..Iterations)
      BY DEF Increments
    <3> QED
      BY <3>2, <3>3, FS_Subset
  <2>6. Cardinality(Increments \cup {x}) = Cardinality(Increments) + 1
    BY <2>3, <2>5, FS_AddElement
  <2> QED
    BY <1>1, <1>2, <2>1, <2>4, <2>6
<1>8. \A u \in Workers \ {t} : at[u] # "store"
  BY <1>1, OneStores
<1> QED
  BY <1>1, <1>2, <1>4, <1>5, <1>6, <1>7, <1>8, WorkerMoves

\* The unlock closes the iteration.
LEMMA CallUnlockInv ==
  ASSUME TestInv, [TestNext]_allVars, NEW t \in Workers, CallUnlock(t)
  PROVE  TestInv'
<1>1. at[t] = "unlock" /\ UnlockStep(t) /\ UNCHANGED <<counter, step, reg, failed>>
  BY DEF CallUnlock
<1>2. /\ place = 8 /\ t \in Threads /\ t # main /\ TestTypeOK
      /\ at \in [Workers -> {"unborn", "lock", "load", "store", "unlock", "done"}]
      /\ counter = Cardinality(Increments)
      /\ i \in [Workers -> 0..Iterations] /\ i[t] < Iterations
  BY <1>1, WorkerRuns
<1>3. pc \in [Threads -> Labels] /\ spc \in [Threads -> {"idle", "cs"}]
  BY TestFacts DEF Inv, TypeOK, S!Inv, S!TypeOK
<1>4. Calls(t) = "unlocking" /\ InCalls(t)
  BY <1>1, <1>2, TestFacts DEF Calls
<1>5. /\ Spinning => pc[t] = "idle"
      /\ ~Spinning => spc[t] = "idle" /\ pc[t] \in {"cs", "unlock_store", "unlock_wake"}
  BY <1>4 DEF InCalls, MutexLabels
<1>6. /\ \A u \in Threads \ {t} :
            /\ spc'[u] = spc[u]
            /\ pc'[u] = pc[u] \/ (pc[u] = "asleep" /\ pc'[u] = "retry")
      /\ Spinning => Left(t) /\ spc'[t] = "idle" /\ pc'[t] = "idle"
      /\ ~Spinning => /\ spc'[t] = "idle"
                      /\ Left(t) <=> pc'[t] = "idle"
                      /\ pc'[t] \in {"idle", "unlock_store", "unlock_wake"}
  <2>1. CASE Spinning
    BY <1>1, <1>2, <1>3, <1>5, <2>1 DEF Left, UnlockStep, S!spinlock_unlock, vars
  <2>2. CASE ~Spinning
    <3>1. Unlock(t) /\ UNCHANGED <<is_acquired, spc>>
      BY <1>1, <2>2 DEF UnlockStep
    <3>2. /\ pc'[t] \in {"idle", "unlock_store", "unlock_wake"}
          /\ \A u \in Threads \ {t} :
                pc'[u] = pc[u] \/ (pc[u] = "asleep" /\ pc'[u] = "retry")
      <4>1. CASE UnlockSub(t) \/ UnlockStore(t)
        BY <1>2, <1>3, <4>1 DEF UnlockSub, UnlockStore, Goto
      <4>2. CASE UnlockWake(t)
        BY <1>2, <1>3, <4>2 DEF UnlockWake
      <4> QED
        BY <3>1, <4>1, <4>2 DEF Unlock
    <3> QED
      BY <1>5, <2>2, <3>1, <3>2 DEF Left
  <2> QED
    BY <2>1, <2>2
<1>7. place' = place /\ (Spinning' <=> Spinning)
  BY <1>1, Stays
<1>8. CASE ~Left(t)
  <2>1. UNCHANGED <<i, at>>
    BY <1>8 DEF CallUnlock
  <2>2. TestTypeOK'
    BY <1>1, <1>2, <2>1 DEF TestTypeOK
  <2>3. InCalls(t)'
    BY <1>1, <1>2, <1>6, <1>7, <1>8, <2>1 DEF InCalls, Calls, SpinLabels, MutexLabels
  <2>4. InLoop(t)'
    BY <1>1, <1>7, <2>1, TestFacts DEF InLoop
  <2>5. Increments' = Increments
    BY <2>1 DEF Increments
  <2> QED
    BY <1>1, <1>2, <1>6, <2>1, <2>2, <2>3, <2>4, <2>5, WorkerMoves
<1>9. CASE Left(t)
  <2>1. /\ i' = [i EXCEPT ![t] = @ + 1]
        /\ at' = [at EXCEPT ![t] = IF i[t] + 1 < Iterations THEN "lock" ELSE "done"]
    BY <1>9 DEF CallUnlock
  <2>2. /\ i[t] + 1 \in 0..Iterations /\ i'[t] = i[t] + 1 /\ i[t] \in Nat /\ Iterations \in Nat
        /\ at'[t] = IF i[t] + 1 < Iterations THEN "lock" ELSE "done"
    BY <1>2, <2>1, TestsAssumption
  <2>3. TestTypeOK'
    BY <1>1, <1>2, <2>1, <2>2 DEF TestTypeOK
  <2>4. InCalls(t)'
    BY <1>2, <1>6, <1>7, <1>9, <2>2 DEF InCalls, Calls, SpinLabels, MutexLabels
  <2>5. InLoop(t)'
    BY <1>2, <1>7, <2>2 DEF InLoop
  <2>6. Increments' = Increments
    <3>1. ASSUME NEW u \in Workers, NEW k \in 1..Iterations
          PROVE  <<u, k>> \in Increments' <=> <<u, k>> \in Increments
      <4>1. CASE u = t
        BY <1>1, <2>2, <4>1 DEF Increments
      <4>2. CASE u # t
        BY <1>2, <2>1, <4>2 DEF Increments
      <4> QED
        BY <4>1, <4>2
    <3>2. Increments \subseteq Workers \X (1..Iterations) /\
          Increments' \subseteq Workers \X (1..Iterations)
      BY DEF Increments
    <3> QED
      BY <3>1, <3>2
  <2>7. \A u \in Workers \ {t} : at'[u] = at[u] /\ i'[u] = i[u]
    BY <1>2, <2>1
  <2> QED
    BY <1>1, <1>2, <1>6, <2>3, <2>4, <2>5, <2>6, <2>7, WorkerMoves
<1> QED
  BY <1>8, <1>9

\* A wait that returns early: the thread tries again.
LEMMA InterruptedInv ==
  ASSUME TestInv, [TestNext]_allVars, NEW t \in Workers, Interrupted(t)
  PROVE  TestInv'
<1>1. /\ pc[t] = "asleep" /\ pc' = [pc EXCEPT ![t] = "retry"]
      /\ UNCHANGED <<spc, counter, step, reg, i, at, failed>>
  BY DEF Interrupted, FutexInterrupted, Goto, testVars
<1>2. t \in Threads /\ t # main /\ InCalls(t) /\ InLoop(t) /\ TestTypeOK
  BY TestFacts
<1>3. pc \in [Threads -> Labels]
  BY TestFacts DEF Inv, TypeOK
<1>4. ~Spinning /\ at[t] = "lock" /\ spc[t] = "idle"
  BY <1>1, <1>2 DEF InCalls, Calls, MutexLabels
<1>5. place = 8 /\ counter = Cardinality(Increments)
  BY <1>4, WorkerRuns
<1>6. place' = place /\ (Spinning' <=> Spinning)
  BY <1>1, Stays
<1>7. pc'[t] = "retry" /\ \A u \in Threads \ {t} : pc'[u] = pc[u]
  BY <1>1, <1>2, <1>3
<1>8. InCalls(t)'
  BY <1>1, <1>2, <1>4, <1>6, <1>7 DEF InCalls, Calls, MutexLabels
<1>9. TestTypeOK' /\ InLoop(t)' /\ Increments' = Increments
  BY <1>1, <1>2, <1>6 DEF TestTypeOK, InLoop, Increments
<1> QED
  BY <1>1, <1>5, <1>7, <1>8, <1>9, WorkerMoves
-----------------------------------------------------------------------------
(* The invariant of the program *)

LEMMA TestInitInv ==
  ASSUME TestInit
  PROVE  TestInv
<1>1. /\ Init /\ S!Init /\ counter = 0 /\ step = 1 /\ failed = {}
      /\ reg = [t \in Workers |-> 0] /\ i = [t \in Workers |-> 0]
      /\ at = [t \in Workers |-> "unborn"]
  BY DEF TestInit
<1>2. Inv /\ S!Inv
  <2>1. SP!Init
    BY <1>1 DEF S!Init, SP!Init
  <2>2. SP!Inv
    BY <2>1, SP!InitInv
  <2>3. S!Inv
    BY <2>2 DEF SP!Inv, S!Inv, SP!TypeOK, S!TypeOK
  <2> QED
    BY <1>1, <2>3, InitInv
<1>3. TestTypeOK
  <2>0. Len(Tests) = 14
    BY TestsAre
  <2>1. step \in 1..2 * Len(Tests) + 1
    BY <1>1, <2>0
  <2> QED
    BY <1>1, <2>1, TestsAssumption DEF TestTypeOK
<1>4. place = 1 /\ Spinning
  <2>1. Len(Tests) = 14
    BY TestsAre
  <2> QED
    BY <1>1, <2>1 DEF place, Spinning
<1>5. ASSUME NEW t \in Threads PROVE InCalls(t)
  <2>1. pc[t] = "idle" /\ spc[t] = "idle"
    BY <1>1 DEF Init, S!Init
  <2>2. Calls(t) = "outside"
    BY <1>1, <1>4 DEF Calls, Workers
  <2> QED
    BY <1>4, <2>1, <2>2 DEF InCalls, SpinLabels
<1>6. \A t \in Workers : InLoop(t)
  BY <1>1, <1>4 DEF InLoop
<1>7. CounterIs /\ NoneFailed
  BY <1>1, <1>4 DEF CounterIs, NoneFailed
<1> QED
  BY <1>2, <1>3, <1>5, <1>6, <1>7 DEF TestInv

LEMMA TestNextInv ==
  ASSUME TestInv, [TestNext]_allVars
  PROVE  TestInv'
<1>1. CASE Main
  BY <1>1, InitLockInv, MainLockInv, MainUnlockInv, MainCountsInv, CreateWorkersInv,
     JoinWorkersInv, MainTryInv DEF Main
<1>2. ASSUME NEW t \in Workers, increment_counter(t) PROVE TestInv'
  BY <1>2, CallLockInv, LoadCounterInv, StoreCounterInv, CallUnlockInv DEF increment_counter
<1>3. ASSUME NEW t \in Workers, Interrupted(t) PROVE TestInv'
  BY <1>3, InterruptedInv
<1>4. CASE UNCHANGED allVars
  <2>1. /\ UNCHANGED <<state, pc, c, is_acquired, spc, counter, step, reg, i, at, failed>>
        /\ place' = place /\ (Spinning' <=> Spinning)
    BY <1>4, Stays DEF allVars, vars, testVars
  <2>2. TestTypeOK' /\ NoneFailed'
    BY <2>1 DEF TestInv, TestTypeOK, NoneFailed
  <2>3. CounterIs'
    BY <2>1 DEF TestInv, CounterIs, Increments
  <2>4. (\A t \in Threads : InCalls(t)') /\ (\A t \in Workers : InLoop(t)')
    BY <2>1 DEF TestInv, InCalls, Calls, InLoop
  <2> QED
    BY <2>2, <2>3, <2>4, LocksInv DEF TestInv
<1>5. CASE TestsOver
  BY <1>4, <1>5 DEF TestsOver
<1> QED
  BY <1>1, <1>2, <1>3, <1>4, <1>5 DEF TestNext

THEOREM TestInvariance == TestSpec => []TestInv
<1>1. TestInit => TestInv
  BY TestInitInv
<1>2. TestInv /\ [TestNext]_allVars => TestInv'
  BY TestNextInv
<1> QED
  BY <1>1, <1>2, PTL DEF TestSpec

\* No test of sync/2.4/tests.c prints FAILED, for any number of threads and of
\* iterations: the workers lose no increment under either lock, and the trylocks
\* are refused and granted as the tests expect.
THEOREM TestsPass == TestSpec => []NoneFailed
<1>1. TestInv => NoneFailed
  BY DEF TestInv
<1> QED
  BY <1>1, TestInvariance, PTL

\* The program uses the mutex as its specification allows: it initialises it only
\* when nobody holds or awaits it, so what is proved of the mutex alone holds here.
THEOREM TestsUseMutex == TestSpec => Spec
<1>1. TestInit => Init
  BY DEF TestInit
<1>2. TestInv /\ [TestNext]_allVars => [Next]_vars
  BY TestStepIsNext
<1> QED
  BY <1>1, <1>2, TestInvariance, PTL DEF TestSpec, Spec

\* In the program of the tests, too, the mutex is a lock.
THEOREM TestedMutexIsLock == TestSpec => LockSpec
BY TestsUseMutex, MutexImplementsLock, PTL

\* The same for the spinlock.
THEOREM TestedSpinLockIsLock == TestSpec => SpinLockSpec
<1>1. TestInit => SP!Init
  BY DEF TestInit, S!Init, SP!Init
<1>2. TestInv /\ [TestNext]_allVars => [SP!Next]_SP!spinVars
  <2> SUFFICES ASSUME TestInv, [TestNext]_allVars PROVE [SP!Next]_SP!spinVars
    OBVIOUS
  <2>1. [S!Next]_<<is_acquired, spc>>
    BY TestStepIsNext
  <2> QED
    BY <2>1 DEF SP!Next, S!Next, SP!spinVars, SP!spinlock_lock, S!spinlock_lock,
       SP!spinlock_unlock, S!spinlock_unlock, SP!spinlock_trylock, S!spinlock_trylock,
       S!spinVars
<1>3. TestSpec => SP!Spec
  BY <1>1, <1>2, TestInvariance, PTL DEF TestSpec, SP!Spec
<1>4. SP!Spec => SP!SpinLockSpec
  BY SP!SpinLockImplementsLock
<1>5. SP!holder = S!holder /\ SP!holder' = S!holder'
  BY DEF SP!holder, S!holder
<1>6. SP!L!Init => S!L!Init
  BY <1>5 DEF SP!L!Init, S!L!Init
<1>7. [SP!L!Next]_SP!holder => [S!L!Next]_S!holder
  BY <1>5 DEF SP!L!Next, S!L!Next, SP!L!Acquire, S!L!Acquire, SP!L!Release, S!L!Release
<1> QED
  BY <1>3, <1>4, <1>6, <1>7, PTL
     DEF SpinLockSpec, S!SpinLockSpec, SP!SpinLockSpec, S!L!Spec, SP!L!Spec
=============================================================================
