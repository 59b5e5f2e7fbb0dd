--------------------------- MODULE SpinLockProofs ---------------------------
(***************************************************************************)
(* Proof that the spinlock implements Lock, for any set of threads.        *)
(***************************************************************************)
EXTENDS SpinLock, TLAPS

\* spinlock_init establishes the inductive invariant.
LEMMA InitInv == Init => Inv
  BY DEF Init, Inv, TypeOK

\* Every compare-and-swap preserves it, whichever thread and call it belongs to.
LEMMA StepInv == Inv /\ [Next]_spinVars => Inv'
<1> SUFFICES ASSUME Inv, [Next]_spinVars PROVE Inv'
  OBVIOUS
<1> USE DEF Inv, TypeOK
<1>1. ASSUME NEW t \in Threads, spinlock_lock(t) PROVE Inv'
  BY <1>1 DEF spinlock_lock
<1>2. ASSUME NEW t \in Threads, spinlock_trylock(t) PROVE Inv'
  BY <1>2 DEF spinlock_trylock, spinVars
<1>3. ASSUME NEW t \in Threads, spinlock_unlock(t) PROVE Inv'
  BY <1>3 DEF spinlock_unlock
<1>4. CASE UNCHANGED spinVars
  BY <1>4 DEF spinVars
<1> QED
  BY <1>1, <1>2, <1>3, <1>4 DEF Next

\* The holder of the abstract lock is the one thread inside, if there is one.
LEMMA HolderIs ==
    ASSUME Inv
    PROVE  /\ \A t \in Threads : spc[t] = "cs" => holder = t
           /\ (\A t \in Threads : spc[t] # "cs") => holder = None
<1>1. ASSUME NEW t \in Threads, spc[t] = "cs" PROVE holder = t
  BY <1>1 DEF Inv, holder
<1>2. ASSUME \A t \in Threads : spc[t] # "cs" PROVE holder = None
  BY <1>2 DEF holder
<1> QED
  BY <1>1, <1>2

\* The same of the state after a step.
LEMMA HolderNext ==
    ASSUME Inv'
    PROVE  /\ \A t \in Threads : spc'[t] = "cs" => holder' = t
           /\ (\A t \in Threads : spc'[t] # "cs") => holder' = None
<1>1. ASSUME NEW t \in Threads, spc'[t] = "cs" PROVE holder' = t
  BY <1>1 DEF Inv, holder
<1>2. ASSUME \A t \in Threads : spc'[t] # "cs" PROVE holder' = None
  BY <1>2 DEF holder
<1> QED
  BY <1>1, <1>2

\* A successful exchange of a lock or trylock acquires the abstract lock, that of
\* an unlock releases it, and a failed one changes nothing.
LEMMA StepRefines == Inv /\ Inv' /\ [Next]_spinVars => [L!Next]_holder
<1> SUFFICES ASSUME Inv, Inv', [Next]_spinVars PROVE [L!Next]_holder
  OBVIOUS
<1>1. ASSUME NEW t \in Threads, is_acquired = 0, spc' = [spc EXCEPT ![t] = "cs"]
      PROVE  L!Acquire(t)
  <2>1. holder = None
    BY <1>1, HolderIs DEF Inv, TypeOK
  <2>2. holder' = t
    BY <1>1, HolderNext DEF Inv, TypeOK
  <2> QED
    BY <2>1, <2>2 DEF L!Acquire
<1>2. ASSUME NEW t \in Threads, spinlock_lock(t) PROVE L!Next
  BY <1>1, <1>2 DEF spinlock_lock, L!Next
<1>3. ASSUME NEW t \in Threads, spinlock_trylock(t) PROVE L!Next \/ UNCHANGED holder
  BY <1>1, <1>3 DEF spinlock_trylock, L!Next, spinVars, holder
<1>4. ASSUME NEW t \in Threads, spinlock_unlock(t) PROVE L!Next
  <2>1. holder = t
    BY <1>4, HolderIs DEF spinlock_unlock
  <2>2. \A u \in Threads : spc'[u] # "cs"
    BY <1>4 DEF spinlock_unlock, Inv, TypeOK
  <2>3. holder' = None
    BY <2>2, HolderNext
  <2> QED
    BY <2>1, <2>3 DEF L!Next, L!Release
<1>5. CASE UNCHANGED spinVars
  BY <1>5 DEF spinVars, holder
<1> QED
  BY <1>2, <1>3, <1>4, <1>5 DEF Next

\* The spinlock of spinlock.c is a lock: at most one thread is inside, and only
\* that thread lets the next one in.
THEOREM SpinLockImplementsLock == Spec => SpinLockSpec
<1>1. Init => L!Init
  BY DEF Init, L!Init, holder
<1> QED
  BY InitInv, StepInv, <1>1, StepRefines, PTL DEF Spec, SpinLockSpec, L!Spec
=============================================================================
