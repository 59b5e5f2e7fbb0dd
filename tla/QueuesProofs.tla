---------------------------- MODULE QueuesProofs ----------------------------
(***************************************************************************)
(* Proofs about the blocking queues of sync/, for any number of writers    *)
(* and readers and any capacity: that each of 2.2f.c, 2.2g.c and 2.2e.c    *)
(* implements the bounded first-in first-out queue, that condition         *)
(* variables lose no signal, that the semaphores count exactly, and all of *)
(* this for the programs that the Makefile links.                          *)
(***************************************************************************)
EXTENDS Queues, FiniteSetTheorems, TLAPS

(* The queue with condition variables, 2.2f.c *)

\* An integer that counts on stays an integer.
LEMMA Wraps == \A n \in Ints : (n + 1) % IntRange \in Ints
  BY QueueAssumption DEF Ints

\* queue_init establishes the inductive invariant.
LEMMA InitInv == Init => Inv
<1> SUFFICES ASSUME Init PROVE Inv
  OBVIOUS
<1>1. TypeOK
  BY QueueAssumption DEF Init, QueueInit, TypeOK, Ints, Labels
<1>2. \A t \in Threads : Inside(t) <=> mutex = t
  BY QueueAssumption DEF Init, QueueInit, Inside, Threads
<1> QED
  BY <1>1, <1>2 DEF Init, QueueInit, Inv

\* Every step of queue_add, queue_get and queue_print_stats, and every spurious
\* wake-up, preserves it.
LEMMA StepInv == Inv /\ [Next]_vars => Inv'
<1> SUFFICES ASSUME Inv, [Next]_vars PROVE Inv'
  OBVIOUS
<1> USE QueueAssumption DEF Inv, TypeOK, Labels, Inside, Goto
<1>1. ASSUME NEW t \in Threads, Lock(t) PROVE Inv'
  BY <1>1 DEF Lock, Threads
<1>2. ASSUME NEW t \in Threads, CondWait(t) PROVE Inv'
  BY <1>2 DEF CondWait, Threads
<1>3. ASSUME NEW t \in Threads, NEW G \in SUBSET Threads, CondSignal(t, Blocked(G))
      PROVE  Inv'
  BY <1>3 DEF CondSignal, Blocked
<1>4. ASSUME NEW t \in Threads, SpuriousWakeup(t) PROVE Inv'
  BY <1>4 DEF SpuriousWakeup
<1>5. ASSUME NEW w \in Writers, queue_add(w) PROVE Inv'
  <2>1. w \in Threads /\ i[w] \in Ints
    BY DEF Threads
  <2>2. count' \in 0..max_count /\ count' = Len(list') /\ list' \in Seq(Ints)
    BY <1>5, <2>1 DEF queue_add
  <2> QED
    BY <1>5, <2>1, <2>2 DEF queue_add
<1>6. ASSUME NEW w \in Writers, AddUnlock(w) PROVE Inv'
  <2>1. w \in Threads
    BY DEF Threads
  <2>2. i' \in [Writers -> Ints]
    BY <1>6, Wraps DEF AddUnlock
  <2>3. \A t \in Threads : Inside(t)' <=> mutex' = t
    BY <1>6, <2>1 DEF AddUnlock, Threads
  <2> QED
    BY <1>6, <2>1, <2>2, <2>3 DEF AddUnlock
<1>7. ASSUME NEW r \in Readers, queue_get(r) PROVE Inv'
  <2>1. r \in Threads
    BY DEF Threads
  <2>2. list # <<>>
    BY <1>7 DEF queue_get
  <2>3. /\ Head(list) \in Ints
        /\ Tail(list) \in Seq(Ints)
        /\ Len(Tail(list)) = Len(list) - 1
    BY <2>2
  <2>4. count' \in 0..max_count /\ count' = Len(list') /\ list' \in Seq(Ints)
    BY <1>7, <2>3 DEF queue_get
  <2> QED
    BY <1>7, <2>1, <2>3, <2>4 DEF queue_get
<1>8. ASSUME NEW r \in Readers, GetUnlock(r) PROVE Inv'
  BY <1>8 DEF GetUnlock, Threads
<1>9. CASE PrintStats
  BY <1>9 DEF PrintStats, Threads
<1>10. CASE UNCHANGED vars
  BY <1>10 DEF vars
<1>11. ASSUME NEW w \in Writers, writer(w) PROVE Inv'
  <2>1. w \in Threads /\ Readers \in SUBSET Threads
    BY DEF Threads
  <2> QED
    BY <1>1, <1>2, <1>3, <1>5, <1>6, <1>11, <2>1 DEF writer, AddWait, AddSignal
<1>12. ASSUME NEW r \in Readers, reader(r) PROVE Inv'
  <2>1. r \in Threads /\ Writers \in SUBSET Threads
    BY DEF Threads
  <2> QED
    BY <1>1, <1>2, <1>3, <1>7, <1>8, <1>12, <2>1 DEF reader, GetWait, GetSignal
<1>13. CASE Monitor
  BY <1>1, <1>9, <1>13 DEF Monitor, Threads
<1>14. ASSUME NEW t \in Writers \cup Readers, SpuriousWakeup(t) PROVE Inv'
  BY <1>4, <1>14 DEF Threads
<1> QED
  BY <1>10, <1>11, <1>12, <1>13, <1>14 DEF Next

\* The queue never holds more than max_count values, the counter never goes below
\* zero, and everything keeps its type.
THEOREM TypeCorrect == Spec => []TypeOK
<1>1. Inv => TypeOK
  BY DEF Inv
<1> QED
  BY InitInv, StepInv, <1>1, PTL DEF Spec

-----------------------------------------------------------------------------
\* Seen through iBar, adding a value is Put, taking one is Get, and locking,
\* waiting, signalling and unlocking change nothing.
LEMMA StepRefines ==
  ASSUME Inv, Inv', [Next]_vars
  PROVE  [Q!Next]_<<list, iBar, val>>
<1> USE QueueAssumption DEF Inv, TypeOK, Labels, Inside, Goto
<1> DEFINE Quiet == UNCHANGED <<list, iBar, val>>
<1>1. ASSUME NEW t \in Threads, Lock(t) PROVE Quiet
  BY <1>1 DEF Lock, Threads, iBar
<1>2. ASSUME NEW t \in Threads, CondWait(t) PROVE Quiet
  BY <1>2 DEF CondWait, Threads, iBar
<1>3. ASSUME NEW t \in Threads, NEW G \in SUBSET Threads, CondSignal(t, Blocked(G))
      PROVE  Quiet
  BY <1>3 DEF CondSignal, Blocked, Threads, iBar
<1>4. ASSUME NEW t \in Threads, SpuriousWakeup(t) PROVE Quiet
  BY <1>4 DEF SpuriousWakeup, Threads, iBar
<1>5. ASSUME NEW w \in Writers, queue_add(w) PROVE Q!Put(w)
  <2>1. Len(list) < max_count
    BY <1>5 DEF queue_add
  <2>2. iBar[w] = i[w]
    BY <1>5 DEF queue_add, iBar
  <2>3. iBar' = [iBar EXCEPT ![w] = (@ + 1) % IntRange]
    BY <1>5 DEF queue_add, iBar, Threads
  <2> QED
    BY <1>5, <2>1, <2>2, <2>3 DEF queue_add, Q!Put
<1>6. ASSUME NEW w \in Writers, AddUnlock(w) PROVE Quiet
  BY <1>6 DEF AddUnlock, Threads, iBar
<1>7. ASSUME NEW r \in Readers, queue_get(r) PROVE Q!Get(r)
  <2>1. list # <<>>
    BY <1>7 DEF queue_get
  <2>2. iBar' = iBar
    BY <1>7 DEF queue_get, iBar, Threads
  <2> QED
    BY <1>7, <2>1, <2>2 DEF queue_get, Q!Get
<1>8. ASSUME NEW r \in Readers, GetUnlock(r) PROVE Quiet
  BY <1>8 DEF GetUnlock, Threads, iBar
<1>9. CASE PrintStats
  BY <1>9 DEF PrintStats, Threads, iBar
<1>10. CASE UNCHANGED vars
  BY <1>10 DEF vars, iBar
<1>11. ASSUME NEW w \in Writers, writer(w) PROVE Quiet \/ Q!Put(w)
  <2>1. w \in Threads /\ Readers \in SUBSET Threads
    BY DEF Threads
  <2> QED
    BY <1>1, <1>2, <1>3, <1>5, <1>6, <1>11, <2>1 DEF writer, AddWait, AddSignal
<1>12. ASSUME NEW r \in Readers, reader(r) PROVE Quiet \/ Q!Get(r)
  <2>1. r \in Threads /\ Writers \in SUBSET Threads
    BY DEF Threads
  <2> QED
    BY <1>1, <1>2, <1>3, <1>7, <1>8, <1>12, <2>1 DEF reader, GetWait, GetSignal
<1>13. CASE Monitor
  BY <1>1, <1>9, <1>13 DEF Monitor, Threads
<1>14. ASSUME NEW t \in Writers \cup Readers, SpuriousWakeup(t) PROVE Quiet
  BY <1>4, <1>14 DEF Threads
<1> QED
  BY <1>10, <1>11, <1>12, <1>13, <1>14 DEF Next, Q!Next

\* The queue with condition variables implements the bounded first-in first-out
\* queue: in particular the reader of 2.2d.c never finds a value out of order.
THEOREM QueueImplementsFifo == Spec => FifoSpec
<1>1. Init => Q!Init
  <2> SUFFICES ASSUME Init PROVE Q!Init
    OBVIOUS
  <2>1. iBar = [w \in Writers |-> 0]
    BY DEF Init, QueueInit, iBar, Threads
  <2> QED
    BY <2>1 DEF Init, QueueInit, Q!Init
<1>2. Inv /\ Inv' /\ [Next]_vars => [Q!Next]_<<list, iBar, val>>
  BY StepRefines
<1> QED
  BY InitInv, StepInv, <1>1, <1>2, PTL DEF Spec, FifoSpec, Q!Spec

-----------------------------------------------------------------------------
(* No signal is lost *)

\* A thread that joins or leaves one of the sets that the invariants count
\* changes its cardinality by one.
LEMMA CountOne ==
  ASSUME NEW G, IsFiniteSet(G), NEW x
  PROVE  /\ Cardinality(G) \in Nat
         /\ x \in G => Cardinality(G) >= 1
         /\ x \notin G => Cardinality(G \cup {x}) = Cardinality(G) + 1
         /\ x \in G => Cardinality(G \ {x}) = Cardinality(G) - 1
<1>1. Cardinality(G) \in Nat
  BY FS_CardinalityType
<1>2. x \notin G => Cardinality(G \cup {x}) = Cardinality(G) + 1
  BY FS_AddElement
<1>3. IsFiniteSet(G \ {x}) /\ (x \in G => Cardinality(G \ {x}) = Cardinality(G) - 1)
  BY FS_RemoveElement
<1>4. Cardinality(G \ {x}) \in Nat
  BY <1>3, FS_CardinalityType
<1> QED
  BY <1>1, <1>2, <1>3, <1>4

\* The sets of threads that the invariants count are finite.
LEMMA CountedFinite ==
  /\ IsFiniteSet(Coming(Readers)) /\ IsFiniteSet(Coming(Writers))
  /\ IsFiniteSet(Signalling(Readers)) /\ IsFiniteSet(Signalling(Writers))
<1>1. \A G, H : IsFiniteSet(G) /\ H \subseteq G => IsFiniteSet(H)
  BY FS_Subset
<1> QED
  BY <1>1, QueueAssumption DEF Coming, Signalling

\* Every step of 2.2f.c preserves NoLostSignal: a value added comes with a writer
\* that signals, and a signal consumed with a reader that comes.
LEMMA StepNoLostSignal == Inv /\ NoLostSignal /\ [Next]_vars => NoLostSignal'
<1> SUFFICES ASSUME Inv, NoLostSignal, [Next]_vars PROVE NoLostSignal'
  OBVIOUS
<1>t. /\ Readers \in SUBSET Threads /\ Writers \in SUBSET Threads
      /\ qmonitor \in Threads /\ qmonitor \notin Readers \cup Writers
      /\ count \in 0..max_count /\ max_count \in Nat
      /\ Readers \cap Writers = {}
  BY QueueAssumption DEF Threads, Inv, TypeOK
<1>c. \A G \in {Readers, Writers} :
         /\ Cardinality(Coming(G)) \in Nat /\ Cardinality(Signalling(G)) \in Nat
         /\ \A x \in Coming(G) :
              Cardinality(Coming(G) \ {x}) = Cardinality(Coming(G)) - 1
         /\ \A x : x \notin Coming(G) =>
              Cardinality(Coming(G) \cup {x}) = Cardinality(Coming(G)) + 1
         /\ \A x \in Signalling(G) :
              Cardinality(Signalling(G) \ {x}) = Cardinality(Signalling(G)) - 1
         /\ \A x : x \notin Signalling(G) =>
              Cardinality(Signalling(G) \cup {x}) = Cardinality(Signalling(G)) + 1
  BY CountedFinite, CountOne
<1>1. ASSUME NEW t \in Threads, Lock(t) PROVE NoLostSignal'
  <2>1. /\ Coming(Readers)' = Coming(Readers) /\ Coming(Writers)' = Coming(Writers)
        /\ Signalling(Readers)' = Signalling(Readers)
        /\ Signalling(Writers)' = Signalling(Writers)
        /\ Blocked(Readers)' = Blocked(Readers) /\ Blocked(Writers)' = Blocked(Writers)
    BY <1>1, <1>t DEF Lock, Goto, Coming, Signalling, Blocked, Inv, TypeOK
  <2> QED
    BY <1>1, <2>1 DEF Lock, NoLostSignal
<1>2. ASSUME NEW w \in Writers, AddWait(w) PROVE NoLostSignal'
  <2>1. /\ Coming(Readers)' = Coming(Readers)
        /\ Signalling(Writers)' = Signalling(Writers)
        /\ Blocked(Readers)' = Blocked(Readers)
        /\ Coming(Writers)' = Coming(Writers) \ {w} /\ w \in Coming(Writers)
        /\ Signalling(Readers)' = Signalling(Readers)
    BY <1>2, <1>t DEF AddWait, CondWait, Goto, Coming, Signalling, Blocked, Inv, TypeOK
  <2>2. Cardinality(Coming(Writers)') \in Nat
    BY <2>1, CountedFinite, FS_RemoveElement, FS_CardinalityType
  <2> QED
    BY <1>2, <2>1, <2>2, <1>c, <1>t DEF AddWait, CondWait, NoLostSignal
<1>3. ASSUME NEW r \in Readers, GetWait(r) PROVE NoLostSignal'
  <2>1. /\ Coming(Writers)' = Coming(Writers)
        /\ Signalling(Readers)' = Signalling(Readers)
        /\ Blocked(Writers)' = Blocked(Writers)
        /\ Coming(Readers)' = Coming(Readers) \ {r} /\ r \in Coming(Readers)
        /\ Signalling(Writers)' = Signalling(Writers)
    BY <1>3, <1>t DEF GetWait, CondWait, Goto, Coming, Signalling, Blocked, Inv, TypeOK
  <2>2. Cardinality(Coming(Readers)') \in Nat
    BY <2>1, CountedFinite, FS_RemoveElement, FS_CardinalityType
  <2> QED
    BY <1>3, <2>1, <2>2, <1>c, <1>t DEF GetWait, CondWait, NoLostSignal
<1>4. ASSUME NEW w \in Writers, queue_add(w) PROVE NoLostSignal'
  <2>1. /\ Coming(Readers)' = Coming(Readers)
        /\ Signalling(Readers)' = Signalling(Readers)
        /\ Blocked(Readers)' = Blocked(Readers) /\ Blocked(Writers)' = Blocked(Writers)
        /\ Coming(Writers)' = Coming(Writers) \ {w} /\ w \in Coming(Writers)
        /\ Signalling(Writers)' = Signalling(Writers) \cup {w}
        /\ w \notin Signalling(Writers)
    BY <1>4, <1>t DEF queue_add, Goto, Coming, Signalling, Blocked, Inv, TypeOK
  <2>2. /\ Cardinality(Coming(Writers))' = Cardinality(Coming(Writers)) - 1
        /\ Cardinality(Signalling(Writers))' = Cardinality(Signalling(Writers)) + 1
        /\ Cardinality(Coming(Readers))' = Cardinality(Coming(Readers))
        /\ Cardinality(Signalling(Readers))' = Cardinality(Signalling(Readers))
    BY <2>1, <1>c
  <2>3. \A G \in {Readers, Writers} :
          Cardinality(Coming(G)) \in Nat /\ Cardinality(Signalling(G)) \in Nat
    BY <1>c
  <2> QED
    BY <1>4, <2>1, <2>2, <2>3, <1>t DEF queue_add, NoLostSignal
<1>5. ASSUME NEW r \in Readers, queue_get(r) PROVE NoLostSignal'
  <2>1. /\ Coming(Writers)' = Coming(Writers)
        /\ Signalling(Writers)' = Signalling(Writers)
        /\ Blocked(Readers)' = Blocked(Readers) /\ Blocked(Writers)' = Blocked(Writers)
        /\ Coming(Readers)' = Coming(Readers) \ {r} /\ r \in Coming(Readers)
        /\ Signalling(Readers)' = Signalling(Readers) \cup {r}
        /\ r \notin Signalling(Readers)
    BY <1>5, <1>t DEF queue_get, Goto, Coming, Signalling, Blocked, Inv, TypeOK
  <2>2. /\ Cardinality(Coming(Readers))' = Cardinality(Coming(Readers)) - 1
        /\ Cardinality(Signalling(Readers))' = Cardinality(Signalling(Readers)) + 1
        /\ Cardinality(Coming(Writers))' = Cardinality(Coming(Writers))
        /\ Cardinality(Signalling(Writers))' = Cardinality(Signalling(Writers))
    BY <2>1, <1>c
  <2>3. \A G \in {Readers, Writers} :
          Cardinality(Coming(G)) \in Nat /\ Cardinality(Signalling(G)) \in Nat
    BY <1>c
  <2> QED
    BY <1>5, <2>1, <2>2, <2>3, <1>t DEF queue_get, NoLostSignal
<1>6. ASSUME NEW w \in Writers, AddSignal(w) PROVE NoLostSignal'
  <2>1. /\ Coming(Writers)' = Coming(Writers)
        /\ Signalling(Readers)' = Signalling(Readers)
        /\ Blocked(Writers)' = Blocked(Writers)
        /\ Signalling(Writers)' = Signalling(Writers) \ {w} /\ w \in Signalling(Writers)
    BY <1>6, <1>t DEF AddSignal, CondSignal, Coming, Signalling, Blocked, Inv, TypeOK
  <2>2. ASSUME NEW u \in Blocked(Readers),
               pc' = [pc EXCEPT ![w] = "unlock", ![u] = "lock"]
        PROVE  /\ Coming(Readers)' = Coming(Readers) \cup {u}
               /\ u \notin Coming(Readers) /\ Blocked(Readers) # {}
    BY <2>2, <1>6, <1>t DEF Coming, Blocked, AddSignal, CondSignal, Inv, TypeOK
  <2>3. CASE Blocked(Readers) = {} /\ pc' = [pc EXCEPT ![w] = "unlock"]
    <3>1. Blocked(Readers)' = {}
      BY <2>3, <1>t DEF Blocked, Inv, TypeOK
    <3> QED
      BY <3>1, <2>1, <1>6 DEF AddSignal, CondSignal, NoLostSignal
  <2>4. CASE \E u \in Blocked(Readers) :
               pc' = [pc EXCEPT ![w] = "unlock", ![u] = "lock"]
    <3>1. /\ Cardinality(Coming(Readers))' = Cardinality(Coming(Readers)) + 1
          /\ Cardinality(Signalling(Writers))' = Cardinality(Signalling(Writers)) - 1
          /\ Cardinality(Coming(Readers)) \in Nat /\ Cardinality(Signalling(Writers)) \in Nat
          /\ Cardinality(Coming(Writers))' = Cardinality(Coming(Writers))
          /\ Cardinality(Signalling(Readers))' = Cardinality(Signalling(Readers))
      BY <2>1, <2>2, <2>4, <1>c
    <3>2. Blocked(Readers) # {}
      BY <2>4
    <3> QED
      BY <2>1, <3>1, <3>2, <1>6, <1>t DEF AddSignal, CondSignal, NoLostSignal
  <2> QED
    BY <1>6, <2>3, <2>4 DEF AddSignal, CondSignal
<1>7. ASSUME NEW r \in Readers, GetSignal(r) PROVE NoLostSignal'
  <2>1. /\ Coming(Readers)' = Coming(Readers)
        /\ Signalling(Writers)' = Signalling(Writers)
        /\ Blocked(Readers)' = Blocked(Readers)
        /\ Signalling(Readers)' = Signalling(Readers) \ {r} /\ r \in Signalling(Readers)
    BY <1>7, <1>t DEF GetSignal, CondSignal, Coming, Signalling, Blocked, Inv, TypeOK
  <2>2. ASSUME NEW u \in Blocked(Writers),
               pc' = [pc EXCEPT ![r] = "unlock", ![u] = "lock"]
        PROVE  /\ Coming(Writers)' = Coming(Writers) \cup {u}
               /\ u \notin Coming(Writers) /\ Blocked(Writers) # {}
    BY <2>2, <1>7, <1>t DEF Coming, Blocked, GetSignal, CondSignal, Inv, TypeOK
  <2>3. CASE Blocked(Writers) = {} /\ pc' = [pc EXCEPT ![r] = "unlock"]
    <3>1. Blocked(Writers)' = {}
      BY <2>3, <1>t DEF Blocked, Inv, TypeOK
    <3> QED
      BY <3>1, <2>1, <1>7 DEF GetSignal, CondSignal, NoLostSignal
  <2>4. CASE \E u \in Blocked(Writers) :
               pc' = [pc EXCEPT ![r] = "unlock", ![u] = "lock"]
    <3>1. /\ Cardinality(Coming(Writers))' = Cardinality(Coming(Writers)) + 1
          /\ Cardinality(Signalling(Readers))' = Cardinality(Signalling(Readers)) - 1
          /\ Cardinality(Coming(Writers)) \in Nat /\ Cardinality(Signalling(Readers)) \in Nat
          /\ Cardinality(Coming(Readers))' = Cardinality(Coming(Readers))
          /\ Cardinality(Signalling(Writers))' = Cardinality(Signalling(Writers))
      BY <2>1, <2>2, <2>4, <1>c
    <3>2. Blocked(Writers) # {}
      BY <2>4
    <3> QED
      BY <2>1, <3>1, <3>2, <1>7, <1>t DEF GetSignal, CondSignal, NoLostSignal
  <2> QED
    BY <1>7, <2>3, <2>4 DEF GetSignal, CondSignal
<1>8. ASSUME NEW t \in Readers \cup Writers, pc[t] \in {"wait", "unlock"},
             pc' = [pc EXCEPT ![t] = "lock"], UNCHANGED count
      PROVE  NoLostSignal'
  <2>1. /\ Signalling(Readers)' = Signalling(Readers)
        /\ Signalling(Writers)' = Signalling(Writers)
        /\ Blocked(Readers)' \subseteq Blocked(Readers)
        /\ Blocked(Writers)' \subseteq Blocked(Writers)
        /\ \A G \in {Readers, Writers} :
              \/ Coming(G)' = Coming(G)
              \/ Coming(G)' = Coming(G) \cup {t} /\ t \notin Coming(G)
    BY <1>8, <1>t DEF Coming, Signalling, Blocked, Inv, TypeOK
  <2> QED
    BY <1>8, <2>1, <1>c, <1>t DEF NoLostSignal
<1>9. CASE PrintStats
  <2>1. /\ Coming(Readers)' = Coming(Readers) /\ Coming(Writers)' = Coming(Writers)
        /\ Signalling(Readers)' = Signalling(Readers)
        /\ Signalling(Writers)' = Signalling(Writers)
        /\ Blocked(Readers)' = Blocked(Readers) /\ Blocked(Writers)' = Blocked(Writers)
    BY <1>9, <1>t DEF PrintStats, Goto, Coming, Signalling, Blocked, Inv, TypeOK
  <2> QED
    BY <1>9, <2>1 DEF PrintStats, NoLostSignal
<1>10. CASE UNCHANGED vars
  BY <1>10 DEF vars, NoLostSignal, Coming, Signalling, Blocked
<1>11. ASSUME NEW t \in Writers \cup Readers, SpuriousWakeup(t) PROVE NoLostSignal'
  BY <1>8, <1>11 DEF SpuriousWakeup, Goto
<1>12. ASSUME NEW w \in Writers, writer(w) PROVE NoLostSignal'
  BY <1>1, <1>2, <1>4, <1>6, <1>8, <1>12, <1>t DEF writer, AddUnlock, Goto
<1>13. ASSUME NEW r \in Readers, reader(r) PROVE NoLostSignal'
  BY <1>1, <1>3, <1>5, <1>7, <1>8, <1>13, <1>t DEF reader, GetUnlock, Goto
<1>14. CASE Monitor
  BY <1>1, <1>9, <1>14, <1>t DEF Monitor
<1> QED
  BY <1>10, <1>11, <1>12, <1>13, <1>14 DEF Next

\* Nobody waits before the first call.
LEMMA InitNoLostSignal == (pc = [t \in Threads |-> "lock"]) => NoLostSignal
  BY DEF NoLostSignal, Blocked, Threads

\* Readers that are blocked are never forgotten while values lie in the queue, nor
\* writers while there is room: the single signal of each call is enough.
THEOREM SignalsSuffice == Spec => []NoLostSignal
<1>1. Init => NoLostSignal
  BY InitNoLostSignal DEF Init
<1> QED
  BY InitInv, StepInv, StepNoLostSignal, <1>1, PTL DEF Spec
-----------------------------------------------------------------------------
(* The queue with semaphores, 2.2g.c *)

\* The Cardinality that the instance brings with it is the Cardinality.
LEMMA SameCardinality == \A A : S!Cardinality(A) = Cardinality(A)
  BY DEF S!Cardinality, Cardinality, S!IsFiniteSet, IsFiniteSet

\* The sets of threads whose members SemaphoresExact counts.
LEMMA GrantsFinite ==
  /\ IsFiniteSet(S!Granted(Readers)) /\ IsFiniteSet(S!Granted(Writers))
  /\ IsFiniteSet(S!Owing(Readers)) /\ IsFiniteSet(S!Owing(Writers))
<1>1. \A A, B : IsFiniteSet(A) /\ B \subseteq A => IsFiniteSet(B)
  BY FS_Subset
<1> QED
  BY <1>1, QueueAssumption DEF S!Granted, S!Owing

\* sem_init counts the free places and no values.
LEMMA SemInit == S!Init => SemInv
<1> SUFFICES ASSUME S!Init PROVE SemInv
  OBVIOUS
<1>1. TypeOK
  BY QueueAssumption DEF S!Init, S!QueueInit, S!Threads, TypeOK, Threads, Ints, Labels
<1>2. \A t \in Threads : Inside(t) <=> mutex = t
  BY QueueAssumption DEF S!Init, S!QueueInit, Inside, Threads, S!Threads
<1>3. /\ S!Granted(Readers) = {} /\ S!Granted(Writers) = {}
      /\ S!Owing(Readers) = {} /\ S!Owing(Writers) = {}
  BY QueueAssumption DEF S!Init, S!Threads, S!Granted, S!Owing
<1>4. S!SemaphoresExact
  BY SameCardinality, <1>3, FS_EmptySet, QueueAssumption
     DEF S!Init, S!QueueInit, S!SemaphoresExact
<1> QED
  BY <1>1, <1>2, <1>4, QueueAssumption DEF S!Init, S!QueueInit, SemInv, Inv

\* Every step of 2.2g.c keeps the books of both semaphores.  That a reader inside
\* finds a value, and a writer inside a free place, follows from them.
LEMMA SemStep == SemInv /\ [S!Next]_(S!semVars) => SemInv'
<1> SUFFICES ASSUME SemInv, [S!Next]_(S!semVars) PROVE SemInv'
  OBVIOUS
<1>t. /\ Readers \in SUBSET Threads /\ Writers \in SUBSET Threads
      /\ qmonitor \in Threads /\ qmonitor \notin Readers \cup Writers
      /\ count \in 0..max_count /\ max_count \in Nat /\ empty \in Nat /\ full \in Nat
      /\ Readers \cap Writers = {} /\ None \notin Threads
  BY QueueAssumption DEF Threads, SemInv, Inv, TypeOK
<1>c. \A G \in {S!Granted(Readers), S!Granted(Writers), S!Owing(Readers), S!Owing(Writers)} :
         /\ Cardinality(G) \in Nat
         /\ \A x \in G : Cardinality(G) >= 1 /\ Cardinality(G \ {x}) = Cardinality(G) - 1
         /\ \A x : x \notin G => Cardinality(G \cup {x}) = Cardinality(G) + 1
  BY GrantsFinite, CountOne
<1> DEFINE GR == Cardinality(S!Granted(Readers))
           GW == Cardinality(S!Granted(Writers))
           OR == Cardinality(S!Owing(Readers))
           OW == Cardinality(S!Owing(Writers))
<1>n. GR \in Nat /\ GW \in Nat /\ OR \in Nat /\ OW \in Nat
  BY <1>c
<1>e. count = full + GR + OW /\ max_count - count = empty + GW + OR
  BY SameCardinality DEF SemInv, S!SemaphoresExact
<1>1. ASSUME NEW t \in Threads, S!MutexLock(t) PROVE SemInv'
  <2>1. Inv'
    BY <1>1, <1>t DEF S!MutexLock, S!Lock, S!Goto, SemInv, Inv, TypeOK, Labels, Inside
  <2>2. GR' = GR /\ GW' = GW /\ OR' = OR /\ OW' = OW
    BY <1>1, <1>t DEF S!MutexLock, S!Lock, S!Goto, S!Granted, S!Owing, SemInv, Inv, TypeOK
  <2> QED
    BY SameCardinality, <1>1, <2>1, <2>2, <1>e, <1>t
       DEF S!MutexLock, S!Lock, SemInv, S!SemaphoresExact
<1>2. ASSUME NEW t \in Readers \cup Writers, S!Unlock(t) PROVE SemInv'
  <2>1. Inv'
    BY <1>2, <1>t DEF S!Unlock, S!Goto, SemInv, Inv, TypeOK, Labels, Inside
  <2>2. GR' = GR /\ GW' = GW /\ OR' = OR /\ OW' = OW
    BY <1>2, <1>t DEF S!Unlock, S!Goto, S!Granted, S!Owing, SemInv, Inv, TypeOK
  <2> QED
    BY SameCardinality, <1>2, <2>1, <2>2, <1>e, <1>t
       DEF S!Unlock, SemInv, S!SemaphoresExact
<1>3. ASSUME NEW w \in Writers, S!AddSemWait(w) PROVE SemInv'
  <2>1. Inv'
    BY <1>3, <1>t DEF S!AddSemWait, S!Goto, SemInv, Inv, TypeOK, Labels, Inside
  <2>2. /\ S!Granted(Writers)' = S!Granted(Writers) \cup {w} /\ w \notin S!Granted(Writers)
        /\ S!Owing(Writers)' = S!Owing(Writers)
        /\ S!Granted(Readers)' = S!Granted(Readers) /\ S!Owing(Readers)' = S!Owing(Readers)
    BY <1>3, <1>t DEF S!AddSemWait, S!Goto, S!Granted, S!Owing, SemInv, Inv, TypeOK
  <2>3. GR' = GR /\ GW' = GW + 1 /\ OR' = OR /\ OW' = OW
    BY <2>2, <1>c
  <2> QED
    BY SameCardinality, <1>3, <2>1, <2>3, <1>e, <1>n, <1>t
       DEF S!AddSemWait, SemInv, S!SemaphoresExact
<1>4. ASSUME NEW r \in Readers, S!GetSemWait(r) PROVE SemInv'
  <2>1. Inv'
    BY <1>4, <1>t DEF S!GetSemWait, S!Goto, SemInv, Inv, TypeOK, Labels, Inside
  <2>2. /\ S!Granted(Readers)' = S!Granted(Readers) \cup {r} /\ r \notin S!Granted(Readers)
        /\ S!Owing(Readers)' = S!Owing(Readers)
        /\ S!Granted(Writers)' = S!Granted(Writers) /\ S!Owing(Writers)' = S!Owing(Writers)
    BY <1>4, <1>t DEF S!GetSemWait, S!Goto, S!Granted, S!Owing, SemInv, Inv, TypeOK
  <2>3. GR' = GR + 1 /\ GW' = GW /\ OR' = OR /\ OW' = OW
    BY <2>2, <1>c
  <2> QED
    BY SameCardinality, <1>4, <2>1, <2>3, <1>e, <1>n, <1>t
       DEF S!GetSemWait, SemInv, S!SemaphoresExact
<1>5. ASSUME NEW w \in Writers, S!queue_add(w) PROVE SemInv'
  <2>1. /\ S!Granted(Writers)' = S!Granted(Writers) \ {w} /\ w \in S!Granted(Writers)
        /\ S!Owing(Writers)' = S!Owing(Writers) \cup {w} /\ w \notin S!Owing(Writers)
        /\ S!Granted(Readers)' = S!Granted(Readers) /\ S!Owing(Readers)' = S!Owing(Readers)
    BY <1>5, <1>t DEF S!queue_add, S!Goto, S!Granted, S!Owing, SemInv, Inv, TypeOK
  <2>2. GR' = GR /\ GW' = GW - 1 /\ OR' = OR /\ OW' = OW + 1 /\ GW >= 1
    BY <2>1, <1>c
  <2>3. count < max_count
    BY <2>2, <1>e, <1>n, <1>t
  <2>4. i[w] \in Ints /\ list' \in Seq(Ints) /\ count' = Len(list') /\ count' \in 0..max_count
    BY <1>5, <2>3, <1>t DEF S!queue_add, SemInv, Inv, TypeOK
  <2>5. Inv'
    BY <1>5, <2>4, <1>t DEF S!queue_add, S!Goto, SemInv, Inv, TypeOK, Labels, Inside
  <2>6. count' = count + 1 /\ empty' = empty /\ full' = full
    BY <1>5 DEF S!queue_add
  <2> QED
    BY SameCardinality, <2>2, <2>5, <2>6, <1>e, <1>n, <1>t DEF SemInv, S!SemaphoresExact
<1>6. ASSUME NEW r \in Readers, S!queue_get(r) PROVE SemInv'
  <2>1. /\ S!Granted(Readers)' = S!Granted(Readers) \ {r} /\ r \in S!Granted(Readers)
        /\ S!Owing(Readers)' = S!Owing(Readers) \cup {r} /\ r \notin S!Owing(Readers)
        /\ S!Granted(Writers)' = S!Granted(Writers) /\ S!Owing(Writers)' = S!Owing(Writers)
    BY <1>6, <1>t DEF S!queue_get, S!Goto, S!Granted, S!Owing, SemInv, Inv, TypeOK
  <2>2. GR' = GR - 1 /\ GW' = GW /\ OR' = OR + 1 /\ OW' = OW /\ GR >= 1
    BY <2>1, <1>c
  <2>3. count > 0
    BY <2>2, <1>e, <1>n, <1>t
  <2>4. /\ Head(list) \in Ints /\ Tail(list) \in Seq(Ints)
        /\ Len(Tail(list)) = Len(list) - 1
    BY <2>3 DEF SemInv, Inv, TypeOK
  <2>5. list' \in Seq(Ints) /\ count' = Len(list') /\ count' \in 0..max_count
    BY <1>6, <2>3, <2>4, <1>t DEF S!queue_get, SemInv, Inv, TypeOK
  <2>6. Inv'
    BY <1>6, <2>4, <2>5, <1>t DEF S!queue_get, S!Goto, SemInv, Inv, TypeOK, Labels, Inside
  <2>7. count' = count - 1 /\ empty' = empty /\ full' = full
    BY <1>6 DEF S!queue_get
  <2> QED
    BY SameCardinality, <2>2, <2>6, <2>7, <1>e, <1>n, <1>t DEF SemInv, S!SemaphoresExact
<1>7. ASSUME NEW w \in Writers, S!AddSemPost(w) PROVE SemInv'
  <2>1. i' \in [Writers -> Ints]
    BY <1>7, Wraps DEF S!AddSemPost, SemInv, Inv, TypeOK
  <2>2. Inv'
    BY <1>7, <2>1, <1>t DEF S!AddSemPost, S!Goto, SemInv, Inv, TypeOK, Labels, Inside
  <2>3. /\ S!Owing(Writers)' = S!Owing(Writers) \ {w} /\ w \in S!Owing(Writers)
        /\ S!Granted(Writers)' = S!Granted(Writers)
        /\ S!Granted(Readers)' = S!Granted(Readers) /\ S!Owing(Readers)' = S!Owing(Readers)
    BY <1>7, <1>t DEF S!AddSemPost, S!Goto, S!Granted, S!Owing, SemInv, Inv, TypeOK
  <2>4. GR' = GR /\ GW' = GW /\ OR' = OR /\ OW' = OW - 1
    BY <2>3, <1>c
  <2> QED
    BY SameCardinality, <1>7, <2>2, <2>4, <1>e, <1>n, <1>t
       DEF S!AddSemPost, SemInv, S!SemaphoresExact
<1>8. ASSUME NEW r \in Readers, S!GetSemPost(r) PROVE SemInv'
  <2>1. Inv'
    BY <1>8, <1>t DEF S!GetSemPost, S!Goto, SemInv, Inv, TypeOK, Labels, Inside
  <2>2. /\ S!Owing(Readers)' = S!Owing(Readers) \ {r} /\ r \in S!Owing(Readers)
        /\ S!Granted(Readers)' = S!Granted(Readers)
        /\ S!Granted(Writers)' = S!Granted(Writers) /\ S!Owing(Writers)' = S!Owing(Writers)
    BY <1>8, <1>t DEF S!GetSemPost, S!Goto, S!Granted, S!Owing, SemInv, Inv, TypeOK
  <2>3. GR' = GR /\ GW' = GW /\ OR' = OR - 1 /\ OW' = OW
    BY <2>2, <1>c
  <2> QED
    BY SameCardinality, <1>8, <2>1, <2>3, <1>e, <1>n, <1>t
       DEF S!GetSemPost, SemInv, S!SemaphoresExact
<1>9. CASE S!PrintStats /\ UNCHANGED <<empty, full>>
  <2>1. Inv'
    BY <1>9, <1>t DEF S!PrintStats, S!Goto, SemInv, Inv, TypeOK, Labels, Inside
  <2>2. GR' = GR /\ GW' = GW /\ OR' = OR /\ OW' = OW
    BY <1>9, <1>t DEF S!PrintStats, S!Goto, S!Granted, S!Owing, SemInv, Inv, TypeOK
  <2> QED
    BY SameCardinality, <1>9, <2>1, <2>2, <1>e, <1>t
       DEF S!PrintStats, SemInv, S!SemaphoresExact
<1>10. CASE UNCHANGED S!semVars
  BY <1>10 DEF S!semVars, S!vars, SemInv, Inv, TypeOK, Inside, S!SemaphoresExact,
               S!Granted, S!Owing
<1>11. ASSUME NEW w \in Writers, S!writer(w) PROVE SemInv'
  BY <1>1, <1>2, <1>3, <1>5, <1>7, <1>11, <1>t DEF S!writer
<1>12. ASSUME NEW r \in Readers, S!reader(r) PROVE SemInv'
  BY <1>1, <1>2, <1>4, <1>6, <1>8, <1>12, <1>t DEF S!reader
<1>13. CASE S!MonitorQueue
  BY <1>1, <1>9, <1>13, <1>t DEF S!MonitorQueue, S!Monitor, S!MutexLock
<1> QED
  BY <1>10, <1>11, <1>12, <1>13 DEF S!Next

\* 2.2g.c: every value is in exactly one hand.
THEOREM SemaphoresCount == S!Spec => []S!SemaphoresExact
<1>1. SemInv => S!SemaphoresExact
  BY DEF SemInv
<1> QED
  BY SemInit, SemStep, <1>1, PTL DEF S!Spec
\* Seen through iBar, the add under the mutex is Put and the get is Get; the waits
\* for the semaphores and their posts change nothing.
LEMMA SemRefines ==
  ASSUME SemInv, [S!Next]_(S!semVars)
  PROVE  [Q!Next]_<<list, iBar, val>>
<1> USE DEF S!Goto
<1> DEFINE Quiet == UNCHANGED <<list, iBar, val>>
<1>t. /\ Readers \in SUBSET Threads /\ Writers \in SUBSET Threads
      /\ qmonitor \in Threads /\ Readers \cap Writers = {} /\ qmonitor \notin Writers
      /\ pc \in [Threads -> Labels] /\ i \in [Writers -> Ints] /\ list \in Seq(Ints)
  BY QueueAssumption DEF Threads, SemInv, Inv, TypeOK
<1>1. ASSUME NEW t \in Threads, S!MutexLock(t) PROVE Quiet
  BY <1>1, <1>t DEF S!MutexLock, S!Lock, iBar
<1>2. ASSUME NEW t \in Threads, S!Unlock(t) PROVE Quiet
  BY <1>2, <1>t DEF S!Unlock, iBar
<1>3. ASSUME NEW w \in Writers, S!AddSemWait(w) PROVE Quiet
  BY <1>3, <1>t DEF S!AddSemWait, iBar
<1>4. ASSUME NEW r \in Readers, S!GetSemWait(r) PROVE Quiet
  BY <1>4, <1>t DEF S!GetSemWait, iBar
<1>5. ASSUME NEW w \in Writers, S!queue_add(w) PROVE Q!Put(w)
  <2>1. w \in S!Granted(Writers)
    BY <1>5 DEF S!queue_add, S!Granted
  <2>2. Len(list) < max_count
    <3>1. /\ Cardinality(S!Granted(Writers)) >= 1 /\ Cardinality(S!Granted(Writers)) \in Nat
          /\ Cardinality(S!Owing(Readers)) \in Nat
      BY <2>1, GrantsFinite, CountOne
    <3>2. /\ max_count - count = empty + Cardinality(S!Granted(Writers))
                                       + Cardinality(S!Owing(Readers))
          /\ empty \in Nat /\ count = Len(list) /\ count \in 0..max_count
      BY SameCardinality DEF SemInv, S!SemaphoresExact, Inv, TypeOK
    <3> QED
      BY <3>1, <3>2, QueueAssumption
  <2>3. iBar[w] = i[w]
    BY <1>5 DEF S!queue_add, iBar
  <2>4. iBar' = [iBar EXCEPT ![w] = (@ + 1) % IntRange]
    BY <1>5, <1>t DEF S!queue_add, iBar
  <2> QED
    BY <1>5, <2>2, <2>3, <2>4 DEF S!queue_add, Q!Put
<1>6. ASSUME NEW r \in Readers, S!queue_get(r) PROVE Q!Get(r)
  <2>1. r \in S!Granted(Readers)
    BY <1>6 DEF S!queue_get, S!Granted
  <2>2. list # <<>>
    <3>1. /\ Cardinality(S!Granted(Readers)) >= 1 /\ Cardinality(S!Granted(Readers)) \in Nat
          /\ Cardinality(S!Owing(Writers)) \in Nat
      BY <2>1, GrantsFinite, CountOne
    <3>2. /\ count = full + Cardinality(S!Granted(Readers)) + Cardinality(S!Owing(Writers))
          /\ full \in Nat /\ count = Len(list)
      BY SameCardinality DEF SemInv, S!SemaphoresExact, Inv
    <3> QED
      BY <3>1, <3>2
  <2>3. iBar' = iBar
    BY <1>6, <1>t DEF S!queue_get, iBar
  <2> QED
    BY <1>6, <2>2, <2>3 DEF S!queue_get, Q!Get
<1>7. ASSUME NEW w \in Writers, S!AddSemPost(w) PROVE Quiet
  BY <1>7, <1>t DEF S!AddSemPost, iBar
<1>8. ASSUME NEW r \in Readers, S!GetSemPost(r) PROVE Quiet
  BY <1>8, <1>t DEF S!GetSemPost, iBar
<1>9. CASE S!PrintStats
  BY <1>9, <1>t DEF S!PrintStats, iBar
<1>10. CASE UNCHANGED S!semVars
  BY <1>10 DEF S!semVars, S!vars, iBar
<1>11. ASSUME NEW w \in Writers, S!writer(w) PROVE Quiet \/ Q!Put(w)
  BY <1>1, <1>2, <1>3, <1>5, <1>7, <1>11, <1>t DEF S!writer
<1>12. ASSUME NEW r \in Readers, S!reader(r) PROVE Quiet \/ Q!Get(r)
  BY <1>1, <1>2, <1>4, <1>6, <1>8, <1>12, <1>t DEF S!reader
<1>13. CASE S!MonitorQueue
  BY <1>1, <1>9, <1>13, <1>t DEF S!MonitorQueue, S!Monitor, S!MutexLock
<1> QED
  BY <1>10, <1>11, <1>12, <1>13 DEF S!Next, Q!Next

\* Nothing has been put or taken when queue_init returns.
LEMMA FifoInit == QueueInit /\ (\A w \in Writers : pc[w] \in {"lock", "sem"}) => Q!Init
<1> SUFFICES ASSUME QueueInit, \A w \in Writers : pc[w] \in {"lock", "sem"} PROVE Q!Init
  OBVIOUS
<1>1. iBar = [w \in Writers |-> 0]
  BY DEF QueueInit, iBar
<1> QED
  BY <1>1 DEF QueueInit, Q!Init

\* The queue with semaphores implements the bounded first-in first-out queue,
\* although its calls look neither at the counter nor at q->first.
THEOREM SemImplementsFifo == S!Spec => FifoSpec
<1>1. S!Init => Q!Init
  BY FifoInit DEF S!Init, S!QueueInit, QueueInit, S!Threads
<1>2. SemInv /\ [S!Next]_(S!semVars) => [Q!Next]_<<list, iBar, val>>
  BY SemRefines
<1> QED
  BY SemInit, SemStep, <1>1, <1>2, PTL DEF S!Spec, FifoSpec, Q!Spec

-----------------------------------------------------------------------------
(* The queue whose calls return 0, 2.2e.c *)

\* Every step of 2.2e.c preserves the invariant of QueueThreads.
LEMMA TryStep == Inv /\ [T!Next]_(T!vars) => Inv'
<1> SUFFICES ASSUME Inv, [T!Next]_(T!vars) PROVE Inv'
  OBVIOUS
<1> USE QueueAssumption DEF Inv, TypeOK, Labels, Inside, T!Goto
<1>1. ASSUME NEW t \in Threads, T!Lock(t) PROVE Inv'
  BY <1>1 DEF T!Lock, Threads
<1>2. ASSUME NEW t \in Threads, T!ReturnZero(t) PROVE Inv'
  BY <1>2 DEF T!ReturnZero, Threads
<1>3. ASSUME NEW w \in Writers, T!queue_add(w) PROVE Inv'
  <2>1. w \in Threads /\ i[w] \in Ints
    BY DEF Threads
  <2>2. count' \in 0..max_count /\ count' = Len(list') /\ list' \in Seq(Ints)
    BY <1>3, <2>1 DEF T!queue_add
  <2> QED
    BY <1>3, <2>1, <2>2 DEF T!queue_add
<1>4. ASSUME NEW w \in Writers, T!AddUnlock(w) PROVE Inv'
  <2>1. w \in Threads
    BY DEF Threads
  <2>2. i' \in [Writers -> Ints]
    BY <1>4, Wraps DEF T!AddUnlock
  <2>3. \A t \in Threads : Inside(t)' <=> mutex' = t
    BY <1>4, <2>1 DEF T!AddUnlock, Threads
  <2> QED
    BY <1>4, <2>1, <2>2, <2>3 DEF T!AddUnlock
<1>5. ASSUME NEW r \in Readers, T!queue_get(r) PROVE Inv'
  <2>1. r \in Threads
    BY DEF Threads
  <2>2. list # <<>>
    BY <1>5 DEF T!queue_get
  <2>3. /\ Head(list) \in Ints
        /\ Tail(list) \in Seq(Ints)
        /\ Len(Tail(list)) = Len(list) - 1
    BY <2>2
  <2>4. count' \in 0..max_count /\ count' = Len(list') /\ list' \in Seq(Ints)
    BY <1>5, <2>3 DEF T!queue_get
  <2> QED
    BY <1>5, <2>1, <2>3, <2>4 DEF T!queue_get
<1>6. ASSUME NEW r \in Readers, T!GetUnlock(r) PROVE Inv'
  BY <1>6 DEF T!GetUnlock, Threads
<1>7. CASE T!PrintStats
  BY <1>7 DEF T!PrintStats, Threads
<1>8. CASE UNCHANGED T!vars
  BY <1>8 DEF T!vars
<1>9. ASSUME NEW w \in Writers, T!writer(w) PROVE Inv'
  BY <1>1, <1>2, <1>3, <1>4, <1>9 DEF T!writer, T!AddFull, Threads
<1>10. ASSUME NEW r \in Readers, T!reader(r) PROVE Inv'
  BY <1>1, <1>2, <1>5, <1>6, <1>10 DEF T!reader, T!GetEmpty, Threads
<1>11. CASE T!Monitor
  BY <1>1, <1>7, <1>11 DEF T!Monitor, Threads
<1> QED
  BY <1>8, <1>9, <1>10, <1>11 DEF T!Next

\* A call that returns 0 changes nothing; the others are Put and Get.
LEMMA TryRefines ==
  ASSUME Inv, [T!Next]_(T!vars)
  PROVE  [Q!Next]_<<list, iBar, val>>
<1> USE QueueAssumption DEF Inv, TypeOK, Labels, T!Goto
<1> DEFINE Quiet == UNCHANGED <<list, iBar, val>>
<1>1. ASSUME NEW t \in Threads, T!Lock(t) PROVE Quiet
  BY <1>1 DEF T!Lock, Threads, iBar
<1>2. ASSUME NEW t \in Threads, T!ReturnZero(t) PROVE Quiet
  BY <1>2 DEF T!ReturnZero, Threads, iBar
<1>3. ASSUME NEW w \in Writers, T!queue_add(w) PROVE Q!Put(w)
  <2>1. Len(list) < max_count
    BY <1>3 DEF T!queue_add
  <2>2. iBar[w] = i[w]
    BY <1>3 DEF T!queue_add, iBar
  <2>3. iBar' = [iBar EXCEPT ![w] = (@ + 1) % IntRange]
    BY <1>3 DEF T!queue_add, iBar, Threads
  <2> QED
    BY <1>3, <2>1, <2>2, <2>3 DEF T!queue_add, Q!Put
<1>4. ASSUME NEW w \in Writers, T!AddUnlock(w) PROVE Quiet
  BY <1>4 DEF T!AddUnlock, Threads, iBar
<1>5. ASSUME NEW r \in Readers, T!queue_get(r) PROVE Q!Get(r)
  <2>1. list # <<>>
    BY <1>5 DEF T!queue_get
  <2>2. iBar' = iBar
    BY <1>5 DEF T!queue_get, iBar, Threads
  <2> QED
    BY <1>5, <2>1, <2>2 DEF T!queue_get, Q!Get
<1>6. ASSUME NEW r \in Readers, T!GetUnlock(r) PROVE Quiet
  BY <1>6 DEF T!GetUnlock, Threads, iBar
<1>7. CASE T!PrintStats
  BY <1>7 DEF T!PrintStats, Threads, iBar
<1>8. CASE UNCHANGED T!vars
  BY <1>8 DEF T!vars, iBar
<1>9. ASSUME NEW w \in Writers, T!writer(w) PROVE Quiet \/ Q!Put(w)
  BY <1>1, <1>2, <1>3, <1>4, <1>9 DEF T!writer, T!AddFull, Threads
<1>10. ASSUME NEW r \in Readers, T!reader(r) PROVE Quiet \/ Q!Get(r)
  BY <1>1, <1>2, <1>5, <1>6, <1>10 DEF T!reader, T!GetEmpty, Threads
<1>11. CASE T!Monitor
  BY <1>1, <1>7, <1>11 DEF T!Monitor, Threads
<1> QED
  BY <1>8, <1>9, <1>10, <1>11 DEF T!Next, Q!Next
\* So does the queue whose calls give up.
THEOREM TryImplementsFifo == T!Spec => FifoSpec
<1>1. T!Init => Q!Init
  BY FifoInit DEF T!Init, T!QueueInit, QueueInit, T!Threads
<1>2. T!Init => Inv
  BY InitInv DEF T!Init, T!QueueInit, QueueInit, T!Threads, Init, Threads
<1>3. Inv /\ [T!Next]_(T!vars) => [Q!Next]_<<list, iBar, val>>
  BY TryRefines
<1> QED
  BY TryStep, <1>1, <1>2, <1>3, PTL DEF T!Spec, FifoSpec, Q!Spec

-----------------------------------------------------------------------------
(* The linked programs *)

\* A step of the linked program is a step of its queue.
LEMMA LinkStep ==
  ASSUME program \in {"2.2f", "2.2g", "2.2e"}, [LinkNext]_linkVars
  PROVE  /\ program' = program
         /\ program = "2.2f" => [Next]_vars
         /\ program = "2.2g" => [S!Next]_(S!semVars)
         /\ program = "2.2e" => [T!Next]_(T!vars)
<1>1. CASE UNCHANGED linkVars
  BY <1>1 DEF linkVars, vars, S!semVars, S!vars, T!vars
<1>2. ASSUME NEW w \in Writers, Writer(w)
      PROVE  /\ program' = program
             /\ program = "2.2f" => Next
             /\ program = "2.2g" => S!Next
             /\ program = "2.2e" => T!Next
  BY <1>2 DEF Writer, Linked, Next, S!Next, T!Next
<1>3. ASSUME NEW r \in Readers, Reader(r)
      PROVE  /\ program' = program
             /\ program = "2.2f" => Next
             /\ program = "2.2g" => S!Next
             /\ program = "2.2e" => T!Next
  BY <1>3 DEF Reader, Linked, Next, S!Next, T!Next
<1>4. CASE \E t \in Writers \cup Readers : Linked("2.2f", SpuriousWakeup(t))
  BY <1>4 DEF Linked, Next
<1>5. CASE Lock(qmonitor) /\ UNCHANGED <<program, empty, full>>
  BY <1>5 DEF Lock, S!Lock, T!Lock, Goto, S!Goto, T!Goto, Monitor, S!Monitor, T!Monitor,
              S!MonitorQueue, Next, S!Next, T!Next
<1>6. CASE Stats
  BY <1>6 DEF Stats, PrintStats, S!PrintStats, T!PrintStats, Goto, S!Goto, T!Goto, Monitor,
              S!Monitor, T!Monitor, S!MonitorQueue, Next, S!Next, T!Next
<1> QED
  BY <1>1, <1>2, <1>3, <1>4, <1>5, <1>6 DEF LinkNext

\* Where nobody waits for a condition variable no signal can be missing.
LEMMA NobodyMissesSignals == NobodyWaits => NoLostSignal
  BY DEF NobodyWaits, NoLostSignal, Blocked, Threads

\* The threads of 2.2g.c and 2.2e.c never wait for a condition variable.
LEMMA NobodyWaitsStep ==
  ASSUME TypeOK, NobodyWaits, [S!Next]_(S!semVars) \/ [T!Next]_(T!vars)
  PROVE  NobodyWaits'
<1> USE DEF NobodyWaits, TypeOK
<1>1. ASSUME NEW t, NEW from, NEW to, S!Goto(t, from, to), to \notin {"wait", "signal"}
      PROVE  NobodyWaits'
  BY <1>1 DEF S!Goto
<1>2. ASSUME NEW t, NEW from, NEW to, T!Goto(t, from, to), to \notin {"wait", "signal"}
      PROVE  NobodyWaits'
  BY <1>2 DEF T!Goto
<1>3. CASE UNCHANGED pc
  BY <1>3
<1>4. ASSUME NEW w \in Writers, S!writer(w) PROVE NobodyWaits'
  BY <1>1, <1>4 DEF S!writer, S!AddSemWait, S!MutexLock, S!Lock, S!queue_add, S!Unlock,
                    S!AddSemPost
<1>5. ASSUME NEW r \in Readers, S!reader(r) PROVE NobodyWaits'
  BY <1>1, <1>5 DEF S!reader, S!GetSemWait, S!MutexLock, S!Lock, S!queue_get, S!Unlock,
                    S!GetSemPost
<1>6. CASE S!MonitorQueue
  BY <1>1, <1>6 DEF S!MonitorQueue, S!Monitor, S!Lock, S!PrintStats
<1>7. ASSUME NEW w \in Writers, T!writer(w) PROVE NobodyWaits'
  BY <1>2, <1>7 DEF T!writer, T!Lock, T!AddFull, T!ReturnZero, T!queue_add, T!AddUnlock
<1>8. ASSUME NEW r \in Readers, T!reader(r) PROVE NobodyWaits'
  BY <1>2, <1>8 DEF T!reader, T!Lock, T!GetEmpty, T!ReturnZero, T!queue_get, T!GetUnlock
<1>9. CASE T!Monitor
  BY <1>2, <1>9 DEF T!Monitor, T!Lock, T!PrintStats
<1> QED
  BY <1>3, <1>4, <1>5, <1>6, <1>7, <1>8, <1>9
     DEF S!Next, T!Next, S!semVars, S!vars, T!vars

\* Each program starts as its queue does.
LEMMA LinkInitInv == LinkInit => LinkInv /\ Q!Init
<1> SUFFICES ASSUME LinkInit PROVE LinkInv /\ Q!Init
  OBVIOUS
<1>1. CASE program = "2.2f" /\ Init
  BY <1>1, InitInv, InitNoLostSignal, FifoInit DEF Init, LinkInv, Threads
<1>2. CASE program = "2.2g" /\ S!Init
  <2>1. NobodyWaits
    BY <1>2 DEF S!Init, NobodyWaits, S!Threads, Threads
  <2>2. Q!Init
    BY <1>2, FifoInit DEF S!Init, S!QueueInit, QueueInit, S!Threads
  <2> QED
    BY <1>2, <2>1, <2>2, SemInit, NobodyMissesSignals DEF LinkInv, SemInv
<1>3. CASE program = "2.2e" /\ T!Init
  <2>1. Init
    BY <1>3 DEF T!Init, T!QueueInit, Init, QueueInit, T!Threads, Threads
  <2>2. NobodyWaits
    BY <2>1 DEF Init, NobodyWaits
  <2>3. Q!Init
    BY <2>1, FifoInit DEF Init, Threads
  <2> QED
    BY <1>3, <2>1, <2>2, <2>3, InitInv, NobodyMissesSignals DEF LinkInv
<1> QED
  BY <1>1, <1>2, <1>3 DEF LinkInit

\* Every step of the linked program preserves the invariant of its queue, and is
\* one of the bounded first-in first-out queue.
LEMMA LinkStepInv ==
  ASSUME LinkInv, [LinkNext]_linkVars
  PROVE  LinkInv' /\ [Q!Next]_<<list, iBar, val>>
<1>1. program' = program
  BY LinkStep DEF LinkInv
<1>2. CASE program = "2.2f"
  <2>1. [Next]_vars
    BY <1>2, LinkStep DEF LinkInv
  <2>2. Inv' /\ NoLostSignal'
    BY <2>1, StepInv, StepNoLostSignal DEF LinkInv
  <2> QED
    BY <1>1, <1>2, <2>1, <2>2, StepRefines DEF LinkInv
<1>3. CASE program = "2.2g"
  <2>1. [S!Next]_(S!semVars)
    BY <1>3, LinkStep DEF LinkInv
  <2>2. SemInv'
    BY <1>3, <2>1, SemStep DEF LinkInv
  <2>3. NobodyWaits'
    BY <1>3, <2>1, NobodyWaitsStep DEF LinkInv, Inv
  <2>4. NoLostSignal'
    BY <2>3 DEF NobodyWaits, NoLostSignal, Blocked, Threads
  <2> QED
    BY <1>1, <1>3, <2>1, <2>2, <2>3, <2>4, SemRefines DEF LinkInv, SemInv
<1>4. CASE program = "2.2e"
  <2>1. [T!Next]_(T!vars)
    BY <1>4, LinkStep DEF LinkInv
  <2>2. Inv'
    BY <2>1, TryStep DEF LinkInv
  <2>3. NobodyWaits'
    BY <1>4, <2>1, NobodyWaitsStep DEF LinkInv, Inv
  <2>4. NoLostSignal'
    BY <2>3 DEF NobodyWaits, NoLostSignal, Blocked, Threads
  <2> QED
    BY <1>1, <1>4, <2>1, <2>2, <2>3, <2>4, TryRefines DEF LinkInv
<1> QED
  BY <1>2, <1>3, <1>4 DEF LinkInv

\* Each of 2.2f-threads, 2.2g-threads and 2.2e-threads keeps its types, loses no
\* signal and counts its semaphores exactly.
THEOREM ProgramsSafe == LinkSpec => [](TypeOK /\ NoLostSignal /\ SemaphoresExact)
<1>1. LinkInv => TypeOK /\ NoLostSignal /\ SemaphoresExact
  BY DEF LinkInv, Inv, SemInv, SemaphoresExact
<1>2. LinkInv /\ [LinkNext]_linkVars => LinkInv'
  BY LinkStepInv
<1> QED
  BY LinkInitInv, <1>1, <1>2, PTL DEF LinkSpec

\* Each of them is a bounded first-in first-out queue.
THEOREM ProgramsImplementFifo == LinkSpec => FifoSpec
<1>1. LinkInv /\ [LinkNext]_linkVars => LinkInv' /\ [Q!Next]_<<list, iBar, val>>
  BY LinkStepInv
<1> QED
  BY LinkInitInv, <1>1, PTL DEF LinkSpec, FifoSpec, Q!Spec
=============================================================================
