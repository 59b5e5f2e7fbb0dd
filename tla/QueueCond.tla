------------------------------ MODULE QueueCond ------------------------------
(***************************************************************************)
(* The queue of sync/2.2f.c, with a mutex and two condition variables.     *)
(* The threads at "wait" are those blocked in pthread_cond_wait: readers   *)
(* on not_empty, writers on not_full.                                      *)
(***************************************************************************)
EXTENDS QueueThreads

\* Threads about to make their first call.
Init == QueueInit /\ pc = [t \in Threads |-> "lock"]

-----------------------------------------------------------------------------
(* pthread: the condition variables *)

\* pthread_cond_wait: the mutex is released and the thread blocks, in one step.
CondWait(t) ==
    /\ Goto(t, "test", "wait")
    /\ mutex' = None
    /\ UNCHANGED <<list, count, i, val>>

\* pthread_cond_signal wakes one of the threads blocked on the variable, if any.
CondSignal(t, blocked) ==
    /\ pc[t] = "signal"
    /\ \/ \E u \in blocked :
            pc' = [pc EXCEPT ![t] = "unlock", ![u] = "lock"]
       \/ /\ blocked = {}
          /\ pc' = [pc EXCEPT ![t] = "unlock"]
    /\ UNCHANGED <<list, count, mutex, i, val>>

\* A spurious wake-up.
SpuriousWakeup(t) ==
    /\ Goto(t, "wait", "lock")
    /\ UNCHANGED <<list, count, mutex, i, val>>

Blocked(S) == {t \in S : pc[t] = "wait"}

-----------------------------------------------------------------------------
(* queue_add, called by writer *)

\* while (q->count == q->max_count)
AddWait(w) == count = max_count /\ CondWait(w)

\* Mutant: the queue is not tested again after a wait.
AddAlways(w) ==
    /\ Goto(w, "test", "signal")
    /\ list' = Append(list, i[w])
    /\ count' = count + 1
    /\ UNCHANGED <<mutex, i, val>>

queue_add(w) ==
    /\ count # max_count
    /\ Goto(w, "test", "signal")
    /\ list' = Append(list, i[w])
    /\ count' = count + 1
    /\ UNCHANGED <<mutex, i, val>>

\* Mutant: the signal goes to the variable that writers wait for.
AddSignalWrong(w) == CondSignal(w, Blocked(Writers))

AddSignal(w) == CondSignal(w, Blocked(Readers))

\* The unlock ends queue_add, and the writer counts on.
AddUnlock(w) ==
    /\ Goto(w, "unlock", "lock")
    /\ mutex' = None
    /\ i' = [i EXCEPT ![w] = (@ + 1) % IntRange]
    /\ UNCHANGED <<list, count, val>>

writer(w) == Lock(w) \/ AddWait(w) \/ queue_add(w) \/ AddSignal(w) \/ AddUnlock(w)

-----------------------------------------------------------------------------
(* queue_get, called by reader *)

\* while (q->count == 0)
GetWait(r) == count = 0 /\ CondWait(r)

\* Mutant: the newest node is taken.
GetLast(r) ==
    /\ count # 0
    /\ Goto(r, "test", "signal")
    /\ val' = [val EXCEPT ![r] = list[Len(list)]]
    /\ list' = SubSeq(list, 1, Len(list) - 1)
    /\ count' = count - 1
    /\ UNCHANGED <<mutex, i>>

queue_get(r) ==
    /\ count # 0
    /\ Goto(r, "test", "signal")
    /\ val' = [val EXCEPT ![r] = Head(list)]
    /\ list' = Tail(list)
    /\ count' = count - 1
    /\ UNCHANGED <<mutex, i>>

\* Mutant: only a get from a full queue is signalled.
GetSignalIfWasFull(r) ==
    \/ count + 1 = max_count /\ CondSignal(r, Blocked(Writers))
    \/ /\ count + 1 # max_count
       /\ Goto(r, "signal", "unlock")
       /\ UNCHANGED <<list, count, mutex, i, val>>

GetSignal(r) == CondSignal(r, Blocked(Writers))

GetUnlock(r) ==
    /\ Goto(r, "unlock", "lock")
    /\ mutex' = None
    /\ UNCHANGED <<list, count, i, val>>

reader(r) == Lock(r) \/ GetWait(r) \/ queue_get(r) \/ GetSignal(r) \/ GetUnlock(r)

-----------------------------------------------------------------------------
Next ==
    \/ \E w \in Writers : writer(w)
    \/ \E r \in Readers : reader(r)
    \/ \E t \in Writers \cup Readers : SpuriousWakeup(t)
    \/ Monitor

Spec == Init /\ [][Next]_vars

-----------------------------------------------------------------------------
(* Properties *)

\* Of the two parties of a condition variable: the threads that still come to
\* test the queue, and those that still come to signal.
Coming(S) == {t \in S : pc[t] \in {"lock", "test"}}
Signalling(S) == {t \in S : pc[t] = "signal"}

\* No signal is lost: while readers are blocked there are no more values in the
\* queue than threads on their way to take one or to wake a reader; and so for
\* writers and free places.  One signal per value is enough, although signals
\* find nobody, waits end spuriously and others overtake the woken thread.
NoLostSignal ==
    /\ Blocked(Readers) # {} =>
          count <= Cardinality(Coming(Readers)) + Cardinality(Signalling(Writers))
    /\ Blocked(Writers) # {} =>
          max_count - count <=
              Cardinality(Coming(Writers)) + Cardinality(Signalling(Readers))
=============================================================================
