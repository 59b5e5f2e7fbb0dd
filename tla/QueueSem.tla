------------------------------ MODULE QueueSem ------------------------------
(***************************************************************************)
(* The queue of sync/2.2g.c: a mutex, a semaphore "empty" that counts the  *)
(* free places and a semaphore "full" that counts the values.  The calls   *)
(* do not test the counter: a get takes the first node because a wait for  *)
(* "full" has returned.                                                    *)
(***************************************************************************)
EXTENDS QueueThreads

VARIABLES empty, full

semVars == <<vars, empty, full>>

\* queue_init: sem_init of both semaphores.
Init ==
    /\ QueueInit
    /\ empty = max_count
    /\ full = 0
    /\ pc = [t \in Threads |-> IF t = qmonitor THEN "lock" ELSE "sem"]

MutexLock(t) == Lock(t) /\ UNCHANGED <<empty, full>>

\* pthread_mutex_unlock, before the other side's semaphore is posted.
Unlock(t) ==
    /\ Goto(t, "unlock", "post")
    /\ mutex' = None
    /\ UNCHANGED <<list, count, i, val, empty, full>>

-----------------------------------------------------------------------------
(* queue_add, called by writer *)

\* sem_wait(&q->empty)
AddSemWait(w) ==
    /\ empty > 0
    /\ Goto(w, "sem", "lock")
    /\ empty' = empty - 1
    /\ UNCHANGED <<list, count, mutex, i, val, full>>

queue_add(w) ==
    /\ Goto(w, "test", "unlock")
    /\ list' = Append(list, i[w])
    /\ count' = count + 1
    /\ UNCHANGED <<mutex, i, val, empty, full>>

\* sem_post(&q->full) ends the call, and the writer counts on.
AddSemPost(w) ==
    /\ Goto(w, "post", "sem")
    /\ full' = full + 1
    /\ i' = [i EXCEPT ![w] = (@ + 1) % IntRange]
    /\ UNCHANGED <<list, count, mutex, val, empty>>

writer(w) ==
    AddSemWait(w) \/ MutexLock(w) \/ queue_add(w) \/ Unlock(w) \/ AddSemPost(w)

-----------------------------------------------------------------------------
(* queue_get, called by reader *)

\* sem_wait(&q->full)
GetSemWait(r) ==
    /\ full > 0
    /\ Goto(r, "sem", "lock")
    /\ full' = full - 1
    /\ UNCHANGED <<list, count, mutex, i, val, empty>>

queue_get(r) ==
    /\ Goto(r, "test", "unlock")
    /\ val' = [val EXCEPT ![r] = Head(list)]
    /\ list' = Tail(list)
    /\ count' = count - 1
    /\ UNCHANGED <<mutex, i, empty, full>>

\* Mutant: the reader posts the semaphore it has waited for.
GetSemPostWrong(r) ==
    /\ Goto(r, "post", "sem")
    /\ full' = full + 1
    /\ UNCHANGED <<list, count, mutex, i, val, empty>>

\* sem_post(&q->empty)
GetSemPost(r) ==
    /\ Goto(r, "post", "sem")
    /\ empty' = empty + 1
    /\ UNCHANGED <<list, count, mutex, i, val, full>>

reader(r) ==
    GetSemWait(r) \/ MutexLock(r) \/ queue_get(r) \/ Unlock(r) \/ GetSemPost(r)

-----------------------------------------------------------------------------
MonitorQueue == Monitor /\ UNCHANGED <<empty, full>>

Next ==
    \/ \E w \in Writers : writer(w)
    \/ \E r \in Readers : reader(r)
    \/ MonitorQueue

Spec == Init /\ [][Next]_semVars

-----------------------------------------------------------------------------
(* Properties *)

\* Threads that have passed their wait and not yet used what it granted, and
\* threads that have used it and not yet told the other side.
Granted(S) == {t \in S : pc[t] \in {"lock", "test"}}
Owing(S) == {t \in S : pc[t] \in {"unlock", "post"}}

\* Every value in the list is in exactly one hand: counted by "full", promised to
\* a reader whose wait has returned, or still to be posted by the writer that
\* added it; and so for free places.  This is why a get never finds q->first
\* null and an add never exceeds max_count, without looking at the counter.
SemaphoresExact ==
    /\ count = full + Cardinality(Granted(Readers)) + Cardinality(Owing(Writers))
    /\ max_count - count =
          empty + Cardinality(Granted(Writers)) + Cardinality(Owing(Readers))
=============================================================================
