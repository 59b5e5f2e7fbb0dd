------------------------------ MODULE QueueTry ------------------------------
(***************************************************************************)
(* The queue of sync/2.2e.c (and 2.2a-c.c, which has a spinlock in the     *)
(* place of the mutex): calls on a full or an empty queue return 0 and the *)
(* threads of 2.2d.c try again.                                            *)
(***************************************************************************)
EXTENDS QueueThreads

Init == QueueInit /\ pc = [t \in Threads |-> "lock"]

\* A call that found the queue full or empty unlocks and returns 0; the thread
\* continues its loop with the same value.
ReturnZero(t) ==
    /\ Goto(t, "test", "lock")
    /\ mutex' = None
    /\ UNCHANGED <<list, count, i, val>>

AddFull(w) == count = max_count /\ ReturnZero(w)

queue_add(w) ==
    /\ count # max_count
    /\ Goto(w, "test", "unlock")
    /\ list' = Append(list, i[w])
    /\ count' = count + 1
    /\ UNCHANGED <<mutex, i, val>>

\* The unlock ends queue_add, and the writer counts on.
AddUnlock(w) ==
    /\ Goto(w, "unlock", "lock")
    /\ mutex' = None
    /\ i' = [i EXCEPT ![w] = (@ + 1) % IntRange]
    /\ UNCHANGED <<list, count, val>>

writer(w) == Lock(w) \/ AddFull(w) \/ queue_add(w) \/ AddUnlock(w)

GetEmpty(r) == count = 0 /\ ReturnZero(r)

queue_get(r) ==
    /\ count # 0
    /\ Goto(r, "test", "unlock")
    /\ val' = [val EXCEPT ![r] = Head(list)]
    /\ list' = Tail(list)
    /\ count' = count - 1
    /\ UNCHANGED <<mutex, i>>

GetUnlock(r) ==
    /\ Goto(r, "unlock", "lock")
    /\ mutex' = None
    /\ UNCHANGED <<list, count, i, val>>

reader(r) == Lock(r) \/ GetEmpty(r) \/ queue_get(r) \/ GetUnlock(r)

Next ==
    \/ \E w \in Writers : writer(w)
    \/ \E r \in Readers : reader(r)
    \/ Monitor

Spec == Init /\ [][Next]_vars
=============================================================================
