---------------------------- MODULE QueueThreads ----------------------------
(***************************************************************************)
(* What the queue programs of sync/ have in common: the queue_t of         *)
(* queue.h, its mutex, and the threads of 2.2d.c that use it.  Writers add *)
(* their counters, readers take values out, and the monitor locks the      *)
(* queue to print its statistics.  The Makefile links 2.2d.c with one of   *)
(* several implementations: see QueueCond, QueueSem and QueueTry.          *)
(*                                                                         *)
(* "list" is the chain of nodes from q->first to q->last, which only the   *)
(* owner of q->mutex touches.  Integers wrap around at IntRange.           *)
(***************************************************************************)
EXTENDS Naturals, Sequences, FiniteSets

CONSTANTS Writers, Readers, qmonitor, max_count, IntRange, None

ASSUME QueueAssumption ==
    /\ max_count \in Nat \ {0}
    /\ IntRange \in Nat \ {0}
    /\ IsFiniteSet(Writers) /\ IsFiniteSet(Readers)
    /\ Writers \cap Readers = {}
    /\ qmonitor \notin Writers \cup Readers
    /\ None \notin Writers \cup Readers \cup {qmonitor}

VARIABLES list, count, mutex, pc, i, val

vars == <<list, count, mutex, pc, i, val>>

\* main creates the readers and the writers, queue_init the monitor.
Threads == Writers \cup Readers \cup {qmonitor}
Ints == 0..IntRange - 1

\* queue_init, up to where the threads stand.
QueueInit ==
    /\ list = <<>>
    /\ count = 0
    /\ mutex = None
    /\ i = [w \in Writers |-> 0]
    /\ val = [r \in Readers |-> 0]

Goto(t, from, to) ==
    /\ pc[t] = from
    /\ pc' = [pc EXCEPT ![t] = to]

\* pthread_mutex_lock returns (or, in QueueCond, pthread_cond_wait does).
Lock(t) ==
    /\ mutex = None
    /\ Goto(t, "lock", "test")
    /\ mutex' = t
    /\ UNCHANGED <<list, count, i, val>>

\* qmonitor: queue_print_stats, again and again.
PrintStats ==
    /\ Goto(qmonitor, "test", "lock")
    /\ mutex' = None
    /\ UNCHANGED <<list, count, i, val>>

Monitor == Lock(qmonitor) \/ PrintStats

-----------------------------------------------------------------------------
(* Properties *)

Labels == {"sem", "lock", "test", "wait", "signal", "unlock", "post"}

TypeOK ==
    /\ list \in Seq(Ints)
    /\ count \in 0..max_count
    /\ mutex \in Threads \cup {None}
    /\ pc \in [Threads -> Labels]
    /\ i \in [Writers -> Ints]
    /\ val \in [Readers -> Ints]

\* The inductive invariant: the counter that the calls test is the length of the
\* list, and exactly the owner of the mutex is inside it.
Inside(t) == pc[t] \in {"test", "signal", "unlock"}

Inv ==
    /\ TypeOK
    /\ count = Len(list)
    /\ \A t \in Threads : Inside(t) <=> mutex = t

\* A writer's counter as its callers see it: advanced by the add itself.
iBar == [w \in Writers |->
           IF pc[w] \in {"signal", "unlock", "post"}
           THEN (i[w] + 1) % IntRange ELSE i[w]]

Q == INSTANCE BoundedQueue WITH items <- list, i <- iBar

\* The calls are those of a bounded first-in first-out queue: every value comes
\* out once, in order, and neither an empty nor a full queue is touched.
FifoSpec == Q!Spec
=============================================================================
