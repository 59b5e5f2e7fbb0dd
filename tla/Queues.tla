------------------------------- MODULE Queues -------------------------------
(***************************************************************************)
(* The programs that sync/Makefile links from 2.2d.c and one of the queue  *)
(* implementations: 2.2f-threads, 2.2g-threads and 2.2e-threads.           *)
(***************************************************************************)
EXTENDS QueueCond

VARIABLES program, empty, full

S == INSTANCE QueueSem
T == INSTANCE QueueTry

linkVars == <<vars, program, empty, full>>

LinkInit ==
    \/ program = "2.2f" /\ Init /\ empty = 0 /\ full = 0
    \/ program = "2.2g" /\ S!Init
    \/ program = "2.2e" /\ T!Init /\ empty = 0 /\ full = 0

\* A step of the linked program; only 2.2g has semaphores.
Linked(name, step) ==
    /\ program = name
    /\ step
    /\ UNCHANGED program
    /\ name # "2.2g" => UNCHANGED <<empty, full>>

Writer(w) ==
    \/ Linked("2.2f", writer(w))
    \/ Linked("2.2g", S!writer(w))
    \/ Linked("2.2e", T!writer(w))

Reader(r) ==
    \/ Linked("2.2f", reader(r))
    \/ Linked("2.2g", S!reader(r))
    \/ Linked("2.2e", T!reader(r))

Stats == PrintStats /\ UNCHANGED <<program, empty, full>>

LinkNext ==
    \/ \E w \in Writers : Writer(w)
    \/ \E r \in Readers : Reader(r)
    \/ \E t \in Writers \cup Readers : Linked("2.2f", SpuriousWakeup(t))
    \/ Lock(qmonitor) /\ UNCHANGED <<program, empty, full>>
    \/ Stats

\* Threads are scheduled, and one that finds a mutex free or a semaphore positive
\* again and again gets it: the mutex is held for a few instructions, and the
\* monitor sleeps between its turns.
LinkSpec ==
    /\ LinkInit
    /\ [][LinkNext]_linkVars
    /\ \A w \in Writers : SF_linkVars(Writer(w))
    /\ \A r \in Readers : SF_linkVars(Reader(r))
    /\ WF_linkVars(Stats)

-----------------------------------------------------------------------------
(* Properties *)

\* 2.2g-threads: see QueueSem.
SemaphoresExact == program = "2.2g" => S!SemaphoresExact

\* The inductive invariant.  Inv is that of QueueThreads; only 2.2f has threads that
\* wait for a condition variable.
NobodyWaits == \A t \in Threads : pc[t] \notin {"wait", "signal"}

SemInv ==
    /\ Inv
    /\ empty \in Nat /\ full \in Nat
    /\ S!SemaphoresExact

LinkInv ==
    /\ program \in {"2.2f", "2.2g", "2.2e"}
    /\ Inv
    /\ NoLostSignal
    /\ program # "2.2f" => NobodyWaits
    /\ program = "2.2g" => SemInv

\* In each program values keep coming out: the threads never all wait for each
\* other, nor does one side keep failing.
Progress == []<>(\E r \in Readers : pc[r] = "unlock")
=============================================================================
