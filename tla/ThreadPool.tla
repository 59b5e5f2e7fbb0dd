----------------------------- MODULE ThreadPool -----------------------------
(***************************************************************************)
(* The thread pool of threads/lab1.8/thread_pool/thread_pool.c (the proxy  *)
(* has a copy): its owner adds threads and destroys the pool, while a      *)
(* "deamon" thread joins the finished ones under the same mutex.           *)
(*                                                                         *)
(* "call" is the owner's place in the function it called, "deamon" the     *)
(* deamon's place in its loop.  pthread_mutex_lock is no cancellation      *)
(* point, pthread_testcancel and usleep are.  Failures of malloc, realloc, *)
(* pthread_mutex_init and pthread_cancel are left out; pthread_create may  *)
(* fail.                                                                   *)
(***************************************************************************)
EXTENDS Naturals, Sequences, FiniteSets

CONSTANTS None, CAPACITY, REALLOC_MAGIC

ASSUME PoolAssumption ==
    /\ CAPACITY \in Nat \ {0}
    /\ REALLOC_MAGIC \in Nat \ {0, 1}

VARIABLES
    threads,    \* the slots: state and thread of each
    mutex,      \* None, "owner" or "deamon"
    call, job, deamon,
    cancelled,  \* pthread_cancel was called for the deamon
    cancels,    \* and for these threads
    created,    \* the threads that pthread_create has started
    leaked      \* add_thread has returned with the mutex locked

poolVars == <<threads, mutex, call, job, deamon, cancelled, cancels, created, leaked>>

Free(n) == [i \in 1..n |-> [state |-> "THREAD_FREE", thread |-> None]]

PoolInit ==
    /\ threads = <<>>
    /\ mutex = None
    /\ call = "none" /\ job = None
    /\ deamon = "none"
    /\ cancelled = FALSE /\ leaked = FALSE
    /\ cancels = {} /\ created = {}

\* The slots, and the deamon.
create_thread_pool ==
    /\ call = "none"
    /\ threads' = Free(CAPACITY)
    /\ deamon' = "lock"
    /\ call' = "idle"
    /\ UNCHANGED <<mutex, job, cancelled, cancels, created, leaked>>

\* The deamon cannot be created; the pool is of no use.
CreateDeamonFails ==
    /\ call = "none"
    /\ call' = "failed"
    /\ UNCHANGED <<threads, mutex, job, deamon, cancelled, cancels, created, leaked>>

-----------------------------------------------------------------------------
(* add_thread *)

AddLock(w) ==
    /\ call = "idle"
    /\ mutex = None
    /\ mutex' = "owner"
    /\ call' = "add" /\ job' = w
    /\ UNCHANGED <<threads, deamon, cancelled, cancels, created, leaked>>

FreeSlots == {i \in DOMAIN threads : threads[i].state = "THREAD_FREE"}

\* The slots of a pool that has a free one.
Grown == IF FreeSlots # {} THEN threads
         ELSE threads \o Free((REALLOC_MAGIC - 1) * Len(threads))

\* The first free slot, which is the first new one when there was none.
Slot == IF FreeSlots # {} THEN CHOOSE i \in FreeSlots : \A j \in FreeSlots : i <= j
        ELSE Len(threads) + 1

\* create_thread leaves the state of the slot THREAD_FREE.
AddCreate ==
    /\ call = "add"
    /\ threads' = [Grown EXCEPT ![Slot] = [state |-> "THREAD_FREE", thread |-> job]]
    /\ created' = created \cup {job}
    /\ call' = "add_unlock"
    /\ UNCHANGED <<mutex, job, deamon, cancelled, cancels, leaked>>

\* pthread_create fails and the error is returned, with the mutex locked.
AddCreateFails ==
    /\ call = "add"
    /\ threads' = Grown
    /\ leaked' = TRUE
    /\ call' = "idle" /\ job' = None
    /\ UNCHANGED <<mutex, deamon, cancelled, cancels, created>>

\* Mutant: the mutex stays locked after a success, too.
AddUnlockForgotten ==
    /\ call = "add_unlock"
    /\ call' = "idle" /\ job' = None
    /\ UNCHANGED <<threads, mutex, deamon, cancelled, cancels, created, leaked>>

AddUnlock ==
    /\ call = "add_unlock"
    /\ mutex' = None
    /\ call' = "idle" /\ job' = None
    /\ UNCHANGED <<threads, deamon, cancelled, cancels, created, leaked>>

-----------------------------------------------------------------------------
(* destroy_thread_pool *)

DestroyLock ==
    /\ call = "idle"
    /\ mutex = None
    /\ mutex' = "owner"
    /\ call' = "cancel"
    /\ UNCHANGED <<threads, job, deamon, cancelled, cancels, created, leaked>>

DestroyCancel ==
    /\ call = "cancel"
    /\ cancelled' = TRUE
    /\ call' = "join"
    /\ UNCHANGED <<threads, mutex, job, deamon, cancels, created, leaked>>

\* The deamon is joined with the mutex held; then the recorded threads are
\* cancelled, and the mutex and the slots are destroyed.
DestroyJoin ==
    /\ call = "join"
    /\ deamon = "cancelled"
    /\ cancels' = cancels \cup {threads[i].thread : i \in DOMAIN threads \ FreeSlots}
    /\ mutex' = None
    /\ threads' = <<>>
    /\ call' = "destroyed"
    /\ UNCHANGED <<job, deamon, cancelled, created, leaked>>

destroy_thread_pool == DestroyLock \/ DestroyCancel \/ DestroyJoin

-----------------------------------------------------------------------------
(* deamon_routine *)

DeamonAt(from, to) == deamon = from /\ deamon' = to

DeamonLock ==
    /\ DeamonAt("lock", "scan")
    /\ mutex = None
    /\ mutex' = "deamon"
    /\ UNCHANGED <<threads, call, job, cancelled, cancels, created, leaked>>

\* is_thread_running for each recorded thread; those in done have finished.
DeamonScan(done) ==
    /\ DeamonAt("scan", "unlock")
    /\ threads' = [i \in DOMAIN threads |->
                     IF threads[i].thread \in done
                     THEN [threads[i] EXCEPT !.state = "THREAD_FREE"] ELSE threads[i]]
    /\ UNCHANGED <<mutex, call, job, cancelled, cancels, created, leaked>>

DeamonUnlock ==
    /\ DeamonAt("unlock", "testcancel")
    /\ mutex' = None
    /\ UNCHANGED <<threads, call, job, cancelled, cancels, created, leaked>>

\* pthread_testcancel, and the usleep after it.
DeamonRest ==
    /\ \/ DeamonAt("testcancel", IF cancelled THEN "cancelled" ELSE "usleep")
       \/ DeamonAt("usleep", IF cancelled THEN "cancelled" ELSE "lock")
    /\ UNCHANGED <<threads, mutex, call, job, cancelled, cancels, created, leaked>>

deamon_routine(done) == DeamonLock \/ DeamonScan(done) \/ DeamonUnlock \/ DeamonRest

-----------------------------------------------------------------------------
(* Properties *)

\* Jobs are the threads that the owner may add.
PoolTypeOK(Jobs) ==
    /\ \A i \in DOMAIN threads :
          threads[i] \in [state : {"THREAD_FREE", "THREAD_JOINED_BY_DEAMON"},
                          thread : Jobs \cup {None}]
    /\ mutex \in {None, "owner", "deamon"}
    /\ call \in {"none", "failed", "idle", "add", "add_unlock", "cancel", "join", "destroyed"}
    /\ job \in Jobs \cup {None}
    /\ deamon \in {"none", "lock", "scan", "unlock", "testcancel", "usleep", "cancelled"}
    /\ cancels \subseteq Jobs
    /\ created \subseteq Jobs
    /\ cancelled \in BOOLEAN /\ leaked \in BOOLEAN

\* The two ways in which the owner of a pool comes to wait for ever: it joins
\* the deamon, which waits for the mutex that the owner holds and is not
\* cancelled there; or a failed add_thread has left the mutex locked.
OwnerStuck ==
    \/ call = "join" /\ deamon = "lock"
    \/ leaked
=============================================================================
