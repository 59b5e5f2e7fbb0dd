------------------------------- MODULE Cluster -------------------------------
(***************************************************************************)
(* The program threads/lab1.8/cluster.c: main gives three workers to the   *)
(* thread pool, each of which runs a scheduler with its coroutines, sleeps *)
(* for ten seconds and destroys the pool and the map of the coroutines,    *)
(* whether or not the workers have finished.                               *)
(*                                                                         *)
(* When main returns or a thread dies of a fault, so do all the others.    *)
(***************************************************************************)
EXTENDS ThreadPool, Coroutines

VARIABLES
    main,       \* main's place
    todo        \* the workers that main has not yet tried to add

allVars == <<poolVars, coroVars, main, todo>>

MainAt(from, to) == main = from /\ main' = to

ClusterInit ==
    /\ PoolInit
    /\ CoroInit
    /\ main = "coro_init"
    /\ todo = Workers

MainInit ==
    /\ MainAt("coro_init", "create_pool")
    /\ coro_init
    /\ UNCHANGED <<poolVars, todo>>

\* main returns when there is no pool.
MainCreatePool ==
    /\ \/ MainAt("create_pool", "add") /\ create_thread_pool
       \/ MainAt("create_pool", "end") /\ CreateDeamonFails
    /\ UNCHANGED <<coroVars, todo>>

\* A step of add_thread.  The error of one that fails is only reported.
MainAdd ==
    /\ main = "add"
    /\ \/ /\ \E w \in todo :
                /\ \A u \in todo : w <= u
                /\ AddLock(w)
                /\ todo' = todo \ {w}
          /\ UNCHANGED coroVars
       \/ /\ AddCreate
          /\ pc' = [pc EXCEPT ![job] = "create"]
          /\ UNCHANGED <<coro_map_init_cnt, buckets, coro, tid, queue, running, stackVars, head,
                         fault, todo>>
       \/ /\ AddCreateFails \/ AddUnlock
          /\ UNCHANGED <<coroVars, todo>>
    /\ UNCHANGED main

\* sleep(10), which may be over before the workers are.
MainSleep ==
    /\ MainAt("add", "destroy")
    /\ todo = {} /\ call = "idle"
    /\ UNCHANGED <<poolVars, coroVars, todo>>

MainDestroy ==
    /\ main = "destroy"
    /\ destroy_thread_pool
    /\ main' = IF call' = "destroyed" THEN "coro_fini" ELSE "destroy"
    /\ UNCHANGED <<coroVars, todo>>

MainFini ==
    /\ main = "coro_fini"
    /\ coro_fini
    /\ main' = IF buckets' = NoMap THEN "end" ELSE "coro_fini"
    /\ UNCHANGED <<poolVars, todo>>

Main == MainInit \/ MainCreatePool \/ MainAdd \/ MainSleep \/ MainDestroy \/ MainFini

-----------------------------------------------------------------------------
ProcessAlive == main # "end" /\ fault = ""

Finished == {w \in Workers : pc[w] \in {"done", "failed"}}

Deamon == deamon_routine(Finished) /\ UNCHANGED <<coroVars, main, todo>>

Worker(w) == thread_worker(w) /\ UNCHANGED <<poolVars, main, todo>>

ProcessOver == ~ProcessAlive /\ UNCHANGED allVars

ClusterNext ==
    \/ ProcessAlive /\ Main
    \/ ProcessAlive /\ Deamon
    \/ \E w \in Workers : ProcessAlive /\ Worker(w)
    \/ ProcessOver

\* The operating system runs every thread of a process that is alive, and sleeps
\* end.  main gets the mutex in the end, although the deamon takes it again and
\* again: the deamon sleeps without it.
ClusterSpec ==
    /\ ClusterInit
    /\ [][ClusterNext]_allVars
    /\ SF_allVars(ProcessAlive /\ Main)
    /\ WF_allVars(ProcessAlive /\ Deamon)
    /\ \A w \in Workers : WF_allVars(ProcessAlive /\ Worker(w))

-----------------------------------------------------------------------------
(* Properties *)

TypeOK ==
    /\ PoolTypeOK(Workers)
    /\ CoroTypeOK
    /\ main \in {"coro_init", "create_pool", "add", "destroy", "coro_fini", "end"}
    /\ todo \subseteq Workers

\* The inductive invariant.  No worker exists before the map does, and main adds
\* each once.  Every slot is free, as create_thread leaves it so.
PoolAt ==
    /\ call \in {"none", "failed", "destroyed"} => threads = <<>>
    /\ call \notin {"none", "failed", "destroyed"} =>
          threads \in [1..CAPACITY -> [state : {"THREAD_FREE"}, thread : Workers \cup {None}]]

WorkersAt ==
    /\ main \in {"coro_init", "create_pool"} => \A w \in Workers : pc[w] = "unborn"
    /\ main = "coro_init" => buckets = NoMap
    /\ \A w \in todo : pc[w] = "unborn"
    /\ call = "add" => job \in Workers \ todo /\ pc[job] = "unborn"

ClusterInv == TypeOK /\ PoolAt /\ WorkersAt /\ CoroInv

\* main comes to its end, or the process dies, unless main is stuck in the pool
\* in one of the two known ways.
ClusterEnds == <>(~ProcessAlive \/ OwnerStuck)
=============================================================================
