---------------------------- MODULE MCCoroutines ----------------------------
(* Three threads, as many as cluster.c starts, from the moment when each has *)
(* created its coroutines and switched to its scheduler, and while main      *)
(* sleeps; their ids fall into the same bucket.                              *)
EXTENDS Coroutines

SchedulersInit ==
    /\ coro_map_init_cnt = 1
    /\ buckets = [b \in 0..MAP_CAPACITY - 1 |-> <<>>]
    /\ coro = [w \in Workers |-> <<>>]
    /\ tid \in {f \in [Workers -> Tids] : \A u, w \in Workers : u < w => f[u] < f[w]}
    /\ queue = [w \in Workers |-> [c \in Coros |-> c]]
    /\ running = [w \in Workers |-> NULL]
    /\ context = [w \in Workers |-> [c \in Coros |-> c]]
    /\ freed = [w \in Workers |-> {}]
    /\ count = [w \in Workers |-> [c \in Coros |-> 0]]
    /\ pc = [w \in Workers |-> "pop"]
    /\ head = [w \in Workers |-> <<>>]
    /\ fault = ""

SchedulersNext == fault = "" /\ \E w \in Workers : thread_worker(w)

SchedulersSpec == SchedulersInit /\ [][SchedulersNext]_coroVars
=============================================================================
