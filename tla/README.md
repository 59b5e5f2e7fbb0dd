# Verification of the proxy and of the synchronisation exercises

TLA+ models of the programs of this repository, TLC runs that check them on
small instances and TLAPS proofs for every size. `PROJECT.json` lists the
components, the runs, the mutants that show that each property can fail, the
lines each definition models, the findings, the hazards and the theorems.

Run a model with `tlc -config X.cfg M`, check proofs with `tlapm M.tla`.

## Inventory

| Component | State | Operations | What is hard |
|---|---|---|---|
| Cache (`proxy/src/cache/cache.c`) | buckets with a mutex, entries (data, is_loading, waiters), pending waiters | lookup, start, append, finish, cancel, collect, register, unregister | flags read without the lock that writes are made under; lists freed under others' feet |
| Backend (`domain/backend.c`) | one event loop per thread; per request a `write_req_t` | read_client, send_next_chunk, completions, notifications, free | callbacks against worker threads; lost notifications; handles reused while libuv owns them |
| Background worker (`background_worker.c`) | a task per miss | curl callback, finish, cancel | two workers on an entry; stop while loading; failing origins |
| Master (`master.c`) | backends and their client counters, pipes | accept, choose, add, hand over; collector thread | counters read while others change them; ignored failures; limits |
| Futex mutex, spinlock and their tests (`sync/2.4`) | one word each, the kernel's queue; a shared counter | lock, trylock, unlock; the tests | lost wake-ups between atomic accesses; lost increments |
| Node lists (`sync/2.3`) | linked nodes, a mutex or a read-write lock each | counting and swapping threads, stop and join | lock order in a list that changes, unlocked tests, places that are stale when they are locked again |
| Queues (`sync/2.2*.c`, `queue.c`) | list, counter, condition variables or semaphores | add, get, statistics, monitor | lost signals, spurious wake-ups, balance of semaphores and list |
| Thread pool (`thread_pool.c`, in `lab1.8` and in the proxy) | slots, mutex, deamon | add, scan, destroy | destroy against the deamon, errors under the mutex |
| Coroutines (`lab1.8/coroutines`, `cluster.c`) | a queue per scheduler, a map shared by all threads | create, run, yeild, finish, init, fini | unlocked map, map destroyed while it is used |
| User threads, clone threads, pthread exercises (`threads/`) | contexts, flags | create, switch, join | joins by polling |

The proxy's parts interact as follows. The master accepts a connection, picks a
backend and sends it the descriptor through a socket pair. The backend's loop
looks the key up in the shared cache. A finished entry is written at once. A miss
queues a worker, and the client streams: it sends what the entry has, registers
its `uv_async_t` with the entry (or, when there is none, with the bucket's
pending list) and goes on when the worker signals it or its write completes. The
worker fills the entry from curl's callback and notifies the registered clients;
the collector frees finished entries that nobody has used for DEFAULT_TTL.

The programs of `sync/` and `threads/` are separate. The Makefile of `sync/` links
the threads of `2.2d.c` with one queue implementation at a time; `tests.c` uses
both locks of `2.4`; `cluster.c` runs one scheduler of coroutines in each thread
of a thread pool.

## Modules

| Module | Models | Notes |
|---|---|---|
| `Lock` | - | abstract lock: acquired when free, released by its holder |
| `Mutex` | `mutex.c` | one action per atomic access or futex call |
| `SpinLock` | `spinlock.c` | one action per compare-and-swap; implements `Lock` |
| `SpinLockProofs` | | theorem about `SpinLock` |
| `LockTests` | `tests.c` | extends `Mutex`, instantiates `SpinLock`: the six tests of main and their workers |
| `LockTestsProofs` | | theorems about `Mutex` and `LockTests` |
| `NodeList` | `2.3-2.4.c` | one action per access to `next` or lock call; the three counting functions differ in the comparison only and are one action |
| `NodeListProofs` | | theorems about `NodeList` |
| `RwNodeList` | `2.3m.c` | instantiates `NodeList` for the steps without locks; read and write locks |
| `RwNodeListProofs` | | theorems about `RwNodeList`; instantiates `NodeListProofs` |
| `BoundedQueue` | `queue.h` | abstract FIFO queue |
| `QueueThreads` | `queue.h`, `2.2d.c` | what all queues share: list, mutex, monitor, types, invariant, refinement mapping |
| `QueueCond`, `QueueSem`, `QueueTry` | `2.2f.c`, `2.2g.c`, `2.2e.c` | three implementations of `BoundedQueue`, each extending `QueueThreads` |
| `Queues` | `Makefile`, `2.2d.c` | composes the three: the program that was linked |
| `QueuesProofs` | | theorems about the three queues and `Queues` |
| `ThreadPool` | `thread_pool.c` | the owner's calls and the deamon |
| `Coroutines` | `lab1.8/coroutines` | schedulers, queues and the map, step by step where threads share it |
| `Cluster` | `cluster.c` | extends `ThreadPool` and `Coroutines`: main and the workers |
| `ClusterProofs` | | theorems about `Cluster`, `Coroutines` and `ThreadPool` |
| `Cache` | `cache.c` | the bodies of the cache functions as operators |
| `Proxy` | `backend.c`, `background_worker.c`, collector | extends `Cache`; the steps of callbacks, workers and collector |
| `ProxyProofs` | | theorems about `Cache` and `Proxy` |
| `Master` | `master.c`, `read_pipe` | how connections reach backends |
| `MasterProofs` | | theorems about `Master` |

Correspondence and abstraction, module by module:

- `Mutex`: `state` is the word; `pc` names the next access of a thread; threads
  at `asleep` are the futex queue. A wait may return spuriously.
- `NodeList` uses the mutex as the lock that `Mutex` is proved to implement.
  `mutex_lock` always returns 0, so the error branches after it are dead and left
  out. The address passed to `mutex_lock` is evaluated in a step of its own
  (`tgt`). The unlocked reads of `next` are steps of their own too.
- `SpinLock`: a failed exchange of `spinlock_lock` changes nothing and is
  repeated, so only the successful one is a step. `LockTests` follows main through
  `Tests`, the operations of the three tests in order, first with the spinlock and
  then with the mutex (`step` counts through both, `place` is the place in `Tests`);
  a call of a lock takes as many steps as the lock's module says, and the next
  operation begins with the last of them. A test that prints FAILED is remembered in `failed`. That
  `pthread_create` succeeds is assumed.
- `RwNodeList`: `owner[n]` is the writer of a node and `rd[n]` its readers. A read
  lock is granted whenever there is no writer, glibc's default, even when a writer
  waits. The return codes of the lock calls are not modelled: the calls do not
  fail on initialised locks. The address of the next lock is read in the step that
  takes the lock protecting it, as nothing can change it in between.
- `QueueThreads` and its extensions: the list is a sequence, as only the mutex's
  owner touches it. Integers wrap around at `IntRange`, so the endless programs
  have finitely many states. The values a reader compares (`expected` in `2.2d.c`)
  need no variable: the refinement of `BoundedQueue` says that they come in order.
  The code has one writer and one reader; the modules allow any number. `2.2a-c.c`
  is `2.2e.c` with a `pthread_spinlock_t` instead of the mutex, and `QueueTry`
  stands for both. `queue_destroy` is not called by these programs.
- `ThreadPool`: `call` is the owner's place, `deamon` the deamon's; both block on
  the mutex. `pthread_mutex_lock` is no cancellation point, `pthread_testcancel`
  and `usleep` are. `create_thread` leaves its slot THREAD_FREE, as in the code,
  so every thread is recorded in the first slot. The proxy's copy has one more
  `pthread_testcancel` before the lock, which shortens the window of the deadlock
  and does not close it.
- `Coroutines`: a node of the map is `<<w, n>>`, the n-th that thread w has added,
  `coro[w][n]` the coroutine in it, and a bucket the sequence of its nodes (the
  `next` of a node is written once). An insertion is three steps (walk, read of the
  head, write of the head), so that one can overwrite another, and a third thread
  that had read the head before can bring the overwritten node back. `yeild` queues
  whatever coroutine the map names, running or not, and saves the stack that runs in
  that coroutine's context. So a coroutine and the stack on which its `count_task`
  runs are two things: `context[w][c]` is the stack saved in the context of c,
  `count[w][s]` the counter on stack s, and `freed[w]` the stacks that have finished.
  (The program is built without optimisation, so the counter lives on the stack, and
  resuming an older save of a stack resumes the same frame at the same call.)
  Running on a finished stack is a use of freed memory, and a `yeild` that finds
  nothing follows a null pointer; both end the process. main destroys the map in
  steps: the counter, the nodes one by one, the array. A freed node matches no
  thread's id, and any access to a map under destruction may end the process
  (`MapGone`). Each queue belongs to one thread, so its operations are single steps.
- `Cluster`: the ten seconds that main sleeps may be over at any time after the
  threads were added.
- `Cache`: the bytes of an entry are chunks, one per call of curl's callback,
  numbered by their place in the resource; an entry stays named in `heap` after
  it is freed, so that a use after it can be seen (`EntryLive`). `expired` stands
  for `last_accessed + default_ttl < now`. The collector takes a step per entry that
  it frees: `prev` in the code is the last entry it has passed that is neither
  loading nor freed, so one step unlinks the loading entries in front of the freed
  one with it. That the mutex is held from one of these steps to the next is left
  out, which only adds interleavings.
- `Proxy`: `pc` is where a request's callback stands, `loop` between callbacks;
  callbacks of a backend exclude each other, workers run beside them. A lookup is
  two steps, as it reads `is_loading` and `data_size` one after the other; the
  bucket's mutex excludes other lookups, registrations, collection and the start
  and cancellation of loads in between, but not appends and finishes. A worker's
  append is three steps (test, locked part, notification). `PACKET_SIZE` is in
  chunks. Reading from the client may fail while it is served (`ReadError`):
  libuv then takes the connection as not writable, `read_client` ignores the error,
  and the next `uv_write` is refused at once (`SendRefused`), which resets
  `write_pending` and leaves the offset advanced past bytes that were never sent. Other
  failed writes come through the callback (`WriteError`). The tasks are never
  freed: `free_task` returns at its first call and nobody makes a second.
  `Expire` leaves out that DEFAULT_TTL (100 s) passes within a worker's append or
  notification.
- `Master`: slot b is `backends[b - 1]`; `get_backend`'s loop is a step per
  counter. What a client does on its connection is in `Proxy`; here it is open
  until it is closed. Clients that leave without a request stay open, as in the
  code. Connection names are reused, so the number of names bounds only the
  clients at a time. The fault "receive" is a failing `uv_accept` in `read_pipe`: the
  connection is not counted, and stays open, since the master keeps its own handle on
  it. `SendFailed` stands also for a failing status in `on_client_sent_cb`. A failing
  `uv_pipe_open` in `run_backend` is left out: the code goes on after it has closed
  both ends of the pipe, and what the master then writes to is whatever was opened
  next under the same descriptor number.

## Runs

| Run | Instance | Result |
|---|---|---|
| `locks` | main and 3 workers, 2 iterations | the mutex implements `Lock`, no stranded sleeper, no test fails, the program ends |
| `nodelist` | 5 nodes, 1 counter, 2 swappers | list intact, no null lock, neighbours compared, program ends |
| `rwlist` | the same | list intact, no null lock, neighbours compared; a circular wait needs a swapper with a stale place |
| `queues` | 2 writers, 2 readers, capacity 2, three programs | FIFO, no lost signal, semaphores balanced, progress |
| `master` | 4 clients, 2 backends of 2, failures | array sufficient, no client sent to a slot that is not there, clients delivered |
| `stream` | 2 requests on one backend, answers of 1 or 2 chunks, failing reads and refused writes | waiters stay listed, joiners are served unless their connection fails, received data is a prefix of the resource |
| `faults` | 2 backends, one key, answers of 1 or 2 chunks, failing origins and writes, expiry | no overlapping writes, waiters and entries live, loads end in the cache, received data is a prefix of the resource |
| `cluster` | 2 workers with 2 coroutines that yield twice, 2 buckets, 3 thread ids | coroutines take turns and none is lost, a thread finds its running coroutine in the map or none, the process dies of the map only in the ways named, main ends but for two known hangs |
| `three_threads` | 3 schedulers in one bucket, yielding once | yields queue stale coroutines and overwrite contexts, yet no worker completes with a coroutine unfinished |
| `duplicate_load` | 2 requests, no faults | violated: two workers fill one entry |
| `collect_loading` | 2 keys in one bucket, expiry | violated: a loading entry is unlinked |
| `lost_wakeup` | 1 request | violated: the client registers too late |

Bounds. Three workers are the fewest with which one sleeps on the futex while two
others exchange the word; a second iteration lets a thread lock again while it is
still being waited for. Five nodes are the fewest for which two swaps overlap without being
equal. Two writers and two readers are the fewest with which a signal can be
overtaken by another thread of the same kind; `IntRange` is larger than the
capacity so that the values in the queue are distinct. Of the three thread ids of
`cluster` two share a bucket, so that both colliding and separate insertions
happen; two coroutines that yield twice meet the map in all its states.
`three_threads` starts where every scheduler has created its coroutines; three
threads in one bucket are the fewest with which a node can be brought back, and one
yield per coroutine is enough for a coroutine to be queued twice and another's
context to be overwritten (two yields make a run of many minutes). Two clients of a backend
and of two backends give all pairs of callbacks; two chunks let a client be
behind, level with and, after a failed and repeated load, ahead of the entry.
The two requests of `faults`
are interchangeable, each being alone on its backend, and the run, which checks
invariants only, uses that symmetry. With one key `faults` cannot meet the hazards of
keys that share a bucket or a path, nor of two loads of a key: `collect_loading` and
`duplicate_load` show two of them, and Findings the others. Refused writes are in
`stream`, because what libuv keeps of each connection multiplies the states of
`faults`. Four clients on two backends of two fill the
array exactly. In `stream`, `faults` and
`collect_loading` `ConcurrentMisses` is FALSE: a key is not requested while its load
is queued but not started. This restricts only the timing of clients, and sets
`duplicate_load` apart, which every later property would otherwise report again.

Deadlock is checked except for the proxy and the master, which may stop (a server
whose clients have all been served, or whose connections could not be sent, has
nothing to do), for `rwlist`, whose deadlock `DeadlockNeedsStalePlace` describes,
for `cluster`, where `ClusterEnds` names the two hangs, and for
`three_threads`, whose workers end or die.

The deadlock of `2.3m.c`: a swapper finds A, B, C and releases its read locks;
another exchanges B and C; the first then write-locks A and B and waits for C,
while a counter that walks A, C, B holds the read lock of C and waits for B. The
invariant shows that every circular wait contains such a swapper, so taking the
locks in list order is otherwise sound; the check at line 327, which would make
the swapper start over, comes after the locks.

Fairness. `LockTests`, `NodeList`: weak fairness of each thread (the scheduler
runs it when it can run; a lock that is taken is not enabled) and of main, whose
sleeps end. `Queues`: strong fairness of readers and writers, because a thread
must get a mutex that is free again and again; owners hold it for a few
instructions and the monitor sleeps. Spurious wake-ups have no fairness.
`Cluster`: strong fairness of main, which must get the pool's mutex although the
deamon takes it again and again (it sleeps 10 ms without it), weak fairness of
the deamon and the workers, while the process is alive.
`Proxy`: weak fairness of each request's callbacks and each worker: loops and
threads run, clients read, origins answer. Failures and expiry have none.
`Master`: weak fairness of the loops; strong fairness for a connection in the
backlog, which the kernel hands out in order.

## Proofs

`LockTestsProofs`, first about the mutex, for any set of threads. The inductive
invariant `Inv` is the types, mutual exclusion and that the word is 0 exactly when
nobody owns the mutex; the last is what makes a successful exchange from 0 safe.
From it follow `TypeOK`, `MutualExclusion`, and, step by step on top of it,
`NoStrandedWaiter`. The refinement maps `holder` to the one thread that owns the
mutex. Then about the tests, for any finite set of threads and any number of
iterations: `TestInv` says where each thread stands towards the lock under test
(`InCalls`), that the other lock is at rest, that a worker's register is what the
counter is while it is used (`InLoop`, from mutual exclusion), and that the counter
is the number of increments made (`CounterIs`, a cardinality that grows by one with
each store). So no test fails (`TestsPass`); and since main initialises a lock only
when nobody is in it, every step of the program is a step of `Mutex` and of
`SpinLock` or stutters, and the program's use of both implements `Lock`.

`SpinLockProofs`, for any set of threads: `Inv` says that at most one thread is
inside and that the word is 1 exactly when one is; with it each successful
exchange is an `Acquire` or a `Release` of `Lock` and each failed one a stutter.

`QueuesProofs`, for any finite sets of writers and readers, any capacity and any
integer range. `Inv` adds to the types that the counter is the length of the list
and that exactly the mutex's owner is inside a call. It gives `TypeOK` (the two
assertions in the code) and the refinement of `BoundedQueue`: an add is `Put`, a
get is `Get`, all other steps stutter; `iBar` advances a writer's counter at the
add, where the code does so after the call. `NoLostSignal` needs counting: the
sleepers of a kind, the threads of that kind that were woken and have not run, and
the places or values that are left, of which the invariant bounds the difference.
`SemaphoresExact` is an equation between both semaphores, the list and the threads
between a wait and a post, preserved step by step with the cardinality theorems of
the library; with it a `Get` of `QueueSem` never finds the list empty. The last two
theorems are about `Queues`: `LinkInv` is the invariant of the linked program, each
of whose steps is a step of one of the three.

`MasterProofs`, for any finite set of clients and any limits whose product is at
least the number of clients at a time (`MasterAssumption`: the code makes no test
of its own, and `NeverTooManyBackends` says what it relies on). `MasterInv` says
where each connection is (`PipeExact`, `SentToSlot`), that a count is the number of
the slot's open connections, and that the slots the master has scanned were full
when there is no room left (`ScannedFull`), from which a pigeonhole argument bounds
the backends. `ConnectionsReachBackends` assumes that the first backend can be
created; otherwise the code writes before the array.

`NodeListProofs`, for any number of nodes (at least four) and threads. `ListInv` says
that the list is the order of a permutation (`ListIntact`), who holds which node's
mutex, and for every place in the loops how the thread's pointers relate to the
list: two nodes whose locks it holds are neighbours, and the one it is about to
lock is the successor of one it holds, so that nobody else can move it. A swap then
exchanges two places of the permutation. That a walk comes to the end of the list
is an induction on the place, done with the least element of a set of places.

`RwNodeListProofs`, for any list of at least four nodes and any threads. `RwInv` says
which locks are held as a function of where the threads stand (`LocksExact`: a node
has one writer or readers), that a swapper's three nodes are different and none the
last even after it has released its read locks, and that they are neighbours while it
reads them and once it has looked again. From there a swap is the one of `NodeList`,
whose lemmas about the exchange are used through INSTANCE. `DeadlocksAreStale`: in a
circular wait without a stale place every thread wants a node behind all those it
holds, so the thread that wants the last of the wanted nodes waits for one that wants
a node further on, a contradiction.

`ClusterProofs`, for any workers, thread ids, coroutines, slots and buckets.
`ClusterInv` has four parts. Schedulers, for any number of rivals in the bucket
(`SlotsExact`): the stacks that have not finished are as many as the places in the
queue and the running coroutine together, a cardinality that a finish lowers by one on
both sides, whatever a yield queues. So an empty queue means that every stack has
finished (`CompletedRanAll`): a coroutine that is queued twice in another's place
leads to a freed stack first. With one rival at most (`InTurn`) the counts along the
queue do not decrease and differ by at most one, the running coroutine being the least
before it counts and the greatest after, and each context holds its own stack. This
gives `EachScheduledOnce` and `RoundRobin`, which are not inductive by themselves and
do not hold with two rivals. The map (`MapInv`): every node in a bucket, or in a
chain that a thread has read, was added by a thread of that bucket (`NodesAdded`);
and with at most one rival every node of a thread that is left, in the bucket or in
another thread's hand, is the one it added last (`MapKnows`). From both follows what
the process can die of (`DeathExplained`). The pool (`PoolAt`, `WorkersAt`): all slots
are free, workers are born after the map exists and each is added once. An attempt
at a stronger `YeildFindsItself`, in which a yield finds itself or nothing, fails with
three threads in a bucket: the second rival can bring back a node of the thread that
the first has removed, and the yield finds a suspended coroutine.

`ProxyProofs` proves all invariants of the proxy, each for all requests, keys, buckets,
backends, packet sizes and answers, under the conditions on the constants that
`Proxy` names; each condition is what one of the violated instances under Findings gives up.

| Theorem | Condition | Inductive invariant |
|---|---|---|
| `WritesNeverOverlap` | - | `WriteInv`: inside a callback libuv owns no write of the request, and between callbacks `write_pending` tells whether it does |
| `TypeCorrect` | - | `ProxyInv`: also, a bucket has no entry and no key twice and no freed entry, a key has one pending list, a worker's entry has its key, and a lookup's entry is still there in its second half |
| `StreamsFaithful` | `OneLoad` | `StreamInv`: a queued load will find no entry, so an entry has one worker; its data is in order and as long as the worker has received, and what was sent is as long as the offset while the connection is writable |
| `WaitersAlive` | `KeepsLoading` | `KeptInCache`: an entry that is not freed is in its bucket; `WaitInv`: a waiter of an entry waits for its key and is not leaving, a pending waiter has no entry and nothing wakes it |
| `WorkersKeepEntries`, `LoadsArrive` | `OneLoad`, `KeepsLoading`, `PathIsKey` | `LoadInv`: until a worker has cancelled its load or notified its end, its entry is not freed; it is loading until then or until the finish, and does not expire before the notification |
| `WaitersStayListed` | no `Faults` but "read", `SeparateBuckets`, `PathIsKey` | `ListInv`: nothing is freed, and a client leaves, or a load is told to stop, only when the entry is complete |

`OneLoad` (no key is requested while its load is queued) is what `duplicate_load` gives
up; `KeepsLoading` (no two keys share a bucket if entries expire) is what
`collect_loading` gives up; `SeparateBuckets` is what `MCProxyPending` gives up;
`PathIsKey` (no request has a Referer) is what `MCProxyWrongKey` gives up. `WaitersStayListed`
excludes the other faults because a cancelled load and the collector free the waiters of an
entry without notifying them (`free_entry`). The invariants build on one another:
whether `CancelLoad` finds its own entry follows from `KeptInCache`, that it is
nobody else's from `OneWorkerEach`. For the proofs the steps are described twice, by
what they do to the cache (an entry updated, freed or created, a waiter added) and by
what they do to requests and tasks, and each invariant is carried through these few
forms instead of through the actions one by one.

Assumptions are the named ASSUMEs of the modules. Only model-checked is all liveness
(`Termination`, `Progress`, `JoinerServed`, `Delivered`, `ClusterEnds`), which is out
of the prover's reach. Every other property of the passing runs is a theorem. Two
properties are proved and in no run: that the counters of the master are exact
(`CountersExact`) and that the spinlock in the tests implements `Lock`
(`TestedSpinLockIsLock`).

Proofs avoid a form that this version of tlapm translates wrongly: several updates
of one EXCEPT at the same index, `[f EXCEPT ![t].a = x, ![t].b = y]`. Modules with
proofs write `![t] = [@ EXCEPT !.a = x, !.b = y]`; where two indices occur in one
EXCEPT the guards make them different.

## Findings

The three violated runs, with the lines they quote, are in `PROJECT.json`. In
short: two misses of one key start two loads into one entry; the collector unlinks
loading entries; a client that registers after the last notification is never served.

Two more instances of `MCProxy` are violated, and are kept beside the runs because they
show the same properties. `MCProxyPending.cfg`, two keys in one bucket: clearing the
head of the pending list (`cache.c:257`) drops the other keys' waiters, so
`RegisteredIsListed` fails. `MCProxyWrongKey.cfg`, a key with a Referer and a failing
origin: the load is cancelled under its path (`background_worker.c:86`), which frees
the entry that another worker fills for the plain path, so `LoadedIntoCache` fails.

Further defects are visible in the models without a run of their own, because no
document of the repository promises otherwise: the deadlock of `2.3m.c` above; the
two hangs of the thread pool (`OwnerStuck`); insertions into the coroutines' map
that overwrite each other, so that a yield may find nothing or, with three threads in
a bucket, queue a suspended coroutine of its thread a second time and overwrite its
context (admitted by `YeildFindsItself`, with the consequences that `DeathExplained`
and `CompletedRanAll` bound); the map's destruction under the workers; a client whose
last write was refused, which is never freed;
the master's copies of passed descriptors, which are never closed.

## Plan

The modules of the plan are written, and every safety property of the passing runs is
proved. What could be added:

1. a second request on a connection of the proxy, whose write request shares the
   client handle with the first one;
2. the failure of `pthread_create` in `tests.c`, after which main goes on while the
   workers that were created still use their thread ids;
3. theorems about the proxy with colliding keys, once the collector and the pending
   lists are corrected: `KeepsLoading` and `SeparateBuckets` are needed only for
   these two defects.

## Not modelled

- HTTP parsing: a pure call of a library.
- A second request on a connection of the proxy, memory exhaustion, the printing
  of statistics. `fini_master_thread`: the loop that precedes it never returns.
- `queue.c` (and its copy `2.1a.c`) with `queue-threads.c`: two threads without any
  lock, the exercise's negative example, whose data races have no defined outcome;
  `2.1b.c` and `queue-example.c` use it from one thread.
- `threads/user_threads/1.7.c`: the header it includes, with its structures and
  constants, is not in the repository.
- `threads/ker_threads`: one thread and a join that polls a flag; what can go wrong
  is the memory of the stack.
- The short pthread demonstrations in `threads/`, which have no state of their own.
