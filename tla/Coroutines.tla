----------------------------- MODULE Coroutines -----------------------------
(***************************************************************************)
(* The coroutines of threads/lab1.8/coroutines.  Each worker thread has a  *)
(* scheduler with a queue of its own coroutines; one map from thread ids   *)
(* to running coroutines, cur_coro_map, is shared by all of them and is    *)
(* not protected by any lock.                                              *)
(*                                                                         *)
(* A node of the map is <<w, n>>, the n-th that thread w has added, and    *)
(* coro[w][n] the coroutine in it; a bucket is the sequence of its nodes.  *)
(* A node that a concurrent insertion has overwritten is reachable no      *)
(* more, unless another thread has read the head of the bucket before and  *)
(* brings it back.  A node that is freed holds NULL.                       *)
(* Workers are numbered in the order of their creation, and the kernel     *)
(* chooses increasing thread ids for them.  The coroutines of a worker are *)
(* 1..NUM_TASKS, and each yields COUNTS times (count_task of cluster.c).   *)
(*                                                                         *)
(* A coroutine_t and the stack on which its count_task runs are two        *)
(* things: yeild saves the stack that runs in the context of the coroutine *)
(* that the map names.  context[w][c] is the number of the stack saved in  *)
(* the context of coroutine c, and count[w][s] the counter on stack s.     *)
(*                                                                         *)
(* finish and scheduler_routine free the stack that they run on; nobody    *)
(* reuses it before they leave it.  Failures of malloc and of swapcontext  *)
(* are left out.                                                           *)
(***************************************************************************)
EXTENDS Naturals, Sequences, FiniteSets

CONSTANTS Workers, Tids, MAP_CAPACITY, NUM_TASKS, COUNTS

ASSUME CoroutinesAssumption ==
    /\ Workers \subseteq Nat /\ Tids \subseteq Nat
    /\ MAP_CAPACITY \in Nat \ {0}
    /\ NUM_TASKS \in Nat \ {0}
    /\ COUNTS \in Nat \ {0}

VARIABLES
    coro_map_init_cnt,
    buckets,            \* NoMap before coro_map_create and after coro_map_destroy
    coro,
    tid,                \* never changes
    queue, running, context, freed, count, pc, head,    \* of each worker
    fault               \* "" or how the process has died

workerVars == <<queue, running, context, freed, count, pc, head>>
coroVars == <<coro_map_init_cnt, buckets, coro, tid, workerVars, fault>>
stackVars == <<context, freed, count>>

NULL == 0
NoMap == <<>>
Coros == 1..NUM_TASKS

\* The bucket of a thread.
hash_tid(w) == tid[w] % MAP_CAPACITY

CoroInit ==
    /\ coro_map_init_cnt = 0
    /\ buckets = NoMap
    /\ coro = [w \in Workers |-> <<>>]
    /\ tid \in {f \in [Workers -> Tids] : \A u, w \in Workers : u < w => f[u] < f[w]}
    /\ queue = [w \in Workers |-> <<>>]
    /\ running = [w \in Workers |-> NULL]
    /\ context = [w \in Workers |-> [c \in Coros |-> c]]
    /\ freed = [w \in Workers |-> {}]
    /\ count = [w \in Workers |-> [c \in Coros |-> 0]]
    /\ pc = [w \in Workers |-> "unborn"]
    /\ head = [w \in Workers |-> <<>>]
    /\ fault = ""

coro_init ==
    /\ coro_map_init_cnt = 0
    /\ coro_map_init_cnt' = 1
    /\ buckets' = [b \in 0..MAP_CAPACITY - 1 |-> <<>>]
    /\ UNCHANGED <<coro, tid, workerVars, fault>>

\* The nodes of a bucket that are not yet freed.
Unfreed(b) ==
    {i \in DOMAIN buckets[b] : coro[buckets[b][i][1]][buckets[b][i][2]] # NULL}

\* The counter first; then the nodes, one by one; then the buckets.
coro_fini ==
    \/ /\ coro_map_init_cnt = 1
       /\ coro_map_init_cnt' = 0
       /\ UNCHANGED <<buckets, coro, tid, workerVars, fault>>
    \/ /\ coro_map_init_cnt = 0 /\ buckets # NoMap
       /\ \E b \in DOMAIN buckets : \E i \in Unfreed(b) :
             /\ \A a \in DOMAIN buckets : a < b => Unfreed(a) = {}
             /\ \A j \in Unfreed(b) : i <= j
             /\ coro' = [coro EXCEPT ![buckets[b][i][1]][buckets[b][i][2]] = NULL]
       /\ UNCHANGED <<coro_map_init_cnt, buckets, tid, workerVars, fault>>
    \/ /\ coro_map_init_cnt = 0 /\ buckets # NoMap
       /\ \A b \in DOMAIN buckets : Unfreed(b) = {}
       /\ buckets' = NoMap
       /\ UNCHANGED <<coro_map_init_cnt, coro, tid, workerVars, fault>>

-----------------------------------------------------------------------------
Goto(w, from, to) ==
    /\ pc[w] = from
    /\ pc' = [pc EXCEPT ![w] = to]

\* A null pointer or freed memory is used, or an error makes the caller exit.
Die(how) ==
    /\ fault' = how
    /\ UNCHANGED <<coro_map_init_cnt, buckets, coro, tid, workerVars>>

\* A step of the worker that needs the map; without it the call returns an error
\* and the worker ends.
NeedsMap(w, from, to) == Goto(w, from, IF coro_map_init_cnt > 0 THEN to ELSE "failed")

create_scheduler(w) ==
    /\ NeedsMap(w, "create", "create_coros")
    /\ UNCHANGED <<coro_map_init_cnt, buckets, coro, tid, queue, running, stackVars, head, fault>>

\* The coroutines are created one after the other and pushed to the queue.
create_coroutine(w) ==
    LET c == Len(queue[w]) + 1
    IN  /\ NeedsMap(w, "create_coros", IF c = NUM_TASKS THEN "run_scheduler" ELSE "create_coros")
        /\ queue' = IF coro_map_init_cnt > 0 THEN [queue EXCEPT ![w] = Append(@, c)] ELSE queue
        /\ UNCHANGED <<coro_map_init_cnt, buckets, coro, tid, running, stackVars, head, fault>>

\* The switch to scheduler_routine.
run_scheduler(w) ==
    /\ NeedsMap(w, "run_scheduler", "pop")
    /\ UNCHANGED <<coro_map_init_cnt, buckets, coro, tid, queue, running, stackVars, head, fault>>

-----------------------------------------------------------------------------
(* scheduler_routine, run by run_scheduler *)

\* Mutant: the head of the queue stays where it is.
PopKeepsHead(w) ==
    /\ \/ /\ queue[w] # <<>>
          /\ Goto(w, "pop", "map_walk")
          /\ running' = [running EXCEPT ![w] = Head(queue[w])]
       \/ /\ queue[w] = <<>>
          /\ Goto(w, "pop", "done")
          /\ running' = [running EXCEPT ![w] = NULL]
    /\ UNCHANGED <<coro_map_init_cnt, buckets, coro, tid, queue, stackVars, head, fault>>

\* coro_queue_pop: the next coroutine, or the end of run_scheduler.
coro_queue_pop(w) ==
    /\ \/ /\ queue[w] # <<>>
          /\ Goto(w, "pop", "map_walk")
          /\ running' = [running EXCEPT ![w] = Head(queue[w])]
          /\ queue' = [queue EXCEPT ![w] = Tail(@)]
       \/ /\ queue[w] = <<>>
          /\ Goto(w, "pop", "done")
          /\ running' = [running EXCEPT ![w] = NULL]
          /\ UNCHANGED queue
    /\ UNCHANGED <<coro_map_init_cnt, buckets, coro, tid, stackVars, head, fault>>

\* A node that a walk takes for that of w.  What is left in a freed node has no
\* thread's id: the allocator has overwritten it.
Matches(x, w) == x[1] = w /\ coro[w][x[2]] # NULL

\* The places of a thread's nodes in its bucket, and the number of the first one.
PlacesOf(w) == {i \in DOMAIN buckets[hash_tid(w)] : Matches(buckets[hash_tid(w)][i], w)}
InBucket(w) == PlacesOf(w) # {}
NodeOf(w) ==
    LET i == CHOOSE p \in PlacesOf(w) : \A q \in PlacesOf(w) : p <= q
    IN  buckets[hash_tid(w)][i][2]

\* Mutant: a node that is found is not updated.
MapWalkKeeps(w) ==
    /\ \/ Goto(w, "map_walk", "run") /\ buckets # NoMap /\ InBucket(w)
       \/ Goto(w, "map_walk", "map_read") /\ buckets # NoMap /\ ~InBucket(w)
       \/ Goto(w, "map_walk", "run") /\ buckets = NoMap
    /\ UNCHANGED <<coro_map_init_cnt, buckets, coro, tid, queue, running, stackVars, head, fault>>

\* coro_map_add: the node of the thread is looked for, and updated.  Without a
\* map nothing is added; the scheduler does not look at the result.
MapWalk(w) ==
    /\ \/ /\ Goto(w, "map_walk", "run")
          /\ buckets # NoMap /\ InBucket(w)
          /\ coro' = [coro EXCEPT ![w][NodeOf(w)] = running[w]]
       \/ /\ Goto(w, "map_walk", "map_read")
          /\ buckets # NoMap /\ ~InBucket(w)
          /\ UNCHANGED coro
       \/ /\ Goto(w, "map_walk", "run")
          /\ buckets = NoMap
          /\ UNCHANGED coro
    /\ UNCHANGED <<coro_map_init_cnt, buckets, tid, queue, running, stackVars, head, fault>>

\* new_node->next = map->buckets[index]
MapRead(w) ==
    /\ Goto(w, "map_read", "map_write")
    /\ buckets # NoMap
    /\ head' = [head EXCEPT ![w] = buckets[hash_tid(w)]]
    /\ UNCHANGED <<coro_map_init_cnt, buckets, coro, tid, queue, running, stackVars, fault>>

\* map->buckets[index] = new_node: nodes that were added since are lost.
MapWrite(w) ==
    /\ Goto(w, "map_write", "run")
    /\ buckets # NoMap
    /\ buckets' = [buckets EXCEPT ![hash_tid(w)] = <<<<w, Len(coro[w]) + 1>>>> \o head[w]]
    /\ coro' = [coro EXCEPT ![w] = Append(@, running[w])]
    /\ head' = [head EXCEPT ![w] = <<>>]
    /\ UNCHANGED <<coro_map_init_cnt, tid, queue, running, stackVars, fault>>

\* An access of coro_map_add or coro_map_get to a map that is being destroyed: a
\* node or the array is freed, or the pointer that was tested is null by now.
MapGone(w) ==
    /\ pc[w] \in {"map_walk", "map_read", "map_write", "map_get"}
    /\ coro_map_init_cnt = 0
    /\ Die("map destroyed")

-----------------------------------------------------------------------------
(* The running coroutine *)

\* The stack to which the scheduler has switched.
Stack(w) == context[w][running[w]]

\* Mutant: a finished coroutine that is resumed switches to the scheduler again, as
\* it would if its stack were not freed.
ResumeSkips(w) ==
    /\ Goto(w, "run", "pop")
    /\ Stack(w) \in freed[w]
    /\ UNCHANGED <<coro_map_init_cnt, buckets, coro, tid, queue, running, stackVars, head, fault>>

\* The stack was saved in the context of another coroutine and has finished since:
\* the thread runs in freed memory.
ResumeFreed(w) ==
    /\ pc[w] = "run"
    /\ Stack(w) \in freed[w]
    /\ Die("freed stack")

\* Mutant: the loop of the coroutine runs once too often.
CountsTooFar(w) ==
    /\ Goto(w, "run", "yeild")
    /\ Stack(w) \notin freed[w] /\ count[w][Stack(w)] <= COUNTS
    /\ count' = [count EXCEPT ![w][Stack(w)] = @ + 1]
    /\ UNCHANGED <<coro_map_init_cnt, buckets, coro, tid, queue, running, context, freed, head,
                   fault>>

\* count_task, to its next yeild.
count_task(w) ==
    /\ Goto(w, "run", "yeild")
    /\ Stack(w) \notin freed[w] /\ count[w][Stack(w)] < COUNTS
    /\ count' = [count EXCEPT ![w][Stack(w)] = @ + 1]
    /\ UNCHANGED <<coro_map_init_cnt, buckets, coro, tid, queue, running, context, freed, head,
                   fault>>

\* The end of count_task: coroutine_wrapper frees the stack and switches to the
\* scheduler for good, which saves the stack in the context of its own coroutine.
finish(w) ==
    /\ Goto(w, "run", "pop")
    /\ Stack(w) \notin freed[w] /\ count[w][Stack(w)] = COUNTS
    /\ freed' = [freed EXCEPT ![w] = @ \cup {Stack(w)}]
    /\ context' = [context EXCEPT ![w][Stack(w)] = Stack(w)]
    /\ UNCHANGED <<coro_map_init_cnt, buckets, coro, tid, queue, running, count, head, fault>>

\* The test at the start of yeild; count_task exits the process on an error.
YeildTest(w) ==
    \/ /\ Goto(w, "yeild", "map_get")
       /\ coro_map_init_cnt > 0
       /\ UNCHANGED <<coro_map_init_cnt, buckets, coro, tid, queue, running, stackVars, head, fault>>
    \/ /\ pc[w] = "yeild"
       /\ coro_map_init_cnt = 0
       /\ Die("exit")

\* Mutant: the first node of the bucket is taken for that of the thread.
GetFirst(w) ==
    IF buckets = NoMap THEN NULL
    ELSE IF buckets[hash_tid(w)] = <<>> THEN NULL
    ELSE LET n == Head(buckets[hash_tid(w)]) IN coro[n[1]][n[2]]

coro_map_get(w) == IF buckets # NoMap /\ InBucket(w) THEN coro[w][NodeOf(w)] ELSE NULL

\* Mutant: the coroutine is put at the front of the queue.
PushFront(w) ==
    /\ Goto(w, "map_get", "pop")
    /\ coro_map_get(w) # NULL
    /\ queue' = [queue EXCEPT ![w] = <<coro_map_get(w)>> \o @]
    /\ context' = [context EXCEPT ![w][coro_map_get(w)] = Stack(w)]
    /\ UNCHANGED <<coro_map_init_cnt, buckets, coro, tid, running, freed, count, head, fault>>

\* The coroutine that the map names is queued, whether or not it is the one that
\* runs, and the stack that runs is saved in its context: one of another stack
\* that was saved there is lost.
YeildPush(w) ==
    /\ Goto(w, "map_get", "pop")
    /\ coro_map_get(w) # NULL
    /\ queue' = [queue EXCEPT ![w] = Append(@, coro_map_get(w))]
    /\ context' = [context EXCEPT ![w][coro_map_get(w)] = Stack(w)]
    /\ UNCHANGED <<coro_map_init_cnt, buckets, coro, tid, running, freed, count, head, fault>>

\* cur_coro->scheduler of a thread that the map does not know.
YeildLost(w) ==
    /\ pc[w] = "map_get"
    /\ coro_map_get(w) = NULL
    /\ Die("null coroutine")

yeild(w) == YeildTest(w) \/ YeildPush(w) \/ YeildLost(w)

-----------------------------------------------------------------------------
scheduler_routine(w) == coro_queue_pop(w) \/ MapWalk(w) \/ MapRead(w) \/ MapWrite(w) \/ MapGone(w)

thread_worker(w) ==
    \/ create_scheduler(w) \/ create_coroutine(w) \/ run_scheduler(w)
    \/ scheduler_routine(w) \/ ResumeFreed(w) \/ count_task(w) \/ finish(w) \/ yeild(w)

-----------------------------------------------------------------------------
(* Properties *)

CoroTypeOK ==
    /\ coro_map_init_cnt \in 0..1
    /\ buckets = NoMap \/ buckets \in [0..MAP_CAPACITY - 1 -> Seq(Workers \X Nat)]
    /\ coro \in [Workers -> Seq(Coros \cup {NULL})]
    /\ tid \in [Workers -> Tids]
    /\ queue \in [Workers -> Seq(Coros)]
    /\ running \in [Workers -> Coros \cup {NULL}]
    /\ context \in [Workers -> [Coros -> Coros]]
    /\ freed \in [Workers -> SUBSET Coros]
    /\ count \in [Workers -> [Coros -> 0..COUNTS]]
    /\ pc \in [Workers -> {"unborn", "create", "create_coros", "run_scheduler", "pop",
                           "map_walk", "map_read", "map_write", "run", "yeild", "map_get",
                           "done", "failed"}]
    /\ head \in [Workers -> Seq(Workers \X Nat)]
    /\ fault \in {"", "exit", "map destroyed", "null coroutine", "freed stack"}

\* The other threads whose ids fall into the bucket of w.
Rivals(w) == {u \in Workers \ {w} : tid[u] % MAP_CAPACITY = tid[w] % MAP_CAPACITY}

OneRival(w) == \A u, v \in Rivals(w) : u = v

\* What a coroutine finds in the shared map when it yields is never a coroutine of
\* another thread, although the threads add to the map without a lock.  It is the
\* coroutine itself, unless main has begun to destroy the map or another thread's
\* id falls into the same bucket, whose insertion may have removed it; and it is
\* another coroutine of its own thread only when two other ids do: one thread
\* removes the node, and the second brings it back in place of the one that the
\* thread has added since.
YeildFindsItself ==
    \A w \in Workers : pc[w] = "map_get" =>
        \/ coro_map_get(w) = running[w]
        \/ coro_map_get(w) = NULL /\ (coro_map_init_cnt = 0 \/ Rivals(w) # {})
        \/ coro_map_get(w) \in Coros /\ ~OneRival(w)

Creating == {"unborn", "create", "create_coros", "run_scheduler"}
BeforeCount == {"map_walk", "map_read", "map_write", "run"}
AfterCount == {"yeild", "map_get"}
Running == BeforeCount \cup AfterCount

\* The coroutines that a scheduler still has to run.
Alive(w) ==
    {queue[w][i] : i \in DOMAIN queue[w]} \cup (IF pc[w] \in Running THEN {running[w]} ELSE {})

Distinct(q) == \A i, j \in DOMAIN q : q[i] = q[j] => i = j

\* yeild queues what the map names, not what runs.  Still, with one rival in its
\* bucket at most, a scheduler loses no coroutine and has none twice, whatever
\* the insertions into the map do: each is waiting once, or runs, or has counted to
\* the end; and each context holds the coroutine's own stack.  (With two rivals
\* this is not so: three_threads.)
EachScheduledOnce ==
    \A w \in Workers : OneRival(w) =>
        /\ Distinct(queue[w])
        /\ pc[w] \in Running => \A i \in DOMAIN queue[w] : queue[w][i] # running[w]
        /\ pc[w] \in Running \cup {"pop"} =>
              \A c \in Coros \ Alive(w) : count[w][c] = COUNTS
        /\ \A c \in Coros : context[w][c] = c

\* With one rival at most the coroutines take turns: none gets two counts ahead of
\* another.
RoundRobin ==
    \A w \in Workers : OneRival(w) =>
        \A c, d \in Coros : count[w][c] <= count[w][d] + 1

\* A worker reports that it has completed only when each of its coroutines has
\* counted to the end and finished.  This is so for any number of rivals: when a
\* yield queues a coroutine twice and overwrites the context of another, the thread
\* comes to a stack that is freed before its queue is empty.
CompletedRanAll ==
    \A w \in Workers : pc[w] = "done" =>
        /\ freed[w] = Coros
        /\ \A c \in Coros : count[w][c] = COUNTS

\* What the process can die of: of the map's destruction only after main has begun
\* it, of a yield that finds nothing only then or when two threads share a bucket,
\* and in a freed stack only when three do.
DeathExplained ==
    /\ fault \in {"exit", "map destroyed"} => coro_map_init_cnt = 0
    /\ fault = "null coroutine" => coro_map_init_cnt = 0 \/ \E w \in Workers : Rivals(w) # {}
    /\ fault = "freed stack" => \E w \in Workers : ~OneRival(w)

-----------------------------------------------------------------------------
(* The inductive invariant *)

\* The coroutines are in the order of their creation until the scheduler runs.
SchedulerCreating(w) ==
    /\ running[w] = NULL
    /\ \A c \in Coros : count[w][c] = 0 /\ context[w][c] = c
    /\ freed[w] = {}
    /\ \A i \in DOMAIN queue[w] : queue[w][i] = i
    /\ pc[w] \in {"unborn", "create"} => queue[w] = <<>>
    /\ pc[w] = "create_coros" => Len(queue[w]) < NUM_TASKS
    /\ pc[w] = "run_scheduler" => Len(queue[w]) = NUM_TASKS

\* Of any scheduler that runs: as many coroutines are queued or running, one that
\* is queued twice counted twice, as stacks have not finished.
SlotsExact(w) ==
    /\ pc[w] \in Running => running[w] \in Coros
    /\ \A s \in freed[w] : count[w][s] = COUNTS
    /\ Cardinality(Coros \ freed[w]) = Len(queue[w]) + (IF pc[w] \in Running THEN 1 ELSE 0)

Scheduled(w) ==
    /\ pc[w] \in Creating \cup {"failed"} => SchedulerCreating(w)
    /\ pc[w] \in Running \cup {"pop", "done"} => SlotsExact(w)
    /\ pc[w] = "done" => queue[w] = <<>>

\* Of a scheduler that runs with one rival at most: the counts along the queue do
\* not decrease and differ by one at most, the running coroutine being the first
\* before it counts and the last after it.
InTurn(w) ==
    LET q == queue[w]
        n == count[w]
        r == running[w]
    IN  /\ Distinct(q)
        /\ \A c \in Coros : context[w][c] = c
        /\ \A c \in Alive(w) : c \notin freed[w]
        /\ \A i, j \in DOMAIN q : i <= j => n[q[i]] <= n[q[j]] /\ n[q[j]] <= n[q[i]] + 1
        /\ pc[w] \in Running => \A i \in DOMAIN q : q[i] # r
        /\ pc[w] \in BeforeCount => \A i \in DOMAIN q : n[r] <= n[q[i]] /\ n[q[i]] <= n[r] + 1
        /\ pc[w] \in AfterCount => \A i \in DOMAIN q : n[q[i]] <= n[r] /\ n[r] <= n[q[i]] + 1
        /\ \A c \in Coros \ Alive(w), d \in Coros : n[d] = COUNTS

TakesTurns(w) == pc[w] \in Running \cup {"pop", "done"} /\ OneRival(w) => InTurn(w)

\* The nodes of a list.  Those of a bucket, and those that a thread has read from
\* it, were added by threads of that bucket.
NodesIn(list) == {list[i] : i \in DOMAIN list}

Node(x, b) == x[1] \in Workers /\ hash_tid(x[1]) = b /\ x[2] \in 1..Len(coro[x[1]])

NodesAdded ==
    /\ buckets # NoMap => \A b \in 0..MAP_CAPACITY - 1 : \A x \in NodesIn(buckets[b]) : Node(x, b)
    /\ \A u \in Workers : \A x \in NodesIn(head[u]) : Node(x, hash_tid(u))
    /\ \A u \in Workers : pc[u] # "map_write" => head[u] = <<>>

\* The nodes in which a thread may be found, now or after another insertion.
Candidates(w) ==
    {x \in NodesIn(buckets[hash_tid(w)]) \cup UNION {NodesIn(head[u]) : u \in Workers} :
        Matches(x, w)}

\* With one rival at most, a thread's node that is left out of its bucket is not
\* brought back: whatever node of it there is, is the one it added last.
MapKnows(w) ==
    /\ pc[w] \in {"run", "yeild", "map_get"} /\ Rivals(w) = {} /\ coro_map_init_cnt = 1
          => InBucket(w)
    /\ OneRival(w) =>
          /\ \A x \in Candidates(w) : x[2] = Len(coro[w]) /\ InBucket(w)
          /\ pc[w] \in {"map_read", "map_write"} => Candidates(w) = {}
          /\ pc[w] \in {"run", "yeild", "map_get"} /\ InBucket(w) =>
                coro[w][Len(coro[w])] = running[w]

MapInv ==
    /\ NodesAdded
    /\ buckets # NoMap => \A w \in Workers : MapKnows(w)
    /\ coro_map_init_cnt = 1 => buckets # NoMap

CoroInv ==
    /\ CoroTypeOK
    /\ \A w \in Workers : Scheduled(w) /\ TakesTurns(w)
    /\ MapInv
    /\ DeathExplained
=============================================================================
