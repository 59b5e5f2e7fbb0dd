--------------------------- MODULE ClusterProofs ---------------------------
(***************************************************************************)
(* Proofs about the program of threads/lab1.8/cluster.c, for any number of *)
(* workers, coroutines and buckets.  What a coroutine finds in the map     *)
(* that the threads share without a lock is itself, but for the collisions *)
(* that YeildFindsItself names.  With one rival in the bucket at most,     *)
(* schedulers lose no coroutine and let them take turns; with any number   *)
(* of rivals, a worker that completes has run all its coroutines to their  *)
(* ends, because each that is queued twice takes the place of a stack that *)
(* then is freed once (SlotsExact); and the process dies of the map only   *)
(* as DeathExplained says.                                                 *)
(***************************************************************************)
EXTENDS Cluster, FiniteSetTheorems, WellFoundedInduction, NaturalsInduction, SequenceTheorems,
        TLAPS

\* Every non-empty set of natural numbers has a least element.
LEMMA LeastNatural ==
  ASSUME NEW T \in SUBSET Nat, T # {}
  PROVE  \E m \in T : \A k \in T : m <= k
<1>1. PICK m \in T : \A k \in T : <<k, m>> \notin OpToRel(<, Nat)
  BY WFMin, NatLessThanWellFounded, Zenon
<1>2. \A k \in T : ~(k < m)
  BY <1>1, Zenon DEF OpToRel
<1> QED
  BY <1>2

(* Sequences *)

\* coro_queue_push.
LEMMA PushFacts ==
  ASSUME NEW S, NEW q \in Seq(S), NEW x \in S
  PROVE  /\ Append(q, x) \in Seq(S)
         /\ DOMAIN q = 1..Len(q) /\ Len(q) \in Nat
         /\ Len(Append(q, x)) = Len(q) + 1
         /\ DOMAIN Append(q, x) = 1..Len(q) + 1
         /\ \A i \in 1..Len(q) : Append(q, x)[i] = q[i]
         /\ Append(q, x)[Len(q) + 1] = x
OBVIOUS

\* coro_queue_pop.
LEMMA PopFacts ==
  ASSUME NEW S, NEW q \in Seq(S), q # <<>>
  PROVE  /\ Head(q) \in S /\ Tail(q) \in Seq(S) /\ Head(q) = q[1]
         /\ DOMAIN q = 1..Len(q) /\ Len(q) \in Nat /\ Len(q) >= 1
         /\ Len(Tail(q)) = Len(q) - 1
         /\ DOMAIN Tail(q) = 1..Len(q) - 1
         /\ \A i \in 1..Len(q) - 1 : Tail(q)[i] = q[i + 1]
OBVIOUS

\* A node before the head of a bucket.
LEMMA ConsFacts ==
  ASSUME NEW S, NEW l \in Seq(S), NEW x \in S
  PROVE  /\ <<x>> \o l \in Seq(S)
         /\ NodesIn(<<x>> \o l) = {x} \cup NodesIn(l)
<1>1. <<x>> \o l \in Seq(S) /\ Len(<<x>> \o l) = Len(l) + 1 /\ Len(l) \in Nat
  OBVIOUS
<1>2. /\ DOMAIN (<<x>> \o l) = 1..Len(l) + 1 /\ DOMAIN l = 1..Len(l)
      /\ (<<x>> \o l)[1] = x
      /\ \A i \in 1..Len(l) : (<<x>> \o l)[i + 1] = l[i]
  OBVIOUS
<1>3. ASSUME NEW y \in NodesIn(<<x>> \o l) PROVE y \in {x} \cup NodesIn(l)
  <2>1. PICK i \in 1..Len(l) + 1 : y = (<<x>> \o l)[i]
    BY <1>2 DEF NodesIn
  <2>2. CASE i = 1
    BY <1>2, <2>1, <2>2
  <2>3. CASE i # 1
    <3>1. i - 1 \in 1..Len(l) /\ (i - 1) + 1 = i
      BY <1>1, <2>1, <2>3
    <3>2. y = l[i - 1]
      BY <1>2, <2>1, <3>1
    <3> QED
      BY <1>2, <3>1, <3>2 DEF NodesIn
  <2> QED
    BY <2>2, <2>3
<1>4. ASSUME NEW y \in {x} \cup NodesIn(l) PROVE y \in NodesIn(<<x>> \o l)
  <2>1. CASE y = x
    <3>1. 1 \in 1..Len(l) + 1
      BY <1>1
    <3> QED
      BY <1>2, <2>1, <3>1 DEF NodesIn
  <2>2. CASE y \in NodesIn(l)
    <3>1. PICK i \in 1..Len(l) : y = l[i]
      BY <1>2, <2>2 DEF NodesIn
    <3>2. i + 1 \in 1..Len(l) + 1 /\ y = (<<x>> \o l)[i + 1]
      BY <1>1, <1>2, <3>1
    <3> QED
      BY <1>2, <3>2 DEF NodesIn
  <2> QED
    BY <2>1, <2>2
<1> QED
  BY <1>1, <1>3, <1>4
-----------------------------------------------------------------------------
(* The schedulers *)

\* The threads that share a bucket do not change.
LEMMA RivalsKept ==
  ASSUME tid' = tid, NEW w \in Workers
  PROVE  /\ Rivals(w)' = Rivals(w) /\ OneRival(w)' = OneRival(w)
         /\ hash_tid(w)' = hash_tid(w)
<1>1. Rivals(w)' = Rivals(w) /\ hash_tid(w)' = hash_tid(w)
  BY DEF Rivals, hash_tid
<1> QED
  BY <1>1 DEF OneRival

\* The stacks that have not finished.
LEMMA Unfinished ==
  ASSUME NEW F \in SUBSET Coros
  PROVE  /\ Cardinality(Coros \ F) \in Nat
         /\ F = {} => Cardinality(Coros \ F) = NUM_TASKS
         /\ \A s \in Coros \ F : Cardinality(Coros \ (F \cup {s})) = Cardinality(Coros \ F) - 1
         /\ Cardinality(Coros \ F) = 0 => F = Coros
<1> USE CoroutinesAssumption
<1>1. IsFiniteSet(Coros) /\ Cardinality(Coros) = NUM_TASKS
  BY FS_Interval DEF Coros
<1>2. Coros \ F \in SUBSET Coros
  OBVIOUS
<1>3. IsFiniteSet(Coros \ F)
  BY <1>1, <1>2, FS_Subset
<1>4. Cardinality(Coros \ F) \in Nat
  BY <1>3, FS_CardinalityType
<1>5. F = {} => Coros \ F = Coros
  OBVIOUS
<1>6. ASSUME NEW s \in Coros \ F
      PROVE  Cardinality(Coros \ (F \cup {s})) = Cardinality(Coros \ F) - 1
  <2>1. Coros \ (F \cup {s}) = (Coros \ F) \ {s}
    OBVIOUS
  <2>2. Cardinality((Coros \ F) \ {s}) = Cardinality(Coros \ F) - 1
    BY <1>3, FS_RemoveElement
  <2> QED
    BY <2>1, <2>2
<1>7. Cardinality(Coros \ F) = 0 => Coros \ F = {}
  BY <1>3, FS_EmptySet
<1> QED
  BY <1>1, <1>4, <1>5, <1>6, <1>7

\* A scheduler of which nothing changes.
LEMMA ScheduledKept ==
  ASSUME NEW w \in Workers, Scheduled(w), TakesTurns(w), tid' = tid,
         pc'[w] = pc[w], queue'[w] = queue[w], running'[w] = running[w],
         context'[w] = context[w], freed'[w] = freed[w], count'[w] = count[w]
  PROVE  Scheduled(w)' /\ TakesTurns(w)'
<1>1. Scheduled(w)'
  BY DEF Scheduled, SchedulerCreating, SlotsExact
<1>2. InTurn(w) => InTurn(w)'
  BY DEF InTurn, Distinct, Alive
<1> QED
  BY <1>1, <1>2, RivalsKept DEF TakesTurns

\* A step within the map, or another before the running coroutine counts.
LEMMA ScheduledOn ==
  ASSUME NEW w \in Workers, Scheduled(w), TakesTurns(w), tid' = tid,
         queue'[w] = queue[w], running'[w] = running[w],
         context'[w] = context[w], freed'[w] = freed[w], count'[w] = count[w],
         \/ pc[w] \in BeforeCount /\ pc'[w] \in BeforeCount
         \/ pc[w] \in AfterCount /\ pc'[w] \in AfterCount
  PROVE  Scheduled(w)' /\ TakesTurns(w)'
<1>1. /\ pc[w] \in Running /\ pc'[w] \in Running
      /\ pc'[w] \notin Creating \cup {"failed", "pop", "done"}
  BY DEF Running, BeforeCount, AfterCount, Creating
<1>2. SlotsExact(w)'
  BY <1>1 DEF Scheduled, SlotsExact
<1>3. Alive(w)' = Alive(w)
  BY <1>1 DEF Alive
<1>4. InTurn(w) => InTurn(w)'
  BY <1>1, <1>3 DEF InTurn, Distinct, BeforeCount, AfterCount
<1> QED
  BY <1>1, <1>2, <1>4, RivalsKept DEF Scheduled, TakesTurns

\* What the types say of one worker.
LEMMA WorkerTypes ==
  ASSUME CoroTypeOK, NEW w \in Workers
  PROVE  /\ queue[w] \in Seq(Coros) /\ DOMAIN queue[w] = 1..Len(queue[w])
         /\ Len(queue[w]) \in Nat
         /\ queue \in [Workers -> Seq(Coros)] /\ DOMAIN pc = Workers
         /\ running \in [Workers -> Coros \cup {NULL}]
         /\ context \in [Workers -> [Coros -> Coros]] /\ context[w] \in [Coros -> Coros]
         /\ freed \in [Workers -> SUBSET Coros] /\ freed[w] \in SUBSET Coros
         /\ count \in [Workers -> [Coros -> 0..COUNTS]]
         /\ count[w] \in [Coros -> 0..COUNTS] /\ count[w] \in [Coros -> Nat]
<1>1. /\ queue \in [Workers -> Seq(Coros)]
      /\ running \in [Workers -> Coros \cup {NULL}]
      /\ count \in [Workers -> [Coros -> 0..COUNTS]]
  BY DEF CoroTypeOK
<1>2. /\ context \in [Workers -> [Coros -> Coros]] /\ freed \in [Workers -> SUBSET Coros]
      /\ DOMAIN pc = Workers
  BY DEF CoroTypeOK
<1>3. queue[w] \in Seq(Coros) /\ context[w] \in [Coros -> Coros] /\ freed[w] \in SUBSET Coros
  BY <1>1, <1>2
<1>4. DOMAIN queue[w] = 1..Len(queue[w]) /\ Len(queue[w]) \in Nat
  BY <1>3
<1>5. count[w] \in [Coros -> 0..COUNTS]
  BY <1>1
<1>6. count[w] \in [Coros -> Nat]
  BY <1>5, CoroutinesAssumption
<1> QED
  BY <1>1, <1>2, <1>3, <1>4, <1>5, <1>6

\* The stack of a coroutine that runs.
LEMMA RunningStack ==
  ASSUME CoroTypeOK, NEW w \in Workers, Scheduled(w), pc[w] \in Running
  PROVE  /\ running[w] \in Coros /\ Stack(w) \in Coros
         /\ TakesTurns(w) /\ OneRival(w) => Stack(w) = running[w] /\ Stack(w) \notin freed[w]
<1>1. running[w] \in Coros
  BY DEF Scheduled, SlotsExact
<1>2. context[w] \in [Coros -> Coros]
  BY WorkerTypes
<1>3. ASSUME TakesTurns(w), OneRival(w) PROVE Stack(w) = running[w] /\ Stack(w) \notin freed[w]
  <2>1. InTurn(w) /\ running[w] \in Alive(w)
    BY <1>3 DEF TakesTurns, Alive
  <2> QED
    BY <1>1, <2>1 DEF InTurn, Stack
<1> QED
  BY <1>1, <1>2, <1>3 DEF Stack

\* The creation of the coroutines, in the order of their numbers.
LEMMA CreatingStep ==
  ASSUME CoroTypeOK, NEW w \in Workers, Scheduled(w),
         create_scheduler(w) \/ create_coroutine(w) \/ run_scheduler(w)
  PROVE  Scheduled(w)' /\ TakesTurns(w)'
<1> USE CoroutinesAssumption
<1>1. /\ queue[w] \in Seq(Coros) /\ DOMAIN queue[w] = 1..Len(queue[w]) /\ Len(queue[w]) \in Nat
      /\ queue \in [Workers -> Seq(Coros)] /\ DOMAIN pc = Workers
  BY WorkerTypes
<1>2. /\ pc[w] \in {"create", "create_coros", "run_scheduler"} /\ SchedulerCreating(w)
      /\ running' = running /\ context' = context /\ freed' = freed /\ count' = count
  BY DEF create_scheduler, create_coroutine, run_scheduler, NeedsMap, Goto, Scheduled, Creating,
         stackVars
<1>3. CASE coro_map_init_cnt > 0 /\ create_coroutine(w)
  <2> DEFINE c == Len(queue[w]) + 1
  <2>1. /\ pc[w] = "create_coros" /\ queue'[w] = Append(queue[w], c)
        /\ pc'[w] = IF c = NUM_TASKS THEN "run_scheduler" ELSE "create_coros"
    BY <1>1, <1>3 DEF create_coroutine, NeedsMap, Goto
  <2>2. c \in Coros /\ Len(queue[w]) < NUM_TASKS
    BY <1>1, <1>2, <2>1 DEF SchedulerCreating, Coros
  <2>3. /\ Len(queue'[w]) = c /\ DOMAIN queue'[w] = 1..c
        /\ \A i \in 1..c : queue'[w][i] = i
    <3>1. /\ Len(Append(queue[w], c)) = c /\ DOMAIN Append(queue[w], c) = 1..c
          /\ \A i \in 1..Len(queue[w]) : Append(queue[w], c)[i] = queue[w][i]
          /\ Append(queue[w], c)[c] = c
      <4> HIDE DEF c
      <4>1. c \in Coros /\ c = Len(queue[w]) + 1
        BY <2>2 DEF c
      <4> QED
        BY <1>1, <4>1, PushFacts
    <3>2. \A i \in 1..Len(queue[w]) : queue[w][i] = i
      BY <1>1, <1>2 DEF SchedulerCreating
    <3> QED
      BY <1>1, <2>1, <3>1, <3>2
  <2>4. SchedulerCreating(w)'
    BY <1>2, <2>1, <2>2, <2>3 DEF SchedulerCreating
  <2> QED
    BY <2>1, <2>4 DEF Scheduled, TakesTurns, Creating, Running, BeforeCount, AfterCount
<1>4. CASE coro_map_init_cnt > 0 /\ create_scheduler(w)
  <2>1. /\ pc[w] = "create" /\ pc'[w] = "create_coros" /\ queue' = queue
        /\ queue[w] = <<>> /\ Len(queue[w]) = 0
    BY <1>1, <1>2, <1>4 DEF create_scheduler, NeedsMap, Goto, SchedulerCreating
  <2>2. SchedulerCreating(w)'
    BY <1>2, <2>1 DEF SchedulerCreating
  <2> QED
    BY <2>1, <2>2 DEF Scheduled, TakesTurns, Creating, Running, BeforeCount, AfterCount
<1>5. CASE coro_map_init_cnt > 0 /\ run_scheduler(w)
  <2>1. pc[w] = "run_scheduler" /\ pc'[w] = "pop" /\ queue' = queue
    BY <1>1, <1>5 DEF run_scheduler, NeedsMap, Goto
  <2>2. /\ Len(queue[w]) = NUM_TASKS /\ DOMAIN queue[w] = Coros
        /\ \A i \in Coros : queue[w][i] = i
    <3>1. /\ Len(queue[w]) = NUM_TASKS
          /\ \A i \in DOMAIN queue[w] : queue[w][i] = i
      BY <1>2, <2>1 DEF SchedulerCreating
    <3>2. DOMAIN queue[w] = Coros
      BY <1>1, <3>1 DEF Coros
    <3> QED
      BY <3>1, <3>2
  <2>3. \A c \in Coros : c \in Alive(w)'
    BY <2>1, <2>2 DEF Alive
  <2>4. InTurn(w)'
    BY <1>2, <2>1, <2>2, <2>3
       DEF InTurn, SchedulerCreating, Distinct, Running, BeforeCount, AfterCount
  <2>5. SlotsExact(w)'
    <3>1. freed[w] = {} /\ Cardinality(Coros \ freed[w]) = NUM_TASKS
      BY <1>2, Unfinished DEF SchedulerCreating
    <3> QED
      BY <1>2, <2>1, <2>2, <3>1 DEF SlotsExact, Running, BeforeCount, AfterCount
  <2> QED
    BY <2>1, <2>4, <2>5
       DEF Scheduled, TakesTurns, Creating, Running, BeforeCount, AfterCount
<1>6. CASE ~(coro_map_init_cnt > 0)
  <2>1. pc'[w] = "failed" /\ queue' = queue
    BY <1>1, <1>6 DEF create_scheduler, create_coroutine, run_scheduler, NeedsMap, Goto
  <2>2. SchedulerCreating(w)'
    BY <1>2, <2>1 DEF SchedulerCreating
  <2> QED
    BY <2>1, <2>2 DEF Scheduled, TakesTurns, Creating, Running, BeforeCount, AfterCount
<1> QED
  BY <1>3, <1>4, <1>5, <1>6

\* The scheduler takes the first coroutine of its queue.
LEMMA PopInTurn ==
  ASSUME CoroTypeOK, NEW w \in Workers, InTurn(w), coro_queue_pop(w), queue[w] # <<>>
  PROVE  InTurn(w)'
<1> DEFINE q == queue[w]
           n == count[w]
<1>1. /\ q \in Seq(Coros) /\ DOMAIN q = 1..Len(q) /\ Len(q) \in Nat
      /\ queue \in [Workers -> Seq(Coros)] /\ DOMAIN pc = Workers
      /\ running \in [Workers -> Coros \cup {NULL}]
      /\ n \in [Coros -> Nat]
  BY WorkerTypes
<1>2. /\ pc[w] = "pop" /\ pc[w] \notin Running
      /\ context' = context /\ freed' = freed /\ count' = count
  BY DEF coro_queue_pop, Goto, stackVars, Running, BeforeCount, AfterCount
<1>3. queue'[w] = Tail(q) /\ running'[w] = Head(q) /\ pc'[w] = "map_walk"
  BY <1>1 DEF coro_queue_pop, Goto
<1>4. /\ Head(q) \in Coros /\ Head(q) = q[1] /\ Len(q) >= 1
      /\ DOMAIN Tail(q) = 1..Len(q) - 1
      /\ \A i \in 1..Len(q) - 1 : Tail(q)[i] = q[i + 1]
  BY <1>1, PopFacts
<1>5. /\ Distinct(q)
      /\ \A i, j \in DOMAIN q : i <= j => n[q[i]] <= n[q[j]] /\ n[q[j]] <= n[q[i]] + 1
      /\ \A c \in Coros \ Alive(w), d \in Coros : n[d] = COUNTS
      /\ \A c \in Coros : context[w][c] = c
      /\ \A c \in Alive(w) : c \notin freed[w]
  BY DEF InTurn
<1>6. \A i \in 1..Len(q) - 1 : i + 1 \in 1..Len(q) /\ i + 1 # 1 /\ 1 <= i + 1
  BY <1>1
<1>7. Alive(w)' = Alive(w)
  <2>1. ASSUME NEW c \in Alive(w) PROVE c \in Alive(w)'
    <3>1. PICK i \in 1..Len(q) : c = q[i]
      BY <1>1, <1>2, <2>1 DEF Alive
    <3>2. CASE i = 1
      BY <1>3, <1>4, <3>1, <3>2 DEF Alive, Running, BeforeCount
    <3>3. CASE i # 1
      <4>1. i - 1 \in 1..Len(q) - 1 /\ (i - 1) + 1 = i
        BY <1>1, <3>1, <3>3
      <4>2. queue'[w][i - 1] = c /\ i - 1 \in DOMAIN queue'[w]
        BY <1>3, <1>4, <3>1, <4>1
      <4> QED
        BY <4>2 DEF Alive
    <3> QED
      BY <3>2, <3>3
  <2>2. ASSUME NEW c \in Alive(w)' PROVE c \in Alive(w)
    <3>1. c = Head(q) \/ \E i \in 1..Len(q) - 1 : c = Tail(q)[i]
      BY <1>3, <1>4, <2>2 DEF Alive
    <3>2. \E i \in 1..Len(q) : c = q[i]
      BY <1>1, <1>4, <1>6, <3>1
    <3> QED
      BY <1>1, <3>2 DEF Alive
  <2> QED
    BY <2>1, <2>2
<1>8. Distinct(Tail(q)) /\ \A i \in DOMAIN Tail(q) : Tail(q)[i] # Head(q)
  <2>1. ASSUME NEW i \in 1..Len(q) - 1, NEW j \in 1..Len(q) - 1, Tail(q)[i] = Tail(q)[j]
        PROVE  i = j
    <3>1. i + 1 = j + 1
      BY <1>1, <1>4, <1>5, <1>6, <2>1 DEF Distinct
    <3> QED
      BY <3>1
  <2>2. ASSUME NEW i \in 1..Len(q) - 1 PROVE Tail(q)[i] # Head(q)
    <3>1. i + 1 \in DOMAIN q /\ 1 \in DOMAIN q /\ i + 1 # 1
      BY <1>1, <1>4, <1>6
    <3>2. q[i + 1] # q[1]
      BY <1>5, <3>1 DEF Distinct
    <3> QED
      BY <1>4, <3>2
  <2> QED
    BY <1>4, <2>1, <2>2 DEF Distinct
<1>9. ASSUME NEW i \in DOMAIN Tail(q), NEW j \in DOMAIN Tail(q), i <= j
      PROVE  n[Tail(q)[i]] <= n[Tail(q)[j]] /\ n[Tail(q)[j]] <= n[Tail(q)[i]] + 1
  <2>0. i \in 1..Len(q) - 1 /\ j \in 1..Len(q) - 1
    BY <1>4
  <2>1. i + 1 \in DOMAIN q /\ j + 1 \in DOMAIN q /\ i + 1 <= j + 1
    BY <1>1, <1>9, <2>0
  <2> QED
    BY <1>4, <1>5, <2>1
<1>10. ASSUME NEW i \in DOMAIN Tail(q)
       PROVE  n[Head(q)] <= n[Tail(q)[i]] /\ n[Tail(q)[i]] <= n[Head(q)] + 1
  <2>1. i + 1 \in DOMAIN q /\ 1 \in DOMAIN q /\ 1 <= i + 1
    BY <1>1, <1>4, <1>6
  <2> QED
    BY <1>4, <1>5, <2>1
<1>11. pc'[w] \in BeforeCount /\ pc'[w] \notin AfterCount
  BY <1>3 DEF BeforeCount, AfterCount
<1> QED
  BY <1>2, <1>3, <1>5, <1>7, <1>8, <1>9, <1>10, <1>11 DEF InTurn

\* The scheduler takes a coroutine, or ends when its queue is empty.
LEMMA PopStep ==
  ASSUME CoroTypeOK, NEW w \in Workers, Scheduled(w), TakesTurns(w), tid' = tid,
         coro_queue_pop(w)
  PROVE  Scheduled(w)' /\ TakesTurns(w)'
<1> DEFINE q == queue[w]
<1>1. /\ q \in Seq(Coros) /\ DOMAIN q = 1..Len(q) /\ Len(q) \in Nat
      /\ queue \in [Workers -> Seq(Coros)] /\ DOMAIN pc = Workers
      /\ running \in [Workers -> Coros \cup {NULL}]
  BY WorkerTypes
<1>2. /\ pc[w] = "pop" /\ pc[w] \notin Running /\ SlotsExact(w)
      /\ OneRival(w) => InTurn(w)
      /\ context' = context /\ freed' = freed /\ count' = count
  BY DEF coro_queue_pop, Goto, stackVars, Scheduled, TakesTurns, Running, BeforeCount, AfterCount
<1>3. CASE q # <<>>
  <2>1. queue'[w] = Tail(q) /\ running'[w] = Head(q) /\ pc'[w] = "map_walk"
    BY <1>1, <1>3 DEF coro_queue_pop, Goto
  <2>2. Head(q) \in Coros /\ Len(Tail(q)) = Len(q) - 1
    BY <1>1, <1>3, PopFacts
  <2>3. SlotsExact(w)'
    BY <1>1, <1>2, <2>1, <2>2 DEF SlotsExact, Running, BeforeCount
  <2>4. OneRival(w) => InTurn(w)'
    BY <1>2, <1>3, PopInTurn
  <2> QED
    BY <2>1, <2>3, <2>4, RivalsKept
       DEF Scheduled, TakesTurns, Creating, Running, BeforeCount, AfterCount
<1>4. CASE q = <<>>
  <2>1. queue' = queue /\ running'[w] = NULL /\ pc'[w] = "done" /\ pc'[w] \notin Running
    BY <1>1, <1>4 DEF coro_queue_pop, Goto, Running, BeforeCount, AfterCount
  <2>2. SlotsExact(w)'
    BY <1>2, <2>1 DEF SlotsExact
  <2>3. Alive(w)' = Alive(w)
    BY <1>2, <2>1 DEF Alive
  <2>4. InTurn(w) => InTurn(w)'
    BY <1>2, <2>1, <2>3 DEF InTurn, Distinct, Running
  <2> QED
    BY <1>2, <1>4, <2>1, <2>2, <2>4, RivalsKept
       DEF Scheduled, TakesTurns, Creating, Running, BeforeCount, AfterCount
<1> QED
  BY <1>3, <1>4

\* The running coroutine counts: from the first of the turn it becomes the last.
LEMMA CountInTurn ==
  ASSUME CoroTypeOK, NEW w \in Workers, InTurn(w), running[w] \in Coros, Stack(w) = running[w],
         count_task(w)
  PROVE  InTurn(w)'
<1> DEFINE q == queue[w]
           n == count[w]
           r == running[w]
<1>1. /\ q \in Seq(Coros) /\ DOMAIN q = 1..Len(q) /\ DOMAIN pc = Workers
      /\ count \in [Workers -> [Coros -> 0..COUNTS]] /\ n \in [Coros -> Nat]
  BY WorkerTypes
<1>2. /\ pc[w] = "run" /\ pc'[w] = "yeild" /\ queue' = queue /\ running' = running
      /\ context' = context /\ freed' = freed
      /\ n[r] < COUNTS /\ count' = [count EXCEPT ![w][r] = @ + 1]
  BY <1>1 DEF count_task, Goto
<1>3. /\ pc[w] \in Running /\ pc[w] \in BeforeCount
      /\ pc'[w] \in Running /\ pc'[w] \in AfterCount /\ pc'[w] \notin BeforeCount
  BY <1>2 DEF Running, BeforeCount, AfterCount
<1>4. /\ Distinct(q)
      /\ \A i, j \in DOMAIN q : i <= j => n[q[i]] <= n[q[j]] /\ n[q[j]] <= n[q[i]] + 1
      /\ r \in Coros /\ \A i \in DOMAIN q : q[i] # r
      /\ \A i \in DOMAIN q : n[r] <= n[q[i]] /\ n[q[i]] <= n[r] + 1
      /\ \A c \in Coros \ Alive(w), d \in Coros : n[d] = COUNTS
      /\ \A c \in Coros : context[w][c] = c
      /\ \A c \in Alive(w) : c \notin freed[w]
  BY <1>3 DEF InTurn
<1>5. count'[w] = [n EXCEPT ![r] = @ + 1]
  BY <1>1, <1>2
<1>6. /\ count'[w][r] = n[r] + 1
      /\ \A i \in DOMAIN q : q[i] \in Coros /\ count'[w][q[i]] = n[q[i]]
  BY <1>1, <1>4, <1>5
<1>7. Alive(w)' = Alive(w)
  BY <1>2, <1>3 DEF Alive
<1>8. Coros \ Alive(w) = {}
  BY <1>1, <1>2, <1>4, CoroutinesAssumption
<1>9. \A i \in DOMAIN q : n[q[i]] \in Nat
  BY <1>1, <1>6
<1>10. n[r] \in Nat
  BY <1>1, <1>4
<1>11. \A i \in DOMAIN q : n[q[i]] <= n[r] + 1 /\ n[r] + 1 <= n[q[i]] + 1
  BY <1>4, <1>9, <1>10
<1> QED
  BY <1>2, <1>3, <1>4, <1>6, <1>7, <1>8, <1>11 DEF InTurn, Distinct

LEMMA CountStep ==
  ASSUME CoroTypeOK, NEW w \in Workers, Scheduled(w), TakesTurns(w), tid' = tid, count_task(w)
  PROVE  Scheduled(w)' /\ TakesTurns(w)'
<1>1. /\ pc[w] = "run" /\ pc'[w] = "yeild" /\ queue' = queue /\ running' = running
      /\ context' = context /\ freed' = freed
      /\ Stack(w) \notin freed[w] /\ count' = [count EXCEPT ![w][Stack(w)] = @ + 1]
  BY WorkerTypes DEF count_task, Goto
<1>2. /\ pc[w] \in Running /\ pc'[w] \in Running
      /\ pc'[w] \notin Creating \cup {"failed", "pop", "done"}
  BY <1>1 DEF Running, BeforeCount, AfterCount, Creating
<1>3. /\ SlotsExact(w)
      /\ OneRival(w) => InTurn(w)
      /\ running[w] \in Coros /\ Stack(w) \in Coros
      /\ OneRival(w) => Stack(w) = running[w]
  BY <1>2, RunningStack DEF Scheduled, TakesTurns
<1>4. \A s \in freed[w] : count'[w][s] = count[w][s]
  BY <1>1, <1>3, WorkerTypes
<1>5. SlotsExact(w)'
  BY <1>1, <1>2, <1>3, <1>4 DEF SlotsExact
<1>6. OneRival(w) => InTurn(w)'
  BY <1>3, CountInTurn
<1> QED
  BY <1>2, <1>5, <1>6, RivalsKept DEF Scheduled, TakesTurns

\* A coroutine that ends in its turn has counted as far as any other.
LEMMA FinishInTurn ==
  ASSUME CoroTypeOK, NEW w \in Workers, InTurn(w), running[w] \in Coros, Stack(w) = running[w],
         finish(w)
  PROVE  InTurn(w)'
<1> DEFINE q == queue[w]
           n == count[w]
           r == running[w]
<1>1. /\ q \in Seq(Coros) /\ DOMAIN q = 1..Len(q) /\ DOMAIN pc = Workers
      /\ n \in [Coros -> 0..COUNTS]
      /\ context \in [Workers -> [Coros -> Coros]] /\ freed \in [Workers -> SUBSET Coros]
  BY WorkerTypes
<1>2. /\ pc[w] = "run" /\ pc'[w] = "pop" /\ queue' = queue /\ running' = running
      /\ n[r] = COUNTS /\ count' = count
      /\ freed'[w] = freed[w] \cup {r} /\ context' = [context EXCEPT ![w][r] = r]
  BY <1>1 DEF finish, Goto
<1>3. /\ pc[w] \in Running /\ pc[w] \in BeforeCount
      /\ pc'[w] \notin Running /\ pc'[w] \notin AfterCount /\ pc'[w] \notin BeforeCount
  BY <1>2 DEF Running, BeforeCount, AfterCount
<1>4. /\ Distinct(q)
      /\ \A i, j \in DOMAIN q : i <= j => n[q[i]] <= n[q[j]] /\ n[q[j]] <= n[q[i]] + 1
      /\ \A i \in DOMAIN q : n[r] <= n[q[i]] /\ q[i] # r
      /\ \A c \in Coros \ Alive(w), d \in Coros : n[d] = COUNTS
      /\ \A c \in Coros : context[w][c] = c
      /\ \A c \in Alive(w) : c \notin freed[w]
  BY <1>3 DEF InTurn
<1>5. ASSUME NEW d \in Coros PROVE n[d] = COUNTS
  <2>1. CASE d \in Alive(w)
    <3>1. d = r \/ \E i \in DOMAIN q : d = q[i]
      BY <1>3, <2>1 DEF Alive
    <3>2. n[d] \in 0..COUNTS
      BY <1>1
    <3> QED
      BY <1>2, <1>4, <3>1, <3>2, CoroutinesAssumption
  <2>2. CASE d \notin Alive(w)
    BY <1>4, <2>2
  <2> QED
    BY <2>1, <2>2
<1>6. \A c \in Coros : context'[w][c] = c
  BY <1>1, <1>2, <1>4
<1>7. ASSUME NEW c \in Alive(w)' PROVE c \notin freed'[w]
  <2>1. PICK i \in DOMAIN q : c = q[i]
    BY <1>2, <1>3, <1>7 DEF Alive
  <2>2. c \in Alive(w) /\ c # r
    BY <1>4, <2>1 DEF Alive
  <2> QED
    BY <1>2, <1>4, <2>2
<1> QED
  BY <1>2, <1>3, <1>4, <1>5, <1>6, <1>7 DEF InTurn, Distinct

LEMMA FinishStep ==
  ASSUME CoroTypeOK, NEW w \in Workers, Scheduled(w), TakesTurns(w), tid' = tid, finish(w)
  PROVE  Scheduled(w)' /\ TakesTurns(w)'
<1>1. /\ freed[w] \in SUBSET Coros /\ freed \in [Workers -> SUBSET Coros]
      /\ Len(queue[w]) \in Nat
  BY WorkerTypes
<1>2. /\ pc[w] = "run" /\ pc'[w] = "pop" /\ queue' = queue /\ count' = count
      /\ Stack(w) \notin freed[w] /\ count[w][Stack(w)] = COUNTS
      /\ freed'[w] = freed[w] \cup {Stack(w)}
  BY <1>1, WorkerTypes DEF finish, Goto
<1>3. /\ pc[w] \in Running /\ pc'[w] \notin Running
      /\ pc'[w] \notin Creating \cup {"failed", "done"}
  BY <1>2 DEF Running, BeforeCount, AfterCount, Creating
<1>4. /\ SlotsExact(w)
      /\ OneRival(w) => InTurn(w)
      /\ running[w] \in Coros /\ Stack(w) \in Coros
      /\ OneRival(w) => Stack(w) = running[w]
  BY <1>3, RunningStack DEF Scheduled, TakesTurns
<1>5. Cardinality(Coros \ (freed[w] \cup {Stack(w)})) = Cardinality(Coros \ freed[w]) - 1
  BY <1>1, <1>2, <1>4, Unfinished
<1>6. SlotsExact(w)'
  BY <1>1, <1>2, <1>3, <1>4, <1>5 DEF SlotsExact
<1>7. OneRival(w) => InTurn(w)'
  BY <1>4, FinishInTurn
<1> QED
  BY <1>2, <1>3, <1>6, <1>7, RivalsKept DEF Scheduled, TakesTurns

\* The running coroutine goes to the end of the queue.
LEMMA YeildInTurn ==
  ASSUME CoroTypeOK, NEW w \in Workers, InTurn(w), running[w] \in Coros, Stack(w) = running[w],
         YeildPush(w), coro_map_get(w) = running[w]
  PROVE  InTurn(w)'
<1> DEFINE q == queue[w]
           n == count[w]
           r == running[w]
<1>1. /\ q \in Seq(Coros) /\ DOMAIN q = 1..Len(q) /\ DOMAIN pc = Workers
      /\ queue \in [Workers -> Seq(Coros)] /\ Len(q) \in Nat
      /\ n \in [Coros -> Nat] /\ context \in [Workers -> [Coros -> Coros]]
  BY WorkerTypes
<1>2. /\ pc[w] = "map_get" /\ pc'[w] = "pop" /\ running' = running /\ count' = count
      /\ freed' = freed /\ queue'[w] = Append(q, r) /\ context' = [context EXCEPT ![w][r] = r]
  BY <1>1 DEF YeildPush, Goto
<1>3. /\ pc[w] \in Running /\ pc[w] \in AfterCount
      /\ pc'[w] \notin Running /\ pc'[w] \notin AfterCount /\ pc'[w] \notin BeforeCount
  BY <1>2 DEF Running, BeforeCount, AfterCount
<1>4. /\ Distinct(q)
      /\ \A i, j \in DOMAIN q : i <= j => n[q[i]] <= n[q[j]] /\ n[q[j]] <= n[q[i]] + 1
      /\ r \in Coros /\ \A i \in DOMAIN q : q[i] # r
      /\ \A i \in DOMAIN q : n[q[i]] <= n[r] /\ n[r] <= n[q[i]] + 1
  BY <1>3 DEF InTurn
<1>5. /\ \A c \in Coros \ Alive(w), d \in Coros : n[d] = COUNTS
      /\ \A c \in Alive(w) : c \notin freed[w]
      /\ \A c \in Coros : context'[w][c] = c
  BY <1>1, <1>2, <1>3 DEF InTurn
<1> DEFINE p == Append(q, r)
<1>6. /\ DOMAIN p = 1..Len(q) + 1
      /\ \A i \in 1..Len(q) : p[i] = q[i]
      /\ p[Len(q) + 1] = r
  <2>1. r \in Coros
    BY <1>4
  <2> HIDE DEF q, r
  <2> QED
    BY <1>1, <2>1, PushFacts
<1>7. \A i \in DOMAIN p : i = Len(q) + 1 \/ i \in DOMAIN q
  BY <1>1, <1>6
<1>8. Alive(w)' = Alive(w)
  <2>1. ASSUME NEW i \in DOMAIN q PROVE q[i] \in Alive(w)'
    <3>1. i \in DOMAIN p /\ p[i] = q[i]
      BY <1>1, <1>6
    <3> QED
      BY <1>2, <3>1 DEF Alive
  <2>2. r \in Alive(w)'
    <3>1. Len(q) + 1 \in DOMAIN p
      BY <1>1, <1>6
    <3> QED
      BY <1>2, <1>6, <3>1 DEF Alive
  <2>3. ASSUME NEW i \in DOMAIN p PROVE p[i] \in Alive(w)
    BY <1>1, <1>3, <1>6, <1>7 DEF Alive
  <2> QED
    BY <1>2, <1>3, <2>1, <2>2, <2>3 DEF Alive
<1> HIDE DEF q, r, p
<1>9. Distinct(p)
  BY <1>1, <1>4, <1>6, <1>7 DEF Distinct
<1>10. n[r] \in Nat
  BY <1>1, <1>4
<1>11. ASSUME NEW i \in DOMAIN p, NEW j \in DOMAIN p, i <= j
       PROVE  n[p[i]] <= n[p[j]] /\ n[p[j]] <= n[p[i]] + 1
  <2>1. CASE j \in DOMAIN q
    <3>1. i \in DOMAIN q
      BY <1>1, <1>7, <1>11, <2>1
    <3> QED
      BY <1>1, <1>4, <1>6, <1>11, <2>1, <3>1
  <2>2. CASE j = Len(q) + 1
    <3>1. p[j] = r
      BY <1>6, <2>2
    <3>2. p[i] = r \/ (i \in DOMAIN q /\ p[i] = q[i])
      BY <1>1, <1>6, <1>7
    <3> QED
      BY <1>4, <1>10, <3>1, <3>2
  <2> QED
    BY <1>7, <2>1, <2>2
<1> QED
  BY <1>2, <1>3, <1>5, <1>8, <1>9, <1>11 DEF InTurn, p

\* Whatever coroutine the map names is queued.
LEMMA YeildStep ==
  ASSUME CoroTypeOK, NEW w \in Workers, Scheduled(w), TakesTurns(w), tid' = tid, YeildPush(w),
         coro_map_get(w) \in Coros, OneRival(w) => coro_map_get(w) = running[w]
  PROVE  Scheduled(w)' /\ TakesTurns(w)'
<1>1. /\ queue[w] \in Seq(Coros) /\ Len(queue[w]) \in Nat
      /\ queue \in [Workers -> Seq(Coros)] /\ DOMAIN pc = Workers
  BY WorkerTypes
<1>2. /\ pc[w] = "map_get" /\ pc'[w] = "pop" /\ count' = count /\ freed' = freed
      /\ queue'[w] = Append(queue[w], coro_map_get(w))
  BY <1>1 DEF YeildPush, Goto
<1>3. /\ pc[w] \in Running /\ pc'[w] \notin Running
      /\ pc'[w] \notin Creating \cup {"failed", "done"}
  BY <1>2 DEF Running, BeforeCount, AfterCount, Creating
<1>4. /\ SlotsExact(w)
      /\ OneRival(w) => InTurn(w)
      /\ running[w] \in Coros
      /\ OneRival(w) => Stack(w) = running[w]
  BY <1>3, RunningStack DEF Scheduled, TakesTurns
<1>5. Len(queue'[w]) = Len(queue[w]) + 1
  BY <1>1, <1>2, PushFacts
<1>6. SlotsExact(w)'
  BY <1>1, <1>2, <1>3, <1>4, <1>5 DEF SlotsExact
<1>7. OneRival(w) => InTurn(w)'
  BY <1>4, YeildInTurn
<1> QED
  BY <1>2, <1>3, <1>6, <1>7, RivalsKept DEF Scheduled, TakesTurns

\* A step of one worker leaves the other schedulers alone.
LEMMA OthersKept ==
  ASSUME CoroTypeOK, NEW w \in Workers, thread_worker(w)
  PROVE  /\ tid' = tid /\ coro_map_init_cnt' = coro_map_init_cnt
         /\ \A u \in Workers \ {w} :
               /\ pc'[u] = pc[u] /\ queue'[u] = queue[u]
               /\ running'[u] = running[u] /\ count'[u] = count[u]
               /\ context'[u] = context[u] /\ freed'[u] = freed[u]
<1>0. /\ DOMAIN pc = Workers /\ DOMAIN queue = Workers
      /\ DOMAIN running = Workers /\ DOMAIN count = Workers
      /\ DOMAIN context = Workers /\ DOMAIN freed = Workers
  BY WorkerTypes
<1>1. CASE create_scheduler(w) \/ create_coroutine(w) \/ run_scheduler(w)
  BY <1>0, <1>1 DEF create_scheduler, create_coroutine, run_scheduler, NeedsMap, Goto, stackVars
<1>2. CASE coro_queue_pop(w)
  BY <1>0, <1>2 DEF coro_queue_pop, Goto, stackVars
<1>3. CASE MapWalk(w) \/ MapRead(w) \/ MapWrite(w)
  BY <1>0, <1>3 DEF MapWalk, MapRead, MapWrite, Goto, stackVars
<1>4. CASE count_task(w) \/ finish(w)
  BY <1>0, <1>4 DEF count_task, finish, Goto
<1>5. CASE YeildPush(w)
  BY <1>0, <1>5 DEF YeildPush, Goto
<1>6. CASE MapGone(w) \/ ResumeFreed(w) \/ YeildTest(w) \/ YeildLost(w)
  BY <1>0, <1>6 DEF MapGone, ResumeFreed, YeildTest, YeildLost, Die, workerVars, stackVars, Goto
<1> QED
  BY <1>1, <1>2, <1>3, <1>4, <1>5, <1>6 DEF thread_worker, scheduler_routine, yeild

-----------------------------------------------------------------------------
(* The map *)

\* The number of the bucket.
LEMMA HashInRange ==
  ASSUME CoroTypeOK, NEW w \in Workers
  PROVE  hash_tid(w) \in 0..MAP_CAPACITY - 1
<1>1. tid[w] \in Nat
  BY CoroutinesAssumption DEF CoroTypeOK
<1> QED
  BY <1>1, CoroutinesAssumption DEF hash_tid

\* The types of the map.
LEMMA MapTypes ==
  ASSUME CoroTypeOK, NEW w \in Workers
  PROVE  /\ coro \in [Workers -> Seq(Coros \cup {NULL})] /\ coro[w] \in Seq(Coros \cup {NULL})
         /\ Len(coro[w]) \in Nat /\ DOMAIN coro[w] = 1..Len(coro[w])
         /\ head \in [Workers -> Seq(Workers \X Nat)] /\ head[w] \in Seq(Workers \X Nat)
         /\ buckets # NoMap => buckets \in [0..MAP_CAPACITY - 1 -> Seq(Workers \X Nat)]
         /\ hash_tid(w) \in 0..MAP_CAPACITY - 1
         /\ DOMAIN pc = Workers
<1>1. coro \in [Workers -> Seq(Coros \cup {NULL})] /\ coro[w] \in Seq(Coros \cup {NULL})
  BY DEF CoroTypeOK
<1>2. Len(coro[w]) \in Nat /\ DOMAIN coro[w] = 1..Len(coro[w])
  BY <1>1
<1>3. head \in [Workers -> Seq(Workers \X Nat)] /\ head[w] \in Seq(Workers \X Nat)
  BY DEF CoroTypeOK
<1>4. buckets # NoMap => buckets \in [0..MAP_CAPACITY - 1 -> Seq(Workers \X Nat)]
  BY DEF CoroTypeOK
<1> QED
  BY <1>1, <1>2, <1>3, <1>4, HashInRange, WorkerTypes

LEMMA NotNull ==
  ASSUME NEW c \in Coros
  PROVE  c # NULL
BY CoroutinesAssumption DEF NULL, Coros

\* The walk finds the first node of the thread.
LEMMA NodeFound ==
  ASSUME CoroTypeOK, buckets # NoMap, NEW w \in Workers, InBucket(w)
  PROVE  \E x \in NodesIn(buckets[hash_tid(w)]) : Matches(x, w) /\ x[2] = NodeOf(w)
<1>1. buckets[hash_tid(w)] \in Seq(Workers \X Nat)
  BY HashInRange DEF CoroTypeOK
<1>2. PlacesOf(w) \subseteq Nat /\ PlacesOf(w) # {}
  BY <1>1 DEF PlacesOf, InBucket
<1>3. PICK least \in PlacesOf(w) : \A q \in PlacesOf(w) : least <= q
  BY <1>2, LeastNatural
<1> DEFINE i == CHOOSE p \in PlacesOf(w) : \A q \in PlacesOf(w) : p <= q
<1>4. i \in PlacesOf(w)
  BY <1>3
<1>5. NodeOf(w) = buckets[hash_tid(w)][i][2]
  BY DEF NodeOf
<1> HIDE DEF i
<1> QED
  BY <1>4, <1>5 DEF PlacesOf, NodesIn

\* What the walk finds is a coroutine of the thread.
LEMMA NodeFacts ==
  ASSUME CoroTypeOK, NodesAdded, buckets # NoMap, NEW w \in Workers, InBucket(w)
  PROVE  /\ NodeOf(w) \in 1..Len(coro[w]) /\ coro[w][NodeOf(w)] \in Coros
         /\ \E x \in Candidates(w) : x[2] = NodeOf(w)
<1>1. PICK x \in NodesIn(buckets[hash_tid(w)]) : Matches(x, w) /\ x[2] = NodeOf(w)
  BY NodeFound
<1>2. Node(x, hash_tid(w))
  BY <1>1, HashInRange DEF NodesAdded
<1>3. NodeOf(w) \in 1..Len(coro[w]) /\ coro[w][NodeOf(w)] # NULL
  BY <1>1, <1>2 DEF Node, Matches
<1>4. coro[w][NodeOf(w)] \in Coros
  BY <1>3, MapTypes
<1> QED
  BY <1>1, <1>3, <1>4 DEF Candidates

\* Where the same nodes match, the same threads are in their buckets.
LEMMA CandidatesKept ==
  ASSUME CoroTypeOK, NodesAdded, buckets # NoMap,
         buckets' = buckets, tid' = tid, head' = head, NEW w \in Workers,
         \A x : Node(x, hash_tid(w)) => Matches(x, w)' = Matches(x, w)
  PROVE  Candidates(w)' = Candidates(w) /\ InBucket(w)' = InBucket(w)
<1>1. hash_tid(w) \in 0..MAP_CAPACITY - 1 /\ \A u \in Workers : hash_tid(u)' = hash_tid(u)
  BY HashInRange DEF hash_tid
<1>2. ASSUME NEW x \in NodesIn(buckets[hash_tid(w)]) PROVE Matches(x, w)' = Matches(x, w)
  BY <1>1 DEF NodesAdded
<1>3. ASSUME NEW u \in Workers, NEW x \in NodesIn(head[u]) PROVE Matches(x, w)' = Matches(x, w)
  <2>1. Node(x, hash_tid(u))
    BY <1>3 DEF NodesAdded
  <2>2. x[1] = w => Node(x, hash_tid(w))
    BY <2>1 DEF Node
  <2> QED
    BY <2>2 DEF Matches
<1>4. InBucket(w)' = InBucket(w)
  <2>1. \A i \in DOMAIN buckets[hash_tid(w)] :
           Matches(buckets[hash_tid(w)][i], w)' = Matches(buckets[hash_tid(w)][i], w)
    <3> SUFFICES ASSUME NEW i \in DOMAIN buckets[hash_tid(w)]
                 PROVE  Matches(buckets[hash_tid(w)][i], w)'
                           = Matches(buckets[hash_tid(w)][i], w)
      OBVIOUS
    <3>1. PICK x \in NodesIn(buckets[hash_tid(w)]) : x = buckets[hash_tid(w)][i]
      BY DEF NodesIn
    <3>2. Matches(x, w)' = Matches(x, w)
      BY <1>2
    <3> QED
      BY <1>1, <3>1, <3>2 DEF Matches
  <2> QED
    BY <1>1, <2>1 DEF InBucket, PlacesOf
<1>5. Candidates(w)' = Candidates(w)
  BY <1>1, <1>2, <1>3 DEF Candidates, NodesIn
<1> QED
  BY <1>4, <1>5

\* Steps that do not touch the map.
LEMMA MapKept ==
  ASSUME MapInv, buckets' = buckets, coro' = coro, tid' = tid, head' = head,
         coro_map_init_cnt' \in {coro_map_init_cnt, 0},
         \A u \in Workers :
            /\ pc'[u] \in {"run", "yeild", "map_get"} =>
                  pc[u] \in {"run", "yeild", "map_get"} /\ running'[u] = running[u]
            /\ pc'[u] \in {"map_read", "map_write"} \/ pc[u] = "map_write" => pc'[u] = pc[u]
  PROVE  MapInv'
<1>1. NodesAdded'
  BY DEF MapInv, NodesAdded, NodesIn, Node, hash_tid
<1>2. ASSUME buckets # NoMap, NEW u \in Workers PROVE MapKnows(u)'
  <2>1. /\ Candidates(u)' = Candidates(u) /\ Rivals(u)' = Rivals(u)
        /\ InBucket(u)' = InBucket(u)
    BY DEF Candidates, Rivals, InBucket, PlacesOf, NodesIn, Matches, hash_tid
  <2>2. OneRival(u)' = OneRival(u)
    BY <2>1 DEF OneRival
  <2>3. MapKnows(u)
    BY <1>2 DEF MapInv
  <2> QED
    BY <2>1, <2>2, <2>3 DEF MapKnows
<1>3. coro_map_init_cnt' = 1 => buckets' # NoMap
  BY DEF MapInv
<1> QED
  BY <1>1, <1>2, <1>3 DEF MapInv

\* Updating a node.
LEMMA UpdateFacts ==
  ASSUME CoroTypeOK, NodesAdded, buckets # NoMap, NEW w \in Workers, InBucket(w),
         NEW c \in Coros, coro' = [coro EXCEPT ![w][NodeOf(w)] = c]
  PROVE  /\ coro' \in [Workers -> Seq(Coros \cup {NULL})]
         /\ \A u \in Workers : Len(coro'[u]) = Len(coro[u])
         /\ \A u \in Workers \ {w} : coro'[u] = coro[u]
         /\ coro'[w][NodeOf(w)] = c
         /\ \A u \in Workers : \A x, b : Node(x, b) => Matches(x, u)' = Matches(x, u)
<1>1. /\ coro \in [Workers -> Seq(Coros \cup {NULL})] /\ coro[w] \in Seq(Coros \cup {NULL})
      /\ Len(coro[w]) \in Nat /\ DOMAIN coro[w] = 1..Len(coro[w])
  BY MapTypes
<1>2. PICK k \in 1..Len(coro[w]) : k = NodeOf(w) /\ coro[w][k] \in Coros
  BY NodeFacts
<1>3. coro' = [coro EXCEPT ![w] = [@ EXCEPT ![k] = c]]
  BY <1>1, <1>2
<1>4. PICK s : s = [coro[w] EXCEPT ![k] = c]
  OBVIOUS
<1>5. s \in Seq(Coros \cup {NULL}) /\ Len(s) = Len(coro[w]) /\ s[k] = c
  BY <1>1, <1>4, ExceptSeq
<1>6. \A j \in 1..Len(coro[w]) : j # k => s[j] = coro[w][j]
  BY <1>1, <1>4
<1>7. coro' = [coro EXCEPT ![w] = s]
  BY <1>1, <1>3, <1>4
<1>8. ASSUME NEW u \in Workers, NEW x, NEW b, Node(x, b)
      PROVE  Matches(x, u)' = Matches(x, u)
  <2>1. CASE u = w /\ x[1] = w
    <3>1. x[2] \in 1..Len(coro[w]) /\ coro'[w] = s
      BY <1>1, <1>7, <1>8, <2>1 DEF Node
    <3>2. s[x[2]] # NULL <=> coro[w][x[2]] # NULL
      BY <1>2, <1>5, <1>6, <3>1, NotNull
    <3> QED
      BY <2>1, <3>1, <3>2 DEF Matches
  <2>2. CASE ~(u = w /\ x[1] = w)
    BY <1>1, <1>7, <2>2 DEF Matches
  <2> QED
    BY <2>1, <2>2
<1> QED
  BY <1>1, <1>2, <1>5, <1>7, <1>8

\* coro_map_add finds the thread's node and updates it, or does not find it.
LEMMA MapWalkStep ==
  ASSUME CoroTypeOK, MapInv, NEW w \in Workers, MapWalk(w), running[w] \in Coros
  PROVE  coro' \in [Workers -> Seq(Coros \cup {NULL})] /\ MapInv'
<1>0. /\ pc[w] = "map_walk" /\ buckets' = buckets /\ tid' = tid /\ head' = head
      /\ running' = running /\ coro_map_init_cnt' = coro_map_init_cnt
      /\ DOMAIN pc = Workers /\ coro \in [Workers -> Seq(Coros \cup {NULL})]
      /\ NodesAdded
  BY MapTypes DEF MapWalk, Goto, MapInv
<1>1. CASE buckets = NoMap
  <2>1. coro' = coro /\ pc' = [pc EXCEPT ![w] = "run"]
    BY <1>1 DEF MapWalk, Goto
  <2>2. NodesAdded'
    BY <1>0, <1>1, <2>1 DEF MapInv, NodesAdded, NodesIn, Node, hash_tid
  <2> QED
    BY <1>0, <1>1, <2>1, <2>2 DEF MapInv
<1>2. CASE buckets # NoMap
  <2>1. \A u \in Workers \ {w} : pc'[u] = pc[u]
    BY <1>0 DEF MapWalk, Goto
  <2>2. \A u \in Workers : /\ Rivals(u)' = Rivals(u) /\ OneRival(u)' = OneRival(u)
    BY <1>0, RivalsKept
  <2>3. CASE InBucket(w)
    <3>1. coro' = [coro EXCEPT ![w][NodeOf(w)] = running[w]] /\ pc'[w] = "run"
      BY <1>0, <1>2, <2>3 DEF MapWalk, Goto
    <3>2. /\ coro' \in [Workers -> Seq(Coros \cup {NULL})]
          /\ \A u \in Workers : Len(coro'[u]) = Len(coro[u])
          /\ \A u \in Workers \ {w} : coro'[u] = coro[u]
          /\ coro'[w][NodeOf(w)] = running[w]
          /\ \A u \in Workers : \A x, b : Node(x, b) => Matches(x, u)' = Matches(x, u)
      BY <1>0, <1>2, <2>3, <3>1, UpdateFacts
    <3>3. NodesAdded'
      BY <1>0, <2>1, <3>1, <3>2 DEF MapInv, NodesAdded, NodesIn, Node, hash_tid
    <3>4. \A u \in Workers : Candidates(u)' = Candidates(u) /\ InBucket(u)' = InBucket(u)
      BY <1>0, <1>2, <3>2, CandidatesKept
    <3>5. ASSUME NEW u \in Workers, u # w PROVE MapKnows(u)'
      <4>1. MapKnows(u) /\ pc'[u] = pc[u] /\ coro'[u] = coro[u]
        BY <1>2, <2>1, <3>2, <3>5 DEF MapInv
      <4> QED
        BY <1>0, <2>2, <3>4, <4>1 DEF MapKnows
    <3>6. MapKnows(w)
      BY <1>2 DEF MapInv
    <3>7. OneRival(w) => NodeOf(w) = Len(coro[w])
      <4>1. PICK x \in Candidates(w) : x[2] = NodeOf(w)
        BY <1>0, <1>2, <2>3, NodeFacts
      <4> QED
        BY <3>6, <4>1 DEF MapKnows
    <3>8. MapKnows(w)'
      BY <1>0, <2>2, <2>3, <3>1, <3>2, <3>4, <3>6, <3>7 DEF MapKnows
    <3> QED
      BY <1>0, <1>2, <3>2, <3>3, <3>5, <3>8 DEF MapInv
  <2>4. CASE ~InBucket(w)
    <3>1. coro' = coro /\ pc'[w] = "map_read"
      BY <1>0, <1>2, <2>4 DEF MapWalk, Goto
    <3>2. NodesAdded'
      BY <1>0, <2>1, <3>1 DEF MapInv, NodesAdded, NodesIn, Node, hash_tid
    <3>3. \A u \in Workers : \A x : Matches(x, u)' = Matches(x, u)
      BY <3>1 DEF Matches
    <3>4. \A u \in Workers : Candidates(u)' = Candidates(u) /\ InBucket(u)' = InBucket(u)
      BY <1>0, <1>2, <3>3, CandidatesKept
    <3>5. ASSUME NEW u \in Workers PROVE MapKnows(u)'
      <4>1. MapKnows(u)
        BY <1>2 DEF MapInv
      <4>2. CASE u = w
        BY <1>0, <2>2, <2>4, <3>1, <3>4, <4>1, <4>2 DEF MapKnows
      <4>3. CASE u # w
        <5>1. pc'[u] = pc[u]
          BY <2>1, <4>3
        <5> QED
          BY <1>0, <2>2, <3>1, <3>4, <4>1, <5>1 DEF MapKnows
      <4> QED
        BY <4>2, <4>3
    <3> QED
      BY <1>0, <1>2, <3>1, <3>2, <3>5 DEF MapInv
  <2> QED
    BY <2>3, <2>4
<1> QED
  BY <1>1, <1>2

\* The head of the bucket is read: its nodes were candidates already.
LEMMA MapReadStep ==
  ASSUME CoroTypeOK, MapInv, NEW w \in Workers, MapRead(w)
  PROVE  head' \in [Workers -> Seq(Workers \X Nat)] /\ MapInv'
<1> DEFINE h == hash_tid(w)
<1>0. /\ DOMAIN pc = Workers /\ head \in [Workers -> Seq(Workers \X Nat)]
      /\ h \in 0..MAP_CAPACITY - 1
      /\ buckets \in [0..MAP_CAPACITY - 1 -> Seq(Workers \X Nat)]
      /\ NodesAdded /\ \A u \in Workers : MapKnows(u)
  BY MapTypes DEF MapRead, MapInv
<1>1. /\ pc[w] = "map_read" /\ pc'[w] = "map_write" /\ buckets # NoMap
      /\ buckets' = buckets /\ coro' = coro /\ tid' = tid /\ running' = running
      /\ coro_map_init_cnt' = coro_map_init_cnt
      /\ head'[w] = buckets[h] /\ head' \in [Workers -> Seq(Workers \X Nat)]
      /\ \A u \in Workers \ {w} : pc'[u] = pc[u] /\ head'[u] = head[u]
  BY <1>0 DEF MapRead, Goto
<1>2. NodesAdded'
  <2>1. \A x, b : Node(x, b)' = Node(x, b)
    BY <1>1 DEF Node, hash_tid
  <2>2. ASSUME NEW u \in Workers, NEW x \in NodesIn(head'[u]) PROVE Node(x, hash_tid(u))
    <3>1. CASE u = w
      BY <1>0, <1>1, <2>2, <3>1 DEF NodesAdded
    <3>2. CASE u # w
      BY <1>0, <1>1, <2>2, <3>2 DEF NodesAdded
    <3> QED
      BY <3>1, <3>2
  <2>3. \A u \in Workers : hash_tid(u)' = hash_tid(u)
    BY <1>1 DEF hash_tid
  <2>4. \A b \in 0..MAP_CAPACITY - 1 : \A x \in NodesIn(buckets[b]) : Node(x, b)
    BY <1>0, <1>1 DEF NodesAdded
  <2>5. \A u \in Workers : pc'[u] # "map_write" => head'[u] = <<>>
    BY <1>0, <1>1 DEF NodesAdded
  <2> QED
    BY <1>1, <2>1, <2>2, <2>3, <2>4, <2>5 DEF NodesAdded, NodesIn
<1>3. ASSUME NEW u \in Workers PROVE MapKnows(u)'
  <2>1. Rivals(u)' = Rivals(u) /\ InBucket(u)' = InBucket(u)
    BY <1>1 DEF Rivals, InBucket, PlacesOf, Matches, hash_tid
  <2>2. OneRival(u)' = OneRival(u)
    BY <2>1 DEF OneRival
  <2>3. Candidates(u)' \subseteq Candidates(u)
    <3> SUFFICES ASSUME NEW x \in Candidates(u)' PROVE x \in Candidates(u)
      OBVIOUS
    <3>0. Matches(x, u) /\ x[1] = u
      BY <1>1 DEF Candidates, Matches
    <3>1. CASE x \in NodesIn(buckets[hash_tid(u)])
      BY <3>0, <3>1 DEF Candidates
    <3>2. CASE \E v \in Workers \ {w} : x \in NodesIn(head[v])
      BY <3>0, <3>2 DEF Candidates
    <3>3. CASE x \in NodesIn(buckets[h])
      <4>1. Node(x, h)
        BY <1>0, <1>1, <3>3 DEF NodesAdded
      <4> QED
        BY <3>0, <3>3, <4>1 DEF Candidates, Node
    <3>4. hash_tid(u)' = hash_tid(u)
      BY <1>1 DEF hash_tid
    <3>5. \/ x \in NodesIn(buckets[hash_tid(u)])
          \/ \E v \in Workers : x \in NodesIn(head'[v])
      BY <1>1, <3>4 DEF Candidates, NodesIn
    <3> QED
      BY <1>1, <3>1, <3>2, <3>3, <3>5
  <2>4. pc[u] \in {"map_read", "map_write"} <=> pc'[u] \in {"map_read", "map_write"}
    BY <1>1
  <2>5. pc'[u] \in {"run", "yeild", "map_get"} => pc'[u] = pc[u]
    BY <1>1
  <2> QED
    BY <1>0, <1>1, <2>1, <2>2, <2>3, <2>4, <2>5 DEF MapKnows
<1> QED
  BY <1>1, <1>2, <1>3 DEF MapInv

\* The new node replaces the head of the bucket.  Nodes that were added since the
\* head was read are lost.
LEMMA MapWriteStep ==
  ASSUME CoroTypeOK, MapInv, NEW w \in Workers, MapWrite(w), running[w] \in Coros
  PROVE  /\ head' \in [Workers -> Seq(Workers \X Nat)]
         /\ coro' \in [Workers -> Seq(Coros \cup {NULL})]
         /\ buckets' \in [0..MAP_CAPACITY - 1 -> Seq(Workers \X Nat)]
         /\ MapInv'
<1> DEFINE B == 0..MAP_CAPACITY - 1
<1>0. PICK h, new, rest : h = hash_tid(w) /\ new = <<w, Len(coro[w]) + 1>> /\ rest = head[w]
  OBVIOUS
<1>1. /\ DOMAIN pc = Workers /\ head \in [Workers -> Seq(Workers \X Nat)]
      /\ h \in B /\ buckets \in [B -> Seq(Workers \X Nat)]
      /\ coro \in [Workers -> Seq(Coros \cup {NULL})] /\ rest \in Seq(Workers \X Nat)
      /\ Len(coro[w]) \in Nat /\ coro[w] \in Seq(Coros \cup {NULL})
      /\ NodesAdded /\ \A u \in Workers : MapKnows(u)
  BY <1>0, MapTypes DEF MapWrite, MapInv
<1>2. /\ pc[w] = "map_write" /\ pc'[w] = "run" /\ buckets # NoMap
      /\ tid' = tid /\ running' = running /\ coro_map_init_cnt' = coro_map_init_cnt
      /\ buckets' = [buckets EXCEPT ![h] = <<new>> \o rest]
      /\ coro' = [coro EXCEPT ![w] = Append(coro[w], running[w])]
      /\ head' = [head EXCEPT ![w] = <<>>]
      /\ \A u \in Workers \ {w} : pc'[u] = pc[u]
  BY <1>0, <1>1 DEF MapWrite, Goto
<1>3. new \in Workers \X Nat /\ new[1] = w /\ new[2] = Len(coro[w]) + 1
  BY <1>0, <1>1
<1>4. /\ <<new>> \o rest \in Seq(Workers \X Nat)
      /\ NodesIn(<<new>> \o rest) = {new} \cup NodesIn(rest)
  BY <1>1, <1>3, ConsFacts
<1>5. /\ buckets' \in [B -> Seq(Workers \X Nat)] /\ NodesIn(buckets'[h]) = {new} \cup NodesIn(rest)
      /\ \A b \in B \ {h} : buckets'[b] = buckets[b]
  BY <1>1, <1>2, <1>4
<1>6. /\ head' \in [Workers -> Seq(Workers \X Nat)] /\ head'[w] = <<>>
      /\ \A u \in Workers \ {w} : head'[u] = head[u]
  BY <1>1, <1>2
<1>7. /\ Append(coro[w], running[w]) \in Seq(Coros \cup {NULL})
      /\ Len(Append(coro[w], running[w])) = Len(coro[w]) + 1
      /\ Append(coro[w], running[w])[Len(coro[w]) + 1] = running[w]
  <2>1. running[w] \in Coros \cup {NULL}
    OBVIOUS
  <2> QED
    BY <1>1, <2>1, PushFacts
<1>8. /\ coro' \in [Workers -> Seq(Coros \cup {NULL})]
      /\ Len(coro'[w]) = Len(coro[w]) + 1
      /\ coro'[w][Len(coro[w]) + 1] = running[w]
      /\ \A u \in Workers \ {w} : coro'[u] = coro[u]
  BY <1>1, <1>2, <1>7
<1>9. /\ \A u \in Workers : hash_tid(u)' = hash_tid(u) /\ hash_tid(u) \in B
      /\ \A u \in Workers : Rivals(u)' = Rivals(u) /\ OneRival(u)' = OneRival(u)
  <2>1. \A u \in Workers : hash_tid(u)' = hash_tid(u) /\ Rivals(u)' = Rivals(u)
    BY <1>2 DEF hash_tid, Rivals
  <2> QED
    BY <2>1, HashInRange DEF OneRival
<1>10. ASSUME NEW x, NEW b, Node(x, b) PROVE Node(x, b)'
  <2>1. \A u \in Workers : 1..Len(coro[u]) \subseteq 1..Len(coro'[u])
    <3>1. 1..Len(coro[w]) \subseteq 1..Len(coro'[w])
      BY <1>1, <1>8
    <3> QED
      BY <1>8, <3>1
  <2> QED
    BY <1>9, <1>10, <2>1 DEF Node
<1>11. Node(new, h)'
  <2>1. Len(coro[w]) + 1 \in 1..Len(coro'[w])
    BY <1>1, <1>8
  <2> QED
    BY <1>0, <1>3, <1>9, <2>1 DEF Node
<1>12. \A x \in NodesIn(rest) : Node(x, h)
  BY <1>0, <1>1 DEF NodesAdded
<1>13. ~\E x : x \in NodesIn(<<>>)
  BY DEF NodesIn
<1>14. NodesAdded'
  <2>1. ASSUME NEW b \in B, NEW x \in NodesIn(buckets'[b]) PROVE Node(x, b)'
    <3>1. CASE b = h
      BY <1>5, <1>10, <1>11, <1>12, <2>1, <3>1
    <3>2. CASE b # h
      BY <1>1, <1>2, <1>5, <1>10, <2>1, <3>2 DEF NodesAdded
    <3> QED
      BY <3>1, <3>2
  <2>2. ASSUME NEW u \in Workers, NEW x \in NodesIn(head'[u]) PROVE Node(x, hash_tid(u))'
    <3>1. u # w
      BY <1>6, <1>13, <2>2
    <3>2. Node(x, hash_tid(u))
      BY <1>1, <1>6, <2>2, <3>1 DEF NodesAdded
    <3> QED
      BY <1>9, <1>10, <3>2
  <2>3. \A u \in Workers : pc'[u] # "map_write" => head'[u] = <<>>
    BY <1>1, <1>2, <1>6 DEF NodesAdded
  <2> QED
    BY <1>9, <2>1, <2>2, <2>3 DEF NodesAdded, NodesIn
<1>15. ASSUME NEW u \in Workers
       PROVE  InBucket(u)' <=> \E x \in NodesIn(buckets'[hash_tid(u)]) : Matches(x, u)'
  BY <1>9 DEF InBucket, PlacesOf, NodesIn, Matches
<1>16. ASSUME NEW u \in Workers, NEW x \in Candidates(u)'
       PROVE  /\ Matches(x, u)' /\ x[1] = u
              /\ \/ x \in NodesIn(buckets'[hash_tid(u)])
                 \/ \E v \in Workers \ {w} : x \in NodesIn(head[v])
  <2>1. /\ Matches(x, u)' /\ x[1] = u
        /\ \/ x \in NodesIn(buckets'[hash_tid(u)])
           \/ \E v \in Workers : x \in NodesIn(head'[v])
    BY <1>9 DEF Candidates, NodesIn, Matches
  <2> QED
    BY <1>6, <1>13, <2>1
<1>17. MapKnows(w)'
  <2>0. Matches(new, w)'
    BY <1>3, <1>8, NotNull DEF Matches
  <2>1. InBucket(w)'
    BY <1>0, <1>5, <1>15, <2>0
  <2>2. ASSUME OneRival(w), NEW x \in Candidates(w)' PROVE x[2] = Len(coro'[w])
    <3>1. Candidates(w) = {}
      BY <1>1, <1>2, <2>2 DEF MapKnows
    <3>2. ASSUME NEW v \in Workers, x \in NodesIn(head[v]) PROVE FALSE
      <4>1. x[2] \in 1..Len(coro[w]) /\ x[1] = w
        BY <1>1, <1>16, <2>2, <3>2 DEF NodesAdded, Node
      <4>2. coro'[w] = Append(coro[w], running[w])
        BY <1>1, <1>2
      <4>3. coro'[w][x[2]] = coro[w][x[2]]
        BY <1>1, <4>1, <4>2
      <4>4. Matches(x, w)
        BY <1>16, <2>2, <4>1, <4>3 DEF Matches
      <4> QED
        BY <3>1, <3>2, <4>4 DEF Candidates
    <3>3. x = new
      BY <1>0, <1>5, <1>16, <2>2, <3>2
    <3> QED
      BY <1>3, <1>8, <3>3
  <2> QED
    BY <1>2, <1>8, <1>9, <2>1, <2>2 DEF MapKnows
<1>18. ASSUME NEW u \in Workers, u # w PROVE MapKnows(u)'
  <2>0. \A x : Matches(x, u)' = Matches(x, u)
    BY <1>8, <1>18 DEF Matches
  <2>1. Candidates(u)' \subseteq Candidates(u)
    <3> SUFFICES ASSUME NEW x \in Candidates(u)' PROVE x \in Candidates(u)
      OBVIOUS
    <3>1. x[1] = u /\ Matches(x, u)
      BY <1>16, <2>0
    <3>2. CASE \E v \in Workers : x \in NodesIn(head[v])
      BY <3>1, <3>2 DEF Candidates
    <3>3. CASE x \in NodesIn(buckets'[hash_tid(u)]) /\ hash_tid(u) # h
      BY <1>5, <1>9, <3>1, <3>3 DEF Candidates
    <3>4. CASE x \in NodesIn(buckets'[hash_tid(u)]) /\ hash_tid(u) = h
      BY <1>0, <1>3, <1>5, <1>18, <3>1, <3>2, <3>4
    <3> QED
      BY <1>16, <3>2, <3>3, <3>4
  <2>2. InBucket(u)' => \E x \in Candidates(u)' : TRUE
    <3>1. ASSUME NEW x \in NodesIn(buckets'[hash_tid(u)]), Matches(x, u)'
          PROVE  x \in Candidates(u)'
      BY <1>9, <3>1 DEF Candidates, NodesIn, Matches
    <3> QED
      BY <1>15, <3>1
  <2>3. CASE hash_tid(u) # h
    <3>0. buckets'[hash_tid(u)] = buckets[hash_tid(u)] /\ hash_tid(u)' = hash_tid(u)
      BY <1>5, <1>9, <2>3
    <3>1. InBucket(u)' = InBucket(u)
      <4>1. PlacesOf(u)' = PlacesOf(u)
        BY <2>0, <3>0 DEF PlacesOf
      <4> QED
        BY <4>1 DEF InBucket
    <3> QED
      BY <1>1, <1>2, <1>8, <1>9, <1>18, <2>1, <3>1 DEF MapKnows
  <2>4. CASE hash_tid(u) = h
    <3>1. w \in Rivals(u)
      BY <1>0, <1>18, <2>4 DEF Rivals, hash_tid
    <3>2. ASSUME OneRival(u), NEW x \in Candidates(u)' PROVE InBucket(u)'
      <4>1. CASE x \in NodesIn(buckets'[hash_tid(u)])
        BY <1>15, <1>16, <3>2, <4>1
      <4>2. ASSUME NEW v \in Workers \ {w}, x \in NodesIn(head[v]) PROVE FALSE
        <5>1. Node(x, hash_tid(v)) /\ x[1] = u /\ x \in Candidates(u)
          BY <1>1, <1>16, <2>1, <3>2, <4>2 DEF NodesAdded
        <5>2. v = u
          BY <3>1, <3>2, <4>2, <5>1 DEF Node, OneRival, Rivals, hash_tid
        <5>3. pc[u] = "map_write"
          BY <1>1, <1>13, <4>2, <5>2 DEF NodesAdded
        <5> QED
          BY <1>1, <3>2, <5>1, <5>3 DEF MapKnows
      <4> QED
        BY <1>16, <3>2, <4>1, <4>2
    <3>3. MapKnows(u)
      BY <1>1
    <3>4. /\ pc'[u] = pc[u] /\ coro'[u] = coro[u] /\ running'[u] = running[u]
          /\ OneRival(u)' = OneRival(u) /\ Rivals(u)' # {}
      BY <1>2, <1>8, <1>9, <1>18, <3>1
    <3> QED
      BY <2>1, <2>2, <3>2, <3>3, <3>4 DEF MapKnows
  <2> QED
    BY <2>3, <2>4
<1>19. buckets' # NoMap
  <2>1. DOMAIN buckets' = B /\ 0 \in B
    BY <1>5, CoroutinesAssumption
  <2>2. DOMAIN <<>> = {}
    OBVIOUS
  <2> QED
    BY <2>1, <2>2 DEF NoMap
<1> QED
  BY <1>5, <1>6, <1>8, <1>14, <1>17, <1>18, <1>19 DEF MapInv
-----------------------------------------------------------------------------
(* The steps of a worker *)

\* What a coroutine finds in the map.
LEMMA GetFacts ==
  ASSUME CoroTypeOK, MapInv, NEW w \in Workers, pc[w] = "map_get"
  PROVE  /\ coro_map_get(w) \in Coros \cup {NULL}
         /\ coro_map_get(w) = NULL => coro_map_init_cnt = 0 \/ Rivals(w) # {}
         /\ OneRival(w) /\ coro_map_get(w) # NULL => coro_map_get(w) = running[w]
<1>1. CASE buckets # NoMap /\ InBucket(w)
  <2>1. coro_map_get(w) = coro[w][NodeOf(w)] /\ MapKnows(w) /\ NodesAdded
    BY <1>1 DEF coro_map_get, MapInv
  <2>2. /\ coro[w][NodeOf(w)] \in Coros /\ coro[w][NodeOf(w)] # NULL
        /\ \E x \in Candidates(w) : x[2] = NodeOf(w)
    BY <1>1, <2>1, NodeFacts, NotNull
  <2>3. OneRival(w) => coro[w][NodeOf(w)] = running[w]
    BY <1>1, <2>1, <2>2 DEF MapKnows
  <2> QED
    BY <2>1, <2>2, <2>3
<1>2. CASE ~(buckets # NoMap /\ InBucket(w))
  <2>1. coro_map_get(w) = NULL
    BY <1>2 DEF coro_map_get
  <2>2. coro_map_init_cnt \in 0..1
    BY DEF CoroTypeOK
  <2>3. coro_map_init_cnt = 1 => Rivals(w) # {}
    BY <1>2 DEF MapInv, MapKnows
  <2> QED
    BY <2>1, <2>2, <2>3
<1> QED
  BY <1>1, <1>2

LEMMA SchedulersStep ==
  ASSUME CoroTypeOK, MapInv, \A u \in Workers : Scheduled(u) /\ TakesTurns(u),
         NEW w \in Workers, thread_worker(w)
  PROVE  \A u \in Workers : Scheduled(u)' /\ TakesTurns(u)'
<1>1. tid' = tid
  BY OthersKept
<1>2. ASSUME NEW u \in Workers, u # w PROVE Scheduled(u)' /\ TakesTurns(u)'
  BY <1>1, <1>2, OthersKept, ScheduledKept
<1>3. Scheduled(w)' /\ TakesTurns(w)'
  <2>0. DOMAIN pc = Workers
    BY WorkerTypes
  <2>1. CASE create_scheduler(w) \/ create_coroutine(w) \/ run_scheduler(w)
    BY <2>1, CreatingStep
  <2>2. CASE coro_queue_pop(w)
    BY <1>1, <2>2, PopStep
  <2>3. CASE MapWalk(w) \/ MapRead(w) \/ MapWrite(w)
    <3>1. /\ queue' = queue /\ running' = running /\ context' = context /\ freed' = freed
          /\ count' = count
          /\ pc[w] \in BeforeCount /\ pc'[w] \in BeforeCount
      BY <2>0, <2>3 DEF MapWalk, MapRead, MapWrite, Goto, BeforeCount, stackVars
    <3> QED
      BY <1>1, <3>1, ScheduledOn
  <2>4. CASE MapGone(w) \/ ResumeFreed(w) \/ YeildLost(w)
    BY <1>1, <2>4, ScheduledKept DEF MapGone, ResumeFreed, YeildLost, Die, workerVars
  <2>5. CASE count_task(w)
    BY <1>1, <2>5, CountStep
  <2>6. CASE finish(w)
    BY <1>1, <2>6, FinishStep
  <2>7. CASE YeildTest(w)
    <3>1. CASE coro_map_init_cnt = 0
      <4>1. pc' = pc /\ queue' = queue /\ running' = running /\ UNCHANGED stackVars
        BY <2>7, <3>1 DEF YeildTest, Die, workerVars, stackVars
      <4> QED
        BY <1>1, <4>1, ScheduledKept DEF stackVars
    <3>2. CASE coro_map_init_cnt # 0
      <4>1. /\ queue' = queue /\ running' = running /\ UNCHANGED stackVars
            /\ pc[w] \in AfterCount /\ pc'[w] \in AfterCount
        BY <2>0, <2>7, <3>2 DEF YeildTest, Goto, AfterCount
      <4> QED
        BY <1>1, <4>1, ScheduledOn DEF stackVars
    <3> QED
      BY <3>1, <3>2
  <2>8. CASE YeildPush(w)
    <3>1. pc[w] = "map_get" /\ coro_map_get(w) # NULL
      BY <2>8 DEF YeildPush, Goto
    <3>2. coro_map_get(w) \in Coros /\ (OneRival(w) => coro_map_get(w) = running[w])
      BY <3>1, GetFacts
    <3> QED
      BY <1>1, <2>8, <3>2, YeildStep
  <2> QED
    BY <2>1, <2>2, <2>3, <2>4, <2>5, <2>6, <2>7, <2>8
       DEF thread_worker, scheduler_routine, yeild
<1> QED
  BY <1>2, <1>3

\* What a worker of a process that is alive can die of.
LEMMA DeathStep ==
  ASSUME CoroInv, fault = "", NEW w \in Workers, thread_worker(w)
  PROVE  DeathExplained'
<1>0. /\ CoroTypeOK /\ MapInv /\ Scheduled(w) /\ TakesTurns(w)
  BY DEF CoroInv
<1>1. tid' = tid /\ coro_map_init_cnt' = coro_map_init_cnt
  BY <1>0, OthersKept
<1>2. Rivals(w)' = Rivals(w) /\ OneRival(w)' = OneRival(w)
  BY <1>1, RivalsKept
<1>3. CASE fault' = fault
  BY <1>3 DEF DeathExplained
<1>4. CASE MapGone(w) \/ (YeildTest(w) /\ fault' # fault)
  <2>1. fault' \in {"exit", "map destroyed"} /\ coro_map_init_cnt = 0
    BY <1>4 DEF MapGone, YeildTest, Die
  <2> QED
    BY <1>1, <2>1 DEF DeathExplained
<1>5. CASE YeildLost(w)
  <2>1. fault' = "null coroutine" /\ (coro_map_init_cnt = 0 \/ Rivals(w) # {})
    BY <1>0, <1>5, GetFacts DEF YeildLost, Die
  <2> QED
    BY <1>1, <1>2, <2>1 DEF DeathExplained
<1>6. CASE ResumeFreed(w)
  <2>1. fault' = "freed stack" /\ pc[w] \in Running /\ Stack(w) \in freed[w]
    BY <1>6 DEF ResumeFreed, Die, Running, BeforeCount
  <2>2. ~OneRival(w)
    BY <1>0, <2>1, RunningStack
  <2> QED
    BY <1>2, <2>1, <2>2 DEF DeathExplained
<1>7. \/ fault' = fault \/ MapGone(w) \/ YeildTest(w) \/ YeildLost(w) \/ ResumeFreed(w)
  BY DEF thread_worker, create_scheduler, create_coroutine, run_scheduler, scheduler_routine,
         coro_queue_pop, MapWalk, MapRead, MapWrite, count_task, finish, yeild, YeildPush
<1> QED
  BY <1>3, <1>4, <1>5, <1>6, <1>7

\* The types are kept by steps that leave the nodes alone.
LEMMA TypesKept ==
  ASSUME CoroTypeOK, MapInv, \A u \in Workers : Scheduled(u), NEW w \in Workers,
         thread_worker(w), ~MapWalk(w), ~MapRead(w), ~MapWrite(w)
  PROVE  CoroTypeOK'
<1>0. /\ queue[w] \in Seq(Coros) /\ queue \in [Workers -> Seq(Coros)]
      /\ DOMAIN queue[w] = 1..Len(queue[w]) /\ Len(queue[w]) \in Nat
      /\ running \in [Workers -> Coros \cup {NULL}]
      /\ context \in [Workers -> [Coros -> Coros]] /\ context[w] \in [Coros -> Coros]
      /\ freed \in [Workers -> SUBSET Coros] /\ freed[w] \in SUBSET Coros
      /\ count \in [Workers -> [Coros -> 0..COUNTS]]
  BY WorkerTypes
<1>1. CASE create_scheduler(w) \/ run_scheduler(w)
  <2>1. /\ UNCHANGED <<coro_map_init_cnt, buckets, coro, tid, queue, running, context, freed,
                       count, head, fault>>
        /\ \E to \in {"create_coros", "pop", "failed"} : pc' = [pc EXCEPT ![w] = to]
    BY <1>1 DEF create_scheduler, run_scheduler, NeedsMap, Goto, stackVars
  <2> QED
    BY <2>1 DEF CoroTypeOK
<1>2. CASE create_coroutine(w)
  <2>1. PICK c : c = Len(queue[w]) + 1
    OBVIOUS
  <2>2. c \in Coros
    <3>1. SchedulerCreating(w) /\ pc[w] = "create_coros"
      BY <1>2 DEF create_coroutine, NeedsMap, Goto, Scheduled, Creating
    <3> QED
      BY <1>0, <2>1, <3>1, CoroutinesAssumption DEF SchedulerCreating, Coros
  <2>3. Append(queue[w], c) \in Seq(Coros)
    BY <1>0, <2>2, PushFacts
  <2>4. queue' \in [Workers -> Seq(Coros)]
    BY <1>0, <1>2, <2>1, <2>3 DEF create_coroutine
  <2>5. /\ UNCHANGED <<coro_map_init_cnt, buckets, coro, tid, running, context, freed, count,
                       head, fault>>
        /\ \E to \in {"run_scheduler", "create_coros", "failed"} : pc' = [pc EXCEPT ![w] = to]
    BY <1>2, <2>1 DEF create_coroutine, NeedsMap, Goto, stackVars
  <2> QED
    BY <2>4, <2>5 DEF CoroTypeOK
<1>3. CASE coro_queue_pop(w)
  <2>1. queue' \in [Workers -> Seq(Coros)] /\ running' \in [Workers -> Coros \cup {NULL}]
    <3>1. CASE queue[w] # <<>>
      <4>1. Head(queue[w]) \in Coros /\ Tail(queue[w]) \in Seq(Coros)
        BY <1>0, <3>1, PopFacts
      <4>2. /\ queue' = [queue EXCEPT ![w] = Tail(queue[w])]
            /\ running' = [running EXCEPT ![w] = Head(queue[w])]
        BY <1>3, <3>1 DEF coro_queue_pop
      <4>3. queue' \in [Workers -> Seq(Coros)]
        BY <1>0, <4>1, <4>2
      <4>4. running' \in [Workers -> Coros \cup {NULL}]
        BY <1>0, <4>1, <4>2
      <4> QED
        BY <4>3, <4>4
    <3>2. CASE queue[w] = <<>>
      BY <1>0, <1>3, <3>2 DEF coro_queue_pop
    <3> QED
      BY <3>1, <3>2
  <2>2. /\ UNCHANGED <<coro_map_init_cnt, buckets, coro, tid, context, freed, count, head, fault>>
        /\ \E to \in {"map_walk", "done"} : pc' = [pc EXCEPT ![w] = to]
    BY <1>3 DEF coro_queue_pop, Goto, stackVars
  <2> QED
    BY <2>1, <2>2 DEF CoroTypeOK
<1>4. CASE count_task(w)
  <2>1. Stack(w) \in Coros
    BY <1>4, RunningStack DEF count_task, Goto, Running, BeforeCount
  <2>2. count[w][Stack(w)] \in 0..COUNTS /\ count[w][Stack(w)] < COUNTS
    BY <1>0, <1>4, <2>1 DEF count_task
  <2>3. count[w][Stack(w)] + 1 \in 0..COUNTS
    BY <2>2, CoroutinesAssumption
  <2>4. count' \in [Workers -> [Coros -> 0..COUNTS]]
    <3>1. PICK n \in 0..COUNTS : n = count[w][Stack(w)] + 1
      BY <2>3
    <3>2. count' = [count EXCEPT ![w] = [count[w] EXCEPT ![Stack(w)] = n]]
      BY <1>0, <1>4, <3>1 DEF count_task
    <3>3. [count[w] EXCEPT ![Stack(w)] = n] \in [Coros -> 0..COUNTS]
      BY <1>0, <3>1
    <3> QED
      BY <1>0, <3>2, <3>3
  <2>5. /\ UNCHANGED <<coro_map_init_cnt, buckets, coro, tid, queue, running, context, freed,
                       head, fault>>
        /\ pc' = [pc EXCEPT ![w] = "yeild"]
    BY <1>4 DEF count_task, Goto
  <2> QED
    BY <2>4, <2>5 DEF CoroTypeOK
<1>5. CASE finish(w)
  <2>1. PICK s : s = Stack(w)
    OBVIOUS
  <2>2. s \in Coros
    BY <1>5, <2>1, RunningStack DEF finish, Goto, Running, BeforeCount
  <2>3. /\ freed' = [freed EXCEPT ![w] = freed[w] \cup {s}]
        /\ context' = [context EXCEPT ![w] = [context[w] EXCEPT ![s] = s]]
    BY <1>0, <1>5, <2>1 DEF finish
  <2>4. freed[w] \cup {s} \in SUBSET Coros /\ [context[w] EXCEPT ![s] = s] \in [Coros -> Coros]
    BY <1>0, <2>2
  <2>5. freed' \in [Workers -> SUBSET Coros] /\ context' \in [Workers -> [Coros -> Coros]]
    BY <1>0, <2>3, <2>4
  <2>6. /\ UNCHANGED <<coro_map_init_cnt, buckets, coro, tid, queue, running, count, head, fault>>
        /\ pc' = [pc EXCEPT ![w] = "pop"]
    BY <1>5 DEF finish, Goto
  <2> QED
    BY <2>5, <2>6 DEF CoroTypeOK
<1>6. CASE YeildPush(w)
  <2>1. PICK c, s : c = coro_map_get(w) /\ s = Stack(w)
    OBVIOUS
  <2>2. pc[w] = "map_get" /\ c # NULL
    BY <1>6, <2>1 DEF YeildPush, Goto
  <2>3. c \in Coros /\ s \in Coros
    BY <2>1, <2>2, GetFacts, RunningStack DEF Running, AfterCount
  <2>4. /\ queue' = [queue EXCEPT ![w] = Append(queue[w], c)]
        /\ context' = [context EXCEPT ![w] = [context[w] EXCEPT ![c] = s]]
    BY <1>0, <1>6, <2>1 DEF YeildPush
  <2>5. Append(queue[w], c) \in Seq(Coros) /\ [context[w] EXCEPT ![c] = s] \in [Coros -> Coros]
    BY <1>0, <2>3, PushFacts
  <2>6. queue' \in [Workers -> Seq(Coros)] /\ context' \in [Workers -> [Coros -> Coros]]
    BY <1>0, <2>4, <2>5
  <2>7. /\ UNCHANGED <<coro_map_init_cnt, buckets, coro, tid, running, freed, count, head, fault>>
        /\ pc' = [pc EXCEPT ![w] = "pop"]
    BY <1>6 DEF YeildPush, Goto
  <2> QED
    BY <2>6, <2>7 DEF CoroTypeOK
<1>7. CASE YeildTest(w) \/ YeildLost(w) \/ MapGone(w) \/ ResumeFreed(w)
  <2>1. /\ UNCHANGED <<coro_map_init_cnt, buckets, coro, tid, queue, running, context, freed,
                       count, head>>
        /\ pc' = pc \/ pc' = [pc EXCEPT ![w] = "map_get"]
        /\ fault' \in {fault, "exit", "map destroyed", "null coroutine", "freed stack"}
    BY <1>7 DEF YeildTest, YeildLost, MapGone, ResumeFreed, Die, Goto, workerVars, stackVars
  <2> QED
    BY <2>1 DEF CoroTypeOK
<1> QED
  BY <1>1, <1>2, <1>3, <1>4, <1>5, <1>6, <1>7 DEF thread_worker, scheduler_routine, yeild

LEMMA WorkerStep ==
  ASSUME CoroInv, fault = "", NEW w \in Workers, thread_worker(w)
  PROVE  CoroInv'
<1>0. CoroTypeOK /\ MapInv /\ \A u \in Workers : Scheduled(u) /\ TakesTurns(u)
  BY DEF CoroInv
<1>1. DeathExplained' /\ \A u \in Workers : Scheduled(u)' /\ TakesTurns(u)'
  BY <1>0, SchedulersStep, DeathStep
<1>2. CASE MapWalk(w)
  <2>1. running[w] \in Coros
    BY <1>0, <1>2, RunningStack DEF MapWalk, Goto, Running, BeforeCount
  <2>2. coro' \in [Workers -> Seq(Coros \cup {NULL})] /\ MapInv'
    BY <1>0, <1>2, <2>1, MapWalkStep
  <2>3. /\ UNCHANGED <<coro_map_init_cnt, buckets, tid, queue, running, context, freed, count,
                       head, fault>>
        /\ \E to \in {"run", "map_read"} : pc' = [pc EXCEPT ![w] = to]
    BY <1>2 DEF MapWalk, Goto, stackVars
  <2>4. CoroTypeOK'
    BY <1>0, <2>2, <2>3 DEF CoroTypeOK
  <2> QED
    BY <1>1, <2>2, <2>4 DEF CoroInv
<1>3. CASE MapRead(w)
  <2>1. head' \in [Workers -> Seq(Workers \X Nat)] /\ MapInv'
    BY <1>0, <1>3, MapReadStep
  <2>2. /\ UNCHANGED <<coro_map_init_cnt, buckets, coro, tid, queue, running, context, freed,
                       count, fault>>
        /\ pc' = [pc EXCEPT ![w] = "map_write"]
    BY <1>3 DEF MapRead, Goto, stackVars
  <2>3. CoroTypeOK'
    BY <1>0, <2>1, <2>2 DEF CoroTypeOK
  <2> QED
    BY <1>1, <2>1, <2>3 DEF CoroInv
<1>4. CASE MapWrite(w)
  <2>1. running[w] \in Coros
    BY <1>0, <1>4, RunningStack DEF MapWrite, Goto, Running, BeforeCount
  <2>2. /\ head' \in [Workers -> Seq(Workers \X Nat)]
        /\ coro' \in [Workers -> Seq(Coros \cup {NULL})]
        /\ buckets' \in [0..MAP_CAPACITY - 1 -> Seq(Workers \X Nat)]
        /\ MapInv'
    BY <1>0, <1>4, <2>1, MapWriteStep
  <2>3. /\ UNCHANGED <<coro_map_init_cnt, tid, queue, running, context, freed, count, fault>>
        /\ pc' = [pc EXCEPT ![w] = "run"]
    BY <1>4 DEF MapWrite, Goto, stackVars
  <2>4. CoroTypeOK'
    BY <1>0, <2>2, <2>3 DEF CoroTypeOK
  <2> QED
    BY <1>1, <2>2, <2>4 DEF CoroInv
<1>5. CASE ~MapWalk(w) /\ ~MapRead(w) /\ ~MapWrite(w)
  <2>1. CoroTypeOK'
    BY <1>0, <1>5, TypesKept
  <2>2. /\ buckets' = buckets /\ coro' = coro /\ tid' = tid /\ head' = head
        /\ pc'[w] \in {"run", "yeild", "map_get"} =>
              pc[w] \in {"run", "yeild", "map_get"} /\ running'[w] = running[w]
        /\ pc'[w] \in {"map_read", "map_write"} \/ pc[w] = "map_write" => pc'[w] = pc[w]
    <3>0. DOMAIN pc = Workers
      BY <1>0, WorkerTypes
    <3>1. CASE create_scheduler(w) \/ create_coroutine(w) \/ run_scheduler(w)
      BY <3>0, <3>1 DEF create_scheduler, create_coroutine, run_scheduler, NeedsMap, Goto
    <3>2. CASE coro_queue_pop(w) \/ count_task(w) \/ finish(w)
      BY <3>0, <3>2 DEF coro_queue_pop, count_task, finish, Goto
    <3>3. CASE yeild(w) \/ MapGone(w) \/ ResumeFreed(w)
      BY <3>0, <3>3
         DEF yeild, YeildTest, YeildPush, YeildLost, MapGone, ResumeFreed, Die, Goto, workerVars
    <3> QED
      BY <1>5, <3>1, <3>2, <3>3 DEF thread_worker, scheduler_routine
  <2>3. /\ coro_map_init_cnt' = coro_map_init_cnt
        /\ \A u \in Workers \ {w} : pc'[u] = pc[u] /\ running'[u] = running[u]
    BY <1>0, OthersKept
  <2>4. MapInv'
    BY <1>0, <2>2, <2>3, MapKept
  <2> QED
    BY <1>1, <2>1, <2>4 DEF CoroInv
<1> QED
  BY <1>2, <1>3, <1>4, <1>5
-----------------------------------------------------------------------------
(* main and the deamon *)

\* The slots of a pool that exists.
LEMMA PoolSlots ==
  ASSUME PoolAt, call \in {"idle", "add", "add_unlock", "cancel", "join"}
  PROVE  /\ threads \in [1..CAPACITY -> [state : {"THREAD_FREE"}, thread : Workers \cup {None}]]
         /\ FreeSlots = 1..CAPACITY /\ Grown = threads /\ Slot \in 1..CAPACITY
<1>1. threads \in [1..CAPACITY -> [state : {"THREAD_FREE"}, thread : Workers \cup {None}]]
  BY DEF PoolAt
<1>2. \A i \in 1..CAPACITY : threads[i].state = "THREAD_FREE"
  BY <1>1
<1>3. FreeSlots = 1..CAPACITY
  BY <1>1, <1>2 DEF FreeSlots
<1>4. FreeSlots # {} /\ 1 \in 1..CAPACITY /\ \A j \in 1..CAPACITY : 1 <= j
  BY <1>3, PoolAssumption
<1>5. Slot = CHOOSE i \in 1..CAPACITY : \A j \in 1..CAPACITY : i <= j
  BY <1>3, <1>4 DEF Slot
<1>6. \E i \in 1..CAPACITY : \A j \in 1..CAPACITY : i <= j
  BY <1>4
<1>7. Slot \in 1..CAPACITY
  BY <1>5, <1>6
<1> QED
  BY <1>1, <1>3, <1>4, <1>7 DEF Grown

\* The types of the slots.
LEMMA SlotTypes ==
  ASSUME NEW slots,
         \/ slots = <<>>
         \/ slots \in [1..CAPACITY -> [state : {"THREAD_FREE"}, thread : Workers \cup {None}]]
  PROVE  \A i \in DOMAIN slots :
            slots[i] \in [state : {"THREAD_FREE", "THREAD_JOINED_BY_DEAMON"},
                          thread : Workers \cup {None}]
<1> SUFFICES ASSUME NEW i \in DOMAIN slots
             PROVE  slots[i] \in [state : {"THREAD_FREE", "THREAD_JOINED_BY_DEAMON"},
                                  thread : Workers \cup {None}]
  OBVIOUS
<1>1. slots # <<>>
  OBVIOUS
<1>2. slots[i] \in [state : {"THREAD_FREE"}, thread : Workers \cup {None}]
  BY <1>1
<1> QED
  BY <1>2

\* A step of the pool that keeps the recorded threads keeps PoolAt.
LEMMA AddKeepsPool ==
  ASSUME PoolAt, NEW w \in Workers \cup {None},
         call \in {"idle", "add", "add_unlock", "cancel", "join"},
         call' \in {"idle", "add", "add_unlock", "cancel", "join"},
         \/ threads' = threads
         \/ threads' = [Grown EXCEPT ![Slot] = [state |-> "THREAD_FREE", thread |-> w]]
  PROVE  PoolAt'
<1>1. /\ threads \in [1..CAPACITY -> [state : {"THREAD_FREE"}, thread : Workers \cup {None}]]
      /\ Grown = threads /\ Slot \in 1..CAPACITY
  BY PoolSlots
<1>2. [state |-> "THREAD_FREE", thread |-> w]
          \in [state : {"THREAD_FREE"}, thread : Workers \cup {None}]
  OBVIOUS
<1>3. threads' \in [1..CAPACITY -> [state : {"THREAD_FREE"}, thread : Workers \cup {None}]]
  BY <1>1, <1>2
<1> QED
  BY <1>3 DEF PoolAt

\* A deamon that scans finds every recorded slot free, and leaves it so.
LEMMA ScanKeepsPool ==
  ASSUME PoolAt, NEW done, DeamonScan(done)
  PROVE  PoolAt'
<1>1. call' = call
  BY DEF DeamonScan
<1>2. CASE call \in {"none", "failed", "destroyed"}
  BY <1>1, <1>2 DEF PoolAt, DeamonScan
<1>3. CASE call \notin {"none", "failed", "destroyed"}
  <2>1. threads \in [1..CAPACITY -> [state : {"THREAD_FREE"}, thread : Workers \cup {None}]]
    BY <1>3 DEF PoolAt
  <2>2. \A i \in 1..CAPACITY : [threads[i] EXCEPT !.state = "THREAD_FREE"] = threads[i]
    BY <2>1
  <2>3. DOMAIN threads = 1..CAPACITY
    BY <2>1
  <2>4. threads' = threads
    BY <2>1, <2>2, <2>3 DEF DeamonScan
  <2> QED
    BY <1>1, <1>3, <2>1, <2>4 DEF PoolAt
<1> QED
  BY <1>2, <1>3
\* What main and the deamon do to the pool, the coroutines being left alone.
LEMMA PoolStep ==
  ASSUME ClusterInv, UNCHANGED coroVars, todo' = todo, main' \in {main, "coro_fini"},
         \/ main = "add" /\ main' = "add" /\ (AddCreateFails \/ AddUnlock)
         \/ main = "destroy" /\ destroy_thread_pool
         \/ main' = main /\ \E done : deamon_routine(done)
  PROVE  PoolAt' /\ PoolTypeOK(Workers)' /\ WorkersAt'
<1>0. /\ PoolTypeOK(Workers) /\ PoolAt /\ WorkersAt /\ todo \subseteq Workers
      /\ pc' = pc /\ buckets' = buckets
  BY DEF ClusterInv, TypeOK, coroVars, workerVars
<1>1. CASE main = "add" /\ main' = "add" /\ (AddCreateFails \/ AddUnlock)
  <2>1. call \in {"add", "add_unlock"} /\ call' = "idle" /\ job' = None
    BY <1>1 DEF AddCreateFails, AddUnlock
  <2>2. threads' = threads
    BY <1>0, <1>1, <2>1, PoolSlots DEF AddCreateFails, AddUnlock
  <2>3. PoolAt'
    BY <1>0, <2>1, <2>2, AddKeepsPool
  <2>4. PoolTypeOK(Workers)'
    BY <1>0, <1>1, <2>1, <2>2 DEF PoolTypeOK, AddCreateFails, AddUnlock
  <2>5. WorkersAt'
    BY <1>0, <1>1, <2>1 DEF WorkersAt
  <2> QED
    BY <2>3, <2>4, <2>5
<1>2. CASE main = "destroy" /\ destroy_thread_pool
  <2>1. CASE DestroyLock \/ DestroyCancel
    <3>1. /\ threads' = threads /\ job' = job /\ call \in {"idle", "cancel"}
          /\ call' \in {"cancel", "join"} /\ mutex' \in {mutex, "owner"}
          /\ cancelled' \in {cancelled, TRUE}
          /\ UNCHANGED <<deamon, cancels, created, leaked>>
      BY <2>1 DEF DestroyLock, DestroyCancel
    <3>2. PoolAt'
      BY <1>0, <3>1, AddKeepsPool
    <3>3. PoolTypeOK(Workers)'
      BY <1>0, <3>1 DEF PoolTypeOK
    <3>4. WorkersAt'
      BY <1>0, <1>2, <3>1 DEF WorkersAt
    <3> QED
      BY <3>2, <3>3, <3>4
  <2>2. CASE DestroyJoin
    <3>1. /\ threads' = <<>> /\ job' = job /\ call = "join" /\ call' = "destroyed"
          /\ mutex' = None /\ UNCHANGED <<deamon, cancelled, created, leaked>>
          /\ cancels' = cancels \cup {threads[i].thread : i \in DOMAIN threads \ FreeSlots}
      BY <2>2 DEF DestroyJoin
    <3>2. cancels' = cancels
      <4>1. DOMAIN threads \ FreeSlots = {}
        BY <1>0, <3>1, PoolSlots
      <4> QED
        BY <3>1, <4>1
    <3>3. PoolAt'
      BY <3>1 DEF PoolAt
    <3>4. PoolTypeOK(Workers)'
      BY <1>0, <3>1, <3>2 DEF PoolTypeOK
    <3>5. WorkersAt'
      BY <1>0, <1>2, <3>1 DEF WorkersAt
    <3> QED
      BY <3>3, <3>4, <3>5
  <2> QED
    BY <1>2, <2>1, <2>2 DEF destroy_thread_pool
<1>3. CASE main' = main /\ \E done : deamon_routine(done)
  <2>1. PICK done : deamon_routine(done)
    BY <1>3
  <2>2. /\ UNCHANGED <<call, job, cancelled, cancels, created, leaked>>
        /\ mutex' \in {mutex, None, "deamon"}
        /\ deamon' \in {"lock", "scan", "unlock", "testcancel", "usleep", "cancelled"}
    BY <2>1 DEF deamon_routine, DeamonLock, DeamonScan, DeamonUnlock, DeamonRest, DeamonAt
  <2>3. PoolAt'
    <3>1. CASE DeamonScan(done)
      BY <1>0, <3>1, ScanKeepsPool
    <3>2. CASE threads' = threads
      BY <1>0, <2>2, <3>2 DEF PoolAt
    <3> QED
      BY <2>1, <3>1, <3>2 DEF deamon_routine, DeamonLock, DeamonUnlock, DeamonRest
  <2>4. PoolTypeOK(Workers)'
    <3>1. /\ mutex' \in {None, "owner", "deamon"}
          /\ call' \in {"none", "failed", "idle", "add", "add_unlock", "cancel", "join",
                        "destroyed"}
          /\ job' \in Workers \cup {None}
          /\ cancels' \subseteq Workers /\ created' \subseteq Workers
          /\ cancelled' \in BOOLEAN /\ leaked' \in BOOLEAN
      BY <1>0, <2>2 DEF PoolTypeOK
    <3>2. deamon' \in {"none", "lock", "scan", "unlock", "testcancel", "usleep", "cancelled"}
      BY <2>2
    <3>3. \A i \in DOMAIN threads' :
             threads'[i] \in [state : {"THREAD_FREE", "THREAD_JOINED_BY_DEAMON"},
                              thread : Workers \cup {None}]
      BY <2>3, SlotTypes DEF PoolAt
    <3> QED
      BY <3>1, <3>2, <3>3 DEF PoolTypeOK
  <2>5. WorkersAt'
    BY <1>0, <1>3, <2>2 DEF WorkersAt
  <2> QED
    BY <2>3, <2>4, <2>5
<1> QED
  BY <1>1, <1>2, <1>3
-----------------------------------------------------------------------------
(* The program *)

LEMMA InitInv ==
  ClusterInit => ClusterInv
<1> SUFFICES ASSUME ClusterInit PROVE ClusterInv
  OBVIOUS
<1>0. DOMAIN <<>> = {} /\ \A S : <<>> \in Seq(S)
  OBVIOUS
<1>1. PoolTypeOK(Workers)
  BY <1>0 DEF PoolTypeOK, ClusterInit, PoolInit
<1>2. PoolAt /\ WorkersAt /\ main = "coro_init" /\ todo = Workers
  BY DEF PoolAt, WorkersAt, ClusterInit, PoolInit, CoroInit
<1>3. /\ coro_map_init_cnt = 0 /\ buckets = NoMap
      /\ coro = [w \in Workers |-> <<>>] /\ head = [w \in Workers |-> <<>>]
      /\ queue = [w \in Workers |-> <<>>] /\ running = [w \in Workers |-> NULL]
      /\ context = [w \in Workers |-> [c \in Coros |-> c]] /\ freed = [w \in Workers |-> {}]
      /\ count = [w \in Workers |-> [c \in Coros |-> 0]]
      /\ pc = [w \in Workers |-> "unborn"]
      /\ tid \in [Workers -> Tids]
  BY DEF ClusterInit, CoroInit
<1>f. fault = ""
  BY DEF ClusterInit, CoroInit
<1>4. CoroTypeOK
  <2>1. /\ coro \in [Workers -> Seq(Coros \cup {NULL})] /\ queue \in [Workers -> Seq(Coros)]
        /\ head \in [Workers -> Seq(Workers \X Nat)]
    BY <1>0, <1>3
  <2>2. running \in [Workers -> Coros \cup {NULL}]
    BY <1>3
  <2>3. count \in [Workers -> [Coros -> 0..COUNTS]]
    <3>1. 0 \in 0..COUNTS
      BY CoroutinesAssumption
    <3> QED
      BY <1>3, <3>1
  <2>4. coro_map_init_cnt \in 0..1
    <3>1. coro_map_init_cnt = 0
      BY <1>3
    <3> QED
      BY <3>1
  <2>5. pc \in [Workers -> {"unborn"}]
    BY <1>3
  <2>6. context \in [Workers -> [Coros -> Coros]] /\ freed \in [Workers -> SUBSET Coros]
    BY <1>3
  <2> QED
    BY <1>3, <1>f, <2>1, <2>2, <2>3, <2>4, <2>5, <2>6 DEF CoroTypeOK
<1>5. ASSUME NEW w \in Workers PROVE Scheduled(w) /\ TakesTurns(w)
  <2>1. /\ queue[w] = <<>> /\ running[w] = NULL /\ pc[w] = "unborn"
        /\ freed[w] = {} /\ \A c \in Coros : count[w][c] = 0 /\ context[w][c] = c
    BY <1>3
  <2> QED
    BY <1>0, <2>1
       DEF Scheduled, SchedulerCreating, TakesTurns, Creating, Running, BeforeCount, AfterCount
<1>6. MapInv
  BY <1>0, <1>3 DEF MapInv, NodesAdded, NodesIn
<1>7. TypeOK
  BY <1>1, <1>2, <1>4 DEF TypeOK
<1>8. DeathExplained
  BY <1>f DEF DeathExplained
<1> QED
  BY <1>2, <1>4, <1>5, <1>6, <1>7, <1>8 DEF ClusterInv, CoroInv

\* A step of which nothing dies.
LEMMA DeathKept ==
  ASSUME DeathExplained, UNCHANGED <<fault, tid>>, coro_map_init_cnt' \in {coro_map_init_cnt, 0}
  PROVE  DeathExplained'
<1>1. \A w \in Workers : Rivals(w)' = Rivals(w) /\ OneRival(w)' = OneRival(w)
  BY RivalsKept
<1> QED
  BY <1>1 DEF DeathExplained

\* Where the coroutines are left alone.
LEMMA CoroKept ==
  ASSUME CoroInv, UNCHANGED coroVars
  PROVE  CoroInv'
<1>0. /\ CoroTypeOK /\ MapInv /\ DeathExplained
      /\ \A w \in Workers : Scheduled(w) /\ TakesTurns(w)
      /\ UNCHANGED <<coro_map_init_cnt, buckets, coro, tid, queue, running, context, freed,
                     count, pc, head, fault>>
  BY DEF CoroInv, coroVars, workerVars
<1>1. CoroTypeOK'
  BY <1>0 DEF CoroTypeOK
<1>2. \A w \in Workers : Scheduled(w)' /\ TakesTurns(w)'
  BY <1>0, ScheduledKept
<1>3. MapInv'
  BY <1>0, MapKept
<1>4. DeathExplained'
  BY <1>0, DeathKept
<1> QED
  BY <1>1, <1>2, <1>3, <1>4 DEF CoroInv

\* The map is created before the workers are.
LEMMA CreateMapStep ==
  ASSUME CoroInv, ProcessAlive, coro_init, \A w \in Workers : pc[w] = "unborn"
  PROVE  CoroInv'
<1>0. /\ CoroTypeOK /\ MapInv /\ \A w \in Workers : Scheduled(w) /\ TakesTurns(w)
      /\ UNCHANGED <<coro, tid, queue, running, context, freed, count, pc, head, fault>>
      /\ coro_map_init_cnt' = 1 /\ buckets' = [b \in 0..MAP_CAPACITY - 1 |-> <<>>]
  BY DEF CoroInv, coro_init, workerVars
<1>1. buckets' \in [0..MAP_CAPACITY - 1 -> Seq(Workers \X Nat)]
  <2>1. <<>> \in Seq(Workers \X Nat)
    OBVIOUS
  <2> QED
    BY <1>0, <2>1
<1>2. CoroTypeOK'
  <2>1. coro_map_init_cnt' \in 0..1
    BY <1>0
  <2> QED
    BY <1>0, <1>1, <2>1 DEF CoroTypeOK
<1>3. \A w \in Workers : Scheduled(w)' /\ TakesTurns(w)'
  BY <1>0, ScheduledKept
<1>4. \A u \in Workers : head[u] = <<>>
  BY <1>0 DEF MapInv, NodesAdded
<1>5. NodesAdded'
  BY <1>0, <1>4 DEF NodesAdded, NodesIn
<1>6. ASSUME NEW u \in Workers PROVE MapKnows(u)'
  <2>1. hash_tid(u)' = hash_tid(u) /\ hash_tid(u) \in 0..MAP_CAPACITY - 1
    BY <1>0, HashInRange DEF hash_tid
  <2>2. Candidates(u)' = {}
    BY <1>0, <1>4, <2>1 DEF Candidates, NodesIn
  <2>3. pc'[u] = "unborn"
    BY <1>0
  <2> QED
    BY <2>2, <2>3 DEF MapKnows
<1>7. buckets' # NoMap
  <2>1. DOMAIN buckets' = 0..MAP_CAPACITY - 1 /\ 0 \in 0..MAP_CAPACITY - 1
    BY <1>1, CoroutinesAssumption
  <2>2. DOMAIN <<>> = {}
    OBVIOUS
  <2> QED
    BY <2>1, <2>2 DEF NoMap
<1>8. DeathExplained'
  BY <1>0 DEF DeathExplained, ProcessAlive
<1> QED
  BY <1>2, <1>3, <1>5, <1>6, <1>7, <1>8 DEF CoroInv, MapInv

\* A node of the map is freed: it matches no thread any more.
LEMMA FreeNodeStep ==
  ASSUME CoroTypeOK, MapInv, buckets # NoMap, coro_map_init_cnt' = 0,
         UNCHANGED <<buckets, tid, running, pc, head>>,
         NEW b \in 0..MAP_CAPACITY - 1, NEW x \in NodesIn(buckets[b]),
         coro' = [coro EXCEPT ![x[1]][x[2]] = NULL]
  PROVE  coro' \in [Workers -> Seq(Coros \cup {NULL})] /\ MapInv'
<1>0. NodesAdded /\ Node(x, b) /\ \A u \in Workers : MapKnows(u)
  BY DEF MapInv, NodesAdded
<1>1. PICK w \in Workers : x[1] = w /\ \E k \in 1..Len(coro[w]) : x[2] = k
  BY <1>0 DEF Node
<1>k. PICK k \in 1..Len(coro[w]) : x[2] = k
  BY <1>1
<1>2. /\ coro \in [Workers -> Seq(Coros \cup {NULL})] /\ coro[w] \in Seq(Coros \cup {NULL})
      /\ Len(coro[w]) \in Nat /\ DOMAIN coro[w] = 1..Len(coro[w])
  BY MapTypes
<1>3. PICK s : s = [coro[w] EXCEPT ![k] = NULL]
  OBVIOUS
<1>4. s \in Seq(Coros \cup {NULL}) /\ Len(s) = Len(coro[w]) /\ s[k] = NULL
  <2>1. NULL \in Coros \cup {NULL}
    OBVIOUS
  <2> QED
    BY <1>2, <1>3, <2>1, ExceptSeq
<1>5. \A j \in 1..Len(coro[w]) : j # k => s[j] = coro[w][j]
  BY <1>2, <1>3
<1>6. coro' = [coro EXCEPT ![w] = s]
  BY <1>1, <1>k, <1>2, <1>3
<1>7. /\ coro' \in [Workers -> Seq(Coros \cup {NULL})] /\ coro'[w] = s
      /\ \A u \in Workers : Len(coro'[u]) = Len(coro[u])
      /\ \A u \in Workers \ {w} : coro'[u] = coro[u]
  BY <1>2, <1>4, <1>6
<1>8. NodesAdded'
  BY <1>0, <1>7 DEF NodesAdded, NodesIn, Node, hash_tid
<1>9. \A u \in Workers : Rivals(u)' = Rivals(u) /\ OneRival(u)' = OneRival(u)
  BY RivalsKept
<1>10. ASSUME NEW u \in Workers, NEW y, NEW a, Node(y, a), Matches(y, u)'
       PROVE  Matches(y, u) /\ (y[2] \in 1..Len(coro[u])) /\ coro'[u][y[2]] = coro[u][y[2]]
  <2>1. y[1] = u /\ y[2] \in 1..Len(coro[u]) /\ coro'[u][y[2]] # NULL
    BY <1>10 DEF Node, Matches
  <2>2. coro'[u][y[2]] = coro[u][y[2]]
    <3>1. CASE u = w
      BY <1>4, <1>5, <1>7, <2>1, <3>1
    <3>2. CASE u # w
      BY <1>7, <3>2
    <3> QED
      BY <3>1, <3>2
  <2> QED
    BY <2>1, <2>2 DEF Matches
<1>11. ASSUME NEW u \in Workers PROVE MapKnows(u)'
  <2>0. /\ hash_tid(u)' = hash_tid(u) /\ hash_tid(u) \in 0..MAP_CAPACITY - 1
        /\ MapKnows(u)
    BY <1>0, HashInRange DEF hash_tid
  <2>1. ASSUME NEW y \in Candidates(u)'
        PROVE  /\ y \in Candidates(u)
               /\ \E a : Node(y, a)
               /\ Matches(y, u)'
    <3>1. /\ Matches(y, u)'
          /\ \/ y \in NodesIn(buckets[hash_tid(u)])
             \/ \E v \in Workers : y \in NodesIn(head[v])
      BY <2>0 DEF Candidates, NodesIn, Matches
    <3>2. \E a : Node(y, a)
      BY <1>0, <2>0, <3>1 DEF NodesAdded
    <3>3. Matches(y, u)
      BY <1>10, <3>1, <3>2
    <3> QED
      BY <3>1, <3>2, <3>3 DEF Candidates
  <2>2. InBucket(u)' <=> \E y \in NodesIn(buckets[hash_tid(u)]) : Matches(y, u)'
    BY <2>0 DEF InBucket, PlacesOf, NodesIn, Matches
  <2>3. InBucket(u) <=> \E y \in NodesIn(buckets[hash_tid(u)]) : Matches(y, u)
    BY DEF InBucket, PlacesOf, NodesIn
  <2>4. \A y \in NodesIn(buckets[hash_tid(u)]) : Node(y, hash_tid(u))
    BY <1>0, <2>0 DEF NodesAdded
  <2>5. InBucket(u)' => InBucket(u)
    BY <1>10, <2>2, <2>3, <2>4
  <2>6. ASSUME OneRival(u), NEW y \in Candidates(u)'
        PROVE  y[2] = Len(coro'[u]) /\ InBucket(u)'
    <3>1. y[2] = Len(coro[u]) /\ InBucket(u) /\ coro'[u][y[2]] # NULL
      BY <2>0, <2>1, <2>6 DEF MapKnows, Matches
    <3>2. PICK z \in NodesIn(buckets[hash_tid(u)]) : Matches(z, u)
      BY <2>3, <3>1
    <3>3. z[1] = u /\ z[2] = Len(coro[u])
      BY <2>0, <2>6, <3>2 DEF MapKnows, Candidates, Matches
    <3>4. Matches(z, u)'
      BY <3>1, <3>3 DEF Matches
    <3> QED
      BY <1>7, <2>2, <3>1, <3>2, <3>4
  <2>7. ASSUME OneRival(u), InBucket(u)' PROVE coro'[u][Len(coro'[u])] = coro[u][Len(coro[u])]
    <3>1. PICK y \in NodesIn(buckets[hash_tid(u)]) : Matches(y, u)'
      BY <2>2, <2>7
    <3>2. Matches(y, u) /\ coro'[u][y[2]] = coro[u][y[2]]
      BY <1>10, <2>4, <3>1
    <3>3. y[2] = Len(coro[u])
      BY <2>0, <2>7, <3>2 DEF MapKnows, Candidates
    <3> QED
      BY <1>7, <3>2, <3>3
  <2> QED
    BY <1>9, <2>0, <2>1, <2>5, <2>6, <2>7 DEF MapKnows
<1> QED
  BY <1>7, <1>8, <1>11 DEF MapInv

\* The map is destroyed under the feet of the workers.
LEMMA DestroyMapStep ==
  ASSUME CoroInv, coro_fini
  PROVE  CoroInv'
<1>0. /\ CoroTypeOK /\ MapInv /\ \A w \in Workers : Scheduled(w) /\ TakesTurns(w)
      /\ UNCHANGED <<tid, queue, running, context, freed, count, pc, head, fault>>
      /\ coro_map_init_cnt' = 0 /\ DeathExplained
  BY DEF CoroInv, coro_fini, workerVars
<1>1. \A w \in Workers : Scheduled(w)' /\ TakesTurns(w)'
  BY <1>0, ScheduledKept
<1>2. coro_map_init_cnt' \in 0..1
  BY <1>0
<1>d. DeathExplained'
  BY <1>0, DeathKept
<1>3. CASE coro' = coro /\ buckets' = buckets
  <2>1. CoroTypeOK'
    BY <1>0, <1>2, <1>3 DEF CoroTypeOK
  <2>2. MapInv'
    BY <1>0, <1>3, MapKept
  <2> QED
    BY <1>1, <1>d, <2>1, <2>2 DEF CoroInv
<1>4. CASE coro' = coro /\ buckets' = NoMap
  <2>1. CoroTypeOK'
    BY <1>0, <1>2, <1>4 DEF CoroTypeOK
  <2>2. NodesAdded'
    BY <1>0, <1>4 DEF MapInv, NodesAdded, NodesIn, Node, hash_tid
  <2>3. MapInv'
    BY <1>0, <1>4, <2>2 DEF MapInv
  <2> QED
    BY <1>1, <1>d, <2>1, <2>3 DEF CoroInv
<1>5. ASSUME buckets # NoMap, buckets' = buckets, NEW b \in DOMAIN buckets, NEW i \in Unfreed(b),
             coro' = [coro EXCEPT ![buckets[b][i][1]][buckets[b][i][2]] = NULL]
      PROVE  CoroInv'
  <2>1. b \in 0..MAP_CAPACITY - 1
    BY <1>0, <1>5 DEF CoroTypeOK
  <2>2. PICK x \in NodesIn(buckets[b]) : x = buckets[b][i]
    BY <1>5 DEF Unfreed, NodesIn
  <2>3. coro' \in [Workers -> Seq(Coros \cup {NULL})] /\ MapInv'
    BY <1>0, <1>5, <2>1, <2>2, FreeNodeStep
  <2>4. CoroTypeOK'
    BY <1>0, <1>2, <1>5, <2>3 DEF CoroTypeOK
  <2> QED
    BY <1>1, <1>d, <2>3, <2>4 DEF CoroInv
<1> QED
  BY <1>3, <1>4, <1>5 DEF coro_fini

\* A worker is born.
LEMMA CreateWorkerStep ==
  ASSUME CoroInv, NEW w \in Workers, pc[w] = "unborn",
         pc' = [pc EXCEPT ![w] = "create"],
         UNCHANGED <<coro_map_init_cnt, buckets, coro, tid, queue, running, stackVars, head, fault>>
  PROVE  CoroInv'
<1>0. /\ CoroTypeOK /\ MapInv /\ DeathExplained /\ \A u \in Workers : Scheduled(u) /\ TakesTurns(u)
      /\ pc'[w] = "create" /\ \A u \in Workers \ {w} : pc'[u] = pc[u]
      /\ UNCHANGED <<coro_map_init_cnt, buckets, coro, tid, queue, running, context, freed,
                     count, head, fault>>
  BY DEF CoroInv, CoroTypeOK, stackVars
<1>1. CoroTypeOK'
  BY <1>0 DEF CoroTypeOK
<1>2. SchedulerCreating(w)'
  BY <1>0 DEF Scheduled, SchedulerCreating, Creating
<1>3. Scheduled(w)' /\ TakesTurns(w)'
  BY <1>0, <1>2 DEF Scheduled, TakesTurns, Creating, Running, BeforeCount, AfterCount
<1>4. \A u \in Workers \ {w} : Scheduled(u)' /\ TakesTurns(u)'
  BY <1>0, ScheduledKept
<1>5. MapInv'
  BY <1>0, MapKept
<1>6. DeathExplained'
  BY <1>0, DeathKept
<1> QED
  BY <1>1, <1>3, <1>4, <1>5, <1>6 DEF CoroInv

\* A step of main.
LEMMA MainStep ==
  ASSUME ClusterInv, ProcessAlive, Main
  PROVE  ClusterInv'
<1>0. /\ PoolTypeOK(Workers) /\ PoolAt /\ WorkersAt /\ CoroInv /\ todo \subseteq Workers
      /\ CoroTypeOK
      /\ main \in {"coro_init", "create_pool", "add", "destroy", "coro_fini", "end"}
  BY DEF ClusterInv, TypeOK, CoroInv
<1>1. CASE MainInit
  <2>1. CoroInv'
    BY <1>0, <1>1, CreateMapStep DEF MainInit, MainAt, WorkersAt
  <2>2. PoolTypeOK(Workers)' /\ PoolAt'
    BY <1>0, <1>1 DEF MainInit, poolVars, PoolTypeOK, PoolAt
  <2>3. WorkersAt'
    BY <1>0, <1>1 DEF MainInit, MainAt, coro_init, workerVars, poolVars, WorkersAt
  <2>4. main' = "create_pool" /\ todo' = todo
    BY <1>1 DEF MainInit, MainAt
  <2> QED
    BY <1>0, <2>1, <2>2, <2>3, <2>4 DEF ClusterInv, TypeOK, CoroInv
<1>2. CASE MainCreatePool
  <2>1. CoroInv'
    BY <1>0, <1>2, CoroKept DEF MainCreatePool
  <2>2. /\ main = "create_pool" /\ main' \in {"add", "end"} /\ todo' = todo
        /\ pc' = pc /\ buckets' = buckets
        /\ call = "none" /\ call' \in {"idle", "failed"}
        /\ UNCHANGED <<mutex, job, cancelled, cancels, created, leaked>>
        /\ deamon' \in {deamon, "lock"}
    BY <1>2 DEF MainCreatePool, MainAt, create_thread_pool, CreateDeamonFails, coroVars,
                workerVars
  <2>3. PoolAt'
    <3>1. CASE create_thread_pool
      <4>1. threads' = Free(CAPACITY) /\ call' = "idle"
        BY <3>1 DEF create_thread_pool
      <4>2. threads' \in [1..CAPACITY -> [state : {"THREAD_FREE"},
                                          thread : Workers \cup {None}]]
        BY <4>1 DEF Free
      <4> QED
        BY <4>1, <4>2 DEF PoolAt
    <3>2. CASE CreateDeamonFails
      BY <1>0, <3>2 DEF CreateDeamonFails, PoolAt
    <3> QED
      BY <1>2, <3>1, <3>2 DEF MainCreatePool
  <2>4. PoolTypeOK(Workers)'
    <3>1. \A i \in DOMAIN threads' :
             threads'[i] \in [state : {"THREAD_FREE", "THREAD_JOINED_BY_DEAMON"},
                              thread : Workers \cup {None}]
      BY <2>3, SlotTypes DEF PoolAt
    <3> QED
      BY <1>0, <2>2, <3>1 DEF PoolTypeOK
  <2>5. WorkersAt'
    BY <1>0, <2>2 DEF WorkersAt
  <2> QED
    BY <1>0, <2>1, <2>2, <2>3, <2>4, <2>5 DEF ClusterInv, TypeOK, CoroInv
<1>3. CASE MainAdd
  <2>0. main = "add" /\ main' = "add"
    BY <1>3 DEF MainAdd
  <2>1. ASSUME NEW w \in todo, AddLock(w), todo' = todo \ {w}, UNCHANGED coroVars
        PROVE  ClusterInv'
    <3>1. CoroInv'
      BY <1>0, <2>1, CoroKept
    <3>2. /\ threads' = threads /\ call = "idle" /\ call' = "add" /\ job' = w /\ mutex' = "owner"
          /\ UNCHANGED <<deamon, cancelled, cancels, created, leaked>> /\ w \in Workers
          /\ pc' = pc
      BY <1>0, <2>1 DEF AddLock, coroVars, workerVars
    <3>3. PoolAt'
      BY <1>0, <3>2, AddKeepsPool
    <3>4. PoolTypeOK(Workers)'
      BY <1>0, <3>2 DEF PoolTypeOK
    <3>5. WorkersAt'
      BY <1>0, <2>0, <2>1, <3>2 DEF WorkersAt
    <3> QED
      BY <1>0, <2>0, <2>1, <3>1, <3>3, <3>4, <3>5 DEF ClusterInv, TypeOK, CoroInv
  <2>2. ASSUME AddCreate, pc' = [pc EXCEPT ![job] = "create"], todo' = todo,
               UNCHANGED <<coro_map_init_cnt, buckets, coro, tid, queue, running, stackVars,
                           head, fault>>
        PROVE  ClusterInv'
    <3>1. /\ call = "add" /\ call' = "add_unlock" /\ created' = created \cup {job}
          /\ threads' = [Grown EXCEPT ![Slot] = [state |-> "THREAD_FREE", thread |-> job]]
          /\ UNCHANGED <<mutex, job, deamon, cancelled, cancels, leaked>>
      BY <2>2 DEF AddCreate
    <3>2. job \in Workers \ todo /\ pc[job] = "unborn"
      BY <1>0, <3>1 DEF WorkersAt
    <3>3. CoroInv'
      BY <1>0, <2>2, <3>2, CreateWorkerStep
    <3>4. PoolAt'
      BY <1>0, <3>1, <3>2, AddKeepsPool
    <3>5. PoolTypeOK(Workers)'
      <4>1. \A i \in DOMAIN threads' :
               threads'[i] \in [state : {"THREAD_FREE", "THREAD_JOINED_BY_DEAMON"},
                                thread : Workers \cup {None}]
        BY <3>4, SlotTypes DEF PoolAt
      <4> QED
        BY <1>0, <3>1, <3>2, <4>1 DEF PoolTypeOK
    <3>6. WorkersAt'
      <4>1. \A w \in Workers \ {job} : pc'[w] = pc[w]
        BY <1>0, <2>2 DEF CoroTypeOK
      <4> QED
        BY <1>0, <2>0, <2>2, <3>1, <3>2, <4>1 DEF WorkersAt
    <3> QED
      BY <1>0, <2>0, <2>2, <3>3, <3>4, <3>5, <3>6 DEF ClusterInv, TypeOK, CoroInv
  <2>3. ASSUME AddCreateFails \/ AddUnlock, UNCHANGED <<coroVars, todo>>
        PROVE  ClusterInv'
    <3>1. PoolAt' /\ PoolTypeOK(Workers)' /\ WorkersAt'
      BY <2>0, <2>3, PoolStep
    <3>2. CoroInv'
      BY <1>0, <2>3, CoroKept
    <3> QED
      BY <1>0, <2>0, <2>3, <3>1, <3>2 DEF ClusterInv, TypeOK, CoroInv
  <2> QED
    BY <1>3, <2>1, <2>2, <2>3 DEF MainAdd
<1>4. CASE MainSleep
  <2>1. CoroInv'
    BY <1>0, <1>4, CoroKept DEF MainSleep
  <2>2. /\ main = "add" /\ main' = "destroy" /\ todo' = todo /\ pc' = pc
        /\ UNCHANGED poolVars
    BY <1>4 DEF MainSleep, MainAt, coroVars, workerVars
  <2>3. PoolTypeOK(Workers)' /\ PoolAt'
    BY <1>0, <2>2 DEF PoolTypeOK, PoolAt, poolVars
  <2>4. WorkersAt'
    BY <1>0, <2>2 DEF WorkersAt, poolVars
  <2> QED
    BY <1>0, <2>1, <2>2, <2>3, <2>4 DEF ClusterInv, TypeOK, CoroInv
<1>5. CASE MainDestroy
  <2>1. CoroInv'
    BY <1>0, <1>5, CoroKept DEF MainDestroy
  <2>2. main = "destroy" /\ main' \in {main, "coro_fini"} /\ todo' = todo
    BY <1>5 DEF MainDestroy
  <2>3. PoolAt' /\ PoolTypeOK(Workers)' /\ WorkersAt'
    BY <1>5, <2>2, PoolStep DEF MainDestroy
  <2> QED
    BY <1>0, <2>1, <2>2, <2>3 DEF ClusterInv, TypeOK, CoroInv
<1>6. CASE MainFini
  <2>1. CoroInv'
    BY <1>0, <1>6, DestroyMapStep DEF MainFini
  <2>2. /\ main = "coro_fini" /\ main' \in {"end", "coro_fini"} /\ todo' = todo
        /\ UNCHANGED poolVars /\ pc' = pc
    BY <1>6 DEF MainFini, coro_fini, workerVars
  <2>3. PoolTypeOK(Workers)' /\ PoolAt'
    BY <1>0, <2>2 DEF PoolTypeOK, PoolAt, poolVars
  <2>4. WorkersAt'
    BY <1>0, <2>2 DEF WorkersAt, poolVars
  <2> QED
    BY <1>0, <2>1, <2>2, <2>3, <2>4 DEF ClusterInv, TypeOK, CoroInv
<1> QED
  BY <1>1, <1>2, <1>3, <1>4, <1>5, <1>6 DEF Main

LEMMA NextInv ==
  ClusterInv /\ [ClusterNext]_allVars => ClusterInv'
<1> SUFFICES ASSUME ClusterInv, [ClusterNext]_allVars PROVE ClusterInv'
  OBVIOUS
<1>0. /\ PoolTypeOK(Workers) /\ PoolAt /\ WorkersAt /\ CoroInv /\ todo \subseteq Workers
      /\ main \in {"coro_init", "create_pool", "add", "destroy", "coro_fini", "end"}
  BY DEF ClusterInv, TypeOK
<1>1. CASE ProcessAlive /\ Main
  BY <1>1, MainStep
<1>2. CASE Deamon
  <2>1. CoroInv'
    BY <1>0, <1>2, CoroKept DEF Deamon
  <2>2. main' = main /\ todo' = todo
    BY <1>2 DEF Deamon
  <2>3. PoolAt' /\ PoolTypeOK(Workers)' /\ WorkersAt'
    BY <1>2, <2>2, PoolStep DEF Deamon
  <2> QED
    BY <1>0, <2>1, <2>2, <2>3 DEF ClusterInv, TypeOK, CoroInv
<1>3. ASSUME NEW w \in Workers, ProcessAlive, Worker(w) PROVE ClusterInv'
  <2>1. thread_worker(w) /\ UNCHANGED poolVars /\ main' = main /\ todo' = todo
    BY <1>3 DEF Worker
  <2>2. CoroInv'
    BY <1>0, <1>3, <2>1, WorkerStep DEF ProcessAlive
  <2>3. PoolTypeOK(Workers)' /\ PoolAt'
    BY <1>0, <2>1 DEF PoolTypeOK, PoolAt, poolVars
  <2>4. pc[w] # "unborn"
    BY <2>1 DEF thread_worker, create_scheduler, create_coroutine, run_scheduler, NeedsMap,
                scheduler_routine, coro_queue_pop, MapWalk, MapRead, MapWrite, MapGone,
                ResumeFreed, count_task, finish, yeild, YeildTest, YeildPush, YeildLost, Goto
  <2>5. \A u \in Workers \ {w} : pc'[u] = pc[u]
    BY <1>0, <2>1, OthersKept DEF CoroInv
  <2>6. main = "coro_init" => FALSE
    BY <1>0, <2>4 DEF WorkersAt
  <2>7. WorkersAt'
    BY <1>0, <2>1, <2>4, <2>5, <2>6 DEF WorkersAt, poolVars
  <2> QED
    BY <1>0, <2>1, <2>2, <2>3, <2>7 DEF ClusterInv, TypeOK, CoroInv
<1>4. CASE UNCHANGED allVars
  <2>1. UNCHANGED <<poolVars, coroVars, main, todo>>
    BY <1>4 DEF allVars
  <2>2. CoroInv'
    BY <1>0, <2>1, CoroKept
  <2>3. PoolTypeOK(Workers)' /\ PoolAt'
    BY <1>0, <2>1 DEF PoolTypeOK, PoolAt, poolVars
  <2>4. WorkersAt'
    BY <1>0, <2>1 DEF WorkersAt, poolVars, coroVars, workerVars
  <2> QED
    BY <1>0, <2>1, <2>2, <2>3, <2>4 DEF ClusterInv, TypeOK, CoroInv
<1> QED
  BY <1>1, <1>2, <1>3, <1>4 DEF ClusterNext, ProcessOver

-----------------------------------------------------------------------------
(* What follows from the invariant *)

\* The places of a worker.
LEMMA Places ==
  ASSUME CoroTypeOK, NEW w \in Workers
  PROVE  pc[w] \in Creating \cup {"failed"} \/ pc[w] \in Running \cup {"pop", "done"}
BY DEF CoroTypeOK, Creating, Running, BeforeCount, AfterCount

LEMMA ScheduledOnce ==
  CoroInv => EachScheduledOnce
<1> SUFFICES ASSUME CoroInv, NEW w \in Workers, OneRival(w)
             PROVE  /\ Distinct(queue[w])
                    /\ pc[w] \in Running => \A i \in DOMAIN queue[w] : queue[w][i] # running[w]
                    /\ pc[w] \in Running \cup {"pop"} =>
                          \A c \in Coros \ Alive(w) : count[w][c] = COUNTS
                    /\ \A c \in Coros : context[w][c] = c
  BY DEF EachScheduledOnce
<1>0. Scheduled(w) /\ TakesTurns(w) /\ CoroTypeOK
  BY DEF CoroInv
<1>1. CASE pc[w] \in Creating \cup {"failed"}
  <2>1. SchedulerCreating(w) /\ pc[w] \notin Running \cup {"pop"}
    BY <1>0, <1>1 DEF Scheduled, Creating, Running, BeforeCount, AfterCount
  <2> QED
    BY <2>1 DEF SchedulerCreating, Distinct
<1>2. CASE pc[w] \in Running \cup {"pop", "done"}
  <2>1. InTurn(w)
    BY <1>0, <1>2 DEF TakesTurns
  <2> QED
    BY <2>1 DEF InTurn
<1> QED
  BY <1>0, <1>1, <1>2, Places

LEMMA TakeTurns ==
  CoroInv => RoundRobin
<1> SUFFICES ASSUME CoroInv, NEW w \in Workers, OneRival(w), NEW c \in Coros, NEW d \in Coros
             PROVE  count[w][c] <= count[w][d] + 1
  BY DEF RoundRobin
<1> DEFINE q == queue[w]
           n == count[w]
           r == running[w]
<1>0. Scheduled(w) /\ TakesTurns(w) /\ CoroTypeOK
  BY DEF CoroInv
<1>1. n[c] \in Nat /\ n[d] \in Nat
  BY <1>0, WorkerTypes
<1>2. DOMAIN q \subseteq Nat
  BY <1>0, WorkerTypes
<1>3. CASE pc[w] \in Creating \cup {"failed"}
  <2>1. n[c] = n[d]
    BY <1>0, <1>3 DEF Scheduled, SchedulerCreating
  <2> QED
    BY <1>1, <2>1
<1>4. CASE pc[w] \in Running \cup {"pop", "done"}
  <2>1. InTurn(w)
    BY <1>0, <1>4 DEF TakesTurns
  <2>2. CASE c \notin Alive(w) \/ d \notin Alive(w)
    <3>1. n[c] = n[d]
      BY <2>1, <2>2 DEF InTurn
    <3> QED
      BY <1>1, <3>1
  <2>3. CASE c \in Alive(w) /\ d \in Alive(w)
    <3>1. /\ (pc[w] \in Running /\ c = r) \/ \E i \in DOMAIN q : c = q[i]
          /\ (pc[w] \in Running /\ d = r) \/ \E i \in DOMAIN q : d = q[i]
      BY <2>3 DEF Alive
    <3>2. CASE \E i \in DOMAIN q : c = q[i] /\ \E j \in DOMAIN q : d = q[j]
      <4>1. PICK i \in DOMAIN q, j \in DOMAIN q : c = q[i] /\ d = q[j]
        BY <3>2
      <4>2. i <= j \/ j <= i
        BY <1>2
      <4> QED
        BY <1>1, <2>1, <4>1, <4>2 DEF InTurn
    <3>3. CASE c = r /\ d = r
      BY <1>1, <3>3
    <3>4. CASE pc[w] \in Running /\ c = r /\ \E i \in DOMAIN q : d = q[i]
      BY <1>1, <2>1, <3>4 DEF InTurn, Running
    <3>5. CASE pc[w] \in Running /\ d = r /\ \E i \in DOMAIN q : c = q[i]
      BY <1>1, <2>1, <3>5 DEF InTurn, Running
    <3> QED
      BY <3>1, <3>2, <3>3, <3>4, <3>5
  <2> QED
    BY <2>2, <2>3
<1> QED
  BY <1>0, <1>3, <1>4, Places

LEMMA FindsItself ==
  CoroInv => YeildFindsItself
BY GetFacts DEF CoroInv, YeildFindsItself

\* A worker has completed when its queue is empty: no stack is left.
LEMMA RanAll ==
  CoroInv => CompletedRanAll
<1> SUFFICES ASSUME CoroInv, NEW w \in Workers, pc[w] = "done"
             PROVE  freed[w] = Coros /\ \A c \in Coros : count[w][c] = COUNTS
  BY DEF CompletedRanAll
<1>0. SlotsExact(w) /\ queue[w] = <<>> /\ pc[w] \notin Running
  BY DEF CoroInv, Scheduled, Running, BeforeCount, AfterCount
<1>1. freed[w] \in SUBSET Coros
  BY WorkerTypes DEF CoroInv
<1>2. Len(queue[w]) = 0
  BY <1>0
<1>3. Cardinality(Coros \ freed[w]) = 0
  BY <1>0, <1>2 DEF SlotsExact
<1>4. freed[w] = Coros
  BY <1>1, <1>3, Unfinished
<1> QED
  BY <1>0, <1>4 DEF SlotsExact

-----------------------------------------------------------------------------
LEMMA Invariant ==
  ClusterSpec => []ClusterInv
BY InitInv, NextInv, PTL DEF ClusterSpec

\* The variables of the thread pool, the schedulers and the map have their types,
\* for any number of workers, coroutines, slots and buckets.
THEOREM TypeCorrect ==
  ClusterSpec => []TypeOK
<1>1. ClusterInv => TypeOK
  BY DEF ClusterInv
<1> QED
  BY <1>1, Invariant, PTL

\* A scheduler whose bucket one other thread shares at most loses no coroutine and
\* has none twice, although yeild queues what the map names (coroutine.c:134-136)
\* and the threads insert into the map without a lock.
THEOREM NoCoroutineLost ==
  ClusterSpec => []EachScheduledOnce
<1>1. ClusterInv => EachScheduledOnce
  BY ScheduledOnce DEF ClusterInv
<1> QED
  BY <1>1, Invariant, PTL

\* The coroutines of such a scheduler take turns: yeild puts at the end of the queue
\* the one that runs, and the scheduler takes the first.
THEOREM CoroutinesTakeTurns ==
  ClusterSpec => []RoundRobin
<1>1. ClusterInv => RoundRobin
  BY TakeTurns DEF ClusterInv
<1> QED
  BY <1>1, Invariant, PTL

\* yeild finds its own coroutine in the map that the threads share without a lock,
\* or none when the map is gone or another thread's id falls into the same bucket,
\* or a suspended one of its own thread when two others do.
THEOREM MapFindsCoroutine ==
  ClusterSpec => []YeildFindsItself
<1>1. ClusterInv => YeildFindsItself
  BY FindsItself DEF ClusterInv
<1> QED
  BY <1>1, Invariant, PTL

\* A worker that completes (scheduler_routine with an empty queue) has run all its
\* coroutines to their ends, whatever the map gave to yeild and however many
\* threads share a bucket.
THEOREM CompletedWorkersRanAll ==
  ClusterSpec => []CompletedRanAll
<1>1. ClusterInv => CompletedRanAll
  BY RanAll DEF ClusterInv
<1> QED
  BY <1>1, Invariant, PTL

\* The process dies of the map only while it is destroyed (coro_fini in main), of a
\* null coroutine only then or when two threads share a bucket, and in a freed stack
\* only when three do.
THEOREM DeathsExplained ==
  ClusterSpec => []DeathExplained
<1>1. ClusterInv => DeathExplained
  BY DEF ClusterInv, CoroInv
<1> QED
  BY <1>1, Invariant, PTL
=============================================================================
