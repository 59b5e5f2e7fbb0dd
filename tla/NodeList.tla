------------------------------ MODULE NodeList ------------------------------
(***************************************************************************)
(* The shared list of sync/2.3/2.3-2.4.c: counting threads walk the list   *)
(* hand over hand, comparing neighbours, while swapping threads exchange   *)
(* two neighbours at a random place.  Each node has a mutex (module Mutex, *)
(* used here as the lock it implements); several tests of "next" are made  *)
(* without it.                                                             *)
(*                                                                         *)
(* Nodes are numbered by their initial positions, Null is 0.  A thread's   *)
(* locals are in "loc"; "tgt" is the mutex whose address mutex_lock was    *)
(* called with, evaluated before the call blocks.                          *)
(***************************************************************************)
EXTENDS Naturals, FiniteSets

CONSTANTS Size, Counters, Swappers, None

ASSUME NodeListAssumption ==
    /\ Size \in Nat /\ Size >= 4        \* rand() % (size - 3)
    /\ Counters \cap Swappers = {}
    /\ None \notin Counters \cup Swappers

VARIABLES next, owner, stop, pc, loc, main

vars == <<next, owner, stop, pc, loc, main>>

Nodes == 1..Size
Null == 0
Threads == Counters \cup Swappers
first == 1

\* The locals at the start of a turn of a thread's outer loop.
NoLocals == [prev |-> Null, cur |-> Null, nxt |-> Null, next_next |-> Null,
             tgt |-> Null, left |-> 0]

\* main has built the list with add_node, at the tail each time.
Init ==
    /\ next = [n \in Nodes |-> IF n = Size THEN Null ELSE n + 1]
    /\ owner = [n \in Nodes |-> None]
    /\ stop = FALSE
    /\ pc = [t \in Threads |-> "unborn"]
    /\ loc = [t \in Threads |-> NoLocals]
    /\ main = "create"

-----------------------------------------------------------------------------
Goto(t, from, to) ==
    /\ pc[t] = from
    /\ pc' = [pc EXCEPT ![t] = to]

\* mutex_lock has returned; mutex_unlock.
Acquire(t, n) == owner[n] = None /\ owner' = [owner EXCEPT ![n] = t]
Release(n) == owner' = [owner EXCEPT ![n] = None]

-----------------------------------------------------------------------------
(* count_ascending, count_descending and count_equal, which differ in the  *)
(* comparison only.                                                        *)

CountOuter(t) ==
    /\ \/ stop /\ Goto(t, "count", "done") /\ UNCHANGED loc
       \/ /\ ~stop
          /\ Goto(t, "count", "inner")
          /\ loc' = [loc EXCEPT ![t].cur = first]
    /\ UNCHANGED <<next, owner, stop, main>>

\* current->next is read without a lock.
CountInner(t) ==
    /\ \/ /\ Goto(t, "inner", "lock1")
          /\ next[loc[t].cur] # Null /\ ~stop
          /\ UNCHANGED loc
       \/ /\ Goto(t, "inner", "count")
          /\ next[loc[t].cur] = Null \/ stop
          /\ loc' = [loc EXCEPT ![t] = NoLocals]
    /\ UNCHANGED <<next, owner, stop, main>>

CountLock1(t) ==
    /\ Goto(t, "lock1", "eval2")
    /\ Acquire(t, loc[t].cur)
    /\ UNCHANGED <<next, stop, loc, main>>

CountEval2(t) ==
    /\ Goto(t, "eval2", "lock2")
    /\ loc' = [loc EXCEPT ![t].tgt = next[loc[t].cur]]
    /\ UNCHANGED <<next, owner, stop, main>>

CountLock2(t) ==
    /\ Goto(t, "lock2", "compare")
    /\ Acquire(t, loc[t].tgt)
    /\ UNCHANGED <<next, stop, loc, main>>

\* The neighbours are compared and the second one is remembered.
CountCompare(t) ==
    /\ Goto(t, "compare", "unlock1")
    /\ loc' = [loc EXCEPT ![t].nxt = next[loc[t].cur]]
    /\ UNCHANGED <<next, owner, stop, main>>

CountUnlock1(t) ==
    /\ Goto(t, "unlock1", "unlock2")
    /\ Release(loc[t].cur)
    /\ UNCHANGED <<next, stop, loc, main>>

CountUnlock2(t) ==
    /\ Goto(t, "unlock2", "inner")
    /\ Release(loc[t].nxt)
    /\ loc' = [loc EXCEPT ![t] = [NoLocals EXCEPT !.cur = loc[t].nxt]]
    /\ UNCHANGED <<next, stop, main>>

count(t) ==
    \/ CountOuter(t) \/ CountInner(t) \/ CountLock1(t) \/ CountEval2(t)
    \/ CountLock2(t) \/ CountCompare(t) \/ CountUnlock1(t) \/ CountUnlock2(t)

-----------------------------------------------------------------------------
(* swap_thread and safe_swap_nodes *)

\* Mutant: the random place may make the last node one of the two.
RandElemTooFar == 1..Size - 2

\* rand() % (size - 3) + 1
RandElem == 1..Size - 3

\* Mutant: the swapper does not look at stop.
SwapOuterForever(t) ==
    /\ Goto(t, "swap", "lock_first")
    /\ \E randElem \in RandElem : loc' = [loc EXCEPT ![t].left = randElem - 1]
    /\ UNCHANGED <<next, owner, stop, main>>

\* The tests of stop, and the random place: "left" is randElem - ind.
SwapOuter(t) ==
    /\ \/ stop /\ Goto(t, "swap", "done") /\ UNCHANGED loc
       \/ /\ ~stop
          /\ Goto(t, "swap", "lock_first")
          /\ \E randElem \in RandElem : loc' = [loc EXCEPT ![t].left = randElem - 1]
    /\ UNCHANGED <<next, owner, stop, main>>

SwapLockFirst(t) ==
    /\ Goto(t, "lock_first", "walk")
    /\ Acquire(t, first)
    /\ loc' = [loc EXCEPT ![t].prev = first]
    /\ UNCHANGED <<next, stop, main>>

\* Mutant: the walk runs while ind <= randElem.
SwapWalkTooFar(t) ==
    /\ Goto(t, "walk", IF next[loc[t].prev] # Null THEN "walk_lock" ELSE "check")
    /\ loc' = [loc EXCEPT ![t].tgt = next[loc[t].prev]]
    /\ UNCHANGED <<next, owner, stop, main>>

\* The head of the walking loop.
SwapWalk(t) ==
    /\ \/ /\ Goto(t, "walk", "walk_lock")
          /\ loc[t].left > 0 /\ next[loc[t].prev] # Null
          /\ loc' = [loc EXCEPT ![t].tgt = next[loc[t].prev]]
       \/ /\ Goto(t, "walk", "check")
          /\ loc[t].left = 0 \/ next[loc[t].prev] = Null
          /\ UNCHANGED loc
    /\ UNCHANGED <<next, owner, stop, main>>

SwapWalkLock(t) ==
    /\ Goto(t, "walk_lock", "walk_unlock")
    /\ Acquire(t, loc[t].tgt)
    /\ UNCHANGED <<next, stop, loc, main>>

SwapWalkUnlock(t) ==
    /\ Goto(t, "walk_unlock", "walk")
    /\ Release(loc[t].prev)
    /\ loc' = [loc EXCEPT ![t] = [@ EXCEPT !.prev = next[loc[t].prev],
                                          !.left = loc[t].left - 1, !.tgt = Null]]
    /\ UNCHANGED <<next, stop, main>>

\* Enough nodes after prev?  The second node's "next" is read without its lock.
Enough(t) ==
    LET n == next[loc[t].prev] IN n # Null /\ next[n] # Null

\* If not, prev is released and the loop starts over.
SwapCheck(t) ==
    /\ Goto(t, "check", IF Enough(t) THEN "lock_cur" ELSE "swap")
    /\ loc' = [loc EXCEPT ![t].tgt = IF Enough(t) THEN next[loc[t].prev] ELSE Null]
    /\ owner' = IF Enough(t) THEN owner ELSE [owner EXCEPT ![loc[t].prev] = None]
    /\ UNCHANGED <<next, stop, main>>

\* Mutant: the first of the two nodes is not locked.
SwapLockCurNot(t) ==
    /\ Goto(t, "lock_cur", "eval_next")
    /\ loc' = [loc EXCEPT ![t].cur = next[loc[t].prev]]
    /\ UNCHANGED <<next, owner, stop, main>>

SwapLockCur(t) ==
    /\ Goto(t, "lock_cur", "eval_next")
    /\ Acquire(t, loc[t].tgt)
    /\ loc' = [loc EXCEPT ![t].cur = next[loc[t].prev]]
    /\ UNCHANGED <<next, stop, main>>

SwapEvalNext(t) ==
    /\ Goto(t, "eval_next", "lock_next")
    /\ loc' = [loc EXCEPT ![t].tgt = next[loc[t].cur]]
    /\ UNCHANGED <<next, owner, stop, main>>

\* Mutant: the second of the two nodes is not locked.
SwapLockNextNot(t) ==
    /\ Goto(t, "lock_next", "relink1")
    /\ LET n == next[loc[t].cur]
       IN  loc' = [loc EXCEPT ![t] = [@ EXCEPT !.nxt = n, !.next_next = next[n]]]
    /\ UNCHANGED <<next, owner, stop, main>>

SwapLockNext(t) ==
    /\ Goto(t, "lock_next", "relink1")
    /\ Acquire(t, loc[t].tgt)
    /\ LET n == next[loc[t].cur]
       IN  loc' = [loc EXCEPT ![t] = [@ EXCEPT !.nxt = n, !.next_next = next[n]]]
    /\ UNCHANGED <<next, stop, main>>

\* The three assignments, which counters may see one by one.
SwapRelink1(t) ==
    /\ Goto(t, "relink1", "relink2")
    /\ next' = [next EXCEPT ![loc[t].prev] = loc[t].nxt]
    /\ UNCHANGED <<owner, stop, loc, main>>

SwapRelink2(t) ==
    /\ Goto(t, "relink2", "relink3")
    /\ next' = [next EXCEPT ![loc[t].cur] = loc[t].next_next]
    /\ UNCHANGED <<owner, stop, loc, main>>

SwapRelink3(t) ==
    /\ Goto(t, "relink3", "unlock_prev")
    /\ next' = [next EXCEPT ![loc[t].nxt] = loc[t].cur]
    /\ UNCHANGED <<owner, stop, loc, main>>

SwapUnlock(t) ==
    /\ \/ Goto(t, "unlock_prev", "unlock_cur") /\ Release(loc[t].prev) /\ UNCHANGED loc
       \/ Goto(t, "unlock_cur", "unlock_next") /\ Release(loc[t].cur) /\ UNCHANGED loc
       \/ /\ Goto(t, "unlock_next", "swap")
          /\ Release(loc[t].nxt)
          /\ loc' = [loc EXCEPT ![t] = NoLocals]
    /\ UNCHANGED <<next, stop, main>>

swap_thread(t) ==
    \/ SwapOuter(t) \/ SwapLockFirst(t) \/ SwapWalk(t) \/ SwapWalkLock(t)
    \/ SwapWalkUnlock(t) \/ SwapCheck(t) \/ SwapLockCur(t)
    \/ SwapEvalNext(t) \/ SwapLockNext(t) \/ SwapRelink1(t) \/ SwapRelink2(t)
    \/ SwapRelink3(t) \/ SwapUnlock(t)

-----------------------------------------------------------------------------
(* main *)

Unborn == {t \in Threads : pc[t] = "unborn"}

\* pthread_create, counters first.
CreateThread(t) ==
    /\ main = "create"
    /\ pc[t] = "unborn"
    /\ t \in Swappers => Unborn \cap Counters = {}
    /\ pc' = [pc EXCEPT ![t] = IF t \in Counters THEN "count" ELSE "swap"]
    /\ main' = IF Unborn = {t} THEN "run" ELSE "create"
    /\ UNCHANGED <<next, owner, stop, loc>>

\* A thread could not be created: stop the others.
CreateFailed ==
    /\ main = "create"
    /\ stop' = TRUE
    /\ main' = "join"
    /\ UNCHANGED <<next, owner, pc, loc>>

\* The seconds of statistics are over.
TimeOver ==
    /\ main = "run"
    /\ stop' = TRUE
    /\ main' = "join"
    /\ UNCHANGED <<next, owner, pc, loc>>

\* Every created thread is joined and the list is freed.
JoinAll ==
    /\ main = "join"
    /\ \A t \in Threads : pc[t] \in {"done", "unborn"}
    /\ main' = "end"
    /\ UNCHANGED <<next, owner, stop, pc, loc>>

Main == (\E t \in Threads : CreateThread(t)) \/ CreateFailed \/ TimeOver \/ JoinAll

ProgramOver == main = "end" /\ UNCHANGED vars

Next ==
    \/ \E t \in Counters : count(t)
    \/ \E t \in Swappers : swap_thread(t)
    \/ Main
    \/ ProgramOver

\* Threads are scheduled, and main's sleeps end.
Spec ==
    /\ Init
    /\ [][Next]_vars
    /\ \A t \in Counters : WF_vars(count(t))
    /\ \A t \in Swappers : WF_vars(swap_thread(t))
    /\ WF_vars(Main)

-----------------------------------------------------------------------------
(* Properties *)

Labels == {"unborn", "done", "count", "inner", "lock1", "eval2", "lock2", "compare",
           "unlock1", "unlock2", "swap", "lock_first", "walk", "walk_lock",
           "walk_unlock", "check", "lock_cur", "eval_next", "lock_next", "relink1",
           "relink2", "relink3", "unlock_prev", "unlock_cur", "unlock_next"}

NodeOrNull == Nodes \cup {Null}

Locals == [prev : NodeOrNull, cur : NodeOrNull, nxt : NodeOrNull,
           next_next : NodeOrNull, tgt : NodeOrNull, left : Nat]

TypeOK ==
    /\ next \in [Nodes -> NodeOrNull]
    /\ owner \in [Nodes -> Threads \cup {None}]
    /\ stop \in BOOLEAN
    /\ pc \in [Threads -> Labels]
    /\ loc \in [Threads -> Locals]
    /\ main \in {"create", "run", "join", "end"}

\* The list as it is once the exchanges that are under way are completed.
Settled(n) ==
    LET second == {t \in Swappers : pc[t] = "relink2" /\ loc[t].cur = n}
        third == {t \in Swappers : pc[t] \in {"relink2", "relink3"} /\ loc[t].nxt = n}
    IN  IF second # {} THEN loc[CHOOSE t \in second : TRUE].next_next
        ELSE IF third # {} THEN loc[CHOOSE t \in third : TRUE].cur
        ELSE next[n]

Walk[n \in 0..Size] ==
    IF n = 0 THEN first
    ELSE LET w == Walk[n - 1] IN IF w = Null THEN Null ELSE Settled(w)

\* Exchanges of overlapping neighbours by several threads, in any interleaving
\* of their assignments, lose no node and make no cycle: the list from
\* storage->first is always a permutation of all nodes.
ListIntact ==
    /\ {Walk[n] : n \in 0..Size - 1} = Nodes
    /\ Walk[Size] = Null

\* No thread calls mutex_lock on the mutex of a null node, although the tests of
\* "next" before the calls were made without the lock or before it was taken.
NeverLocksNull ==
    \A t \in Threads :
        /\ pc[t] \in {"lock2", "walk_lock", "lock_cur", "lock_next"} => loc[t].tgt # Null
        /\ pc[t] \in {"inner", "lock1"} => loc[t].cur # Null

\* The two nodes a counter compares are neighbours in the list and both are
\* locked by it.
ComparesNeighbours ==
    \A t \in Counters : pc[t] = "compare" =>
        /\ loc[t].tgt = next[loc[t].cur]
        /\ owner[loc[t].cur] = t /\ owner[loc[t].tgt] = t

\* The inductive invariant.  What a counter knows of its nodes: the ones it has
\* locked, and the link between them, which nobody else can change.
CountLabels == {"unborn", "done", "count", "inner", "lock1", "eval2", "lock2", "compare",
                "unlock1", "unlock2"}

AtCount(t) ==
    LET l == loc[t] IN
    /\ pc[t] \in CountLabels
    /\ pc[t] = "inner" => l.cur \in Nodes
    /\ pc[t] \in {"lock1", "eval2", "lock2", "compare", "unlock1"} => l.cur \in Nodes \ {Size}
    /\ pc[t] \in {"eval2", "lock2", "compare", "unlock1"} => owner[l.cur] = t
    /\ pc[t] \in {"lock2", "compare", "unlock1"} => l.tgt = next[l.cur]
    /\ pc[t] \in {"compare", "unlock1"} => owner[l.tgt] = t /\ l.tgt # l.cur
    /\ pc[t] = "unlock1" => l.nxt = l.tgt
    /\ pc[t] = "unlock2" => l.nxt \in Nodes /\ owner[l.nxt] = t

\* What a swapper knows: from lock_cur on its nodes follow one another, and while
\* it writes it has locked all three of them.
SwapLabels == {"unborn", "done", "swap", "lock_first", "walk", "walk_lock", "walk_unlock",
               "check", "lock_cur", "eval_next", "lock_next", "relink1", "relink2",
               "relink3", "unlock_prev", "unlock_cur", "unlock_next"}

AtSwap(t) ==
    LET l == loc[t] IN
    /\ pc[t] \in SwapLabels
    /\ pc[t] = "lock_first" => l.left <= Size - 4
    /\ pc[t] \in SwapLabels
          \ {"unborn", "done", "swap", "lock_first", "unlock_cur", "unlock_next"} =>
          l.prev \in Nodes /\ owner[l.prev] = t
    /\ pc[t] \in {"walk_lock", "walk_unlock"} => l.left > 0
    /\ pc[t] \in {"walk_lock", "walk_unlock", "lock_cur"} =>
          l.tgt \in Nodes /\ l.tgt = next[l.prev]
    /\ pc[t] = "walk_unlock" => owner[l.tgt] = t /\ l.tgt # l.prev
    /\ pc[t] \in {"eval_next", "lock_next", "relink1"} => l.cur = next[l.prev]
    /\ pc[t] \in {"eval_next", "lock_next", "relink1", "relink2", "relink3",
                  "unlock_prev", "unlock_cur"} => l.cur \in Nodes /\ owner[l.cur] = t
    /\ pc[t] = "lock_next" => l.tgt \in Nodes /\ l.tgt = next[l.cur]
    /\ pc[t] \in {"relink1", "relink2", "relink3", "unlock_prev", "unlock_cur",
                  "unlock_next"} => l.nxt \in Nodes /\ owner[l.nxt] = t
    /\ pc[t] \in {"relink1", "relink2", "relink3", "unlock_prev"} =>
          l.prev # l.cur /\ l.prev # l.nxt
    /\ pc[t] \in {"relink1", "relink2", "relink3", "unlock_prev", "unlock_cur"} =>
          l.cur # l.nxt
    /\ pc[t] \in {"relink1", "relink2", "relink3"} =>
          /\ Size \notin {l.prev, l.cur, l.nxt}
          /\ l.next_next \in Nodes
    /\ pc[t] = "relink1" => l.nxt = next[l.cur] /\ l.next_next = next[l.nxt]

\* What a swapper knows of an exchange under way, however it came by its locks.
Exchanging(t) ==
    LET l == loc[t] IN
    pc[t] \in {"relink1", "relink2", "relink3"} =>
        /\ l.prev \in Nodes \ {Size} /\ l.cur \in Nodes \ {Size} /\ l.nxt \in Nodes \ {Size}
        /\ l.prev # l.cur /\ l.prev # l.nxt /\ l.cur # l.nxt
        /\ owner[l.prev] = t /\ owner[l.cur] = t /\ owner[l.nxt] = t
        /\ l.next_next \in Nodes
        /\ pc[t] = "relink1" =>
              next[l.prev] = l.cur /\ next[l.cur] = l.nxt /\ next[l.nxt] = l.next_next

\* No exchange reaches the last node.
LastStays == \A n \in Nodes : next[n] = Null <=> n = Size

\* pos is the place of each node in the settled list; a swapper on its way to its
\* random place is as far from the end as rand() % (size - 3) has left it.
FarFromEnd(t, pos) ==
    LET l == loc[t] IN
    /\ pc[t] \in {"walk", "walk_lock", "walk_unlock"} => pos[l.prev] + l.left <= Size - 3
    /\ pc[t] \in {"check", "lock_cur", "eval_next", "lock_next", "relink1"} =>
          pos[l.prev] <= Size - 3

InPlace(pos) ==
    /\ \A m, n \in Nodes : pos[m] = pos[n] => m = n
    /\ pos[first] = 1 /\ pos[Size] = Size
    /\ \A n \in Nodes \ {Size} : Settled(n) \in Nodes /\ pos[Settled(n)] = pos[n] + 1
    /\ Settled(Size) = Null

Order(pos) == InPlace(pos) /\ \A t \in Swappers : FarFromEnd(t, pos)

ListInv ==
    /\ TypeOK
    /\ \A t \in Counters : AtCount(t)
    /\ \A t \in Swappers : AtSwap(t)
    /\ LastStays
    /\ \E pos \in [Nodes -> Nodes] : Order(pos)

\* The program ends: whatever locks the threads hold and wait for when stop is
\* set, all are joined.
Termination == <>(main = "end")
=============================================================================
