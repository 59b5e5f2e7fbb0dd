--------------------------- MODULE NodeListProofs ---------------------------
(***************************************************************************)
(* Proofs about the list of sync/2.3/2.3-2.4.c, for any number of threads  *)
(* and any length: however the exchanges of the swapping threads overlap,  *)
(* the list stays a list of all nodes, no thread locks a null node, and a  *)
(* counting thread compares two neighbours it has locked.                  *)
(*                                                                         *)
(* The argument: the invariant gives each node a place in the list as it   *)
(* is once the exchanges under way are completed.  The places change in    *)
(* one step only, the first assignment of an exchange, which exchanges the *)
(* places of its two nodes; the locks its thread holds keep every other    *)
(* thread away from the links this touches.                                *)
(***************************************************************************)
EXTENDS NodeList, NaturalsInduction, WellFoundedInduction, TLAPS

(* The settled list *)

\* Thread u is between the assignments of an exchange in which n is the node whose
\* link is written second; third.
Second(u, n) == pc[u] = "relink2" /\ loc[u].cur = n
Third(u, n) == pc[u] \in {"relink2", "relink3"} /\ loc[u].nxt = n

\* Outside the exchanges under way the settled list is the list.
LEMMA SettledNext ==
  ASSUME NEW n \in Nodes, \A u \in Swappers : ~Second(u, n) /\ ~Third(u, n)
  PROVE  Settled(n) = next[n]
BY DEF Settled, Second, Third

\* A swapper of this list knows its exchange.
LEMMA SwapExchanging ==
  ASSUME NEW t \in Swappers, AtSwap(t)
  PROVE  Exchanging(t)
<1> SUFFICES ASSUME pc[t] \in {"relink1", "relink2", "relink3"} PROVE Exchanging(t)
  BY DEF Exchanging
<1> QED
  BY DEF AtSwap, SwapLabels, Exchanging

\* A node locked by nobody, or by a thread that is not writing, has its own link.
LEMMA SettledHeld ==
  ASSUME \A u \in Swappers : Exchanging(u), NEW n \in Nodes,
         \/ owner[n] = None
         \/ owner[n] \in Counters
         \/ owner[n] \in Threads /\ pc[owner[n]] \notin {"relink2", "relink3"}
         \/ owner[n] \in Swappers /\ n \notin {loc[owner[n]].cur, loc[owner[n]].nxt}
  PROVE  Settled(n) = next[n]
<1>1. ASSUME NEW u \in Swappers, Second(u, n) \/ Third(u, n) PROVE FALSE
  <2>1. owner[n] = u /\ n \in {loc[u].cur, loc[u].nxt}
    BY <1>1 DEF Second, Third, Exchanging
  <2> QED
    BY <1>1, <2>1, NodeListAssumption DEF Second, Third, Threads
<1> QED
  BY <1>1, SettledNext

\* The links of an exchange under way are the ones its thread is going to write.
WritesSettled ==
    (\A u \in Swappers : Exchanging(u)) =>
        \A t \in Swappers :
            /\ pc[t] = "relink2" => Settled(loc[t].cur) = loc[t].next_next
            /\ pc[t] \in {"relink2", "relink3"} => Settled(loc[t].nxt) = loc[t].cur

LEMMA SettledWriting == WritesSettled
<1> SUFFICES ASSUME \A u \in Swappers : Exchanging(u), NEW t \in Swappers
             PROVE  /\ pc[t] = "relink2" => Settled(loc[t].cur) = loc[t].next_next
                    /\ pc[t] \in {"relink2", "relink3"} => Settled(loc[t].nxt) = loc[t].cur
  BY DEF WritesSettled
<1>1. ASSUME pc[t] = "relink2" PROVE Settled(loc[t].cur) = loc[t].next_next
  <2> DEFINE n == loc[t].cur
             second == {u \in Swappers : pc[u] = "relink2" /\ loc[u].cur = n}
  <2>1. t \in second
    BY <1>1
  <2>2. \A u \in second : u = t
    BY <1>1 DEF Exchanging
  <2>3. (CHOOSE u \in second : TRUE) = t
    BY <2>1, <2>2
  <2> QED
    BY <2>1, <2>3 DEF Settled
<1>2. ASSUME pc[t] \in {"relink2", "relink3"} PROVE Settled(loc[t].nxt) = loc[t].cur
  <2> DEFINE n == loc[t].nxt
             second == {u \in Swappers : pc[u] = "relink2" /\ loc[u].cur = n}
             third == {u \in Swappers : pc[u] \in {"relink2", "relink3"} /\ loc[u].nxt = n}
  <2>1. t \in third
    BY <1>2
  <2>2. \A u \in third : u = t
    BY <1>2 DEF Exchanging
  <2>3. second = {}
    BY <1>2 DEF Exchanging
  <2>4. (CHOOSE u \in third : TRUE) = t
    BY <2>1, <2>2
  <2> QED
    BY <2>1, <2>3, <2>4 DEF Settled
<1> QED
  BY <1>1, <1>2

\* The same after a step.
LEMMA SettledWritingAfter == WritesSettled'
BY SettledWriting, PTL

\* A step keeps a node's settled link when it keeps its link and the exchanges it
\* is in.
LEMMA SettledKept ==
  ASSUME NEW n \in Nodes, next'[n] = next[n],
         \A u \in Swappers : /\ Second(u, n)' <=> Second(u, n)
                             /\ Third(u, n)' <=> Third(u, n)
                             /\ Second(u, n) \/ Third(u, n) => loc'[u] = loc[u]
  PROVE  Settled(n)' = Settled(n)
<1> DEFINE second == {u \in Swappers : pc[u] = "relink2" /\ loc[u].cur = n}
           third == {u \in Swappers : pc[u] \in {"relink2", "relink3"} /\ loc[u].nxt = n}
           secondP == {u \in Swappers : pc'[u] = "relink2" /\ loc'[u].cur = n}
           thirdP == {u \in Swappers : pc'[u] \in {"relink2", "relink3"} /\ loc'[u].nxt = n}
           s == CHOOSE u \in second : TRUE
           d == CHOOSE u \in third : TRUE
<1>1. secondP = second /\ thirdP = third
  BY DEF Second, Third
<1>2. second # {} => s \in second
  OBVIOUS
<1>3. third # {} => d \in third
  OBVIOUS
<1>4. second # {} => loc'[s] = loc[s]
  BY <1>2 DEF Second
<1>5. third # {} => loc'[d] = loc[d]
  BY <1>3 DEF Third
<1>6. Settled(n) = IF second # {} THEN loc[s].next_next
               ELSE IF third # {} THEN loc[d].cur
               ELSE next[n]
  BY Zenon DEF Settled
<1>7. Settled(n)' = IF secondP # {} THEN loc'[CHOOSE u \in secondP : TRUE].next_next
               ELSE IF thirdP # {} THEN loc'[CHOOSE u \in thirdP : TRUE].cur
               ELSE next'[n]
  BY Zenon DEF Settled
<1>8. Settled(n)' = IF second # {} THEN loc'[s].next_next
               ELSE IF third # {} THEN loc'[d].cur
               ELSE next'[n]
  BY <1>1, <1>7
<1> HIDE DEF second, third, s, d
<1> QED
  BY <1>4, <1>5, <1>6, <1>8
-----------------------------------------------------------------------------
(* What a step leaves alone *)

\* Only t's program counter and locals change; locks of the others are not taken
\* from them.
OthersKept(t) ==
    /\ \A u \in Threads \ {t} : pc'[u] = pc[u] /\ loc'[u] = loc[u]
    /\ \A n \in Nodes : owner[n] \notin {t, None} => owner'[n] = owner[n]

\* What the other threads know stays true when t writes links it has locked only.
LEMMA OthersKnow ==
  ASSUME ListInv, NEW t \in Threads, OthersKept(t),
         \A n \in Nodes : owner[n] # t => next'[n] = next[n]
  PROVE  /\ \A u \in Counters \ {t} : AtCount(u)'
         /\ \A u \in Swappers \ {t} : AtSwap(u)'
<1>1. ASSUME NEW u \in Counters, u # t PROVE AtCount(u)'
  <2>1. AtCount(u) /\ pc'[u] = pc[u] /\ loc'[u] = loc[u] /\ u # None
    BY <1>1, NodeListAssumption DEF ListInv, OthersKept, Threads
  <2>2. \A n \in Nodes : owner[n] = u => owner'[n] = u /\ next'[n] = next[n]
    BY <1>1, <2>1 DEF OthersKept
  <2>3. next \in [Nodes -> NodeOrNull] /\ LastStays
    BY DEF ListInv, TypeOK
  <2> QED
    BY <2>1, <2>2, <2>3 DEF AtCount, LastStays, NodeOrNull
<1>2. ASSUME NEW u \in Swappers, u # t PROVE AtSwap(u)'
  <2>1. AtSwap(u) /\ pc'[u] = pc[u] /\ loc'[u] = loc[u] /\ u # None
    BY <1>2, NodeListAssumption DEF ListInv, OthersKept, Threads
  <2>2. \A n \in Nodes : owner[n] = u => owner'[n] = u /\ next'[n] = next[n]
    BY <1>2, <2>1 DEF OthersKept
  <2> QED
    BY <2>1, <2>2 DEF AtSwap
<1> QED
  BY <1>1, <1>2

\* A step of a thread that neither writes a link nor is between two writes keeps
\* the invariant, if the thread's own knowledge is right after it.
LEMMA QuietStep ==
  ASSUME ListInv, TypeOK', NEW t \in Threads, OthersKept(t), next' = next,
         pc[t] \notin {"relink2", "relink3"}, pc'[t] \notin {"relink2", "relink3"},
         t \in Counters => AtCount(t)',
         t \in Swappers => AtSwap(t)',
         \A pos \in [Nodes -> Nodes] : Order(pos) /\ t \in Swappers => FarFromEnd(t, pos)'
  PROVE  ListInv'
<1>1. (\A u \in Counters : AtCount(u)') /\ (\A u \in Swappers : AtSwap(u)')
  BY OthersKnow
<1>2. LastStays'
  BY DEF ListInv, LastStays
<1>3. PICK pos \in [Nodes -> Nodes] : Order(pos)
  BY DEF ListInv
<1>4. \A n \in Nodes : Settled(n)' = Settled(n)
  <2> SUFFICES ASSUME NEW n \in Nodes PROVE Settled(n)' = Settled(n)
    OBVIOUS
  <2>1. ASSUME NEW u \in Swappers
        PROVE  /\ Second(u, n)' <=> Second(u, n)
               /\ Third(u, n)' <=> Third(u, n)
               /\ Second(u, n) \/ Third(u, n) => loc'[u] = loc[u]
    BY DEF Second, Third, OthersKept, Threads
  <2> QED
    BY <2>1, SettledKept
<1>5. \A u \in Swappers : FarFromEnd(u, pos)'
  <2> SUFFICES ASSUME NEW u \in Swappers, u # t PROVE FarFromEnd(u, pos)'
    BY <1>3
  <2>1. FarFromEnd(u, pos) /\ pc'[u] = pc[u] /\ loc'[u] = loc[u]
    BY <1>3 DEF Order, OthersKept, Threads
  <2> QED
    BY <2>1 DEF FarFromEnd
<1>6. Order(pos)'
  <2>1. Size \in Nodes
    BY NodeListAssumption DEF Nodes
  <2> QED
    BY <1>3, <1>4, <1>5, <2>1 DEF Order, InPlace
<1>7. \E p \in [Nodes -> Nodes] : Order(p)'
  BY <1>6, Zenon
<1> QED
  BY <1>1, <1>2, <1>7, Zenon DEF ListInv

\* The list main builds is in order, and no thread knows anything yet.
LEMMA InitInv == Init => ListInv
<1> SUFFICES ASSUME Init PROVE ListInv
  OBVIOUS
<1> USE NodeListAssumption
<1>1. TypeOK
  <2>1. NoLocals \in Locals
    BY DEF NoLocals, Locals, NodeOrNull
  <2>2. next \in [Nodes -> NodeOrNull]
    BY DEF Init, NodeOrNull, Nodes, Null
  <2>3. "unborn" \in Labels
    BY DEF Labels
  <2> QED
    BY <2>1, <2>2, <2>3 DEF Init, TypeOK
<1>2. \A t \in Threads : pc[t] = "unborn"
  BY DEF Init
<1>3. (\A t \in Counters : AtCount(t)) /\ (\A t \in Swappers : AtSwap(t))
  BY <1>2 DEF AtCount, CountLabels, AtSwap, SwapLabels, Threads
<1>4. LastStays
  BY DEF Init, LastStays, Null, Nodes
<1>5. \A n \in Nodes : Settled(n) = IF n = Size THEN Null ELSE n + 1
  <2>1. \A n \in Nodes : Settled(n) = next[n]
    BY <1>2, SettledNext DEF Second, Third, Threads
  <2> QED
    BY <2>1 DEF Init
<1> DEFINE pos == [n \in Nodes |-> n]
<1>6. Order(pos)
  <2>1. \A t \in Swappers : FarFromEnd(t, pos)
    BY <1>2 DEF FarFromEnd, Threads
  <2> QED
    BY <1>5, <2>1 DEF Order, InPlace, Nodes, first
<1> QED
  BY <1>1, <1>3, <1>4, <1>6 DEF ListInv
-----------------------------------------------------------------------------
(* One step of each thread *)

\* The walk of a counting thread, hand over hand.
LEMMA CountStep ==
  ASSUME ListInv, NEW t \in Counters, count(t)
  PROVE  ListInv'
<1> DEFINE l == loc[t]
<1>1. /\ TypeOK /\ AtCount(t) /\ LastStays
      /\ t \in Threads /\ t \notin Swappers /\ t # None
      /\ Size \in Nodes /\ first \in Nodes /\ Null \notin Nodes
  BY NodeListAssumption DEF ListInv, Threads, Nodes, first, Null
<1>2. /\ pc \in [Threads -> Labels] /\ owner \in [Nodes -> Threads \cup {None}]
      /\ loc \in [Threads -> Locals] /\ next \in [Nodes -> NodeOrNull]
      /\ l \in Locals /\ NoLocals \in Locals
  BY <1>1 DEF TypeOK, NoLocals, Locals, NodeOrNull
<1> SUFFICES /\ TypeOK' /\ OthersKept(t) /\ next' = next /\ AtCount(t)'
             /\ {pc[t], pc'[t]} \cap {"relink2", "relink3"} = {}
  BY <1>1, QuietStep
<1>3. CASE CountOuter(t)
  <2> USE <1>3 DEF CountOuter, Goto, Acquire, Release
  <2>1. TypeOK' /\ next' = next
    BY <1>1, <1>2 DEF TypeOK, Labels, Locals, NodeOrNull, AtCount
  <2>2. OthersKept(t)
    BY <1>1, <1>2 DEF OthersKept, AtCount
  <2>3. AtCount(t)' /\ {pc[t], pc'[t]} \cap {"relink2", "relink3"} = {}
    BY <1>1, <1>2 DEF AtCount, CountLabels, LastStays, NodeOrNull, Locals
  <2> QED
    BY <2>1, <2>2, <2>3
<1>4. CASE CountInner(t)
  <2> USE <1>4 DEF CountInner, Goto, Acquire, Release
  <2>1. TypeOK' /\ next' = next
    BY <1>1, <1>2 DEF TypeOK, Labels
  <2>2. OthersKept(t)
    BY <1>1, <1>2 DEF OthersKept, AtCount
  <2>3. AtCount(t)' /\ {pc[t], pc'[t]} \cap {"relink2", "relink3"} = {}
    BY <1>1, <1>2 DEF AtCount, CountLabels, LastStays, NodeOrNull, Locals
  <2> QED
    BY <2>1, <2>2, <2>3
<1>5. CASE CountLock1(t)
  <2> USE <1>5 DEF CountLock1, Goto, Acquire, Release
  <2>1. TypeOK' /\ next' = next
    BY <1>1, <1>2 DEF TypeOK, Labels, Locals, NodeOrNull, AtCount
  <2>2. OthersKept(t)
    BY <1>1, <1>2 DEF OthersKept, AtCount
  <2>3. AtCount(t)' /\ {pc[t], pc'[t]} \cap {"relink2", "relink3"} = {}
    BY <1>1, <1>2 DEF AtCount, CountLabels, LastStays, NodeOrNull, Locals
  <2> QED
    BY <2>1, <2>2, <2>3
<1>6. CASE CountEval2(t)
  <2> USE <1>6 DEF CountEval2, Goto, Acquire, Release
  <2>1. TypeOK' /\ next' = next
    BY <1>1, <1>2 DEF TypeOK, Labels, Locals, NodeOrNull, AtCount
  <2>2. OthersKept(t)
    BY <1>1, <1>2 DEF OthersKept, AtCount
  <2>3. AtCount(t)' /\ {pc[t], pc'[t]} \cap {"relink2", "relink3"} = {}
    BY <1>1, <1>2 DEF AtCount, CountLabels, LastStays, NodeOrNull, Locals
  <2> QED
    BY <2>1, <2>2, <2>3
<1>7. CASE CountLock2(t)
  <2> USE <1>7 DEF CountLock2, Goto, Acquire, Release
  <2>1. TypeOK' /\ next' = next
    BY <1>1, <1>2 DEF TypeOK, Labels, Locals, NodeOrNull, AtCount
  <2>2. OthersKept(t)
    BY <1>1, <1>2 DEF OthersKept, AtCount
  <2>3. AtCount(t)' /\ {pc[t], pc'[t]} \cap {"relink2", "relink3"} = {}
    BY <1>1, <1>2 DEF AtCount, CountLabels, LastStays, NodeOrNull, Locals
  <2> QED
    BY <2>1, <2>2, <2>3
<1>8. CASE CountCompare(t)
  <2> USE <1>8 DEF CountCompare, Goto, Acquire, Release
  <2>1. TypeOK' /\ next' = next
    BY <1>1, <1>2 DEF TypeOK, Labels, Locals, NodeOrNull, AtCount
  <2>2. OthersKept(t)
    BY <1>1, <1>2 DEF OthersKept, AtCount
  <2>3. AtCount(t)' /\ {pc[t], pc'[t]} \cap {"relink2", "relink3"} = {}
    BY <1>1, <1>2 DEF AtCount, CountLabels, LastStays, NodeOrNull, Locals
  <2> QED
    BY <2>1, <2>2, <2>3
<1>9. CASE CountUnlock1(t)
  <2> USE <1>9 DEF CountUnlock1, Goto, Acquire, Release
  <2>1. TypeOK' /\ next' = next
    BY <1>1, <1>2 DEF TypeOK, Labels, Locals, NodeOrNull, AtCount
  <2>2. OthersKept(t)
    BY <1>1, <1>2 DEF OthersKept, AtCount
  <2>3. AtCount(t)' /\ {pc[t], pc'[t]} \cap {"relink2", "relink3"} = {}
    BY <1>1, <1>2 DEF AtCount, CountLabels, LastStays, NodeOrNull, Locals
  <2> QED
    BY <2>1, <2>2, <2>3
<1>10. CASE CountUnlock2(t)
  <2> USE <1>10 DEF CountUnlock2, Goto, Acquire, Release
  <2>1. TypeOK' /\ next' = next
    BY <1>1, <1>2 DEF TypeOK, Labels, Locals, NodeOrNull, AtCount
  <2>2. OthersKept(t)
    BY <1>1, <1>2 DEF OthersKept, AtCount
  <2>3. AtCount(t)' /\ {pc[t], pc'[t]} \cap {"relink2", "relink3"} = {}
    BY <1>1, <1>2 DEF AtCount, CountLabels, LastStays, NodeOrNull, Locals
  <2> QED
    BY <2>1, <2>2, <2>3
<1> QED
  BY <1>3, <1>4, <1>5, <1>6, <1>7, <1>8, <1>9, <1>10 DEF count

\* A swapping thread on its way, between its exchanges and when it unlocks.
SwapQuietly(t) ==
    \/ SwapOuter(t) \/ SwapLockFirst(t) \/ SwapWalk(t) \/ SwapWalkLock(t)
    \/ SwapWalkUnlock(t) \/ SwapCheck(t) \/ SwapLockCur(t)
    \/ SwapEvalNext(t) \/ SwapLockNext(t) \/ SwapUnlock(t)

\* The distance from the end that rand() % (size - 3) leaves makes the two nodes
\* exist, and the last node none of them.
LEMMA SwapQuietStep ==
  ASSUME ListInv, NEW t \in Swappers, SwapQuietly(t)
  PROVE  ListInv'
<1> DEFINE l == loc[t]
<1>1. /\ TypeOK /\ AtSwap(t) /\ LastStays
      /\ t \in Threads /\ t \notin Counters /\ t # None
      /\ Size \in Nodes /\ first \in Nodes /\ Null \notin Nodes
      /\ Size \in Nat /\ Size >= 4 /\ Nodes \subseteq Nat
  BY NodeListAssumption DEF ListInv, Threads, Nodes, first, Null
<1>2. /\ pc \in [Threads -> Labels] /\ owner \in [Nodes -> Threads \cup {None}]
      /\ loc \in [Threads -> Locals] /\ next \in [Nodes -> NodeOrNull]
      /\ l \in Locals /\ NoLocals \in Locals /\ l.left \in Nat
  BY <1>1 DEF TypeOK, NoLocals, Locals, NodeOrNull
<1>3. PICK place \in [Nodes -> Nodes] : Order(place)
  BY DEF ListInv
<1>4. ASSUME NEW pos \in [Nodes -> Nodes], Order(pos), NEW n \in Nodes \ {Size},
             owner[n] = None \/ (owner[n] = t /\ pc[t] \notin {"relink2", "relink3"})
      PROVE  next[n] \in Nodes /\ pos[next[n]] = pos[n] + 1
  <2>1. Settled(n) = next[n]
    BY <1>1, <1>4, SettledHeld, SwapExchanging DEF ListInv
  <2> QED
    BY <1>4, <2>1 DEF Order, InPlace
<1>5. ASSUME NEW pos \in [Nodes -> Nodes], Order(pos)
      PROVE  FarFromEnd(t, pos) /\ pos[first] = 1 /\ pos[Size] = Size
  BY <1>5 DEF Order, InPlace
<1> SUFFICES /\ TypeOK' /\ OthersKept(t) /\ next' = next /\ AtSwap(t)'
             /\ {pc[t], pc'[t]} \cap {"relink2", "relink3"} = {}
             /\ \A pos \in [Nodes -> Nodes] : Order(pos) => FarFromEnd(t, pos)'
  BY <1>1, QuietStep
<1>6. CASE SwapOuter(t)
  <2> USE <1>6 DEF SwapOuter, Goto, Acquire, Release, RandElem
  <2>1. TypeOK' /\ next' = next
    BY <1>1, <1>2 DEF TypeOK, Labels, Locals, NodeOrNull, AtSwap
  <2>2. OthersKept(t)
    BY <1>1, <1>2 DEF OthersKept, AtSwap
  <2>3. AtSwap(t)' /\ {pc[t], pc'[t]} \cap {"relink2", "relink3"} = {}
    BY <1>1, <1>2 DEF AtSwap, SwapLabels, LastStays, NodeOrNull, Locals
  <2>4. ASSUME NEW pos \in [Nodes -> Nodes], Order(pos) PROVE FarFromEnd(t, pos)'
    BY <1>1, <1>2, <1>5, <2>4 DEF FarFromEnd, AtSwap, Locals
  <2> QED
    BY <2>1, <2>2, <2>3, <2>4
<1>7. CASE SwapLockFirst(t)
  <2> USE <1>7 DEF SwapLockFirst, Goto, Acquire, Release
  <2>1. TypeOK' /\ next' = next
    BY <1>1, <1>2 DEF TypeOK, Labels, Locals, NodeOrNull, AtSwap
  <2>2. OthersKept(t)
    BY <1>1, <1>2 DEF OthersKept, AtSwap
  <2>3. AtSwap(t)' /\ {pc[t], pc'[t]} \cap {"relink2", "relink3"} = {}
    BY <1>1, <1>2 DEF AtSwap, SwapLabels, LastStays, NodeOrNull, Locals
  <2>4. ASSUME NEW pos \in [Nodes -> Nodes], Order(pos) PROVE FarFromEnd(t, pos)'
    BY <1>1, <1>2, <1>5, <2>4 DEF FarFromEnd, AtSwap, Locals
  <2> QED
    BY <2>1, <2>2, <2>3, <2>4
<1>8. CASE SwapWalk(t)
  <2> USE <1>8 DEF SwapWalk, Goto, Acquire, Release
  <2>1. TypeOK' /\ next' = next
    BY <1>1, <1>2 DEF TypeOK, Labels, Locals, NodeOrNull, AtSwap
  <2>2. OthersKept(t)
    BY <1>1, <1>2 DEF OthersKept, AtSwap
  <2>3. AtSwap(t)' /\ {pc[t], pc'[t]} \cap {"relink2", "relink3"} = {}
    BY <1>1, <1>2 DEF AtSwap, SwapLabels, LastStays, NodeOrNull, Locals
  <2>4. ASSUME NEW pos \in [Nodes -> Nodes], Order(pos) PROVE FarFromEnd(t, pos)'
    BY <1>1, <1>2, <1>5, <2>4 DEF FarFromEnd, AtSwap, Locals
  <2> QED
    BY <2>1, <2>2, <2>3, <2>4
<1>9. CASE SwapWalkLock(t)
  <2> USE <1>9 DEF SwapWalkLock, Goto, Acquire, Release
  <2>1. TypeOK' /\ next' = next
    BY <1>1, <1>2 DEF TypeOK, Labels, Locals, NodeOrNull, AtSwap
  <2>2. OthersKept(t)
    BY <1>1, <1>2 DEF OthersKept, AtSwap
  <2>3. AtSwap(t)' /\ {pc[t], pc'[t]} \cap {"relink2", "relink3"} = {}
    BY <1>1, <1>2 DEF AtSwap, SwapLabels, LastStays, NodeOrNull, Locals
  <2>4. ASSUME NEW pos \in [Nodes -> Nodes], Order(pos) PROVE FarFromEnd(t, pos)'
    BY <1>1, <1>2, <1>5, <2>4 DEF FarFromEnd, AtSwap, Locals
  <2> QED
    BY <2>1, <2>2, <2>3, <2>4
<1>10. CASE SwapWalkUnlock(t)
  <2> USE <1>10 DEF SwapWalkUnlock, Goto, Acquire, Release
  <2>1. TypeOK' /\ next' = next
    <3>1. pc[t] = "walk_unlock" /\ l.prev \in Nodes /\ next[l.prev] \in NodeOrNull /\ l.left > 0
      BY <1>1, <1>2 DEF AtSwap, SwapLabels
    <3>2. l.left - 1 \in Nat /\ Null \in NodeOrNull
      BY <1>2, <3>1 DEF NodeOrNull
    <3>3. [l EXCEPT !.prev = next[l.prev], !.left = l.left - 1, !.tgt = Null] \in Locals
      BY <1>2, <3>1, <3>2 DEF Locals
    <3> QED
      BY <1>1, <1>2, <3>3 DEF TypeOK, Labels
  <2>2. OthersKept(t)
    BY <1>1, <1>2 DEF OthersKept, AtSwap
  <2>3. AtSwap(t)' /\ {pc[t], pc'[t]} \cap {"relink2", "relink3"} = {}
    BY <1>1, <1>2 DEF AtSwap, SwapLabels, LastStays, NodeOrNull, Locals
  <2>4. ASSUME NEW pos \in [Nodes -> Nodes], Order(pos) PROVE FarFromEnd(t, pos)'
    <3>1. /\ pc[t] = "walk_unlock" /\ l.prev \in Nodes /\ owner[l.prev] = t
          /\ next[l.prev] \in Nodes
      BY <1>1, <1>2 DEF AtSwap, SwapLabels
    <3>2. l.prev # Size /\ l.left \in Nat
      BY <1>1, <1>2, <3>1 DEF LastStays
    <3>3. pos[next[l.prev]] = pos[l.prev] + 1
      BY <1>4, <2>4, <3>1, <3>2
    <3>4. pos[l.prev] + l.left <= Size - 3
      BY <1>5, <2>4, <3>1 DEF FarFromEnd
    <3>5. pos[next[l.prev]] + (l.left - 1) <= Size - 3
      BY <1>1, <3>1, <3>2, <3>3, <3>4
    <3>6. loc'[t].prev = next[l.prev] /\ loc'[t].left = l.left - 1 /\ pc'[t] = "walk"
      BY <1>1, <1>2 DEF Locals
    <3> QED
      BY <3>5, <3>6 DEF FarFromEnd
  <2> QED
    BY <2>1, <2>2, <2>3, <2>4
<1>11. CASE SwapCheck(t)
  <2> USE <1>11 DEF SwapCheck, Goto, Acquire, Release, Enough
  <2>1. TypeOK' /\ next' = next
    BY <1>1, <1>2 DEF TypeOK, Labels, Locals, NodeOrNull, AtSwap
  <2>2. OthersKept(t)
    BY <1>1, <1>2 DEF OthersKept, AtSwap
  <2>3. AtSwap(t)' /\ {pc[t], pc'[t]} \cap {"relink2", "relink3"} = {}
    BY <1>1, <1>2 DEF AtSwap, SwapLabels, LastStays, NodeOrNull, Locals
  <2>4. ASSUME NEW pos \in [Nodes -> Nodes], Order(pos) PROVE FarFromEnd(t, pos)'
    BY <1>1, <1>2, <1>5, <2>4 DEF FarFromEnd, AtSwap, Locals
  <2> QED
    BY <2>1, <2>2, <2>3, <2>4
<1>12. CASE SwapLockCur(t)
  <2> USE <1>12 DEF SwapLockCur, Goto, Acquire, Release
  <2>1. TypeOK' /\ next' = next
    BY <1>1, <1>2 DEF TypeOK, Labels, Locals, NodeOrNull, AtSwap
  <2>2. OthersKept(t)
    BY <1>1, <1>2 DEF OthersKept, AtSwap
  <2>3. AtSwap(t)' /\ {pc[t], pc'[t]} \cap {"relink2", "relink3"} = {}
    BY <1>1, <1>2 DEF AtSwap, SwapLabels, LastStays, NodeOrNull, Locals
  <2>4. ASSUME NEW pos \in [Nodes -> Nodes], Order(pos) PROVE FarFromEnd(t, pos)'
    BY <1>1, <1>2, <1>5, <2>4 DEF FarFromEnd, AtSwap, Locals
  <2> QED
    BY <2>1, <2>2, <2>3, <2>4
<1>13. CASE SwapEvalNext(t)
  <2> USE <1>13 DEF SwapEvalNext, Goto, Acquire, Release
  <2>1. TypeOK' /\ next' = next
    BY <1>1, <1>2 DEF TypeOK, Labels, Locals, NodeOrNull, AtSwap
  <2>2. OthersKept(t)
    BY <1>1, <1>2 DEF OthersKept, AtSwap
  <2>3. AtSwap(t)' /\ {pc[t], pc'[t]} \cap {"relink2", "relink3"} = {}
    <3>1. /\ pc[t] = "eval_next" /\ l.prev \in Nodes /\ owner[l.prev] = t
          /\ l.cur = next[l.prev] /\ l.cur \in Nodes
      BY <1>1, <1>2 DEF AtSwap, SwapLabels
    <3>2. l.prev # Size /\ place[l.prev] <= Size - 3
      BY <1>1, <1>3, <1>5, <3>1 DEF FarFromEnd
    <3>3. place[l.cur] = place[l.prev] + 1
      BY <1>3, <1>4, <3>1, <3>2
    <3>4. l.cur # Size
      BY <1>1, <1>3, <1>5, <3>1, <3>2, <3>3
    <3>5. next[l.cur] \in Nodes
      BY <1>1, <1>2, <3>1, <3>4 DEF LastStays, NodeOrNull
    <3> QED
      BY <1>1, <1>2, <3>5 DEF AtSwap, SwapLabels, Locals
  <2>4. ASSUME NEW pos \in [Nodes -> Nodes], Order(pos) PROVE FarFromEnd(t, pos)'
    BY <1>1, <1>2, <1>5, <2>4 DEF FarFromEnd, AtSwap, Locals
  <2> QED
    BY <2>1, <2>2, <2>3, <2>4
<1>14. CASE SwapLockNext(t)
  <2> USE <1>14 DEF SwapLockNext, Goto, Acquire, Release
  <2>1. TypeOK' /\ next' = next
    BY <1>1, <1>2 DEF TypeOK, Labels, Locals, NodeOrNull, AtSwap
  <2>2. OthersKept(t)
    BY <1>1, <1>2 DEF OthersKept, AtSwap
  <2>3. AtSwap(t)' /\ {pc[t], pc'[t]} \cap {"relink2", "relink3"} = {}
    <3>1. /\ pc[t] = "lock_next" /\ l.prev \in Nodes /\ owner[l.prev] = t
          /\ l.cur = next[l.prev] /\ l.cur \in Nodes /\ owner[l.cur] = t
          /\ l.tgt = next[l.cur] /\ l.tgt \in Nodes /\ owner[l.tgt] = None
      BY <1>1, <1>2 DEF AtSwap, SwapLabels
    <3>2. l.prev # Size /\ l.cur # Size /\ place[l.prev] <= Size - 3
      BY <1>1, <1>3, <1>5, <3>1 DEF FarFromEnd, LastStays
    <3>3. place[l.cur] = place[l.prev] + 1 /\ place[l.tgt] = place[l.cur] + 1
      BY <1>3, <1>4, <3>1, <3>2
    <3>4. place[Size] = Size /\ place[l.prev] \in Nat
      BY <1>1, <1>3, <1>5, <3>1
    <3>5. l.tgt # Size /\ l.prev # l.cur /\ l.prev # l.tgt /\ l.cur # l.tgt
      BY <1>1, <3>2, <3>3, <3>4
    <3>6. next[l.tgt] \in Nodes
      BY <1>1, <1>2, <3>1, <3>5 DEF LastStays, NodeOrNull
    <3>7. /\ loc'[t] = [l EXCEPT !.nxt = l.tgt, !.next_next = next[l.tgt]]
          /\ pc'[t] = "relink1" /\ owner' = [owner EXCEPT ![l.tgt] = t] /\ next' = next
      BY <1>1, <1>2, <3>1
    <3> HIDE <1>14
    <3>8. /\ loc'[t].prev = l.prev /\ loc'[t].cur = l.cur /\ loc'[t].nxt = l.tgt
          /\ loc'[t].next_next = next[l.tgt]
      BY <1>2, <3>7 DEF Locals
    <3>9. owner'[l.prev] = t /\ owner'[l.cur] = t /\ owner'[l.tgt] = t
      BY <1>2, <3>1, <3>7
    <3> QED
      BY <3>1, <3>2, <3>5, <3>6, <3>7, <3>8, <3>9 DEF AtSwap, SwapLabels
  <2>4. ASSUME NEW pos \in [Nodes -> Nodes], Order(pos) PROVE FarFromEnd(t, pos)'
    BY <1>1, <1>2, <1>5, <2>4 DEF FarFromEnd, AtSwap, Locals
  <2> QED
    BY <2>1, <2>2, <2>3, <2>4
<1>15. CASE SwapUnlock(t)
  <2> USE <1>15 DEF SwapUnlock, Goto, Acquire, Release
  <2>1. TypeOK' /\ next' = next
    BY <1>1, <1>2 DEF TypeOK, Labels, Locals, NodeOrNull, AtSwap
  <2>2. OthersKept(t)
    BY <1>1, <1>2 DEF OthersKept, AtSwap
  <2>3. AtSwap(t)' /\ {pc[t], pc'[t]} \cap {"relink2", "relink3"} = {}
    <3>1. CASE pc[t] = "unlock_prev"
      <4>1. /\ l.prev \in Nodes /\ l.cur \in Nodes /\ l.nxt \in Nodes
            /\ owner[l.cur] = t /\ owner[l.nxt] = t
            /\ l.prev # l.cur /\ l.prev # l.nxt /\ l.cur # l.nxt
        BY <1>1, <3>1 DEF AtSwap, SwapLabels
      <4>2. /\ pc'[t] = "unlock_cur" /\ loc'[t] = l
            /\ owner'[l.cur] = t /\ owner'[l.nxt] = t
        BY <1>1, <1>2, <3>1, <4>1
      <4> HIDE <1>15
      <4> QED
        BY <3>1, <4>1, <4>2 DEF AtSwap, SwapLabels
    <3>2. CASE pc[t] = "unlock_cur"
      <4>1. l.cur \in Nodes /\ l.nxt \in Nodes /\ owner[l.nxt] = t /\ l.cur # l.nxt
        BY <1>1, <3>2 DEF AtSwap, SwapLabels
      <4>2. pc'[t] = "unlock_next" /\ loc'[t] = l /\ owner'[l.nxt] = t
        BY <1>1, <1>2, <3>2, <4>1
      <4> HIDE <1>15
      <4> QED
        BY <3>2, <4>1, <4>2 DEF AtSwap, SwapLabels
    <3>3. CASE pc[t] = "unlock_next"
      BY <1>1, <1>2, <3>3 DEF AtSwap, SwapLabels
    <3> QED
      BY <3>1, <3>2, <3>3
  <2>4. ASSUME NEW pos \in [Nodes -> Nodes], Order(pos) PROVE FarFromEnd(t, pos)'
    BY <1>1, <1>2, <1>5, <2>4 DEF FarFromEnd, AtSwap, Locals
  <2> QED
    BY <2>1, <2>2, <2>3, <2>4
<1> QED
  BY <1>6, <1>7, <1>8, <1>9, <1>10, <1>11, <1>12, <1>13, <1>14, <1>15
     DEF SwapQuietly

-----------------------------------------------------------------------------
(* The exchange.  These lemmas speak of the three links and their owner only, *)
(* so that they hold of any program whose swappers own what they write.       *)

\* The step of an exchange: one of its three links is written.
ExchangeStep(t) == SwapRelink1(t) \/ SwapRelink2(t) \/ SwapRelink3(t)

\* What holds before and after each of the three assignments of an exchange.
LEMMA Relinking ==
  ASSUME next \in [Nodes -> NodeOrNull], NEW S, pc \in [Threads -> S],
         \A u \in Swappers : Exchanging(u), NEW t \in Swappers, ExchangeStep(t),
         NEW p, NEW c, NEW n, p = loc[t].prev, c = loc[t].cur, n = loc[t].nxt
  PROVE  /\ p \in Nodes \ {Size} /\ c \in Nodes \ {Size} /\ n \in Nodes \ {Size}
         /\ p # c /\ p # n /\ c # n /\ loc[t].next_next \in Nodes
         /\ owner[p] = t /\ owner[c] = t /\ owner[n] = t
         /\ loc' = loc /\ owner' = owner
         /\ next' \in [Nodes -> NodeOrNull]
         /\ \A m \in Nodes : owner[m] # t => next'[m] = next[m]
         /\ LastStays => LastStays'
         /\ \A u \in Swappers : Exchanging(u)'
         /\ \A m \in Nodes \ {p, c, n} : Settled(m)' = Settled(m)
         /\ Settled(p) = next[p]
         /\ Settled(p)' = next'[p]
<1> DEFINE e == loc[t].next_next
<1>1. /\ t \in Threads
      /\ pc[t] \in {"relink1", "relink2", "relink3"}
      /\ pc' \in {[pc EXCEPT ![t] = "relink2"], [pc EXCEPT ![t] = "relink3"],
                  [pc EXCEPT ![t] = "unlock_prev"]}
  BY DEF Threads, ExchangeStep, SwapRelink1, SwapRelink2, SwapRelink3, Goto
<1>2. /\ p \in Nodes \ {Size} /\ c \in Nodes \ {Size} /\ n \in Nodes \ {Size}
      /\ p # c /\ p # n /\ c # n /\ e \in Nodes
      /\ owner[p] = t /\ owner[c] = t /\ owner[n] = t
  BY <1>1 DEF Exchanging
<1>3. /\ loc' = loc /\ owner' = owner
      /\ next' \in {[next EXCEPT ![p] = n], [next EXCEPT ![c] = e],
                    [next EXCEPT ![n] = c]}
  BY DEF ExchangeStep, SwapRelink1, SwapRelink2, SwapRelink3
<1>4. next' \in [Nodes -> NodeOrNull]
  BY <1>2, <1>3 DEF NodeOrNull
<1>5. \A m \in Nodes : owner[m] # t => next'[m] = next[m]
  BY <1>2, <1>3
<1>6. pc'[t] \in {"relink2", "relink3", "unlock_prev"} /\ \A u \in Threads \ {t} : pc'[u] = pc[u]
  BY <1>1
<1>7. LastStays => LastStays'
  <2>1. Null \notin Nodes
    BY NodeListAssumption DEF Null, Nodes
  <2> QED
    BY <1>2, <1>3, <2>1 DEF LastStays
<1>8. Exchanging(t)'
  BY <1>2, <1>3, <1>6 DEF Exchanging
<1>9. ASSUME NEW u \in Swappers, u # t PROVE Exchanging(u)'
  <2>1. /\ pc'[u] = pc[u] /\ Exchanging(u)
        /\ \A m \in Nodes : owner[m] = u => next'[m] = next[m]
    BY <1>5, <1>6, <1>9 DEF Threads
  <2> QED
    BY <1>3, <2>1 DEF Exchanging
<1>10. ASSUME NEW m \in Nodes \ {p, c, n} PROVE Settled(m)' = Settled(m)
  <2>1. next'[m] = next[m]
    BY <1>2, <1>3
  <2>2. ASSUME NEW u \in Swappers
        PROVE  /\ Second(u, m)' <=> Second(u, m)
               /\ Third(u, m)' <=> Third(u, m)
               /\ Second(u, m) \/ Third(u, m) => loc'[u] = loc[u]
    BY <1>3, <1>6 DEF Second, Third, Threads
  <2> QED
    BY <2>1, <2>2, SettledKept
<1>11. Settled(p) = next[p]
  BY <1>1, <1>2, SettledHeld
<1>12. Settled(p)' = next'[p]
  <2>1. ASSUME NEW u \in Swappers PROVE ~Second(u, p)' /\ ~Third(u, p)'
    BY <1>2, <1>3, <1>8, <1>9 DEF Second, Third, Exchanging
  <2> QED
    BY <1>2, <1>3, <2>1 DEF Settled, Second, Third
<1> QED
  BY <1>2, <1>3, <1>4, <1>5, <1>7, <1>8, <1>9, <1>10, <1>11, <1>12

\* The second and third assignments change nothing in the settled list.
LEMMA RelinkSettled ==
  ASSUME next \in [Nodes -> NodeOrNull], NEW S, pc \in [Threads -> S],
         \A u \in Swappers : Exchanging(u), NEW t \in Swappers,
         SwapRelink2(t) \/ SwapRelink3(t), NEW m \in Nodes
  PROVE  Settled(m)' = Settled(m)
<1>0. PICK p, c, n : p = loc[t].prev /\ c = loc[t].cur /\ n = loc[t].nxt
  OBVIOUS
<1>1. /\ p \in Nodes \ {Size} /\ c \in Nodes \ {Size} /\ n \in Nodes \ {Size}
      /\ p # c /\ p # n /\ c # n
      /\ owner[p] = t /\ owner[c] = t /\ owner[n] = t
      /\ loc' = loc /\ owner' = owner
      /\ \A u \in Swappers : Exchanging(u)'
  BY <1>0, Relinking DEF ExchangeStep
<1>2. /\ \A k \in Nodes \ {p, c, n} : Settled(k)' = Settled(k)
      /\ Settled(p) = next[p] /\ Settled(p)' = next'[p]
  BY <1>0, Relinking DEF ExchangeStep
<1>3. t \in Threads
  BY DEF Threads
<1>4. Settled(p)' = Settled(p)
  BY <1>0, <1>1, <1>2 DEF SwapRelink2, SwapRelink3
<1>5. ASSUME NEW k \in Nodes, owner[k] = t, ~Second(t, k)', ~Third(t, k)'
      PROVE  Settled(k)' = next'[k]
  <2>1. ASSUME NEW u \in Swappers PROVE ~Second(u, k)' /\ ~Third(u, k)'
    BY <1>1, <1>5 DEF Second, Third, Exchanging
  <2> QED
    BY <2>1 DEF Settled, Second, Third
<1>6. Settled(c)' = Settled(c) /\ Settled(n)' = Settled(n)
  <2>1. CASE SwapRelink2(t)
    <3>1. /\ pc[t] = "relink2" /\ pc'[t] = "relink3"
          /\ next'[c] = loc[t].next_next /\ next'[n] = next[n]
      BY <1>0, <1>1, <1>3, <2>1 DEF SwapRelink2, Goto
    <3>2. Settled(c) = loc[t].next_next /\ Settled(n) = c
      BY <1>0, <3>1, SettledWriting DEF WritesSettled
    <3>3. Settled(loc[t].nxt)' = loc[t].cur'
      BY <1>1, <3>1, SettledWritingAfter DEF WritesSettled
    <3>4. Settled(n)' = c
      BY <1>0, <1>1, <3>3
    <3>5. Settled(c)' = next'[c]
      BY <1>0, <1>1, <1>5, <3>1 DEF Second, Third
    <3> QED
      BY <3>1, <3>2, <3>4, <3>5
  <2>2. CASE SwapRelink3(t)
    <3>1. /\ pc[t] = "relink3" /\ pc'[t] = "unlock_prev"
          /\ next'[c] = next[c] /\ next'[n] = c
      BY <1>0, <1>1, <1>3, <2>2 DEF SwapRelink3, Goto
    <3>2. Settled(n) = c
      BY <1>0, <3>1, SettledWriting DEF WritesSettled
    <3>3. Settled(c) = next[c]
      <4>1. ASSUME NEW u \in Swappers PROVE ~Second(u, c) /\ ~Third(u, c)
        BY <1>0, <1>1, <3>1 DEF Second, Third, Exchanging
      <4> QED
        BY <1>1, <4>1, SettledNext
    <3>4. Settled(c)' = next'[c] /\ Settled(n)' = next'[n]
      BY <1>0, <1>1, <1>5, <3>1 DEF Second, Third
    <3> QED
      BY <3>1, <3>2, <3>3, <3>4
  <2> QED
    BY <2>1, <2>2
<1> QED
  BY <1>2, <1>4, <1>6

\* The first assignment exchanges the places of the two nodes.
LEMMA RelinkExchanges ==
  ASSUME next \in [Nodes -> NodeOrNull], NEW S, pc \in [Threads -> S],
         \A u \in Swappers : Exchanging(u), NEW t \in Swappers, SwapRelink1(t),
         NEW pos \in [Nodes -> Nodes], InPlace(pos)
  PROVE  \E new \in [Nodes -> Nodes] :
            InPlace(new)' /\ \A m \in Nodes : owner[m] # t => new[m] = pos[m]
<1>0. PICK p, c, n, e :
        p = loc[t].prev /\ c = loc[t].cur /\ n = loc[t].nxt /\ e = loc[t].next_next
  OBVIOUS
<1>1. /\ p \in Nodes \ {Size} /\ c \in Nodes \ {Size} /\ n \in Nodes \ {Size}
      /\ p # c /\ p # n /\ c # n /\ e \in Nodes
      /\ owner[p] = t /\ owner[c] = t /\ owner[n] = t
      /\ loc' = loc /\ owner' = owner
      /\ \A u \in Swappers : Exchanging(u)'
  BY <1>0, Relinking DEF ExchangeStep
<1>2. /\ \A m \in Nodes \ {p, c, n} : Settled(m)' = Settled(m)
      /\ Settled(p)' = next'[p]
  <2>1. ExchangeStep(t)
    BY DEF ExchangeStep
  <2> QED
    BY <1>0, <2>1, Relinking
<1>3. Size \in Nodes /\ Nodes \subseteq Nat \ {0} /\ first \in Nodes /\ t \in Threads
  BY NodeListAssumption DEF Nodes, first, Threads
<1>4. pc[t] = "relink1" /\ pc'[t] = "relink2" /\ next'[p] = n
  BY <1>0, <1>1, <1>3 DEF SwapRelink1, Goto
<1>5. Settled(p) = c /\ Settled(c) = n /\ Settled(n) = e
  <2>1. next[p] = c /\ next[c] = n /\ next[n] = e
    BY <1>0, <1>4 DEF Exchanging
  <2>2. \A m \in {p, c, n} : Settled(m) = next[m]
    BY <1>1, <1>3, <1>4, SettledHeld
  <2> QED
    BY <2>1, <2>2
<1>6. Settled(p)' = n /\ Settled(c)' = e /\ Settled(n)' = c
  <2>1. Settled(loc[t].cur)' = loc[t].next_next' /\ Settled(loc[t].nxt)' = loc[t].cur'
    BY <1>1, <1>4, SettledWritingAfter DEF WritesSettled
  <2> QED
    BY <1>0, <1>1, <1>2, <1>4, <2>1
<1>7. /\ pos[c] = pos[p] + 1 /\ pos[n] = pos[p] + 2 /\ pos[e] = pos[p] + 3
      /\ pos[first] = 1 /\ pos[Size] = Size
      /\ \A m \in Nodes : pos[m] \in Nodes /\ pos[m] \in Nat \ {0}
      /\ \A k, m \in Nodes : pos[k] = pos[m] => k = m
      /\ \A m \in Nodes \ {Size} : Settled(m) \in Nodes /\ pos[Settled(m)] = pos[m] + 1
      /\ Settled(Size) = Null
  <2>1. /\ pos[first] = 1 /\ pos[Size] = Size
        /\ \A m \in Nodes : pos[m] \in Nodes /\ pos[m] \in Nat \ {0}
    BY <1>3 DEF InPlace
  <2>2. \A m \in Nodes \ {Size} : Settled(m) \in Nodes /\ pos[Settled(m)] = pos[m] + 1
    BY DEF InPlace
  <2>3. pos[c] = pos[p] + 1 /\ pos[n] = pos[c] + 1 /\ pos[e] = pos[n] + 1
    BY <1>1, <1>5, <2>2
  <2>4. pos[p] \in Nat
    BY <1>1, <2>1
  <2>5. pos[n] = pos[p] + 2 /\ pos[e] = pos[p] + 3
    BY <2>3, <2>4
  <2> QED
    BY <2>1, <2>2, <2>3, <2>5 DEF InPlace
<1>8. PICK new \in [Nodes -> Nodes] :
         new = [m \in Nodes |-> IF m = c THEN pos[n] ELSE IF m = n THEN pos[c] ELSE pos[m]]
  BY <1>1, <1>7
<1>9. /\ new[c] = pos[n] /\ new[n] = pos[c]
      /\ \A m \in Nodes \ {c, n} : new[m] = pos[m]
  BY <1>1, <1>8
<1>10. ASSUME NEW k \in Nodes, NEW m \in Nodes, new[k] = new[m] PROVE k = m
  <2>1. \A a, b \in Nodes : pos[a] = pos[b] => a = b
    BY <1>7
  <2>2. CASE k \in {c, n} \/ m \in {c, n}
    BY <1>1, <1>9, <1>10, <2>1, <2>2
  <2>3. CASE k \notin {c, n} /\ m \notin {c, n}
    BY <1>9, <1>10, <2>1, <2>3
  <2> QED
    BY <2>2, <2>3
<1>11. new[first] = 1 /\ new[Size] = Size
  <2>1. pos[p] \in Nat \ {0} /\ pos[c] = pos[p] + 1 /\ pos[n] = pos[p] + 2 /\ pos[first] = 1
    BY <1>1, <1>7
  <2>2. first # c /\ first # n
    BY <2>1
  <2> QED
    BY <1>1, <1>3, <1>7, <1>9, <2>2
<1>12. ASSUME NEW m \in Nodes \ {Size}
       PROVE  Settled(m)' \in Nodes /\ new[Settled(m)'] = new[m] + 1
  <2>1. new[p] = pos[p] /\ new[e] = pos[e] /\ pos[p] \in Nat
    <3>1. e # c /\ e # n
      BY <1>1, <1>7
    <3> QED
      BY <1>1, <1>7, <1>9, <3>1
  <2>2. CASE m \in {p, c, n}
    BY <1>1, <1>6, <1>7, <1>9, <2>1, <2>2
  <2>3. CASE m \notin {p, c, n}
    <3>1. Settled(m)' = Settled(m) /\ Settled(m) \in Nodes /\ pos[Settled(m)] = pos[m] + 1
      BY <1>2, <1>7, <2>3
    <3>2. pos[m] \in Nat /\ pos[p] \in Nat /\ pos[m] # pos[p] /\ pos[m] # pos[c]
      BY <1>1, <1>7, <2>3
    <3>3. pos[c] = pos[p] + 1 /\ pos[n] = pos[c] + 1 /\ pos[c] \in Nat
      BY <1>1, <1>7, <3>2
    <3>4. Settled(m) # c /\ Settled(m) # n
      BY <3>1, <3>2, <3>3
    <3> QED
      BY <1>9, <2>3, <3>1, <3>4
  <2> QED
    BY <2>2, <2>3
<1>13. Settled(Size)' = Null
  BY <1>1, <1>2, <1>3, <1>7
<1>14. InPlace(new)'
  BY <1>10, <1>11, <1>12, <1>13 DEF InPlace
<1>15. \A m \in Nodes : owner[m] # t => new[m] = pos[m]
  BY <1>1, <1>9
<1> QED
  BY <1>14, <1>15, Zenon

\* A step of an exchange leaves the nodes in a list, and moves none of those that
\* its thread does not own.
LEMMA ExchangeKeepsPlaces ==
  ASSUME next \in [Nodes -> NodeOrNull], NEW S, pc \in [Threads -> S],
         \A u \in Swappers : Exchanging(u), NEW t \in Swappers, ExchangeStep(t),
         NEW pos \in [Nodes -> Nodes], InPlace(pos)
  PROVE  \E new \in [Nodes -> Nodes] :
            InPlace(new)' /\ \A m \in Nodes : owner[m] # t => new[m] = pos[m]
<1>1. CASE SwapRelink1(t)
  BY <1>1, RelinkExchanges
<1>2. CASE SwapRelink2(t) \/ SwapRelink3(t)
  <2>1. \A m \in Nodes : Settled(m)' = Settled(m)
    BY <1>2, RelinkSettled
  <2>2. Size \in Nodes
    BY NodeListAssumption DEF Nodes
  <2>3. InPlace(pos)'
    BY <2>1, <2>2 DEF InPlace
  <2> QED
    BY <2>3, Zenon
<1> QED
  BY <1>1, <1>2 DEF ExchangeStep

\* The exchange of this list.
LEMMA RelinkStep ==
  ASSUME ListInv, NEW t \in Swappers, ExchangeStep(t)
  PROVE  ListInv'
<1>1. /\ TypeOK /\ AtSwap(t) /\ LastStays /\ t \in Threads /\ t \notin Counters
      /\ \A u \in Swappers : Exchanging(u)
  BY SwapExchanging, NodeListAssumption DEF ListInv, Threads
<1>2. next \in [Nodes -> NodeOrNull] /\ pc \in [Threads -> Labels]
  BY <1>1 DEF TypeOK
<1>3. PICK p, c, n : p = loc[t].prev /\ c = loc[t].cur /\ n = loc[t].nxt
  OBVIOUS
<1>4. /\ p \in Nodes /\ c \in Nodes \ {Size} /\ n \in Nodes /\ p # c /\ p # n /\ c # n
      /\ owner[p] = t /\ owner[c] = t /\ owner[n] = t
      /\ Size \notin {p, c, n} /\ loc[t].next_next \in Nodes
      /\ loc' = loc /\ owner' = owner /\ next' \in [Nodes -> NodeOrNull]
      /\ \A m \in Nodes : owner[m] # t => next'[m] = next[m]
      /\ LastStays'
  BY <1>1, <1>2, <1>3, Relinking
<1>5. /\ pc' \in {[pc EXCEPT ![t] = "relink2"], [pc EXCEPT ![t] = "relink3"],
                  [pc EXCEPT ![t] = "unlock_prev"]}
      /\ stop' = stop /\ main' = main
  BY DEF ExchangeStep, SwapRelink1, SwapRelink2, SwapRelink3, Goto
<1>6. /\ pc'[t] \in {"relink2", "relink3", "unlock_prev"} /\ pc' \in [Threads -> Labels]
      /\ \A u \in Threads \ {t} : pc'[u] = pc[u]
  BY <1>1, <1>2, <1>5 DEF Labels
<1>7. TypeOK' /\ OthersKept(t)
  BY <1>1, <1>4, <1>5, <1>6 DEF TypeOK, OthersKept
<1>8. (\A u \in Counters : AtCount(u)') /\ (\A u \in Swappers : AtSwap(u)')
  <2>1. AtSwap(t)'
    BY <1>3, <1>4, <1>6 DEF AtSwap, SwapLabels
  <2>2. (\A u \in Counters \ {t} : AtCount(u)') /\ (\A u \in Swappers \ {t} : AtSwap(u)')
    BY <1>1, <1>4, <1>7, OthersKnow
  <2> QED
    BY <1>1, <2>1, <2>2
<1>9. PICK pos \in [Nodes -> Nodes] : Order(pos)
  BY DEF ListInv
<1>10. PICK new \in [Nodes -> Nodes] :
          InPlace(new)' /\ \A m \in Nodes : owner[m] # t => new[m] = pos[m]
  BY <1>1, <1>2, <1>9, ExchangeKeepsPlaces DEF Order
<1>11. ASSUME NEW u \in Swappers PROVE FarFromEnd(u, new)'
  <2>1. CASE u = t
    BY <1>6, <2>1 DEF FarFromEnd
  <2>2. CASE u # t
    <3>1. FarFromEnd(u, pos) /\ AtSwap(u) /\ pc'[u] = pc[u] /\ loc'[u] = loc[u]
      BY <1>4, <1>6, <1>9, <2>2 DEF Order, ListInv, Threads
    <3>2. ASSUME pc[u] \in {"walk", "walk_lock", "walk_unlock", "check", "lock_cur",
                            "eval_next", "lock_next", "relink1"}
          PROVE  new[loc[u].prev] = pos[loc[u].prev]
      <4>1. loc[u].prev \in Nodes /\ owner[loc[u].prev] = u
        BY <3>1, <3>2 DEF AtSwap, SwapLabels
      <4> QED
        BY <1>10, <2>2, <4>1
    <3> QED
      BY <3>1, <3>2 DEF FarFromEnd
  <2> QED
    BY <2>1, <2>2
<1>12. Order(new)'
  BY <1>10, <1>11 DEF Order
<1>13. \E order \in [Nodes -> Nodes] : Order(order)'
  BY <1>12, Zenon
<1> QED
  BY <1>4, <1>7, <1>8, <1>13, Zenon DEF ListInv
-----------------------------------------------------------------------------
(* main, and every step *)

\* A step that leaves the threads, the locks and the links alone.
LEMMA IdleStep ==
  ASSUME ListInv, TypeOK', UNCHANGED <<next, owner, pc, loc>>
  PROVE  ListInv'
<1>1. (\A u \in Counters : AtCount(u)') /\ (\A u \in Swappers : AtSwap(u)')
  BY DEF ListInv, AtCount, AtSwap
<1>2. LastStays'
  BY DEF ListInv, LastStays
<1>3. \A n \in Nodes : Settled(n)' = Settled(n)
  BY SettledKept DEF Second, Third
<1>4. PICK pos \in [Nodes -> Nodes] : Order(pos)
  BY DEF ListInv
<1>5. \A u \in Swappers : FarFromEnd(u, pos)'
  BY <1>4 DEF Order, FarFromEnd
<1>6. Order(pos)'
  <2>1. Size \in Nodes
    BY NodeListAssumption DEF Nodes
  <2> QED
    BY <1>3, <1>4, <1>5, <2>1 DEF Order, InPlace
<1>7. \E p \in [Nodes -> Nodes] : Order(p)'
  BY <1>6, Zenon
<1> QED
  BY <1>1, <1>2, <1>7, Zenon DEF ListInv

\* pthread_create, and the end of the program.
LEMMA MainStep ==
  ASSUME ListInv, Main \/ UNCHANGED vars
  PROVE  ListInv'
<1>1. TypeOK
  BY DEF ListInv
<1>2. CASE \E t \in Threads : CreateThread(t)
  <2>1. PICK t \in Threads : CreateThread(t)
    BY <1>2
  <2> USE <2>1 DEF CreateThread
  <2>2. /\ TypeOK' /\ OthersKept(t) /\ next' = next
        /\ pc[t] \notin {"relink2", "relink3"}
        /\ pc'[t] = IF t \in Counters THEN "count" ELSE "swap"
    BY <1>1 DEF TypeOK, Labels, OthersKept
  <2>3. t \in Counters => AtCount(t)'
    BY <2>2 DEF AtCount, CountLabels
  <2>4. t \in Swappers => AtSwap(t)'
    BY <2>2, NodeListAssumption DEF AtSwap, SwapLabels
  <2>5. \A pos : t \in Swappers => FarFromEnd(t, pos)'
    BY <2>2, NodeListAssumption DEF FarFromEnd
  <2>6. pc'[t] \notin {"relink2", "relink3"}
    BY <2>2
  <2> QED
    BY <2>2, <2>3, <2>4, <2>5, <2>6, QuietStep
<1>3. CASE CreateFailed \/ TimeOver \/ JoinAll \/ UNCHANGED vars
  <2>1. TypeOK' /\ UNCHANGED <<next, owner, pc, loc>>
    BY <1>1, <1>3 DEF TypeOK, CreateFailed, TimeOver, JoinAll, vars
  <2> QED
    BY <2>1, IdleStep
<1> QED
  BY <1>2, <1>3 DEF Main

\* Every step keeps the invariant.
LEMMA NextInv == ListInv /\ [Next]_vars => ListInv'
<1> SUFFICES ASSUME ListInv, [Next]_vars PROVE ListInv'
  OBVIOUS
<1>1. ASSUME NEW t \in Counters, count(t) PROVE ListInv'
  BY <1>1, CountStep
<1>2. ASSUME NEW t \in Swappers, swap_thread(t) PROVE ListInv'
  BY <1>2, SwapQuietStep, RelinkStep DEF swap_thread, SwapQuietly, ExchangeStep
<1>3. ASSUME Main \/ UNCHANGED vars PROVE ListInv'
  BY <1>3, MainStep
<1> QED
  BY <1>1, <1>2, <1>3 DEF Next, ProgramOver

LEMMA Invariant == Spec => []ListInv
<1>1. Init => ListInv
  BY InitInv
<1>2. ListInv /\ [Next]_vars => ListInv'
  BY NextInv
<1> QED
  BY <1>1, <1>2, PTL DEF Spec
-----------------------------------------------------------------------------
(* The list from storage->first *)

\* Every non-empty set of natural numbers has a least element.
LEMMA LeastNatural ==
  ASSUME NEW T \in SUBSET Nat, T # {}
  PROVE  \E m \in T : \A k \in T : m <= k
<1>1. PICK m \in T : \A k \in T : <<k, m>> \notin OpToRel(<, Nat)
  BY WFMin, NatLessThanWellFounded, Zenon
<1>2. \A k \in T : ~(k < m)
  BY <1>1, Zenon DEF OpToRel
<1> QED
  BY <1>2

\* Induction, for a property given as the set of the numbers that have it.
LEMMA Induction ==
  ASSUME NEW S, 0 \in S, \A n \in Nat : n \in S => n + 1 \in S
  PROVE  \A n \in Nat : n \in S
<1> DEFINE T == Nat \ S
<1> SUFFICES ASSUME T # {} PROVE FALSE
  OBVIOUS
<1>1. PICK m \in T : \A k \in T : m <= k
  <2> HIDE DEF T
  <2>1. T \in SUBSET Nat
    BY DEF T
  <2> QED
    BY <2>1, LeastNatural
<1>2. m # 0 /\ m - 1 \in Nat /\ m - 1 \notin T
  BY <1>1
<1> QED
  BY <1>1, <1>2

\* Places in the list are a walk through it: it meets the nodes in their order, so
\* every node once, and ends after the last.
LEMMA WalkMeetsAll ==
  ASSUME NEW pos \in [Nodes -> Nodes], InPlace(pos)
  PROVE  ListIntact
<1>2. /\ \A m \in Nodes : pos[m] \in 1..Size
      /\ \A m, n \in Nodes : pos[m] = pos[n] => m = n
      /\ first \in Nodes /\ pos[first] = 1
      /\ Size \in Nodes /\ pos[Size] = Size /\ Settled(Size) = Null
      /\ \A n \in Nodes \ {Size} : Settled(n) \in Nodes /\ pos[Settled(n)] = pos[n] + 1
      /\ Null \notin Nodes /\ Size \in Nat /\ Size >= 4
  BY NodeListAssumption DEF InPlace, Nodes, first, Null
<1> DEFINE step(f, n) ==
             IF n = 0 THEN first
             ELSE LET w == f[n - 1] IN IF w = Null THEN Null ELSE Settled(w)
           at[n \in 0..Size] == IF n = Size THEN Null ELSE CHOOSE m \in Nodes : pos[m] = n + 1
<1>3. ASSUME NEW n \in 0..Size - 1 PROVE \E m \in Nodes : pos[m] = n + 1
  <2> DEFINE S == {k \in Nat : k <= Size - 1 => \E m \in Nodes : pos[m] = k + 1}
  <2>1. 0 \in S
    BY <1>2
  <2>2. ASSUME NEW k \in Nat, k \in S PROVE k + 1 \in S
    <3> SUFFICES ASSUME k + 1 <= Size - 1 PROVE \E m \in Nodes : pos[m] = k + 2
      OBVIOUS
    <3>1. PICK m \in Nodes : pos[m] = k + 1
      BY <1>2, <2>2
    <3>2. m # Size
      BY <1>2, <3>1
    <3>3. Settled(m) \in Nodes /\ pos[Settled(m)] = pos[m] + 1
      BY <1>2, <3>2
    <3>4. pos[Settled(m)] = k + 2
      BY <3>1, <3>3
    <3> QED
      BY <3>3, <3>4
  <2>3. n \in S
    <3> HIDE DEF S
    <3>1. n \in Nat
      BY <1>2
    <3> QED
      BY <2>1, <2>2, <3>1, Induction
  <2> QED
    BY <1>2, <2>3
<1>4. at = [n \in 0..Size |-> IF n = Size THEN Null ELSE CHOOSE m \in Nodes : pos[m] = n + 1]
  OBVIOUS
<1> HIDE DEF at
<1>5. \A n \in 0..Size - 1 : at[n] \in Nodes /\ pos[at[n]] = n + 1
  BY <1>2, <1>3, <1>4
<1>6. at[Size] = Null
  BY <1>2, <1>4
<1>7. ASSUME NEW n \in 0..Size PROVE at[n] = step(at, n)
  <2>1. CASE n = 0
    <3>1. at[0] \in Nodes /\ pos[at[0]] = 1
      BY <1>2, <1>5
    <3>2. at[0] = first
      BY <1>2, <3>1
    <3> QED
      BY <2>1, <3>2
  <2>2. CASE n # 0
    <3>1. /\ n - 1 \in 0..Size - 1 /\ at[n - 1] \in Nodes /\ pos[at[n - 1]] = n
          /\ at[n - 1] # Null
      BY <1>2, <1>5, <2>2
    <3>2. CASE n = Size
      BY <1>2, <1>6, <2>2, <3>1, <3>2
    <3>3. CASE n # Size
      <4>1. at[n] \in Nodes /\ pos[at[n]] = n + 1
        BY <1>2, <1>5, <3>3
      <4>2. at[n - 1] # Size
        BY <1>2, <3>1, <3>3
      <4>3. Settled(at[n - 1]) \in Nodes /\ pos[Settled(at[n - 1])] = n + 1
        BY <1>2, <3>1, <4>2
      <4>4. at[n] = Settled(at[n - 1])
        BY <1>2, <4>1, <4>3
      <4> QED
        BY <2>2, <3>1, <4>4
    <3> QED
      BY <3>2, <3>3
  <2> QED
    BY <2>1, <2>2
<1>8. at = [n \in 0..Size |-> step(at, n)]
  BY <1>4, <1>7
<1>9. Walk = [n \in 0..Size |-> step(Walk, n)]
  BY <1>8, Zenon DEF Walk
<1>10. ASSUME NEW n \in 0..Size - 1 PROVE Walk[n] \in Nodes /\ pos[Walk[n]] = n + 1
  <2> DEFINE S == {k \in Nat : k <= Size - 1 => Walk[k] \in Nodes /\ pos[Walk[k]] = k + 1}
  <2>1. 0 \in S
    BY <1>2, <1>9
  <2>2. ASSUME NEW k \in Nat, k \in S PROVE k + 1 \in S
    <3> SUFFICES ASSUME k + 1 <= Size - 1 PROVE Walk[k + 1] \in Nodes /\ pos[Walk[k + 1]] = k + 2
      OBVIOUS
    <3>1. Walk[k] \in Nodes /\ pos[Walk[k]] = k + 1
      BY <1>2, <2>2
    <3>2. Walk[k] # Size /\ Walk[k] # Null
      BY <1>2, <3>1
    <3>3. Walk[k + 1] = Settled(Walk[k])
      <4>1. k + 1 \in 0..Size /\ k + 1 # 0 /\ (k + 1) - 1 = k
        BY <1>2
      <4> QED
        BY <1>9, <3>2, <4>1
    <3>4. Settled(Walk[k]) \in Nodes /\ pos[Settled(Walk[k])] = pos[Walk[k]] + 1
      BY <1>2, <3>1, <3>2
    <3>5. pos[Settled(Walk[k])] = k + 2
      BY <3>1, <3>4
    <3> QED
      BY <3>3, <3>4, <3>5
  <2>3. n \in S
    <3> HIDE DEF S
    <3>1. n \in Nat
      BY <1>2
    <3> QED
      BY <2>1, <2>2, <3>1, Induction
  <2> QED
    BY <1>2, <2>3
<1>11. ASSUME NEW m \in Nodes PROVE Walk[pos[m] - 1] = m /\ pos[m] - 1 \in 0..Size - 1
  <2>1. pos[m] \in Nat /\ pos[m] - 1 \in 0..Size - 1
    BY <1>2
  <2>2. Walk[pos[m] - 1] \in Nodes /\ pos[Walk[pos[m] - 1]] = (pos[m] - 1) + 1
    BY <1>10, <2>1
  <2>3. pos[Walk[pos[m] - 1]] = pos[m]
    BY <2>1, <2>2
  <2> QED
    BY <1>2, <2>1, <2>2, <2>3
<1>12. Walk[Size] = Null
  <2>1. Walk[Size - 1] = Size /\ Size \in 0..Size /\ Size # 0 /\ Size # Null
    BY <1>2, <1>11 DEF Null
  <2> QED
    BY <1>2, <1>9, <2>1
<1> QED
  BY <1>10, <1>11, <1>12 DEF ListIntact
-----------------------------------------------------------------------------
(* The theorems *)

\* Links, locks and locals keep their types: in particular, the number of nodes a
\* swapping thread still has to walk never becomes negative.
THEOREM TypeCorrect == Spec => []TypeOK
BY Invariant, PTL DEF ListInv

\* No thread calls mutex_lock on a null node, although the tests before the calls
\* are made without the lock or before it is taken.
THEOREM NoNullLocked == Spec => []NeverLocksNull
<1>1. ListInv => NeverLocksNull
  <2> SUFFICES ASSUME ListInv, NEW t \in Threads
               PROVE  /\ pc[t] \in {"lock2", "walk_lock", "lock_cur", "lock_next"} =>
                            loc[t].tgt # Null
                      /\ pc[t] \in {"inner", "lock1"} => loc[t].cur # Null
    BY DEF NeverLocksNull
  <2>1. Null \notin Nodes /\ LastStays
    BY NodeListAssumption DEF ListInv, Null, Nodes
  <2>2. CASE t \in Counters
    <3>1. AtCount(t)
      BY <2>2 DEF ListInv
    <3> QED
      BY <2>1, <3>1 DEF AtCount, CountLabels, LastStays
  <2>3. CASE t \in Swappers
    <3>1. AtSwap(t)
      BY <2>3 DEF ListInv
    <3> QED
      BY <2>1, <3>1 DEF AtSwap, SwapLabels
  <2> QED
    BY <2>2, <2>3 DEF Threads
<1> QED
  BY <1>1, Invariant, PTL

\* The two nodes a counting thread compares are neighbours, and it has locked both.
THEOREM NeighboursCompared == Spec => []ComparesNeighbours
<1>1. ListInv => ComparesNeighbours
  BY DEF ListInv, AtCount, ComparesNeighbours
<1> QED
  BY <1>1, Invariant, PTL

\* However the exchanges of the swapping threads overlap, the list from
\* storage->first, with those under way completed, has every node once.
THEOREM ListStaysIntact == Spec => []ListIntact
<1>1. ListInv => ListIntact
  BY WalkMeetsAll DEF ListInv, Order
<1> QED
  BY <1>1, Invariant, PTL
=============================================================================
