----------------------------- MODULE RwNodeList -----------------------------
(***************************************************************************)
(* The shared list of sync/2.3/2.3m.c, whose nodes have a pthread_rwlock_t *)
(* each.  The threads, the list and main are those of NodeList, and so are *)
(* the steps that touch no lock.  Counters hold read locks.  A swapper     *)
(* finds its place with read locks, releases them, takes the write locks   *)
(* of the three nodes it found, and starts over when they are no longer    *)
(* neighbours.                                                             *)
(*                                                                         *)
(* owner[n] is the writer of node n and rd[n] the set of its readers.  A   *)
(* read lock is granted whenever no thread holds the write lock, the       *)
(* default of glibc, which prefers readers.  The address of the lock that  *)
(* is taken next is read from "next" in the step that takes the lock which *)
(* protects that field.                                                    *)
(***************************************************************************)
EXTENDS Naturals, FiniteSets

CONSTANTS Size, Counters, Swappers, None

ASSUME RwNodeListAssumption ==
    /\ Size \in Nat /\ Size >= 4        \* rand() % (size - 3)
    /\ Counters \cap Swappers = {}
    /\ None \notin Counters \cup Swappers

VARIABLES next, owner, rd, stop, pc, loc, main

vars == <<next, owner, rd, stop, pc, loc, main>>

L == INSTANCE NodeList

Init ==
    /\ L!Init
    /\ rd = [n \in L!Nodes |-> {}]

-----------------------------------------------------------------------------
(* pthread_rwlock_rdlock, pthread_rwlock_wrlock, pthread_rwlock_unlock *)

rdlock(t, n) ==
    /\ owner[n] = None
    /\ rd' = [rd EXCEPT ![n] = @ \cup {t}]
    /\ UNCHANGED owner

wrlock(t, n) ==
    /\ owner[n] = None /\ rd[n] = {}
    /\ owner' = [owner EXCEPT ![n] = t]
    /\ UNCHANGED rd

unlock(t, n) ==
    \/ /\ owner[n] = t
       /\ owner' = [owner EXCEPT ![n] = None]
       /\ UNCHANGED rd
    \/ /\ t \in rd[n]
       /\ rd' = [rd EXCEPT ![n] = @ \ {t}]
       /\ UNCHANGED owner

-----------------------------------------------------------------------------
(* count_ascending, count_descending and count_equal *)

CountLock(t) ==
    /\ \/ /\ L!Goto(t, "lock1", "lock2")
          /\ rdlock(t, loc[t].cur)
          /\ loc' = [loc EXCEPT ![t].tgt = next[loc[t].cur]]
       \/ /\ L!Goto(t, "lock2", "compare")
          /\ rdlock(t, loc[t].tgt)
          /\ UNCHANGED loc
    /\ UNCHANGED <<next, stop, main>>

CountUnlock(t) ==
    /\ \/ /\ L!Goto(t, "unlock1", "unlock2")
          /\ unlock(t, loc[t].cur)
          /\ UNCHANGED loc
       \/ /\ L!Goto(t, "unlock2", "inner")
          /\ unlock(t, loc[t].nxt)
          /\ loc' = [loc EXCEPT ![t] = [L!NoLocals EXCEPT !.cur = loc[t].nxt]]
    /\ UNCHANGED <<next, stop, main>>

count(t) ==
    \/ CountLock(t)
    \/ CountUnlock(t)
    \/ /\ L!CountOuter(t) \/ L!CountInner(t) \/ L!CountCompare(t)
       /\ UNCHANGED rd

-----------------------------------------------------------------------------
(* swap_thread and safe_swap_nodes *)

\* From the first node to the random place, hand over hand.
SwapFind(t) ==
    /\ \/ /\ L!Goto(t, "lock_first", "walk")
          /\ rdlock(t, L!first)
          /\ loc' = [loc EXCEPT ![t].prev = L!first]
       \/ /\ L!Goto(t, "walk_lock", "walk_unlock")
          /\ rdlock(t, loc[t].tgt)
          /\ UNCHANGED loc
       \/ /\ L!Goto(t, "walk_unlock", "walk")
          /\ unlock(t, loc[t].prev)
          /\ loc' = [loc EXCEPT ![t] = [@ EXCEPT !.prev = next[loc[t].prev],
                                                !.left = loc[t].left - 1, !.tgt = L!Null]]
    /\ UNCHANGED <<next, stop, main>>

\* Enough nodes after prev?  If not, the loop starts over.
SwapCheck(t) ==
    /\ L!Goto(t, "check", IF L!Enough(t) THEN "lock_cur" ELSE "swap")
    /\ loc' = [loc EXCEPT ![t].tgt = IF L!Enough(t) THEN next[loc[t].prev] ELSE L!Null]
    /\ IF L!Enough(t) THEN UNCHANGED <<owner, rd>> ELSE unlock(t, loc[t].prev)
    /\ UNCHANGED <<next, stop, main>>

SwapRdLock(t) ==
    /\ \/ /\ L!Goto(t, "lock_cur", "lock_next")
          /\ LET cur == next[loc[t].prev]
             IN  loc' = [loc EXCEPT ![t] = [@ EXCEPT !.cur = cur, !.tgt = next[cur]]]
       \/ /\ L!Goto(t, "lock_next", "rdunlock_prev")
          /\ loc' = [loc EXCEPT ![t] = [@ EXCEPT !.nxt = next[loc[t].cur], !.tgt = L!Null]]
    /\ rdlock(t, loc[t].tgt)
    /\ UNCHANGED <<next, stop, main>>

SwapRdUnlock(t) ==
    /\ \/ L!Goto(t, "rdunlock_prev", "rdunlock_cur") /\ unlock(t, loc[t].prev)
       \/ L!Goto(t, "rdunlock_cur", "rdunlock_next") /\ unlock(t, loc[t].cur)
       \/ L!Goto(t, "rdunlock_next", "wrlock_prev") /\ unlock(t, loc[t].nxt)
    /\ UNCHANGED <<next, stop, loc, main>>

\* Mutant: prev is locked for reading, although its link is written.
SwapWrLockPrevShared(t) ==
    /\ \/ L!Goto(t, "wrlock_prev", "wrlock_cur") /\ rdlock(t, loc[t].prev)
       \/ L!Goto(t, "wrlock_cur", "wrlock_next") /\ wrlock(t, loc[t].cur)
       \/ L!Goto(t, "wrlock_next", "recheck") /\ wrlock(t, loc[t].nxt)
    /\ UNCHANGED <<next, stop, loc, main>>

\* Mutant: the write locks are taken from the last node to the first.
SwapWrLockBackwards(t) ==
    /\ \/ L!Goto(t, "wrlock_prev", "wrlock_cur") /\ wrlock(t, loc[t].nxt)
       \/ L!Goto(t, "wrlock_cur", "wrlock_next") /\ wrlock(t, loc[t].cur)
       \/ L!Goto(t, "wrlock_next", "recheck") /\ wrlock(t, loc[t].prev)
    /\ UNCHANGED <<next, stop, loc, main>>

SwapWrLock(t) ==
    /\ \/ L!Goto(t, "wrlock_prev", "wrlock_cur") /\ wrlock(t, loc[t].prev)
       \/ L!Goto(t, "wrlock_cur", "wrlock_next") /\ wrlock(t, loc[t].cur)
       \/ L!Goto(t, "wrlock_next", "recheck") /\ wrlock(t, loc[t].nxt)
    /\ UNCHANGED <<next, stop, loc, main>>

\* The three nodes that a swapper has found follow one another.
Consecutive(t) ==
    /\ next[loc[t].prev] = loc[t].cur
    /\ next[loc[t].cur] = loc[t].nxt

\* Mutant: only the first link is looked at again.
SwapRecheckHalf(t) ==
    /\ L!Goto(t, "recheck", IF next[loc[t].prev] = loc[t].cur THEN "relink1" ELSE "unlock_prev")
    /\ loc' = [loc EXCEPT ![t].next_next = next[loc[t].nxt]]
    /\ UNCHANGED <<next, owner, rd, stop, main>>

\* The neighbours may have been exchanged while no lock was held.
SwapRecheck(t) ==
    /\ \/ /\ L!Goto(t, "recheck", "relink1")
          /\ Consecutive(t)
          /\ loc' = [loc EXCEPT ![t].next_next = next[loc[t].nxt]]
       \/ /\ L!Goto(t, "recheck", "unlock_prev")
          /\ ~Consecutive(t)
          /\ UNCHANGED loc
    /\ UNCHANGED <<next, owner, rd, stop, main>>

\* After an exchange and after a failed check alike.
SwapWrUnlock(t) ==
    /\ \/ L!Goto(t, "unlock_prev", "unlock_cur") /\ unlock(t, loc[t].prev) /\ UNCHANGED loc
       \/ L!Goto(t, "unlock_cur", "unlock_next") /\ unlock(t, loc[t].cur) /\ UNCHANGED loc
       \/ /\ L!Goto(t, "unlock_next", "swap")
          /\ unlock(t, loc[t].nxt)
          /\ loc' = [loc EXCEPT ![t] = L!NoLocals]
    /\ UNCHANGED <<next, stop, main>>

swap_thread(t) ==
    \/ SwapFind(t) \/ SwapCheck(t) \/ SwapRdLock(t) \/ SwapRdUnlock(t)
    \/ SwapWrLock(t) \/ SwapRecheck(t) \/ SwapWrUnlock(t)
    \/ /\ \/ L!SwapOuter(t) \/ L!SwapWalk(t) \/ L!SwapRelink1(t)
          \/ L!SwapRelink2(t) \/ L!SwapRelink3(t)
       /\ UNCHANGED rd

-----------------------------------------------------------------------------
Main == L!Main /\ UNCHANGED rd

ProgramOver == main = "end" /\ UNCHANGED vars

Next ==
    \/ \E t \in Counters : count(t)
    \/ \E t \in Swappers : swap_thread(t)
    \/ Main
    \/ ProgramOver

\* Threads are scheduled, and main's sleeps end.
Spec ==
    /\ Init
    /\ [][Next]_vars
    /\ \A t \in Counters : WF_vars(count(t))
    /\ \A t \in Swappers : WF_vars(swap_thread(t))
    /\ WF_vars(Main)

-----------------------------------------------------------------------------
(* Properties *)

\* Although a swapper finds its place under locks that it gives up before it
\* writes, no exchange loses a node or makes a cycle.
ListIntact == L!ListIntact

\* The two nodes that a counter compares are neighbours, and no swapper can
\* move them while it looks.
ComparesNeighbours ==
    \A t \in Counters : pc[t] = "compare" =>
        /\ loc[t].tgt = next[loc[t].cur]
        /\ t \in rd[loc[t].cur] /\ t \in rd[loc[t].tgt]

\* The node whose lock a thread is about to take or waits for.
Wanted(t) ==
    CASE pc[t] = "lock1" -> loc[t].cur
      [] pc[t] = "lock_first" -> L!first
      [] pc[t] \in {"lock2", "walk_lock", "lock_cur", "lock_next"} -> loc[t].tgt
      [] pc[t] = "wrlock_prev" -> loc[t].prev
      [] pc[t] = "wrlock_cur" -> loc[t].cur
      [] pc[t] = "wrlock_next" -> loc[t].nxt
      [] OTHER -> L!Null

Writing(t) == pc[t] \in {"wrlock_prev", "wrlock_cur", "wrlock_next"}

\* No thread asks for the lock of a null node, although a swapper looks at
\* prev->next->next without the lock that protects it.
NeverLocksNull ==
    \A t \in L!Threads :
        pc[t] \in {"lock1", "lock2", "lock_first", "walk_lock", "lock_cur", "lock_next",
                  "wrlock_prev", "wrlock_cur", "wrlock_next"} => Wanted(t) # L!Null

\* The threads that keep t from the lock it wants.
BlockedBy(t) ==
    {u \in L!Threads :
        /\ Wanted(t) # L!Null
        /\ \/ owner[Wanted(t)] = u
           \/ Writing(t) /\ u \in rd[Wanted(t)]}

Blocked == {t \in L!Threads : BlockedBy(t) # {}}

\* The sets of threads that wait for one another and can never go on.
CircularWaits ==
    {D \in SUBSET Blocked : D # {} /\ \A t \in D : BlockedBy(t) \cap D # {}}

\* Locks are taken in the order of the list, so a circular wait must go through
\* a swapper whose three nodes were moved after it had released its read locks.
DeadlockNeedsStalePlace ==
    \A D \in CircularWaits : \E t \in D : Writing(t) /\ ~Consecutive(t)

-----------------------------------------------------------------------------
(* The inductive invariant *)

Labels == (L!Labels \ {"eval2", "eval_next"})
          \cup {"rdunlock_prev", "rdunlock_cur", "rdunlock_next", "wrlock_prev",
                "wrlock_cur", "wrlock_next", "recheck"}

TypeOK ==
    /\ next \in [L!Nodes -> L!NodeOrNull]
    /\ owner \in [L!Nodes -> L!Threads \cup {None}]
    /\ rd \in [L!Nodes -> SUBSET L!Threads]
    /\ stop \in BOOLEAN
    /\ pc \in [L!Threads -> Labels]
    /\ loc \in [L!Threads -> L!Locals]
    /\ main \in {"create", "run", "join", "end"}

\* Where a thread has the read lock, and the write lock, of each of its nodes.
ReadsPrev == {"walk", "walk_lock", "walk_unlock", "check", "lock_cur", "lock_next",
              "rdunlock_prev"}
ReadsCur == {"lock2", "compare", "unlock1", "lock_next", "rdunlock_prev", "rdunlock_cur"}
ReadsTgt == {"compare", "unlock1", "walk_unlock"}
ReadsNxt == {"unlock2", "rdunlock_prev", "rdunlock_cur", "rdunlock_next"}

Reads(t, n) ==
    \/ n = loc[t].prev /\ pc[t] \in ReadsPrev
    \/ n = loc[t].cur /\ pc[t] \in ReadsCur
    \/ n = loc[t].tgt /\ pc[t] \in ReadsTgt
    \/ n = loc[t].nxt /\ pc[t] \in ReadsNxt

WritesPrev == {"wrlock_cur", "wrlock_next", "recheck", "relink1", "relink2", "relink3",
               "unlock_prev"}
WritesCur == (WritesPrev \ {"wrlock_cur"}) \cup {"unlock_cur"}
WritesNxt == (WritesCur \ {"wrlock_next"}) \cup {"unlock_next"}

Writes(t, n) ==
    \/ n = loc[t].prev /\ pc[t] \in WritesPrev
    \/ n = loc[t].cur /\ pc[t] \in WritesCur
    \/ n = loc[t].nxt /\ pc[t] \in WritesNxt

\* The locks are held by those threads, for reading or for writing.
LocksExact ==
    \A n \in L!Nodes :
        /\ \A t \in L!Threads : t \in rd[n] <=> Reads(t, n)
        /\ \A t \in L!Threads : owner[n] = t <=> Writes(t, n)
        /\ owner[n] # None => rd[n] = {}

\* What a counter knows of its nodes.
CountLabels == L!CountLabels \ {"eval2"}

AtCount(t) ==
    LET l == loc[t] IN
    /\ pc[t] \in CountLabels
    /\ pc[t] = "inner" => l.cur \in L!Nodes
    /\ pc[t] \in {"lock1", "lock2", "compare", "unlock1"} => l.cur \in L!Nodes \ {Size}
    /\ pc[t] \in {"lock2", "compare", "unlock1"} => l.tgt = next[l.cur]
    /\ pc[t] = "unlock1" => l.nxt = l.tgt
    /\ pc[t] = "unlock2" => l.nxt \in L!Nodes

\* What a swapper knows: its nodes follow one another while it reads them and once
\* it has looked again; that they are three, and none the last, it never forgets.
SwapLabels == Labels \ (CountLabels \ {"unborn", "done"})
HasPlace == {"rdunlock_prev", "rdunlock_cur", "rdunlock_next", "wrlock_prev", "unlock_cur",
             "unlock_next"} \cup WritesPrev

AtSwap(t) ==
    LET l == loc[t] IN
    /\ pc[t] \in SwapLabels
    /\ pc[t] = "lock_first" => l.left <= Size - 4
    /\ pc[t] \in ReadsPrev => l.prev \in L!Nodes
    /\ pc[t] \in {"walk_lock", "walk_unlock"} => l.left > 0
    /\ pc[t] \in {"walk_lock", "walk_unlock", "lock_cur"} =>
          l.tgt \in L!Nodes /\ l.tgt = next[l.prev]
    /\ pc[t] = "lock_next" =>
          /\ l.cur \in L!Nodes /\ l.cur = next[l.prev]
          /\ l.tgt \in L!Nodes /\ l.tgt = next[l.cur]
    /\ pc[t] \in HasPlace =>
          /\ l.prev \in L!Nodes \ {Size} /\ l.cur \in L!Nodes \ {Size}
          /\ l.nxt \in L!Nodes \ {Size}
          /\ l.prev # l.cur /\ l.prev # l.nxt /\ l.cur # l.nxt
    /\ L!Exchanging(t)

RwInv ==
    /\ TypeOK
    /\ LocksExact
    /\ \A t \in Counters : AtCount(t)
    /\ \A t \in Swappers : AtSwap(t)
    /\ L!LastStays
    /\ \E pos \in [L!Nodes -> L!Nodes] : L!Order(pos)
=============================================================================
