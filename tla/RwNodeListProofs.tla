-------------------------- MODULE RwNodeListProofs --------------------------
(***************************************************************************)
(* Proofs about the list of sync/2.3/2.3m.c, for any number of threads and *)
(* any length: although a swapper gives up its read locks before it takes  *)
(* the write locks, the list stays a list of all nodes, no thread locks a  *)
(* null node, a counter compares two neighbours, and a circular wait needs *)
(* a swapper whose place has gone stale.                                   *)
(*                                                                         *)
(* The argument: the locks held are a function of where the threads stand  *)
(* (LocksExact), so a link is written only by a thread that excludes the   *)
(* readers of its node.  Once a swapper has looked again it knows what a   *)
(* swapper of NodeList knows, and the exchange itself is proved there.     *)
(***************************************************************************)
EXTENDS RwNodeList, TLAPS

P == INSTANCE NodeListProofs

(* The lemmas about the exchange *)

\* A node that nobody writes has its own link.
LEMMA SettledHeld ==
  ASSUME \A u \in Swappers : L!Exchanging(u), NEW n \in L!Nodes,
         \/ owner[n] = None
         \/ owner[n] \in L!Threads /\ pc[owner[n]] \notin {"relink2", "relink3"}
  PROVE  L!Settled(n) = next[n]
<1>1. (\A u \in Swappers : P!Exchanging(u)) /\ n \in P!Nodes
  BY DEF P!Exchanging, L!Exchanging, P!Nodes, L!Nodes
<1>2. P!Settled(n) = next[n]
  BY <1>1, P!SettledHeld, RwNodeListAssumption DEF P!Threads, L!Threads
<1> QED
  BY <1>2 DEF P!Settled, L!Settled

\* A step keeps a node's settled link when it keeps its link and changes nothing of
\* the exchanges under way.
LEMMA SettledKept ==
  ASSUME NEW n \in L!Nodes, next'[n] = next[n],
         \A u \in Swappers :
            \/ pc'[u] = pc[u] /\ loc'[u] = loc[u]
            \/ {pc[u], pc'[u]} \cap {"relink2", "relink3"} = {}
  PROVE  L!Settled(n)' = L!Settled(n)
<1>1. n \in P!Nodes
  BY DEF P!Nodes, L!Nodes
<1>2. ASSUME NEW u \in Swappers
      PROVE  /\ P!Second(u, n)' <=> P!Second(u, n)
             /\ P!Third(u, n)' <=> P!Third(u, n)
             /\ P!Second(u, n) \/ P!Third(u, n) => loc'[u] = loc[u]
  BY DEF P!Second, P!Third
<1>3. P!Settled(n)' = P!Settled(n)
  BY <1>1, <1>2, P!SettledKept, RwNodeListAssumption
<1> QED
  BY <1>3 DEF P!Settled, L!Settled

\* The three assignments of an exchange.
ExchangeStep(t) == L!SwapRelink1(t) \/ L!SwapRelink2(t) \/ L!SwapRelink3(t)

LEMMA SameExchange ==
  ASSUME NEW t
  PROVE  ExchangeStep(t) <=> P!ExchangeStep(t)
BY DEF ExchangeStep, L!SwapRelink1, L!SwapRelink2, L!SwapRelink3, L!Goto, P!ExchangeStep,
       P!SwapRelink1, P!SwapRelink2, P!SwapRelink3, P!Goto

\* An exchange touches the links its thread owns, and leaves the nodes in a list.
LEMMA ExchangeKeeps ==
  ASSUME next \in [L!Nodes -> L!NodeOrNull], NEW S, pc \in [L!Threads -> S],
         \A u \in Swappers : L!Exchanging(u), NEW t \in Swappers, ExchangeStep(t)
  PROVE  /\ loc' = loc /\ owner' = owner /\ next' \in [L!Nodes -> L!NodeOrNull]
         /\ \A m \in L!Nodes : owner[m] # t => next'[m] = next[m]
         /\ L!LastStays => L!LastStays'
         /\ \A u \in Swappers : L!Exchanging(u)'
<1>1. /\ next \in [P!Nodes -> P!NodeOrNull] /\ pc \in [P!Threads -> S]
      /\ P!ExchangeStep(t) /\ \A u \in Swappers : P!Exchanging(u)
  BY SameExchange DEF P!Nodes, L!Nodes, P!NodeOrNull, L!NodeOrNull, P!Null, L!Null,
     P!Threads, L!Threads, P!Exchanging, L!Exchanging
<1>2. /\ loc' = loc /\ owner' = owner /\ next' \in [P!Nodes -> P!NodeOrNull]
      /\ \A m \in P!Nodes : owner[m] # t => next'[m] = next[m]
      /\ P!LastStays => P!LastStays'
      /\ \A u \in Swappers : P!Exchanging(u)'
  BY <1>1, P!Relinking, RwNodeListAssumption
<1>3. P!Nodes = L!Nodes /\ P!NodeOrNull = L!NodeOrNull
  BY DEF P!Nodes, L!Nodes, P!NodeOrNull, L!NodeOrNull, P!Null, L!Null
<1>4. L!LastStays => L!LastStays'
  BY <1>2 DEF P!Nodes, L!Nodes, P!Null, L!Null, P!LastStays, L!LastStays
<1>5. \A u \in Swappers : L!Exchanging(u)'
  BY <1>2 DEF P!Exchanging, L!Exchanging, P!Nodes, L!Nodes
<1> QED
  BY <1>2, <1>3, <1>4, <1>5

LEMMA ExchangeKeepsPlaces ==
  ASSUME next \in [L!Nodes -> L!NodeOrNull], NEW S, pc \in [L!Threads -> S],
         \A u \in Swappers : L!Exchanging(u), NEW t \in Swappers, ExchangeStep(t),
         NEW pos \in [L!Nodes -> L!Nodes], L!InPlace(pos)
  PROVE  \E new \in [L!Nodes -> L!Nodes] :
            L!InPlace(new)' /\ \A m \in L!Nodes : owner[m] # t => new[m] = pos[m]
<1>1. /\ next \in [P!Nodes -> P!NodeOrNull] /\ pc \in [P!Threads -> S]
      /\ P!ExchangeStep(t) /\ \A u \in Swappers : P!Exchanging(u)
  BY SameExchange DEF P!Nodes, L!Nodes, P!NodeOrNull, L!NodeOrNull, P!Null, L!Null,
     P!Threads, L!Threads, P!Exchanging, L!Exchanging
<1>2. pos \in [P!Nodes -> P!Nodes] /\ P!InPlace(pos)
  BY DEF P!Nodes, L!Nodes, P!Null, L!Null, P!InPlace, L!InPlace, P!Settled, L!Settled,
         P!first, L!first
<1>3. PICK new \in [P!Nodes -> P!Nodes] :
            P!InPlace(new)' /\ \A m \in P!Nodes : owner[m] # t => new[m] = pos[m]
  BY <1>1, <1>2, P!ExchangeKeepsPlaces, RwNodeListAssumption
<1>4. new \in [L!Nodes -> L!Nodes] /\ \A m \in L!Nodes : owner[m] # t => new[m] = pos[m]
  BY <1>3 DEF P!Nodes, L!Nodes
<1>5. L!InPlace(new)'
  BY <1>3 DEF P!Nodes, L!Nodes, P!Null, L!Null, P!InPlace, L!InPlace, P!Settled, L!Settled,
         P!first, L!first
<1> QED
  BY <1>4, <1>5, Zenon

\* Nodes in place are a list from storage->first.
LEMMA WalkMeetsAll ==
  ASSUME NEW pos \in [L!Nodes -> L!Nodes], L!InPlace(pos)
  PROVE  L!ListIntact
<1>2. pos \in [P!Nodes -> P!Nodes] /\ P!InPlace(pos)
  BY DEF P!Nodes, L!Nodes, P!Null, L!Null, P!InPlace, L!InPlace, P!Settled, L!Settled,
         P!first, L!first
<1>3. P!ListIntact
  BY <1>2, P!WalkMeetsAll, RwNodeListAssumption
<1>4. P!Walk = L!Walk
  BY Zenon DEF P!Walk, L!Walk, P!Settled, L!Settled, P!first, L!first, P!Null, L!Null
<1> QED
  BY <1>3, <1>4 DEF P!ListIntact, L!ListIntact, P!Nodes, L!Nodes, P!Null, L!Null
-----------------------------------------------------------------------------
(* The locks *)

\* A step of t that writes no link: only t's program counter and locals change.
Kept(t) ==
    /\ next' = next /\ stop' \in BOOLEAN /\ main' \in {"create", "run", "join", "end"}
    /\ pc' \in [L!Threads -> Labels] /\ loc' \in [L!Threads -> L!Locals]
    /\ \A u \in L!Threads \ {t} : pc'[u] = pc[u] /\ loc'[u] = loc[u]
    /\ {pc[t], pc'[t]} \cap {"relink2", "relink3"} = {}

\* The locks of the other threads stay as they are.
LEMMA LocksOfOthers ==
  ASSUME RwInv, NEW t \in L!Threads, Kept(t),
         rd' \in [L!Nodes -> SUBSET L!Threads], owner' \in [L!Nodes -> L!Threads \cup {None}],
         \A n \in L!Nodes :
            /\ \A u \in L!Threads \ {t} : /\ u \in rd'[n] <=> u \in rd[n]
                                          /\ owner'[n] = u <=> owner[n] = u
            /\ t \in rd'[n] <=> Reads(t, n)'
            /\ owner'[n] = t <=> Writes(t, n)'
            /\ owner'[n] # None => rd'[n] = {}
  PROVE  TypeOK' /\ LocksExact'
<1>1. TypeOK'
  BY DEF RwInv, TypeOK, Kept
<1>2. ASSUME NEW n \in L!Nodes, NEW u \in L!Threads, u # t
      PROVE  (u \in rd'[n] <=> Reads(u, n)') /\ (owner'[n] = u <=> Writes(u, n)')
  <2>1. Reads(u, n)' <=> Reads(u, n)
    BY <1>2 DEF Reads, Kept
  <2>2. Writes(u, n)' <=> Writes(u, n)
    BY <1>2 DEF Writes, Kept
  <2> QED
    BY <1>2, <2>1, <2>2 DEF RwInv, LocksExact
<1> QED
  BY <1>1, <1>2 DEF LocksExact

\* pthread_rwlock_rdlock
LEMMA RdLocked ==
  ASSUME RwInv, NEW t \in L!Threads, Kept(t), NEW m \in L!Nodes, rdlock(t, m),
         \A n \in L!Nodes : /\ Reads(t, n)' <=> Reads(t, n) \/ n = m
                            /\ Writes(t, n)' <=> Writes(t, n)
  PROVE  TypeOK' /\ LocksExact'
<1>1. /\ rd \in [L!Nodes -> SUBSET L!Threads] /\ owner \in [L!Nodes -> L!Threads \cup {None}]
      /\ owner[m] = None /\ rd' = [rd EXCEPT ![m] = @ \cup {t}] /\ owner' = owner /\ LocksExact
  BY DEF RwInv, TypeOK, rdlock
<1>2. rd' \in [L!Nodes -> SUBSET L!Threads]
  BY <1>1
<1>3. ASSUME NEW n \in L!Nodes
      PROVE  /\ \A u \in L!Threads \ {t} : /\ u \in rd'[n] <=> u \in rd[n]
                                           /\ owner'[n] = u <=> owner[n] = u
             /\ t \in rd'[n] <=> Reads(t, n)'
             /\ owner'[n] = t <=> Writes(t, n)'
             /\ owner'[n] # None => rd'[n] = {}
  BY <1>1, <1>3 DEF LocksExact
<1> QED
  BY <1>1, <1>2, <1>3, LocksOfOthers

\* pthread_rwlock_wrlock
LEMMA WrLocked ==
  ASSUME RwInv, NEW t \in L!Threads, Kept(t), NEW m \in L!Nodes, wrlock(t, m),
         \A n \in L!Nodes : /\ Reads(t, n)' <=> Reads(t, n)
                            /\ Writes(t, n)' <=> Writes(t, n) \/ n = m
  PROVE  TypeOK' /\ LocksExact'
<1>1. /\ rd \in [L!Nodes -> SUBSET L!Threads] /\ owner \in [L!Nodes -> L!Threads \cup {None}]
      /\ owner[m] = None /\ rd[m] = {} /\ owner' = [owner EXCEPT ![m] = t] /\ rd' = rd
      /\ LocksExact /\ None \notin L!Threads
  BY RwNodeListAssumption DEF RwInv, TypeOK, wrlock, L!Threads
<1>2. owner' \in [L!Nodes -> L!Threads \cup {None}]
  BY <1>1
<1>3. ASSUME NEW n \in L!Nodes
      PROVE  /\ \A u \in L!Threads \ {t} : /\ u \in rd'[n] <=> u \in rd[n]
                                           /\ owner'[n] = u <=> owner[n] = u
             /\ t \in rd'[n] <=> Reads(t, n)'
             /\ owner'[n] = t <=> Writes(t, n)'
             /\ owner'[n] # None => rd'[n] = {}
  BY <1>1, <1>3 DEF LocksExact
<1> QED
  BY <1>1, <1>2, <1>3, LocksOfOthers

\* pthread_rwlock_unlock of a lock held for reading.
LEMMA RdUnlocked ==
  ASSUME RwInv, NEW t \in L!Threads, Kept(t), NEW m \in L!Nodes, unlock(t, m),
         ~Writes(t, m),
         \A n \in L!Nodes : /\ Reads(t, n)' <=> Reads(t, n) /\ n # m
                            /\ Writes(t, n)' <=> Writes(t, n)
  PROVE  TypeOK' /\ LocksExact'
<1>1. /\ rd \in [L!Nodes -> SUBSET L!Threads] /\ owner \in [L!Nodes -> L!Threads \cup {None}]
      /\ rd' = [rd EXCEPT ![m] = @ \ {t}] /\ owner' = owner
      /\ LocksExact
  BY DEF RwInv, TypeOK, unlock, LocksExact
<1>2. rd' \in [L!Nodes -> SUBSET L!Threads]
  BY <1>1
<1>3. ASSUME NEW n \in L!Nodes
      PROVE  /\ \A u \in L!Threads \ {t} : /\ u \in rd'[n] <=> u \in rd[n]
                                           /\ owner'[n] = u <=> owner[n] = u
             /\ t \in rd'[n] <=> Reads(t, n)'
             /\ owner'[n] = t <=> Writes(t, n)'
             /\ owner'[n] # None => rd'[n] = {}
  BY <1>1, <1>3 DEF LocksExact
<1> QED
  BY <1>1, <1>2, <1>3, LocksOfOthers

\* pthread_rwlock_unlock of a lock held for writing.
LEMMA WrUnlocked ==
  ASSUME RwInv, NEW t \in L!Threads, Kept(t), NEW m \in L!Nodes, unlock(t, m),
         Writes(t, m),
         \A n \in L!Nodes : /\ Reads(t, n)' <=> Reads(t, n)
                            /\ Writes(t, n)' <=> Writes(t, n) /\ n # m
  PROVE  TypeOK' /\ LocksExact'
<1>0. LocksExact /\ None \notin L!Threads
  BY RwNodeListAssumption DEF RwInv, L!Threads
<1>1. /\ rd \in [L!Nodes -> SUBSET L!Threads] /\ owner \in [L!Nodes -> L!Threads \cup {None}]
      /\ owner[m] = t /\ rd[m] = {}
  BY <1>0 DEF RwInv, TypeOK, LocksExact
<1>2. owner' = [owner EXCEPT ![m] = None] /\ rd' = rd
  BY <1>1 DEF unlock
<1>3. owner' \in [L!Nodes -> L!Threads \cup {None}]
  BY <1>1, <1>2
<1>4. ASSUME NEW n \in L!Nodes
      PROVE  /\ \A u \in L!Threads \ {t} : /\ u \in rd'[n] <=> u \in rd[n]
                                           /\ owner'[n] = u <=> owner[n] = u
             /\ t \in rd'[n] <=> Reads(t, n)'
             /\ owner'[n] = t <=> Writes(t, n)'
             /\ owner'[n] # None => rd'[n] = {}
  BY <1>0, <1>1, <1>2, <1>4 DEF LocksExact
<1> QED
  BY <1>1, <1>2, <1>3, <1>4, LocksOfOthers

\* No lock is taken or given up.
LEMMA LocksKept ==
  ASSUME RwInv, NEW t \in L!Threads, Kept(t), rd' = rd, owner' = owner,
         \A n \in L!Nodes : /\ Reads(t, n)' <=> Reads(t, n)
                            /\ Writes(t, n)' <=> Writes(t, n)
  PROVE  TypeOK' /\ LocksExact'
<1>1. /\ rd \in [L!Nodes -> SUBSET L!Threads] /\ owner \in [L!Nodes -> L!Threads \cup {None}]
      /\ LocksExact
  BY DEF RwInv, TypeOK
<1>2. ASSUME NEW n \in L!Nodes
      PROVE  /\ t \in rd'[n] <=> Reads(t, n)'
             /\ owner'[n] = t <=> Writes(t, n)'
             /\ owner'[n] # None => rd'[n] = {}
  BY <1>1, <1>2 DEF LocksExact
<1> QED
  BY <1>1, <1>2, LocksOfOthers

\* What follows a node that nobody is exchanging.
LEMMA NextPlace ==
  ASSUME RwInv, NEW pos \in [L!Nodes -> L!Nodes], L!Order(pos), NEW n \in L!Nodes \ {Size},
         \/ owner[n] = None
         \/ \E t \in L!Threads : Reads(t, n)
         \/ \E t \in L!Threads : Writes(t, n) /\ pc[t] \notin {"relink2", "relink3"}
  PROVE  /\ next[n] \in L!Nodes /\ next[n] # n /\ pos[n] \in Nat
         /\ pos[next[n]] = pos[n] + 1
<1>1. L!Nodes \subseteq Nat
  BY DEF L!Nodes
<1>2. \/ owner[n] = None
      \/ owner[n] \in L!Threads /\ pc[owner[n]] \notin {"relink2", "relink3"}
  BY DEF RwInv, LocksExact
<1>3. L!Settled(n) = next[n]
  BY <1>2, SettledHeld DEF RwInv, AtSwap
<1>4. next[n] \in L!Nodes /\ pos[next[n]] = pos[n] + 1
  BY <1>3 DEF L!Order, L!InPlace
<1>5. pos[n] \in Nat
  BY <1>1
<1>6. next[n] # n
  BY <1>4, <1>5
<1> QED
  BY <1>4, <1>5, <1>6

LEMMA HeldPlace ==
  ASSUME RwInv, NEW pos \in [L!Nodes -> L!Nodes], L!Order(pos), NEW n \in L!Nodes \ {Size},
         NEW t \in L!Threads, Reads(t, n) \/ Writes(t, n),
         pc[t] \notin {"relink2", "relink3"}
  PROVE  pos[n] \in Nat /\ pos[next[n]] = pos[n] + 1
BY NextPlace

\* A step that writes no link keeps the invariant, if t's own knowledge and the
\* locks are right after it.
LEMMA QuietStep ==
  ASSUME RwInv, NEW t \in L!Threads, Kept(t), TypeOK' /\ LocksExact',
         t \in Counters => AtCount(t)',
         t \in Swappers => AtSwap(t)',
         \A pos \in [L!Nodes -> L!Nodes] :
            L!Order(pos) /\ t \in Swappers => L!FarFromEnd(t, pos)'
  PROVE  RwInv'
<1>1. ASSUME NEW u \in Counters, u # t PROVE AtCount(u)'
  <2>1. AtCount(u) /\ u \in L!Threads
    BY DEF RwInv, L!Threads
  <2> QED
    BY <1>1, <2>1 DEF AtCount, Kept
<1>2. ASSUME NEW u \in Swappers, u # t PROVE AtSwap(u)'
  <2>1. AtSwap(u) /\ u \in L!Threads /\ pc'[u] = pc[u] /\ loc'[u] = loc[u] /\ next' = next
    BY <1>2 DEF RwInv, L!Threads, Kept
  <2>2. \A n \in L!Nodes : owner[n] = u => owner'[n] = u
    <3> SUFFICES ASSUME NEW n \in L!Nodes, owner[n] = u PROVE owner'[n] = u
      OBVIOUS
    <3>1. Writes(u, n)
      BY <2>1 DEF RwInv, LocksExact
    <3>2. Writes(u, n)'
      BY <2>1, <3>1 DEF Writes
    <3> QED
      BY <2>1, <3>2 DEF LocksExact
  <2>3. L!Exchanging(u)'
    <3>1. L!Exchanging(u)
      BY <2>1 DEF AtSwap
    <3> QED
      BY <2>1, <2>2, <3>1 DEF L!Exchanging
  <2> QED
    BY <2>1, <2>3 DEF AtSwap
<1>3. L!LastStays'
  BY DEF RwInv, L!LastStays, Kept
<1>4. PICK pos \in [L!Nodes -> L!Nodes] : L!Order(pos)
  BY DEF RwInv
<1>5. \A n \in L!Nodes : L!Settled(n)' = L!Settled(n)
  BY SettledKept DEF Kept, L!Threads
<1>6. ASSUME NEW u \in Swappers PROVE L!FarFromEnd(u, pos)'
  <2>1. CASE u = t
    BY <1>4, <2>1
  <2>2. CASE u # t
    BY <1>4, <2>2 DEF L!Order, L!FarFromEnd, Kept, L!Threads
  <2> QED
    BY <2>1, <2>2
<1>7. L!Order(pos)'
  <2>1. Size \in L!Nodes
    BY RwNodeListAssumption DEF L!Nodes
  <2> QED
    BY <1>4, <1>5, <1>6, <2>1 DEF L!Order, L!InPlace
<1>8. \E order \in [L!Nodes -> L!Nodes] : L!Order(order)'
  BY <1>7, Zenon
<1>9. (\A u \in Counters : AtCount(u)') /\ (\A u \in Swappers : AtSwap(u)')
  BY <1>1, <1>2
<1> QED
  BY <1>3, <1>8, <1>9, Zenon DEF RwInv
-----------------------------------------------------------------------------
(* The counters *)

\* A step of t to the label "to" with the locals l.
LEMMA Moved ==
  ASSUME RwInv, NEW t \in L!Threads, NEW to \in Labels, NEW l \in L!Locals,
         pc' = [pc EXCEPT ![t] = to], loc' = [loc EXCEPT ![t] = l],
         UNCHANGED <<next, stop, main>>,
         pc[t] \notin {"relink2", "relink3"}, to \notin {"relink2", "relink3"}
  PROVE  Kept(t) /\ pc'[t] = to /\ loc'[t] = l
BY DEF RwInv, TypeOK, Kept

LEMMA CountStep ==
  ASSUME RwInv, NEW t \in Counters, count(t)
  PROVE  RwInv'
<1> DEFINE l == loc[t]
<1>1. /\ TypeOK /\ AtCount(t) /\ L!LastStays /\ t \in L!Threads /\ t \notin Swappers
      /\ Size \in L!Nodes /\ L!first \in L!Nodes /\ L!Null \notin L!Nodes /\ L!first # Size
  BY RwNodeListAssumption DEF RwInv, L!Threads, L!Nodes, L!first, L!Null
<1>2. l \in L!Locals /\ L!NoLocals \in L!Locals /\ next \in [L!Nodes -> L!NodeOrNull]
  BY <1>1 DEF TypeOK, L!NoLocals, L!Locals, L!NodeOrNull
<1> DEFINE L0 == {"unborn", "done", "count", "inner", "lock1", "lock2", "compare", "unlock1",
                  "unlock2"}
<1>0. loc = [loc EXCEPT ![t] = l] /\ L0 \subseteq Labels
  BY <1>1 DEF TypeOK, Labels, L!Labels
<1>3. PICK pos \in [L!Nodes -> L!Nodes] : L!Order(pos)
  BY DEF RwInv
<1> SUFFICES Kept(t) /\ TypeOK' /\ LocksExact' /\ AtCount(t)'
  BY <1>1, QuietStep
<1>4. CASE L!CountOuter(t) /\ UNCHANGED rd
  <2>1. PICK new \in L!Locals, to \in {"done", "inner"} :
           /\ pc' = [pc EXCEPT ![t] = to]
           /\ loc' = [loc EXCEPT ![t] = new]
           /\ to = "inner" => new.cur = L!first
    <3>1. CASE stop
      BY <1>0, <1>2, <1>4, <3>1 DEF L!CountOuter, L!Goto
    <3>2. CASE ~stop
      <4>1. [l EXCEPT !.cur = L!first] \in L!Locals /\ [l EXCEPT !.cur = L!first].cur = L!first
        BY <1>1, <1>2 DEF L!Locals, L!NodeOrNull
      <4>2. /\ pc' = [pc EXCEPT ![t] = "inner"]
            /\ loc' = [loc EXCEPT ![t] = [l EXCEPT !.cur = L!first]]
        BY <1>4, <3>2 DEF L!CountOuter, L!Goto
      <4> QED
        BY <4>1, <4>2
    <3> QED
      BY <3>1, <3>2
  <2>2. UNCHANGED <<next, owner, rd, stop, main>> /\ pc[t] = "count"
    BY <1>4 DEF L!CountOuter, L!Goto
  <2>3. Kept(t) /\ pc'[t] = to /\ loc'[t] = new
    BY <1>0, <1>1, <2>1, <2>2, Moved
  <2>4. TypeOK' /\ LocksExact'
    BY <1>1, <2>1, <2>2, <2>3, LocksKept DEF Reads, ReadsPrev, ReadsCur, ReadsTgt, ReadsNxt,
       Writes, WritesPrev, WritesCur, WritesNxt
  <2>5. AtCount(t)'
    BY <1>1, <2>1, <2>3 DEF AtCount, CountLabels, L!CountLabels
  <2> QED
    BY <2>3, <2>4, <2>5
<1>5. CASE L!CountInner(t) /\ UNCHANGED rd
  <2>1. PICK new \in L!Locals, to \in {"lock1", "count"} :
           /\ pc' = [pc EXCEPT ![t] = to]
           /\ loc' = [loc EXCEPT ![t] = new]
           /\ to = "lock1" => new = l /\ next[l.cur] # L!Null
    BY <1>0, <1>2, <1>5 DEF L!CountInner, L!Goto
  <2>2. UNCHANGED <<next, owner, rd, stop, main>> /\ pc[t] = "inner"
    BY <1>5 DEF L!CountInner, L!Goto
  <2>3. Kept(t) /\ pc'[t] = to /\ loc'[t] = new
    BY <1>0, <1>1, <2>1, <2>2, Moved
  <2>4. TypeOK' /\ LocksExact'
    BY <1>1, <2>1, <2>2, <2>3, LocksKept DEF Reads, ReadsPrev, ReadsCur, ReadsTgt, ReadsNxt,
       Writes, WritesPrev, WritesCur, WritesNxt
  <2>5. AtCount(t)'
    BY <1>1, <2>1, <2>2, <2>3 DEF AtCount, CountLabels, L!CountLabels, L!LastStays
  <2> QED
    BY <2>3, <2>4, <2>5
<1>6. CASE CountLock(t) /\ pc[t] = "lock1"
  <2>1. l.cur \in L!Nodes \ {Size}
    BY <1>1, <1>6 DEF AtCount
  <2>2. PICK new : new = [l EXCEPT !.tgt = next[l.cur]]
    OBVIOUS
  <2>3. /\ new \in L!Locals /\ new.cur = l.cur /\ new.tgt = next[l.cur]
    BY <1>2, <2>1, <2>2 DEF L!Locals
  <2>4. /\ UNCHANGED <<next, stop, main>> /\ rdlock(t, l.cur)
        /\ pc' = [pc EXCEPT ![t] = "lock2"] /\ loc' = [loc EXCEPT ![t] = new]
    BY <1>6, <2>2 DEF CountLock, L!Goto
  <2>5. Kept(t) /\ pc'[t] = "lock2" /\ loc'[t] = new
    BY <1>0, <1>1, <1>6, <2>3, <2>4, Moved
  <2>6. TypeOK' /\ LocksExact'
    <3>1. \A n \in L!Nodes : /\ Reads(t, n)' <=> Reads(t, n) \/ n = l.cur
                             /\ Writes(t, n)' <=> Writes(t, n)
      BY <1>6, <2>3, <2>5 DEF Reads, ReadsPrev, ReadsCur, ReadsTgt, ReadsNxt,
       Writes, WritesPrev, WritesCur, WritesNxt
    <3> QED
      BY <1>1, <2>1, <2>4, <2>5, <3>1, RdLocked
  <2>7. AtCount(t)'
    BY <2>1, <2>3, <2>4, <2>5 DEF AtCount, CountLabels, L!CountLabels
  <2> QED
    BY <2>5, <2>6, <2>7
<1>7. CASE CountLock(t) /\ pc[t] = "lock2"
  <2>1. l.cur \in L!Nodes \ {Size} /\ l.tgt = next[l.cur]
    BY <1>1, <1>7 DEF AtCount
  <2>2. l.tgt \in L!Nodes
    BY <1>1, <1>2, <2>1 DEF L!LastStays, L!NodeOrNull
  <2>3. /\ UNCHANGED <<next, stop, main>> /\ rdlock(t, l.tgt)
        /\ pc' = [pc EXCEPT ![t] = "compare"] /\ loc' = [loc EXCEPT ![t] = l]
    BY <1>0, <1>7 DEF CountLock, L!Goto
  <2>4. Kept(t) /\ pc'[t] = "compare" /\ loc'[t] = l
    BY <1>0, <1>1, <1>2, <1>7, <2>3, Moved
  <2>5. TypeOK' /\ LocksExact'
    <3>1. \A n \in L!Nodes : /\ Reads(t, n)' <=> Reads(t, n) \/ n = l.tgt
                             /\ Writes(t, n)' <=> Writes(t, n)
      BY <1>7, <2>4 DEF Reads, ReadsPrev, ReadsCur, ReadsTgt, ReadsNxt,
       Writes, WritesPrev, WritesCur, WritesNxt
    <3> QED
      BY <1>1, <2>2, <2>3, <2>4, <3>1, RdLocked
  <2>6. AtCount(t)'
    BY <2>1, <2>3, <2>4 DEF AtCount, CountLabels, L!CountLabels
  <2> QED
    BY <2>4, <2>5, <2>6
<1>8. CASE L!CountCompare(t) /\ UNCHANGED rd
  <2>1. pc[t] = "compare" /\ l.cur \in L!Nodes \ {Size} /\ l.tgt = next[l.cur]
    BY <1>1, <1>8 DEF AtCount, L!CountCompare, L!Goto
  <2>2. PICK new : new = [l EXCEPT !.nxt = next[l.cur]]
    OBVIOUS
  <2>3. new \in L!Locals /\ new.cur = l.cur /\ new.tgt = l.tgt /\ new.nxt = l.tgt
    BY <1>2, <2>1, <2>2 DEF L!Locals
  <2>4. /\ UNCHANGED <<next, owner, rd, stop, main>>
        /\ pc' = [pc EXCEPT ![t] = "unlock1"] /\ loc' = [loc EXCEPT ![t] = new]
    BY <1>8, <2>2 DEF L!CountCompare, L!Goto
  <2>5. Kept(t) /\ pc'[t] = "unlock1" /\ loc'[t] = new
    BY <1>0, <1>1, <2>1, <2>3, <2>4, Moved
  <2>6. TypeOK' /\ LocksExact'
    BY <1>1, <2>1, <2>3, <2>4, <2>5, LocksKept DEF Reads, ReadsPrev, ReadsCur, ReadsTgt, ReadsNxt,
       Writes, WritesPrev, WritesCur, WritesNxt
  <2>7. AtCount(t)'
    BY <2>1, <2>3, <2>4, <2>5 DEF AtCount, CountLabels, L!CountLabels
  <2> QED
    BY <2>5, <2>6, <2>7
<1>9. CASE CountUnlock(t) /\ pc[t] = "unlock1"
  <2>1. l.cur \in L!Nodes \ {Size} /\ l.tgt = next[l.cur] /\ l.nxt = l.tgt
    BY <1>1, <1>9 DEF AtCount
  <2>2. l.tgt \in L!Nodes /\ l.tgt # l.cur
    <3>1. Reads(t, l.cur)
      BY <1>9 DEF Reads, ReadsPrev, ReadsCur, ReadsTgt, ReadsNxt,
       Writes, WritesPrev, WritesCur, WritesNxt
    <3> QED
      BY <1>1, <1>3, <2>1, <3>1, NextPlace
  <2>3. /\ UNCHANGED <<next, stop, main>> /\ unlock(t, l.cur)
        /\ pc' = [pc EXCEPT ![t] = "unlock2"] /\ loc' = [loc EXCEPT ![t] = l]
    BY <1>0, <1>9 DEF CountUnlock, L!Goto
  <2>4. Kept(t) /\ pc'[t] = "unlock2" /\ loc'[t] = l
    BY <1>0, <1>1, <1>2, <1>9, <2>3, Moved
  <2>5. TypeOK' /\ LocksExact'
    <3>1. /\ ~Writes(t, l.cur)
          /\ \A n \in L!Nodes : /\ Reads(t, n)' <=> Reads(t, n) /\ n # l.cur
                                /\ Writes(t, n)' <=> Writes(t, n)
      BY <1>9, <2>1, <2>2, <2>4 DEF Reads, ReadsPrev, ReadsCur, ReadsTgt, ReadsNxt,
       Writes, WritesPrev, WritesCur, WritesNxt
    <3> QED
      BY <1>1, <2>1, <2>3, <2>4, <3>1, RdUnlocked
  <2>6. AtCount(t)'
    BY <2>1, <2>2, <2>3, <2>4 DEF AtCount, CountLabels, L!CountLabels
  <2> QED
    BY <2>4, <2>5, <2>6
<1>10. CASE CountUnlock(t) /\ pc[t] = "unlock2"
  <2>1. l.nxt \in L!Nodes
    BY <1>1, <1>10 DEF AtCount
  <2>2. PICK new : new = [L!NoLocals EXCEPT !.cur = l.nxt]
    OBVIOUS
  <2>3. new \in L!Locals /\ new.cur = l.nxt
    BY <1>2, <2>1, <2>2 DEF L!Locals, L!NoLocals, L!NodeOrNull
  <2>4. /\ UNCHANGED <<next, stop, main>> /\ unlock(t, l.nxt)
        /\ pc' = [pc EXCEPT ![t] = "inner"] /\ loc' = [loc EXCEPT ![t] = new]
    BY <1>10, <2>2 DEF CountUnlock, L!Goto
  <2>5. Kept(t) /\ pc'[t] = "inner" /\ loc'[t] = new
    BY <1>0, <1>1, <1>10, <2>3, <2>4, Moved
  <2>6. TypeOK' /\ LocksExact'
    <3>1. /\ ~Writes(t, l.nxt)
          /\ \A n \in L!Nodes : /\ Reads(t, n)' <=> Reads(t, n) /\ n # l.nxt
                                /\ Writes(t, n)' <=> Writes(t, n)
      BY <1>10, <2>5 DEF Reads, ReadsPrev, ReadsCur, ReadsTgt, ReadsNxt,
       Writes, WritesPrev, WritesCur, WritesNxt
    <3> QED
      BY <1>1, <2>1, <2>4, <2>5, <3>1, RdUnlocked
  <2>7. AtCount(t)'
    BY <2>1, <2>3, <2>5 DEF AtCount, CountLabels, L!CountLabels
  <2> QED
    BY <2>5, <2>6, <2>7
<1> QED
  <2>1. CountLock(t) => pc[t] \in {"lock1", "lock2"}
    BY DEF CountLock, L!Goto
  <2>2. CountUnlock(t) => pc[t] \in {"unlock1", "unlock2"}
    BY DEF CountUnlock, L!Goto
  <2> QED
    BY <1>4, <1>5, <1>6, <1>7, <1>8, <1>9, <1>10, <2>1, <2>2 DEF count
-----------------------------------------------------------------------------
(* The swappers *)

\* What every step of a swapper starts from.
LEMMA SwapFacts ==
  ASSUME RwInv, NEW t \in Swappers
  PROVE  /\ TypeOK /\ AtSwap(t) /\ L!LastStays /\ t \in L!Threads /\ t \notin Counters
         /\ Size \in L!Nodes /\ L!first \in L!Nodes /\ L!Null \notin L!Nodes
         /\ Size \in Nat /\ Size >= 4 /\ L!Nodes \subseteq Nat
         /\ loc[t] \in L!Locals /\ loc[t].left \in Nat /\ L!NoLocals \in L!Locals
         /\ next \in [L!Nodes -> L!NodeOrNull] /\ loc = [loc EXCEPT ![t] = loc[t]]
         /\ SwapLabels \subseteq Labels
<1>1. /\ TypeOK /\ AtSwap(t) /\ L!LastStays /\ t \in L!Threads /\ t \notin Counters
      /\ Size \in L!Nodes /\ L!first \in L!Nodes /\ L!Null \notin L!Nodes
      /\ Size \in Nat /\ Size >= 4 /\ L!Nodes \subseteq Nat
  BY RwNodeListAssumption DEF RwInv, L!Threads, L!Nodes, L!first, L!Null
<1>2. L!NoLocals \in L!Locals /\ SwapLabels \subseteq Labels
  BY DEF L!NoLocals, L!Locals, L!NodeOrNull, SwapLabels
<1>3. /\ loc[t] \in L!Locals /\ next \in [L!Nodes -> L!NodeOrNull]
      /\ loc = [loc EXCEPT ![t] = loc[t]]
  BY <1>1 DEF TypeOK
<1>4. loc[t].left \in Nat
  BY <1>3 DEF L!Locals
<1> QED
  BY <1>1, <1>2, <1>3, <1>4

\* The labels of a swapper.
LEMMA SwapLabelsAre ==
  SwapLabels = {"unborn", "done", "swap", "lock_first", "walk", "walk_lock", "walk_unlock",
                "check", "lock_cur", "lock_next", "relink1", "relink2", "relink3",
                "unlock_prev", "unlock_cur", "unlock_next", "rdunlock_prev", "rdunlock_cur",
                "rdunlock_next", "wrlock_prev", "wrlock_cur", "wrlock_next", "recheck"}
BY DEF SwapLabels, CountLabels, L!CountLabels, Labels, L!Labels

\* A step of a swapper to a label where it has no place yet, or to its places.
LEMMA SwapQuiet ==
  ASSUME RwInv, NEW t \in Swappers, Kept(t), TypeOK' /\ LocksExact', AtSwap(t)',
         \A pos \in [L!Nodes -> L!Nodes] : L!Order(pos) => L!FarFromEnd(t, pos)'
  PROVE  RwInv'
<1>1. t \in L!Threads /\ t \notin Counters
  BY SwapFacts
<1> QED
  BY <1>1, QuietStep

\* The way to the random place.
LEMMA SwapSetsOut ==
  ASSUME RwInv, NEW t \in Swappers,
         (L!SwapOuter(t) \/ L!SwapWalk(t)) /\ UNCHANGED rd
  PROVE  RwInv'
<1> DEFINE l == loc[t]
<1>1. /\ TypeOK /\ AtSwap(t) /\ L!LastStays /\ t \in L!Threads
      /\ Size \in Nat /\ Size >= 4 /\ l \in L!Locals /\ l.left \in Nat
      /\ L!Null \notin L!Nodes /\ next \in [L!Nodes -> L!NodeOrNull]
      /\ loc = [loc EXCEPT ![t] = l] /\ SwapLabels \subseteq Labels
  BY SwapFacts
<1>2. CASE L!SwapOuter(t)
  <2>1. PICK new \in L!Locals, to \in {"done", "lock_first"} :
           /\ pc' = [pc EXCEPT ![t] = to] /\ loc' = [loc EXCEPT ![t] = new]
           /\ to = "lock_first" => new.left <= Size - 4
    <3>1. CASE stop
      BY <1>1, <1>2, <3>1 DEF L!SwapOuter, L!Goto
    <3>2. CASE ~stop
      <4>1. PICK r \in 1..Size - 3 : /\ loc' = [loc EXCEPT ![t] = [l EXCEPT !.left = r - 1]]
                                     /\ pc' = [pc EXCEPT ![t] = "lock_first"]
        BY <1>2, <3>2 DEF L!SwapOuter, L!Goto, L!RandElem
      <4>2. r - 1 \in Nat /\ r - 1 <= Size - 4
        BY <1>1
      <4>3. /\ [l EXCEPT !.left = r - 1] \in L!Locals
            /\ [l EXCEPT !.left = r - 1].left = r - 1
        BY <1>1, <4>2 DEF L!Locals
      <4> QED
        BY <4>1, <4>2, <4>3
    <3> QED
      BY <3>1, <3>2
  <2>2. UNCHANGED <<next, owner, rd, stop, main>> /\ pc[t] = "swap"
    BY <1>2 DEF L!SwapOuter, L!Goto
  <2>3. Kept(t) /\ pc'[t] = to /\ loc'[t] = new
    BY <1>1, <2>1, <2>2, Moved, SwapLabelsAre
  <2>4. TypeOK' /\ LocksExact'
    <3>1. \A n \in L!Nodes : /\ Reads(t, n)' <=> Reads(t, n)
                             /\ Writes(t, n)' <=> Writes(t, n)
      BY <2>1, <2>2, <2>3 DEF Reads, ReadsPrev, ReadsCur, ReadsTgt, ReadsNxt,
       Writes, WritesPrev, WritesCur, WritesNxt
    <3> QED
      BY <1>1, <2>2, <2>3, <3>1, LocksKept
  <2>5. AtSwap(t)'
    BY <2>1, <2>3, SwapLabelsAre DEF AtSwap, HasPlace, ReadsPrev, WritesPrev, L!Exchanging
  <2>6. \A pos : L!FarFromEnd(t, pos)'
    BY <2>3 DEF L!FarFromEnd
  <2> QED
    BY <2>3, <2>4, <2>5, <2>6, SwapQuiet
<1>3. CASE L!SwapWalk(t)
  <2>1. pc[t] = "walk" /\ l.prev \in L!Nodes /\ UNCHANGED <<next, owner, rd, stop, main>>
    BY <1>1, <1>3 DEF L!SwapWalk, L!Goto, AtSwap, ReadsPrev
  <2>2. PICK new \in L!Locals, to \in {"walk_lock", "check"} :
           /\ pc' = [pc EXCEPT ![t] = to] /\ loc' = [loc EXCEPT ![t] = new]
           /\ new.prev = l.prev /\ new.left = l.left
           /\ to = "walk_lock" => l.left > 0 /\ new.tgt = next[l.prev] /\ new.tgt \in L!Nodes
    <3>1. CASE l.left > 0 /\ next[l.prev] # L!Null
      <4>1. next[l.prev] \in L!Nodes
        BY <1>1, <2>1, <3>1 DEF L!NodeOrNull
      <4>2. PICK new : new = [l EXCEPT !.tgt = next[l.prev]]
        OBVIOUS
      <4>3. /\ new \in L!Locals /\ new.prev = l.prev /\ new.left = l.left
            /\ new.tgt = next[l.prev]
        BY <1>1, <4>1, <4>2 DEF L!Locals, L!NodeOrNull
      <4>4. pc' = [pc EXCEPT ![t] = "walk_lock"] /\ loc' = [loc EXCEPT ![t] = new]
        BY <1>1, <1>3, <3>1, <4>2 DEF L!SwapWalk, L!Goto
      <4> QED
        BY <3>1, <4>1, <4>3, <4>4
    <3>2. CASE ~(l.left > 0 /\ next[l.prev] # L!Null)
      BY <1>1, <1>3, <3>2 DEF L!SwapWalk, L!Goto
    <3> QED
      BY <3>1, <3>2
  <2>3. Kept(t) /\ pc'[t] = to /\ loc'[t] = new
    BY <1>1, <2>1, <2>2, Moved, SwapLabelsAre
  <2>4. TypeOK' /\ LocksExact'
    <3>1. \A n \in L!Nodes : /\ Reads(t, n)' <=> Reads(t, n)
                             /\ Writes(t, n)' <=> Writes(t, n)
      BY <2>1, <2>2, <2>3 DEF Reads, ReadsPrev, ReadsCur, ReadsTgt, ReadsNxt,
       Writes, WritesPrev, WritesCur, WritesNxt
    <3> QED
      BY <1>1, <2>1, <2>3, <3>1, LocksKept
  <2>5. AtSwap(t)'
    BY <2>1, <2>2, <2>3, SwapLabelsAre DEF AtSwap, HasPlace, ReadsPrev, WritesPrev, L!Exchanging
  <2>6. ASSUME NEW pos \in [L!Nodes -> L!Nodes], L!Order(pos) PROVE L!FarFromEnd(t, pos)'
    <3>1. pos[l.prev] + l.left <= Size - 3 /\ pos[l.prev] \in Nat
      BY <2>1, <2>6, SwapFacts DEF L!Order, L!FarFromEnd
    <3> QED
      BY <1>1, <2>2, <2>3, <3>1 DEF L!FarFromEnd
  <2> QED
    BY <2>3, <2>4, <2>5, <2>6, SwapQuiet
<1> QED
  BY <1>2, <1>3

\* Hand over hand.
LEMMA SwapFinds ==
  ASSUME RwInv, NEW t \in Swappers, SwapFind(t)
  PROVE  RwInv'
<1> DEFINE l == loc[t]
<1>1. /\ TypeOK /\ AtSwap(t) /\ L!LastStays /\ t \in L!Threads
      /\ Size \in Nat /\ Size >= 4 /\ l \in L!Locals /\ l.left \in Nat
      /\ L!first \in L!Nodes /\ Size \in L!Nodes /\ L!Nodes \subseteq Nat
      /\ L!Null \notin L!Nodes /\ next \in [L!Nodes -> L!NodeOrNull]
      /\ loc = [loc EXCEPT ![t] = l] /\ SwapLabels \subseteq Labels
  BY SwapFacts
<1>2. UNCHANGED <<next, stop, main>>
  BY DEF SwapFind
<1>3. CASE pc[t] = "lock_first"
  <2>1. l.left <= Size - 4
    BY <1>1, <1>3 DEF AtSwap
  <2>2. PICK new : new = [l EXCEPT !.prev = L!first]
    OBVIOUS
  <2>3. new \in L!Locals /\ new.prev = L!first /\ new.left = l.left
    BY <1>1, <2>2 DEF L!Locals, L!NodeOrNull
  <2>4. /\ rdlock(t, L!first)
        /\ pc' = [pc EXCEPT ![t] = "walk"] /\ loc' = [loc EXCEPT ![t] = new]
    BY <1>3, <2>2 DEF SwapFind, L!Goto
  <2>5. Kept(t) /\ pc'[t] = "walk" /\ loc'[t] = new
    BY <1>1, <1>2, <1>3, <2>3, <2>4, Moved, SwapLabelsAre
  <2>6. TypeOK' /\ LocksExact'
    <3>1. \A n \in L!Nodes : /\ Reads(t, n)' <=> Reads(t, n) \/ n = L!first
                             /\ Writes(t, n)' <=> Writes(t, n)
      BY <1>3, <2>3, <2>5 DEF Reads, ReadsPrev, ReadsCur, ReadsTgt, ReadsNxt,
       Writes, WritesPrev, WritesCur, WritesNxt
    <3> QED
      BY <1>1, <2>4, <2>5, <3>1, RdLocked
  <2>7. AtSwap(t)'
    BY <1>1, <2>3, <2>5, SwapLabelsAre DEF AtSwap, HasPlace, ReadsPrev, WritesPrev, L!Exchanging
  <2>8. ASSUME NEW pos \in [L!Nodes -> L!Nodes], L!Order(pos) PROVE L!FarFromEnd(t, pos)'
    <3>1. pos[L!first] = 1
      BY <2>8 DEF L!Order, L!InPlace
    <3> QED
      BY <1>1, <2>1, <2>3, <2>5, <3>1 DEF L!FarFromEnd
  <2> QED
    BY <2>5, <2>6, <2>7, <2>8, SwapQuiet
<1>4. CASE pc[t] = "walk_lock"
  <2>1. l.prev \in L!Nodes /\ l.tgt \in L!Nodes /\ l.tgt = next[l.prev] /\ l.left > 0
    BY <1>1, <1>4 DEF AtSwap, ReadsPrev
  <2>2. /\ rdlock(t, l.tgt)
        /\ pc' = [pc EXCEPT ![t] = "walk_unlock"] /\ loc' = [loc EXCEPT ![t] = l]
    BY <1>1, <1>4 DEF SwapFind, L!Goto
  <2>3. Kept(t) /\ pc'[t] = "walk_unlock" /\ loc'[t] = l
    BY <1>1, <1>2, <1>4, <2>2, Moved, SwapLabelsAre
  <2>4. TypeOK' /\ LocksExact'
    <3>1. \A n \in L!Nodes : /\ Reads(t, n)' <=> Reads(t, n) \/ n = l.tgt
                             /\ Writes(t, n)' <=> Writes(t, n)
      BY <1>4, <2>3 DEF Reads, ReadsPrev, ReadsCur, ReadsTgt, ReadsNxt,
       Writes, WritesPrev, WritesCur, WritesNxt
    <3> QED
      BY <1>1, <2>1, <2>2, <2>3, <3>1, RdLocked
  <2>5. AtSwap(t)'
    BY <1>2, <2>1, <2>3, SwapLabelsAre DEF AtSwap, HasPlace, ReadsPrev, WritesPrev, L!Exchanging
  <2>6. ASSUME NEW pos \in [L!Nodes -> L!Nodes], L!Order(pos) PROVE L!FarFromEnd(t, pos)'
    BY <1>4, <2>3, <2>6 DEF L!Order, L!FarFromEnd
  <2> QED
    BY <2>3, <2>4, <2>5, <2>6, SwapQuiet
<1>5. CASE pc[t] = "walk_unlock"
  <2>1. l.prev \in L!Nodes /\ l.tgt \in L!Nodes /\ l.tgt = next[l.prev] /\ l.left > 0
    BY <1>1, <1>5 DEF AtSwap, ReadsPrev
  <2>2. l.prev \in L!Nodes \ {Size} /\ Reads(t, l.prev)
    BY <1>1, <1>5, <2>1 DEF L!LastStays, Reads, ReadsPrev
  <2>3. ASSUME NEW pos \in [L!Nodes -> L!Nodes], L!Order(pos)
        PROVE  pos[l.tgt] = pos[l.prev] + 1 /\ pos[l.prev] \in Nat /\ l.tgt # l.prev
    BY <1>1, <2>1, <2>2, <2>3, NextPlace
  <2>4. l.tgt # l.prev
    BY <2>3 DEF RwInv
  <2>5. PICK new : new = [l EXCEPT !.prev = next[l.prev], !.left = l.left - 1, !.tgt = L!Null]
    OBVIOUS
  <2>6. l.left - 1 \in Nat /\ L!Null \in L!NodeOrNull
    BY <1>1, <2>1 DEF L!NodeOrNull
  <2>7. new \in L!Locals /\ new.prev = l.tgt /\ new.left = l.left - 1
    BY <1>1, <2>1, <2>5, <2>6 DEF L!Locals
  <2>8. /\ unlock(t, l.prev)
        /\ pc' = [pc EXCEPT ![t] = "walk"] /\ loc' = [loc EXCEPT ![t] = new]
    BY <1>5, <2>5 DEF SwapFind, L!Goto
  <2>9. Kept(t) /\ pc'[t] = "walk" /\ loc'[t] = new
    BY <1>1, <1>2, <1>5, <2>7, <2>8, Moved, SwapLabelsAre
  <2>10. TypeOK' /\ LocksExact'
    <3>1. /\ ~Writes(t, l.prev)
          /\ \A n \in L!Nodes : /\ Reads(t, n)' <=> Reads(t, n) /\ n # l.prev
                                /\ Writes(t, n)' <=> Writes(t, n)
      BY <1>5, <2>4, <2>7, <2>9 DEF Reads, ReadsPrev, ReadsCur, ReadsTgt, ReadsNxt,
       Writes, WritesPrev, WritesCur, WritesNxt
    <3> QED
      BY <1>1, <2>1, <2>8, <2>9, <3>1, RdUnlocked
  <2>11. AtSwap(t)'
    BY <2>1, <2>7, <2>9, SwapLabelsAre DEF AtSwap, HasPlace, ReadsPrev, WritesPrev, L!Exchanging
  <2>12. ASSUME NEW pos \in [L!Nodes -> L!Nodes], L!Order(pos) PROVE L!FarFromEnd(t, pos)'
    <3>1. pos[l.prev] + l.left <= Size - 3
      BY <1>5, <2>12 DEF L!Order, L!FarFromEnd
    <3>2. pos[l.tgt] + (l.left - 1) <= Size - 3
      BY <1>1, <2>3, <2>12, <3>1
    <3> QED
      BY <2>7, <2>9, <3>2 DEF L!FarFromEnd
  <2> QED
    BY <2>9, <2>10, <2>11, <2>12, SwapQuiet
<1> QED
  BY <1>3, <1>4, <1>5 DEF SwapFind, L!Goto

\* The test for two more nodes.
LEMMA SwapChecks ==
  ASSUME RwInv, NEW t \in Swappers, SwapCheck(t)
  PROVE  RwInv'
<1> DEFINE l == loc[t]
<1>1. /\ TypeOK /\ AtSwap(t) /\ L!LastStays /\ t \in L!Threads
      /\ l \in L!Locals /\ L!Null \notin L!Nodes /\ next \in [L!Nodes -> L!NodeOrNull]
      /\ SwapLabels \subseteq Labels
  BY SwapFacts
<1>2. pc[t] = "check" /\ l.prev \in L!Nodes /\ UNCHANGED <<next, stop, main>>
  BY <1>1 DEF SwapCheck, L!Goto, AtSwap, ReadsPrev
<1>3. CASE L!Enough(t)
  <2>0. "lock_cur" \in Labels
    BY DEF Labels, L!Labels
  <2>1. next[l.prev] \in L!Nodes
    BY <1>1, <1>2, <1>3 DEF L!Enough, L!NodeOrNull
  <2>2. PICK new : new = [l EXCEPT !.tgt = next[l.prev]]
    OBVIOUS
  <2>3. new \in L!Locals /\ new.prev = l.prev /\ new.tgt = next[l.prev]
    BY <1>1, <2>1, <2>2 DEF L!Locals, L!NodeOrNull
  <2>4. /\ pc' = [pc EXCEPT ![t] = "lock_cur"] /\ loc' = [loc EXCEPT ![t] = new]
        /\ owner' = owner /\ rd' = rd
    BY <1>3, <2>2 DEF SwapCheck, L!Goto
  <2>5. Kept(t) /\ pc'[t] = "lock_cur" /\ loc'[t] = new
    BY <1>1, <1>2, <2>0, <2>3, <2>4, Moved
  <2>6. TypeOK' /\ LocksExact'
    <3>1. \A n \in L!Nodes : /\ Reads(t, n)' <=> Reads(t, n)
                             /\ Writes(t, n)' <=> Writes(t, n)
      BY <1>2, <2>3, <2>5 DEF Reads, ReadsPrev, ReadsCur, ReadsTgt, ReadsNxt,
       Writes, WritesPrev, WritesCur, WritesNxt
    <3> QED
      BY <1>1, <2>4, <2>5, <3>1, LocksKept
  <2>7. AtSwap(t)'
    BY <1>2, <2>1, <2>3, <2>5, SwapLabelsAre
       DEF AtSwap, HasPlace, ReadsPrev, WritesPrev, L!Exchanging
  <2>8. ASSUME NEW pos \in [L!Nodes -> L!Nodes], L!Order(pos) PROVE L!FarFromEnd(t, pos)'
    BY <1>2, <2>3, <2>5, <2>8 DEF L!Order, L!FarFromEnd
  <2> QED
    BY <2>5, <2>6, <2>7, <2>8, SwapQuiet
<1>4. CASE ~L!Enough(t)
  <2>1. PICK new : new = [l EXCEPT !.tgt = L!Null]
    OBVIOUS
  <2>2. new \in L!Locals
    BY <1>1, <2>1 DEF L!Locals, L!NodeOrNull
  <2>3. /\ pc' = [pc EXCEPT ![t] = "swap"] /\ loc' = [loc EXCEPT ![t] = new]
        /\ unlock(t, l.prev)
    BY <1>4, <2>1 DEF SwapCheck, L!Goto
  <2>4. Kept(t) /\ pc'[t] = "swap" /\ loc'[t] = new
    BY <1>1, <1>2, <2>2, <2>3, Moved, SwapLabelsAre
  <2>5. TypeOK' /\ LocksExact'
    <3>1. /\ ~Writes(t, l.prev)
          /\ \A n \in L!Nodes : /\ Reads(t, n)' <=> Reads(t, n) /\ n # l.prev
                                /\ Writes(t, n)' <=> Writes(t, n)
      BY <1>2, <2>4 DEF Reads, ReadsPrev, ReadsCur, ReadsTgt, ReadsNxt,
       Writes, WritesPrev, WritesCur, WritesNxt
    <3> QED
      BY <1>1, <1>2, <2>3, <2>4, <3>1, RdUnlocked
  <2>6. AtSwap(t)'
    BY <2>4, SwapLabelsAre DEF AtSwap, HasPlace, ReadsPrev, WritesPrev, L!Exchanging
  <2>7. \A pos : L!FarFromEnd(t, pos)'
    BY <2>4 DEF L!FarFromEnd
  <2> QED
    BY <2>4, <2>5, <2>6, <2>7, SwapQuiet
<1> QED
  BY <1>3, <1>4

\* The nodes found, with read locks.
LEMMA SwapReads ==
  ASSUME RwInv, NEW t \in Swappers, SwapRdLock(t)
  PROVE  RwInv'
<1> DEFINE l == loc[t]
<1>1. /\ TypeOK /\ AtSwap(t) /\ L!LastStays /\ t \in L!Threads
      /\ Size \in Nat /\ Size >= 4 /\ Size \in L!Nodes /\ L!Nodes \subseteq Nat
      /\ l \in L!Locals /\ L!Null \notin L!Nodes /\ next \in [L!Nodes -> L!NodeOrNull]
  BY SwapFacts
<1>2. rdlock(t, l.tgt) /\ UNCHANGED <<next, stop, main>>
  BY DEF SwapRdLock
<1>3. L!Null \in L!NodeOrNull /\ L!Nodes \subseteq L!NodeOrNull
  BY DEF L!NodeOrNull
<1>4. CASE pc[t] = "lock_cur"
  <2>1. l.prev \in L!Nodes /\ l.tgt \in L!Nodes /\ l.tgt = next[l.prev]
    BY <1>1, <1>4 DEF AtSwap, ReadsPrev
  <2>2. l.prev \in L!Nodes \ {Size} /\ Reads(t, l.prev)
    BY <1>1, <1>4, <2>1 DEF L!LastStays, Reads, ReadsPrev
  <2>3. PICK pos \in [L!Nodes -> L!Nodes] : L!Order(pos)
    BY DEF RwInv
  <2>4. pos[l.prev] <= Size - 3 /\ pos[Size] = Size
    BY <1>4, <2>3 DEF L!Order, L!FarFromEnd, L!InPlace
  <2>5. pos[l.tgt] = pos[l.prev] + 1 /\ pos[l.prev] \in Nat /\ l.tgt # l.prev
    BY <1>1, <2>1, <2>2, <2>3, NextPlace
  <2>6. l.tgt # Size
    BY <1>1, <2>4, <2>5
  <2>7. next[l.tgt] \in L!Nodes
    BY <1>1, <2>1, <2>6 DEF L!LastStays, L!NodeOrNull
  <2>8. PICK new : new = [l EXCEPT !.cur = l.tgt, !.tgt = next[l.tgt]]
    OBVIOUS
  <2>9. new \in L!Locals /\ new.prev = l.prev /\ new.cur = l.tgt /\ new.tgt = next[l.tgt]
    BY <1>1, <1>3, <2>1, <2>7, <2>8 DEF L!Locals
  <2>10. pc' = [pc EXCEPT ![t] = "lock_next"] /\ loc' = [loc EXCEPT ![t] = new]
    BY <1>4, <2>1, <2>8 DEF SwapRdLock, L!Goto
  <2>11. "lock_next" \in Labels
    BY DEF Labels, L!Labels
  <2>12. Kept(t) /\ pc'[t] = "lock_next" /\ loc'[t] = new
    BY <1>1, <1>2, <1>4, <2>9, <2>10, <2>11, Moved
  <2>13. TypeOK' /\ LocksExact'
    <3>1. \A n \in L!Nodes : /\ Reads(t, n)' <=> Reads(t, n) \/ n = l.tgt
                             /\ Writes(t, n)' <=> Writes(t, n)
      BY <1>4, <2>9, <2>12 DEF Reads, ReadsPrev, ReadsCur, ReadsTgt, ReadsNxt,
       Writes, WritesPrev, WritesCur, WritesNxt
    <3> QED
      BY <1>1, <1>2, <2>1, <2>12, <3>1, RdLocked
  <2>14. AtSwap(t)'
    BY <1>2, <2>1, <2>7, <2>9, <2>12, SwapLabelsAre
       DEF AtSwap, HasPlace, ReadsPrev, WritesPrev, L!Exchanging
  <2>15. ASSUME NEW order \in [L!Nodes -> L!Nodes], L!Order(order)
         PROVE  L!FarFromEnd(t, order)'
    BY <1>4, <2>9, <2>12, <2>15 DEF L!Order, L!FarFromEnd
  <2> QED
    BY <2>12, <2>13, <2>14, <2>15, SwapQuiet
<1>5. CASE pc[t] = "lock_next"
  <2>1. /\ l.prev \in L!Nodes /\ l.cur \in L!Nodes /\ l.tgt \in L!Nodes
        /\ l.cur = next[l.prev] /\ l.tgt = next[l.cur]
    BY <1>1, <1>5 DEF AtSwap, ReadsPrev
  <2>2. /\ l.prev \in L!Nodes \ {Size} /\ Reads(t, l.prev)
        /\ l.cur \in L!Nodes \ {Size} /\ Reads(t, l.cur)
    BY <1>1, <1>5, <2>1 DEF L!LastStays, Reads, ReadsPrev, ReadsCur
  <2>3. PICK pos \in [L!Nodes -> L!Nodes] : L!Order(pos)
    BY DEF RwInv
  <2>4. pos[l.prev] <= Size - 3 /\ pos[Size] = Size
    BY <1>5, <2>3 DEF L!Order, L!FarFromEnd, L!InPlace
  <2>5. pos[l.cur] = pos[l.prev] + 1 /\ pos[l.prev] \in Nat
    BY <1>1, <1>5, <2>1, <2>2, <2>3, HeldPlace
  <2>6. pos[l.tgt] = pos[l.cur] + 1
    BY <1>1, <1>5, <2>1, <2>2, <2>3, HeldPlace
  <2>7. l.tgt # Size /\ l.prev # l.cur /\ l.prev # l.tgt /\ l.cur # l.tgt
    BY <1>1, <2>4, <2>5, <2>6
  <2>8. PICK new : new = [l EXCEPT !.nxt = l.tgt, !.tgt = L!Null]
    OBVIOUS
  <2>9. new \in L!Locals /\ new.prev = l.prev /\ new.cur = l.cur /\ new.nxt = l.tgt
    BY <1>1, <1>3, <2>1, <2>8 DEF L!Locals
  <2>10. pc' = [pc EXCEPT ![t] = "rdunlock_prev"] /\ loc' = [loc EXCEPT ![t] = new]
    BY <1>5, <2>1, <2>8 DEF SwapRdLock, L!Goto
  <2>11. "rdunlock_prev" \in Labels
    BY DEF Labels
  <2>12. Kept(t) /\ pc'[t] = "rdunlock_prev" /\ loc'[t] = new
    BY <1>1, <1>2, <1>5, <2>9, <2>10, <2>11, Moved
  <2>13. TypeOK' /\ LocksExact'
    <3>1. \A n \in L!Nodes : /\ Reads(t, n)' <=> Reads(t, n) \/ n = l.tgt
                             /\ Writes(t, n)' <=> Writes(t, n)
      BY <1>5, <2>9, <2>12 DEF Reads, ReadsPrev, ReadsCur, ReadsTgt, ReadsNxt,
       Writes, WritesPrev, WritesCur, WritesNxt
    <3> QED
      BY <1>1, <1>2, <2>1, <2>12, <3>1, RdLocked
  <2>14. AtSwap(t)'
    BY <1>2, <2>1, <2>2, <2>7, <2>9, <2>12, SwapLabelsAre
       DEF AtSwap, HasPlace, ReadsPrev, WritesPrev, L!Exchanging
  <2>15. \A order : L!FarFromEnd(t, order)'
    BY <2>12 DEF L!FarFromEnd
  <2> QED
    BY <2>12, <2>13, <2>14, <2>15, SwapQuiet
<1> QED
  BY <1>4, <1>5 DEF SwapRdLock, L!Goto

\* From one label to another with the same three nodes.
LEMMA PlaceMoved ==
  ASSUME RwInv, NEW t \in Swappers, NEW to,
         {pc[t], to} \subseteq HasPlace \ {"relink1", "relink2", "relink3"},
         pc' = [pc EXCEPT ![t] = to], UNCHANGED <<next, stop, loc, main>>
  PROVE  /\ Kept(t) /\ pc'[t] = to /\ loc'[t] = loc[t]
         /\ TypeOK' /\ LocksExact' => RwInv'
<1> DEFINE l == loc[t]
<1>1. /\ AtSwap(t) /\ t \in L!Threads /\ l \in L!Locals /\ loc = [loc EXCEPT ![t] = l]
  BY SwapFacts
<1>2. HasPlace \subseteq Labels /\ HasPlace \subseteq SwapLabels
  BY SwapLabelsAre DEF HasPlace, WritesPrev, Labels, L!Labels
<1>3. Kept(t) /\ pc'[t] = to /\ loc'[t] = l
  BY <1>1, <1>2, Moved
<1>4. AtSwap(t)'
  BY <1>1, <1>2, <1>3 DEF AtSwap, HasPlace, ReadsPrev, WritesPrev, L!Exchanging
<1>5. \A order : L!FarFromEnd(t, order)'
  BY <1>3 DEF L!FarFromEnd, HasPlace, WritesPrev
<1> QED
  BY <1>3, <1>4, <1>5, SwapQuiet

LEMMA Place ==
  ASSUME RwInv, NEW t \in Swappers, pc[t] \in HasPlace
  PROVE  /\ loc[t].prev \in L!Nodes \ {Size} /\ loc[t].cur \in L!Nodes \ {Size}
         /\ loc[t].nxt \in L!Nodes \ {Size} /\ t \in L!Threads
         /\ loc[t].prev # loc[t].cur /\ loc[t].prev # loc[t].nxt /\ loc[t].cur # loc[t].nxt
BY SwapFacts DEF AtSwap

\* The read locks are released, and the place may go stale.
LEMMA SwapForgets ==
  ASSUME RwInv, NEW t \in Swappers, SwapRdUnlock(t)
  PROVE  RwInv'
<1> DEFINE l == loc[t]
<1>1. UNCHANGED <<next, stop, loc, main>>
  BY DEF SwapRdUnlock
<1>2. CASE pc[t] = "rdunlock_prev"
  <2>0. pc[t] \in HasPlace
    BY <1>2 DEF HasPlace, WritesPrev
  <2>1. /\ l.prev \in L!Nodes /\ l.cur \in L!Nodes /\ l.nxt \in L!Nodes /\ t \in L!Threads
        /\ l.prev # l.cur /\ l.prev # l.nxt /\ l.cur # l.nxt
    BY <2>0, Place
  <2>2. pc' = [pc EXCEPT ![t] = "rdunlock_cur"] /\ unlock(t, l.prev)
    BY <1>2 DEF SwapRdUnlock, L!Goto
  <2>3. {pc[t], "rdunlock_cur"} \subseteq HasPlace \ {"relink1", "relink2", "relink3"}
    BY <1>2 DEF HasPlace, WritesPrev
  <2>4. /\ Kept(t) /\ pc'[t] = "rdunlock_cur" /\ loc'[t] = l
        /\ TypeOK' /\ LocksExact' => RwInv'
    BY <1>1, <2>2, <2>3, PlaceMoved
  <2>5. TypeOK' /\ LocksExact'
    <3>1. /\ ~Writes(t, l.prev)
          /\ \A n \in L!Nodes : /\ Reads(t, n)' <=> Reads(t, n) /\ n # l.prev
                                /\ Writes(t, n)' <=> Writes(t, n)
      BY <1>2, <2>1, <2>4 DEF Reads, ReadsPrev, ReadsCur, ReadsTgt, ReadsNxt,
       Writes, WritesPrev, WritesCur, WritesNxt
    <3> QED
      BY <2>1, <2>2, <2>4, <3>1, RdUnlocked
  <2> QED
    BY <2>4, <2>5
<1>3. CASE pc[t] = "rdunlock_cur"
  <2>0. pc[t] \in HasPlace
    BY <1>3 DEF HasPlace, WritesPrev
  <2>1. /\ l.prev \in L!Nodes /\ l.cur \in L!Nodes /\ l.nxt \in L!Nodes /\ t \in L!Threads
        /\ l.prev # l.cur /\ l.prev # l.nxt /\ l.cur # l.nxt
    BY <2>0, Place
  <2>2. pc' = [pc EXCEPT ![t] = "rdunlock_next"] /\ unlock(t, l.cur)
    BY <1>3 DEF SwapRdUnlock, L!Goto
  <2>3. {pc[t], "rdunlock_next"} \subseteq HasPlace \ {"relink1", "relink2", "relink3"}
    BY <1>3 DEF HasPlace, WritesPrev
  <2>4. /\ Kept(t) /\ pc'[t] = "rdunlock_next" /\ loc'[t] = l
        /\ TypeOK' /\ LocksExact' => RwInv'
    BY <1>1, <2>2, <2>3, PlaceMoved
  <2>5. TypeOK' /\ LocksExact'
    <3>1. /\ ~Writes(t, l.cur)
          /\ \A n \in L!Nodes : /\ Reads(t, n)' <=> Reads(t, n) /\ n # l.cur
                                /\ Writes(t, n)' <=> Writes(t, n)
      BY <1>3, <2>1, <2>4 DEF Reads, ReadsPrev, ReadsCur, ReadsTgt, ReadsNxt,
       Writes, WritesPrev, WritesCur, WritesNxt
    <3> QED
      BY <2>1, <2>2, <2>4, <3>1, RdUnlocked
  <2> QED
    BY <2>4, <2>5
<1>4. CASE pc[t] = "rdunlock_next"
  <2>0. pc[t] \in HasPlace
    BY <1>4 DEF HasPlace, WritesPrev
  <2>1. /\ l.prev \in L!Nodes /\ l.cur \in L!Nodes /\ l.nxt \in L!Nodes /\ t \in L!Threads
        /\ l.prev # l.cur /\ l.prev # l.nxt /\ l.cur # l.nxt
    BY <2>0, Place
  <2>2. pc' = [pc EXCEPT ![t] = "wrlock_prev"] /\ unlock(t, l.nxt)
    BY <1>4 DEF SwapRdUnlock, L!Goto
  <2>3. {pc[t], "wrlock_prev"} \subseteq HasPlace \ {"relink1", "relink2", "relink3"}
    BY <1>4 DEF HasPlace, WritesPrev
  <2>4. /\ Kept(t) /\ pc'[t] = "wrlock_prev" /\ loc'[t] = l
        /\ TypeOK' /\ LocksExact' => RwInv'
    BY <1>1, <2>2, <2>3, PlaceMoved
  <2>5. TypeOK' /\ LocksExact'
    <3>1. /\ ~Writes(t, l.nxt)
          /\ \A n \in L!Nodes : /\ Reads(t, n)' <=> Reads(t, n) /\ n # l.nxt
                                /\ Writes(t, n)' <=> Writes(t, n)
      BY <1>4, <2>1, <2>4 DEF Reads, ReadsPrev, ReadsCur, ReadsTgt, ReadsNxt,
       Writes, WritesPrev, WritesCur, WritesNxt
    <3> QED
      BY <2>1, <2>2, <2>4, <3>1, RdUnlocked
  <2> QED
    BY <2>4, <2>5
<1> QED
  BY <1>2, <1>3, <1>4 DEF SwapRdUnlock, L!Goto

\* The write locks are taken.
LEMMA SwapWrites ==
  ASSUME RwInv, NEW t \in Swappers, SwapWrLock(t)
  PROVE  RwInv'
<1> DEFINE l == loc[t]
<1>1. UNCHANGED <<next, stop, loc, main>>
  BY DEF SwapWrLock
<1>2. CASE pc[t] = "wrlock_prev"
  <2>0. pc[t] \in HasPlace
    BY <1>2 DEF HasPlace, WritesPrev
  <2>1. /\ l.prev \in L!Nodes /\ l.cur \in L!Nodes /\ l.nxt \in L!Nodes /\ t \in L!Threads
        /\ l.prev # l.cur /\ l.prev # l.nxt /\ l.cur # l.nxt
    BY <2>0, Place
  <2>2. pc' = [pc EXCEPT ![t] = "wrlock_cur"] /\ wrlock(t, l.prev)
    BY <1>2 DEF SwapWrLock, L!Goto
  <2>3. {pc[t], "wrlock_cur"} \subseteq HasPlace \ {"relink1", "relink2", "relink3"}
    BY <1>2 DEF HasPlace, WritesPrev
  <2>4. /\ Kept(t) /\ pc'[t] = "wrlock_cur" /\ loc'[t] = l
        /\ TypeOK' /\ LocksExact' => RwInv'
    BY <1>1, <2>2, <2>3, PlaceMoved
  <2>5. TypeOK' /\ LocksExact'
    <3>1. \A n \in L!Nodes : /\ Reads(t, n)' <=> Reads(t, n)
                             /\ Writes(t, n)' <=> Writes(t, n) \/ n = l.prev
      BY <1>2, <2>1, <2>4 DEF Reads, ReadsPrev, ReadsCur, ReadsTgt, ReadsNxt,
       Writes, WritesPrev, WritesCur, WritesNxt
    <3> QED
      BY <2>1, <2>2, <2>4, <3>1, WrLocked
  <2> QED
    BY <2>4, <2>5
<1>3. CASE pc[t] = "wrlock_cur"
  <2>0. pc[t] \in HasPlace
    BY <1>3 DEF HasPlace, WritesPrev
  <2>1. /\ l.prev \in L!Nodes /\ l.cur \in L!Nodes /\ l.nxt \in L!Nodes /\ t \in L!Threads
        /\ l.prev # l.cur /\ l.prev # l.nxt /\ l.cur # l.nxt
    BY <2>0, Place
  <2>2. pc' = [pc EXCEPT ![t] = "wrlock_next"] /\ wrlock(t, l.cur)
    BY <1>3 DEF SwapWrLock, L!Goto
  <2>3. {pc[t], "wrlock_next"} \subseteq HasPlace \ {"relink1", "relink2", "relink3"}
    BY <1>3 DEF HasPlace, WritesPrev
  <2>4. /\ Kept(t) /\ pc'[t] = "wrlock_next" /\ loc'[t] = l
        /\ TypeOK' /\ LocksExact' => RwInv'
    BY <1>1, <2>2, <2>3, PlaceMoved
  <2>5. TypeOK' /\ LocksExact'
    <3>1. \A n \in L!Nodes : /\ Reads(t, n)' <=> Reads(t, n)
                             /\ Writes(t, n)' <=> Writes(t, n) \/ n = l.cur
      BY <1>3, <2>1, <2>4 DEF Reads, ReadsPrev, ReadsCur, ReadsTgt, ReadsNxt,
       Writes, WritesPrev, WritesCur, WritesNxt
    <3> QED
      BY <2>1, <2>2, <2>4, <3>1, WrLocked
  <2> QED
    BY <2>4, <2>5
<1>4. CASE pc[t] = "wrlock_next"
  <2>0. pc[t] \in HasPlace
    BY <1>4 DEF HasPlace, WritesPrev
  <2>1. /\ l.prev \in L!Nodes /\ l.cur \in L!Nodes /\ l.nxt \in L!Nodes /\ t \in L!Threads
        /\ l.prev # l.cur /\ l.prev # l.nxt /\ l.cur # l.nxt
    BY <2>0, Place
  <2>2. pc' = [pc EXCEPT ![t] = "recheck"] /\ wrlock(t, l.nxt)
    BY <1>4 DEF SwapWrLock, L!Goto
  <2>3. {pc[t], "recheck"} \subseteq HasPlace \ {"relink1", "relink2", "relink3"}
    BY <1>4 DEF HasPlace, WritesPrev
  <2>4. /\ Kept(t) /\ pc'[t] = "recheck" /\ loc'[t] = l
        /\ TypeOK' /\ LocksExact' => RwInv'
    BY <1>1, <2>2, <2>3, PlaceMoved
  <2>5. TypeOK' /\ LocksExact'
    <3>1. \A n \in L!Nodes : /\ Reads(t, n)' <=> Reads(t, n)
                             /\ Writes(t, n)' <=> Writes(t, n) \/ n = l.nxt
      BY <1>4, <2>1, <2>4 DEF Reads, ReadsPrev, ReadsCur, ReadsTgt, ReadsNxt,
       Writes, WritesPrev, WritesCur, WritesNxt
    <3> QED
      BY <2>1, <2>2, <2>4, <3>1, WrLocked
  <2> QED
    BY <2>4, <2>5
<1> QED
  BY <1>2, <1>3, <1>4 DEF SwapWrLock, L!Goto

\* The second look: with three write locks the swapper knows its place again.
LEMMA SwapLooksAgain ==
  ASSUME RwInv, NEW t \in Swappers, SwapRecheck(t)
  PROVE  RwInv'
<1> DEFINE l == loc[t]
<1>1. /\ TypeOK /\ AtSwap(t) /\ L!LastStays /\ t \in L!Threads /\ LocksExact
      /\ Size \in Nat /\ Size >= 4 /\ Size \in L!Nodes /\ L!Nodes = 1..Size
      /\ l \in L!Locals /\ L!Null \notin L!Nodes /\ next \in [L!Nodes -> L!NodeOrNull]
  BY SwapFacts DEF RwInv, L!Nodes
<1>2. pc[t] = "recheck" /\ UNCHANGED <<next, owner, rd, stop, main>>
  BY DEF SwapRecheck, L!Goto
<1>3. pc[t] \in HasPlace
  BY <1>2 DEF HasPlace, WritesPrev
<1>4. /\ l.prev \in L!Nodes \ {Size} /\ l.cur \in L!Nodes \ {Size}
      /\ l.nxt \in L!Nodes \ {Size}
      /\ l.prev # l.cur /\ l.prev # l.nxt /\ l.cur # l.nxt
  BY <1>3, Place
<1>5. CASE Consecutive(t)
  <2>1. next[l.nxt] \in L!Nodes
    BY <1>1, <1>4 DEF L!LastStays, L!NodeOrNull
  <2>2. PICK new : new = [l EXCEPT !.next_next = next[l.nxt]]
    OBVIOUS
  <2>3. /\ new \in L!Locals /\ new.prev = l.prev /\ new.cur = l.cur /\ new.nxt = l.nxt
        /\ new.next_next = next[l.nxt]
    BY <1>1, <2>1, <2>2 DEF L!Locals, L!NodeOrNull
  <2>4. pc' = [pc EXCEPT ![t] = "relink1"] /\ loc' = [loc EXCEPT ![t] = new]
    BY <1>5, <2>2 DEF SwapRecheck, L!Goto
  <2>5. "relink1" \in Labels
    BY DEF Labels, L!Labels
  <2>6. Kept(t) /\ pc'[t] = "relink1" /\ loc'[t] = new
    BY <1>1, <1>2, <2>3, <2>4, <2>5, Moved
  <2>7. TypeOK' /\ LocksExact'
    <3>1. \A n \in L!Nodes : /\ Reads(t, n)' <=> Reads(t, n)
                             /\ Writes(t, n)' <=> Writes(t, n)
      BY <1>2, <2>3, <2>6 DEF Reads, ReadsPrev, ReadsCur, ReadsTgt, ReadsNxt,
       Writes, WritesPrev, WritesCur, WritesNxt
    <3> QED
      BY <1>1, <1>2, <2>6, <3>1, LocksKept
  <2>8. Writes(t, l.prev) /\ Writes(t, l.cur) /\ Writes(t, l.nxt)
    BY <1>2 DEF Writes, WritesPrev, WritesCur, WritesNxt
  <2>9. L!Exchanging(t)'
    <3>1. owner[l.prev] = t /\ owner[l.cur] = t /\ owner[l.nxt] = t
      BY <1>1, <1>4, <2>8 DEF LocksExact
    <3>2. next[l.prev] = l.cur /\ next[l.cur] = l.nxt
      BY <1>5 DEF Consecutive
    <3> QED
      BY <1>2, <1>4, <2>1, <2>3, <2>6, <3>1, <3>2 DEF L!Exchanging
  <2>10. AtSwap(t)'
    BY <1>4, <2>3, <2>6, <2>9, SwapLabelsAre DEF AtSwap, ReadsPrev
  <2>11. ASSUME NEW order \in [L!Nodes -> L!Nodes], L!Order(order)
         PROVE  L!FarFromEnd(t, order)'
    <3>0. /\ next[l.prev] = l.cur /\ next[l.cur] = l.nxt /\ t \in L!Threads
          /\ pc[t] \notin {"relink2", "relink3"}
      BY <1>1, <1>2, <1>5 DEF Consecutive
    <3>1. order[l.prev] \in Nat /\ order[l.cur] = order[l.prev] + 1
      BY <1>4, <2>8, <2>11, <3>0, HeldPlace
    <3>2. order[l.nxt] = order[l.cur] + 1
      BY <1>4, <2>8, <2>11, <3>0, HeldPlace
    <3>3. order[l.nxt] # Size /\ order[l.nxt] \in 1..Size
      BY <1>1, <1>4, <2>11 DEF L!Order, L!InPlace
    <3>4. order[l.prev] <= Size - 3
      BY <1>1, <3>1, <3>2, <3>3
    <3> QED
      BY <2>3, <2>6, <3>4 DEF L!FarFromEnd
  <2> QED
    BY <2>6, <2>7, <2>10, <2>11, SwapQuiet
<1>6. CASE ~Consecutive(t)
  <2>1. pc' = [pc EXCEPT ![t] = "unlock_prev"] /\ UNCHANGED loc
    BY <1>6 DEF SwapRecheck, L!Goto
  <2>2. {pc[t], "unlock_prev"} \subseteq HasPlace \ {"relink1", "relink2", "relink3"}
    BY <1>2 DEF HasPlace, WritesPrev
  <2>3. /\ Kept(t) /\ pc'[t] = "unlock_prev" /\ loc'[t] = l
        /\ TypeOK' /\ LocksExact' => RwInv'
    BY <1>2, <2>1, <2>2, PlaceMoved
  <2>4. \A n \in L!Nodes : /\ Reads(t, n)' <=> Reads(t, n)
                           /\ Writes(t, n)' <=> Writes(t, n)
    BY <1>2, <2>3 DEF Reads, ReadsPrev, ReadsCur, ReadsTgt, ReadsNxt,
       Writes, WritesPrev, WritesCur, WritesNxt
  <2> QED
    BY <1>1, <1>2, <2>3, <2>4, LocksKept
<1> QED
  BY <1>5, <1>6

\* The write locks are released.
LEMMA SwapEnds ==
  ASSUME RwInv, NEW t \in Swappers, SwapWrUnlock(t)
  PROVE  RwInv'
<1> DEFINE l == loc[t]
<1>1. UNCHANGED <<next, stop, main>> /\ (pc[t] # "unlock_next" => UNCHANGED loc)
  BY DEF SwapWrUnlock, L!Goto
<1>2. CASE pc[t] = "unlock_prev"
  <2>0. pc[t] \in HasPlace
    BY <1>2 DEF HasPlace, WritesPrev
  <2>1. /\ l.prev \in L!Nodes /\ l.cur \in L!Nodes /\ l.nxt \in L!Nodes /\ t \in L!Threads
        /\ l.prev # l.cur /\ l.prev # l.nxt /\ l.cur # l.nxt
    BY <2>0, Place
  <2>2. pc' = [pc EXCEPT ![t] = "unlock_cur"] /\ unlock(t, l.prev)
    BY <1>2 DEF SwapWrUnlock, L!Goto
  <2>3. {pc[t], "unlock_cur"} \subseteq HasPlace \ {"relink1", "relink2", "relink3"}
    BY <1>2 DEF HasPlace, WritesPrev
  <2>4. /\ Kept(t) /\ pc'[t] = "unlock_cur" /\ loc'[t] = l
        /\ TypeOK' /\ LocksExact' => RwInv'
    BY <1>1, <1>2, <2>2, <2>3, PlaceMoved
  <2>5. TypeOK' /\ LocksExact'
    <3>1. /\ Writes(t, l.prev)
          /\ \A n \in L!Nodes : /\ Reads(t, n)' <=> Reads(t, n)
                                /\ Writes(t, n)' <=> Writes(t, n) /\ n # l.prev
      BY <1>2, <2>1, <2>4 DEF Reads, ReadsPrev, ReadsCur, ReadsTgt, ReadsNxt,
       Writes, WritesPrev, WritesCur, WritesNxt
    <3> QED
      BY <2>1, <2>2, <2>4, <3>1, WrUnlocked
  <2> QED
    BY <2>4, <2>5
<1>3. CASE pc[t] = "unlock_cur"
  <2>0. pc[t] \in HasPlace
    BY <1>3 DEF HasPlace, WritesPrev
  <2>1. /\ l.prev \in L!Nodes /\ l.cur \in L!Nodes /\ l.nxt \in L!Nodes /\ t \in L!Threads
        /\ l.prev # l.cur /\ l.prev # l.nxt /\ l.cur # l.nxt
    BY <2>0, Place
  <2>2. pc' = [pc EXCEPT ![t] = "unlock_next"] /\ unlock(t, l.cur)
    BY <1>3 DEF SwapWrUnlock, L!Goto
  <2>3. {pc[t], "unlock_next"} \subseteq HasPlace \ {"relink1", "relink2", "relink3"}
    BY <1>3 DEF HasPlace, WritesPrev
  <2>4. /\ Kept(t) /\ pc'[t] = "unlock_next" /\ loc'[t] = l
        /\ TypeOK' /\ LocksExact' => RwInv'
    BY <1>1, <1>3, <2>2, <2>3, PlaceMoved
  <2>5. TypeOK' /\ LocksExact'
    <3>1. /\ Writes(t, l.cur)
          /\ \A n \in L!Nodes : /\ Reads(t, n)' <=> Reads(t, n)
                                /\ Writes(t, n)' <=> Writes(t, n) /\ n # l.cur
      BY <1>3, <2>1, <2>4 DEF Reads, ReadsPrev, ReadsCur, ReadsTgt, ReadsNxt,
       Writes, WritesPrev, WritesCur, WritesNxt
    <3> QED
      BY <2>1, <2>2, <2>4, <3>1, WrUnlocked
  <2> QED
    BY <2>4, <2>5
<1>4. CASE pc[t] = "unlock_next"
  <2>0. pc[t] \in HasPlace
    BY <1>4 DEF HasPlace
  <2>1. l.nxt \in L!Nodes /\ t \in L!Threads
    BY <2>0, Place
  <2>2. /\ pc' = [pc EXCEPT ![t] = "swap"] /\ loc' = [loc EXCEPT ![t] = L!NoLocals]
        /\ unlock(t, l.nxt)
    BY <1>4 DEF SwapWrUnlock, L!Goto
  <2>3. "swap" \in Labels /\ L!NoLocals \in L!Locals
    BY SwapFacts DEF Labels, L!Labels
  <2>4. Kept(t) /\ pc'[t] = "swap"
    BY <1>1, <1>4, <2>1, <2>2, <2>3, Moved
  <2>5. TypeOK' /\ LocksExact'
    <3>1. /\ Writes(t, l.nxt)
          /\ \A n \in L!Nodes : /\ Reads(t, n)' <=> Reads(t, n)
                                /\ Writes(t, n)' <=> Writes(t, n) /\ n # l.nxt
      BY <1>4, <2>4 DEF Reads, ReadsPrev, ReadsCur, ReadsTgt, ReadsNxt,
       Writes, WritesPrev, WritesCur, WritesNxt
    <3> QED
      BY <2>1, <2>2, <2>4, <3>1, WrUnlocked
  <2>6. AtSwap(t)'
    BY <2>4, SwapLabelsAre DEF AtSwap, HasPlace, ReadsPrev, WritesPrev, L!Exchanging
  <2>7. \A order : L!FarFromEnd(t, order)'
    BY <2>4 DEF L!FarFromEnd
  <2> QED
    BY <2>4, <2>5, <2>6, <2>7, SwapQuiet
<1> QED
  BY <1>2, <1>3, <1>4 DEF SwapWrUnlock, L!Goto

\* A node that a thread reads, and one that another thread writes, are not t's.
LEMMA HeldByOther ==
  ASSUME RwInv, NEW t \in L!Threads, NEW u \in L!Threads, u # t, NEW n \in L!Nodes,
         Reads(u, n) \/ Writes(u, n)
  PROVE  owner[n] # t
<1>1. LocksExact /\ None \notin L!Threads
  BY RwNodeListAssumption DEF RwInv, L!Threads
<1> QED
  BY <1>1 DEF LocksExact

\* The exchange: what the other threads know of their nodes stays true, as they
\* have locked the links it is about.
LEMMA SwapExchanges ==
  ASSUME RwInv, NEW t \in Swappers, ExchangeStep(t), UNCHANGED rd
  PROVE  RwInv'
<1> DEFINE R == {"relink1", "relink2", "relink3"}
<1>1. /\ TypeOK /\ AtSwap(t) /\ L!LastStays /\ LocksExact /\ t \in L!Threads
      /\ t \notin Counters /\ Counters \subseteq L!Threads /\ Swappers \subseteq L!Threads
  BY SwapFacts DEF RwInv, L!Threads
<1>2. /\ next \in [L!Nodes -> L!NodeOrNull] /\ pc \in [L!Threads -> Labels]
      /\ \A u \in Swappers : L!Exchanging(u)
  BY DEF RwInv, TypeOK, AtSwap
<1>3. /\ loc' = loc /\ owner' = owner /\ next' \in [L!Nodes -> L!NodeOrNull]
      /\ \A m \in L!Nodes : owner[m] # t => next'[m] = next[m]
      /\ L!LastStays'
      /\ \A u \in Swappers : L!Exchanging(u)'
  BY <1>1, <1>2, ExchangeKeeps
<1>4. /\ pc[t] \in R /\ pc'[t] \in {"relink2", "relink3", "unlock_prev"}
      /\ \A u \in L!Threads \ {t} : pc'[u] = pc[u]
      /\ pc' \in [L!Threads -> Labels] /\ stop' = stop /\ main' = main
  BY <1>1, <1>2 DEF ExchangeStep, L!SwapRelink1, L!SwapRelink2, L!SwapRelink3, L!Goto,
     Labels, L!Labels
<1>5. TypeOK'
  BY <1>1, <1>3, <1>4 DEF TypeOK
<1>6. LocksExact'
  <2>1. ASSUME NEW n \in L!Nodes, NEW u \in L!Threads
        PROVE  (u \in rd'[n] <=> Reads(u, n)') /\ (owner'[n] = u <=> Writes(u, n)')
    <3>1. (Reads(u, n)' <=> Reads(u, n)) /\ (Writes(u, n)' <=> Writes(u, n))
      <4>1. CASE u = t
        BY <1>3, <1>4, <4>1 DEF Reads, ReadsPrev, ReadsCur, ReadsTgt, ReadsNxt,
           Writes, WritesPrev, WritesCur, WritesNxt
      <4>2. CASE u # t
        BY <1>3, <1>4, <4>2 DEF Reads, Writes
      <4> QED
        BY <4>1, <4>2
    <3>2. (u \in rd[n] <=> Reads(u, n)) /\ (owner[n] = u <=> Writes(u, n))
      BY <1>1 DEF LocksExact
    <3> QED
      BY <1>3, <3>1, <3>2
  <2>2. \A n \in L!Nodes : owner'[n] # None => rd'[n] = {}
    BY <1>1, <1>3 DEF LocksExact
  <2> QED
    BY <2>1, <2>2 DEF LocksExact
<1>7. ASSUME NEW u \in Counters PROVE AtCount(u)'
  <2>1. AtCount(u) /\ u \in L!Threads /\ u # t /\ pc'[u] = pc[u] /\ loc'[u] = loc[u]
    BY <1>1, <1>3, <1>4 DEF RwInv
  <2>2. ASSUME pc[u] \in {"lock2", "compare", "unlock1"}
        PROVE  next'[loc[u].cur] = next[loc[u].cur]
    <3>1. loc[u].cur \in L!Nodes /\ Reads(u, loc[u].cur)
      BY <2>1, <2>2 DEF AtCount, Reads, ReadsCur
    <3> QED
      BY <1>1, <1>3, <2>1, <3>1, HeldByOther
  <2> QED
    BY <2>1, <2>2 DEF AtCount
<1>8. ASSUME NEW u \in Swappers, u # t PROVE AtSwap(u)'
  <2>1. /\ AtSwap(u) /\ u \in L!Threads /\ pc'[u] = pc[u] /\ loc'[u] = loc[u]
        /\ L!Exchanging(u)'
    BY <1>1, <1>3, <1>4, <1>8 DEF RwInv
  <2>2. ASSUME pc[u] \in {"walk_lock", "walk_unlock", "lock_cur", "lock_next"}
        PROVE  next'[loc[u].prev] = next[loc[u].prev]
    <3>1. loc[u].prev \in L!Nodes /\ Reads(u, loc[u].prev)
      BY <2>1, <2>2 DEF AtSwap, Reads, ReadsPrev
    <3> QED
      BY <1>1, <1>3, <1>8, <2>1, <3>1, HeldByOther
  <2>3. ASSUME pc[u] = "lock_next"
        PROVE  next'[loc[u].cur] = next[loc[u].cur]
    <3>1. loc[u].cur \in L!Nodes /\ Reads(u, loc[u].cur)
      BY <2>1, <2>3 DEF AtSwap, Reads, ReadsCur
    <3> QED
      BY <1>1, <1>3, <1>8, <2>1, <3>1, HeldByOther
  <2> QED
    BY <2>1, <2>2, <2>3 DEF AtSwap
<1>9. AtSwap(t)'
  <2>1. /\ L!Exchanging(t)' /\ pc'[t] \in HasPlace /\ pc[t] \in HasPlace
        /\ pc'[t] \notin ReadsPrev /\ pc'[t] \in SwapLabels /\ loc'[t] = loc[t]
    BY <1>3, <1>4, SwapLabelsAre DEF HasPlace, WritesPrev, ReadsPrev
  <2>2. pc'[t] \notin {"lock_first", "walk_lock", "walk_unlock", "lock_cur", "lock_next"}
    BY <1>4
  <2> QED
    BY <1>1, <2>1, <2>2 DEF AtSwap
<1>10. PICK pos \in [L!Nodes -> L!Nodes] : L!Order(pos)
  BY DEF RwInv
<1>11. PICK new \in [L!Nodes -> L!Nodes] :
            L!InPlace(new)' /\ \A m \in L!Nodes : owner[m] # t => new[m] = pos[m]
  BY <1>2, <1>10, ExchangeKeepsPlaces DEF L!Order
<1>12. ASSUME NEW u \in Swappers PROVE L!FarFromEnd(u, new)'
  <2>1. CASE u = t
    BY <1>4, <2>1 DEF L!FarFromEnd
  <2>2. CASE u # t
    <3>1. /\ L!FarFromEnd(u, pos) /\ AtSwap(u) /\ u \in L!Threads
          /\ pc'[u] = pc[u] /\ loc'[u] = loc[u]
      BY <1>1, <1>3, <1>4, <1>10, <2>2 DEF L!Order, RwInv
    <3>2. ASSUME pc[u] \in ReadsPrev \cup {"relink1"} PROVE new[loc[u].prev] = pos[loc[u].prev]
      <4>1. /\ loc[u].prev \in L!Nodes
            /\ Reads(u, loc[u].prev) \/ Writes(u, loc[u].prev)
        BY <3>1, <3>2 DEF AtSwap, Reads, Writes, HasPlace, WritesPrev
      <4> QED
        BY <1>1, <1>11, <2>2, <3>1, <4>1, HeldByOther
    <3>3. pc[u] # "eval_next"
      BY <3>1, SwapLabelsAre DEF AtSwap
    <3> QED
      BY <3>1, <3>2, <3>3 DEF L!FarFromEnd, ReadsPrev
  <2> QED
    BY <2>1, <2>2
<1>13. \E order \in [L!Nodes -> L!Nodes] : L!Order(order)'
  <2>1. L!Order(new)'
    BY <1>11, <1>12 DEF L!Order
  <2> QED
    BY <2>1, Zenon
<1>14. (\A u \in Counters : AtCount(u)') /\ (\A u \in Swappers : AtSwap(u)')
  BY <1>7, <1>8, <1>9
<1> QED
  BY <1>3, <1>5, <1>6, <1>13, <1>14, Zenon DEF RwInv

LEMMA SwapStep ==
  ASSUME RwInv, NEW t \in Swappers, swap_thread(t)
  PROVE  RwInv'
BY SwapFinds, SwapChecks, SwapReads, SwapForgets, SwapWrites, SwapLooksAgain, SwapEnds,
   SwapSetsOut, SwapExchanges DEF swap_thread, ExchangeStep
-----------------------------------------------------------------------------
(* main, and the invariant *)

\* A step that moves no thread, link or lock.
LEMMA Unmoved ==
  ASSUME RwInv, TypeOK', next' = next, owner' = owner, rd' = rd, pc' = pc, loc' = loc
  PROVE  RwInv'
<1>1. LocksExact'
  BY DEF RwInv, LocksExact, Reads, Writes
<1>2. \A t \in Counters : AtCount(t)'
  BY DEF RwInv, AtCount
<1>3. \A t \in Swappers : AtSwap(t)'
  BY DEF RwInv, AtSwap, L!Exchanging
<1>4. L!LastStays'
  BY DEF RwInv, L!LastStays
<1>5. PICK pos \in [L!Nodes -> L!Nodes] : L!Order(pos)
  BY DEF RwInv
<1>6. \A n \in L!Nodes : L!Settled(n)' = L!Settled(n)
  BY SettledKept
<1>7. Size \in L!Nodes
  BY RwNodeListAssumption DEF L!Nodes
<1>8. L!Order(pos)'
  BY <1>5, <1>6, <1>7 DEF L!Order, L!InPlace, L!FarFromEnd
<1>9. \E order \in [L!Nodes -> L!Nodes] : L!Order(order)'
  BY <1>8, Zenon
<1> QED
  BY <1>1, <1>2, <1>3, <1>4, <1>9, Zenon DEF RwInv

LEMMA MainStep ==
  ASSUME RwInv, Main
  PROVE  RwInv'
<1>1. next' = next /\ owner' = owner /\ loc' = loc /\ rd' = rd
  BY DEF Main, L!Main, L!CreateThread, L!CreateFailed, L!TimeOver, L!JoinAll
<1>2. CASE \E t \in L!Threads : L!CreateThread(t)
  <2>1. PICK t \in L!Threads : L!CreateThread(t)
    BY <1>2
  <2> DEFINE to == IF t \in Counters THEN "count" ELSE "swap"
  <2>2. /\ TypeOK /\ loc[t] \in L!Locals /\ to \in Labels /\ (t \in Counters <=> t \notin Swappers)
    BY RwNodeListAssumption DEF RwInv, TypeOK, Labels, L!Labels, L!Threads
  <2>3. /\ pc[t] = "unborn" /\ pc' = [pc EXCEPT ![t] = to] /\ stop' = stop
        /\ main' \in {"create", "run"}
    BY <2>1 DEF L!CreateThread
  <2>4. Kept(t) /\ pc'[t] = to /\ loc'[t] = loc[t]
    BY <1>1, <2>2, <2>3 DEF TypeOK, Kept
  <2>5. TypeOK' /\ LocksExact'
    <3>1. \A n \in L!Nodes : /\ Reads(t, n)' <=> Reads(t, n)
                             /\ Writes(t, n)' <=> Writes(t, n)
      BY <2>3, <2>4 DEF Reads, ReadsPrev, ReadsCur, ReadsTgt, ReadsNxt,
         Writes, WritesPrev, WritesCur, WritesNxt
    <3> QED
      BY <1>1, <2>4, <3>1, LocksKept
  <2>6. t \in Counters => AtCount(t)'
    BY <2>4 DEF AtCount, CountLabels, L!CountLabels
  <2>7. t \in Swappers => AtSwap(t)'
    BY <2>2, <2>4, SwapLabelsAre DEF AtSwap, HasPlace, ReadsPrev, WritesPrev, L!Exchanging
  <2>8. \A order : L!FarFromEnd(t, order)'
    BY <2>4 DEF L!FarFromEnd
  <2> QED
    BY <2>4, <2>5, <2>6, <2>7, <2>8, QuietStep
<1>3. CASE L!CreateFailed \/ L!TimeOver \/ L!JoinAll
  <2>1. pc' = pc /\ stop' \in BOOLEAN /\ main' \in {"join", "end"}
    BY <1>3 DEF RwInv, TypeOK, L!CreateFailed, L!TimeOver, L!JoinAll
  <2>2. TypeOK'
    BY <1>1, <2>1 DEF RwInv, TypeOK
  <2> QED
    BY <1>1, <2>1, <2>2, Unmoved
<1> QED
  BY <1>2, <1>3 DEF Main, L!Main

LEMMA InitInv ==
  ASSUME Init
  PROVE  RwInv
<1>1. /\ next = [n \in L!Nodes |-> IF n = Size THEN L!Null ELSE n + 1]
      /\ owner = [n \in L!Nodes |-> None] /\ rd = [n \in L!Nodes |-> {}]
      /\ pc = [t \in L!Threads |-> "unborn"] /\ loc = [t \in L!Threads |-> L!NoLocals]
      /\ stop = FALSE /\ main = "create"
  BY DEF Init, L!Init
<1>2. /\ Size \in Nat /\ Size >= 4 /\ L!Nodes = 1..Size /\ L!Null = 0 /\ L!first = 1
      /\ None \notin L!Threads /\ Counters \subseteq L!Threads /\ Swappers \subseteq L!Threads
  BY RwNodeListAssumption DEF L!Nodes, L!Null, L!first, L!Threads
<1>3. TypeOK
  <2>1. L!NoLocals \in L!Locals /\ "unborn" \in Labels
    BY DEF L!NoLocals, L!Locals, L!NodeOrNull, Labels, L!Labels
  <2>2. next \in [L!Nodes -> L!NodeOrNull]
    BY <1>1, <1>2 DEF L!NodeOrNull
  <2> QED
    BY <1>1, <2>1, <2>2 DEF TypeOK
<1>4. LocksExact
  <2>1. \A t \in L!Threads, n \in L!Nodes : ~Reads(t, n) /\ ~Writes(t, n)
    BY <1>1 DEF Reads, ReadsPrev, ReadsCur, ReadsTgt, ReadsNxt, Writes, WritesPrev, WritesCur,
       WritesNxt
  <2> QED
    BY <1>1, <1>2, <2>1 DEF LocksExact
<1>5. \A t \in Counters : AtCount(t)
  BY <1>1, <1>2 DEF AtCount, CountLabels, L!CountLabels
<1>6. \A t \in Swappers : AtSwap(t)
  BY <1>1, <1>2, SwapLabelsAre DEF AtSwap, HasPlace, ReadsPrev, WritesPrev, L!Exchanging
<1>7. L!LastStays
  BY <1>1, <1>2 DEF L!LastStays
<1>8. \E order \in [L!Nodes -> L!Nodes] : L!Order(order)
  <2>1. PICK pos : pos = [n \in L!Nodes |-> n]
    OBVIOUS
  <2>2. \A n \in L!Nodes : L!Settled(n) = next[n]
    BY <1>1, <1>6, SettledHeld DEF AtSwap
  <2>3. L!InPlace(pos)
    BY <1>1, <1>2, <2>1, <2>2 DEF L!InPlace
  <2>4. \A t \in Swappers : L!FarFromEnd(t, pos)
    BY <1>1, <1>2 DEF L!FarFromEnd
  <2>5. pos \in [L!Nodes -> L!Nodes]
    BY <2>1
  <2>6. L!Order(pos)
    BY <2>3, <2>4 DEF L!Order
  <2> QED
    BY <2>5, <2>6, Zenon
<1> QED
  BY <1>3, <1>4, <1>5, <1>6, <1>7, <1>8, Zenon DEF RwInv

LEMMA NextInv ==
  ASSUME RwInv, [Next]_vars
  PROVE  RwInv'
<1>1. CASE UNCHANGED vars
  <2>1. TypeOK' /\ next' = next /\ owner' = owner /\ rd' = rd /\ pc' = pc /\ loc' = loc
    BY <1>1 DEF vars, RwInv, TypeOK
  <2> QED
    BY <2>1, Unmoved
<1>2. CASE ProgramOver
  BY <1>1, <1>2 DEF ProgramOver
<1> QED
  BY <1>1, <1>2, CountStep, SwapStep, MainStep DEF Next

\* The inductive invariant.
THEOREM Invariance == Spec => []RwInv
<1>1. Init => RwInv
  BY InitInv
<1>2. RwInv /\ [Next]_vars => RwInv'
  BY NextInv
<1> QED
  BY <1>1, <1>2, PTL DEF Spec
-----------------------------------------------------------------------------
(* What the invariant gives *)

\* Program counters and locals stay in range: no thread follows a bad link.
THEOREM TypeCorrect == Spec => []TypeOK
<1>1. RwInv => TypeOK
  BY DEF RwInv
<1> QED
  BY <1>1, Invariance, PTL

\* safe_swap_nodes of 2.3m.c loses no node and makes no cycle, although the place is
\* found under read locks that are released before the write locks are taken.
THEOREM ListStaysIntact == Spec => []ListIntact
<1>1. RwInv => ListIntact
  <2>1. RwInv => \E pos \in [L!Nodes -> L!Nodes] : L!InPlace(pos)
    BY Zenon DEF RwInv, L!Order
  <2> QED
    BY <2>1, WalkMeetsAll DEF ListIntact
<1> QED
  BY <1>1, Invariance, PTL

\* The two nodes that a counter compares are neighbours, and read-locked.
THEOREM NeighboursCompared == Spec => []ComparesNeighbours
<1>1. RwInv => ComparesNeighbours
  <2> SUFFICES ASSUME RwInv, NEW t \in Counters, pc[t] = "compare"
               PROVE  /\ loc[t].tgt = next[loc[t].cur]
                      /\ t \in rd[loc[t].cur] /\ t \in rd[loc[t].tgt]
    BY DEF ComparesNeighbours
  <2>1. /\ AtCount(t) /\ t \in L!Threads /\ LocksExact /\ L!LastStays
        /\ next \in [L!Nodes -> L!NodeOrNull]
    BY DEF RwInv, TypeOK, L!Threads
  <2>2. loc[t].cur \in L!Nodes \ {Size} /\ loc[t].tgt = next[loc[t].cur]
    BY <2>1 DEF AtCount
  <2>3. loc[t].tgt \in L!Nodes
    BY <2>1, <2>2 DEF L!LastStays, L!NodeOrNull
  <2>4. Reads(t, loc[t].cur) /\ Reads(t, loc[t].tgt)
    BY DEF Reads, ReadsCur, ReadsTgt
  <2> QED
    BY <2>1, <2>2, <2>3, <2>4 DEF LocksExact
<1> QED
  BY <1>1, Invariance, PTL

\* The labels at which a thread takes a lock.
LockLabels == {"lock1", "lock2", "lock_first", "walk_lock", "lock_cur", "lock_next",
               "wrlock_prev", "wrlock_cur", "wrlock_next"}

LEMMA WantsNode ==
  ASSUME RwInv, NEW t \in L!Threads
  PROVE  /\ pc[t] \in LockLabels => Wanted(t) \in L!Nodes
         /\ pc[t] \notin LockLabels => Wanted(t) = L!Null
<1>1. /\ L!LastStays /\ L!first \in L!Nodes /\ next \in [L!Nodes -> L!NodeOrNull]
      /\ t \in Counters \/ t \in Swappers
  BY RwNodeListAssumption DEF RwInv, TypeOK, L!first, L!Nodes, L!Threads
<1>2. ASSUME pc[t] \in LockLabels PROVE Wanted(t) \in L!Nodes
  <2>1. CASE t \in Counters
    <3>1. AtCount(t)
      BY <2>1 DEF RwInv
    <3>2. pc[t] \in {"lock1", "lock2"}
      BY <1>2, <3>1 DEF AtCount, CountLabels, L!CountLabels, LockLabels
    <3>3. loc[t].cur \in L!Nodes \ {Size} /\ (pc[t] = "lock2" => loc[t].tgt = next[loc[t].cur])
      BY <3>1, <3>2 DEF AtCount
    <3>4. next[loc[t].cur] \in L!Nodes
      BY <1>1, <3>3 DEF L!LastStays, L!NodeOrNull
    <3> QED
      BY <3>2, <3>3, <3>4 DEF Wanted
  <2>2. CASE t \in Swappers
    <3>1. AtSwap(t)
      BY <2>2 DEF RwInv
    <3>2. pc[t] \notin {"lock1", "lock2"}
      BY <3>1, SwapLabelsAre DEF AtSwap
    <3>3. CASE pc[t] \in {"walk_lock", "lock_cur", "lock_next"}
      BY <3>1, <3>3 DEF AtSwap, Wanted
    <3>4. CASE pc[t] = "lock_first"
      BY <1>1, <3>4 DEF Wanted
    <3>5. CASE Writing(t)
      BY <3>1, <3>5 DEF AtSwap, Wanted, Writing, HasPlace, WritesPrev
    <3> QED
      BY <1>2, <3>2, <3>3, <3>4, <3>5 DEF LockLabels, Writing
  <2> QED
    BY <1>1, <2>1, <2>2
<1>3. ASSUME pc[t] \notin LockLabels PROVE Wanted(t) = L!Null
  BY <1>3 DEF Wanted, LockLabels
<1> QED
  BY <1>2, <1>3

\* No thread asks for the lock of a null node.
THEOREM NoNullLocked == Spec => []NeverLocksNull
<1>1. RwInv => NeverLocksNull
  <2>1. L!Null \notin L!Nodes
    BY DEF L!Null, L!Nodes
  <2> QED
    BY <2>1, WantsNode DEF NeverLocksNull, LockLabels
<1> QED
  BY <1>1, Invariance, PTL

\* A thread whose place is not stale holds nodes before the one it wants.
LEMMA HeldIsBehind ==
  ASSUME RwInv, NEW pos \in [L!Nodes -> L!Nodes], L!Order(pos), NEW t \in L!Threads,
         pc[t] \in LockLabels, Writing(t) => Consecutive(t),
         NEW n \in L!Nodes, Reads(t, n) \/ Writes(t, n)
  PROVE  pos[n] < pos[Wanted(t)]
<1> DEFINE l == loc[t]
<1>1. /\ L!LastStays /\ next \in [L!Nodes -> L!NodeOrNull] /\ L!Null \notin L!Nodes
      /\ t \in Counters \/ t \in Swappers
  BY DEF RwInv, TypeOK, L!Nodes, L!Null, L!Threads
<1>2. pc[t] \notin {"relink2", "relink3"}
  BY DEF LockLabels
<1>3. ASSUME NEW m \in L!Nodes \ {Size}, Reads(t, m) \/ Writes(t, m)
      PROVE  pos[m] \in Nat /\ pos[next[m]] = pos[m] + 1
  BY <1>2, <1>3, HeldPlace
<1>4. CASE t \in Counters
  <2>1. AtCount(t)
    BY <1>4 DEF RwInv
  <2>2. pc[t] = "lock2" /\ n = l.cur
    BY <2>1 DEF AtCount, CountLabels, L!CountLabels, LockLabels, Reads, ReadsPrev, ReadsCur,
       ReadsTgt, ReadsNxt, Writes, WritesPrev, WritesCur, WritesNxt
  <2>3. n \in L!Nodes \ {Size} /\ Wanted(t) = next[n]
    BY <2>1, <2>2 DEF AtCount, Wanted
  <2>4. pos[n] \in Nat /\ pos[next[n]] = pos[n] + 1
    BY <1>3, <2>3
  <2> QED
    BY <2>3, <2>4
<1>5. CASE t \in Swappers
  <2>1. AtSwap(t)
    BY <1>5 DEF RwInv
  <2>2. pc[t] \notin {"lock1", "lock2"}
    BY <2>1, SwapLabelsAre DEF AtSwap
  <2>3. CASE pc[t] \in {"walk_lock", "lock_cur"}
    <3>1. n = l.prev /\ Wanted(t) = l.tgt
      BY <2>3 DEF Wanted, Reads, ReadsPrev, ReadsCur, ReadsTgt, ReadsNxt, Writes,
         WritesPrev, WritesCur, WritesNxt
    <3>2. l.tgt \in L!Nodes /\ l.tgt = next[l.prev]
      BY <2>1, <2>3 DEF AtSwap
    <3>3. n \in L!Nodes \ {Size}
      BY <1>1, <3>1, <3>2 DEF L!LastStays
    <3>4. pos[n] \in Nat /\ pos[next[n]] = pos[n] + 1
      BY <1>3, <3>3
    <3> QED
      BY <3>1, <3>2, <3>4
  <2>4. CASE pc[t] = "lock_next"
    <3>1. n \in {l.prev, l.cur} /\ Wanted(t) = l.tgt /\ Reads(t, l.prev) /\ Reads(t, l.cur)
      BY <2>4 DEF Wanted, Reads, ReadsPrev, ReadsCur, ReadsTgt, ReadsNxt, Writes,
         WritesPrev, WritesCur, WritesNxt
    <3>2. /\ l.prev \in L!Nodes /\ l.cur \in L!Nodes /\ l.tgt \in L!Nodes
          /\ l.cur = next[l.prev] /\ l.tgt = next[l.cur]
      BY <2>1, <2>4 DEF AtSwap, ReadsPrev
    <3>3. l.prev # Size /\ l.cur # Size
      BY <1>1, <3>2 DEF L!LastStays
    <3>4. pos[l.prev] \in Nat /\ pos[l.cur] = pos[l.prev] + 1
      BY <1>3, <3>1, <3>2, <3>3
    <3>5. pos[l.cur] \in Nat /\ pos[l.tgt] = pos[l.cur] + 1
      BY <1>3, <3>1, <3>2, <3>3
    <3> QED
      BY <3>1, <3>4, <3>5
  <2>5. CASE Writing(t)
    <3>1. /\ pc[t] # "wrlock_prev"
          /\ pc[t] = "wrlock_cur" => n = l.prev /\ Wanted(t) = l.cur
          /\ pc[t] = "wrlock_next" => n \in {l.prev, l.cur} /\ Wanted(t) = l.nxt
          /\ Writes(t, l.prev)
          /\ pc[t] = "wrlock_next" => Writes(t, l.cur)
      BY <2>5 DEF Writing, Wanted, Reads, ReadsPrev, ReadsCur, ReadsTgt, ReadsNxt, Writes,
         WritesPrev, WritesCur, WritesNxt
    <3>2. l.prev \in L!Nodes \ {Size} /\ l.cur \in L!Nodes \ {Size}
      BY <2>1, <2>5 DEF AtSwap, Writing, HasPlace, WritesPrev
    <3>3. next[l.prev] = l.cur /\ next[l.cur] = l.nxt
      BY <2>5 DEF Consecutive
    <3>4. pos[l.prev] \in Nat /\ pos[l.cur] = pos[l.prev] + 1
      BY <1>3, <3>1, <3>2, <3>3
    <3>5. pc[t] = "wrlock_next" => pos[l.nxt] = pos[l.cur] + 1
      BY <1>3, <3>1, <3>2, <3>3
    <3> QED
      BY <2>5, <3>1, <3>4, <3>5 DEF Writing
  <2>6. CASE pc[t] = "lock_first"
    BY <2>6 DEF Reads, ReadsPrev, ReadsCur, ReadsTgt, ReadsNxt, Writes,
         WritesPrev, WritesCur, WritesNxt
  <2> QED
    BY <2>2, <2>3, <2>4, <2>5, <2>6 DEF LockLabels, Writing
<1> QED
  BY <1>1, <1>4, <1>5

\* A circular wait goes through a swapper whose three nodes were moved after it had
\* released its read locks: the thread that wants the last node of all would
\* otherwise wait for one that wants a node further on.
THEOREM DeadlocksAreStale == Spec => []DeadlockNeedsStalePlace
<1>1. ASSUME RwInv PROVE DeadlockNeedsStalePlace
  <2> SUFFICES ASSUME NEW D \in CircularWaits,
                      \A t \in D : Writing(t) => Consecutive(t)
               PROVE  FALSE
    BY DEF DeadlockNeedsStalePlace
  <2>1. /\ D \subseteq L!Threads /\ D # {}
        /\ \A t \in D : \E u \in D : u \in BlockedBy(t)
    BY DEF CircularWaits, Blocked
  <2>2. PICK pos \in [L!Nodes -> L!Nodes] : L!Order(pos)
    BY <1>1 DEF RwInv
  <2>3. Size \in Nat /\ \A n \in L!Nodes : pos[n] \in Nat /\ pos[n] <= Size
    BY <2>2, RwNodeListAssumption DEF L!Nodes
  <2>4. ASSUME NEW t \in D PROVE pc[t] \in LockLabels /\ Wanted(t) \in L!Nodes
    <3>1. Wanted(t) # L!Null /\ t \in L!Threads
      BY <2>1 DEF BlockedBy
    <3> QED
      BY <1>1, <3>1, WantsNode
  <2> DEFINE ToEnd == {Size - pos[Wanted(t)] : t \in D}
  <2>5. PICK k \in ToEnd : \A j \in ToEnd : k <= j
    <3>1. ToEnd \in SUBSET Nat /\ ToEnd # {}
      BY <2>1, <2>3, <2>4
    <3> QED
      BY <3>1, P!LeastNatural, RwNodeListAssumption
  <2>6. PICK t \in D : k = Size - pos[Wanted(t)]
    BY <2>5
  <2>7. PICK u \in D : u \in BlockedBy(t)
    BY <2>1
  <2>8. u \in L!Threads /\ (Reads(u, Wanted(t)) \/ Writes(u, Wanted(t)))
    BY <1>1, <2>1, <2>4, <2>7 DEF BlockedBy, RwInv, LocksExact
  <2>9. pos[Wanted(t)] < pos[Wanted(u)]
    BY <1>1, <2>2, <2>4, <2>8, HeldIsBehind
  <2>10. k <= Size - pos[Wanted(u)]
    BY <2>5
  <2> QED
    BY <2>3, <2>4, <2>6, <2>9, <2>10
<1> QED
  BY <1>1, Invariance, PTL
=============================================================================
