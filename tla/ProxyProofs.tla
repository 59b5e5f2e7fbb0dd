----------------------------- MODULE ProxyProofs -----------------------------
(***************************************************************************)
(* Proofs about the request handling of the proxy, for any requests, keys, *)
(* backends, packet size, answers and failures.                            *)
(*                                                                         *)
(* The invariants are layered: each is preserved with the help of those    *)
(* before it, under the condition on the constants that it needs.          *)
(*                                                                         *)
(*   WriteInv       gives SingleWrite                                      *)
(*   ProxyInv       gives TypeOK                                           *)
(*   StreamInv      gives StreamFaithful; needs OneLoad                    *)
(*   KeptInCache    needs KeepsLoading                                     *)
(*   WaitInv        gives WaitersLive; needs KeepsLoading                  *)
(*   LoadInv        gives EntryLive and LoadedIntoCache; needs OneLoad,    *)
(*                  KeepsLoading and PathIsKey                             *)
(*   ListInv        gives RegisteredIsListed; needs SeparateBuckets,       *)
(*                  PathIsKey and that nothing fails                       *)
(*                                                                         *)
(* First come lemmas that say what an operation does to the cache          *)
(* (Updated, Frees, Creates, Added), then ones that say what a step does   *)
(* to the requests (Turns) and tasks (Works); the preservation of an       *)
(* invariant is argued from these.                                         *)
(***************************************************************************)
EXTENDS Proxy, SequenceTheorems, NaturalsInduction, WellFoundedInduction, TLAPS

-----------------------------------------------------------------------------
(* Lists *)

LEMMA Section ==
  ASSUME NEW S, NEW s \in Seq(S), NEW m \in Nat \ {0}, NEW n \in 0..Len(s)
  PROVE  /\ SubSeq(s, m, n) \in Seq(S)
         /\ Len(SubSeq(s, m, n)) = IF m <= n THEN n - m + 1 ELSE 0
         /\ \A i \in 1..Len(SubSeq(s, m, n)) : SubSeq(s, m, n)[i] = s[m + i - 1]
OBVIOUS

\* A list of which the elements after p as far as n are cut out.
LEMMA CutList ==
  ASSUME NEW S, NEW s \in Seq(S), NEW n \in 1..Len(s), NEW p \in 0..Len(s), p < n,
         NEW t \in Seq(S), Len(t) = p + (Len(s) - n),
         \A i \in 1..Len(t) : t[i] = IF i <= p THEN s[i] ELSE s[i + n - p]
  PROVE  /\ ToSet(t) = {s[i] : i \in {j \in 1..Len(s) : j <= p \/ j > n}}
         /\ IsInjective(s) => IsInjective(t)
<1>1. Len(s) \in Nat /\ DOMAIN s = 1..Len(s) /\ \A i \in 1..Len(s) : s[i] \in S
  OBVIOUS
<1>2. DOMAIN t = 1..Len(t)
  OBVIOUS
<1>3. ToSet(t) = {s[i] : i \in {j \in 1..Len(s) : j <= p \/ j > n}}
  <2>1. ASSUME NEW i \in 1..Len(t)
        PROVE  \E k \in {j \in 1..Len(s) : j <= p \/ j > n} : t[i] = s[k]
    <3>1. CASE i <= p
      BY <1>1, <3>1
    <3>2. CASE ~(i <= p)
      <4>1. i + n - p \in 1..Len(s) /\ i + n - p > n
        BY <1>1, <3>2
      <4> QED
        BY <3>2, <4>1
    <3> QED
      BY <3>1, <3>2
  <2>2. ASSUME NEW j \in 1..Len(s), j <= p \/ j > n
        PROVE  \E i \in 1..Len(t) : t[i] = s[j]
    <3>1. CASE j <= p
      BY <1>1, <3>1
    <3>2. CASE j > n
      <4>1. j - n + p \in 1..Len(t) /\ ~(j - n + p <= p) /\ (j - n + p) + n - p = j
        BY <1>1, <3>2
      <4> QED
        BY <4>1
    <3> QED
      BY <2>2, <3>1, <3>2
  <2> DEFINE U == {s[i] : i \in {j \in 1..Len(s) : j <= p \/ j > n}}
  <2>3. ToSet(t) \subseteq U
    BY <1>2, <2>1 DEF ToSet
  <2>4. ASSUME NEW x \in U PROVE x \in ToSet(t)
    <3>1. PICK j \in 1..Len(s) : (j <= p \/ j > n) /\ x = s[j]
      OBVIOUS
    <3> QED
      BY <1>2, <2>2, <3>1 DEF ToSet
  <2> QED
    BY <2>3, <2>4
<1>4. ASSUME IsInjective(s) PROVE IsInjective(t)
  <2> SUFFICES ASSUME NEW i \in 1..Len(t), NEW j \in 1..Len(t), t[i] = t[j] PROVE i = j
    BY <1>2 DEF IsInjective
  <2>1. /\ (IF i <= p THEN i ELSE i + n - p) \in 1..Len(s)
        /\ (IF j <= p THEN j ELSE j + n - p) \in 1..Len(s)
    BY <1>1
  <2>2. s[IF i <= p THEN i ELSE i + n - p] = s[IF j <= p THEN j ELSE j + n - p]
    OBVIOUS
  <2>3. (IF i <= p THEN i ELSE i + n - p) = (IF j <= p THEN j ELSE j + n - p)
    BY <1>1, <1>4, <2>1, <2>2 DEF IsInjective
  <2> QED
    BY <2>3
<1> QED
  BY <1>3, <1>4

Without(s, p, n) == SubSeq(s, 1, p) \o SubSeq(s, n + 1, Len(s))
Outside(s, p, n) == {s[i] : i \in {j \in 1..Len(s) : j <= p \/ j > n}}

LEMMA Cut ==
  ASSUME NEW S, NEW s \in Seq(S), NEW n \in 1..Len(s), NEW p \in 0..Len(s), p < n
  PROVE  /\ Without(s, p, n) \in Seq(S)
         /\ ToSet(Without(s, p, n)) = Outside(s, p, n)
         /\ IsInjective(s) => IsInjective(Without(s, p, n))
<1>1. PICK a : a = SubSeq(s, 1, p)
  OBVIOUS
<1>2. PICK b : b = SubSeq(s, n + 1, Len(s))
  OBVIOUS
<1>3. PICK t : t = a \o b
  OBVIOUS
<1>4. a \in Seq(S) /\ Len(a) = p /\ \A i \in 1..p : a[i] = s[i]
  BY <1>1, Section
<1>5. /\ b \in Seq(S) /\ Len(b) = Len(s) - n
      /\ \A i \in 1..Len(s) - n : b[i] = s[n + i]
  BY <1>2, Section
<1>6. /\ t \in Seq(S) /\ Len(t) = Len(a) + Len(b)
      /\ \A i \in 1..Len(a) + Len(b) : t[i] = IF i <= Len(a) THEN a[i] ELSE b[i - Len(a)]
  BY <1>3, <1>4, <1>5, ConcatProperties, Zenon
<1>7. Len(t) = p + (Len(s) - n)
  BY <1>4, <1>5, <1>6
<1>8. ASSUME NEW i \in 1..Len(t) PROVE t[i] = IF i <= p THEN s[i] ELSE s[i + n - p]
  <2>1. i \in 1..Len(a) + Len(b) /\ Len(a) = p /\ Len(s) \in Nat
    BY <1>4, <1>6
  <2>2. t[i] = IF i <= p THEN a[i] ELSE b[i - p]
    BY <1>6, <2>1
  <2>3. CASE i <= p
    <3>1. i \in 1..p
      BY <2>1, <2>3
    <3> QED
      BY <1>4, <2>2, <2>3, <3>1
  <2>4. CASE ~(i <= p)
    <3>1. i - p \in 1..Len(s) - n /\ n + (i - p) = i + n - p
      BY <1>5, <2>1, <2>4
    <3>2. b[i - p] = s[n + (i - p)]
      BY <1>5, <3>1
    <3> QED
      BY <2>2, <2>4, <3>1, <3>2
  <2> QED
    BY <2>3, <2>4
<1>9. /\ ToSet(t) = {s[i] : i \in {j \in 1..Len(s) : j <= p \/ j > n}}
      /\ IsInjective(s) => IsInjective(t)
  BY <1>6, <1>7, <1>8, CutList
<1>10. t = Without(s, p, n)
  BY <1>1, <1>2, <1>3 DEF Without
<1> QED
  BY <1>6, <1>9, <1>10 DEF Outside

LEMMA LeastNatural ==
  ASSUME NEW T \in SUBSET Nat, T # {}
  PROVE  \E m \in T : \A k \in T : m <= k
<1>1. PICK m \in T : \A k \in T : <<k, m>> \notin OpToRel(<, Nat)
  BY WFMin, NatLessThanWellFounded, Zenon
<1>2. \A k \in T : ~(k < m)
  BY <1>1, Zenon DEF OpToRel
<1> QED
  BY <1>2

\* Unlinking an element; it is the only one of its kind in a list without repetition.
LEMMA Unlinked ==
  ASSUME NEW S, NEW s \in Seq(S), NEW x, NEW t, t = RemoveFirst(s, x)
  PROVE  /\ t \in Seq(S) /\ ToSet(t) \subseteq ToSet(s) /\ ToSet(s) \subseteq ToSet(t) \cup {x}
         /\ IsInjective(s) => IsInjective(t) /\ ToSet(t) = ToSet(s) \ {x}
<1>1. DOMAIN s = 1..Len(s) /\ Len(s) \in Nat
  OBVIOUS
<1>2. CASE ~\E i \in 1..Len(s) : s[i] = x
  <2>1. t = s
    BY <1>2 DEF RemoveFirst
  <2>2. x \notin ToSet(s)
    BY <1>1, <1>2 DEF ToSet
  <2> QED
    BY <2>1, <2>2
<1>3. CASE \E i \in 1..Len(s) : s[i] = x
  <2> DEFINE I == {i \in 1..Len(s) : s[i] = x}
  <2>1. I \in SUBSET Nat /\ I # {}
    BY <1>3
  <2>2. PICK m : m = Min(I)
    OBVIOUS
  <2>3. m \in 1..Len(s) /\ s[m] = x
    <3>1. \E k \in I : \A y \in I : k =< y
      BY <2>1, LeastNatural
    <3>2. m \in I
      BY <2>2, <3>1, Zenon DEF Min
    <3> QED
      BY <3>2
  <2>4. t = Without(s, m - 1, m)
    BY <1>3, <2>1, <2>2 DEF RemoveFirst, RemoveAt, SelectInSeq, Without
  <2>5. m - 1 \in 0..Len(s) /\ m - 1 < m
    BY <1>1, <2>3
  <2>0. t \in Seq(S) /\ ToSet(t) = Outside(s, m - 1, m) /\ (IsInjective(s) => IsInjective(t))
    BY <2>3, <2>4, <2>5, Cut, Zenon
  <2>6. /\ t \in Seq(S)
        /\ ToSet(t) = {s[i] : i \in {j \in 1..Len(s) : j <= m - 1 \/ j > m}}
        /\ IsInjective(s) => IsInjective(t)
    BY <2>0 DEF Outside
  <2>7. ToSet(t) \subseteq ToSet(s)
    BY <1>1, <2>6 DEF ToSet
  <2>8. ToSet(s) \subseteq ToSet(t) \cup {x}
    <3>1. ASSUME NEW j \in 1..Len(s) PROVE j = m \/ j <= m - 1 \/ j > m
      BY <2>3
    <3> QED
      BY <1>1, <2>3, <2>6, <3>1 DEF ToSet
  <2>9. ASSUME IsInjective(s) PROVE x \notin ToSet(t)
    <3>1. ASSUME NEW j \in 1..Len(s), j <= m - 1 \/ j > m PROVE s[j] # x
      BY <1>1, <2>3, <2>9, <3>1 DEF IsInjective
    <3> QED
      BY <2>6, <3>1
  <2> QED
    BY <2>6, <2>7, <2>8, <2>9
<1> QED
  BY <1>2, <1>3

\* Adding an element at the head.
LEMMA PushedList ==
  ASSUME NEW S, NEW s \in Seq(S), NEW x, NEW t \in Seq(S), Len(t) = Len(s) + 1,
         t[1] = x, \A i \in 1..Len(s) : t[i + 1] = s[i]
  PROVE  /\ ToSet(t) = {x} \cup ToSet(s)
         /\ IsInjective(s) /\ x \notin ToSet(s) => IsInjective(t)
<1>1. DOMAIN s = 1..Len(s) /\ Len(s) \in Nat
  OBVIOUS
<1>2. DOMAIN t = 1..Len(s) + 1
  OBVIOUS
<1>3. ASSUME NEW i \in 1..Len(s) + 1
      PROVE  i = 1 \/ \E k \in 1..Len(s) : i = k + 1 /\ t[i] = s[k]
  <2>1. i = 1 \/ (i - 1 \in 1..Len(s) /\ i = (i - 1) + 1)
    BY <1>1
  <2>2. i = 1 \/ \E k \in 1..Len(s) : i = k + 1
    BY <2>1, Zenon
  <2> QED
    BY <2>2
<1>4. ToSet(t) = {x} \cup ToSet(s)
  <2>1. ASSUME NEW i \in 1..Len(s) + 1 PROVE t[i] \in {x} \cup ToSet(s)
    BY <1>1, <1>3 DEF ToSet
  <2>2. x \in ToSet(t)
    BY <1>1, <1>2 DEF ToSet
  <2>3. ASSUME NEW i \in 1..Len(s) PROVE s[i] \in ToSet(t)
    BY <1>1, <1>2 DEF ToSet
  <2>4. ToSet(t) \subseteq {x} \cup ToSet(s)
    BY <1>2, <2>1 DEF ToSet
  <2>5. ToSet(s) \subseteq ToSet(t)
    BY <1>1, <2>3 DEF ToSet
  <2> QED
    BY <2>2, <2>4, <2>5
<1>5. ASSUME IsInjective(s), x \notin ToSet(s) PROVE IsInjective(t)
  <2> SUFFICES ASSUME NEW i \in 1..Len(s) + 1, NEW j \in 1..Len(s) + 1, t[i] = t[j]
               PROVE  i = j
    BY <1>2 DEF IsInjective
  <2>1. \A k \in 1..Len(s) : s[k] # x
    BY <1>1, <1>5 DEF ToSet
  <2>2. \A k, l \in 1..Len(s) : s[k] = s[l] => k = l
    BY <1>1, <1>5 DEF IsInjective
  <2>3. i = 1 \/ \E k \in 1..Len(s) : i = k + 1 /\ t[i] = s[k]
    BY <1>3
  <2>4. j = 1 \/ \E k \in 1..Len(s) : j = k + 1 /\ t[j] = s[k]
    BY <1>3
  <2> QED
    BY <2>1, <2>2, <2>3, <2>4
<1> QED
  BY <1>4, <1>5

LEMMA Pushed ==
  ASSUME NEW S, NEW s \in Seq(S), NEW x \in S
  PROVE  LET t == <<x>> \o s
         IN  /\ t \in Seq(S) /\ ToSet(t) = {x} \cup ToSet(s) /\ t[1] = x
             /\ Len(t) = Len(s) + 1 /\ \A i \in 1..Len(s) : t[i + 1] = s[i]
             /\ IsInjective(s) /\ x \notin ToSet(s) => IsInjective(t)
<1>1. PICK a : a = <<x>>
  OBVIOUS
<1>2. a \in Seq(S) /\ Len(a) = 1 /\ a[1] = x
  BY <1>1
<1>3. PICK t : t = a \o s
  OBVIOUS
<1>4. /\ t \in Seq(S) /\ Len(t) = Len(a) + Len(s)
      /\ \A i \in 1..Len(a) + Len(s) : t[i] = IF i <= Len(a) THEN a[i] ELSE s[i - Len(a)]
  BY <1>2, <1>3, ConcatProperties, Zenon
<1>5. Len(t) = Len(s) + 1 /\ t[1] = x /\ Len(s) \in Nat
  BY <1>2, <1>4
<1>6. ASSUME NEW i \in 1..Len(s) PROVE t[i + 1] = s[i]
  <2>1. i + 1 \in 1..Len(a) + Len(s) /\ ~(i + 1 <= Len(a)) /\ i + 1 - Len(a) = i
    BY <1>2
  <2> QED
    BY <1>4, <2>1
<1>7. /\ ToSet(t) = {x} \cup ToSet(s)
      /\ IsInjective(s) /\ x \notin ToSet(s) => IsInjective(t)
  BY <1>4, <1>5, <1>6, PushedList
<1>8. t = <<x>> \o s
  BY <1>1, <1>3
<1> QED
  BY <1>4, <1>5, <1>6, <1>7, <1>8, Zenon

-----------------------------------------------------------------------------
(* Writes *)

\* A step of r that gives its write request the fields of w, or leaves it as it is.
LEMMA WriteStep ==
  ASSUME WriteInv, NEW r \in Reqs, NEW to \in Labels, pc' = [pc EXCEPT ![r] = to],
         NEW w, wr' = [wr EXCEPT ![r] = w] \/ (wr' = wr /\ w = wr[r]),
         DOMAIN w = DOMAIN NewWriteReq,
         w.write_pending \in BOOLEAN, w.write_pending => to = "loop",
         w.inflight = IF to = "write_all" \/ w.write_pending THEN 1 ELSE 0
  PROVE  WriteInv'
<1>1. /\ DOMAIN pc' = Reqs /\ DOMAIN wr' = Reqs /\ pc'[r] = to /\ wr'[r] = w
      /\ \A q \in Reqs \ {r} : pc'[q] = pc[q] /\ wr'[q] = wr[q]
  BY DEF WriteInv
<1>2. \A q \in Reqs \ {r} : DOMAIN wr[q] = DOMAIN NewWriteReq /\ WriteOwned(q)
  BY DEF WriteInv
<1>3. WriteOwned(r)'
  BY <1>1 DEF WriteOwned
<1>4. \A q \in Reqs \ {r} : WriteOwned(q)'
  BY <1>1, <1>2 DEF WriteOwned
<1> QED
  BY <1>1, <1>2, <1>3, <1>4 DEF WriteInv

\* A step of r that does not touch its write request.
LEMMA WriteKept ==
  ASSUME WriteInv, NEW r \in Reqs, NEW from \in Labels, NEW to \in Labels,
         Step(r, from, to), from # "write_all", to # "write_all", wr' = wr,
         from # "loop" \/ to = "loop"
  PROVE  WriteInv'
<1>1. /\ pc[r] = from /\ pc' = [pc EXCEPT ![r] = to] /\ WriteOwned(r)
      /\ DOMAIN wr[r] = DOMAIN NewWriteReq
  BY DEF Step, WriteInv
<1>2. /\ wr[r].write_pending \in BOOLEAN /\ (wr[r].write_pending => to = "loop")
      /\ wr[r].inflight = IF to = "write_all" \/ wr[r].write_pending THEN 1 ELSE 0
  BY <1>1 DEF WriteOwned
<1> QED
  BY <1>1, <1>2, WriteStep

\* Where no callback runs and no handle is signalled.
LEMMA WriteIdle ==
  ASSUME WriteInv, pc' = pc, wr' = wr
  PROVE  WriteInv'
BY DEF WriteInv, WriteOwned

\* A signal sets the pending flag of the handle, and nothing else.
LEMMA SignalStep ==
  ASSUME WriteInv, NEW r \in Reqs, Notify(r), pc' = pc
  PROVE  WriteInv'
<1>1. DOMAIN wr' = Reqs
  BY DEF Notify
<1>2. ASSUME NEW q \in Reqs PROVE DOMAIN wr'[q] = DOMAIN NewWriteReq /\ WriteOwned(q)'
  <2>1. DOMAIN wr[q] = DOMAIN NewWriteReq /\ WriteOwned(q)
    BY DEF WriteInv
  <2>2. wr'[q] = [wr[q] EXCEPT !.async = TRUE] \/ wr'[q] = wr[q]
    BY DEF Notify
  <2>3. /\ DOMAIN wr'[q] = DOMAIN wr[q]
        /\ wr'[q].write_pending = wr[q].write_pending
        /\ wr'[q].inflight = wr[q].inflight
    BY <2>1, <2>2 DEF NewWriteReq
  <2> QED
    BY <2>1, <2>3 DEF WriteOwned
<1> QED
  BY <1>1, <1>2 DEF WriteInv

\* A lookup touches no write request.
LEMMA LookupStep ==
  ASSUME WriteInv, NEW r \in Reqs, NEW from \in Labels,
         NEW a \in Labels, NEW b \in Labels, NEW c \in Labels,
         Lookup(r, from, a, b, c),
         from \notin {"write_all", "loop"}, "write_all" \notin {a, b, c}
  PROVE  WriteInv'
<1>1. PICK to \in {a, b, c} : Step(r, from, to)
  BY DEF Lookup
<1>2. wr' = wr
  BY DEF Lookup
<1> QED
  BY <1>1, <1>2, WriteKept

LEMMA CallbackStep ==
  ASSUME WriteInv, NEW r \in Reqs, Callback(r) \/ ClientGone(r)
  PROVE  WriteInv'
<1> DEFINE L == {"open", "rc_loading", "rc_complete", "read_loading", "read_complete",
                 "recheck_loading", "recheck_complete", "send", "register_new", "register",
                 "recheck", "free", "close", "write_all", "loop", "closed"}
<1>0. Labels = L
  BY DEF Labels, Locals, LookupLabels
<1>1. /\ DOMAIN pc = Reqs /\ DOMAIN wr = Reqs
      /\ DOMAIN wr[r] = {"offset", "did_register", "write_pending", "async", "inflight",
                       "writable"}
      /\ DOMAIN NewWriteReq = {"offset", "did_register", "write_pending", "async", "inflight",
                       "writable"}
      /\ WriteOwned(r)
  BY DEF WriteInv, NewWriteReq
<1>2. CASE read_client(r)
  <2>1. Lookup(r, "open", "rc_loading", "rc_complete", "send")
    BY <1>2 DEF read_client
  <2>2. {"open", "rc_loading", "rc_complete", "send"} \subseteq Labels
    BY <1>0
  <2> QED
    BY <2>1, <2>2, LookupStep
<1>3. CASE ReadFound(r)
  <2>1. PICK w : w = [wr[r] EXCEPT !.inflight = 1]
    OBVIOUS
  <2>2. /\ pc[r] = "rc_complete" /\ pc' = [pc EXCEPT ![r] = "write_all"]
        /\ wr' = [wr EXCEPT ![r] = w]
    BY <1>3, <2>1 DEF ReadFound, Step
  <2>3. /\ DOMAIN w = DOMAIN NewWriteReq /\ w.inflight = 1
        /\ w.write_pending = FALSE
    BY <1>1, <2>1, <2>2 DEF WriteOwned
  <2> QED
    BY <1>0, <2>2, <2>3, WriteStep
<1>4. CASE ReadLoading(r)
  BY <1>0, <1>4, WriteKept DEF ReadLoading
<1>5. CASE send_next_chunk(r)
  <2>1. PICK c \in {"loop", "register_new"} :
              Lookup(r, "send", "read_loading", "read_complete", c)
    BY <1>5 DEF send_next_chunk
  <2>2. {"send", "read_loading", "read_complete", "loop", "register_new"} \subseteq Labels
    BY <1>0
  <2> QED
    BY <2>1, <2>2, LookupStep
<1>6. CASE SendChunk(r)
  <2>0. PICK end :
           wr' = [wr EXCEPT ![r] = [wr[r] EXCEPT !.offset = end, !.write_pending = TRUE,
                                                 !.inflight = wr[r].inflight + 1]]
    BY <1>6 DEF SendChunk
  <2>1. PICK w : /\ w = [wr[r] EXCEPT !.offset = end, !.write_pending = TRUE,
                                      !.inflight = wr[r].inflight + 1]
                 /\ wr' = [wr EXCEPT ![r] = w]
    BY <2>0
  <2>2. pc[r] \in {"read_loading", "read_complete"} /\ pc' = [pc EXCEPT ![r] = "loop"]
    BY <1>6 DEF SendChunk, Step
  <2>3. wr[r].inflight = 0
    BY <1>1, <2>2 DEF WriteOwned
  <2>4. DOMAIN w = DOMAIN NewWriteReq /\ w.inflight = 1 /\ w.write_pending = TRUE
    BY <1>1, <2>1, <2>3
  <2> QED
    BY <1>0, <2>1, <2>2, <2>4, WriteStep
<1>17. CASE SendRefused(r)
  <2>1. PICK w : w = [wr[r] EXCEPT !.offset = ChunkEnd(r), !.write_pending = FALSE]
    OBVIOUS
  <2>2. /\ pc[r] \in {"read_loading", "read_complete"} /\ pc' = [pc EXCEPT ![r] = "loop"]
        /\ wr' = [wr EXCEPT ![r] = w]
    BY <1>17, <2>1 DEF SendRefused, Step
  <2>3. DOMAIN w = DOMAIN NewWriteReq /\ w.inflight = 0 /\ w.write_pending = FALSE
    BY <1>1, <2>1, <2>2 DEF WriteOwned
  <2> QED
    BY <1>0, <2>2, <2>3, WriteStep
<1>18. CASE ReadError(r)
  <2>1. PICK w : w = [wr[r] EXCEPT !.writable = FALSE]
    OBVIOUS
  <2>2. pc[r] = "loop" /\ pc' = [pc EXCEPT ![r] = "loop"] /\ wr' = [wr EXCEPT ![r] = w]
    BY <1>18, <2>1 DEF ReadError, Step
  <2>3. /\ DOMAIN w = DOMAIN NewWriteReq /\ w.inflight = wr[r].inflight
        /\ w.write_pending = wr[r].write_pending
    BY <1>1, <2>1
  <2>4. /\ w.write_pending \in BOOLEAN
        /\ w.inflight = IF "loop" = "write_all" \/ w.write_pending THEN 1 ELSE 0
    BY <1>1, <2>2, <2>3 DEF WriteOwned
  <2> QED
    BY <1>0, <2>2, <2>3, <2>4, WriteStep
<1>7. CASE SendNothingNew(r)
  BY <1>0, <1>7, WriteKept DEF SendNothingNew
<1>8. CASE SendDone(r) \/ SendError(r)
  BY <1>0, <1>8, WriteKept DEF SendDone, SendError
<1>9. CASE RegisterNotFound(r) \/ Register(r)
  <2>1. PICK w : w = [wr[r] EXCEPT !.did_register = TRUE]
    OBVIOUS
  <2>2. PICK to \in {"loop", "recheck"} : pc' = [pc EXCEPT ![r] = to]
    BY <1>9 DEF RegisterNotFound, Register, Step
  <2>3. pc[r] \in {"register_new", "register"} /\ wr' = [wr EXCEPT ![r] = w]
    BY <1>9, <2>1 DEF RegisterNotFound, Register, Step
  <2>4. DOMAIN w = DOMAIN NewWriteReq /\ w.inflight = 0 /\ w.write_pending = FALSE
    BY <1>1, <2>1, <2>3 DEF WriteOwned
  <2> QED
    BY <1>0, <2>2, <2>3, <2>4, WriteStep
<1>10. CASE Recheck(r)
  <2>1. Lookup(r, "recheck", "recheck_loading", "recheck_complete", "send")
    BY <1>10 DEF Recheck
  <2>2. {"recheck", "recheck_loading", "recheck_complete", "send"} \subseteq Labels
    BY <1>0
  <2> QED
    BY <2>1, <2>2, LookupStep
<1>11. CASE RecheckRead(r)
  BY <1>0, <1>11, WriteKept DEF RecheckRead
<1>12. CASE on_data_ready(r)
  <2>1. PICK w : w = [wr[r] EXCEPT !.async = FALSE]
    OBVIOUS
  <2>2. PICK to \in {"loop", "send"} : /\ pc' = [pc EXCEPT ![r] = to]
                                       /\ wr[r].write_pending => to = "loop"
    BY <1>12 DEF on_data_ready, Step
  <2>3. pc[r] = "loop" /\ wr' = [wr EXCEPT ![r] = w]
    BY <1>12, <2>1 DEF on_data_ready, Step
  <2>4. /\ DOMAIN w = DOMAIN NewWriteReq /\ w.inflight = wr[r].inflight
        /\ w.write_pending = wr[r].write_pending
    BY <1>1, <2>1
  <2>5. /\ w.write_pending \in BOOLEAN
        /\ w.inflight = IF to = "write_all" \/ w.write_pending THEN 1 ELSE 0
    BY <1>1, <2>2, <2>3, <2>4 DEF WriteOwned
  <2> QED
    BY <1>0, <2>2, <2>3, <2>4, <2>5, WriteStep
<1>13. CASE echo_write_buffer_load(r) \/ WriteError(r)
  <2>1. PICK w : w = [wr[r] EXCEPT !.write_pending = FALSE, !.inflight = wr[r].inflight - 1]
    OBVIOUS
  <2>2. PICK to \in {"send", "free"} : pc' = [pc EXCEPT ![r] = to]
    BY <1>13 DEF echo_write_buffer_load, WriteError, Step
  <2>3. pc[r] = "loop" /\ wr[r].inflight > 0 /\ wr' = [wr EXCEPT ![r] = w]
    BY <1>13, <2>1 DEF echo_write_buffer_load, WriteError, Step
  <2>4. wr[r].inflight = 1
    BY <1>1, <2>3 DEF WriteOwned
  <2>5. DOMAIN w = DOMAIN NewWriteReq /\ w.inflight = 0 /\ w.write_pending = FALSE
    BY <1>1, <2>1, <2>4
  <2> QED
    BY <1>0, <2>2, <2>3, <2>5, WriteStep
<1>14. CASE echo_write(r)
  <2>1. PICK w : w = [wr[r] EXCEPT !.inflight = 0]
    OBVIOUS
  <2>2. /\ pc[r] = "write_all" /\ pc' = [pc EXCEPT ![r] = "closed"]
        /\ wr' = [wr EXCEPT ![r] = w]
    BY <1>14, <2>1 DEF echo_write, Step
  <2>3. DOMAIN w = DOMAIN NewWriteReq /\ w.inflight = 0 /\ w.write_pending = FALSE
    BY <1>1, <2>1, <2>2 DEF WriteOwned
  <2> QED
    BY <1>0, <2>2, <2>3, WriteStep
<1>15. CASE Unregister(r)
  BY <1>0, <1>15, WriteKept DEF Unregister
<1>16. CASE free_write_req(r)
  <2>1. PICK w : w = [wr[r] EXCEPT !.async = FALSE]
    OBVIOUS
  <2>2. /\ pc[r] = "close" /\ pc' = [pc EXCEPT ![r] = "closed"]
        /\ wr' = [wr EXCEPT ![r] = w]
    BY <1>16, <2>1 DEF free_write_req, Step
  <2>3. DOMAIN w = DOMAIN NewWriteReq /\ w.inflight = 0 /\ w.write_pending = FALSE
    BY <1>1, <2>1, <2>2 DEF WriteOwned
  <2> QED
    BY <1>0, <2>2, <2>3, WriteStep
<1> QED
  BY <1>2, <1>3, <1>4, <1>5, <1>6, <1>7, <1>8, <1>9, <1>10, <1>11, <1>12, <1>13, <1>14,
     <1>15, <1>16, <1>17, <1>18 DEF Callback, ClientGone

LEMMA NextWrites ==
  WriteInv /\ [Next]_vars => WriteInv'
<1> SUFFICES ASSUME WriteInv, [Next]_vars PROVE WriteInv'
  OBVIOUS
<1>1. ASSUME NEW r \in Reqs, Callback(r) \/ ClientGone(r) PROVE WriteInv'
  BY <1>1, CallbackStep
<1>2. ASSUME NEW r \in Reqs, NotifyAppended(r) \/ NotifyFinished(r) PROVE WriteInv'
  BY <1>2, SignalStep DEF NotifyAppended, NotifyFinished, Work
<1>3. ASSUME NEW r \in Reqs, Worker(r) \/ LoadFailed(r),
             ~NotifyAppended(r), ~NotifyFinished(r)
      PROVE  WriteInv'
  <2>1. pc' = pc /\ wr' = wr
    BY <1>3 DEF Worker, StartLoad, write_callback, AppendChunk, LoadComplete, FinishLoad,
                CancelLoad, LoadFailed, Work
  <2> QED
    BY <2>1, WriteIdle
<1>4. CASE \/ \E e \in DOMAIN heap : Expire(e)
           \/ \E b \in Buckets : Collect(b)
           \/ UNCHANGED vars
  <2>1. pc' = pc /\ wr' = wr
    BY <1>4 DEF Expire, Collect, proxyVars, vars
  <2> QED
    BY <2>1, WriteIdle
<1> QED
  BY <1>1, <1>2, <1>3, <1>4 DEF Next

\* The uv_write_t of a write request is never submitted while libuv owns it, and
\* is not owned when the request is freed: write_pending is enough to keep
\* completions, notifications and rechecks apart (send_next_chunk, on_data_ready,
\* echo_write_buffer_load), whatever the cache and the workers do.
THEOREM WritesNeverOverlap == Spec => []SingleWrite
<1>1. Init => WriteInv
  <2> SUFFICES ASSUME Init PROVE WriteInv
    OBVIOUS
  <2>1. ASSUME NEW r \in Reqs PROVE pc[r] = "open" /\ wr[r] = NewWriteReq
    BY DEF Init
  <2>2. DOMAIN pc = Reqs /\ DOMAIN wr = Reqs
    BY DEF Init
  <2>3. /\ NewWriteReq.write_pending = FALSE /\ NewWriteReq.inflight = 0
        /\ "open" \in Labels
    BY DEF NewWriteReq, Labels
  <2> QED
    BY <2>1, <2>2, <2>3 DEF WriteInv, WriteOwned
<1>2. WriteInv => SingleWrite
  BY DEF WriteInv, WriteOwned, SingleWrite
<1> QED
  BY <1>1, <1>2, NextWrites, PTL DEF Spec

-----------------------------------------------------------------------------
(* What the operations do to the cache *)

\* The entry e gets these fields and keeps its key; the others stay as they are.
Updated(e, loading, data, waiters, expired, freed) ==
    /\ e \in DOMAIN heap
    /\ heap' \in Seq(EntryType) /\ Len(heap') = Len(heap) /\ DOMAIN heap' = DOMAIN heap
    /\ \A g \in DOMAIN heap : g # e => heap'[g] = heap[g]
    /\ \A g \in DOMAIN heap : heap'[g].key = heap[g].key
    /\ heap'[e].is_loading = loading /\ heap'[e].data = data
    /\ heap'[e].waiting_clients = waiters
    /\ heap'[e].expired = expired /\ heap'[e].freed = freed

LEMMA Fields ==
  ASSUME heap \in Seq(EntryType), NEW e \in DOMAIN heap
  PROVE  /\ heap[e] \in EntryType
         /\ heap[e].key \in Keys /\ heap[e].is_loading \in BOOLEAN
         /\ heap[e].data \in Seq(Nat) /\ heap[e].waiting_clients \in Seq(Reqs)
         /\ heap[e].expired \in BOOLEAN /\ heap[e].freed \in BOOLEAN
<1>1. heap[e] \in EntryType
  OBVIOUS
<1> QED
  BY <1>1 DEF EntryType

LEMMA UpdateStep ==
  ASSUME heap \in Seq(EntryType), NEW e \in DOMAIN heap,
         NEW new \in EntryType, new.key = heap[e].key, heap' = [heap EXCEPT ![e] = new]
  PROVE  Updated(e, new.is_loading, new.data, new.waiting_clients, new.expired, new.freed)
<1>1. /\ heap' \in Seq(EntryType) /\ Len(heap') = Len(heap) /\ DOMAIN heap' = DOMAIN heap
      /\ heap'[e] = new /\ \A g \in DOMAIN heap : g # e => heap'[g] = heap[g]
  BY ExceptSeq
<1> QED
  BY <1>1 DEF Updated

LEMMA TouchStep ==
  ASSUME heap \in Seq(EntryType), NEW e \in DOMAIN heap, heap' = Touch(e)
  PROVE  Updated(e, heap[e].is_loading, heap[e].data, heap[e].waiting_clients,
                 FALSE, heap[e].freed)
<1>1. PICK new : new = [heap[e] EXCEPT !.expired = FALSE]
  OBVIOUS
<1>2. heap' = [heap EXCEPT ![e] = new]
  BY <1>1 DEF Touch
<1>3. heap[e] \in EntryType
  BY Fields
<1>4. /\ new \in EntryType /\ new.key = heap[e].key
      /\ new.is_loading = heap[e].is_loading /\ new.data = heap[e].data
      /\ new.waiting_clients = heap[e].waiting_clients
      /\ new.expired = FALSE /\ new.freed = heap[e].freed
  BY <1>1, <1>3 DEF EntryType
<1> QED
  BY <1>2, <1>4, UpdateStep

LEMMA ExpireStep ==
  ASSUME heap \in Seq(EntryType), NEW e \in DOMAIN heap, heap' = [heap EXCEPT ![e].expired = TRUE]
  PROVE  Updated(e, heap[e].is_loading, heap[e].data, heap[e].waiting_clients,
                 TRUE, heap[e].freed)
<1>1. PICK new : new = [heap[e] EXCEPT !.expired = TRUE]
  OBVIOUS
<1>2. heap' = [heap EXCEPT ![e] = new]
  BY <1>1
<1>3. heap[e] \in EntryType
  BY Fields
<1>4. /\ new \in EntryType /\ new.key = heap[e].key
      /\ new.is_loading = heap[e].is_loading /\ new.data = heap[e].data
      /\ new.waiting_clients = heap[e].waiting_clients
      /\ new.expired = TRUE /\ new.freed = heap[e].freed
  BY <1>1, <1>3 DEF EntryType
<1> QED
  BY <1>2, <1>4, UpdateStep

LEMMA AppendStep ==
  ASSUME heap \in Seq(EntryType), NEW e \in DOMAIN heap, NEW c \in Nat,
         cache_append_data(e, c)
  PROVE  Updated(e, heap[e].is_loading, Append(heap[e].data, c), heap[e].waiting_clients,
                 FALSE, heap[e].freed)
<1>1. PICK new : new = [heap[e] EXCEPT !.data = Append(heap[e].data, c), !.expired = FALSE]
  OBVIOUS
<1>2. heap' = [heap EXCEPT ![e] = new]
  BY <1>1 DEF cache_append_data
<1>3. heap[e] \in EntryType /\ Append(heap[e].data, c) \in Seq(Nat)
  BY Fields
<1>4. /\ new \in EntryType /\ new.key = heap[e].key
      /\ new.is_loading = heap[e].is_loading /\ new.data = Append(heap[e].data, c)
      /\ new.waiting_clients = heap[e].waiting_clients
      /\ new.expired = FALSE /\ new.freed = heap[e].freed
  BY <1>1, <1>3 DEF EntryType
<1> QED
  BY <1>2, <1>4, UpdateStep

LEMMA FinishStep ==
  ASSUME heap \in Seq(EntryType), NEW e \in DOMAIN heap, cache_finish_loading(e)
  PROVE  Updated(e, FALSE, heap[e].data, heap[e].waiting_clients,
                 FALSE, heap[e].freed)
<1>1. PICK new : new = [heap[e] EXCEPT !.is_loading = FALSE, !.expired = FALSE]
  OBVIOUS
<1>2. heap' = [heap EXCEPT ![e] = new]
  BY <1>1 DEF cache_finish_loading
<1>3. heap[e] \in EntryType
  BY Fields
<1>4. /\ new \in EntryType /\ new.key = heap[e].key
      /\ new.is_loading = FALSE /\ new.data = heap[e].data
      /\ new.waiting_clients = heap[e].waiting_clients
      /\ new.expired = FALSE /\ new.freed = heap[e].freed
  BY <1>1, <1>3 DEF EntryType
<1> QED
  BY <1>2, <1>4, UpdateStep

LEMMA FreeStep ==
  ASSUME heap \in Seq(EntryType), NEW e \in DOMAIN heap, heap' = free_entry(e)
  PROVE  Updated(e, heap[e].is_loading, <<>>, <<>>,
                 heap[e].expired, TRUE)
<1>0. PICK nil : nil = <<>> /\ nil \in Seq(Nat) /\ nil \in Seq(Reqs)
  BY EmptySeq, Zenon
<1>1. PICK new : new = [heap[e] EXCEPT !.freed = TRUE, !.data = nil, !.waiting_clients = nil]
  OBVIOUS
<1>2. heap' = [heap EXCEPT ![e] = new]
  BY <1>0, <1>1 DEF free_entry
<1>3. heap[e] \in EntryType
  BY Fields
<1>4. /\ new \in EntryType /\ new.key = heap[e].key
      /\ new.is_loading = heap[e].is_loading /\ new.data = nil
      /\ new.waiting_clients = nil
      /\ new.expired = heap[e].expired /\ new.freed = TRUE
  BY <1>0, <1>1, <1>3 DEF EntryType
<1>5. Updated(e, heap[e].is_loading, nil, nil, heap[e].expired, TRUE)
  BY <1>2, <1>4, UpdateStep
<1> QED
  BY <1>0, <1>5

LEMMA WaitersStep ==
  ASSUME heap \in Seq(EntryType), NEW e \in DOMAIN heap, NEW w \in Seq(Reqs),
         heap' = [heap EXCEPT ![e].waiting_clients = w]
  PROVE  Updated(e, heap[e].is_loading, heap[e].data, w,
                 heap[e].expired, heap[e].freed)
<1>1. PICK new : new = [heap[e] EXCEPT !.waiting_clients = w]
  OBVIOUS
<1>2. heap' = [heap EXCEPT ![e] = new]
  BY <1>1
<1>3. heap[e] \in EntryType
  BY Fields
<1>4. /\ new \in EntryType /\ new.key = heap[e].key
      /\ new.is_loading = heap[e].is_loading /\ new.data = heap[e].data
      /\ new.waiting_clients = w
      /\ new.expired = heap[e].expired /\ new.freed = heap[e].freed
  BY <1>1, <1>3 DEF EntryType
<1> QED
  BY <1>2, <1>4, UpdateStep

\* A new entry after the existing ones.
Grown(new) ==
    /\ new \in EntryType /\ heap' \in Seq(EntryType)
    /\ Len(heap') = Len(heap) + 1 /\ DOMAIN heap' = 1..Len(heap) + 1
    /\ DOMAIN heap = 1..Len(heap) /\ Len(heap) \in Nat
    /\ heap'[Len(heap) + 1] = new
    /\ \A g \in DOMAIN heap : heap'[g] = heap[g]

LEMMA GrowStep ==
  ASSUME heap \in Seq(EntryType), NEW new \in EntryType, heap' = Append(heap, new)
  PROVE  Grown(new)
<1>1. /\ heap' \in Seq(EntryType) /\ Len(heap') = Len(heap) + 1
      /\ \A g \in 1..Len(heap) : heap'[g] = heap[g]
      /\ heap'[Len(heap) + 1] = new
  BY AppendProperties
<1> QED
  BY <1>1 DEF Grown

CacheOK ==
    /\ heap \in Seq(EntryType) /\ DOMAIN heap = 1..Len(heap)
    /\ buckets \in [Buckets -> Seq(DOMAIN heap)]
    /\ BucketsExact

LEMMA InBucket ==
  ASSUME CacheOK, NEW b \in Buckets
  PROVE  /\ buckets[b] \in Seq(DOMAIN heap) /\ ToSet(buckets[b]) \subseteq DOMAIN heap
         /\ IsInjective(buckets[b])
         /\ \A e \in ToSet(buckets[b]) : ~heap[e].freed /\ Bucket[heap[e].key] = b
         /\ \A e, f \in ToSet(buckets[b]) : heap[e].key = heap[f].key => e = f
<1>1. buckets[b] \in Seq(DOMAIN heap)
  BY DEF CacheOK
<1>2. \A i \in DOMAIN buckets[b] : buckets[b][i] \in DOMAIN heap
  <2>1. DOMAIN buckets[b] = 1..Len(buckets[b])
    BY <1>1, LenProperties
  <2> QED
    BY <1>1, <2>1, ElementOfSeq
<1> QED
  BY <1>1, <1>2 DEF CacheOK, BucketsExact, ToSet

LEMMA FoundEntry ==
  ASSUME CacheOK, NEW k \in Keys, Found(k)
  PROVE  /\ Match(k) = {EntryOf(k)} /\ Bucket[k] \in Buckets
         /\ EntryOf(k) \in ToSet(buckets[Bucket[k]]) /\ EntryOf(k) \in DOMAIN heap
         /\ heap[EntryOf(k)].key = k /\ ~heap[EntryOf(k)].freed
<1>1. Bucket[k] \in Buckets
  BY BucketAssumption
<1>2. EntryOf(k) \in Match(k)
  BY DEF Found, EntryOf
<1>3. EntryOf(k) \in ToSet(buckets[Bucket[k]]) /\ heap[EntryOf(k)].key = k
  BY <1>2 DEF Match
<1>4. \A e \in Match(k) : e = EntryOf(k)
  BY <1>1, <1>3, InBucket DEF Match
<1> QED
  BY <1>1, <1>2, <1>3, <1>4, InBucket

\* The entry e of the bucket b is unlinked and freed.
Frees(b, e) ==
    /\ b \in Buckets /\ e \in ToSet(buckets[b])
    /\ Updated(e, heap[e].is_loading, <<>>, <<>>, heap[e].expired, TRUE)
    /\ buckets' \in [Buckets -> Seq(DOMAIN heap)]
    /\ \A c \in Buckets : c # b => buckets'[c] = buckets[c]
    /\ IsInjective(buckets'[b])
    /\ ToSet(buckets'[b]) \subseteq ToSet(buckets[b]) \ {e}
    /\ pending' = pending

\* ... and nothing but e.
FreesOnly(b, e) == Frees(b, e) /\ ToSet(buckets[b]) \ {e} \subseteq ToSet(buckets'[b])

LEMMA CancelStep ==
  ASSUME CacheOK, NEW k \in Keys, cache_cancel_loading(k)
  PROVE  \/ UNCHANGED cacheVars
         \/ /\ Found(k) /\ heap[EntryOf(k)].is_loading
            /\ FreesOnly(Bucket[k], EntryOf(k))
<1> DEFINE e == EntryOf(k)
           b == Bucket[k]
<1> SUFFICES ASSUME Found(k), heap[e].is_loading, pending' = pending, heap' = free_entry(e),
                    buckets' = [buckets EXCEPT ![b] = RemoveFirst(buckets[b], e)]
             PROVE  FreesOnly(b, e)
  BY DEF cache_cancel_loading
<1>1. e \in ToSet(buckets[b]) /\ e \in DOMAIN heap /\ b \in Buckets
  BY FoundEntry
<1> HIDE DEF e, b
<1>2. Updated(e, heap[e].is_loading, <<>>, <<>>, heap[e].expired, TRUE)
  BY <1>1, FreeStep DEF CacheOK
<1>3. PICK t : t = RemoveFirst(buckets[b], e)
  OBVIOUS
<1>4. t \in Seq(DOMAIN heap) /\ IsInjective(t) /\ ToSet(t) = ToSet(buckets[b]) \ {e}
  BY <1>1, <1>3, InBucket, Unlinked
<1>5. /\ buckets' \in [Buckets -> Seq(DOMAIN heap)] /\ buckets'[b] = t
      /\ \A c \in Buckets : c # b => buckets'[c] = buckets[c]
  BY <1>1, <1>3, <1>4 DEF CacheOK
<1> QED
  BY <1>1, <1>2, <1>4, <1>5 DEF Frees, FreesOnly

LEMMA CollectStep ==
  ASSUME CacheOK, NEW b \in Buckets, cache_clean_expired(b)
  PROVE  \E e \in ToSet(buckets[b]) :
            /\ ~heap[e].is_loading /\ heap[e].expired /\ Frees(b, e)
            /\ SeparateBuckets => FreesOnly(b, e)
<1> DEFINE list == buckets[b]
<1>0. /\ list \in Seq(DOMAIN heap) /\ ToSet(list) \subseteq DOMAIN heap /\ IsInjective(list)
      /\ DOMAIN list = 1..Len(list) /\ Len(list) \in Nat
  BY InBucket
<1>1. PICK n \in 1..Len(list), prev \in 0..Len(list) :
         /\ Collectable(list[n]) /\ prev < n
         /\ buckets' = [buckets EXCEPT ![b] =
                SubSeq(list, 1, prev) \o SubSeq(list, n + 1, Len(list))]
         /\ heap' = free_entry(list[n])
         /\ UNCHANGED pending
  BY <1>0 DEF cache_clean_expired
<1>2. PICK e : e = list[n]
  OBVIOUS
<1>3. e \in ToSet(list) /\ e \in DOMAIN heap
  BY <1>0, <1>2 DEF ToSet
<1>4. Updated(e, heap[e].is_loading, <<>>, <<>>, heap[e].expired, TRUE)
  BY <1>1, <1>2, <1>3, FreeStep DEF CacheOK
<1>5. PICK t : t = Without(list, prev, n)
  OBVIOUS
<1>6. /\ t \in Seq(DOMAIN heap) /\ IsInjective(t)
      /\ ToSet(t) = {list[i] : i \in {j \in 1..Len(list) : j <= prev \/ j > n}}
  <2>1. prev < n
    BY <1>1
  <2> HIDE DEF list
  <2>2. t \in Seq(DOMAIN heap) /\ IsInjective(t) /\ ToSet(t) = Outside(list, prev, n)
    BY <1>0, <1>5, <2>1, Cut, Zenon
  <2> QED
    BY <2>2 DEF Outside
<1>7. ToSet(t) \subseteq ToSet(list) \ {e}
  <2>1. ASSUME NEW j \in 1..Len(list), j <= prev \/ j > n PROVE list[j] # e
    <3>1. j # n
      BY <1>1, <2>1
    <3> QED
      BY <1>0, <1>2, <3>1 DEF IsInjective
  <2> QED
    BY <1>0, <1>6, <2>1 DEF ToSet
<1>8. /\ buckets' \in [Buckets -> Seq(DOMAIN heap)] /\ buckets'[b] = t
      /\ \A c \in Buckets : c # b => buckets'[c] = buckets[c]
  BY <1>1, <1>5, <1>6 DEF CacheOK, Without
<1>9. Frees(b, e)
  BY <1>1, <1>3, <1>4, <1>6, <1>7, <1>8 DEF Frees
<1>10. ASSUME SeparateBuckets PROVE ToSet(list) \ {e} = {}
  <2>1. ASSUME NEW f \in ToSet(list) PROVE f = e
    <3>1. f \in DOMAIN heap /\ heap[f].key \in Keys /\ heap[e].key \in Keys
      BY <1>0, <1>3, Fields DEF CacheOK
    <3>2. Bucket[heap[f].key] = b /\ Bucket[heap[e].key] = b
      BY <1>3, InBucket
    <3>3. heap[f].key = heap[e].key
      BY <1>10, <3>1, <3>2 DEF SeparateBuckets
    <3> QED
      BY <1>3, <3>3, InBucket
  <2> QED
    BY <2>1
<1>11. SeparateBuckets => FreesOnly(b, e)
  BY <1>9, <1>10 DEF FreesOnly
<1>12. ~heap[e].is_loading /\ heap[e].expired
  BY <1>1, <1>2 DEF Collectable
<1> QED
  BY <1>3, <1>9, <1>11, <1>12

\* A new entry e of the key k at the head of its bucket, with the pending waiters.
Creates(k, e) ==
    /\ ~Found(k) /\ e = Len(heap) + 1 /\ Grown(create_entry(k, PendingWaiters(k)))
    /\ PendingWaiters(k) \in Seq(Reqs)
    /\ buckets' \in [Buckets -> Seq(DOMAIN heap')]
    /\ \A c \in Buckets : c # Bucket[k] => buckets'[c] = buckets[c]
    /\ IsInjective(buckets'[Bucket[k]])
    /\ ToSet(buckets'[Bucket[k]]) = {e} \cup ToSet(buckets[Bucket[k]])
    /\ pending' = [pending EXCEPT ![Bucket[k]] = WithoutPending(k)]

PendingType == [key : Keys, waiters : Seq(Reqs)]
PendingOK == pending \in [Buckets -> Seq(PendingType)] /\ PendingExact

LEMMA WaitersPending ==
  ASSUME PendingOK, NEW k \in Keys
  PROVE  /\ PendingWaiters(k) \in Seq(Reqs)
         /\ PendingAt(k) # {} =>
              /\ PendingIndex(k) \in PendingAt(k)
              /\ PendingIndex(k) \in 1..Len(pending[Bucket[k]])
              /\ pending[Bucket[k]][PendingIndex(k)] \in PendingType
              /\ pending[Bucket[k]][PendingIndex(k)].key = k
              /\ PendingWaiters(k) = pending[Bucket[k]][PendingIndex(k)].waiters
<1>1. /\ Bucket[k] \in Buckets
      /\ pending[Bucket[k]] \in Seq(PendingType)
  BY BucketAssumption DEF PendingOK
<1>2. CASE PendingAt(k) = {}
  <2>1. <<>> \in Seq(Reqs)
    BY EmptySeq
  <2> QED
    BY <1>2, <2>1 DEF PendingWaiters
<1>3. CASE PendingAt(k) # {}
  <2>1. PendingIndex(k) \in PendingAt(k)
    BY <1>3 DEF PendingIndex
  <2>2. /\ PendingIndex(k) \in 1..Len(pending[Bucket[k]])
        /\ pending[Bucket[k]][PendingIndex(k)].key = k
    BY <1>1, <2>1 DEF PendingAt
  <2>3. pending[Bucket[k]][PendingIndex(k)] \in PendingType
    BY <1>1, <2>2, ElementOfSeq
  <2>4. PendingWaiters(k) = pending[Bucket[k]][PendingIndex(k)].waiters
    BY <1>3 DEF PendingWaiters
  <2>5. pending[Bucket[k]][PendingIndex(k)].waiters \in Seq(Reqs)
    BY <2>3 DEF PendingType
  <2> QED
    BY <2>1, <2>2, <2>3, <2>4, <2>5
<1> QED
  BY <1>2, <1>3

LEMMA CreateStep ==
  ASSUME CacheOK, PendingOK, NEW k \in Keys, NEW e, cache_start_loading(k, e)
  PROVE  \/ Found(k) /\ e = EntryOf(k) /\ UNCHANGED cacheVars
         \/ Creates(k, e)
<1> DEFINE b == Bucket[k]
<1> SUFFICES ASSUME ~Found(k), e = Len(heap) + 1,
                    heap' = Append(heap, create_entry(k, PendingWaiters(k))),
                    buckets' = [buckets EXCEPT ![b] = <<e>> \o buckets[b]],
                    pending' = [pending EXCEPT ![b] = WithoutPending(k)]
             PROVE  Creates(k, e)
  BY DEF cache_start_loading
<1>1. b \in Buckets /\ PendingWaiters(k) \in Seq(Reqs)
  BY BucketAssumption, WaitersPending
<1>2. create_entry(k, PendingWaiters(k)) \in EntryType
  <2>1. <<>> \in Seq(Nat)
    BY EmptySeq
  <2> QED
    BY <1>1, <2>1 DEF create_entry, EntryType
<1>3. Grown(create_entry(k, PendingWaiters(k)))
  BY <1>2, GrowStep DEF CacheOK
<1>4. /\ DOMAIN heap' = 1..Len(heap) + 1 /\ DOMAIN heap = 1..Len(heap) /\ Len(heap) \in Nat
      /\ DOMAIN heap \subseteq DOMAIN heap' /\ e \in DOMAIN heap' /\ e \notin DOMAIN heap
  BY <1>3 DEF Grown
<1>5. /\ buckets[b] \in Seq(DOMAIN heap) /\ IsInjective(buckets[b])
      /\ ToSet(buckets[b]) \subseteq DOMAIN heap
  BY <1>1, InBucket
<1>6. \A c \in Buckets : buckets[c] \in Seq(DOMAIN heap')
  BY <1>4, SeqMonotonic DEF CacheOK
<1>7. PICK t : t = <<e>> \o buckets[b]
  OBVIOUS
<1>8. t \in Seq(DOMAIN heap') /\ ToSet(t) = {e} \cup ToSet(buckets[b]) /\ IsInjective(t)
  BY <1>1, <1>4, <1>5, <1>6, <1>7, Pushed
<1>9. /\ buckets' \in [Buckets -> Seq(DOMAIN heap')] /\ buckets'[b] = t
      /\ \A c \in Buckets : c # b => buckets'[c] = buckets[c]
  BY <1>1, <1>6, <1>7, <1>8 DEF CacheOK
<1> QED
  BY <1>1, <1>3, <1>8, <1>9 DEF Creates

\* The lookups that find an entry, when no entry moves.
LEMMA UpdateKeeps ==
  ASSUME CacheOK, NEW e, NEW l, NEW d, NEW w, NEW x,
         Updated(e, l, d, w, x, heap[e].freed), buckets' = buckets
  PROVE  /\ CacheOK' /\ \A k \in Keys : Match(k)' = Match(k)
         /\ \A g \in DOMAIN heap : heap'[g].freed = heap[g].freed
<1>1. /\ heap' \in Seq(EntryType) /\ DOMAIN heap' = DOMAIN heap /\ Len(heap') = Len(heap)
      /\ \A g \in DOMAIN heap : heap'[g].key = heap[g].key
      /\ \A g \in DOMAIN heap : heap'[g].freed = heap[g].freed
  BY DEF Updated
<1>2. ASSUME NEW b \in Buckets
      PROVE  /\ ToSet(buckets'[b]) = ToSet(buckets[b]) /\ IsInjective(buckets'[b])
             /\ \A g \in ToSet(buckets[b]) : ~heap'[g].freed /\ Bucket[heap'[g].key] = b
             /\ \A g, f \in ToSet(buckets[b]) : heap'[g].key = heap'[f].key => g = f
  BY <1>1, InBucket
<1>3. BucketsExact'
  BY <1>2 DEF BucketsExact
<1>4. ASSUME NEW k \in Keys PROVE Match(k)' = Match(k)
  <2>1. Bucket[k] \in Buckets
    BY BucketAssumption
  <2> QED
    BY <1>1, <1>2, <2>1, InBucket DEF Match
<1> QED
  BY <1>1, <1>3, <1>4 DEF CacheOK

LEMMA FreeKeeps ==
  ASSUME CacheOK, NEW b, NEW e, Frees(b, e)
  PROVE  /\ CacheOK'
         /\ \A k \in Keys : Match(k)' \subseteq Match(k) \ {e}
         /\ \A k \in Keys : Bucket[k] # b => Match(k)' = Match(k)
         /\ FreesOnly(b, e) => \A k \in Keys : Match(k)' = Match(k) \ {e}
<1>1. /\ heap' \in Seq(EntryType) /\ DOMAIN heap' = DOMAIN heap /\ Len(heap') = Len(heap)
      /\ \A g \in DOMAIN heap : heap'[g].key = heap[g].key
      /\ \A g \in DOMAIN heap : g # e => heap'[g].freed = heap[g].freed
  BY DEF Updated, Frees
<1>2. /\ b \in Buckets /\ e \in ToSet(buckets[b])
      /\ buckets' \in [Buckets -> Seq(DOMAIN heap)]
      /\ \A c \in Buckets : c # b => buckets'[c] = buckets[c]
      /\ IsInjective(buckets'[b]) /\ ToSet(buckets'[b]) \subseteq ToSet(buckets[b]) \ {e}
  BY DEF Frees
<1>3. ASSUME NEW c \in Buckets
      PROVE  /\ ToSet(buckets'[c]) \subseteq ToSet(buckets[c]) \ {e}
             /\ IsInjective(buckets'[c])
             /\ \A g \in ToSet(buckets[c]) \ {e} : ~heap'[g].freed /\ Bucket[heap'[g].key] = c
             /\ \A g, f \in ToSet(buckets[c]) : heap'[g].key = heap'[f].key => g = f
  <2>1. /\ ToSet(buckets[c]) \subseteq DOMAIN heap /\ IsInjective(buckets[c])
        /\ \A g \in ToSet(buckets[c]) : ~heap[g].freed /\ Bucket[heap[g].key] = c
        /\ \A g, f \in ToSet(buckets[c]) : heap[g].key = heap[f].key => g = f
    BY InBucket
  <2>2. Bucket[heap[e].key] = b
    BY <1>2, InBucket
  <2>3. c # b => e \notin ToSet(buckets[c])
    BY <2>1, <2>2
  <2>4. ToSet(buckets'[c]) \subseteq ToSet(buckets[c]) \ {e} /\ IsInjective(buckets'[c])
    <3>1. CASE c = b
      BY <1>2, <3>1
    <3>2. CASE c # b
      <4>1. buckets'[c] = buckets[c]
        BY <1>2, <3>2
      <4> QED
        BY <2>1, <2>3, <3>2, <4>1
    <3> QED
      BY <3>1, <3>2
  <2> QED
    BY <1>1, <2>1, <2>4
<1>4. BucketsExact'
  BY <1>3 DEF BucketsExact
<1>5. ASSUME NEW k \in Keys
      PROVE  /\ Match(k)' \subseteq Match(k) \ {e}
             /\ Bucket[k] # b => Match(k)' = Match(k)
             /\ FreesOnly(b, e) => Match(k)' = Match(k) \ {e}
  <2>1. /\ Bucket[k] \in Buckets /\ ToSet(buckets[Bucket[k]]) \subseteq DOMAIN heap
        /\ ToSet(buckets'[Bucket[k]]) \subseteq ToSet(buckets[Bucket[k]]) \ {e}
    BY <1>3, BucketAssumption, InBucket
  <2>2. Match(k)' \subseteq Match(k) \ {e}
    BY <1>1, <2>1 DEF Match
  <2>3. Bucket[k] # b => Match(k)' = Match(k)
    BY <1>1, <1>2, <2>1 DEF Match
  <2>4. FreesOnly(b, e) => Match(k) \ {e} \subseteq Match(k)'
    <3>1. CASE Bucket[k] # b
      BY <2>3, <3>1
    <3>2. CASE Bucket[k] = b
      <4>1. FreesOnly(b, e) => ToSet(buckets[b]) \ {e} \subseteq ToSet(buckets'[b])
        BY DEF FreesOnly
      <4> QED
        BY <1>1, <2>1, <3>2, <4>1 DEF Match
    <3> QED
      BY <3>1, <3>2
  <2>5. FreesOnly(b, e) => Match(k)' = Match(k) \ {e}
    BY <2>2, <2>4
  <2> QED
    BY <2>2, <2>3, <2>5, Zenon
<1> QED
  BY <1>1, <1>2, <1>4, <1>5 DEF CacheOK

LEMMA CreateKeeps ==
  ASSUME CacheOK, NEW k \in Keys, NEW e, Creates(k, e)
  PROVE  /\ CacheOK' /\ e \in DOMAIN heap' /\ e \notin DOMAIN heap
         /\ Match(k)' = {e} /\ \A m \in Keys : m # k => Match(m)' = Match(m)
<1> DEFINE new == create_entry(k, PendingWaiters(k))
<1>1. /\ heap' \in Seq(EntryType) /\ DOMAIN heap' = 1..Len(heap')
      /\ e \in DOMAIN heap' /\ e \notin DOMAIN heap /\ heap'[e] = new
      /\ \A g \in DOMAIN heap : g \in DOMAIN heap' /\ heap'[g] = heap[g]
  BY DEF Creates, Grown
<1>2. new.key = k /\ new.freed = FALSE
  BY DEF create_entry
<1> HIDE DEF new
<1>3. /\ buckets' \in [Buckets -> Seq(DOMAIN heap')] /\ Bucket[k] \in Buckets
      /\ \A c \in Buckets : c # Bucket[k] => buckets'[c] = buckets[c]
      /\ IsInjective(buckets'[Bucket[k]])
      /\ ToSet(buckets'[Bucket[k]]) = {e} \cup ToSet(buckets[Bucket[k]])
      /\ Match(k) = {}
  BY BucketAssumption DEF Creates, Found
<1>4. \A c \in Buckets : ToSet(buckets[c]) \subseteq DOMAIN heap
  BY InBucket
<1>5. ASSUME NEW c \in Buckets
      PROVE  /\ IsInjective(buckets'[c])
             /\ \A g \in ToSet(buckets'[c]) : ~heap'[g].freed /\ Bucket[heap'[g].key] = c
             /\ \A g, f \in ToSet(buckets'[c]) : heap'[g].key = heap'[f].key => g = f
  <2>1. CASE c # Bucket[k]
    <3>1. buckets'[c] = buckets[c] /\ ToSet(buckets[c]) \subseteq DOMAIN heap
      BY <1>3, <1>4, <2>1
    <3>2. \A g \in ToSet(buckets[c]) : heap'[g] = heap[g]
      BY <1>1, <3>1
    <3> QED
      BY <3>1, <3>2, InBucket
  <2>2. CASE c = Bucket[k]
    <3>1. \A g \in ToSet(buckets[c]) : heap[g].key # k
      BY <1>3, <2>2 DEF Match
    <3>2. \A g \in ToSet(buckets[c]) :
             g \in DOMAIN heap /\ heap'[g] = heap[g] /\ heap'[g].key # k
      BY <1>1, <1>4, <3>1
    <3>3. \A g \in ToSet(buckets[c]) : ~heap'[g].freed /\ Bucket[heap'[g].key] = c
      BY <3>2, InBucket
    <3>4. \A g, f \in ToSet(buckets[c]) : heap'[g].key = heap'[f].key => g = f
      BY <3>2, InBucket
    <3> QED
      BY <1>1, <1>2, <1>3, <2>2, <3>2, <3>3, <3>4
  <2> QED
    BY <2>1, <2>2
<1>6. BucketsExact'
  BY <1>5 DEF BucketsExact
<1>7. Match(k)' = {e}
  <2>1. \A g \in ToSet(buckets[Bucket[k]]) : heap'[g].key # k
    BY <1>1, <1>3, <1>4 DEF Match
  <2> QED
    BY <1>1, <1>2, <1>3, <2>1 DEF Match
<1>8. ASSUME NEW m \in Keys, m # k PROVE Match(m)' = Match(m)
  <2>1. Bucket[m] \in Buckets
    BY BucketAssumption
  <2>2. \A g \in ToSet(buckets[Bucket[m]]) : heap'[g].key = heap[g].key
    BY <1>1, <1>4, <2>1
  <2>3. CASE Bucket[m] = Bucket[k]
    BY <1>1, <1>2, <1>3, <1>8, <2>2, <2>3 DEF Match
  <2>4. CASE Bucket[m] # Bucket[k]
    BY <1>3, <2>1, <2>2, <2>4 DEF Match
  <2> QED
    BY <2>3, <2>4
<1> QED
  BY <1>1, <1>3, <1>6, <1>7, <1>8 DEF CacheOK

LEMMA NothingMoves ==
  ASSUME CacheOK, UNCHANGED <<heap, buckets>>
  PROVE  CacheOK' /\ \A k \in Keys : Match(k)' = Match(k)
BY DEF CacheOK, BucketsExact, Match, ToSet

LEMMA InPending ==
  ASSUME PendingOK, NEW b \in Buckets
  PROVE  /\ pending[b] \in Seq(PendingType) /\ ToSet(pending[b]) \subseteq PendingType
         /\ DOMAIN pending[b] = 1..Len(pending[b]) /\ Len(pending[b]) \in Nat
         /\ IsInjective(pending[b])
         /\ \A p, q \in ToSet(pending[b]) : p.key = q.key => p = q
<1>1. pending[b] \in Seq(PendingType)
  BY DEF PendingOK
<1>2. DOMAIN pending[b] = 1..Len(pending[b]) /\ Len(pending[b]) \in Nat
  BY <1>1, LenProperties
<1>3. \A i \in 1..Len(pending[b]) : pending[b][i] \in PendingType
  BY <1>1, ElementOfSeq
<1> QED
  BY <1>1, <1>2, <1>3 DEF PendingOK, PendingExact, ToSet

\* The list of the bucket b becomes t.
LEMMA PendingBecomes ==
  ASSUME PendingOK, NEW b \in Buckets, NEW t \in Seq(PendingType), IsInjective(t),
         \A p, q \in ToSet(t) : p.key = q.key => p = q,
         pending' = [pending EXCEPT ![b] = t]
  PROVE  /\ PendingOK' /\ pending'[b] = t
         /\ \A c \in Buckets : c # b => pending'[c] = pending[c]
<1>1. /\ pending' \in [Buckets -> Seq(PendingType)] /\ pending'[b] = t
      /\ \A c \in Buckets : c # b => pending'[c] = pending[c]
  BY DEF PendingOK
<1>2. ASSUME NEW c \in Buckets
      PROVE  /\ IsInjective(pending'[c])
             /\ \A p, q \in ToSet(pending'[c]) : p.key = q.key => p = q
  <2>1. CASE c = b
    BY <1>1, <2>1
  <2>2. CASE c # b
    <3>1. pending'[c] = pending[c]
      BY <1>1, <2>2
    <3> QED
      BY <3>1, InPending
  <2> QED
    BY <2>1, <2>2
<1>3. PendingExact'
  BY <1>2 DEF PendingExact
<1> QED
  BY <1>1, <1>3 DEF PendingOK

\* The pending waiters of k are gone, and nobody new is there.
Dropped(k) ==
    /\ \A c \in Buckets : c # Bucket[k] => pending'[c] = pending[c]
    /\ ToSet(pending'[Bucket[k]]) \subseteq {p \in ToSet(pending[Bucket[k]]) : p.key # k}

LEMMA DropStep ==
  ASSUME PendingOK, NEW k \in Keys,
         pending' = [pending EXCEPT ![Bucket[k]] = WithoutPending(k)]
  PROVE  PendingOK' /\ Dropped(k)
<1> DEFINE b == Bucket[k]
           list == pending[b]
<1>1. /\ b \in Buckets /\ list \in Seq(PendingType) /\ DOMAIN list = 1..Len(list)
      /\ Len(list) \in Nat /\ IsInjective(list)
      /\ \A p, q \in ToSet(list) : p.key = q.key => p = q
  BY BucketAssumption, InPending
<1>2. PICK t : t = WithoutPending(k)
  OBVIOUS
<1>3. /\ t \in Seq(PendingType) /\ IsInjective(t)
      /\ ToSet(t) \subseteq {p \in ToSet(list) : p.key # k}
  <2>1. CASE PendingAt(k) = {}
    <3>1. t = list
      BY <1>2, <2>1 DEF WithoutPending
    <3>2. \A p \in ToSet(list) : p.key # k
      BY <2>1 DEF PendingAt, ToSet
    <3> QED
      BY <1>1, <3>1, <3>2
  <2>2. CASE PendingAt(k) = {1}
    <3>1. t = <<>>
      BY <1>2, <2>2 DEF WithoutPending
    <3>2. t \in Seq(PendingType)
      BY <3>1, EmptySeq
    <3>3. DOMAIN t = {}
      BY <3>1
    <3> QED
      BY <3>2, <3>3 DEF IsInjective, ToSet
  <2>3. CASE PendingAt(k) # {} /\ PendingAt(k) # {1}
    <3>1. PICK n : n = PendingIndex(k)
      OBVIOUS
    <3>2. n \in 1..Len(list) /\ list[n].key = k
      BY <2>3, <3>1, WaitersPending
    <3>3. t = Without(list, n - 1, n)
      BY <1>2, <2>3, <3>1 DEF WithoutPending, RemoveAt, Without
    <3>4. n - 1 \in 0..Len(list) /\ n - 1 < n
      BY <1>1, <3>2
    <3> HIDE DEF list
    <3>0. t \in Seq(PendingType) /\ IsInjective(t) /\ ToSet(t) = Outside(list, n - 1, n)
      BY <1>1, <3>2, <3>3, <3>4, Cut, Zenon
    <3>5. /\ t \in Seq(PendingType) /\ IsInjective(t)
          /\ ToSet(t) = {list[i] : i \in {j \in 1..Len(list) : j <= n - 1 \/ j > n}}
      BY <3>0 DEF Outside
    <3>6. ASSUME NEW j \in 1..Len(list), j <= n - 1 \/ j > n
          PROVE  list[j] \in ToSet(list) /\ list[j].key # k
      <4>1. j # n
        BY <3>2, <3>6
      <4>2. list[j] \in ToSet(list) /\ list[n] \in ToSet(list) /\ list[j] # list[n]
        BY <1>1, <3>2, <4>1 DEF ToSet, IsInjective
      <4> QED
        BY <1>1, <3>2, <4>2
    <3> QED
      BY <3>5, <3>6
  <2> QED
    BY <2>1, <2>2, <2>3
<1>4. \A p, q \in ToSet(t) : p.key = q.key => p = q
  BY <1>1, <1>3
<1>5. pending' = [pending EXCEPT ![b] = t]
  BY <1>2
<1> HIDE DEF b, list
<1>6. PendingOK' /\ pending'[b] = t /\ \A c \in Buckets : c # b => pending'[c] = pending[c]
  BY <1>1, <1>3, <1>4, <1>5, PendingBecomes
<1> QED
  BY <1>3, <1>6 DEF Dropped, b, list

\* w is added to the pending waiters of k.
Added(k, w) ==
    /\ \A c \in Buckets : c # Bucket[k] => pending'[c] = pending[c]
    /\ <<w>> \o PendingWaiters(k) \in Seq(Reqs)
    /\ ToSet(pending'[Bucket[k]]) =
          {p \in ToSet(pending[Bucket[k]]) : p.key # k}
            \cup {[key |-> k, waiters |-> <<w>> \o PendingWaiters(k)]}

LEMMA AddedList ==
  ASSUME PendingOK, NEW k \in Keys, NEW w \in Reqs,
         NEW ws \in Seq(Reqs), ws = <<w>> \o PendingWaiters(k),
         NEW t \in Seq(PendingType), IsInjective(t),
         ToSet(t) = {p \in ToSet(pending[Bucket[k]]) : p.key # k}
                      \cup {[key |-> k, waiters |-> ws]},
         pending' = [pending EXCEPT ![Bucket[k]] = t]
  PROVE  PendingOK' /\ Added(k, w)
<1>1. /\ Bucket[k] \in Buckets
      /\ \A p, q \in ToSet(pending[Bucket[k]]) : p.key = q.key => p = q
  BY BucketAssumption, InPending
<1>2. PICK new : new = [key |-> k, waiters |-> ws]
  OBVIOUS
<1>3. new.key = k /\ ToSet(t) = {p \in ToSet(pending[Bucket[k]]) : p.key # k} \cup {new}
  BY <1>2
<1>4. \A p, q \in ToSet(t) : p.key = q.key => p = q
  BY <1>1, <1>3
<1>5. /\ PendingOK' /\ pending'[Bucket[k]] = t
      /\ \A c \in Buckets : c # Bucket[k] => pending'[c] = pending[c]
  BY <1>1, <1>4, PendingBecomes
<1> QED
  BY <1>2, <1>3, <1>5 DEF Added

LEMMA AddStep ==
  ASSUME PendingOK, NEW k \in Keys, NEW w \in Reqs, ~Found(k), cache_register_waiter(k, w)
  PROVE  PendingOK' /\ Added(k, w) /\ UNCHANGED <<heap, buckets>>
<1> DEFINE b == Bucket[k]
           list == pending[b]
<1>1. /\ b \in Buckets /\ list \in Seq(PendingType) /\ DOMAIN list = 1..Len(list)
      /\ Len(list) \in Nat /\ IsInjective(list) /\ ToSet(list) \subseteq PendingType
      /\ \A p, q \in ToSet(list) : p.key = q.key => p = q
  BY BucketAssumption, InPending
<1>2. PICK ws : ws = <<w>> \o PendingWaiters(k)
  OBVIOUS
<1>3. ws \in Seq(Reqs)
  BY <1>2, WaitersPending, Pushed
<1>4. PICK new : new = [key |-> k, waiters |-> ws]
  OBVIOUS
<1>5. new \in PendingType /\ new.key = k
  BY <1>3, <1>4 DEF PendingType
<1>6. UNCHANGED <<heap, buckets>>
  BY DEF cache_register_waiter
<1>7. CASE PendingAt(k) = {}
  <2>1. \A p \in ToSet(list) : p.key # k
    BY <1>7 DEF PendingAt, ToSet
  <2>2. ws = <<w>>
    <3>1. <<>> \in Seq(Reqs) /\ <<w>> \in Seq(Reqs)
      OBVIOUS
    <3>2. PendingWaiters(k) = <<>>
      BY <1>7 DEF PendingWaiters
    <3> QED
      BY <1>2, <3>1, <3>2, ConcatEmptySeq
  <2>3. PICK t : t = <<new>> \o list
    OBVIOUS
  <2>4. pending' = [pending EXCEPT ![b] = t]
    BY <1>4, <1>7, <2>2, <2>3 DEF cache_register_waiter
  <2> HIDE DEF list, b
  <2>5. t \in Seq(PendingType) /\ IsInjective(t) /\ ToSet(t) = {new} \cup ToSet(list)
    BY <1>1, <1>5, <2>1, <2>3, Pushed
  <2>6. ToSet(t) = {p \in ToSet(list) : p.key # k} \cup {new}
    BY <2>1, <2>5
  <2> QED
    <3>1. ToSet(t) = {p \in ToSet(pending[Bucket[k]]) : p.key # k}
                       \cup {[key |-> k, waiters |-> ws]}
      BY <1>4, <2>6 DEF list, b
    <3>2. pending' = [pending EXCEPT ![Bucket[k]] = t]
      BY <2>4 DEF b
    <3>3. t \in Seq(PendingType) /\ IsInjective(t)
      BY <2>5
    <3> QED
      BY <1>2, <1>3, <1>6, <3>1, <3>2, <3>3, AddedList
<1>8. CASE PendingAt(k) # {}
  <2>1. PICK n : n = PendingIndex(k)
    OBVIOUS
  <2>2. /\ n \in 1..Len(list) /\ list[n] \in PendingType /\ list[n].key = k
        /\ PendingWaiters(k) = list[n].waiters
    BY <1>8, <2>1, WaitersPending
  <2>3. PICK t : t = [list EXCEPT ![n] = new]
    OBVIOUS
  <2>4. new = [list[n] EXCEPT !.waiters = ws]
    BY <1>3, <1>4, <2>2 DEF PendingType
  <2>5. pending' = [pending EXCEPT ![b] = t]
    BY <1>2, <1>8, <2>1, <2>2, <2>3, <2>4 DEF cache_register_waiter
  <2> HIDE DEF list, b
  <2>6. /\ t \in Seq(PendingType) /\ Len(t) = Len(list) /\ DOMAIN t = 1..Len(list)
        /\ t[n] = new /\ \A i \in 1..Len(list) : i # n => t[i] = list[i]
    BY <1>1, <1>5, <2>2, <2>3, ExceptSeq
  <2>7. ASSUME NEW i \in 1..Len(list), i # n PROVE list[i] \in ToSet(list) /\ list[i].key # k
    <3>1. list[i] \in ToSet(list) /\ list[n] \in ToSet(list) /\ list[i] # list[n]
      BY <1>1, <2>2, <2>7 DEF ToSet, IsInjective
    <3> QED
      BY <1>1, <2>2, <3>1
  <2>8. IsInjective(t)
    <3> SUFFICES ASSUME NEW i \in 1..Len(list), NEW j \in 1..Len(list), t[i] = t[j]
                 PROVE  i = j
      BY <2>6 DEF IsInjective
    <3>1. CASE i # n /\ j # n
      BY <1>1, <2>6, <3>1 DEF IsInjective
    <3>2. CASE i = n \/ j = n
      BY <1>5, <2>6, <2>7, <3>2
    <3> QED
      BY <3>1, <3>2
  <2>9. ToSet(t) \subseteq {p \in ToSet(list) : p.key # k} \cup {new}
    BY <2>6, <2>7 DEF ToSet
  <2>10. ASSUME NEW p \in ToSet(list), p.key # k PROVE p \in ToSet(t)
    <3>1. PICK i \in 1..Len(list) : p = list[i]
      BY <1>1 DEF ToSet
    <3>2. i # n
      BY <2>2, <2>10, <3>1
    <3> QED
      BY <2>6, <3>1, <3>2 DEF ToSet
  <2>11. new \in ToSet(t)
    BY <2>2, <2>6 DEF ToSet
  <2>12. ToSet(t) = {p \in ToSet(list) : p.key # k} \cup {new}
    BY <2>9, <2>10, <2>11
  <2> QED
    <3>1. ToSet(t) = {p \in ToSet(pending[Bucket[k]]) : p.key # k}
                       \cup {[key |-> k, waiters |-> ws]}
      BY <1>4, <2>12 DEF list, b
    <3>2. pending' = [pending EXCEPT ![Bucket[k]] = t]
      BY <2>5 DEF b
    <3>3. t \in Seq(PendingType) /\ IsInjective(t)
      BY <2>6, <2>8
    <3> QED
      BY <1>2, <1>3, <1>6, <3>1, <3>2, <3>3, AddedList
<1> QED
  BY <1>7, <1>8

\* w is added to the waiters of the entry of k.
LEMMA JoinStep ==
  ASSUME CacheOK, NEW k \in Keys, NEW w \in Reqs, Found(k), cache_register_waiter(k, w)
  PROVE  /\ Updated(EntryOf(k), heap[EntryOf(k)].is_loading, heap[EntryOf(k)].data,
                    <<w>> \o heap[EntryOf(k)].waiting_clients,
                    heap[EntryOf(k)].expired, heap[EntryOf(k)].freed)
         /\ UNCHANGED <<buckets, pending>>
<1>1. PICK e : e = EntryOf(k)
  OBVIOUS
<1>2. e \in DOMAIN heap /\ heap \in Seq(EntryType) /\ heap[e].waiting_clients \in Seq(Reqs)
  BY <1>1, FoundEntry, Fields DEF CacheOK
<1>3. PICK ws : ws = <<w>> \o heap[e].waiting_clients
  OBVIOUS
<1>4. ws \in Seq(Reqs)
  BY <1>2, <1>3, Pushed
<1>5. heap' = [heap EXCEPT ![e].waiting_clients = ws] /\ UNCHANGED <<buckets, pending>>
  BY <1>1, <1>3 DEF cache_register_waiter
<1>6. Updated(e, heap[e].is_loading, heap[e].data, ws, heap[e].expired, heap[e].freed)
  BY <1>2, <1>4, <1>5, WaitersStep
<1> QED
  BY <1>1, <1>3, <1>5, <1>6

LEMMA LeaveStep ==
  ASSUME CacheOK, NEW k \in Keys, NEW w \in Reqs, Found(k), cache_unregister_waiter(k, w)
  PROVE  /\ Updated(EntryOf(k), heap[EntryOf(k)].is_loading, heap[EntryOf(k)].data,
                    RemoveFirst(heap[EntryOf(k)].waiting_clients, w),
                    heap[EntryOf(k)].expired, heap[EntryOf(k)].freed)
         /\ UNCHANGED <<buckets, pending>>
<1>1. PICK e : e = EntryOf(k)
  OBVIOUS
<1>2. e \in DOMAIN heap /\ heap \in Seq(EntryType) /\ heap[e].waiting_clients \in Seq(Reqs)
  BY <1>1, FoundEntry, Fields DEF CacheOK
<1>3. PICK ws : ws = RemoveFirst(heap[e].waiting_clients, w)
  OBVIOUS
<1>4. ws \in Seq(Reqs)
  BY <1>2, <1>3, Unlinked
<1>5. heap' = [heap EXCEPT ![e].waiting_clients = ws] /\ UNCHANGED <<buckets, pending>>
  BY <1>1, <1>3 DEF cache_unregister_waiter
<1>6. Updated(e, heap[e].is_loading, heap[e].data, ws, heap[e].expired, heap[e].freed)
  BY <1>2, <1>4, <1>5, WaitersStep
<1> QED
  BY <1>1, <1>3, <1>5, <1>6

-----------------------------------------------------------------------------
(* Every step, as far as the cache is concerned *)

\* Nothing happens in the cache, except that entries may be touched.
Rests ==
    /\ heap' \in Seq(EntryType) /\ Len(heap') = Len(heap) /\ DOMAIN heap' = DOMAIN heap
    /\ \A g \in DOMAIN heap :
          /\ heap'[g].key = heap[g].key /\ heap'[g].is_loading = heap[g].is_loading
          /\ heap'[g].data = heap[g].data /\ heap'[g].freed = heap[g].freed
          /\ heap'[g].waiting_clients = heap[g].waiting_clients
          /\ heap'[g].expired => heap[g].expired
    /\ UNCHANGED <<buckets, pending>>

LEMMA RestKeeps ==
  ASSUME CacheOK, PendingOK, Rests
  PROVE  CacheOK' /\ PendingOK' /\ \A k \in Keys : Match(k)' = Match(k)
<1>1. /\ heap' \in Seq(EntryType) /\ DOMAIN heap' = DOMAIN heap /\ Len(heap') = Len(heap)
      /\ buckets' = buckets /\ pending' = pending
      /\ \A g \in DOMAIN heap : heap'[g].key = heap[g].key /\ heap'[g].freed = heap[g].freed
  BY DEF Rests
<1>2. ASSUME NEW b \in Buckets
      PROVE  /\ IsInjective(buckets[b]) /\ ToSet(buckets[b]) \subseteq DOMAIN heap
             /\ \A g \in ToSet(buckets[b]) : ~heap'[g].freed /\ Bucket[heap'[g].key] = b
             /\ \A g, f \in ToSet(buckets[b]) : heap'[g].key = heap'[f].key => g = f
  BY <1>1, InBucket
<1>3. BucketsExact'
  BY <1>1, <1>2 DEF BucketsExact
<1>4. ASSUME NEW k \in Keys PROVE Match(k)' = Match(k)
  <2>1. Bucket[k] \in Buckets
    BY BucketAssumption
  <2> QED
    BY <1>1, <1>2, <2>1 DEF Match
<1>5. PendingOK'
  BY <1>1 DEF PendingOK, PendingExact
<1> QED
  BY <1>1, <1>3, <1>4, <1>5 DEF CacheOK

LEMMA SameRests ==
  ASSUME CacheOK, UNCHANGED cacheVars
  PROVE  Rests
BY DEF CacheOK, Rests, cacheVars

LEMMA TouchRests ==
  ASSUME CacheOK, NEW r \in Reqs, Found(KeyOf[r]), TouchIfNew(r)
  PROVE  Rests
<1>1. KeyOf[r] \in Keys /\ buckets' = buckets /\ pending' = pending
  BY ProxyAssumption DEF TouchIfNew
<1>2. CASE heap' = heap
  BY <1>1, <1>2, SameRests DEF cacheVars
<1>3. CASE heap' = Touch(EntryOf(KeyOf[r]))
  <2>1. PICK e : e = EntryOf(KeyOf[r])
    OBVIOUS
  <2>2. e \in DOMAIN heap
    BY <1>1, <2>1, FoundEntry
  <2>3. Updated(e, heap[e].is_loading, heap[e].data, heap[e].waiting_clients,
                FALSE, heap[e].freed)
    BY <1>3, <2>1, <2>2, TouchStep DEF CacheOK
  <2> QED
    BY <1>1, <2>3 DEF Rests, Updated
<1> QED
  BY <1>2, <1>3 DEF TouchIfNew

LEMMA InvOf ==
  ASSUME ProxyInv
  PROVE  /\ CacheOK /\ PendingOK
         /\ pc \in [Reqs -> Labels] /\ KeyOf \in [Reqs -> Keys]
<1>1. DOMAIN heap = 1..Len(heap)
  BY LenProperties DEF ProxyInv, TypeOK
<1> QED
  BY <1>1, ProxyAssumption DEF ProxyInv, TypeOK, CacheOK, PendingOK, PendingType

\* Of the callbacks only the registrations change the cache.
LEMMA CallbackRests ==
  ASSUME ProxyInv, NEW r \in Reqs, Callback(r) \/ ClientGone(r),
         ~RegisterNotFound(r), ~Register(r), ~Unregister(r)
  PROVE  Rests
<1>0. CacheOK
  BY InvOf
<1>1. CASE UNCHANGED cacheVars
  BY <1>0, <1>1, SameRests
<1>2. CASE ReadLoading(r) \/ RecheckRead(r) \/ SendChunk(r) \/ SendRefused(r)
  <2>1. /\ pc[r] \in {"rc_loading", "recheck_loading", "recheck_complete", "read_loading",
                      "read_complete"}
        /\ TouchIfNew(r)
    BY <1>2 DEF ReadLoading, RecheckRead, SendChunk, SendRefused, Step
  <2>2. Found(KeyOf[r])
    BY <2>1 DEF ProxyInv, LookupsFind, LookupLabels
  <2> QED
    BY <1>0, <2>1, <2>2, TouchRests
<1>3. CASE read_client(r) \/ send_next_chunk(r) \/ Recheck(r)
  BY <1>1, <1>3 DEF read_client, send_next_chunk, Recheck, Lookup
<1> QED
  BY <1>1, <1>2, <1>3 DEF Callback, ClientGone, WriteError, ReadError, ReadFound,
     SendNothingNew, SendDone, SendError, on_data_ready, echo_write_buffer_load, echo_write, free_write_req

\* The entry of a worker that has begun.
LEMMA WorkerEntry ==
  ASSUME ProxyInv, NEW r \in Reqs, Started(r)
  PROVE  /\ task[r].entry \in DOMAIN heap /\ heap[task[r].entry].key = KeyOf[r]
         /\ task[r].got \in Nat
<1>1. DOMAIN heap = 1..Len(heap) /\ Len(heap) \in Nat
  BY LenProperties DEF ProxyInv, TypeOK
<1>2. task[r].entry \in 0..Len(heap) /\ task[r].got \in Nat
  BY DEF ProxyInv, TypeOK
<1>3. task[r].entry # 0 /\ heap[task[r].entry].key = KeyOf[r]
  BY DEF ProxyInv, WorkersHaveEntries, Entry
<1> QED
  BY <1>1, <1>2, <1>3

CacheNext ==
    /\ CacheOK' /\ PendingOK' /\ Len(heap) <= Len(heap')
    /\ \A g \in DOMAIN heap : g \in DOMAIN heap' /\ heap'[g].key = heap[g].key
    /\ \A k \in Keys : Found(k) => Found(k)' \/ BucketFree(Bucket[k])

LEMMA RestNext ==
  ASSUME ProxyInv, Rests
  PROVE  CacheNext
<1>1. CacheOK' /\ PendingOK' /\ \A k \in Keys : Match(k)' = Match(k)
  BY InvOf, RestKeeps
<1>2. Len(heap) \in Nat
  BY LenProperties DEF ProxyInv, TypeOK
<1> QED
  BY <1>1, <1>2 DEF CacheNext, Rests, Found

LEMMA UpdateNext ==
  ASSUME ProxyInv, NEW e, NEW l, NEW d, NEW w, NEW x,
         Updated(e, l, d, w, x, heap[e].freed), UNCHANGED <<buckets, pending>>
  PROVE  CacheNext
<1>1. CacheOK' /\ \A k \in Keys : Match(k)' = Match(k)
  BY InvOf, UpdateKeeps
<1>2. Len(heap) \in Nat /\ PendingOK
  BY InvOf, LenProperties DEF ProxyInv, TypeOK
<1>3. PendingOK'
  BY <1>2 DEF PendingOK, PendingExact
<1> QED
  BY <1>1, <1>2, <1>3 DEF CacheNext, Updated, Found

LEMMA FreeNext ==
  ASSUME ProxyInv, NEW b, NEW e, Frees(b, e), BucketFree(b)
  PROVE  CacheNext
<1>1. CacheOK' /\ \A k \in Keys : Bucket[k] # b => Match(k)' = Match(k)
  BY InvOf, FreeKeeps
<1>2. Len(heap) \in Nat /\ PendingOK
  BY InvOf, LenProperties DEF ProxyInv, TypeOK
<1>3. PendingOK'
  BY <1>2 DEF PendingOK, PendingExact, Frees
<1>4. /\ Len(heap') = Len(heap)
      /\ \A g \in DOMAIN heap : g \in DOMAIN heap' /\ heap'[g].key = heap[g].key
  BY DEF Frees, Updated
<1> QED
  BY <1>1, <1>2, <1>3, <1>4 DEF CacheNext, Found

LEMMA CreateNext ==
  ASSUME ProxyInv, NEW k \in Keys, NEW e, Creates(k, e)
  PROVE  CacheNext
<1>1. CacheOK /\ PendingOK
  BY InvOf
<1>2. CacheOK' /\ Match(k)' = {e} /\ \A m \in Keys : m # k => Match(m)' = Match(m)
  BY <1>1, CreateKeeps
<1>3. PendingOK'
  BY <1>1, DropStep DEF Creates
<1>4. /\ Len(heap) <= Len(heap')
      /\ \A g \in DOMAIN heap : g \in DOMAIN heap' /\ heap'[g].key = heap[g].key
  BY DEF Creates, Grown
<1>5. \A m \in Keys : Found(m) => Found(m)'
  BY <1>2 DEF Found
<1> QED
  BY <1>2, <1>3, <1>4, <1>5 DEF CacheNext

LEMMA AddNext ==
  ASSUME ProxyInv, PendingOK', UNCHANGED <<heap, buckets>>
  PROVE  CacheNext
<1>1. CacheOK' /\ \A k \in Keys : Match(k)' = Match(k)
  BY InvOf, NothingMoves
<1>2. Len(heap) \in Nat
  BY LenProperties DEF ProxyInv, TypeOK
<1> QED
  BY <1>1, <1>2 DEF CacheNext, Found

LEMMA CacheSteps ==
  ASSUME ProxyInv, [Next]_vars
  PROVE  CacheNext
<1>0. CacheOK /\ PendingOK /\ heap \in Seq(EntryType) /\ KeyOf \in [Reqs -> Keys]
  BY InvOf DEF CacheOK
<1>1. ASSUME UNCHANGED cacheVars PROVE CacheNext
  BY <1>0, <1>1, SameRests, RestNext
<1>2. ASSUME NEW r \in Reqs, RegisterNotFound(r) \/ Register(r) PROVE CacheNext
  <2>1. cache_register_waiter(KeyOf[r], r) /\ KeyOf[r] \in Keys
    BY <1>0, <1>2 DEF RegisterNotFound, Register
  <2>2. CASE Found(KeyOf[r])
    BY <1>0, <2>1, <2>2, JoinStep, UpdateNext
  <2>3. CASE ~Found(KeyOf[r])
    BY <1>0, <2>1, <2>3, AddStep, AddNext
  <2> QED
    BY <2>2, <2>3
<1>3. ASSUME NEW r \in Reqs, Unregister(r) PROVE CacheNext
  <2>1. cache_unregister_waiter(KeyOf[r], r) /\ KeyOf[r] \in Keys
    BY <1>0, <1>3 DEF Unregister
  <2>2. CASE Found(KeyOf[r])
    BY <1>0, <2>1, <2>2, LeaveStep, UpdateNext
  <2>3. CASE ~Found(KeyOf[r])
    BY <1>1, <2>1, <2>3 DEF cache_unregister_waiter
  <2> QED
    BY <2>2, <2>3
<1>4. ASSUME NEW r \in Reqs, Callback(r) \/ ClientGone(r) PROVE CacheNext
  BY <1>2, <1>3, <1>4, CallbackRests, RestNext
<1>5. ASSUME NEW r \in Reqs, StartLoad(r) PROVE CacheNext
  <2>1. PICK e : cache_start_loading(KeyOf[r], e)
    BY <1>5 DEF StartLoad
  <2>2. KeyOf[r] \in Keys
    BY <1>0
  <2>3. UNCHANGED cacheVars \/ Creates(KeyOf[r], e)
    BY <1>0, <2>1, <2>2, CreateStep
  <2> QED
    BY <1>1, <2>2, <2>3, CreateNext
<1>6. ASSUME NEW r \in Reqs, AppendChunk(r) PROVE CacheNext
  <2>1. /\ task[r].at = "append" /\ cache_append_data(task[r].entry, task[r].got + 1)
        /\ UNCHANGED <<buckets, pending>>
    BY <1>6 DEF AppendChunk, cache_append_data
  <2>2. task[r].entry \in DOMAIN heap /\ task[r].got + 1 \in Nat
    BY <2>1, WorkerEntry DEF Started
  <2> QED
    BY <1>0, <2>1, <2>2, AppendStep, UpdateNext
<1>7. ASSUME NEW r \in Reqs, FinishLoad(r) PROVE CacheNext
  <2>1. /\ task[r].at = "finish" /\ cache_finish_loading(task[r].entry)
        /\ UNCHANGED <<buckets, pending>>
    BY <1>7 DEF FinishLoad, Work, cache_finish_loading
  <2>2. task[r].entry \in DOMAIN heap
    BY <2>1, WorkerEntry DEF Started
  <2> QED
    BY <1>0, <2>1, <2>2, FinishStep, UpdateNext
<1>8. ASSUME NEW r \in Reqs, CancelLoad(r) PROVE CacheNext
  <2>1. /\ BucketFree(Bucket[PathOf[r]]) /\ cache_cancel_loading(PathOf[r])
        /\ PathOf[r] \in Keys
    BY <1>8, ProxyAssumption DEF CancelLoad
  <2>2. UNCHANGED cacheVars \/ Frees(Bucket[PathOf[r]], EntryOf(PathOf[r]))
    BY <1>0, <2>1, CancelStep DEF FreesOnly
  <2> QED
    BY <1>1, <2>1, <2>2, FreeNext
<1>9. ASSUME NEW r \in Reqs, Worker(r) \/ LoadFailed(r) PROVE CacheNext
  BY <1>1, <1>5, <1>6, <1>7, <1>8, <1>9 DEF Worker, write_callback, NotifyAppended,
     LoadComplete, NotifyFinished, LoadFailed
<1>10. ASSUME NEW e \in DOMAIN heap, Expire(e) PROVE CacheNext
  <2>1. heap' = [heap EXCEPT ![e].expired = TRUE] /\ UNCHANGED <<buckets, pending>>
    BY <1>10 DEF Expire
  <2> QED
    BY <1>0, <2>1, ExpireStep, UpdateNext
<1>11. ASSUME NEW b \in Buckets, Collect(b) PROVE CacheNext
  <2>1. BucketFree(b) /\ cache_clean_expired(b)
    BY <1>11 DEF Collect
  <2>2. PICK e : Frees(b, e)
    BY <1>0, <2>1, CollectStep
  <2> QED
    BY <2>1, <2>2, FreeNext
<1> QED
  BY <1>1, <1>4, <1>9, <1>10, <1>11 DEF Next, vars

-----------------------------------------------------------------------------
(* Every step, as far as requests and tasks are concerned *)

WriteReqType == [offset : Nat, did_register : BOOLEAN, write_pending : BOOLEAN,
                 async : BOOLEAN, inflight : Nat, writable : BOOLEAN]
TaskType(n) == [at : WorkerLabels, entry : 0..n, got : Nat, total : Nat,
                should_stop : BOOLEAN]

\* A callback of r leaves the other requests alone.
Turns(r) ==
    /\ pc' = [pc EXCEPT ![r] = pc'[r]]
    /\ wr' \in [Reqs -> WriteReqType] /\ sent' \in [Reqs -> Seq(Nat)]
    /\ task' \in [Reqs -> TaskType(Len(heap))]
    /\ \A q \in Reqs \ {r} :
          pc'[q] = pc[q] /\ wr'[q] = wr[q] /\ sent'[q] = sent[q] /\ task'[q] = task[q]

LEMMA TurnStep ==
  ASSUME ProxyInv, NEW r \in Reqs, NEW to, NEW w \in WriteReqType, NEW s \in Seq(Nat),
         NEW t \in TaskType(Len(heap)), pc' = [pc EXCEPT ![r] = to],
         wr' = [wr EXCEPT ![r] = w], sent' = [sent EXCEPT ![r] = s],
         task' = [task EXCEPT ![r] = t]
  PROVE  /\ Turns(r) /\ pc'[r] = to /\ wr'[r] = w /\ sent'[r] = s /\ task'[r] = t
<1>1. /\ pc \in [Reqs -> Labels] /\ wr \in [Reqs -> WriteReqType]
      /\ sent \in [Reqs -> Seq(Nat)] /\ task \in [Reqs -> TaskType(Len(heap))]
  BY DEF ProxyInv, TypeOK, WriteReqType, TaskType
<1> QED
  BY <1>1 DEF Turns

LEMMA RequestOf ==
  ASSUME ProxyInv, NEW r \in Reqs
  PROVE  /\ pc[r] \in Labels /\ wr[r] \in WriteReqType /\ sent[r] \in Seq(Nat)
         /\ task[r] \in TaskType(Len(heap)) /\ WriteOwned(r)
         /\ pc = [pc EXCEPT ![r] = pc[r]] /\ wr = [wr EXCEPT ![r] = wr[r]]
         /\ sent = [sent EXCEPT ![r] = sent[r]] /\ task = [task EXCEPT ![r] = task[r]]
<1>1. /\ pc \in [Reqs -> Labels] /\ wr \in [Reqs -> WriteReqType]
      /\ sent \in [Reqs -> Seq(Nat)] /\ task \in [Reqs -> TaskType(Len(heap))]
  BY DEF ProxyInv, TypeOK, WriteReqType, TaskType
<1>2. WriteOwned(r)
  BY DEF ProxyInv, WriteInv
<1> QED
  BY <1>1, <1>2

\* The entry that a lookup reads.
LEMMA CachedType ==
  ASSUME ProxyInv, NEW r \in Reqs, Found(KeyOf[r])
  PROVE  /\ Cached(r).data \in Seq(Nat) /\ Size(r) \in Nat /\ Cached(r).is_loading \in BOOLEAN
         /\ EntryOf(KeyOf[r]) \in DOMAIN heap /\ ~Cached(r).freed
<1>1. CacheOK /\ KeyOf[r] \in Keys
  BY InvOf
<1>2. EntryOf(KeyOf[r]) \in DOMAIN heap /\ ~Cached(r).freed
  BY <1>1, FoundEntry DEF Cached
<1>3. Cached(r).data \in Seq(Nat) /\ Cached(r).is_loading \in BOOLEAN
  BY <1>1, <1>2, Fields DEF Cached, CacheOK
<1> QED
  BY <1>2, <1>3, LenProperties DEF Size

\* What a lookup, or its second half, leaves to its callback.
Looks(r, from, to) ==
    /\ Turns(r) /\ pc[r] = from /\ pc'[r] = to /\ wr'[r] = wr[r] /\ sent'[r] = sent[r]

LEMMA LookStep ==
  ASSUME ProxyInv, NEW r \in Reqs, NEW from, NEW to, Step(r, from, to),
         UNCHANGED <<wr, sent, task>>
  PROVE  Looks(r, from, to) /\ task'[r] = task[r]
<1>1. /\ wr' = [wr EXCEPT ![r] = wr[r]] /\ sent' = [sent EXCEPT ![r] = sent[r]]
      /\ task' = [task EXCEPT ![r] = task[r]]
      /\ wr[r] \in WriteReqType /\ sent[r] \in Seq(Nat) /\ task[r] \in TaskType(Len(heap))
  BY RequestOf
<1>2. pc' = [pc EXCEPT ![r] = to] /\ pc[r] = from
  BY DEF Step
<1>3. Turns(r) /\ pc'[r] = to /\ wr'[r] = wr[r] /\ sent'[r] = sent[r] /\ task'[r] = task[r]
  BY <1>1, <1>2, TurnStep
<1> QED
  BY <1>2, <1>3 DEF Looks

\* A step of r that gives its write request the fields of w.
LEMMA WroteStep ==
  ASSUME ProxyInv, NEW r \in Reqs, NEW from, NEW to, Step(r, from, to),
         NEW w \in WriteReqType, wr' = [wr EXCEPT ![r] = w], UNCHANGED <<sent, task>>
  PROVE  /\ Turns(r) /\ pc[r] = from /\ pc'[r] = to /\ wr'[r] = w /\ sent'[r] = sent[r]
         /\ task'[r] = task[r]
<1>1. /\ sent' = [sent EXCEPT ![r] = sent[r]] /\ task' = [task EXCEPT ![r] = task[r]]
      /\ sent[r] \in Seq(Nat) /\ task[r] \in TaskType(Len(heap))
  BY RequestOf
<1>2. pc' = [pc EXCEPT ![r] = to] /\ pc[r] = from
  BY DEF Step
<1>3. Turns(r) /\ pc'[r] = to /\ wr'[r] = w /\ sent'[r] = sent[r] /\ task'[r] = task[r]
  BY <1>1, <1>2, TurnStep
<1> QED
  BY <1>2, <1>3

LEMMA ReadClientTurn ==
  ASSUME ProxyInv, NEW r \in Reqs, read_client(r)
  PROVE  /\ \/ Looks(r, "open", "rc_loading") /\ Found(KeyOf[r]) /\ task'[r] = task[r]
            \/ /\ Looks(r, "open", "rc_complete") /\ Found(KeyOf[r])
               /\ ~Cached(r).is_loading /\ task'[r] = task[r]
            \/ /\ Looks(r, "open", "send") /\ ~Found(KeyOf[r])
               /\ task'[r] = [task[r] EXCEPT !.at = "queued"]
         /\ UNCHANGED cacheVars
         /\ OneLoad => \A q \in Reqs : KeyOf[q] = KeyOf[r] => task[q].at # "queued"
<1>1. /\ Lookup(r, "open", "rc_loading", "rc_complete", "send") /\ UNCHANGED cacheVars
      /\ OneLoad => \A q \in Reqs : KeyOf[q] = KeyOf[r] => task[q].at # "queued"
      /\ task' = IF Found(KeyOf[r]) THEN task ELSE launch_bgw(r)
      /\ UNCHANGED <<wr, sent>>
  BY DEF read_client, Lookup, OneLoad
<1>2. CASE Found(KeyOf[r])
  <2>1. PICK to : /\ Step(r, "open", to)
                  /\ to = IF Cached(r).is_loading THEN "rc_loading" ELSE "rc_complete"
    BY <1>1, <1>2 DEF Lookup
  <2>2. Looks(r, "open", to) /\ task'[r] = task[r]
    BY <1>1, <1>2, <2>1, LookStep
  <2> QED
    BY <1>1, <1>2, <2>1, <2>2
<1>3. CASE ~Found(KeyOf[r])
  <2>1. Step(r, "open", "send")
    BY <1>1, <1>3 DEF Lookup
  <2>2. PICK t : t = [task[r] EXCEPT !.at = "queued"]
    OBVIOUS
  <2>3. task' = [task EXCEPT ![r] = t]
    BY <1>1, <1>3, <2>2 DEF launch_bgw
  <2>4. t \in TaskType(Len(heap))
    BY <2>2, RequestOf DEF TaskType, WorkerLabels
  <2>5. /\ wr' = [wr EXCEPT ![r] = wr[r]] /\ sent' = [sent EXCEPT ![r] = sent[r]]
        /\ wr[r] \in WriteReqType /\ sent[r] \in Seq(Nat)
    BY <1>1, RequestOf
  <2>6. Turns(r) /\ pc'[r] = "send" /\ wr'[r] = wr[r] /\ sent'[r] = sent[r] /\ task'[r] = t
    BY <2>1, <2>3, <2>4, <2>5, TurnStep DEF Step
  <2>7. Looks(r, "open", "send")
    BY <2>1, <2>6 DEF Looks, Step
  <2> QED
    BY <1>1, <1>3, <2>2, <2>6, <2>7
<1> QED
  BY <1>2, <1>3

LEMMA ReadFoundTurn ==
  ASSUME ProxyInv, NEW r \in Reqs, ReadFound(r)
  PROVE  /\ Turns(r) /\ pc[r] = "rc_complete" /\ pc'[r] = "write_all"
         /\ sent'[r] = Cached(r).data /\ task'[r] = task[r]
         /\ wr'[r] = [wr[r] EXCEPT !.inflight = 1] /\ UNCHANGED cacheVars
<1>1. /\ pc[r] = "rc_complete" /\ pc' = [pc EXCEPT ![r] = "write_all"] /\ task' = task
      /\ sent' = [sent EXCEPT ![r] = Cached(r).data] /\ UNCHANGED cacheVars
      /\ wr' = [wr EXCEPT ![r].inflight = 1]
  BY DEF ReadFound, Step
<1>2. Cached(r).data \in Seq(Nat)
  BY <1>1, CachedType DEF ProxyInv, LookupsFind, LookupLabels
<1>3. PICK w : w = [wr[r] EXCEPT !.inflight = 1]
  OBVIOUS
<1>4. w \in WriteReqType
  BY <1>3, RequestOf DEF WriteReqType
<1>5. wr' = [wr EXCEPT ![r] = w]
  BY <1>1, <1>3
<1>6. task' = [task EXCEPT ![r] = task[r]] /\ task[r] \in TaskType(Len(heap))
  BY <1>1, RequestOf
<1>7. PICK s : s = Cached(r).data
  OBVIOUS
<1>8. /\ s \in Seq(Nat) /\ sent' = [sent EXCEPT ![r] = s]
      /\ pc' = [pc EXCEPT ![r] = "write_all"]
  BY <1>1, <1>2, <1>7
<1>9. /\ Turns(r) /\ pc'[r] = "write_all" /\ wr'[r] = w /\ sent'[r] = s
      /\ task'[r] = task[r]
  BY <1>4, <1>5, <1>6, <1>8, TurnStep
<1> QED
  BY <1>1, <1>3, <1>7, <1>9

LEMMA LookAgainTurn ==
  ASSUME ProxyInv, NEW r \in Reqs, send_next_chunk(r) \/ Recheck(r)
  PROVE  /\ \/ Looks(r, "send", "read_loading") /\ Found(KeyOf[r])
            \/ Looks(r, "send", "read_complete") /\ Found(KeyOf[r]) /\ ~Cached(r).is_loading
            \/ Looks(r, "send", "loop") /\ ~Found(KeyOf[r]) /\ wr[r].did_register
            \/ Looks(r, "send", "register_new") /\ ~Found(KeyOf[r]) /\ ~wr[r].did_register
            \/ Looks(r, "recheck", "recheck_loading") /\ Found(KeyOf[r])
            \/ /\ Looks(r, "recheck", "recheck_complete") /\ Found(KeyOf[r])
               /\ ~Cached(r).is_loading
            \/ Looks(r, "recheck", "send") /\ ~Found(KeyOf[r])
         /\ task'[r] = task[r] /\ UNCHANGED cacheVars
<1>1. UNCHANGED <<wr, sent, task>> /\ UNCHANGED cacheVars
  BY DEF send_next_chunk, Recheck, Lookup
<1>2. CASE send_next_chunk(r)
  <2>1. PICK to :
           /\ Step(r, "send", to)
           /\ to = IF ~Found(KeyOf[r])
                   THEN IF wr[r].did_register THEN "loop" ELSE "register_new"
                   ELSE IF Cached(r).is_loading THEN "read_loading" ELSE "read_complete"
    BY <1>2 DEF send_next_chunk, Lookup
  <2>2. Looks(r, "send", to) /\ task'[r] = task[r]
    BY <1>1, <2>1, LookStep
  <2> QED
    BY <1>1, <2>1, <2>2
<1>3. CASE Recheck(r)
  <2>1. PICK to :
           /\ Step(r, "recheck", to)
           /\ to = IF ~Found(KeyOf[r]) THEN "send"
                   ELSE IF Cached(r).is_loading THEN "recheck_loading" ELSE "recheck_complete"
    BY <1>3 DEF Recheck, Lookup
  <2>2. Looks(r, "recheck", to) /\ task'[r] = task[r]
    BY <1>1, <2>1, LookStep
  <2> QED
    BY <1>1, <2>1, <2>2
<1> QED
  BY <1>2, <1>3

\* The second halves of lookups that find nothing to send.
LEMMA SecondHalfTurn ==
  ASSUME ProxyInv, NEW r \in Reqs,
         \/ ReadLoading(r) \/ SendNothingNew(r) \/ SendDone(r) \/ SendError(r) \/ RecheckRead(r)
  PROVE  /\ \/ Looks(r, "rc_loading", "send")
            \/ Looks(r, "read_loading", "loop") /\ wr[r].did_register
            \/ Looks(r, "read_loading", "register") /\ ~wr[r].did_register
            \/ Looks(r, "read_complete", "free")
            \/ Looks(r, "recheck_loading", "send") \/ Looks(r, "recheck_loading", "loop")
            \/ Looks(r, "recheck_complete", "send")
         /\ task'[r] = task[r]
<1>1. UNCHANGED <<wr, sent, task>>
  BY DEF ReadLoading, SendNothingNew, SendDone, SendError, RecheckRead
<1>2. \/ Step(r, "rc_loading", "send")
      \/ Step(r, "read_loading", "loop") /\ wr[r].did_register
      \/ Step(r, "read_loading", "register") /\ ~wr[r].did_register
      \/ Step(r, "read_complete", "free")
      \/ Step(r, "recheck_loading", "send") \/ Step(r, "recheck_loading", "loop")
      \/ Step(r, "recheck_complete", "send")
  BY DEF ReadLoading, SendNothingNew, SendDone, SendError, RecheckRead
<1>3. ASSUME NEW from, NEW to, Step(r, from, to)
      PROVE  Looks(r, from, to) /\ task'[r] = task[r]
  BY <1>1, <1>3, LookStep
<1> QED
  BY <1>2, <1>3

LEMMA SendChunkTurn ==
  ASSUME ProxyInv, NEW r \in Reqs, SendChunk(r)
  PROVE  /\ Turns(r) /\ pc[r] \in {"read_loading", "read_complete"} /\ pc'[r] = "loop"
         /\ task'[r] = task[r] /\ wr'[r].did_register = wr[r].did_register
         /\ wr'[r].async = wr[r].async /\ wr[r].writable
         /\ \E end \in Nat :
               /\ wr[r].offset < end /\ end <= Size(r) /\ wr'[r].offset = end
               /\ sent'[r] = sent[r] \o SubSeq(Cached(r).data, wr[r].offset + 1, end)
<1>1. PICK end :
         /\ end = IF Size(r) - wr[r].offset > PACKET_SIZE
                  THEN wr[r].offset + PACKET_SIZE ELSE Size(r)
         /\ pc[r] \in {"read_loading", "read_complete"} /\ pc' = [pc EXCEPT ![r] = "loop"]
         /\ NewLoaded(r) /\ wr[r].writable /\ task' = task
         /\ sent' = [sent EXCEPT ![r] =
                @ \o SubSeq(Cached(r).data, wr[r].offset + 1, end)]
         /\ wr' = [wr EXCEPT ![r] = [@ EXCEPT !.offset = end, !.write_pending = TRUE,
                                              !.inflight = wr[r].inflight + 1]]
  BY DEF SendChunk, ChunkEnd, Step
<1>2. Cached(r).data \in Seq(Nat) /\ Size(r) \in Nat
  BY <1>1, CachedType DEF ProxyInv, LookupsFind, LookupLabels
<1>3. wr[r].offset \in Nat /\ wr[r].inflight \in Nat /\ sent[r] \in Seq(Nat)
  BY RequestOf DEF WriteReqType
<1>4. end \in Nat /\ wr[r].offset < end /\ end <= Size(r)
  <2>1. PACKET_SIZE \in Nat \ {0} /\ wr[r].offset < Size(r)
    BY <1>1, ProxyAssumption DEF NewLoaded
  <2>2. end = IF Size(r) - wr[r].offset > PACKET_SIZE
             THEN wr[r].offset + PACKET_SIZE ELSE Size(r)
    BY <1>1
  <2>3. PICK z, o : z = Size(r) /\ o = wr[r].offset
    OBVIOUS
  <2> QED
    BY <1>2, <1>3, <2>1, <2>2, <2>3
<1>5. PICK w : w = [wr[r] EXCEPT !.offset = end, !.write_pending = TRUE,
                                 !.inflight = wr[r].inflight + 1]
  OBVIOUS
<1>6. /\ w \in WriteReqType /\ w.offset = end /\ w.did_register = wr[r].did_register
      /\ w.async = wr[r].async
  <2>1. wr[r] \in WriteReqType /\ wr[r].inflight + 1 \in Nat /\ end \in Nat
    BY <1>3, <1>4, RequestOf
  <2>2. PICK n \in Nat : n = wr[r].inflight + 1
    BY <2>1
  <2> QED
    BY <1>5, <2>1, <2>2 DEF WriteReqType
<1>7. PICK c : c = SubSeq(Cached(r).data, wr[r].offset + 1, end)
  OBVIOUS
<1>8. c \in Seq(Nat)
  <2>1. wr[r].offset + 1 \in Nat \ {0} /\ end \in 0..Len(Cached(r).data)
    BY <1>2, <1>3, <1>4 DEF Size
  <2> QED
    BY <1>2, <1>7, <2>1, Section
<1>9. PICK s : s = sent[r] \o c
  OBVIOUS
<1>10. s \in Seq(Nat)
  BY <1>3, <1>8, <1>9, ConcatProperties, Zenon
<1>11. /\ pc' = [pc EXCEPT ![r] = "loop"] /\ wr' = [wr EXCEPT ![r] = w]
       /\ sent' = [sent EXCEPT ![r] = s]
  BY <1>1, <1>5, <1>7, <1>9
<1>12. task' = [task EXCEPT ![r] = task[r]] /\ task[r] \in TaskType(Len(heap))
  BY <1>1, RequestOf
<1>13. Turns(r) /\ pc'[r] = "loop" /\ wr'[r] = w /\ sent'[r] = s /\ task'[r] = task[r]
  BY <1>6, <1>10, <1>11, <1>12, TurnStep
<1>14. sent'[r] = sent[r] \o SubSeq(Cached(r).data, wr[r].offset + 1, end)
  BY <1>7, <1>9, <1>13, Zenon
<1>15. pc[r] \in {"read_loading", "read_complete"} /\ wr[r].writable
  BY <1>1
<1> QED
  BY <1>4, <1>6, <1>13, <1>14, <1>15

LEMMA SendRefusedTurn ==
  ASSUME ProxyInv, NEW r \in Reqs, SendRefused(r)
  PROVE  /\ Turns(r) /\ pc[r] \in {"read_loading", "read_complete"} /\ pc'[r] = "loop"
         /\ task'[r] = task[r] /\ sent'[r] = sent[r] /\ ~wr'[r].writable
         /\ wr'[r].did_register = wr[r].did_register /\ wr'[r].async = wr[r].async
<1>1. PICK end : end = ChunkEnd(r)
  OBVIOUS
<1>2. PICK w : w = [wr[r] EXCEPT !.offset = end, !.write_pending = FALSE]
  OBVIOUS
<1>3. /\ pc[r] \in {"read_loading", "read_complete"} /\ NewLoaded(r) /\ ~wr[r].writable
      /\ wr' = [wr EXCEPT ![r] = w] /\ UNCHANGED <<sent, task>>
  BY <1>1, <1>2 DEF SendRefused, Step
<1>4. wr[r] \in WriteReqType /\ Size(r) \in Nat
  BY <1>3, RequestOf, CachedType DEF ProxyInv, LookupsFind, LookupLabels
<1>5. end \in Nat
  <2>1. wr[r].offset \in Nat /\ PACKET_SIZE \in Nat
    BY <1>4, ProxyAssumption DEF WriteReqType
  <2>2. PICK z, o : z = Size(r) /\ o = wr[r].offset
    OBVIOUS
  <2> QED
    BY <1>1, <1>4, <2>1, <2>2 DEF ChunkEnd
<1>6. /\ w \in WriteReqType /\ ~w.writable /\ w.did_register = wr[r].did_register
      /\ w.async = wr[r].async
  BY <1>2, <1>3, <1>4, <1>5 DEF WriteReqType
<1>7. PICK from \in {"read_loading", "read_complete"} : Step(r, from, "loop")
  BY DEF SendRefused
<1>8. /\ Turns(r) /\ pc'[r] = "loop" /\ wr'[r] = w /\ sent'[r] = sent[r]
      /\ task'[r] = task[r]
  BY <1>3, <1>6, <1>7, WroteStep
<1> QED
  BY <1>3, <1>6, <1>8

LEMMA RegisterTurn ==
  ASSUME ProxyInv, NEW r \in Reqs, RegisterNotFound(r) \/ Register(r)
  PROVE  /\ Turns(r) /\ sent'[r] = sent[r] /\ task'[r] = task[r]
         /\ \/ pc[r] = "register_new" /\ pc'[r] = "loop"
            \/ pc[r] = "register" /\ pc'[r] = "recheck"
         /\ wr'[r].did_register /\ wr'[r].offset = wr[r].offset
         /\ wr'[r].async = wr[r].async /\ wr'[r].write_pending = wr[r].write_pending
         /\ wr'[r].writable = wr[r].writable
         /\ ~wr[r].write_pending /\ cache_register_waiter(KeyOf[r], r)
<1>1. PICK w : w = [wr[r] EXCEPT !.did_register = TRUE]
  OBVIOUS
<1>2. wr[r] \in WriteReqType /\ WriteOwned(r)
  BY RequestOf
<1>3. /\ w \in WriteReqType /\ w.did_register /\ w.offset = wr[r].offset
      /\ w.async = wr[r].async /\ w.write_pending = wr[r].write_pending
      /\ w.writable = wr[r].writable
  BY <1>1, <1>2 DEF WriteReqType
<1>4. /\ wr' = [wr EXCEPT ![r] = w] /\ UNCHANGED <<sent, task>>
      /\ cache_register_waiter(KeyOf[r], r)
  BY <1>1 DEF RegisterNotFound, Register
<1>5. Step(r, "register_new", "loop") \/ Step(r, "register", "recheck")
  BY DEF RegisterNotFound, Register
<1>6. ASSUME NEW from, NEW to, Step(r, from, to)
      PROVE  /\ Turns(r) /\ pc[r] = from /\ pc'[r] = to /\ wr'[r] = w /\ sent'[r] = sent[r]
             /\ task'[r] = task[r]
  BY <1>3, <1>4, <1>6, WroteStep
<1>7. ~wr[r].write_pending
  BY <1>2, <1>5 DEF WriteOwned, Step
<1> QED
  BY <1>3, <1>4, <1>5, <1>6, <1>7

\* The events of the loop.
LEMMA EventTurn ==
  ASSUME ProxyInv, NEW r \in Reqs,
         on_data_ready(r) \/ echo_write_buffer_load(r) \/ ClientGone(r) \/ echo_write(r)
  PROVE  /\ Turns(r) /\ sent'[r] = sent[r] /\ task'[r] = task[r] /\ UNCHANGED cacheVars
         /\ wr'[r].did_register = wr[r].did_register /\ wr'[r].offset = wr[r].offset
         /\ wr'[r].async => wr[r].async
         /\ wr'[r].writable = wr[r].writable \/ ~wr'[r].writable
         /\ \/ pc[r] = "loop" /\ pc'[r] \in {"loop", "send"} /\ wr[r].async
            \/ pc[r] = "loop" /\ pc'[r] = "send" /\ wr[r].write_pending
            \/ /\ pc[r] = "loop" /\ pc'[r] = "free" /\ wr[r].write_pending
               /\ "write" \in Faults
            \/ pc[r] = "write_all" /\ pc'[r] = "closed"
            \/ /\ pc[r] = "loop" /\ pc'[r] = "loop" /\ wr'[r].async = wr[r].async
               /\ wr'[r].write_pending = wr[r].write_pending
<1>0. UNCHANGED <<sent, task>> /\ UNCHANGED cacheVars
  BY DEF on_data_ready, echo_write_buffer_load, ClientGone, WriteError, ReadError, echo_write
<1>1. wr[r] \in WriteReqType /\ WriteOwned(r)
  BY RequestOf
<1>2. CASE on_data_ready(r)
  <2>1. PICK w : w = [wr[r] EXCEPT !.async = FALSE]
    OBVIOUS
  <2>2. /\ w \in WriteReqType /\ w.did_register = wr[r].did_register
        /\ w.offset = wr[r].offset /\ ~w.async /\ w.writable = wr[r].writable
    BY <1>1, <2>1 DEF WriteReqType
  <2>3. wr' = [wr EXCEPT ![r] = w] /\ wr[r].async
    BY <1>2, <2>1 DEF on_data_ready
  <2>4. PICK to \in {"loop", "send"} : Step(r, "loop", to)
    BY <1>2 DEF on_data_ready
  <2>5. /\ Turns(r) /\ pc[r] = "loop" /\ pc'[r] = to /\ wr'[r] = w /\ sent'[r] = sent[r]
        /\ task'[r] = task[r]
    <3>1. w \in WriteReqType /\ UNCHANGED <<sent, task>>
      BY <1>0, <2>2
    <3> QED
      BY <2>3, <2>4, <3>1, WroteStep
  <2> QED
    BY <1>0, <2>2, <2>3, <2>4, <2>5
<1>3. CASE echo_write_buffer_load(r) \/ WriteError(r)
  <2>1. PICK w : w = [wr[r] EXCEPT !.write_pending = FALSE, !.inflight = wr[r].inflight - 1]
    OBVIOUS
  <2>2. pc[r] = "loop" /\ wr[r].inflight > 0 /\ wr' = [wr EXCEPT ![r] = w]
    BY <1>3, <2>1 DEF echo_write_buffer_load, WriteError, Step
  <2>3. wr[r].inflight = 1 /\ wr[r].write_pending
    BY <1>1, <2>2 DEF WriteOwned
  <2>4. w = [wr[r] EXCEPT !.write_pending = FALSE, !.inflight = 0]
    BY <2>1, <2>3
  <2>5. /\ w \in WriteReqType /\ w.did_register = wr[r].did_register
        /\ w.offset = wr[r].offset /\ w.async = wr[r].async
        /\ w.writable = wr[r].writable
    BY <1>1, <2>4 DEF WriteReqType
  <2>6. PICK to : /\ Step(r, "loop", to)
                  /\ to = "send" \/ (to = "free" /\ "write" \in Faults)
    BY <1>3 DEF echo_write_buffer_load, WriteError
  <2>7. /\ Turns(r) /\ pc[r] = "loop" /\ pc'[r] = to /\ wr'[r] = w /\ sent'[r] = sent[r]
        /\ task'[r] = task[r]
    BY <1>0, <2>2, <2>5, <2>6, WroteStep
  <2> QED
    BY <1>0, <2>3, <2>5, <2>6, <2>7
<1>4. CASE echo_write(r)
  <2>1. PICK w : w = [wr[r] EXCEPT !.inflight = 0]
    OBVIOUS
  <2>2. /\ w \in WriteReqType /\ w.did_register = wr[r].did_register
        /\ w.offset = wr[r].offset /\ w.async = wr[r].async
        /\ w.writable = wr[r].writable
    BY <1>1, <2>1 DEF WriteReqType
  <2>3. wr' = [wr EXCEPT ![r] = w]
    BY <1>4, <2>1 DEF echo_write
  <2>4. ASSUME NEW from, NEW to, Step(r, from, to)
        PROVE  /\ Turns(r) /\ pc[r] = from /\ pc'[r] = to /\ wr'[r] = w
               /\ sent'[r] = sent[r] /\ task'[r] = task[r]
    <3>1. w \in WriteReqType /\ UNCHANGED <<sent, task>>
      BY <1>0, <2>2
    <3> QED
      BY <2>3, <2>4, <3>1, WroteStep
  <2> QED
    <3>1. Step(r, "write_all", "closed")
      BY <1>4 DEF echo_write
    <3> QED
      BY <1>0, <2>2, <2>4, <3>1
<1>5. CASE ReadError(r)
  <2>1. PICK w : w = [wr[r] EXCEPT !.writable = FALSE]
    OBVIOUS
  <2>2. /\ w \in WriteReqType /\ w.did_register = wr[r].did_register
        /\ w.offset = wr[r].offset /\ w.async = wr[r].async /\ ~w.writable
        /\ w.write_pending = wr[r].write_pending
    BY <1>1, <2>1 DEF WriteReqType
  <2>3. wr' = [wr EXCEPT ![r] = w] /\ Step(r, "loop", "loop")
    BY <1>5, <2>1 DEF ReadError
  <2>4. /\ Turns(r) /\ pc[r] = "loop" /\ pc'[r] = "loop" /\ wr'[r] = w
        /\ sent'[r] = sent[r] /\ task'[r] = task[r]
    BY <1>0, <2>2, <2>3, WroteStep
  <2> QED
    BY <1>0, <2>2, <2>4
<1> QED
  BY <1>2, <1>3, <1>4, <1>5 DEF ClientGone

LEMMA UnregisterTurn ==
  ASSUME ProxyInv, NEW r \in Reqs, Unregister(r)
  PROVE  /\ Looks(r, "free", "close") /\ task'[r] = task[r]
         /\ cache_unregister_waiter(KeyOf[r], r)
<1>1. /\ Step(r, "free", "close") /\ UNCHANGED <<wr, sent, task>>
      /\ cache_unregister_waiter(KeyOf[r], r)
  BY DEF Unregister
<1> QED
  BY <1>1, LookStep

LEMMA CloseTurn ==
  ASSUME ProxyInv, NEW r \in Reqs, free_write_req(r)
  PROVE  /\ Turns(r) /\ pc[r] = "close" /\ pc'[r] = "closed" /\ sent'[r] = sent[r]
         /\ wr'[r].did_register = wr[r].did_register /\ wr'[r].offset = wr[r].offset
         /\ ~wr'[r].async /\ UNCHANGED cacheVars
         /\ task'[r].at = task[r].at /\ task'[r].entry = task[r].entry
         /\ task'[r].got = task[r].got /\ task'[r].total = task[r].total
<1>1. /\ pc[r] = "close" /\ pc' = [pc EXCEPT ![r] = "closed"] /\ UNCHANGED cacheVars
      /\ task' = [task EXCEPT ![r].should_stop = (@ \/ task[r].at # "none")]
      /\ wr' = [wr EXCEPT ![r].async = FALSE] /\ sent' = sent
  BY DEF free_write_req, Step
<1>2. wr[r] \in WriteReqType /\ task[r] \in TaskType(Len(heap)) /\ sent[r] \in Seq(Nat)
  BY RequestOf
<1>3. PICK w : w = [wr[r] EXCEPT !.async = FALSE]
  OBVIOUS
<1>4. /\ w \in WriteReqType /\ w.did_register = wr[r].did_register
      /\ w.offset = wr[r].offset /\ ~w.async
  BY <1>2, <1>3 DEF WriteReqType
<1>5. PICK stop \in BOOLEAN : stop = (task[r].should_stop \/ task[r].at # "none")
  OBVIOUS
<1>6. PICK t : t = [task[r] EXCEPT !.should_stop = stop]
  OBVIOUS
<1>7. /\ t \in TaskType(Len(heap)) /\ t.at = task[r].at /\ t.entry = task[r].entry
      /\ t.got = task[r].got /\ t.total = task[r].total
  BY <1>2, <1>5, <1>6 DEF TaskType
<1>8. wr' = [wr EXCEPT ![r] = w]
  BY <1>1, <1>3
<1>9. task' = [task EXCEPT ![r] = t]
  BY <1>1, <1>5, <1>6
<1>10. PICK to, s : /\ to = "closed" /\ s = sent[r]
                   /\ sent' = [sent EXCEPT ![r] = s] /\ pc' = [pc EXCEPT ![r] = to]
  BY <1>1, RequestOf
<1>11. s \in Seq(Nat) /\ w \in WriteReqType /\ t \in TaskType(Len(heap))
  BY <1>2, <1>4, <1>7, <1>10
<1>12. Turns(r) /\ pc'[r] = to /\ wr'[r] = w /\ sent'[r] = s /\ task'[r] = t
  BY <1>8, <1>9, <1>10, <1>11, TurnStep
<1> QED
  BY <1>1, <1>4, <1>7, <1>10, <1>12

\* A step of r's worker, in which task r becomes t.
Works(r, t) ==
    /\ pc' = pc /\ sent' = sent /\ task'[r] = t
    /\ task' \in [Reqs -> TaskType(Len(heap'))]
    /\ \A q \in Reqs \ {r} : task'[q] = task[q]

LEMMA WorkStep ==
  ASSUME ProxyInv, CacheNext, NEW r \in Reqs, NEW t \in TaskType(Len(heap')),
         pc' = pc, sent' = sent, task' = [task EXCEPT ![r] = t]
  PROVE  Works(r, t)
<1>1. task \in [Reqs -> TaskType(Len(heap))] /\ Len(heap) \in Nat
  BY LenProperties DEF ProxyInv, TypeOK, TaskType
<1>2. Len(heap') \in Nat /\ Len(heap) <= Len(heap')
  BY LenProperties DEF CacheNext, CacheOK
<1>3. TaskType(Len(heap)) \subseteq TaskType(Len(heap'))
  <2>1. 0..Len(heap) \subseteq 0..Len(heap')
    BY <1>1, <1>2
  <2> QED
    BY <2>1 DEF TaskType
<1> QED
  BY <1>1, <1>3 DEF Works

LEMMA AtStep ==
  ASSUME ProxyInv, CacheNext, NEW r \in Reqs, NEW from, NEW to \in WorkerLabels,
         Work(r, from, to)
  PROVE  /\ Works(r, [task[r] EXCEPT !.at = to]) /\ task[r].at = from
         /\ task'[r].at = to /\ task'[r].entry = task[r].entry
         /\ task'[r].got = task[r].got /\ task'[r].should_stop = task[r].should_stop
<1>1. PICK t : t = [task[r] EXCEPT !.at = to]
  OBVIOUS
<1>2. /\ pc' = pc /\ sent' = sent /\ task' = [task EXCEPT ![r] = t] /\ task[r].at = from
  BY <1>1 DEF Work
<1>3. task[r] \in TaskType(Len(heap)) /\ Len(heap) \in Nat
  BY RequestOf, LenProperties DEF ProxyInv, TypeOK
<1>4. Len(heap') \in Nat /\ Len(heap) <= Len(heap')
  BY LenProperties DEF CacheNext, CacheOK
<1>5. 0..Len(heap) \subseteq 0..Len(heap')
  BY <1>3, <1>4
<1>6. /\ t \in TaskType(Len(heap')) /\ t.at = to /\ t.entry = task[r].entry
      /\ t.got = task[r].got /\ t.should_stop = task[r].should_stop
  BY <1>1, <1>3, <1>5 DEF TaskType
<1>7. Works(r, t)
  BY <1>2, <1>6, WorkStep
<1> QED
  BY <1>1, <1>2, <1>6, <1>7 DEF Works

LEMMA StartTurn ==
  ASSUME ProxyInv, CacheNext, NEW r \in Reqs, StartLoad(r)
  PROVE  \E e, t :
            /\ cache_start_loading(KeyOf[r], e) /\ Works(r, t) /\ wr' = wr
            /\ task[r].at = "queued" /\ t.at = "recv" /\ t.entry = e /\ t.got = task[r].got
            /\ t.should_stop = task[r].should_stop
<1>1. PICK e \in 1..Len(heap) + 1, n \in Lengths :
         /\ cache_start_loading(KeyOf[r], e)
         /\ task' = [task EXCEPT ![r] = [@ EXCEPT !.at = "recv", !.entry = e, !.total = n]]
  BY DEF StartLoad
<1>2. task[r].at = "queued" /\ pc' = pc /\ sent' = sent /\ wr' = wr
  BY DEF StartLoad
<1>3. PICK t : t = [task[r] EXCEPT !.at = "recv", !.entry = e, !.total = n]
  OBVIOUS
<1>4. task' = [task EXCEPT ![r] = t]
  BY <1>1, <1>3
<1>5. task[r] \in TaskType(Len(heap)) /\ Len(heap) \in Nat /\ Len(heap') \in Nat
  BY RequestOf, LenProperties DEF ProxyInv, TypeOK, CacheNext, CacheOK
<1>6. e \in 0..Len(heap')
  <2>0. CacheOK /\ PendingOK /\ KeyOf[r] \in Keys
    BY InvOf
  <2>1. CASE Found(KeyOf[r]) /\ e = EntryOf(KeyOf[r]) /\ UNCHANGED cacheVars
    <3>1. e \in DOMAIN heap
      BY <2>0, <2>1, FoundEntry
    <3> QED
      BY <1>5, <2>0, <2>1, <3>1 DEF CacheOK, cacheVars
  <2>2. CASE Creates(KeyOf[r], e)
    BY <1>5, <2>2 DEF Creates, Grown
  <2> QED
    BY <1>1, <2>0, <2>1, <2>2, CreateStep
<1>7. n \in Nat
  BY ProxyAssumption
<1>8. /\ t \in TaskType(Len(heap')) /\ t.at = "recv" /\ t.entry = e /\ t.got = task[r].got
      /\ t.should_stop = task[r].should_stop
  BY <1>3, <1>5, <1>6, <1>7 DEF TaskType, WorkerLabels
<1>9. Works(r, t)
  BY <1>2, <1>4, <1>8, WorkStep
<1> QED
  BY <1>1, <1>2, <1>8, <1>9

LEMMA AppendTurn ==
  ASSUME ProxyInv, CacheNext, NEW r \in Reqs, AppendChunk(r)
  PROVE  \E t :
            /\ Works(r, t) /\ wr' = wr /\ task[r].at = "append" /\ t.at = "notify"
            /\ t.entry = task[r].entry /\ t.got = task[r].got + 1
            /\ t.should_stop = task[r].should_stop
<1>1. /\ task[r].at = "append" /\ pc' = pc /\ sent' = sent /\ wr' = wr
      /\ task' = [task EXCEPT ![r] = [@ EXCEPT !.at = "notify", !.got = task[r].got + 1]]
  BY DEF AppendChunk
<1>2. PICK n : n = task[r].got + 1
  OBVIOUS
<1>3. PICK t : t = [task[r] EXCEPT !.at = "notify", !.got = n]
  OBVIOUS
<1>4. task' = [task EXCEPT ![r] = t]
  BY <1>1, <1>2, <1>3
<1>5. task[r] \in TaskType(Len(heap)) /\ Len(heap) \in Nat
  BY RequestOf, LenProperties DEF ProxyInv, TypeOK
<1>6. n \in Nat
  BY <1>2, <1>5 DEF TaskType
<1>7. Len(heap') \in Nat /\ Len(heap) <= Len(heap')
  BY LenProperties DEF CacheNext, CacheOK
<1>8. 0..Len(heap) \subseteq 0..Len(heap')
  BY <1>5, <1>7
<1>9. /\ t \in TaskType(Len(heap')) /\ t.at = "notify" /\ t.entry = task[r].entry
      /\ t.got = n /\ t.should_stop = task[r].should_stop
  BY <1>3, <1>5, <1>6, <1>8 DEF TaskType, WorkerLabels
<1>10. Works(r, t)
  BY <1>1, <1>4, <1>9, WorkStep
<1> QED
  BY <1>1, <1>2, <1>9, <1>10

\* A signal sets the pending flag of waiting clients, and nothing else.
LEMMA NotifyTurn ==
  ASSUME ProxyInv, NEW r \in Reqs, Notify(r)
  PROVE  /\ wr' \in [Reqs -> WriteReqType]
         /\ \A q \in Reqs :
               /\ wr'[q].offset = wr[q].offset /\ wr'[q].did_register = wr[q].did_register
               /\ wr'[q].write_pending = wr[q].write_pending /\ wr'[q].writable = wr[q].writable
               /\ wr'[q].async => \/ wr[q].async
                                  \/ q \in ToSet(Entry(r).waiting_clients) /\ pc[q] # "closed"
<1>1. wr' = [q \in Reqs |->
                 IF q \in ToSet(Entry(r).waiting_clients) /\ pc[q] # "closed"
                 THEN [wr[q] EXCEPT !.async = TRUE] ELSE wr[q]]
  BY DEF Notify
<1>2. ASSUME NEW q \in Reqs
      PROVE  /\ wr'[q] \in WriteReqType
             /\ wr'[q].offset = wr[q].offset /\ wr'[q].did_register = wr[q].did_register
             /\ wr'[q].write_pending = wr[q].write_pending /\ wr'[q].writable = wr[q].writable
             /\ wr'[q].async => \/ wr[q].async
                                \/ q \in ToSet(Entry(r).waiting_clients) /\ pc[q] # "closed"
  <2>0. wr[q] \in WriteReqType
    BY RequestOf
  <2>1. PICK w : w = [wr[q] EXCEPT !.async = TRUE]
    OBVIOUS
  <2>2. /\ w \in WriteReqType /\ w.offset = wr[q].offset
        /\ w.did_register = wr[q].did_register /\ w.write_pending = wr[q].write_pending
        /\ w.writable = wr[q].writable
    BY <2>0, <2>1 DEF WriteReqType
  <2>3. wr'[q] = IF q \in ToSet(Entry(r).waiting_clients) /\ pc[q] # "closed"
                 THEN w ELSE wr[q]
    BY <1>1, <2>1
  <2>4. CASE q \in ToSet(Entry(r).waiting_clients) /\ pc[q] # "closed"
    BY <2>2, <2>3, <2>4
  <2>5. CASE ~(q \in ToSet(Entry(r).waiting_clients) /\ pc[q] # "closed")
    BY <2>0, <2>3, <2>5
  <2> QED
    BY <2>4, <2>5
<1> QED
  BY <1>1, <1>2

\* What all callbacks have in common.
LEMMA CallbackTurn ==
  ASSUME ProxyInv, NEW r \in Reqs, Callback(r) \/ ClientGone(r)
  PROVE  /\ Turns(r) /\ pc'[r] # "open"
         /\ task'[r].entry = task[r].entry /\ task'[r].got = task[r].got
         /\ \/ task'[r].at = task[r].at
            \/ /\ read_client(r) /\ ~Found(KeyOf[r]) /\ pc[r] = "open"
               /\ task[r].at = "none" /\ task'[r].at = "queued"
         /\ pc'[r] \in LookupLabels => Found(KeyOf[r]) /\ UNCHANGED cacheVars
<1>1. CASE read_client(r)
  <2>1. task[r] \in TaskType(Len(heap))
    BY RequestOf
  <2>2. PICK t : t = [task[r] EXCEPT !.at = "queued"]
    OBVIOUS
  <2>3. t.at = "queued" /\ t.entry = task[r].entry /\ t.got = task[r].got
    BY <2>1, <2>2 DEF TaskType
  <2>4. pc[r] = "open" => task[r].at = "none"
    BY DEF ProxyInv, WorkersHaveEntries
  <2>5. "send" \notin LookupLabels
    BY DEF LookupLabels
  <2>6. CASE \/ Looks(r, "open", "rc_loading") /\ Found(KeyOf[r]) /\ task'[r] = task[r]
             \/ Looks(r, "open", "rc_complete") /\ Found(KeyOf[r]) /\ task'[r] = task[r]
    BY <1>1, <2>6, ReadClientTurn DEF Looks
  <2>7. CASE Looks(r, "open", "send") /\ ~Found(KeyOf[r]) /\ task'[r] = t
    BY <1>1, <2>3, <2>4, <2>5, <2>7 DEF Looks
  <2> QED
    BY <1>1, <2>2, <2>6, <2>7, ReadClientTurn
<1>2. CASE send_next_chunk(r) \/ Recheck(r)
  <2>1. {"send", "loop", "register_new"} \cap LookupLabels = {}
    BY DEF LookupLabels
  <2> QED
    BY <1>2, <2>1, LookAgainTurn DEF Looks
<1>3. CASE \/ ReadLoading(r) \/ SendNothingNew(r) \/ SendDone(r) \/ SendError(r)
           \/ RecheckRead(r)
  <2>1. {"send", "loop", "register", "free"} \cap LookupLabels = {}
    BY DEF LookupLabels
  <2> QED
    BY <1>3, <2>1, SecondHalfTurn DEF Looks
<1>4. CASE ReadFound(r)
  <2>1. "write_all" \notin LookupLabels
    BY DEF LookupLabels
  <2> QED
    BY <1>4, <2>1, ReadFoundTurn
<1>5. CASE SendChunk(r) \/ SendRefused(r)
  <2>1. "loop" \notin LookupLabels
    BY DEF LookupLabels
  <2> QED
    BY <1>5, <2>1, SendChunkTurn, SendRefusedTurn
<1>6. CASE RegisterNotFound(r) \/ Register(r)
  <2>1. {"loop", "recheck"} \cap LookupLabels = {}
    BY DEF LookupLabels
  <2> QED
    BY <1>6, <2>1, RegisterTurn
<1>7. CASE on_data_ready(r) \/ echo_write_buffer_load(r) \/ ClientGone(r) \/ echo_write(r)
  <2>1. {"loop", "send", "free", "closed"} \cap LookupLabels = {}
    BY DEF LookupLabels
  <2> QED
    BY <1>7, <2>1, EventTurn
<1>8. CASE Unregister(r) \/ free_write_req(r)
  <2>1. {"close", "closed"} \cap LookupLabels = {}
    BY DEF LookupLabels
  <2> QED
    BY <1>8, <2>1, UnregisterTurn, CloseTurn DEF Looks
<1> QED
  BY <1>1, <1>2, <1>3, <1>4, <1>5, <1>6, <1>7, <1>8 DEF Callback

\* ... and all steps of workers.
LEMMA WorkerTurn ==
  ASSUME ProxyInv, CacheNext, NEW r \in Reqs, Worker(r) \/ LoadFailed(r)
  PROVE  \E t :
            /\ Works(r, t) /\ wr' \in [Reqs -> WriteReqType] /\ task[r].at # "none"
            /\ t.at \notin {"none", "queued"} /\ t.should_stop = task[r].should_stop
            /\ \/ /\ Started(r) /\ t.entry = task[r].entry
               \/ /\ StartLoad(r) /\ cache_start_loading(KeyOf[r], t.entry)
<1>0. wr \in [Reqs -> WriteReqType]
  BY DEF ProxyInv, TypeOK, WriteReqType
<1>1. CASE StartLoad(r)
  BY <1>0, <1>1, StartTurn
<1>2. CASE AppendChunk(r)
  BY <1>0, <1>2, AppendTurn DEF Started
<1>3. CASE \/ write_callback(r) \/ NotifyAppended(r) \/ LoadComplete(r) \/ FinishLoad(r)
           \/ NotifyFinished(r) \/ CancelLoad(r) \/ LoadFailed(r)
  <2> DEFINE to == task'[r].at
  <2>1. PICK from \in WorkerLabels \ {"none", "queued"},
             goal \in WorkerLabels \ {"none", "queued"} : Work(r, from, goal)
    BY <1>3 DEF write_callback, NotifyAppended, LoadComplete, FinishLoad, NotifyFinished,
                CancelLoad, LoadFailed, WorkerLabels
  <2>2. wr' = wr \/ Notify(r)
    BY <1>3 DEF write_callback, NotifyAppended, LoadComplete, FinishLoad, NotifyFinished,
                CancelLoad, LoadFailed
  <2>3. wr' \in [Reqs -> WriteReqType]
    BY <1>0, <2>2, NotifyTurn
  <2>4. /\ Works(r, [task[r] EXCEPT !.at = goal]) /\ task[r].at = from
        /\ task'[r].at = goal /\ task'[r].entry = task[r].entry
        /\ task'[r].should_stop = task[r].should_stop
    BY <2>1, AtStep
  <2>5. PICK t : t = [task[r] EXCEPT !.at = goal]
    OBVIOUS
  <2>6. Works(r, t) /\ task'[r] = t
    BY <2>4, <2>5 DEF Works
  <2> QED
    BY <2>1, <2>3, <2>4, <2>6 DEF Started
<1> QED
  BY <1>1, <1>2, <1>3 DEF Worker

LEMMA TaskTypeGrows ==
  ASSUME ProxyInv, CacheNext
  PROVE  TaskType(Len(heap)) \subseteq TaskType(Len(heap'))
<1>1. Len(heap) \in Nat /\ Len(heap') \in Nat /\ Len(heap) <= Len(heap')
  BY LenProperties DEF ProxyInv, TypeOK, CacheNext, CacheOK
<1>2. 0..Len(heap) \subseteq 0..Len(heap')
  BY <1>1
<1> QED
  BY <1>2 DEF TaskType

\* What remains to be shown of a step.
LEMMA InvNext ==
  ASSUME ProxyInv, CacheNext, WriteInv', pc' \in [Reqs -> Labels],
         wr' \in [Reqs -> WriteReqType], sent' \in [Reqs -> Seq(Nat)],
         task' \in [Reqs -> TaskType(Len(heap'))],
         \A q \in Reqs :
            /\ \/ /\ task'[q].entry = task[q].entry /\ task'[q].got = task[q].got
                  /\ Started(q)' <=> Started(q)
               \/ /\ Started(q)' /\ task'[q].entry \in DOMAIN heap' \ {0}
                  /\ heap'[task'[q].entry].key = KeyOf[q]
            /\ pc'[q] = "open" => pc[q] = "open" /\ task'[q].at = task[q].at
            /\ pc'[q] \in LookupLabels =>
                  \/ Found(KeyOf[q]) /\ UNCHANGED cacheVars
                  \/ pc[q] \in LookupLabels
  PROVE  ProxyInv'
<1>1. TypeOK'
  BY DEF TypeOK, WriteReqType, TaskType, CacheNext, CacheOK, PendingOK, PendingType
<1>2. BucketsExact' /\ PendingExact'
  BY DEF CacheNext, CacheOK, PendingOK
<1>3. WorkersHaveEntries'
  <2> SUFFICES ASSUME NEW q \in Reqs
               PROVE  /\ Started(q)' => task'[q].entry # 0 /\ Entry(q)'.key = KeyOf[q]
                      /\ ~Started(q)' => task'[q].got = 0
                      /\ pc'[q] = "open" => task'[q].at = "none"
    BY DEF WorkersHaveEntries
  <2>1. pc'[q] = "open" => task'[q].at = "none"
    BY DEF ProxyInv, WorkersHaveEntries
  <2>2. CASE /\ task'[q].entry = task[q].entry /\ task'[q].got = task[q].got
             /\ Started(q)' <=> Started(q)
    <3>1. ~Started(q)' => task'[q].got = 0
      BY <2>2 DEF ProxyInv, WorkersHaveEntries
    <3>2. ASSUME Started(q) PROVE task[q].entry # 0 /\ heap'[task[q].entry].key = KeyOf[q]
      <4>1. task[q].entry \in DOMAIN heap /\ heap[task[q].entry].key = KeyOf[q]
        BY <3>2, WorkerEntry
      <4>2. task[q].entry # 0
        BY <3>2 DEF ProxyInv, WorkersHaveEntries
      <4> QED
        BY <4>1, <4>2 DEF CacheNext
    <3> QED
      BY <2>1, <2>2, <3>1, <3>2 DEF Entry
  <2>3. CASE /\ Started(q)' /\ task'[q].entry \in DOMAIN heap' \ {0}
             /\ heap'[task'[q].entry].key = KeyOf[q]
    BY <2>1, <2>3 DEF Entry
  <2> QED
    BY <2>2, <2>3
<1>4. LookupsFind'
  <2> SUFFICES ASSUME NEW q \in Reqs, pc'[q] \in LookupLabels PROVE Found(KeyOf[q])'
    BY DEF LookupsFind
  <2>0. KeyOf[q] \in Keys
    BY ProxyAssumption
  <2>1. CASE Found(KeyOf[q]) /\ UNCHANGED cacheVars
    BY <2>1 DEF Found, Match, ToSet, cacheVars
  <2>2. CASE pc[q] \in LookupLabels
    <3>1. Found(KeyOf[q])
      BY <2>2 DEF ProxyInv, LookupsFind
    <3>2. ~BucketFree(Bucket[KeyOf[q]])
      BY <2>2 DEF BucketFree
    <3> QED
      BY <2>0, <3>1, <3>2 DEF CacheNext
  <2> QED
    BY <2>1, <2>2
<1> QED
  BY <1>1, <1>2, <1>3, <1>4 DEF ProxyInv

LEMMA NextProxyInv ==
  ASSUME ProxyInv, [Next]_vars
  PROVE  ProxyInv'
<1>1. CacheNext
  BY CacheSteps
<1>2. WriteInv'
  BY NextWrites DEF ProxyInv
<1>3. /\ pc \in [Reqs -> Labels] /\ wr \in [Reqs -> WriteReqType]
      /\ sent \in [Reqs -> Seq(Nat)] /\ task \in [Reqs -> TaskType(Len(heap))]
  BY DEF ProxyInv, TypeOK, WriteReqType, TaskType
<1>4. \A q \in Reqs : pc'[q] \in Labels
  BY <1>2 DEF WriteInv, WriteOwned
<1>5. ASSUME NEW r \in Reqs, Callback(r) \/ ClientGone(r) PROVE ProxyInv'
  <2>1. /\ Turns(r) /\ pc'[r] # "open"
        /\ task'[r].entry = task[r].entry /\ task'[r].got = task[r].got
        /\ task'[r].at = task[r].at \/ (task[r].at = "none" /\ task'[r].at = "queued")
        /\ pc'[r] \in LookupLabels => Found(KeyOf[r]) /\ UNCHANGED cacheVars
    BY <1>5, CallbackTurn
  <2>2. /\ pc' \in [Reqs -> Labels] /\ wr' \in [Reqs -> WriteReqType]
        /\ sent' \in [Reqs -> Seq(Nat)]
    BY <1>3, <1>4, <2>1 DEF Turns
  <2>3. task' \in [Reqs -> TaskType(Len(heap'))]
    BY <1>1, <2>1, TaskTypeGrows DEF Turns
  <2>4. ASSUME NEW q \in Reqs
        PROVE  /\ task'[q].entry = task[q].entry /\ task'[q].got = task[q].got
               /\ Started(q)' <=> Started(q)
               /\ pc'[q] = "open" => pc[q] = "open" /\ task'[q].at = task[q].at
               /\ pc'[q] \in LookupLabels =>
                     \/ Found(KeyOf[q]) /\ UNCHANGED cacheVars
                     \/ pc[q] \in LookupLabels
    <3>1. CASE q = r
      BY <2>1, <3>1 DEF Started
    <3>2. CASE q # r
      BY <2>1, <3>2 DEF Started, Turns
    <3> QED
      BY <3>1, <3>2
  <2> QED
    BY <1>1, <1>2, <2>2, <2>3, <2>4, InvNext
<1>6. ASSUME NEW r \in Reqs, Worker(r) \/ LoadFailed(r) PROVE ProxyInv'
  <2>1. PICK t :
            /\ Works(r, t) /\ wr' \in [Reqs -> WriteReqType] /\ task[r].at # "none"
            /\ t.at \notin {"none", "queued"}
            /\ \/ Started(r) /\ t.entry = task[r].entry
               \/ StartLoad(r) /\ cache_start_loading(KeyOf[r], t.entry)
    BY <1>1, <1>6, WorkerTurn
  <2>2. t.entry \in DOMAIN heap' \ {0} /\ heap'[t.entry].key = KeyOf[r]
    <3>0. CacheOK /\ PendingOK /\ KeyOf[r] \in Keys /\ 0 \notin DOMAIN heap'
      BY <1>1, InvOf DEF CacheNext, CacheOK
    <3>1. CASE Started(r) /\ t.entry = task[r].entry
      BY <1>1, <3>0, <3>1, WorkerEntry DEF CacheNext
    <3>2. CASE cache_start_loading(KeyOf[r], t.entry)
      <4>1. CASE Found(KeyOf[r]) /\ t.entry = EntryOf(KeyOf[r])
        BY <1>1, <3>0, <4>1, FoundEntry DEF CacheNext
      <4>2. CASE Creates(KeyOf[r], t.entry)
        <5>1. t.entry \in DOMAIN heap' /\ heap'[t.entry] = create_entry(KeyOf[r],
                                                                PendingWaiters(KeyOf[r]))
          BY <4>2 DEF Creates, Grown
        <5> QED
          BY <3>0, <5>1 DEF create_entry
      <4> QED
        BY <3>0, <3>2, <4>1, <4>2, CreateStep
    <3> QED
      BY <2>1, <3>1, <3>2
  <2>3. /\ pc' = pc /\ sent' = sent /\ task'[r] = t
        /\ task' \in [Reqs -> TaskType(Len(heap'))]
        /\ \A q \in Reqs \ {r} : task'[q] = task[q]
    BY <2>1 DEF Works
  <2>4. ASSUME NEW q \in Reqs
        PROVE  /\ \/ /\ task'[q].entry = task[q].entry /\ task'[q].got = task[q].got
                     /\ Started(q)' <=> Started(q)
                  \/ /\ Started(q)' /\ task'[q].entry \in DOMAIN heap' \ {0}
                     /\ heap'[task'[q].entry].key = KeyOf[q]
               /\ pc'[q] = "open" => pc[q] = "open" /\ task'[q].at = task[q].at
               /\ pc'[q] \in LookupLabels => pc[q] \in LookupLabels
    <3>1. CASE q = r
      <4>1. pc[r] # "open"
        BY <2>1 DEF ProxyInv, WorkersHaveEntries
      <4>2. Started(r)'
        BY <2>1, <2>3 DEF Started
      <4> QED
        BY <2>2, <2>3, <3>1, <4>1, <4>2
    <3>2. CASE q # r
      BY <2>3, <3>2 DEF Started
    <3> QED
      BY <3>1, <3>2
  <2>5. /\ pc' \in [Reqs -> Labels] /\ wr' \in [Reqs -> WriteReqType]
        /\ sent' \in [Reqs -> Seq(Nat)] /\ task' \in [Reqs -> TaskType(Len(heap'))]
    BY <1>3, <2>1, <2>3
  <2> QED
    BY <1>1, <1>2, <2>4, <2>5, InvNext
<1>7. ASSUME UNCHANGED proxyVars PROVE ProxyInv'
  <2>1. pc' = pc /\ wr' = wr /\ sent' = sent /\ task' = task
    BY <1>7 DEF proxyVars
  <2>2. /\ pc' \in [Reqs -> Labels] /\ wr' \in [Reqs -> WriteReqType]
        /\ sent' \in [Reqs -> Seq(Nat)] /\ task' \in [Reqs -> TaskType(Len(heap'))]
    BY <1>1, <1>3, <2>1, TaskTypeGrows
  <2>3. ASSUME NEW q \in Reqs
        PROVE  /\ task'[q].entry = task[q].entry /\ task'[q].got = task[q].got
               /\ Started(q)' <=> Started(q)
               /\ pc'[q] = "open" => pc[q] = "open" /\ task'[q].at = task[q].at
               /\ pc'[q] \in LookupLabels => pc[q] \in LookupLabels
    BY <2>1 DEF Started
  <2> QED
    BY <1>1, <1>2, <2>2, <2>3, InvNext
<1> QED
  BY <1>5, <1>6, <1>7 DEF Next, Expire, Collect, vars

LEMMA InitProxyInv ==
  Init => ProxyInv
<1> SUFFICES ASSUME Init PROVE ProxyInv
  OBVIOUS
<1>0. PICK nil : nil = <<>> /\ nil \in Seq(EntryType) /\ nil \in Seq(Nat)
  BY EmptySeq, Zenon
<1>1. nil = <<>> /\ nil \in Seq(EntryType) /\ nil \in Seq(Nat) /\ DOMAIN nil = {} /\ Len(nil) = 0
  BY <1>0
<1>2. /\ heap = nil /\ buckets = [b \in Buckets |-> nil] /\ pending = [b \in Buckets |-> nil]
      /\ pc = [r \in Reqs |-> "open"] /\ wr = [r \in Reqs |-> NewWriteReq]
      /\ sent = [r \in Reqs |-> nil] /\ task = [r \in Reqs |-> NewTask]
  BY <1>1 DEF Init, CacheInit
<1>3. nil \in Seq(DOMAIN heap) /\ nil \in Seq([key : Keys, waiters : Seq(Reqs)])
  BY <1>1, EmptySeq
<1>4. /\ NewWriteReq \in [offset : Nat, did_register : BOOLEAN, write_pending : BOOLEAN,
                         async : BOOLEAN, inflight : Nat, writable : BOOLEAN]
      /\ NewWriteReq.write_pending = FALSE /\ NewWriteReq.inflight = 0
  BY DEF NewWriteReq
<1>5. /\ NewTask \in [at : WorkerLabels, entry : 0..Len(heap), got : Nat, total : Nat,
                     should_stop : BOOLEAN]
      /\ NewTask.at = "none" /\ NewTask.got = 0
  BY <1>1, <1>2 DEF NewTask, WorkerLabels
<1>6. "open" \in Labels /\ "open" \notin LookupLabels
  BY DEF Labels, LookupLabels
<1>7. TypeOK
  BY <1>1, <1>2, <1>3, <1>4, <1>5, <1>6 DEF TypeOK
<1>8. WriteInv
  BY <1>2, <1>4, <1>6 DEF WriteInv, WriteOwned
<1>9. IsInjective(nil) /\ ToSet(nil) = {}
  BY <1>1 DEF IsInjective, ToSet
<1>10. BucketsExact /\ PendingExact
  BY <1>2, <1>9 DEF BucketsExact, PendingExact
<1>11. WorkersHaveEntries /\ LookupsFind
  BY <1>2, <1>5, <1>6 DEF WorkersHaveEntries, LookupsFind, Started
<1> QED
  BY <1>7, <1>8, <1>10, <1>11 DEF ProxyInv

\* The cache is built as cache.c means it: a bucket's lists hold every entry and
\* every key once, each in the bucket of its key and none freed, an entry once found
\* stays until the lookup is over, and a worker's entry is one of its own key --
\* whatever requests, workers and the collector do.  TypeOK is part of this.
THEOREM TypeCorrect == Spec => []TypeOK
<1>1. ProxyInv /\ [Next]_vars => ProxyInv'
  BY NextProxyInv
<1>2. ProxyInv => TypeOK
  BY DEF ProxyInv
<1> QED
  BY <1>1, <1>2, InitProxyInv, PTL DEF Spec

-----------------------------------------------------------------------------
(* Streams *)

\* No entry gets data, and none appears.
DataKept ==
    /\ \A g \in DOMAIN heap' :
          ~heap'[g].freed => g \in DOMAIN heap /\ ~heap[g].freed /\ heap'[g].data = heap[g].data
    /\ \A k \in Keys : Found(k)' => Found(k)

\* No task is queued or begins, and none receives data.
TasksKept ==
    \A q \in Reqs :
        /\ task'[q].entry = task[q].entry /\ task'[q].got = task[q].got
        /\ task'[q].at = "queued" <=> task[q].at = "queued"
        /\ Started(q)' <=> Started(q)

LEMMA UpdateKeepsData ==
  ASSUME ProxyInv, NEW e, NEW l, NEW w, NEW x,
         Updated(e, l, heap[e].data, w, x, heap[e].freed), buckets' = buckets
  PROVE  DataKept
<1>1. \A k \in Keys : Match(k)' = Match(k)
  BY InvOf, UpdateKeeps
<1> QED
  BY <1>1 DEF DataKept, Updated, Found

LEMMA FreeKeepsData ==
  ASSUME ProxyInv, NEW b, NEW e, Frees(b, e)
  PROVE  DataKept
<1>1. \A k \in Keys : Match(k)' \subseteq Match(k) \ {e}
  BY InvOf, FreeKeeps
<1>2. \A g \in DOMAIN heap' : ~heap'[g].freed =>
         g \in DOMAIN heap /\ ~heap[g].freed /\ heap'[g].data = heap[g].data
  BY DEF Frees, Updated
<1>3. \A k \in Keys : Found(k)' => Found(k)
  BY <1>1 DEF Found
<1> QED
  BY <1>2, <1>3 DEF DataKept

LEMMA RestKeepsData ==
  ASSUME ProxyInv, Rests
  PROVE  DataKept
<1>1. \A k \in Keys : Match(k)' = Match(k)
  BY InvOf, RestKeeps
<1> QED
  BY <1>1 DEF DataKept, Rests, Found

LEMMA DataSteps ==
  ASSUME ProxyInv, [Next]_vars, \A r \in Reqs : ~StartLoad(r) /\ ~AppendChunk(r)
  PROVE  DataKept
<1>0. CacheOK /\ PendingOK /\ heap \in Seq(EntryType) /\ KeyOf \in [Reqs -> Keys]
  BY InvOf DEF CacheOK
<1>1. ASSUME UNCHANGED <<heap, buckets>> PROVE DataKept
  <2>1. \A k \in Keys : Match(k)' = Match(k)
    BY <1>0, <1>1, NothingMoves
  <2> QED
    BY <1>1, <2>1 DEF DataKept, Found
<1>2. ASSUME NEW r \in Reqs, RegisterNotFound(r) \/ Register(r) PROVE DataKept
  <2>1. cache_register_waiter(KeyOf[r], r) /\ KeyOf[r] \in Keys
    BY <1>0, <1>2 DEF RegisterNotFound, Register
  <2>2. CASE Found(KeyOf[r])
    BY <1>0, <2>1, <2>2, JoinStep, UpdateKeepsData
  <2>3. CASE ~Found(KeyOf[r])
    BY <1>0, <1>1, <2>1, <2>3, AddStep
  <2> QED
    BY <2>2, <2>3
<1>3. ASSUME NEW r \in Reqs, Unregister(r) PROVE DataKept
  <2>1. cache_unregister_waiter(KeyOf[r], r) /\ KeyOf[r] \in Keys
    BY <1>0, <1>3 DEF Unregister
  <2>2. CASE Found(KeyOf[r])
    BY <1>0, <2>1, <2>2, LeaveStep, UpdateKeepsData
  <2>3. CASE ~Found(KeyOf[r])
    BY <1>1, <2>1, <2>3 DEF cache_unregister_waiter, cacheVars
  <2> QED
    BY <2>2, <2>3
<1>4. ASSUME NEW r \in Reqs, Callback(r) \/ ClientGone(r) PROVE DataKept
  BY <1>2, <1>3, <1>4, CallbackRests, RestKeepsData
<1>5. ASSUME NEW r \in Reqs, FinishLoad(r) PROVE DataKept
  <2>1. /\ task[r].at = "finish" /\ cache_finish_loading(task[r].entry)
        /\ UNCHANGED <<buckets, pending>>
    BY <1>5 DEF FinishLoad, Work, cache_finish_loading
  <2>2. task[r].entry \in DOMAIN heap
    BY <2>1, WorkerEntry DEF Started
  <2> QED
    BY <1>0, <2>1, <2>2, FinishStep, UpdateKeepsData
<1>6. ASSUME NEW r \in Reqs, CancelLoad(r) PROVE DataKept
  <2>1. cache_cancel_loading(PathOf[r]) /\ PathOf[r] \in Keys
    BY <1>6, ProxyAssumption DEF CancelLoad
  <2>2. UNCHANGED cacheVars \/ Frees(Bucket[PathOf[r]], EntryOf(PathOf[r]))
    BY <1>0, <2>1, CancelStep DEF FreesOnly
  <2> QED
    BY <1>1, <2>1, <2>2, FreeKeepsData DEF cacheVars
<1>7. ASSUME NEW r \in Reqs, Worker(r) \/ LoadFailed(r) PROVE DataKept
  BY <1>1, <1>5, <1>6, <1>7 DEF Worker, write_callback, NotifyAppended,
     LoadComplete, NotifyFinished, LoadFailed, cacheVars
<1>8. ASSUME NEW e \in DOMAIN heap, Expire(e) PROVE DataKept
  <2>1. heap' = [heap EXCEPT ![e].expired = TRUE] /\ UNCHANGED <<buckets, pending>>
    BY <1>8 DEF Expire
  <2> QED
    BY <1>0, <2>1, ExpireStep, UpdateKeepsData
<1>9. ASSUME NEW b \in Buckets, Collect(b) PROVE DataKept
  <2>1. cache_clean_expired(b)
    BY <1>9 DEF Collect
  <2>2. PICK e : Frees(b, e)
    BY <1>0, <2>1, CollectStep
  <2> QED
    BY <2>2, FreeKeepsData
<1> QED
  BY <1>1, <1>4, <1>7, <1>8, <1>9 DEF Next, vars, cacheVars

LEMMA PlainWork ==
  ASSUME ProxyInv, CacheNext, NEW r \in Reqs, Worker(r) \/ LoadFailed(r),
         ~StartLoad(r), ~AppendChunk(r)
  PROVE  /\ task'[r].entry = task[r].entry /\ task'[r].got = task[r].got
         /\ task'[r].should_stop = task[r].should_stop
         /\ Started(r) /\ Started(r)'
         /\ pc' = pc /\ sent' = sent /\ \A q \in Reqs \ {r} : task'[q] = task[q]
<1>1. PICK from \in WorkerLabels \ {"none", "queued"},
           to \in WorkerLabels \ {"none", "queued"} : Work(r, from, to)
  BY DEF Worker, write_callback, NotifyAppended, LoadComplete, FinishLoad, NotifyFinished,
         CancelLoad, LoadFailed, WorkerLabels
<1>2. /\ Works(r, [task[r] EXCEPT !.at = to]) /\ task[r].at = from
      /\ task'[r].at = to /\ task'[r].entry = task[r].entry
      /\ task'[r].got = task[r].got /\ task'[r].should_stop = task[r].should_stop
  BY <1>1, AtStep
<1> QED
  BY <1>1, <1>2 DEF Works, Started

LEMMA TaskSteps ==
  ASSUME ProxyInv, [Next]_vars,
         \A r \in Reqs : ~read_client(r) /\ ~StartLoad(r) /\ ~AppendChunk(r)
  PROVE  TasksKept
<1>1. ASSUME NEW r \in Reqs, Callback(r) \/ ClientGone(r) PROVE TasksKept
  <2>1. /\ Turns(r) /\ task'[r].entry = task[r].entry /\ task'[r].got = task[r].got
        /\ task'[r].at = task[r].at
    BY <1>1, CallbackTurn
  <2>2. \A q \in Reqs \ {r} : task'[q] = task[q]
    BY <2>1 DEF Turns
  <2> QED
    BY <2>1, <2>2 DEF TasksKept, Started
<1>2. ASSUME NEW r \in Reqs, Worker(r) \/ LoadFailed(r) PROVE TasksKept
  <2>1. /\ task'[r].entry = task[r].entry /\ task'[r].got = task[r].got
        /\ Started(r) /\ Started(r)' /\ \A q \in Reqs \ {r} : task'[q] = task[q]
    BY <1>2, CacheSteps, PlainWork
  <2> QED
    BY <2>1 DEF TasksKept, Started
<1>3. ASSUME UNCHANGED proxyVars PROVE TasksKept
  BY <1>3 DEF TasksKept, Started, proxyVars
<1> QED
  BY <1>1, <1>2, <1>3 DEF Next, Expire, Collect, vars

\* Steps at which nothing begins and nothing is received.
LEMMA StreamKept ==
  ASSUME ProxyInv, OneWorkerEach, DataInOrder, DataKept, TasksKept, CacheNext
  PROVE  OneWorkerEach' /\ DataInOrder'
<1>1. OneWorkerEach'
  <2>0. \A q \in Reqs : KeyOf[q] \in Keys
    BY ProxyAssumption
  <2>1. \A r \in Reqs : task'[r].at = "queued" => ~Found(KeyOf[r])'
    BY <2>0 DEF OneWorkerEach, DataKept, TasksKept
  <2>2. \A r, q \in Reqs :
           task'[r].at = "queued" /\ task'[q].at = "queued" /\ KeyOf[r] = KeyOf[q] => r = q
    BY DEF OneWorkerEach, TasksKept
  <2>3. \A r, q \in Reqs :
           Started(r)' /\ Started(q)' /\ task'[r].entry = task'[q].entry => r = q
    BY DEF OneWorkerEach, TasksKept
  <2> QED
    BY <2>1, <2>2, <2>3 DEF OneWorkerEach
<1>2. \A g \in DOMAIN heap' : ~heap'[g].freed => InOrder(heap'[g].data)
  BY DEF DataInOrder, DataKept
<1>3. ASSUME NEW r \in Reqs, Started(r)', ~heap'[task'[r].entry].freed
      PROVE  Len(heap'[task'[r].entry].data) = task'[r].got
  <2>1. /\ Started(r) /\ task'[r].entry = task[r].entry /\ task'[r].got = task[r].got
    BY <1>3 DEF TasksKept
  <2>2. task[r].entry \in DOMAIN heap'
    BY <2>1, WorkerEntry DEF CacheNext
  <2> QED
    BY <1>3, <2>1, <2>2 DEF DataKept, DataInOrder, Entry
<1> QED
  BY <1>1, <1>2, <1>3 DEF DataInOrder, Entry, InOrder

LEMMA ReadClientStream ==
  ASSUME ProxyInv, OneLoad, OneWorkerEach, DataInOrder, NEW r \in Reqs, read_client(r),
         CacheNext, DataKept
  PROVE  OneWorkerEach' /\ DataInOrder'
<1>1. /\ Turns(r) /\ task'[r].entry = task[r].entry /\ task'[r].got = task[r].got
      /\ \/ task'[r].at = task[r].at
         \/ ~Found(KeyOf[r]) /\ task[r].at = "none" /\ task'[r].at = "queued"
  BY CallbackTurn DEF Callback
<1>2. \A q \in Reqs \ {r} : task'[q] = task[q]
  BY <1>1 DEF Turns
<1>3. CASE task'[r].at = task[r].at
  <2>1. TasksKept
    BY <1>1, <1>2, <1>3 DEF TasksKept, Started
  <2> QED
    BY <2>1, StreamKept
<1>4. CASE ~Found(KeyOf[r]) /\ task[r].at = "none" /\ task'[r].at = "queued"
  <2>0. \A q \in Reqs : KeyOf[q] \in Keys
    BY ProxyAssumption
  <2>1. \A q \in Reqs : task'[q].at = "queued" => ~Found(KeyOf[q])'
    <3>1. \A q \in Reqs : task'[q].at = "queued" => ~Found(KeyOf[q])
      BY <1>2, <1>4 DEF OneWorkerEach
    <3> QED
      BY <2>0, <3>1 DEF DataKept
  <2>2. \A q \in Reqs : KeyOf[q] = KeyOf[r] => task[q].at # "queued"
    BY ReadClientTurn
  <2>3. \A p, q \in Reqs :
           task'[p].at = "queued" /\ task'[q].at = "queued" /\ KeyOf[p] = KeyOf[q] => p = q
    BY <1>2, <2>2 DEF OneWorkerEach
  <2>4. /\ \A q \in Reqs : Started(q)' <=> Started(q)
        /\ \A q \in Reqs : task'[q].entry = task[q].entry /\ task'[q].got = task[q].got
    BY <1>1, <1>2, <1>4 DEF Started
  <2>5. \A p, q \in Reqs :
           Started(p)' /\ Started(q)' /\ task'[p].entry = task'[q].entry => p = q
    BY <2>4 DEF OneWorkerEach
  <2>6. \A g \in DOMAIN heap' : ~heap'[g].freed => InOrder(heap'[g].data)
    BY DEF DataInOrder, DataKept
  <2>7. ASSUME NEW q \in Reqs, Started(q)', ~heap'[task'[q].entry].freed
        PROVE  Len(heap'[task'[q].entry].data) = task'[q].got
    <3>1. task[q].entry \in DOMAIN heap'
      BY <2>4, <2>7, WorkerEntry DEF CacheNext
    <3> QED
      BY <2>4, <2>7, <3>1 DEF DataKept, DataInOrder, Entry
  <2>8. OneWorkerEach'
    BY <2>1, <2>3, <2>5 DEF OneWorkerEach
  <2>9. DataInOrder'
    BY <2>6, <2>7 DEF DataInOrder, Entry, InOrder
  <2> QED
    BY <2>8, <2>9
<1> QED
  BY <1>1, <1>3, <1>4

LEMMA StartLoadStream ==
  ASSUME ProxyInv, OneWorkerEach, DataInOrder, NEW r \in Reqs, StartLoad(r), CacheNext
  PROVE  OneWorkerEach' /\ DataInOrder'
<1>1. PICK e, t :
         /\ cache_start_loading(KeyOf[r], e) /\ Works(r, t) /\ task[r].at = "queued"
         /\ t.at = "recv" /\ t.entry = e /\ t.got = task[r].got
  BY StartTurn
<1>2. /\ ~Found(KeyOf[r]) /\ CacheOK /\ PendingOK /\ KeyOf[r] \in Keys
      /\ \A q \in Reqs : KeyOf[q] \in Keys
  BY <1>1, InvOf, ProxyAssumption DEF OneWorkerEach
<1>3. Creates(KeyOf[r], e)
  BY <1>1, <1>2, CreateStep
<1>4. /\ Match(KeyOf[r])' = {e} /\ e \notin DOMAIN heap
      /\ \A m \in Keys : m # KeyOf[r] => Match(m)' = Match(m)
  BY <1>2, <1>3, CreateKeeps
<1>5. /\ DOMAIN heap' = DOMAIN heap \cup {e} /\ \A g \in DOMAIN heap : heap'[g] = heap[g]
      /\ heap'[e] = create_entry(KeyOf[r], PendingWaiters(KeyOf[r]))
  BY <1>3 DEF Creates, Grown
<1>6. task'[r] = t /\ \A q \in Reqs \ {r} : task'[q] = task[q]
  BY <1>1 DEF Works
<1>7. task[r].got = 0
  BY <1>1 DEF ProxyInv, WorkersHaveEntries, Started
<1>8. heap'[e].data = <<>> /\ Len(heap'[e].data) = 0
  BY <1>5 DEF create_entry
<1>9. OneWorkerEach'
  <2>1. ASSUME NEW q \in Reqs, task'[q].at = "queued" PROVE ~Found(KeyOf[q])'
    <3>1. q # r /\ task[q].at = "queued"
      BY <1>1, <1>6, <2>1
    <3>2. ~Found(KeyOf[q]) /\ KeyOf[q] # KeyOf[r]
      BY <1>1, <3>1 DEF OneWorkerEach
    <3> QED
      BY <1>2, <1>4, <3>2 DEF Found
  <2>2. \A p, q \in Reqs :
           task'[p].at = "queued" /\ task'[q].at = "queued" /\ KeyOf[p] = KeyOf[q] => p = q
    BY <1>1, <1>6 DEF OneWorkerEach
  <2>3. \A q \in Reqs \ {r} : Started(q)' => Started(q) /\ task'[q].entry \in DOMAIN heap
    BY <1>6, WorkerEntry DEF Started
  <2>4. \A p, q \in Reqs :
           Started(p)' /\ Started(q)' /\ task'[p].entry = task'[q].entry => p = q
    BY <1>1, <1>4, <1>6, <2>3 DEF OneWorkerEach
  <2> QED
    BY <2>1, <2>2, <2>4 DEF OneWorkerEach
<1>10. \A g \in DOMAIN heap' : ~heap'[g].freed => InOrder(heap'[g].data)
  BY <1>5, <1>8 DEF DataInOrder, InOrder
<1>11. ASSUME NEW q \in Reqs, Started(q)', ~heap'[task'[q].entry].freed
       PROVE  Len(heap'[task'[q].entry].data) = task'[q].got
  <2>1. CASE q = r
    BY <1>1, <1>6, <1>7, <1>8, <2>1
  <2>2. CASE q # r
    <3>1. Started(q) /\ task'[q] = task[q] /\ task[q].entry \in DOMAIN heap
      BY <1>6, <1>11, <2>2, WorkerEntry DEF Started
    <3> QED
      BY <1>5, <1>11, <3>1 DEF DataInOrder, Entry
  <2> QED
    BY <2>1, <2>2
<1> QED
  BY <1>9, <1>10, <1>11 DEF DataInOrder, Entry, InOrder

LEMMA AppendStream ==
  ASSUME ProxyInv, OneWorkerEach, DataInOrder, NEW r \in Reqs, AppendChunk(r), CacheNext
  PROVE  OneWorkerEach' /\ DataInOrder'
<1>1. PICK t :
         /\ Works(r, t) /\ task[r].at = "append" /\ t.at = "notify"
         /\ t.entry = task[r].entry /\ t.got = task[r].got + 1
  BY AppendTurn
<1>2. PICK e : e = task[r].entry
  OBVIOUS
<1>3. /\ Started(r) /\ e \in DOMAIN heap /\ task[r].got \in Nat
      /\ cache_append_data(e, task[r].got + 1) /\ buckets' = buckets
  BY <1>1, <1>2, WorkerEntry DEF Started, AppendChunk, cache_append_data
<1>4. CacheOK /\ heap \in Seq(EntryType) /\ \A q \in Reqs : KeyOf[q] \in Keys
  BY InvOf, ProxyAssumption DEF CacheOK
<1>5. Updated(e, heap[e].is_loading, Append(heap[e].data, task[r].got + 1),
              heap[e].waiting_clients, FALSE, heap[e].freed)
  <2>1. task[r].got + 1 \in Nat
    BY <1>3
  <2> QED
    BY <1>3, <1>4, <2>1, AppendStep
<1>6. \A k \in Keys : Match(k)' = Match(k)
  BY <1>3, <1>4, <1>5, UpdateKeeps
<1>7. task'[r] = t /\ \A q \in Reqs \ {r} : task'[q] = task[q]
  BY <1>1 DEF Works
<1>8. /\ \A q \in Reqs : Started(q)' <=> Started(q)
      /\ \A q \in Reqs : task'[q].entry = task[q].entry
      /\ \A q \in Reqs : task'[q].at = "queued" <=> task[q].at = "queued"
  BY <1>1, <1>7 DEF Started
<1>9. OneWorkerEach'
  <2>1. \A q \in Reqs : task'[q].at = "queued" => ~Found(KeyOf[q])'
    BY <1>4, <1>6, <1>8 DEF OneWorkerEach, Found
  <2>2. \A p, q \in Reqs :
           task'[p].at = "queued" /\ task'[q].at = "queued" /\ KeyOf[p] = KeyOf[q] => p = q
    BY <1>8 DEF OneWorkerEach
  <2>3. \A p, q \in Reqs :
           Started(p)' /\ Started(q)' /\ task'[p].entry = task'[q].entry => p = q
    BY <1>8 DEF OneWorkerEach
  <2> QED
    BY <2>1, <2>2, <2>3 DEF OneWorkerEach
<1>10. /\ DOMAIN heap' = DOMAIN heap /\ heap'[e].freed = heap[e].freed
       /\ \A g \in DOMAIN heap : g # e => heap'[g] = heap[g]
       /\ heap'[e].data = Append(heap[e].data, task[r].got + 1)
  BY <1>5 DEF Updated
<1>11. ASSUME ~heap[e].freed
       PROVE  InOrder(heap'[e].data) /\ Len(heap'[e].data) = task[r].got + 1
  <2>1. /\ heap[e].data \in Seq(Nat) /\ InOrder(heap[e].data)
        /\ Len(heap[e].data) = task[r].got
    BY <1>2, <1>3, <1>4, <1>11, Fields DEF DataInOrder, Entry
  <2>2. PICK d, n : d = heap[e].data /\ n = task[r].got + 1
    OBVIOUS
  <2>3. PICK a : a = Append(d, n)
    OBVIOUS
  <2>4. d \in Seq(Nat) /\ n \in Nat /\ Len(d) = n - 1 /\ \A i \in 1..Len(d) : d[i] = i
    BY <1>3, <2>1, <2>2 DEF InOrder
  <2>5. DOMAIN a = 1..n /\ Len(a) = n /\ \A i \in 1..n : a[i] = i
    BY <2>3, <2>4
  <2>6. a = heap'[e].data
    BY <1>10, <2>2, <2>3
  <2> QED
    BY <2>2, <2>5, <2>6 DEF InOrder
<1>12. \A g \in DOMAIN heap' : ~heap'[g].freed => InOrder(heap'[g].data)
  BY <1>10, <1>11 DEF DataInOrder
<1>13. ASSUME NEW q \in Reqs, Started(q)', ~heap'[task'[q].entry].freed
       PROVE  Len(heap'[task'[q].entry].data) = task'[q].got
  <2>1. CASE q = r
    BY <1>1, <1>2, <1>7, <1>10, <1>11, <1>13, <2>1
  <2>2. CASE q # r
    <3>1. Started(q) /\ task'[q] = task[q] /\ task[q].entry \in DOMAIN heap
      BY <1>7, <1>8, <1>13, <2>2, WorkerEntry
    <3>2. task[q].entry # e
      BY <1>2, <1>3, <2>2, <3>1 DEF OneWorkerEach
    <3> QED
      BY <1>10, <1>13, <3>1, <3>2 DEF DataInOrder, Entry
  <2> QED
    BY <2>1, <2>2
<1> QED
  BY <1>9, <1>12, <1>13 DEF DataInOrder, Entry, InOrder

LEMMA Continued ==
  ASSUME NEW s \in Seq(Nat), NEW d \in Seq(Nat), InOrder(s), InOrder(d),
         NEW end \in Nat, Len(s) < end, end <= Len(d)
  PROVE  /\ InOrder(s \o SubSeq(d, Len(s) + 1, end))
         /\ Len(s \o SubSeq(d, Len(s) + 1, end)) = end
<1>0. PICK o \in Nat : o = Len(s)
  OBVIOUS
<1>1. PICK c : c = SubSeq(d, o + 1, end)
  OBVIOUS
<1>2. c \in Seq(Nat) /\ Len(c) = end - o /\ \A i \in 1..Len(c) : c[i] = d[o + i]
  <2>1. o + 1 \in Nat \ {0} /\ end \in 0..Len(d) /\ o + 1 <= end
    BY <1>0
  <2>2. PICK m \in Nat \ {0} : m = o + 1
    BY <2>1
  <2>3. c = SubSeq(d, m, end)
    BY <1>1, <2>2
  <2>4. /\ SubSeq(d, m, end) \in Seq(Nat)
        /\ Len(SubSeq(d, m, end)) = IF m <= end THEN end - m + 1 ELSE 0
        /\ \A i \in 1..Len(SubSeq(d, m, end)) : SubSeq(d, m, end)[i] = d[m + i - 1]
    BY <2>1, Section
  <2>5. /\ c \in Seq(Nat) /\ Len(c) = IF m <= end THEN end - m + 1 ELSE 0
        /\ \A i \in 1..Len(c) : c[i] = d[m + i - 1]
    BY <2>3, <2>4, Zenon
  <2>6. m <= end /\ end - m + 1 = end - o
    BY <2>1, <2>2
  <2>7. Len(c) = end - o /\ end - o \in Nat
    BY <2>1, <2>5, <2>6
  <2>8. ASSUME NEW i \in 1..Len(c) PROVE c[i] = d[o + i]
    <3>1. i \in Nat /\ m + i - 1 = o + i
      BY <2>2, <2>7
    <3> QED
      BY <2>5, <3>1
  <2> QED
    BY <2>5, <2>7, <2>8
<1>3. PICK t : t = s \o c
  OBVIOUS
<1>4. /\ t \in Seq(Nat) /\ Len(t) = Len(s) + Len(c)
      /\ \A i \in 1..Len(s) + Len(c) : t[i] = IF i <= Len(s) THEN s[i] ELSE c[i - Len(s)]
  BY <1>2, <1>3, ConcatProperties, Zenon
<1>5. Len(t) = end
  BY <1>0, <1>2, <1>4
<1>6. ASSUME NEW i \in 1..end PROVE t[i] = i
  <2>1. t[i] = IF i <= o THEN s[i] ELSE c[i - o]
    <3>1. i \in 1..Len(s) + Len(c)
      BY <1>0, <1>2
    <3>2. t[i] = IF i <= Len(s) THEN s[i] ELSE c[i - Len(s)]
      BY <1>4, <3>1
    <3> QED
      BY <1>0, <3>2
  <2>2. CASE i <= o
    BY <1>0, <2>1, <2>2 DEF InOrder
  <2>3. CASE ~(i <= o)
    <3>1. i - o \in 1..Len(c) /\ o + (i - o) = i /\ i \in DOMAIN d
      BY <1>2, <2>3
    <3>2. c[i - o] = d[i]
      BY <1>2, <3>1
    <3> QED
      BY <2>1, <2>3, <3>1, <3>2 DEF InOrder
  <2> QED
    BY <2>2, <2>3
<1>7. DOMAIN t = 1..end
  BY <1>4, <1>5, LenProperties
<1>8. InOrder(t) /\ Len(t) = end
  BY <1>5, <1>6, <1>7 DEF InOrder
<1>9. t = s \o SubSeq(d, Len(s) + 1, end)
  BY <1>0, <1>1, <1>3
<1> QED
  BY <1>8, <1>9

\* Callbacks that write nothing.
LEMMA NothingSent ==
  ASSUME ProxyInv, NEW r \in Reqs, Callback(r) \/ ClientGone(r),
         ~ReadFound(r), ~SendChunk(r), ~SendRefused(r)
  PROVE  /\ sent'[r] = sent[r] /\ wr'[r].offset = wr[r].offset
         /\ pc'[r] \notin {"write_all", "closed"} /\ wr'[r].writable =>
               pc[r] \notin {"write_all", "closed"} /\ wr[r].writable
<1>1. CASE read_client(r)
  BY <1>1, ReadClientTurn DEF Looks
<1>2. CASE send_next_chunk(r) \/ Recheck(r)
  BY <1>2, LookAgainTurn DEF Looks
<1>3. CASE \/ ReadLoading(r) \/ SendNothingNew(r) \/ SendDone(r) \/ SendError(r)
           \/ RecheckRead(r)
  BY <1>3, SecondHalfTurn DEF Looks
<1>4. CASE RegisterNotFound(r) \/ Register(r)
  BY <1>4, RegisterTurn
<1>5. CASE on_data_ready(r) \/ echo_write_buffer_load(r) \/ ClientGone(r) \/ echo_write(r)
  BY <1>5, EventTurn
<1>6. CASE Unregister(r) \/ free_write_req(r)
  BY <1>6, UnregisterTurn, CloseTurn DEF Looks
<1> QED
  BY <1>1, <1>2, <1>3, <1>4, <1>5, <1>6 DEF Callback

LEMMA SentSteps ==
  ASSUME ProxyInv, DataInOrder, SentInOrder, [Next]_vars
  PROVE  SentInOrder'
<1> DEFINE P(s, p, o, b) == /\ InOrder(s)
                            /\ p \notin {"write_all", "closed"} /\ b => Len(s) = o
<1>0. \A q \in Reqs : P(sent[q], pc[q], wr[q].offset, wr[q].writable)
  BY DEF SentInOrder
<1>1. SUFFICES \A q \in Reqs : P(sent'[q], pc'[q], wr'[q].offset, wr'[q].writable)
  BY DEF SentInOrder, InOrder
<1>2. ASSUME NEW r \in Reqs, Callback(r) \/ ClientGone(r)
      PROVE  \A q \in Reqs : P(sent'[q], pc'[q], wr'[q].offset, wr'[q].writable)
  <2>1. \A q \in Reqs \ {r} : pc'[q] = pc[q] /\ wr'[q] = wr[q] /\ sent'[q] = sent[q]
    BY <1>2, CallbackTurn DEF Turns
  <2>2. P(sent'[r], pc'[r], wr'[r].offset, wr'[r].writable)
    <3>1. CASE ReadFound(r)
      <4>1. pc[r] = "rc_complete" /\ pc'[r] = "write_all" /\ sent'[r] = Cached(r).data
        BY <3>1, ReadFoundTurn
      <4>2. Found(KeyOf[r])
        BY <4>1 DEF ProxyInv, LookupsFind, LookupLabels
      <4>3. InOrder(Cached(r).data)
        BY <4>2, CachedType DEF DataInOrder, Cached
      <4> QED
        BY <4>1, <4>3
    <3>2. CASE SendChunk(r)
      <4>1. /\ pc[r] \in {"read_loading", "read_complete"} /\ pc'[r] = "loop"
            /\ wr[r].writable
            /\ \E end \in Nat :
                 /\ wr[r].offset < end /\ end <= Size(r) /\ wr'[r].offset = end
                 /\ sent'[r] = sent[r] \o SubSeq(Cached(r).data, wr[r].offset + 1, end)
        BY <3>2, SendChunkTurn
      <4>2. Found(KeyOf[r])
        BY <4>1 DEF ProxyInv, LookupsFind, LookupLabels
      <4>3. Cached(r).data \in Seq(Nat) /\ InOrder(Cached(r).data)
        BY <4>2, CachedType DEF DataInOrder, Cached
      <4>4. sent[r] \in Seq(Nat) /\ InOrder(sent[r]) /\ Len(sent[r]) = wr[r].offset
        BY <1>0, <4>1, RequestOf
      <4>5. PICK s, d : s = sent[r] /\ d = Cached(r).data
        OBVIOUS
      <4>6. PICK end \in Nat : /\ Len(s) < end /\ end <= Len(d) /\ wr'[r].offset = end
                               /\ sent'[r] = s \o SubSeq(d, Len(s) + 1, end)
        BY <4>1, <4>4, <4>5 DEF Size
      <4>7. /\ InOrder(s \o SubSeq(d, Len(s) + 1, end))
            /\ Len(s \o SubSeq(d, Len(s) + 1, end)) = end
        BY <4>3, <4>4, <4>5, <4>6, Continued
      <4>8. InOrder(sent'[r]) /\ Len(sent'[r]) = wr'[r].offset
        BY <4>6, <4>7, Zenon
      <4> QED
        BY <4>8
    <3>3. CASE SendRefused(r)
      BY <1>0, <3>3, SendRefusedTurn
    <3>4. CASE ~ReadFound(r) /\ ~SendChunk(r) /\ ~SendRefused(r)
      BY <1>0, <1>2, <3>4, NothingSent
    <3> QED
      BY <3>1, <3>2, <3>3, <3>4
  <2> HIDE DEF P
  <2> QED
    BY <1>0, <2>1, <2>2
<1>3. ASSUME NEW r \in Reqs, Worker(r) \/ LoadFailed(r)
      PROVE  \A q \in Reqs : P(sent'[q], pc'[q], wr'[q].offset, wr'[q].writable)
  <2>1. pc' = pc /\ sent' = sent
    BY <1>3, CacheSteps, WorkerTurn DEF Works
  <2>2. wr' = wr \/ Notify(r)
    BY <1>3 DEF Worker, StartLoad, write_callback, AppendChunk, NotifyAppended, LoadComplete,
                FinishLoad, NotifyFinished, CancelLoad, LoadFailed
  <2>3. \A q \in Reqs : wr'[q].offset = wr[q].offset /\ wr'[q].writable = wr[q].writable
    BY <2>2, NotifyTurn
  <2> HIDE DEF P
  <2> QED
    BY <1>0, <2>1, <2>3
<1>4. ASSUME UNCHANGED proxyVars
      PROVE  \A q \in Reqs : P(sent'[q], pc'[q], wr'[q].offset, wr'[q].writable)
  <2> HIDE DEF P
  <2> QED
    BY <1>0, <1>4 DEF proxyVars
<1> QED
  BY <1>2, <1>3, <1>4 DEF Next, Expire, Collect, vars

LEMMA NextStream ==
  ASSUME OneLoad, ProxyInv, StreamInv, [Next]_vars
  PROVE  StreamInv'
<1>1. OneWorkerEach /\ DataInOrder /\ SentInOrder /\ CacheNext
  BY CacheSteps DEF StreamInv
<1>2. SentInOrder'
  BY <1>1, SentSteps
<1>3. CASE \E r \in Reqs : StartLoad(r)
  BY <1>1, <1>2, <1>3, StartLoadStream DEF StreamInv
<1>4. CASE \E r \in Reqs : AppendChunk(r)
  BY <1>1, <1>2, <1>4, AppendStream DEF StreamInv
<1>5. CASE \A r \in Reqs : ~StartLoad(r) /\ ~AppendChunk(r)
  <2>1. DataKept
    BY <1>5, DataSteps
  <2>2. CASE \E r \in Reqs : read_client(r)
    BY <1>1, <1>2, <2>1, <2>2, ReadClientStream DEF StreamInv
  <2>3. CASE \A r \in Reqs : ~read_client(r)
    <3>1. TasksKept
      BY <1>5, <2>3, TaskSteps
    <3> QED
      BY <1>1, <1>2, <2>1, <3>1, StreamKept DEF StreamInv
  <2> QED
    BY <2>2, <2>3
<1> QED
  BY <1>3, <1>4, <1>5

LEMMA InitStream ==
  Init => StreamInv
<1> SUFFICES ASSUME Init PROVE StreamInv
  OBVIOUS
<1>1. /\ heap = <<>> /\ \A r \in Reqs : task[r] = NewTask /\ sent[r] = <<>> /\ wr[r] = NewWriteReq
  BY DEF Init, CacheInit
<1>2. NewTask.at = "none" /\ NewWriteReq.offset = 0
  BY DEF NewTask, NewWriteReq
<1>3. \A r \in Reqs : ~Started(r) /\ task[r].at # "queued"
  BY <1>1, <1>2 DEF Started
<1>4. DOMAIN heap = {} /\ \A r \in Reqs : DOMAIN sent[r] = {} /\ Len(sent[r]) = 0
  BY <1>1
<1> QED
  BY <1>1, <1>2, <1>3, <1>4 DEF StreamInv, OneWorkerEach, DataInOrder, SentInOrder, InOrder

\* What a client is sent is the resource from its start, in order and without gap or
\* repetition, if no key is requested while its load is still queued: then a queued
\* load finds no entry, every entry is filled by one worker, and the bytes of the
\* cache are as good as the origin's (send_next_chunk, read_client, cache_append_data).
\* Failures, expiry and the sharing of buckets do not matter.
THEOREM StreamsFaithful == OneLoad => (Spec => []StreamFaithful)
<1> SUFFICES ASSUME OneLoad PROVE Spec => []StreamFaithful
  OBVIOUS
<1> DEFINE Inv == ProxyInv /\ StreamInv
<1>1. Init => Inv
  BY InitProxyInv, InitStream
<1>2. Inv /\ [Next]_vars => Inv'
  BY NextProxyInv, NextStream
<1>3. Inv => StreamFaithful
  BY DEF StreamInv, SentInOrder, InOrder, StreamFaithful
<1> QED
  BY <1>1, <1>2, <1>3, PTL DEF Spec

-----------------------------------------------------------------------------
(* Entries stay in their buckets until they are freed *)

LEMMA KeptEntry ==
  ASSUME ProxyInv, KeptInCache, NEW e \in DOMAIN heap, ~heap[e].freed
  PROVE  Found(heap[e].key) /\ e = EntryOf(heap[e].key) /\ e \in Match(heap[e].key)
<1>1. CacheOK /\ heap[e].key \in Keys
  BY InvOf, Fields DEF CacheOK
<1>2. e \in Match(heap[e].key)
  BY DEF KeptInCache, Match
<1>3. Found(heap[e].key)
  BY <1>2 DEF Found
<1> QED
  BY <1>1, <1>2, <1>3, FoundEntry

LEMMA UpdateKeepsPlace ==
  ASSUME ProxyInv, KeptInCache, NEW e, NEW l, NEW d, NEW w, NEW x,
         Updated(e, l, d, w, x, heap[e].freed), UNCHANGED <<buckets, pending>>,
         x = FALSE \/ x = heap[e].expired \/ "expire" \in Faults
  PROVE  KeptInCache'
<1>1. ASSUME NEW g \in DOMAIN heap'
      PROVE  /\ g \in DOMAIN heap /\ heap'[g].key = heap[g].key
             /\ heap'[g].freed = heap[g].freed
             /\ heap'[g].expired => heap[g].expired \/ "expire" \in Faults
  BY DEF Updated
<1> QED
  BY <1>1 DEF KeptInCache

LEMMA FreeKeepsPlace ==
  ASSUME ProxyInv, KeptInCache, NEW b, NEW e, FreesOnly(b, e)
  PROVE  KeptInCache'
<1>0. CacheOK
  BY InvOf
<1>1. /\ DOMAIN heap' = DOMAIN heap /\ heap'[e].freed /\ heap'[e].expired = heap[e].expired
      /\ e \in DOMAIN heap /\ \A g \in DOMAIN heap : g # e => heap'[g] = heap[g]
      /\ \A g \in DOMAIN heap : heap'[g].key = heap[g].key
  BY DEF FreesOnly, Frees, Updated
<1>2. \A c \in Buckets : ToSet(buckets[c]) \ {e} \subseteq ToSet(buckets'[c])
  <2>1. ASSUME NEW c \in Buckets, c # b PROVE ToSet(buckets'[c]) = ToSet(buckets[c])
    BY <2>1 DEF FreesOnly, Frees
  <2>2. ToSet(buckets[b]) \ {e} \subseteq ToSet(buckets'[b])
    BY DEF FreesOnly
  <2> QED
    BY <2>1, <2>2
<1>3. ASSUME NEW g \in DOMAIN heap, ~heap'[g].freed
      PROVE  g \in ToSet(buckets'[Bucket[heap'[g].key]])
  <2>1. g # e /\ heap'[g] = heap[g] /\ ~heap[g].freed
    BY <1>1, <1>3
  <2>2. heap[g].key \in Keys /\ g \in ToSet(buckets[Bucket[heap[g].key]])
    BY <1>0, <2>1, Fields DEF KeptInCache, CacheOK
  <2>3. Bucket[heap[g].key] \in Buckets
    BY <2>2, BucketAssumption
  <2> QED
    BY <1>2, <2>1, <2>2, <2>3
<1> QED
  BY <1>1, <1>3 DEF KeptInCache

LEMMA CreateKeepsPlace ==
  ASSUME ProxyInv, KeptInCache, NEW k \in Keys, NEW e, Creates(k, e)
  PROVE  KeptInCache'
<1>0. CacheOK
  BY InvOf
<1> DEFINE new == create_entry(k, PendingWaiters(k))
<1>1. new.key = k /\ new.expired = FALSE
  BY DEF create_entry
<1> HIDE DEF new
<1>2. /\ DOMAIN heap' = DOMAIN heap \cup {e} /\ \A g \in DOMAIN heap : heap'[g] = heap[g]
      /\ heap'[e] = new
  BY DEF Creates, Grown, new
<1>3. \A c \in Buckets : ToSet(buckets[c]) \subseteq ToSet(buckets'[c])
  <2>1. ASSUME NEW c \in Buckets, c # Bucket[k] PROVE ToSet(buckets'[c]) = ToSet(buckets[c])
    BY <2>1 DEF Creates
  <2>2. ToSet(buckets'[Bucket[k]]) = {e} \cup ToSet(buckets[Bucket[k]])
    BY DEF Creates
  <2> QED
    BY <2>1, <2>2
<1>4. e \in ToSet(buckets'[Bucket[k]])
  BY DEF Creates
<1>5. ASSUME NEW g \in DOMAIN heap, ~heap[g].freed
      PROVE  g \in ToSet(buckets'[Bucket[heap[g].key]])
  <2>1. Bucket[heap[g].key] \in Buckets
    BY <1>0, Fields, BucketAssumption DEF CacheOK
  <2> QED
    BY <1>3, <1>5, <2>1 DEF KeptInCache
<1> QED
  BY <1>1, <1>2, <1>4, <1>5 DEF KeptInCache

\* What the collector frees has expired, and is alone in its bucket.
LEMMA CollectFreesOnly ==
  ASSUME ProxyInv, KeepsLoading, KeptInCache, NEW b \in Buckets, Collect(b)
  PROVE  \E e \in ToSet(buckets[b]) :
            FreesOnly(b, e) /\ ~heap[e].is_loading /\ heap[e].expired /\ e \in DOMAIN heap
<1>1. CacheOK /\ cache_clean_expired(b)
  BY InvOf DEF Collect
<1>2. PICK e \in ToSet(buckets[b]) : /\ ~heap[e].is_loading /\ heap[e].expired
                                     /\ SeparateBuckets => FreesOnly(b, e)
  BY <1>1, CollectStep
<1>3. e \in DOMAIN heap
  BY <1>1, InBucket
<1>4. SeparateBuckets
  BY <1>2, <1>3 DEF KeptInCache, KeepsLoading
<1> QED
  BY <1>2, <1>3, <1>4

LEMMA NextKept ==
  ASSUME KeepsLoading, ProxyInv, KeptInCache, [Next]_vars
  PROVE  KeptInCache'
<1>0. CacheOK /\ PendingOK /\ heap \in Seq(EntryType) /\ KeyOf \in [Reqs -> Keys]
  BY InvOf DEF CacheOK
<1>1. ASSUME Rests PROVE KeptInCache'
  BY <1>1 DEF KeptInCache, Rests
<1>2. ASSUME UNCHANGED <<heap, buckets>> PROVE KeptInCache'
  BY <1>2 DEF KeptInCache
<1>3. ASSUME NEW r \in Reqs, RegisterNotFound(r) \/ Register(r) PROVE KeptInCache'
  <2>1. cache_register_waiter(KeyOf[r], r) /\ KeyOf[r] \in Keys
    BY <1>0, <1>3 DEF RegisterNotFound, Register
  <2>2. CASE Found(KeyOf[r])
    <3>1. PICK e : e = EntryOf(KeyOf[r])
      OBVIOUS
    <3>2. PICK ws : ws = <<r>> \o heap[e].waiting_clients
      OBVIOUS
    <3>3. /\ Updated(e, heap[e].is_loading, heap[e].data, ws, heap[e].expired, heap[e].freed)
          /\ UNCHANGED <<buckets, pending>>
      BY <1>0, <2>1, <2>2, <3>1, <3>2, JoinStep
    <3> QED
      BY <3>3, UpdateKeepsPlace
  <2>3. CASE ~Found(KeyOf[r])
    BY <1>0, <1>2, <2>1, <2>3, AddStep
  <2> QED
    BY <2>2, <2>3
<1>4. ASSUME NEW r \in Reqs, Unregister(r) PROVE KeptInCache'
  <2>1. cache_unregister_waiter(KeyOf[r], r) /\ KeyOf[r] \in Keys
    BY <1>0, <1>4 DEF Unregister
  <2>2. CASE Found(KeyOf[r])
    <3>1. PICK e : e = EntryOf(KeyOf[r])
      OBVIOUS
    <3>2. PICK ws : ws = RemoveFirst(heap[e].waiting_clients, r)
      OBVIOUS
    <3>3. /\ Updated(e, heap[e].is_loading, heap[e].data, ws, heap[e].expired, heap[e].freed)
          /\ UNCHANGED <<buckets, pending>>
      BY <1>0, <2>1, <2>2, <3>1, <3>2, LeaveStep
    <3> QED
      BY <3>3, UpdateKeepsPlace
  <2>3. CASE ~Found(KeyOf[r])
    BY <1>2, <2>1, <2>3 DEF cache_unregister_waiter, cacheVars
  <2> QED
    BY <2>2, <2>3
<1>5. ASSUME NEW r \in Reqs, Callback(r) \/ ClientGone(r) PROVE KeptInCache'
  BY <1>1, <1>3, <1>4, <1>5, CallbackRests
<1>6. ASSUME NEW r \in Reqs, StartLoad(r) PROVE KeptInCache'
  <2>1. PICK e : cache_start_loading(KeyOf[r], e)
    BY <1>6 DEF StartLoad
  <2>2. KeyOf[r] \in Keys
    BY <1>0
  <2>3. UNCHANGED cacheVars \/ Creates(KeyOf[r], e)
    BY <1>0, <2>1, <2>2, CreateStep
  <2> QED
    BY <1>2, <2>2, <2>3, CreateKeepsPlace DEF cacheVars
<1>7. ASSUME NEW r \in Reqs, AppendChunk(r) PROVE KeptInCache'
  <2>1. /\ task[r].at = "append" /\ cache_append_data(task[r].entry, task[r].got + 1)
        /\ UNCHANGED <<buckets, pending>>
    BY <1>7 DEF AppendChunk, cache_append_data
  <2>2. task[r].entry \in DOMAIN heap /\ task[r].got + 1 \in Nat
    BY <2>1, WorkerEntry DEF Started
  <2> QED
    BY <1>0, <2>1, <2>2, AppendStep, UpdateKeepsPlace
<1>8. ASSUME NEW r \in Reqs, FinishLoad(r) PROVE KeptInCache'
  <2>1. /\ task[r].at = "finish" /\ cache_finish_loading(task[r].entry)
        /\ UNCHANGED <<buckets, pending>>
    BY <1>8 DEF FinishLoad, Work, cache_finish_loading
  <2>2. task[r].entry \in DOMAIN heap
    BY <2>1, WorkerEntry DEF Started
  <2> QED
    BY <1>0, <2>1, <2>2, FinishStep, UpdateKeepsPlace
<1>9. ASSUME NEW r \in Reqs, CancelLoad(r) PROVE KeptInCache'
  <2>1. cache_cancel_loading(PathOf[r]) /\ PathOf[r] \in Keys
    BY <1>9, ProxyAssumption DEF CancelLoad
  <2>2. UNCHANGED cacheVars \/ FreesOnly(Bucket[PathOf[r]], EntryOf(PathOf[r]))
    BY <1>0, <2>1, CancelStep
  <2> QED
    BY <1>2, <2>1, <2>2, FreeKeepsPlace DEF cacheVars
<1>10. ASSUME NEW r \in Reqs, Worker(r) \/ LoadFailed(r) PROVE KeptInCache'
  BY <1>2, <1>6, <1>7, <1>8, <1>9, <1>10 DEF Worker, write_callback, NotifyAppended,
     LoadComplete, NotifyFinished, LoadFailed, cacheVars
<1>11. ASSUME NEW e \in DOMAIN heap, Expire(e) PROVE KeptInCache'
  <2>1. /\ heap' = [heap EXCEPT ![e].expired = TRUE] /\ UNCHANGED <<buckets, pending>>
        /\ "expire" \in Faults
    BY <1>11 DEF Expire
  <2> QED
    BY <1>0, <2>1, ExpireStep, UpdateKeepsPlace
<1>12. ASSUME NEW b \in Buckets, Collect(b) PROVE KeptInCache'
  BY <1>12, CollectFreesOnly, FreeKeepsPlace
<1> QED
  BY <1>2, <1>5, <1>10, <1>11, <1>12 DEF Next, vars, cacheVars

LEMMA InitKept ==
  Init => KeptInCache
<1>1. Init => DOMAIN heap = {}
  BY DEF Init, CacheInit
<1> QED
  BY <1>1 DEF KeptInCache

-----------------------------------------------------------------------------
(* Waiters *)

Waits(q) == pc[q] \in {"loop", "recheck", "send"} /\ ~wr[q].async /\ ~wr[q].write_pending

\* No client begins or ends to wait, or is notified.
Calm(q) ==
    /\ wr'[q].did_register = wr[q].did_register
    /\ wr'[q].async => wr[q].async
    /\ wr[q].did_register /\ pc[q] \in Registered =>
          /\ pc'[q] \in Registered
          /\ pc[q] \notin {"close", "closed"} => pc'[q] \notin {"close", "closed"}
    /\ ~Found(KeyOf[q]) /\ wr[q].did_register /\ Waits(q) => Waits(q)'

LEMMA SameCalm ==
  ASSUME NEW q, pc'[q] = pc[q], wr'[q] = wr[q]
  PROVE  Calm(q)
BY DEF Calm, Waits

LEMMA CalmCallback ==
  ASSUME ProxyInv, NEW r \in Reqs, Callback(r) \/ ClientGone(r),
         ~RegisterNotFound(r), ~Register(r), ~Unregister(r)
  PROVE  \A q \in Reqs : Calm(q)
<1>1. ASSUME NEW q \in Reqs \ {r} PROVE Calm(q)
  <2>1. pc'[q] = pc[q] /\ wr'[q] = wr[q]
    BY CallbackTurn DEF Turns
  <2> QED
    BY <2>1, SameCalm
<1>2. CASE read_client(r)
  <2>1. Calm(r)
    BY <1>2, ReadClientTurn DEF Looks, Calm, Waits, Registered
  <2> QED
    BY <1>1, <2>1
<1>3. CASE send_next_chunk(r) \/ Recheck(r)
  <2>1. Calm(r)
    BY <1>3, LookAgainTurn DEF Looks, Calm, Waits, Registered
  <2> QED
    BY <1>1, <2>1
<1>4. CASE \/ ReadLoading(r) \/ SendNothingNew(r) \/ SendDone(r) \/ SendError(r)
           \/ RecheckRead(r)
  <2>1. Calm(r)
    BY <1>4, SecondHalfTurn DEF Looks, Calm, Waits, Registered
  <2> QED
    BY <1>1, <2>1
<1>5. CASE ReadFound(r)
  <2>1. pc[r] = "rc_complete" /\ wr'[r] = [wr[r] EXCEPT !.inflight = 1]
    BY <1>5, ReadFoundTurn
  <2>2. wr'[r].did_register = wr[r].did_register /\ wr'[r].async = wr[r].async
    BY <2>1, RequestOf DEF WriteReqType
  <2>3. Calm(r)
    BY <2>1, <2>2 DEF Calm, Waits, Registered
  <2> QED
    BY <1>1, <2>3
<1>6. CASE SendChunk(r) \/ SendRefused(r)
  <2>1. /\ pc[r] \in {"read_loading", "read_complete"} /\ pc'[r] = "loop"
        /\ wr'[r].did_register = wr[r].did_register /\ wr'[r].async = wr[r].async
    BY <1>6, SendChunkTurn, SendRefusedTurn
  <2>2. Calm(r)
    BY <2>1 DEF Calm, Waits, Registered
  <2> QED
    BY <1>1, <2>2
<1>7. CASE on_data_ready(r) \/ echo_write_buffer_load(r) \/ ClientGone(r) \/ echo_write(r)
  <2>1. Calm(r)
    BY <1>7, EventTurn DEF Calm, Waits, Registered
  <2> QED
    BY <1>1, <2>1
<1>8. CASE free_write_req(r)
  <2>1. Calm(r)
    BY <1>8, CloseTurn DEF Calm, Waits, Registered
  <2> QED
    BY <1>1, <2>1
<1> QED
  BY <1>2, <1>3, <1>4, <1>5, <1>6, <1>7, <1>8 DEF Callback

LEMMA InWaiters ==
  ASSUME heap \in Seq(EntryType), NEW e \in DOMAIN heap
  PROVE  ToSet(heap[e].waiting_clients) \subseteq Reqs
<1>1. heap[e].waiting_clients \in Seq(Reqs)
  BY Fields
<1>2. DOMAIN heap[e].waiting_clients = 1..Len(heap[e].waiting_clients)
  BY <1>1, LenProperties
<1> QED
  BY <1>1, <1>2, ElementOfSeq DEF ToSet

\* A pending request, its waiters and its bucket.
LEMMA InPendingWaiters ==
  ASSUME PendingOK, NEW b \in Buckets, NEW p \in ToSet(pending[b])
  PROVE  p.key \in Keys /\ p.waiters \in Seq(Reqs) /\ ToSet(p.waiters) \subseteq Reqs
<1>1. p \in PendingType
  BY InPending
<1>2. p.key \in Keys /\ p.waiters \in Seq(Reqs)
  BY <1>1 DEF PendingType
<1>3. DOMAIN p.waiters = 1..Len(p.waiters)
  BY <1>2, LenProperties
<1> QED
  BY <1>2, <1>3, ElementOfSeq DEF ToSet

LEMMA CalmRegistered ==
  ASSUME RegisterOnce, \A q \in Reqs : Calm(q)
  PROVE  RegisterOnce'
BY DEF RegisterOnce, Calm

\* Calm clients of a cache in which no list grows.
LEMMA CalmWaits ==
  ASSUME ProxyInv, WaitInv, \A q \in Reqs : Calm(q), pending' = pending,
         DOMAIN heap' = DOMAIN heap,
         \A g \in DOMAIN heap :
            /\ heap'[g].key = heap[g].key
            /\ \/ /\ heap'[g].waiting_clients = heap[g].waiting_clients
                  /\ heap'[g].freed = heap[g].freed
               \/ heap'[g].waiting_clients = <<>>,
         \A k \in Keys : Found(k)' => Found(k)
  PROVE  WaitInv'
<1>0. CacheOK /\ PendingOK /\ heap \in Seq(EntryType)
  BY InvOf DEF CacheOK
<1>1. RegisterOnce /\ WaitersOfEntries /\ PendingWaits
  BY DEF WaitInv
<1>2. RegisterOnce'
  BY <1>1, CalmRegistered
<1>3. ASSUME NEW g \in DOMAIN heap
      PROVE  /\ IsInjective(heap'[g].waiting_clients)
             /\ \A r \in ToSet(heap'[g].waiting_clients) :
                   /\ ~heap'[g].freed /\ KeyOf[r] = heap'[g].key
                   /\ wr'[r].did_register /\ pc'[r] \notin {"close", "closed"}
  <2>1. CASE /\ heap'[g].waiting_clients = heap[g].waiting_clients
             /\ heap'[g].freed = heap[g].freed
    <3>1. ToSet(heap[g].waiting_clients) \subseteq Reqs
      BY <1>0, InWaiters
    <3>2. /\ IsInjective(heap[g].waiting_clients)
          /\ \A r \in ToSet(heap[g].waiting_clients) :
                /\ ~heap[g].freed /\ KeyOf[r] = heap[g].key
                /\ wr[r].did_register /\ pc[r] \notin {"close", "closed"}
      BY <1>1 DEF WaitersOfEntries
    <3>3. \A r \in ToSet(heap[g].waiting_clients) :
             wr'[r].did_register /\ pc'[r] \notin {"close", "closed"}
      BY <1>1, <3>1, <3>2 DEF RegisterOnce, Calm
    <3> QED
      BY <2>1, <3>2, <3>3
  <2>2. CASE heap'[g].waiting_clients = <<>>
    <3>1. DOMAIN heap'[g].waiting_clients = {}
      BY <2>2
    <3> QED
      BY <3>1 DEF IsInjective, ToSet
  <2> QED
    BY <2>1, <2>2
<1>4. WaitersOfEntries'
  BY <1>3 DEF WaitersOfEntries
<1>5. ASSUME NEW b \in Buckets, NEW p \in ToSet(pending[b])
      PROVE  /\ Bucket[p.key] = b /\ ~Found(p.key)'
             /\ IsInjective(p.waiters)
             /\ \A r \in ToSet(p.waiters) :
                   /\ KeyOf[r] = p.key /\ wr'[r].did_register /\ Waits(r)'
  <2>1. p.key \in Keys /\ ToSet(p.waiters) \subseteq Reqs
    BY <1>0, InPendingWaiters
  <2>2. /\ Bucket[p.key] = b /\ ~Found(p.key) /\ IsInjective(p.waiters)
        /\ \A r \in ToSet(p.waiters) :
              KeyOf[r] = p.key /\ wr[r].did_register /\ Waits(r)
    BY <1>1 DEF PendingWaits, Waits
  <2>3. \A r \in ToSet(p.waiters) : wr'[r].did_register /\ Waits(r)'
    BY <2>1, <2>2 DEF Calm
  <2> QED
    BY <2>1, <2>2, <2>3
<1>6. PendingWaits'
  BY <1>5 DEF PendingWaits, Waits
<1> QED
  BY <1>2, <1>4, <1>6 DEF WaitInv

LEMMA PendingOf ==
  ASSUME PendingOK, WaitInv, NEW k \in Keys
  PROVE  /\ PendingWaiters(k) \in Seq(Reqs) /\ IsInjective(PendingWaiters(k))
         /\ \A q \in ToSet(PendingWaiters(k)) :
               q \in Reqs /\ KeyOf[q] = k /\ wr[q].did_register /\ Waits(q)
<1>1. CASE PendingAt(k) = {}
  <2>1. PendingWaiters(k) = <<>>
    BY <1>1 DEF PendingWaiters
  <2>2. DOMAIN PendingWaiters(k) = {}
    BY <2>1
  <2> QED
    BY <2>2, WaitersPending DEF IsInjective, ToSet
<1>2. CASE PendingAt(k) # {}
  <2>1. PICK p : p = pending[Bucket[k]][PendingIndex(k)]
    OBVIOUS
  <2>2. Bucket[k] \in Buckets
    BY BucketAssumption
  <2>3. p \in ToSet(pending[Bucket[k]]) /\ p.key = k /\ PendingWaiters(k) = p.waiters
    BY <1>2, <2>1, <2>2, WaitersPending, InPending DEF ToSet
  <2>4. /\ IsInjective(p.waiters)
        /\ \A q \in ToSet(p.waiters) : KeyOf[q] = p.key /\ wr[q].did_register /\ Waits(q)
    BY <2>2, <2>3 DEF WaitInv, PendingWaits, Waits
  <2>5. p.waiters \in Seq(Reqs) /\ ToSet(p.waiters) \subseteq Reqs
    BY <2>2, <2>3, InPendingWaiters
  <2> QED
    BY <2>3, <2>4, <2>5
<1> QED
  BY <1>1, <1>2

LEMMA RegisterWaits ==
  ASSUME ProxyInv, WaitInv, NEW r \in Reqs, RegisterNotFound(r) \/ Register(r)
  PROVE  WaitInv'
<1>0. CacheOK /\ PendingOK /\ heap \in Seq(EntryType) /\ KeyOf[r] \in Keys
  BY InvOf DEF CacheOK
<1>1. RegisterOnce /\ WaitersOfEntries /\ PendingWaits
  BY DEF WaitInv
<1>2. /\ Turns(r) /\ pc[r] \in {"register_new", "register"} /\ pc'[r] \in {"loop", "recheck"}
      /\ wr'[r].did_register /\ wr'[r].async = wr[r].async
      /\ ~wr'[r].write_pending /\ cache_register_waiter(KeyOf[r], r)
  BY RegisterTurn
<1>3. \A q \in Reqs \ {r} : pc'[q] = pc[q] /\ wr'[q] = wr[q]
  BY <1>2 DEF Turns
<1>4. ~wr[r].did_register /\ ~wr[r].async
  BY <1>1, <1>2 DEF RegisterOnce, Registered
<1>5. RegisterOnce'
  BY <1>1, <1>2, <1>3, <1>4 DEF RegisterOnce, Registered
<1>6. Waits(r)'
  BY <1>2, <1>4 DEF Waits
<1>7. ASSUME NEW g \in DOMAIN heap
      PROVE  /\ IsInjective(heap[g].waiting_clients) /\ r \notin ToSet(heap[g].waiting_clients)
             /\ \A q \in ToSet(heap[g].waiting_clients) :
                   /\ ~heap[g].freed /\ KeyOf[q] = heap[g].key
                   /\ wr'[q].did_register /\ pc'[q] \notin {"close", "closed"}
  <2>1. ToSet(heap[g].waiting_clients) \subseteq Reqs
    BY <1>0, InWaiters
  <2> QED
    BY <1>1, <1>3, <1>4, <2>1 DEF WaitersOfEntries
<1>8. ASSUME NEW b \in Buckets, NEW p \in ToSet(pending[b])
      PROVE  /\ Bucket[p.key] = b /\ ~Found(p.key) /\ IsInjective(p.waiters)
             /\ r \notin ToSet(p.waiters) /\ p.key \in Keys
             /\ \A q \in ToSet(p.waiters) : KeyOf[q] = p.key /\ wr'[q].did_register /\ Waits(q)'
  <2>1. p.key \in Keys /\ ToSet(p.waiters) \subseteq Reqs
    BY <1>0, InPendingWaiters
  <2> QED
    BY <1>1, <1>3, <1>4, <2>1 DEF PendingWaits, Waits
<1>9. CASE Found(KeyOf[r])
  <2>1. PICK e : e = EntryOf(KeyOf[r])
    OBVIOUS
  <2>2. e \in DOMAIN heap /\ heap[e].key = KeyOf[r] /\ ~heap[e].freed
    BY <1>0, <1>9, <2>1, FoundEntry
  <2>3. PICK ws : ws = <<r>> \o heap[e].waiting_clients
    OBVIOUS
  <2>4. /\ Updated(e, heap[e].is_loading, heap[e].data, ws, heap[e].expired, heap[e].freed)
        /\ buckets' = buckets /\ pending' = pending
    BY <1>0, <1>2, <1>9, <2>1, <2>3, JoinStep
  <2>5. IsInjective(ws) /\ ToSet(ws) = {r} \cup ToSet(heap[e].waiting_clients)
    <3>1. heap[e].waiting_clients \in Seq(Reqs)
      BY <1>0, <2>2, Fields
    <3> QED
      BY <1>7, <2>2, <2>3, <3>1, Pushed
  <2>6. /\ DOMAIN heap' = DOMAIN heap /\ heap'[e].waiting_clients = ws
        /\ heap'[e].freed = heap[e].freed /\ heap'[e].key = heap[e].key
        /\ \A g \in DOMAIN heap : g # e => heap'[g] = heap[g]
    BY <2>4 DEF Updated
  <2>7. WaitersOfEntries'
    <3> SUFFICES ASSUME NEW g \in DOMAIN heap
                 PROVE  /\ IsInjective(heap'[g].waiting_clients)
                        /\ \A q \in ToSet(heap'[g].waiting_clients) :
                              /\ ~heap'[g].freed /\ KeyOf[q] = heap'[g].key
                              /\ wr'[q].did_register /\ pc'[q] \notin {"close", "closed"}
      BY <2>6 DEF WaitersOfEntries
    <3>1. CASE g = e
      <4>1. \A q \in ToSet(ws) :
               /\ ~heap[e].freed /\ KeyOf[q] = heap[e].key
               /\ wr'[q].did_register /\ pc'[q] \notin {"close", "closed"}
        BY <1>2, <1>7, <2>2, <2>5
      <4> QED
        BY <2>5, <2>6, <3>1, <4>1
    <3>2. CASE g # e
      BY <1>7, <2>6, <3>2
    <3> QED
      BY <3>1, <3>2
  <2>8. \A k \in Keys : Match(k)' = Match(k)
    BY <1>0, <2>4, UpdateKeeps
  <2>9. PendingWaits'
    BY <1>8, <2>4, <2>8 DEF PendingWaits, Waits, Found
  <2> QED
    BY <1>5, <2>7, <2>9 DEF WaitInv
<1>10. CASE ~Found(KeyOf[r])
  <2> DEFINE k == KeyOf[r]
  <2>1. Added(k, r) /\ UNCHANGED <<heap, buckets>>
    BY <1>0, <1>2, <1>10, AddStep
  <2>2. WaitersOfEntries'
    BY <1>7, <2>1 DEF WaitersOfEntries
  <2>3. \A m \in Keys : Match(m)' = Match(m)
    BY <1>0, <2>1, NothingMoves
  <2>4. PICK ws : ws = <<r>> \o PendingWaiters(k)
    OBVIOUS
  <2>5. /\ PendingWaiters(k) \in Seq(Reqs) /\ IsInjective(PendingWaiters(k))
        /\ \A q \in ToSet(PendingWaiters(k)) :
              q \in Reqs /\ KeyOf[q] = k /\ wr[q].did_register /\ Waits(q)
    BY <1>0, PendingOf
  <2>6. r \notin ToSet(PendingWaiters(k))
    BY <1>4, <2>5
  <2>7. IsInjective(ws) /\ ToSet(ws) = {r} \cup ToSet(PendingWaiters(k))
    BY <2>4, <2>5, <2>6, Pushed
  <2>8. \A q \in ToSet(ws) : KeyOf[q] = k /\ wr'[q].did_register /\ Waits(q)'
    BY <1>2, <1>3, <1>6, <2>5, <2>6, <2>7 DEF Waits
  <2>9. PICK new : new = [key |-> k, waiters |-> ws]
    OBVIOUS
  <2>10. new.key = k /\ new.waiters = ws
    BY <2>9
  <2>11. /\ \A c \in Buckets : c # Bucket[k] => pending'[c] = pending[c]
         /\ ToSet(pending'[Bucket[k]]) \subseteq ToSet(pending[Bucket[k]]) \cup {new}
    BY <2>1, <2>4, <2>9 DEF Added
  <2>12. ASSUME NEW b \in Buckets, NEW p \in ToSet(pending'[b])
         PROVE  /\ Bucket[p.key] = b /\ ~Found(p.key)' /\ IsInjective(p.waiters)
                /\ \A q \in ToSet(p.waiters) :
                      KeyOf[q] = p.key /\ wr'[q].did_register /\ Waits(q)'
    <3>1. CASE p \in ToSet(pending[b])
      BY <1>8, <2>3, <3>1 DEF Found
    <3>2. CASE p = new /\ b = Bucket[k]
      <4>1. ~Found(k)'
        BY <1>0, <1>10, <2>3 DEF Found
      <4> QED
        BY <2>7, <2>8, <2>10, <3>2, <4>1
    <3> QED
      BY <2>11, <2>12, <3>1, <3>2
  <2>13. PendingWaits'
    BY <2>12 DEF PendingWaits, Waits
  <2> QED
    BY <1>5, <2>2, <2>13 DEF WaitInv
<1> QED
  BY <1>9, <1>10

LEMMA UnregisterWaits ==
  ASSUME ProxyInv, KeptInCache, WaitInv, NEW r \in Reqs, Unregister(r)
  PROVE  WaitInv'
<1>0. CacheOK /\ PendingOK /\ heap \in Seq(EntryType) /\ KeyOf[r] \in Keys
  BY InvOf DEF CacheOK
<1>1. RegisterOnce /\ WaitersOfEntries /\ PendingWaits
  BY DEF WaitInv
<1>2. Looks(r, "free", "close") /\ cache_unregister_waiter(KeyOf[r], r)
  BY UnregisterTurn
<1>3. /\ pc[r] = "free" /\ pc'[r] = "close" /\ wr'[r] = wr[r]
      /\ \A q \in Reqs \ {r} : pc'[q] = pc[q] /\ wr'[q] = wr[q]
  BY <1>2 DEF Looks, Turns
<1>4. RegisterOnce'
  BY <1>1, <1>3 DEF RegisterOnce, Registered
<1>5. ASSUME NEW g \in DOMAIN heap, NEW q \in ToSet(heap[g].waiting_clients)
      PROVE  /\ ~heap[g].freed /\ KeyOf[q] = heap[g].key /\ wr'[q].did_register
             /\ q # r => pc'[q] \notin {"close", "closed"}
             /\ q = r => Found(KeyOf[r]) /\ g = EntryOf(KeyOf[r])
  <2>1. ToSet(heap[g].waiting_clients) \subseteq Reqs
    BY <1>0, InWaiters
  <2>2. /\ ~heap[g].freed /\ KeyOf[q] = heap[g].key /\ wr[q].did_register
        /\ pc[q] \notin {"close", "closed"}
    BY <1>1 DEF WaitersOfEntries
  <2>3. q = r => Found(KeyOf[r]) /\ g = EntryOf(KeyOf[r])
    BY <2>2, KeptEntry
  <2> QED
    BY <1>3, <2>1, <2>2, <2>3
<1>6. ASSUME NEW b \in Buckets, NEW p \in ToSet(pending[b])
      PROVE  /\ Bucket[p.key] = b /\ ~Found(p.key) /\ IsInjective(p.waiters) /\ p.key \in Keys
             /\ \A q \in ToSet(p.waiters) : KeyOf[q] = p.key /\ wr'[q].did_register /\ Waits(q)'
  <2>1. p.key \in Keys /\ ToSet(p.waiters) \subseteq Reqs
    BY <1>0, InPendingWaiters
  <2>2. r \notin ToSet(p.waiters)
    BY <1>1, <1>3 DEF PendingWaits
  <2> QED
    BY <1>1, <1>3, <2>1, <2>2 DEF PendingWaits, Waits
<1>7. CASE Found(KeyOf[r])
  <2>1. PICK e : e = EntryOf(KeyOf[r])
    OBVIOUS
  <2>2. PICK ws : ws = RemoveFirst(heap[e].waiting_clients, r)
    OBVIOUS
  <2>3. /\ Updated(e, heap[e].is_loading, heap[e].data, ws, heap[e].expired, heap[e].freed)
        /\ buckets' = buckets /\ pending' = pending
    BY <1>0, <1>2, <1>7, <2>1, <2>2, LeaveStep
  <2>4. /\ DOMAIN heap' = DOMAIN heap /\ heap'[e].waiting_clients = ws /\ e \in DOMAIN heap
        /\ heap'[e].freed = heap[e].freed /\ heap'[e].key = heap[e].key
        /\ \A g \in DOMAIN heap : g # e => heap'[g] = heap[g]
    BY <2>3 DEF Updated
  <2>5. IsInjective(ws) /\ ToSet(ws) = ToSet(heap[e].waiting_clients) \ {r}
    <3>1. heap[e].waiting_clients \in Seq(Reqs) /\ IsInjective(heap[e].waiting_clients)
      BY <1>0, <1>1, <2>4, Fields DEF WaitersOfEntries
    <3> QED
      BY <2>2, <3>1, Unlinked
  <2>6. WaitersOfEntries'
    <3> SUFFICES ASSUME NEW g \in DOMAIN heap
                 PROVE  /\ IsInjective(heap'[g].waiting_clients)
                        /\ \A q \in ToSet(heap'[g].waiting_clients) :
                              /\ ~heap'[g].freed /\ KeyOf[q] = heap'[g].key
                              /\ wr'[q].did_register /\ pc'[q] \notin {"close", "closed"}
      BY <2>4 DEF WaitersOfEntries
    <3>1. CASE g = e
      BY <1>5, <2>4, <2>5, <3>1
    <3>2. CASE g # e
      <4>1. heap'[g] = heap[g] /\ IsInjective(heap[g].waiting_clients)
        BY <1>1, <2>4, <3>2 DEF WaitersOfEntries
      <4> QED
        BY <1>5, <2>1, <3>2, <4>1
    <3> QED
      BY <3>1, <3>2
  <2>7. \A k \in Keys : Match(k)' = Match(k)
    BY <1>0, <2>3, UpdateKeeps
  <2>8. PendingWaits'
    BY <1>6, <2>3, <2>7 DEF PendingWaits, Waits, Found
  <2> QED
    BY <1>4, <2>6, <2>8 DEF WaitInv
<1>8. CASE ~Found(KeyOf[r])
  <2>1. UNCHANGED <<heap, buckets, pending>>
    BY <1>2, <1>8 DEF cache_unregister_waiter, cacheVars
  <2>2. WaitersOfEntries'
    BY <1>1, <1>5, <1>8, <2>1 DEF WaitersOfEntries
  <2>3. \A k \in Keys : Match(k)' = Match(k)
    BY <1>0, <2>1, NothingMoves
  <2>4. PendingWaits'
    BY <1>6, <2>1, <2>3 DEF PendingWaits, Waits, Found
  <2> QED
    BY <1>4, <2>2, <2>4 DEF WaitInv
<1> QED
  BY <1>7, <1>8

LEMMA CreateWaits ==
  ASSUME ProxyInv, WaitInv, NEW k \in Keys, NEW e, Creates(k, e), pc' = pc, wr' = wr
  PROVE  WaitInv'
<1>0. CacheOK /\ PendingOK /\ heap \in Seq(EntryType)
  BY InvOf DEF CacheOK
<1>1. RegisterOnce /\ WaitersOfEntries /\ PendingWaits
  BY DEF WaitInv
<1>2. RegisterOnce'
  BY <1>1 DEF RegisterOnce
<1>3. /\ IsInjective(PendingWaiters(k))
      /\ \A q \in ToSet(PendingWaiters(k)) :
            q \in Reqs /\ KeyOf[q] = k /\ wr[q].did_register /\ Waits(q)
  BY <1>0, PendingOf
<1> DEFINE new == create_entry(k, PendingWaiters(k))
<1>4. new.key = k /\ new.waiting_clients = PendingWaiters(k) /\ new.freed = FALSE
  BY DEF create_entry
<1> HIDE DEF new
<1>5. /\ DOMAIN heap' = DOMAIN heap \cup {e} /\ \A g \in DOMAIN heap : heap'[g] = heap[g]
      /\ heap'[e] = new
  BY DEF Creates, Grown, new
<1>6. WaitersOfEntries'
  <2> SUFFICES ASSUME NEW g \in DOMAIN heap'
               PROVE  /\ IsInjective(heap'[g].waiting_clients)
                      /\ \A q \in ToSet(heap'[g].waiting_clients) :
                            /\ ~heap'[g].freed /\ KeyOf[q] = heap'[g].key
                            /\ wr'[q].did_register /\ pc'[q] \notin {"close", "closed"}
    BY DEF WaitersOfEntries
  <2>1. CASE g = e
    BY <1>3, <1>4, <1>5, <2>1 DEF Waits
  <2>2. CASE g \in DOMAIN heap
    BY <1>1, <1>5, <2>2 DEF WaitersOfEntries
  <2> QED
    BY <1>5, <2>1, <2>2
<1>7. \A m \in Keys : m # k => Match(m)' = Match(m)
  BY <1>0, CreateKeeps
<1>8. Dropped(k)
  BY <1>0, DropStep DEF Creates
<1>9. ASSUME NEW b \in Buckets, NEW p \in ToSet(pending'[b])
      PROVE  p \in ToSet(pending[b]) /\ p.key # k
  <2>1. CASE b = Bucket[k]
    BY <1>8, <1>9, <2>1 DEF Dropped
  <2>2. CASE b # Bucket[k]
    BY <1>1, <1>8, <1>9, <2>2 DEF Dropped, PendingWaits
  <2> QED
    BY <2>1, <2>2
<1>10. ASSUME NEW b \in Buckets, NEW p \in ToSet(pending'[b])
       PROVE  /\ Bucket[p.key] = b /\ ~Found(p.key)' /\ IsInjective(p.waiters)
              /\ \A q \in ToSet(p.waiters) :
                    KeyOf[q] = p.key /\ wr'[q].did_register /\ Waits(q)'
  <2>1. p \in ToSet(pending[b]) /\ p.key # k
    BY <1>9
  <2>2. p.key \in Keys
    BY <1>0, <2>1, InPendingWaiters
  <2>3. /\ Bucket[p.key] = b /\ ~Found(p.key) /\ IsInjective(p.waiters)
        /\ \A q \in ToSet(p.waiters) : KeyOf[q] = p.key /\ wr[q].did_register /\ Waits(q)
    BY <1>1, <2>1 DEF PendingWaits, Waits
  <2>4. ~Found(p.key)'
    BY <1>7, <2>1, <2>2, <2>3 DEF Found
  <2> QED
    BY <2>3, <2>4 DEF Waits
<1>11. PendingWaits'
  BY <1>10 DEF PendingWaits, Waits
<1> QED
  BY <1>2, <1>6, <1>11 DEF WaitInv

LEMMA NotifyWaits ==
  ASSUME ProxyInv, KeptInCache, WaitInv, NEW r \in Reqs, Started(r), Notify(r),
         pc' = pc, UNCHANGED cacheVars
  PROVE  WaitInv'
<1>0. /\ CacheOK /\ PendingOK /\ heap \in Seq(EntryType)
      /\ heap' = heap /\ buckets' = buckets /\ pending' = pending
  BY InvOf DEF CacheOK, cacheVars
<1>1. RegisterOnce /\ WaitersOfEntries /\ PendingWaits
  BY DEF WaitInv
<1>2. \A q \in Reqs :
         /\ wr'[q].did_register = wr[q].did_register
         /\ wr'[q].write_pending = wr[q].write_pending
         /\ wr'[q].async => wr[q].async \/ q \in ToSet(Entry(r).waiting_clients)
  BY NotifyTurn
<1>3. task[r].entry \in DOMAIN heap
  BY WorkerEntry
<1>4. \A q \in ToSet(Entry(r).waiting_clients) :
         q \in Reqs /\ wr[q].did_register /\ Found(KeyOf[q])
  <2>1. \A q \in ToSet(Entry(r).waiting_clients) :
           ~Entry(r).freed /\ KeyOf[q] = Entry(r).key /\ wr[q].did_register
    BY <1>1, <1>3 DEF WaitersOfEntries, Entry
  <2>2. ~Entry(r).freed => Found(Entry(r).key)
    BY <1>3, KeptEntry DEF Entry
  <2>3. ToSet(Entry(r).waiting_clients) \subseteq Reqs
    BY <1>0, <1>3, InWaiters DEF Entry
  <2> QED
    BY <2>1, <2>2, <2>3
<1>5. RegisterOnce'
  BY <1>1, <1>2, <1>4 DEF RegisterOnce
<1>6. WaitersOfEntries'
  <2>1. \A g \in DOMAIN heap : ToSet(heap[g].waiting_clients) \subseteq Reqs
    BY <1>0, InWaiters
  <2> QED
    BY <1>0, <1>1, <1>2, <2>1 DEF WaitersOfEntries
<1>7. \A k \in Keys : Match(k)' = Match(k)
  BY <1>0, NothingMoves
<1>8. ASSUME NEW b \in Buckets, NEW p \in ToSet(pending[b])
      PROVE  /\ Bucket[p.key] = b /\ ~Found(p.key)' /\ IsInjective(p.waiters)
             /\ \A q \in ToSet(p.waiters) :
                   KeyOf[q] = p.key /\ wr'[q].did_register /\ Waits(q)'
  <2>1. p.key \in Keys /\ ToSet(p.waiters) \subseteq Reqs
    BY <1>0, InPendingWaiters
  <2>2. /\ Bucket[p.key] = b /\ ~Found(p.key) /\ IsInjective(p.waiters)
        /\ \A q \in ToSet(p.waiters) : KeyOf[q] = p.key /\ wr[q].did_register /\ Waits(q)
    BY <1>1 DEF PendingWaits, Waits
  <2>3. \A q \in ToSet(p.waiters) : wr'[q].did_register /\ Waits(q)'
    BY <1>2, <1>4, <2>1, <2>2 DEF Waits
  <2> QED
    BY <1>7, <2>1, <2>2, <2>3 DEF Found
<1>9. PendingWaits'
  BY <1>0, <1>8 DEF PendingWaits, Waits
<1> QED
  BY <1>5, <1>6, <1>9 DEF WaitInv

LEMMA UpdateWaits ==
  ASSUME ProxyInv, WaitInv, \A q \in Reqs : Calm(q), NEW e, NEW l, NEW d, NEW x,
         Updated(e, l, d, heap[e].waiting_clients, x, heap[e].freed),
         UNCHANGED <<buckets, pending>>
  PROVE  WaitInv'
<1>1. \A k \in Keys : Match(k)' = Match(k)
  BY InvOf, UpdateKeeps
<1>2. /\ DOMAIN heap' = DOMAIN heap
      /\ \A g \in DOMAIN heap :
            /\ heap'[g].key = heap[g].key
            /\ heap'[g].waiting_clients = heap[g].waiting_clients
            /\ heap'[g].freed = heap[g].freed
  BY DEF Updated
<1>3. \A k \in Keys : Found(k)' => Found(k)
  BY <1>1 DEF Found
<1> QED
  BY <1>2, <1>3, CalmWaits

LEMMA FreeWaits ==
  ASSUME ProxyInv, WaitInv, \A q \in Reqs : Calm(q), NEW b, NEW e, Frees(b, e)
  PROVE  WaitInv'
<1>1. \A k \in Keys : Match(k)' \subseteq Match(k) \ {e}
  BY InvOf, FreeKeeps
<1>2. /\ DOMAIN heap' = DOMAIN heap /\ pending' = pending
      /\ \A g \in DOMAIN heap :
            /\ heap'[g].key = heap[g].key
            /\ \/ /\ heap'[g].waiting_clients = heap[g].waiting_clients
                  /\ heap'[g].freed = heap[g].freed
               \/ heap'[g].waiting_clients = <<>>
  BY DEF Frees, Updated
<1>3. \A k \in Keys : Found(k)' => Found(k)
  BY <1>1 DEF Found
<1> QED
  BY <1>2, <1>3, CalmWaits

LEMMA RestWaits ==
  ASSUME ProxyInv, WaitInv, \A q \in Reqs : Calm(q), Rests
  PROVE  WaitInv'
<1>1. \A k \in Keys : Match(k)' = Match(k)
  BY InvOf, RestKeeps
<1>2. /\ DOMAIN heap' = DOMAIN heap /\ pending' = pending
      /\ \A g \in DOMAIN heap :
            /\ heap'[g].key = heap[g].key
            /\ heap'[g].waiting_clients = heap[g].waiting_clients
            /\ heap'[g].freed = heap[g].freed
  BY DEF Rests
<1>3. \A k \in Keys : Found(k)' => Found(k)
  BY <1>1 DEF Found
<1> QED
  BY <1>2, <1>3, CalmWaits

LEMMA NextWaits ==
  ASSUME KeepsLoading, ProxyInv, KeptInCache, WaitInv, [Next]_vars
  PROVE  WaitInv'
<1>0. CacheOK /\ PendingOK /\ heap \in Seq(EntryType) /\ KeyOf \in [Reqs -> Keys]
  BY InvOf DEF CacheOK
<1>1. ASSUME NEW r \in Reqs, Callback(r) \/ ClientGone(r) PROVE WaitInv'
  <2>1. CASE RegisterNotFound(r) \/ Register(r)
    BY <2>1, RegisterWaits
  <2>2. CASE Unregister(r)
    BY <2>2, UnregisterWaits
  <2>3. CASE ~RegisterNotFound(r) /\ ~Register(r) /\ ~Unregister(r)
    BY <1>1, <2>3, CalmCallback, CallbackRests, RestWaits
  <2> QED
    BY <2>1, <2>2, <2>3
<1>2. ASSUME pc' = pc, wr' = wr PROVE \A q \in Reqs : Calm(q)
  BY <1>2, SameCalm
<1>3. ASSUME pc' = pc, wr' = wr, UNCHANGED cacheVars PROVE WaitInv'
  BY <1>0, <1>2, <1>3, SameRests, RestWaits
<1>4. ASSUME NEW r \in Reqs, StartLoad(r) PROVE WaitInv'
  <2>1. PICK e : cache_start_loading(KeyOf[r], e)
    BY <1>4 DEF StartLoad
  <2>2. KeyOf[r] \in Keys /\ pc' = pc /\ wr' = wr
    BY <1>0, <1>4 DEF StartLoad
  <2>3. UNCHANGED cacheVars \/ Creates(KeyOf[r], e)
    BY <1>0, <2>1, <2>2, CreateStep
  <2> QED
    BY <1>3, <2>2, <2>3, CreateWaits
<1>5. ASSUME NEW r \in Reqs, AppendChunk(r) PROVE WaitInv'
  <2>1. /\ task[r].at = "append" /\ cache_append_data(task[r].entry, task[r].got + 1)
        /\ UNCHANGED <<buckets, pending>> /\ pc' = pc /\ wr' = wr
    BY <1>5 DEF AppendChunk, cache_append_data
  <2>2. task[r].entry \in DOMAIN heap /\ task[r].got + 1 \in Nat
    BY <2>1, WorkerEntry DEF Started
  <2>3. \A q \in Reqs : Calm(q)
    BY <1>2, <2>1
  <2> QED
    BY <1>0, <2>1, <2>2, <2>3, AppendStep, UpdateWaits
<1>6. ASSUME NEW r \in Reqs, FinishLoad(r) PROVE WaitInv'
  <2>1. /\ task[r].at = "finish" /\ cache_finish_loading(task[r].entry)
        /\ UNCHANGED <<buckets, pending>> /\ pc' = pc /\ wr' = wr
    BY <1>6 DEF FinishLoad, Work, cache_finish_loading
  <2>2. task[r].entry \in DOMAIN heap
    BY <2>1, WorkerEntry DEF Started
  <2>3. \A q \in Reqs : Calm(q)
    BY <1>2, <2>1
  <2> QED
    BY <1>0, <2>1, <2>2, <2>3, FinishStep, UpdateWaits
<1>7. ASSUME NEW r \in Reqs, CancelLoad(r) PROVE WaitInv'
  <2>1. cache_cancel_loading(PathOf[r]) /\ PathOf[r] \in Keys /\ pc' = pc /\ wr' = wr
    BY <1>7, ProxyAssumption DEF CancelLoad, Work
  <2>2. UNCHANGED cacheVars \/ Frees(Bucket[PathOf[r]], EntryOf(PathOf[r]))
    BY <1>0, <2>1, CancelStep DEF FreesOnly
  <2> QED
    BY <1>2, <1>3, <2>1, <2>2, FreeWaits
<1>8. ASSUME NEW r \in Reqs, NotifyAppended(r) \/ NotifyFinished(r) PROVE WaitInv'
  <2>1. /\ task[r].at \in {"notify", "notify_end"} /\ Notify(r) /\ pc' = pc
        /\ UNCHANGED cacheVars
    BY <1>8 DEF NotifyAppended, NotifyFinished, Work
  <2>2. Started(r)
    BY <2>1 DEF Started
  <2> QED
    BY <2>1, <2>2, NotifyWaits
<1>9. ASSUME NEW r \in Reqs, Worker(r) \/ LoadFailed(r) PROVE WaitInv'
  BY <1>3, <1>4, <1>5, <1>6, <1>7, <1>8, <1>9 DEF Worker, write_callback, LoadComplete,
     LoadFailed, Work
<1>10. ASSUME NEW e \in DOMAIN heap, Expire(e) PROVE WaitInv'
  <2>1. /\ heap' = [heap EXCEPT ![e].expired = TRUE] /\ UNCHANGED <<buckets, pending>>
        /\ pc' = pc /\ wr' = wr
    BY <1>10 DEF Expire, proxyVars
  <2>2. \A q \in Reqs : Calm(q)
    BY <1>2, <2>1
  <2> QED
    BY <1>0, <2>1, <2>2, ExpireStep, UpdateWaits
<1>11. ASSUME NEW b \in Buckets, Collect(b) PROVE WaitInv'
  <2>1. pc' = pc /\ wr' = wr
    BY <1>11 DEF Collect, proxyVars
  <2>2. PICK e : Frees(b, e)
    BY <1>11, CollectFreesOnly DEF FreesOnly
  <2> QED
    BY <1>2, <2>1, <2>2, FreeWaits
<1> QED
  BY <1>1, <1>3, <1>9, <1>10, <1>11 DEF Next, vars, proxyVars

LEMMA InitWaits ==
  Init => WaitInv
<1> SUFFICES ASSUME Init PROVE WaitInv
  OBVIOUS
<1>1. /\ heap = <<>> /\ \A b \in Buckets : pending[b] = <<>>
      /\ \A r \in Reqs : wr[r] = NewWriteReq
  BY DEF Init, CacheInit
<1>2. ~NewWriteReq.did_register /\ ~NewWriteReq.async
  BY DEF NewWriteReq
<1>3. DOMAIN heap = {} /\ \A b \in Buckets : ToSet(pending[b]) = {}
  BY <1>1 DEF ToSet
<1> QED
  BY <1>1, <1>2, <1>3 DEF WaitInv, RegisterOnce, WaitersOfEntries, PendingWaits

\* A worker never signals the handle of a request that is being released: a request
\* that leaves has been unregistered from the entry of its key, and no other list can
\* hold it (free_write_req, cache_unregister_waiter), if the collector unlinks no entry
\* but those it frees.
THEOREM WaitersAlive == KeepsLoading => (Spec => []WaitersLive)
<1> SUFFICES ASSUME KeepsLoading PROVE Spec => []WaitersLive
  OBVIOUS
<1> DEFINE Inv == ProxyInv /\ KeptInCache /\ WaitInv
<1>1. Init => Inv
  BY InitProxyInv, InitKept, InitWaits
<1>2. Inv /\ [Next]_vars => Inv'
  BY NextProxyInv, NextKept, NextWaits
<1>3. Inv => WaitersLive
  <2> SUFFICES ASSUME Inv, NEW r \in ListedWaiters PROVE pc[r] \notin {"open", "close", "closed"}
    BY DEF WaitersLive
  <2>0. PendingOK /\ heap \in Seq(EntryType)
    BY InvOf DEF CacheOK
  <2>1. CASE \E e \in DOMAIN heap : r \in ToSet(heap[e].waiting_clients)
    <3>1. PICK e \in DOMAIN heap : r \in ToSet(heap[e].waiting_clients)
      BY <2>1
    <3>2. r \in Reqs
      BY <2>0, <3>1, InWaiters
    <3> QED
      BY <3>1, <3>2 DEF WaitInv, WaitersOfEntries, RegisterOnce, Registered
  <2>2. CASE \E b \in Buckets : \E p \in ToSet(pending[b]) : r \in ToSet(p.waiters)
    BY <2>2 DEF WaitInv, PendingWaits
  <2> QED
    BY <2>1, <2>2 DEF ListedWaiters
<1> QED
  BY <1>1, <1>2, <1>3, PTL DEF Spec

-----------------------------------------------------------------------------
(* Loads *)

Filling == {"recv", "append", "notify", "finish", "cancel"}

\* What LoadInv says of a worker at "at" with the entry e.
LoadsInto(at, e) ==
    /\ at \in Filling \cup {"notify_end"} => ~e.freed
    /\ at \in Filling => e.is_loading
    /\ at = "notify_end" => ~e.expired

LEMMA LoadInvIs ==
  LoadInv <=> \A r \in Reqs : LoadsInto(task[r].at, heap[task[r].entry])
BY DEF LoadInv, LoadsInto, Filling, WorkerActive, Entry

\* No worker turns to its entry, or begins.
WorkGoesOn(q) ==
    /\ task'[q].entry = task[q].entry
    /\ task'[q].at \in Filling => task[q].at \in Filling
    /\ task'[q].at = "notify_end" => task[q].at = "notify_end"

LEMMA FillingStarted ==
  ASSUME NEW q, task[q].at \in Filling \cup {"notify_end"}
  PROVE  Started(q)
BY DEF Started, Filling

\* An entry that stays as it is for the worker of q.
LEMMA LoadGoesOn ==
  ASSUME LoadInv, NEW q \in Reqs, WorkGoesOn(q),
         task[q].at \in Filling \cup {"notify_end"} =>
            /\ heap'[task[q].entry].freed = heap[task[q].entry].freed
            /\ heap'[task[q].entry].is_loading = heap[task[q].entry].is_loading
            /\ task[q].at = "notify_end" =>
                  (heap'[task[q].entry].expired => heap[task[q].entry].expired)
  PROVE  LoadsInto(task'[q].at, heap'[task'[q].entry])
<1>1. LoadsInto(task[q].at, heap[task[q].entry])
  BY LoadInvIs
<1>2. "notify_end" \notin Filling
  BY DEF Filling
<1> QED
  BY <1>1, <1>2 DEF LoadsInto, WorkGoesOn

\* Steps that change no entry in what matters here.
LEMMA LoadsKept ==
  ASSUME ProxyInv, LoadInv, \A q \in Reqs : WorkGoesOn(q),
         \A g \in DOMAIN heap :
            /\ heap'[g].freed = heap[g].freed /\ heap'[g].is_loading = heap[g].is_loading
            /\ heap'[g].expired => heap[g].expired
  PROVE  LoadInv'
<1>1. ASSUME NEW q \in Reqs PROVE LoadsInto(task'[q].at, heap'[task'[q].entry])
  <2>1. task[q].at \in Filling \cup {"notify_end"} => task[q].entry \in DOMAIN heap
    BY FillingStarted, WorkerEntry
  <2> QED
    BY <2>1, LoadGoesOn
<1> QED
  BY <1>1 DEF LoadInv, LoadsInto, Filling, WorkerActive, Entry

LEMMA CallbackGoesOn ==
  ASSUME ProxyInv, NEW r \in Reqs, Callback(r) \/ ClientGone(r)
  PROVE  \A q \in Reqs : WorkGoesOn(q)
<1>1. /\ Turns(r) /\ task'[r].entry = task[r].entry
      /\ task'[r].at = task[r].at \/ task'[r].at = "queued"
  BY CallbackTurn
<1>2. \A q \in Reqs \ {r} : task'[q] = task[q]
  BY <1>1 DEF Turns
<1> QED
  BY <1>1, <1>2 DEF WorkGoesOn, Filling

LEMMA CallbackLoads ==
  ASSUME ProxyInv, LoadInv, NEW r \in Reqs, Callback(r) \/ ClientGone(r)
  PROVE  LoadInv'
<1>0. CacheOK /\ PendingOK /\ KeyOf[r] \in Keys
  BY InvOf
<1>1. \A q \in Reqs : WorkGoesOn(q)
  BY CallbackGoesOn
<1>2. CASE RegisterNotFound(r) \/ Register(r)
  <2>1. cache_register_waiter(KeyOf[r], r)
    BY <1>2 DEF RegisterNotFound, Register
  <2>2. CASE Found(KeyOf[r])
    <3>1. PICK e : e = EntryOf(KeyOf[r])
      OBVIOUS
    <3>2. PICK ws : ws = <<r>> \o heap[e].waiting_clients
      OBVIOUS
    <3>3. Updated(e, heap[e].is_loading, heap[e].data, ws, heap[e].expired, heap[e].freed)
      BY <1>0, <2>1, <2>2, <3>1, <3>2, JoinStep
    <3>4. \A g \in DOMAIN heap :
             /\ heap'[g].freed = heap[g].freed /\ heap'[g].is_loading = heap[g].is_loading
             /\ heap'[g].expired = heap[g].expired
      BY <3>3 DEF Updated
    <3> QED
      BY <1>1, <3>4, LoadsKept
  <2>3. CASE ~Found(KeyOf[r])
    BY <1>0, <1>1, <2>1, <2>3, AddStep, LoadsKept
  <2> QED
    BY <2>2, <2>3
<1>3. CASE Unregister(r)
  <2>1. cache_unregister_waiter(KeyOf[r], r)
    BY <1>3 DEF Unregister
  <2>2. CASE Found(KeyOf[r])
    <3>1. PICK e : e = EntryOf(KeyOf[r])
      OBVIOUS
    <3>2. PICK ws : ws = RemoveFirst(heap[e].waiting_clients, r)
      OBVIOUS
    <3>3. Updated(e, heap[e].is_loading, heap[e].data, ws, heap[e].expired, heap[e].freed)
      BY <1>0, <2>1, <2>2, <3>1, <3>2, LeaveStep
    <3>4. \A g \in DOMAIN heap :
             /\ heap'[g].freed = heap[g].freed /\ heap'[g].is_loading = heap[g].is_loading
             /\ heap'[g].expired = heap[g].expired
      BY <3>3 DEF Updated
    <3> QED
      BY <1>1, <3>4, LoadsKept
  <2>3. CASE ~Found(KeyOf[r])
    BY <1>1, <2>1, <2>3, LoadsKept DEF cache_unregister_waiter, cacheVars
  <2> QED
    BY <2>2, <2>3
<1>4. CASE ~RegisterNotFound(r) /\ ~Register(r) /\ ~Unregister(r)
  <2>1. Rests
    BY <1>4, CallbackRests
  <2>2. \A g \in DOMAIN heap :
           /\ heap'[g].freed = heap[g].freed /\ heap'[g].is_loading = heap[g].is_loading
           /\ heap'[g].expired => heap[g].expired
    BY <2>1 DEF Rests
  <2> QED
    BY <1>1, <2>2, LoadsKept
<1> QED
  BY <1>2, <1>3, <1>4

LEMMA StartLoads ==
  ASSUME ProxyInv, OneWorkerEach, LoadInv, NEW r \in Reqs, StartLoad(r)
  PROVE  LoadInv'
<1>0. CacheOK /\ PendingOK /\ KeyOf[r] \in Keys
  BY InvOf
<1>1. PICK e, t : /\ cache_start_loading(KeyOf[r], e) /\ Works(r, t) /\ task[r].at = "queued"
                  /\ t.at = "recv" /\ t.entry = e
  BY CacheSteps, StartTurn DEF Next, Worker
<1>2. Creates(KeyOf[r], e)
  BY <1>0, <1>1, CreateStep DEF OneWorkerEach
<1>3. /\ \A g \in DOMAIN heap : heap'[g] = heap[g]
      /\ heap'[e] = create_entry(KeyOf[r], PendingWaiters(KeyOf[r]))
  BY <1>2 DEF Creates, Grown
<1>4. ~heap'[e].freed /\ heap'[e].is_loading
  BY <1>3 DEF create_entry
<1>5. task'[r] = t /\ \A q \in Reqs \ {r} : task'[q] = task[q]
  BY <1>1 DEF Works
<1>6. ASSUME NEW q \in Reqs PROVE LoadsInto(task'[q].at, heap'[task'[q].entry])
  <2>1. CASE q = r
    BY <1>1, <1>4, <1>5, <2>1 DEF LoadsInto
  <2>2. CASE q # r
    <3>1. task[q].at \in Filling \cup {"notify_end"} => task[q].entry \in DOMAIN heap
      BY FillingStarted, WorkerEntry
    <3>2. WorkGoesOn(q)
      BY <1>5, <2>2 DEF WorkGoesOn
    <3> QED
      BY <1>3, <3>1, <3>2, LoadGoesOn
  <2> QED
    BY <2>1, <2>2
<1> QED
  BY <1>6 DEF LoadInv, LoadsInto, Filling, WorkerActive, Entry

LEMMA FinishLoads ==
  ASSUME ProxyInv, OneWorkerEach, LoadInv, NEW r \in Reqs, FinishLoad(r)
  PROVE  LoadInv'
<1>0. CacheOK /\ heap \in Seq(EntryType) /\ CacheNext
  BY InvOf, CacheSteps DEF CacheOK, Next, Worker
<1>1. /\ Work(r, "finish", "notify_end") /\ cache_finish_loading(task[r].entry)
  BY DEF FinishLoad
<1>2. "notify_end" \in WorkerLabels /\ "notify_end" \notin Filling /\ "finish" \in Filling
  BY DEF WorkerLabels, Filling
<1>3. PICK to \in WorkerLabels : to = "notify_end"
  BY <1>2
<1>4. /\ Works(r, [task[r] EXCEPT !.at = to]) /\ task[r].at = "finish"
      /\ task'[r].at = to /\ task'[r].entry = task[r].entry
  BY <1>0, <1>1, <1>3, AtStep
<1>5. PICK e : e = task[r].entry
  OBVIOUS
<1>6. Started(r) /\ e \in DOMAIN heap
  BY <1>4, <1>5, WorkerEntry DEF Started
<1>7. Updated(e, FALSE, heap[e].data, heap[e].waiting_clients, FALSE, heap[e].freed)
  BY <1>0, <1>1, <1>5, <1>6, FinishStep
<1>8. /\ heap'[e].freed = heap[e].freed /\ heap'[e].expired = FALSE
      /\ \A g \in DOMAIN heap : g # e => heap'[g] = heap[g]
  BY <1>7 DEF Updated
<1>9. ~heap[e].freed
  BY <1>2, <1>4, <1>5, LoadInvIs DEF LoadsInto
<1>10. ASSUME NEW q \in Reqs PROVE LoadsInto(task'[q].at, heap'[task'[q].entry])
  <2>1. CASE q = r
    BY <1>2, <1>3, <1>4, <1>5, <1>8, <1>9, <2>1 DEF LoadsInto
  <2>2. CASE q # r
    <3>1. task'[q] = task[q]
      BY <1>4, <2>2 DEF Works
    <3>2. task[q].at \in Filling \cup {"notify_end"} =>
             task[q].entry \in DOMAIN heap /\ task[q].entry # e
      BY <1>5, <1>6, <2>2, FillingStarted, WorkerEntry DEF OneWorkerEach
    <3>3. WorkGoesOn(q)
      BY <3>1 DEF WorkGoesOn
    <3> QED
      BY <1>8, <3>2, <3>3, LoadGoesOn
  <2> QED
    BY <2>1, <2>2
<1> QED
  BY <1>10 DEF LoadInv, LoadsInto, Filling, WorkerActive, Entry

\* The entry e is freed, and no worker is at it any more.
LEMMA FreeLoads ==
  ASSUME ProxyInv, LoadInv, NEW b, NEW e, FreesOnly(b, e),
         \A q \in Reqs : WorkGoesOn(q) \/ task'[q].at = "done",
         \A q \in Reqs :
            task[q].at \in Filling \cup {"notify_end"} /\ task[q].entry = e
               => task'[q].at = "done"
  PROVE  LoadInv'
<1>1. \A g \in DOMAIN heap : g # e => heap'[g] = heap[g]
  BY DEF FreesOnly, Frees, Updated
<1>2. ASSUME NEW q \in Reqs PROVE LoadsInto(task'[q].at, heap'[task'[q].entry])
  <2>1. CASE task'[q].at = "done"
    BY <2>1 DEF LoadsInto, Filling
  <2>2. CASE task'[q].at # "done"
    <3>1. WorkGoesOn(q)
      BY <2>2
    <3>2. task[q].at \in Filling \cup {"notify_end"} =>
             task[q].entry \in DOMAIN heap /\ task[q].entry # e
      BY <2>2, FillingStarted, WorkerEntry
    <3> QED
      BY <1>1, <3>1, <3>2, LoadGoesOn
  <2> QED
    BY <2>1, <2>2
<1> QED
  BY <1>2 DEF LoadInv, LoadsInto, Filling, WorkerActive, Entry

LEMMA CancelLoads ==
  ASSUME ProxyInv, PathIsKey, KeptInCache, OneWorkerEach, LoadInv, NEW r \in Reqs,
         CancelLoad(r)
  PROVE  LoadInv'
<1>0. CacheOK /\ CacheNext /\ KeyOf[r] \in Keys
  BY InvOf, CacheSteps DEF Next, Worker
<1>1. Work(r, "cancel", "done") /\ cache_cancel_loading(KeyOf[r])
  BY DEF CancelLoad, PathIsKey
<1>2. PICK to \in WorkerLabels : to = "done"
  BY DEF WorkerLabels
<1>3. /\ Works(r, [task[r] EXCEPT !.at = to]) /\ task[r].at = "cancel"
      /\ task'[r].at = to /\ task'[r].entry = task[r].entry
  BY <1>0, <1>1, <1>2, AtStep
<1>4. \A q \in Reqs \ {r} : task'[q] = task[q]
  BY <1>3 DEF Works
<1>5. \A q \in Reqs : WorkGoesOn(q)
  BY <1>2, <1>3, <1>4 DEF WorkGoesOn, Filling
<1>6. CASE UNCHANGED cacheVars
  BY <1>5, <1>6, LoadsKept DEF cacheVars
<1>7. CASE FreesOnly(Bucket[KeyOf[r]], EntryOf(KeyOf[r]))
  <2>1. task[r].entry = EntryOf(KeyOf[r]) /\ Started(r)
    <3>1. Started(r)
      BY <1>3 DEF Started
    <3>2. task[r].entry \in DOMAIN heap /\ heap[task[r].entry].key = KeyOf[r]
      BY <3>1, WorkerEntry
    <3>3. ~heap[task[r].entry].freed
      BY <1>3, LoadInvIs DEF LoadsInto, Filling
    <3> QED
      BY <3>1, <3>2, <3>3, KeptEntry
  <2>2. \A q \in Reqs :
           task[q].at \in Filling \cup {"notify_end"} /\ task[q].entry = EntryOf(KeyOf[r])
              => task'[q].at = "done"
    BY <1>2, <1>3, <2>1, FillingStarted DEF OneWorkerEach
  <2> QED
    BY <1>5, <1>7, <2>2, FreeLoads
<1> QED
  BY <1>0, <1>1, <1>6, <1>7, CancelStep

\* The steps of a worker that do not touch the cache.
LEMMA PlainLoads ==
  ASSUME ProxyInv, LoadInv, NEW r \in Reqs,
         \/ write_callback(r) \/ NotifyAppended(r) \/ LoadComplete(r)
         \/ NotifyFinished(r) \/ LoadFailed(r)
  PROVE  LoadInv'
<1>0. CacheNext
  BY CacheSteps DEF Next, Worker
<1>1. UNCHANGED cacheVars
  BY DEF write_callback, NotifyAppended, LoadComplete, NotifyFinished, LoadFailed
<1>2. PICK from \in {"recv", "notify", "notify_end"},
           to \in {"append", "cancel", "recv", "finish", "done"} :
         Work(r, from, to) /\ (to # "done" => from # "notify_end")
  BY DEF write_callback, NotifyAppended, LoadComplete, NotifyFinished, LoadFailed
<1>3. to \in WorkerLabels /\ to # "notify_end" /\ (to \in Filling => from \in Filling)
  BY <1>2 DEF WorkerLabels, Filling
<1>4. /\ Works(r, [task[r] EXCEPT !.at = to]) /\ task[r].at = from
      /\ task'[r].at = to /\ task'[r].entry = task[r].entry
  BY <1>0, <1>2, <1>3, AtStep
<1>5. \A q \in Reqs \ {r} : task'[q] = task[q]
  BY <1>4 DEF Works
<1>6. \A q \in Reqs : WorkGoesOn(q)
  BY <1>3, <1>4, <1>5 DEF WorkGoesOn
<1> QED
  BY <1>1, <1>6, LoadsKept DEF cacheVars

LEMMA AppendLoads ==
  ASSUME ProxyInv, LoadInv, NEW r \in Reqs, AppendChunk(r)
  PROVE  LoadInv'
<1>0. CacheOK /\ heap \in Seq(EntryType) /\ CacheNext
  BY InvOf, CacheSteps DEF CacheOK, Next, Worker
<1>1. PICK t : /\ Works(r, t) /\ task[r].at = "append" /\ t.at = "notify"
               /\ t.entry = task[r].entry
  BY <1>0, AppendTurn
<1>2. task'[r] = t /\ \A q \in Reqs \ {r} : task'[q] = task[q]
  BY <1>1 DEF Works
<1>3. \A q \in Reqs : WorkGoesOn(q)
  BY <1>1, <1>2 DEF WorkGoesOn, Filling
<1>4. PICK e, c : e = task[r].entry /\ c = task[r].got + 1
  OBVIOUS
<1>5. Started(r) /\ e \in DOMAIN heap
  BY <1>1, <1>4, WorkerEntry DEF Started
<1>6. c \in Nat /\ cache_append_data(e, c)
  BY <1>4 DEF AppendChunk, ProxyInv, TypeOK
<1>7. Updated(e, heap[e].is_loading, Append(heap[e].data, c), heap[e].waiting_clients,
              FALSE, heap[e].freed)
  BY <1>0, <1>5, <1>6, AppendStep
<1>8. \A g \in DOMAIN heap :
         /\ heap'[g].freed = heap[g].freed /\ heap'[g].is_loading = heap[g].is_loading
         /\ heap'[g].expired => heap[g].expired
  BY <1>7 DEF Updated
<1> QED
  BY <1>3, <1>8, LoadsKept

LEMMA ExpireLoads ==
  ASSUME ProxyInv, LoadInv, NEW e \in DOMAIN heap, Expire(e)
  PROVE  LoadInv'
<1>0. heap \in Seq(EntryType)
  BY InvOf DEF CacheOK
<1>1. /\ task' = task /\ heap' = [heap EXCEPT ![e].expired = TRUE]
      /\ \A q \in Reqs : task[q].entry = e => task[q].at # "notify_end"
  BY DEF Expire, proxyVars
<1>2. Updated(e, heap[e].is_loading, heap[e].data, heap[e].waiting_clients, TRUE,
              heap[e].freed)
  BY <1>0, <1>1, ExpireStep
<1>3. \A g \in DOMAIN heap :
         /\ heap'[g].freed = heap[g].freed /\ heap'[g].is_loading = heap[g].is_loading
         /\ g # e => heap'[g].expired = heap[g].expired
  BY <1>2 DEF Updated
<1>4. ASSUME NEW q \in Reqs PROVE LoadsInto(task'[q].at, heap'[task'[q].entry])
  <2>1. task[q].at \in Filling \cup {"notify_end"} => task[q].entry \in DOMAIN heap
    BY FillingStarted, WorkerEntry
  <2>2. WorkGoesOn(q)
    BY <1>1 DEF WorkGoesOn
  <2> QED
    BY <1>1, <1>3, <2>1, <2>2, LoadGoesOn
<1> QED
  BY <1>4 DEF LoadInv, LoadsInto, Filling, WorkerActive, Entry

LEMMA CollectLoads ==
  ASSUME KeepsLoading, ProxyInv, KeptInCache, LoadInv, NEW b \in Buckets, Collect(b)
  PROVE  LoadInv'
<1>1. PICK e : FreesOnly(b, e) /\ ~heap[e].is_loading /\ heap[e].expired
  BY CollectFreesOnly
<1>2. \A q \in Reqs : WorkGoesOn(q)
  BY DEF Collect, proxyVars, WorkGoesOn
<1>3. \A q \in Reqs :
         ~(task[q].at \in Filling \cup {"notify_end"} /\ task[q].entry = e)
  BY <1>1, LoadInvIs DEF LoadsInto
<1> QED
  BY <1>1, <1>2, <1>3, FreeLoads

LEMMA NextLoads ==
  ASSUME KeepsLoading, PathIsKey, ProxyInv, OneWorkerEach, KeptInCache, LoadInv, [Next]_vars
  PROVE  LoadInv'
<1>1. ASSUME NEW r \in Reqs, Callback(r) \/ ClientGone(r) PROVE LoadInv'
  BY <1>1, CallbackLoads
<1>2. ASSUME NEW r \in Reqs, Worker(r) \/ LoadFailed(r) PROVE LoadInv'
  BY <1>2, StartLoads, PlainLoads, AppendLoads, FinishLoads, CancelLoads DEF Worker
<1>3. ASSUME NEW e \in DOMAIN heap, Expire(e) PROVE LoadInv'
  BY <1>3, ExpireLoads
<1>4. ASSUME NEW b \in Buckets, Collect(b) PROVE LoadInv'
  BY <1>4, CollectLoads
<1>5. CASE UNCHANGED vars
  <2>1. heap' = heap /\ task' = task
    BY <1>5 DEF vars, cacheVars, proxyVars
  <2> QED
    BY <2>1 DEF LoadInv, WorkerActive, Entry
<1> QED
  BY <1>1, <1>2, <1>3, <1>4, <1>5 DEF Next

LEMMA InitLoads ==
  Init => LoadInv
<1> SUFFICES ASSUME Init PROVE LoadInv
  OBVIOUS
<1>1. \A r \in Reqs : task[r].at = "none"
  BY DEF Init, NewTask
<1> QED
  BY <1>1 DEF LoadInv, WorkerActive

\* What LoadInv gives, with the cache that keeps its entries.
LEMMA LoadedEntry ==
  ASSUME ProxyInv, KeptInCache, LoadInv, NEW r \in Reqs, WorkerActive(r)
  PROVE  ~Entry(r).freed /\ task[r].entry \in Match(KeyOf[r])
<1>1. Started(r)
  BY DEF Started, WorkerActive
<1>2. /\ task[r].entry \in DOMAIN heap /\ heap[task[r].entry].key = KeyOf[r]
      /\ ~heap[task[r].entry].freed
  BY <1>1, WorkerEntry DEF LoadInv, Entry
<1> QED
  BY <1>2, KeptEntry DEF Entry

\* While a worker appends to its entry or finishes it, nothing frees or unlinks the
\* entry: neither its own client, which only asks it to stop, nor the collector,
\* nor the cancellation of another load.
THEOREM WorkersKeepEntries ==
  OneLoad /\ KeepsLoading /\ PathIsKey => (Spec => []EntryLive)
<1> SUFFICES ASSUME OneLoad, KeepsLoading, PathIsKey PROVE Spec => []EntryLive
  OBVIOUS
<1> DEFINE Inv == ProxyInv /\ StreamInv /\ KeptInCache /\ LoadInv
<1>1. Init => Inv
  BY InitProxyInv, InitStream, InitKept, InitLoads
<1>2. Inv /\ [Next]_vars => Inv'
  BY NextProxyInv, NextStream, NextKept, NextLoads DEF StreamInv
<1>3. Inv => EntryLive
  BY LoadedEntry DEF EntryLive, Match
<1> QED
  BY <1>1, <1>2, <1>3, PTL DEF Spec

\* A load that its worker reports as finished is in the cache, with every chunk that
\* the worker has received.
THEOREM LoadsArrive ==
  OneLoad /\ KeepsLoading /\ PathIsKey => (Spec => []LoadedIntoCache)
<1> SUFFICES ASSUME OneLoad, KeepsLoading, PathIsKey PROVE Spec => []LoadedIntoCache
  OBVIOUS
<1> DEFINE Inv == ProxyInv /\ StreamInv /\ KeptInCache /\ LoadInv
<1>1. Init => Inv
  BY InitProxyInv, InitStream, InitKept, InitLoads
<1>2. Inv /\ [Next]_vars => Inv'
  BY NextProxyInv, NextStream, NextKept, NextLoads DEF StreamInv
<1>3. Inv => LoadedIntoCache
  <2> SUFFICES ASSUME Inv, NEW r \in Reqs, task[r].at = "notify_end"
               PROVE  task[r].entry \in Match(KeyOf[r]) /\ Len(Entry(r).data) = task[r].got
    BY DEF LoadedIntoCache
  <2>1. WorkerActive(r) /\ Started(r)
    BY DEF WorkerActive, Started
  <2>2. ~Entry(r).freed /\ task[r].entry \in Match(KeyOf[r])
    BY <2>1, LoadedEntry
  <2> QED
    BY <2>1, <2>2 DEF StreamInv, DataInOrder
<1> QED
  BY <1>1, <1>2, <1>3, PTL DEF Spec

-----------------------------------------------------------------------------
(* When nothing fails *)

\* The client q can be notified.
LEMMA ListedIs ==
  ASSUME NEW q
  PROVE  /\ q \in ListedWaiters <=>
               \/ \E e \in DOMAIN heap : q \in ToSet(heap[e].waiting_clients)
               \/ \E b \in Buckets : \E p \in ToSet(pending[b]) : q \in ToSet(p.waiters)
         /\ q \in ListedWaiters' <=>
               \/ \E e \in DOMAIN heap' : q \in ToSet(heap'[e].waiting_clients)
               \/ \E b \in Buckets : \E p \in ToSet(pending'[b]) : q \in ToSet(p.waiters)
BY DEF ListedWaiters

\* No entry is lost or loaded again, and no client but those in S leaves the lists.
CacheGrows(S) ==
    /\ \A k \in Keys : Match(k) \subseteq Match(k)'
    /\ \A g \in DOMAIN heap : heap'[g].is_loading => heap[g].is_loading
    /\ \A g \in DOMAIN heap' : ~heap'[g].freed
    /\ \A q \in ListedWaiters : q \in S \/ q \in ListedWaiters'

NothingFreed == \A g \in DOMAIN heap : ~heap[g].freed

LEMMA UpdateGrows ==
  ASSUME ProxyInv, NothingFreed, NEW e, NEW l, NEW d, NEW ws, NEW x,
         Updated(e, l, d, ws, x, heap[e].freed), UNCHANGED <<buckets, pending>>,
         l = heap[e].is_loading \/ l = FALSE,
         NEW S, ToSet(heap[e].waiting_clients) \subseteq ToSet(ws) \cup S
  PROVE  CacheGrows(S)
<1>1. \A k \in Keys : Match(k)' = Match(k)
  BY InvOf, UpdateKeeps
<1>2. /\ DOMAIN heap' = DOMAIN heap /\ e \in DOMAIN heap
      /\ heap'[e].waiting_clients = ws /\ heap'[e].is_loading = l
      /\ heap'[e].freed = heap[e].freed
      /\ \A g \in DOMAIN heap : g # e => heap'[g] = heap[g]
  BY DEF Updated
<1>3. ASSUME NEW q \in ListedWaiters PROVE q \in S \/ q \in ListedWaiters'
  <2>1. CASE \E g \in DOMAIN heap : q \in ToSet(heap[g].waiting_clients)
    <3>1. PICK g \in DOMAIN heap : q \in ToSet(heap[g].waiting_clients)
      BY <2>1
    <3>2. q \in S \/ q \in ToSet(heap'[g].waiting_clients)
      BY <1>2, <3>1
    <3> QED
      BY <1>2, <3>2, ListedIs
  <2>2. CASE \E b \in Buckets : \E p \in ToSet(pending[b]) : q \in ToSet(p.waiters)
    BY <2>2, ListedIs
  <2> QED
    BY <1>3, <2>1, <2>2, ListedIs
<1> QED
  BY <1>1, <1>2, <1>3 DEF CacheGrows, NothingFreed

LEMMA RestGrows ==
  ASSUME ProxyInv, NothingFreed, Rests
  PROVE  CacheGrows({})
<1>1. \A k \in Keys : Match(k)' = Match(k)
  BY InvOf, RestKeeps
<1>2. /\ DOMAIN heap' = DOMAIN heap /\ pending' = pending
      /\ \A g \in DOMAIN heap :
            /\ heap'[g].waiting_clients = heap[g].waiting_clients
            /\ heap'[g].is_loading = heap[g].is_loading /\ heap'[g].freed = heap[g].freed
  BY DEF Rests
<1>3. \A q \in ListedWaiters : q \in ListedWaiters'
  BY <1>2, ListedIs
<1> QED
  BY <1>1, <1>2, <1>3 DEF CacheGrows, NothingFreed

\* A key has one pending list.
LEMMA PendingIs ==
  ASSUME PendingOK, NEW k \in Keys, Bucket[k] \in Buckets,
         NEW p \in ToSet(pending[Bucket[k]]), p.key = k
  PROVE  p.waiters = PendingWaiters(k)
<1>1. /\ DOMAIN pending[Bucket[k]] = 1..Len(pending[Bucket[k]])
      /\ \A x, y \in ToSet(pending[Bucket[k]]) : x.key = y.key => x = y
  BY InPending
<1>2. PendingAt(k) # {}
  BY DEF PendingAt, ToSet
<1>3. /\ pending[Bucket[k]][PendingIndex(k)].key = k
      /\ PendingIndex(k) \in 1..Len(pending[Bucket[k]])
      /\ PendingWaiters(k) = pending[Bucket[k]][PendingIndex(k)].waiters
  BY <1>2, WaitersPending
<1>4. pending[Bucket[k]][PendingIndex(k)] \in ToSet(pending[Bucket[k]])
  BY <1>1, <1>3 DEF ToSet
<1>5. p = pending[Bucket[k]][PendingIndex(k)]
  BY <1>1, <1>3, <1>4
<1> QED
  BY <1>3, <1>5

LEMMA RegisterGrows ==
  ASSUME ProxyInv, NothingFreed, NEW r \in Reqs, RegisterNotFound(r) \/ Register(r)
  PROVE  CacheGrows({}) /\ r \in ListedWaiters'
<1>0. CacheOK /\ PendingOK /\ heap \in Seq(EntryType) /\ KeyOf[r] \in Keys
  BY InvOf DEF CacheOK
<1>1. cache_register_waiter(KeyOf[r], r)
  BY RegisterTurn
<1>2. CASE Found(KeyOf[r])
  <2>1. PICK e : e = EntryOf(KeyOf[r])
    OBVIOUS
  <2>2. PICK ws : ws = <<r>> \o heap[e].waiting_clients
    OBVIOUS
  <2>3. /\ Updated(e, heap[e].is_loading, heap[e].data, ws, heap[e].expired, heap[e].freed)
        /\ UNCHANGED <<buckets, pending>>
    BY <1>0, <1>1, <1>2, <2>1, <2>2, JoinStep
  <2>4. /\ e \in DOMAIN heap /\ e \in DOMAIN heap' /\ heap'[e].waiting_clients = ws
    BY <2>3 DEF Updated
  <2>5. ToSet(ws) = {r} \cup ToSet(heap[e].waiting_clients)
    <3>1. heap[e].waiting_clients \in Seq(Reqs)
      BY <1>0, <2>4, Fields
    <3> QED
      BY <2>2, <3>1, Pushed
  <2>6. CacheGrows({})
    BY <2>3, <2>5, UpdateGrows
  <2>7. r \in ListedWaiters'
    BY <2>4, <2>5, ListedIs
  <2> QED
    BY <2>6, <2>7
<1>3. CASE ~Found(KeyOf[r])
  <2> DEFINE k == KeyOf[r]
  <2>1. Added(k, r) /\ UNCHANGED <<heap, buckets>>
    BY <1>0, <1>1, <1>3, AddStep
  <2>2. \A m \in Keys : Match(m)' = Match(m)
    BY <1>0, <2>1, NothingMoves
  <2>3. PICK ws, new : ws = <<r>> \o PendingWaiters(k) /\ new = [key |-> k, waiters |-> ws]
    OBVIOUS
  <2>4. PendingWaiters(k) \in Seq(Reqs)
    BY <1>0, WaitersPending
  <2>5. ToSet(ws) = {r} \cup ToSet(PendingWaiters(k)) /\ new.waiters = ws
    BY <2>3, <2>4, Pushed
  <2>6. /\ \A c \in Buckets : c # Bucket[k] => pending'[c] = pending[c]
        /\ ToSet(pending'[Bucket[k]]) =
              {p \in ToSet(pending[Bucket[k]]) : p.key # k} \cup {new}
    BY <2>1, <2>3 DEF Added
  <2>7. Bucket[k] \in Buckets
    BY <1>0, BucketAssumption
  <2>8. new \in ToSet(pending'[Bucket[k]])
    BY <2>6
  <2>9. r \in ListedWaiters'
    BY <2>5, <2>7, <2>8, ListedIs
  <2>10. ASSUME NEW q \in ListedWaiters PROVE q \in ListedWaiters'
    <3>1. CASE \E g \in DOMAIN heap : q \in ToSet(heap[g].waiting_clients)
      BY <2>1, <3>1, ListedIs
    <3>2. CASE \E b \in Buckets : \E p \in ToSet(pending[b]) : q \in ToSet(p.waiters)
      <4>0. PICK b \in Buckets : \E p \in ToSet(pending[b]) : q \in ToSet(p.waiters)
        BY <3>2
      <4>1. PICK p \in ToSet(pending[b]) : q \in ToSet(p.waiters)
        BY <4>0
      <4>2. CASE b = Bucket[k] /\ p.key = k
        <5>1. p.waiters = PendingWaiters(k)
          BY <1>0, <2>7, <4>2, PendingIs
        <5> QED
          BY <2>5, <2>7, <2>8, <4>1, <5>1, ListedIs
      <4>3. CASE b # Bucket[k] \/ p.key # k
        <5>1. p \in ToSet(pending'[b])
          BY <2>6, <4>3
        <5> QED
          BY <4>1, <5>1, ListedIs
      <4> QED
        BY <4>2, <4>3
    <3> QED
      BY <2>10, <3>1, <3>2, ListedIs
  <2> QED
    BY <2>1, <2>2, <2>9, <2>10 DEF CacheGrows, NothingFreed
<1> QED
  BY <1>2, <1>3

LEMMA UnregisterGrows ==
  ASSUME ProxyInv, NothingFreed, NEW r \in Reqs, Unregister(r)
  PROVE  CacheGrows({r})
<1>0. CacheOK /\ PendingOK /\ heap \in Seq(EntryType) /\ KeyOf[r] \in Keys
  BY InvOf DEF CacheOK
<1>1. cache_unregister_waiter(KeyOf[r], r)
  BY UnregisterTurn
<1>2. CASE Found(KeyOf[r])
  <2>1. PICK e : e = EntryOf(KeyOf[r])
    OBVIOUS
  <2>2. PICK ws : ws = RemoveFirst(heap[e].waiting_clients, r)
    OBVIOUS
  <2>3. /\ Updated(e, heap[e].is_loading, heap[e].data, ws, heap[e].expired, heap[e].freed)
        /\ UNCHANGED <<buckets, pending>>
    BY <1>0, <1>1, <1>2, <2>1, <2>2, LeaveStep
  <2>4. heap[e].waiting_clients \in Seq(Reqs)
    BY <1>0, <2>3, Fields DEF Updated
  <2>5. ToSet(heap[e].waiting_clients) \subseteq ToSet(ws) \cup {r}
    BY <2>2, <2>4, Unlinked
  <2> QED
    BY <2>3, <2>5, UpdateGrows
<1>3. CASE ~Found(KeyOf[r])
  <2>1. Rests
    BY <1>0, <1>1, <1>3, SameRests DEF cache_unregister_waiter
  <2> QED
    BY <2>1, RestGrows DEF CacheGrows
<1> QED
  BY <1>2, <1>3

LEMMA CreateGrows ==
  ASSUME SeparateBuckets, ProxyInv, NothingFreed, WaitInv, NEW k \in Keys, NEW e,
         Creates(k, e)
  PROVE  CacheGrows({})
<1>0. CacheOK /\ PendingOK /\ heap \in Seq(EntryType) /\ Bucket[k] \in Buckets
  BY InvOf, BucketAssumption DEF CacheOK
<1>1. /\ Match(k)' = {e} /\ \A m \in Keys : m # k => Match(m)' = Match(m)
  BY <1>0, CreateKeeps
<1>2. Match(k) = {}
  BY DEF Creates, Found
<1> DEFINE new == create_entry(k, PendingWaiters(k))
<1>3. new.waiting_clients = PendingWaiters(k) /\ new.freed = FALSE
  BY DEF create_entry
<1> HIDE DEF new
<1>4. /\ DOMAIN heap' = DOMAIN heap \cup {e} /\ \A g \in DOMAIN heap : heap'[g] = heap[g]
      /\ heap'[e] = new
  BY DEF Creates, Grown, new
<1>5. Dropped(k)
  BY <1>0, DropStep DEF Creates
<1>6. ASSUME NEW q \in ListedWaiters PROVE q \in ListedWaiters'
  <2>1. CASE \E g \in DOMAIN heap : q \in ToSet(heap[g].waiting_clients)
    BY <1>4, <2>1, ListedIs
  <2>2. CASE \E b \in Buckets : \E p \in ToSet(pending[b]) : q \in ToSet(p.waiters)
    <3>0. PICK b \in Buckets : \E p \in ToSet(pending[b]) : q \in ToSet(p.waiters)
      BY <2>2
    <3>1. PICK p \in ToSet(pending[b]) : q \in ToSet(p.waiters)
      BY <3>0
    <3>2. CASE b = Bucket[k]
      <4>1. p.key \in Keys /\ Bucket[p.key] = b
        BY <1>0, InPendingWaiters DEF WaitInv, PendingWaits
      <4>2. p.key = k
        BY <3>2, <4>1 DEF SeparateBuckets
      <4>3. p.waiters = PendingWaiters(k)
        BY <1>0, <3>2, <4>2, PendingIs
      <4> QED
        BY <1>3, <1>4, <3>1, <4>3, ListedIs
    <3>3. CASE b # Bucket[k]
      BY <1>5, <3>1, <3>3, ListedIs DEF Dropped
    <3> QED
      BY <3>2, <3>3
  <2> QED
    BY <1>6, <2>1, <2>2, ListedIs
<1> QED
  BY <1>1, <1>2, <1>3, <1>4, <1>6 DEF CacheGrows, NothingFreed

\* A load that is cancelled is complete, and its cancellation does nothing.
LEMMA CancelGrows ==
  ASSUME PathIsKey, ProxyInv, NothingFreed, StopsComplete, NEW r \in Reqs, CancelLoad(r)
  PROVE  CacheGrows({})
<1>0. CacheOK /\ KeyOf[r] \in Keys
  BY InvOf
<1>1. task[r].at = "cancel" /\ cache_cancel_loading(KeyOf[r])
  BY DEF CancelLoad, Work, PathIsKey
<1>2. PICK e \in Match(KeyOf[r]) : ~heap[e].is_loading
  BY <1>1 DEF StopsComplete, Complete
<1>3. Found(KeyOf[r])
  BY <1>2 DEF Found
<1>4. e = EntryOf(KeyOf[r])
  BY <1>0, <1>2, <1>3, FoundEntry
<1>5. UNCHANGED cacheVars
  BY <1>0, <1>1, <1>2, <1>4, CancelStep
<1> QED
  BY <1>0, <1>5, SameRests, RestGrows

LEMMA GrowSteps ==
  ASSUME Faults \subseteq {"read"}, SeparateBuckets, PathIsKey, ProxyInv, KeptInCache, WaitInv,
         NothingFreed, StopsComplete, [Next]_vars, \A r \in Reqs : ~Unregister(r)
  PROVE  CacheGrows({})
<1>0. CacheOK /\ PendingOK /\ heap \in Seq(EntryType) /\ KeyOf \in [Reqs -> Keys]
  BY InvOf DEF CacheOK
<1>1. ASSUME UNCHANGED cacheVars PROVE CacheGrows({})
  BY <1>0, <1>1, SameRests, RestGrows
<1>2. ASSUME NEW r \in Reqs, Callback(r) \/ ClientGone(r) PROVE CacheGrows({})
  BY <1>2, RegisterGrows, CallbackRests, RestGrows
<1>3. ASSUME NEW r \in Reqs, StartLoad(r) PROVE CacheGrows({})
  <2>1. PICK e : cache_start_loading(KeyOf[r], e)
    BY <1>3 DEF StartLoad
  <2>2. KeyOf[r] \in Keys
    BY <1>0
  <2>3. UNCHANGED cacheVars \/ Creates(KeyOf[r], e)
    BY <1>0, <2>1, <2>2, CreateStep
  <2> QED
    BY <1>1, <2>2, <2>3, CreateGrows
<1>4. ASSUME NEW r \in Reqs, AppendChunk(r) PROVE CacheGrows({})
  <2>1. /\ task[r].at = "append" /\ cache_append_data(task[r].entry, task[r].got + 1)
        /\ UNCHANGED <<buckets, pending>>
    BY <1>4 DEF AppendChunk, cache_append_data
  <2>2. task[r].entry \in DOMAIN heap /\ task[r].got + 1 \in Nat
    BY <2>1, WorkerEntry DEF Started
  <2> QED
    BY <1>0, <2>1, <2>2, AppendStep, UpdateGrows
<1>5. ASSUME NEW r \in Reqs, FinishLoad(r) PROVE CacheGrows({})
  <2>1. /\ task[r].at = "finish" /\ cache_finish_loading(task[r].entry)
        /\ UNCHANGED <<buckets, pending>>
    BY <1>5 DEF FinishLoad, Work, cache_finish_loading
  <2>2. task[r].entry \in DOMAIN heap
    BY <2>1, WorkerEntry DEF Started
  <2> QED
    BY <1>0, <2>1, <2>2, FinishStep, UpdateGrows
<1>6. ASSUME NEW r \in Reqs, Worker(r) \/ LoadFailed(r) PROVE CacheGrows({})
  BY <1>1, <1>3, <1>4, <1>5, <1>6, CancelGrows DEF Worker, write_callback, NotifyAppended,
     LoadComplete, NotifyFinished, LoadFailed
<1>7. ASSUME NEW b \in Buckets, Collect(b) PROVE FALSE
  <2>1. KeepsLoading
    BY DEF KeepsLoading
  <2>2. PICK e \in DOMAIN heap : heap[e].expired
    BY <1>7, <2>1, CollectFreesOnly
  <2> QED
    BY <2>2 DEF KeptInCache
<1> QED
  BY <1>1, <1>2, <1>6, <1>7 DEF Next, Expire, vars

\* Everywhere that StopsComplete speaks of.
StopLabels == {"rc_complete", "read_complete", "recheck_complete", "free", "close"}
Stops(q) == pc[q] \in StopLabels \/ task[q].should_stop \/ task[q].at = "cancel"

LEMMA StopsCompleteIs ==
  /\ StopsComplete <=> \A q \in Reqs : Stops(q) => Complete(KeyOf[q])
  /\ StopsComplete' <=> \A q \in Reqs : Stops(q)' => Complete(KeyOf[q])'
BY DEF StopsComplete, Stops, StopLabels

LEMMA CompleteKept ==
  ASSUME ProxyInv, NEW S, CacheGrows(S), NEW k \in Keys, Complete(k)
  PROVE  Complete(k)'
<1>1. PICK e \in Match(k) : ~heap[e].is_loading
  BY DEF Complete
<1>2. Bucket[k] \in Buckets /\ CacheOK
  BY InvOf, BucketAssumption
<1>3. e \in DOMAIN heap
  BY <1>1, <1>2, InBucket DEF Match
<1>4. e \in Match(k)' /\ ~heap'[e].is_loading
  BY <1>1, <1>3 DEF CacheGrows
<1> QED
  BY <1>4 DEF Complete

LEMMA FoundComplete ==
  ASSUME ProxyInv, NEW r \in Reqs, Found(KeyOf[r]), ~Cached(r).is_loading
  PROVE  Complete(KeyOf[r])
<1>1. CacheOK /\ KeyOf[r] \in Keys
  BY InvOf
<1>2. EntryOf(KeyOf[r]) \in Match(KeyOf[r])
  BY <1>1, FoundEntry
<1> QED
  BY <1>2 DEF Complete, Cached

LEMMA CallbackStops ==
  ASSUME Faults \subseteq {"read"}, ProxyInv, NEW r \in Reqs, Callback(r) \/ ClientGone(r), Stops(r)'
  PROVE  Stops(r) \/ Complete(KeyOf[r])
<1>1. /\ \/ task'[r].at = task[r].at
         \/ task'[r].at = "queued"
  BY CallbackTurn
<1>2. CASE read_client(r)
  <2>1. PICK t : t = [task[r] EXCEPT !.at = "queued"]
    OBVIOUS
  <2>2. t.should_stop = task[r].should_stop /\ t.at = "queued"
    BY <2>1, RequestOf DEF TaskType
  <2>3. task'[r] = task[r] \/ task'[r] = t
    BY <1>2, <2>1, ReadClientTurn
  <2>4. pc'[r] \in StopLabels => Found(KeyOf[r]) /\ ~Cached(r).is_loading
    BY <1>2, ReadClientTurn DEF Looks, StopLabels
  <2> QED
    BY <2>2, <2>3, <2>4, FoundComplete DEF Stops
<1>3. CASE send_next_chunk(r) \/ Recheck(r)
  <2>1. pc'[r] \in StopLabels => Found(KeyOf[r]) /\ ~Cached(r).is_loading
    BY <1>3, LookAgainTurn DEF Looks, StopLabels
  <2>2. task'[r] = task[r]
    BY <1>3, LookAgainTurn
  <2> QED
    BY <2>1, <2>2, FoundComplete DEF Stops
<1>4. CASE \/ ReadLoading(r) \/ SendNothingNew(r) \/ SendDone(r) \/ SendError(r)
           \/ RecheckRead(r)
  <2>1. pc'[r] \in StopLabels => pc[r] \in StopLabels
    BY <1>4, SecondHalfTurn DEF Looks, StopLabels
  <2>2. task'[r] = task[r]
    BY <1>4, SecondHalfTurn
  <2> QED
    BY <2>1, <2>2 DEF Stops
<1>5. CASE ReadFound(r)
  BY <1>5, ReadFoundTurn DEF Stops, StopLabels
<1>6. CASE SendChunk(r) \/ SendRefused(r)
  BY <1>6, SendChunkTurn, SendRefusedTurn DEF Stops, StopLabels
<1>7. CASE RegisterNotFound(r) \/ Register(r)
  BY <1>7, RegisterTurn DEF Stops, StopLabels
<1>8. CASE on_data_ready(r) \/ echo_write_buffer_load(r) \/ ClientGone(r) \/ echo_write(r)
  BY <1>8, EventTurn DEF Stops, StopLabels
<1>9. CASE Unregister(r)
  BY <1>9, UnregisterTurn DEF Looks, Stops, StopLabels
<1>10. CASE free_write_req(r)
  BY <1>10, CloseTurn DEF Stops, StopLabels
<1> QED
  BY <1>2, <1>3, <1>4, <1>5, <1>6, <1>7, <1>8, <1>9, <1>10 DEF Callback

\* A worker turns to the cancellation of its load in its write callback only.
LEMMA CancelOnly ==
  ASSUME Faults \subseteq {"read"}, ProxyInv, CacheNext, NEW r \in Reqs, Worker(r) \/ LoadFailed(r),
         task'[r].at = "cancel"
  PROVE  write_callback(r)
<1>1. ASSUME NEW from, NEW to \in WorkerLabels, Work(r, from, to) PROVE to = "cancel"
  BY <1>1, AtStep
<1>2. {"recv", "notify_end", "finish", "done"} \subseteq WorkerLabels
  BY DEF WorkerLabels
<1>3. ~NotifyAppended(r) /\ ~LoadComplete(r) /\ ~FinishLoad(r) /\ ~NotifyFinished(r)
  BY <1>1, <1>2 DEF NotifyAppended, LoadComplete, FinishLoad, NotifyFinished
<1>4. ~CancelLoad(r) /\ ~LoadFailed(r)
  BY <1>1, <1>2 DEF CancelLoad, LoadFailed
<1>5. ~StartLoad(r)
  <2> SUFFICES ASSUME StartLoad(r) PROVE FALSE
    OBVIOUS
  <2>1. PICK e, t : Works(r, t) /\ t.at = "recv"
    BY StartTurn
  <2> QED
    BY <2>1 DEF Works
<1>6. ~AppendChunk(r)
  <2> SUFFICES ASSUME AppendChunk(r) PROVE FALSE
    OBVIOUS
  <2>1. PICK t : Works(r, t) /\ t.at = "notify"
    BY AppendTurn
  <2> QED
    BY <2>1 DEF Works
<1> QED
  BY <1>3, <1>4, <1>5, <1>6 DEF Worker

LEMMA WorkerStops ==
  ASSUME Faults \subseteq {"read"}, ProxyInv, KeptInCache, NothingFreed, CacheNext, NEW r \in Reqs,
         Worker(r) \/ LoadFailed(r), Stops(r)'
  PROVE  Stops(r) \/ Complete(KeyOf[r])
<1>1. PICK t : Works(r, t) /\ t.should_stop = task[r].should_stop
  BY WorkerTurn
<1>2. /\ pc' = pc /\ task'[r].should_stop = task[r].should_stop
  BY <1>1 DEF Works
<1>3. CASE task'[r].at # "cancel"
  BY <1>2, <1>3 DEF Stops
<1>4. CASE task'[r].at = "cancel"
  <2>1. Started(r)
    BY <1>4, CancelOnly DEF write_callback, Work, Started
  <2>2. task[r].should_stop \/ ~Entry(r).is_loading
    <3>1. write_callback(r)
      BY <1>4, CancelOnly
    <3>2. CASE Work(r, "recv", "append")
      <4>1. PICK to \in WorkerLabels : to = "append"
        BY DEF WorkerLabels
      <4> QED
        BY <1>4, <3>2, <4>1, AtStep
    <3> QED
      BY <3>1, <3>2 DEF write_callback
  <2>3. CASE ~Entry(r).is_loading
    <3>1. task[r].entry \in DOMAIN heap /\ heap[task[r].entry].key = KeyOf[r]
      BY <2>1, WorkerEntry
    <3>2. task[r].entry \in Match(KeyOf[r])
      BY <3>1, KeptEntry DEF NothingFreed
    <3> QED
      BY <2>3, <3>2 DEF Complete, Entry
  <2> QED
    BY <2>2, <2>3 DEF Stops
<1> QED
  BY <1>3, <1>4

LEMMA NextStops ==
  ASSUME Faults \subseteq {"read"}, ProxyInv, KeptInCache, NothingFreed, StopsComplete, [Next]_vars,
         NEW S, CacheGrows(S)
  PROVE  StopsComplete'
<1>0. CacheNext /\ KeyOf \in [Reqs -> Keys]
  BY CacheSteps, InvOf
<1>1. \A q \in Reqs : Stops(q) => Complete(KeyOf[q])
  BY StopsCompleteIs
<1>2. ASSUME NEW q \in Reqs, Stops(q)' PROVE Stops(q) \/ Complete(KeyOf[q])
  <2>1. ASSUME NEW r \in Reqs, Callback(r) \/ ClientGone(r)
        PROVE  Stops(q) \/ Complete(KeyOf[q])
    <3>1. CASE q = r
      BY <1>2, <2>1, <3>1, CallbackStops
    <3>2. CASE q # r
      <4>1. pc'[q] = pc[q] /\ task'[q] = task[q]
        BY <2>1, <3>2, CallbackTurn DEF Turns
      <4> QED
        BY <1>2, <4>1 DEF Stops
    <3> QED
      BY <3>1, <3>2
  <2>2. ASSUME NEW r \in Reqs, Worker(r) \/ LoadFailed(r)
        PROVE  Stops(q) \/ Complete(KeyOf[q])
    <3>1. CASE q = r
      BY <1>0, <1>2, <2>2, <3>1, WorkerStops
    <3>2. CASE q # r
      <4>1. PICK t : Works(r, t)
        BY <1>0, <2>2, WorkerTurn
      <4>2. pc'[q] = pc[q] /\ task'[q] = task[q]
        BY <3>2, <4>1 DEF Works
      <4> QED
        BY <1>2, <4>2 DEF Stops
    <3> QED
      BY <3>1, <3>2
  <2>3. CASE pc' = pc /\ task' = task
    BY <1>2, <2>3 DEF Stops
  <2> QED
    BY <2>1, <2>2, <2>3 DEF Next, Expire, Collect, vars, proxyVars
<1>3. \A q \in Reqs : Stops(q)' => Complete(KeyOf[q])'
  BY <1>0, <1>1, <1>2, CompleteKept
<1> QED
  BY <1>3, StopsCompleteIs

\* A client that is not registered anew and does not leave stays where it is listed.
LEMMA StaysListed ==
  ASSUME RegisteredIsListed, NEW S, CacheGrows(S), NEW q \in Reqs, q \notin S,
         wr'[q].did_register = wr[q].did_register,
         pc[q] \in {"close", "closed"} => pc'[q] \in {"close", "closed"},
         wr'[q].did_register, pc'[q] \notin {"close", "closed"}
  PROVE  q \in ListedWaiters'
BY DEF RegisteredIsListed, CacheGrows

LEMMA ClosingStays ==
  ASSUME ProxyInv, NEW r \in Reqs, Callback(r) \/ ClientGone(r), pc[r] \in {"close", "closed"}
  PROVE  pc'[r] \in {"close", "closed"}
<1>1. free_write_req(r)
  BY DEF Callback, ClientGone, read_client, ReadFound, ReadLoading, send_next_chunk,
     SendChunk, SendRefused, ReadError, SendNothingNew, SendDone, SendError,
     RegisterNotFound, Register, Recheck, RecheckRead, on_data_ready,
     echo_write_buffer_load, echo_write, Unregister, WriteError, Lookup, Step
<1> QED
  BY <1>1, CloseTurn

LEMMA NextListed ==
  ASSUME ProxyInv, NothingFreed, RegisteredIsListed, [Next]_vars,
         (\A r \in Reqs : ~Unregister(r)) => CacheGrows({})
  PROVE  RegisteredIsListed'
<1>0. CacheNext
  BY CacheSteps
<1> SUFFICES ASSUME NEW q \in Reqs, wr'[q].did_register, pc'[q] \notin {"close", "closed"}
             PROVE  q \in ListedWaiters'
  BY DEF RegisteredIsListed
<1>1. CASE \E r \in Reqs : Unregister(r)
  <2>1. PICK r \in Reqs : Unregister(r)
    BY <1>1
  <2>2. Looks(r, "free", "close") /\ CacheGrows({r})
    BY <2>1, UnregisterTurn, UnregisterGrows
  <2>3. q # r /\ pc'[q] = pc[q] /\ wr'[q] = wr[q]
    BY <2>2 DEF Looks, Turns
  <2> QED
    BY <2>2, <2>3, StaysListed
<1>2. CASE \A r \in Reqs : ~Unregister(r)
  <2>1. CacheGrows({})
    BY <1>2
  <2>2. ASSUME NEW r \in Reqs, Callback(r) \/ ClientGone(r) PROVE q \in ListedWaiters'
    <3>1. CASE q # r
      <4>1. pc'[q] = pc[q] /\ wr'[q] = wr[q]
        BY <2>2, <3>1, CallbackTurn DEF Turns
      <4> QED
        BY <2>1, <4>1, StaysListed
    <3>2. CASE q = r /\ (RegisterNotFound(r) \/ Register(r))
      BY <3>2, RegisterGrows
    <3>3. CASE q = r /\ ~RegisterNotFound(r) /\ ~Register(r)
      <4>1. wr'[q].did_register = wr[q].did_register
        BY <1>2, <2>2, <3>3, CalmCallback DEF Calm
      <4>2. pc[q] \in {"close", "closed"} => pc'[q] \in {"close", "closed"}
        BY <2>2, <3>3, ClosingStays
      <4> QED
        BY <2>1, <4>1, <4>2, StaysListed
    <3> QED
      BY <3>1, <3>2, <3>3
  <2>3. ASSUME pc' = pc, wr'[q].did_register = wr[q].did_register PROVE q \in ListedWaiters'
    BY <2>1, <2>3, StaysListed
  <2>4. ASSUME NEW r \in Reqs, Worker(r) \/ LoadFailed(r) PROVE q \in ListedWaiters'
    <3>1. PICK t : Works(r, t)
      BY <1>0, <2>4, WorkerTurn
    <3>2. pc' = pc
      BY <3>1 DEF Works
    <3>3. CASE Notify(r)
      BY <2>3, <3>2, <3>3, NotifyTurn
    <3>4. CASE wr' = wr
      BY <2>3, <3>2, <3>4
    <3> QED
      BY <2>4, <3>3, <3>4 DEF Worker, StartLoad, write_callback, AppendChunk, NotifyAppended,
         LoadComplete, FinishLoad, NotifyFinished, CancelLoad, LoadFailed
  <2>5. CASE pc' = pc /\ wr' = wr
    BY <2>3, <2>5
  <2> QED
    BY <2>2, <2>4, <2>5 DEF Next, Expire, Collect, vars, proxyVars
<1> QED
  BY <1>1, <1>2

LEMMA NextLists ==
  ASSUME Faults \subseteq {"read"}, SeparateBuckets, PathIsKey, ProxyInv, KeptInCache, WaitInv,
         ListInv, [Next]_vars
  PROVE  ListInv'
<1>1. NothingFreed /\ StopsComplete /\ RegisteredIsListed
  BY DEF ListInv, NothingFreed
<1>2. PICK S : CacheGrows(S)
  BY <1>1, GrowSteps, UnregisterGrows
<1>3. (\A r \in Reqs : ~Unregister(r)) => CacheGrows({})
  BY <1>1, GrowSteps
<1>4. StopsComplete'
  BY <1>1, <1>2, NextStops
<1>5. RegisteredIsListed'
  BY <1>1, <1>3, NextListed
<1>6. \A e \in DOMAIN heap' : ~heap'[e].freed
  BY <1>2 DEF CacheGrows
<1> QED
  BY <1>4, <1>5, <1>6 DEF ListInv

LEMMA InitLists ==
  Init => ListInv
<1> SUFFICES ASSUME Init PROVE ListInv
  OBVIOUS
<1>1. /\ heap = <<>> /\ \A r \in Reqs : /\ pc[r] = "open" /\ task[r] = NewTask
                                        /\ wr[r] = NewWriteReq
  BY DEF Init, CacheInit
<1>2. /\ NewTask.at = "none" /\ ~NewTask.should_stop /\ ~NewWriteReq.did_register
  BY DEF NewTask, NewWriteReq
<1> QED
  BY <1>1, <1>2 DEF ListInv, StopsComplete, RegisteredIsListed

\* When no load fails, no completion of a write reports an error and nothing expires
\* (reading from clients may fail, and their next writes be refused), a client that was
\* told to wait for notifications stays in a list of the cache until it leaves, whatever
\* registrations, lookups and loads come between: the entry that is created takes over
\* the pending waiters, and a load is only ever cancelled when it is complete
\* (cache_register_waiter, cache_start_loading, cache_cancel_loading).
THEOREM WaitersStayListed ==
  Faults \subseteq {"read"} /\ SeparateBuckets /\ PathIsKey => (Spec => []RegisteredIsListed)
<1> SUFFICES ASSUME Faults \subseteq {"read"}, SeparateBuckets, PathIsKey
             PROVE  Spec => []RegisteredIsListed
  OBVIOUS
<1>0. KeepsLoading
  BY DEF KeepsLoading
<1> DEFINE Inv == ProxyInv /\ KeptInCache /\ WaitInv /\ ListInv
<1>1. Init => Inv
  BY InitProxyInv, InitKept, InitWaits, InitLists
<1>2. Inv /\ [Next]_vars => Inv'
  BY <1>0, NextProxyInv, NextKept, NextWaits, NextLists
<1>3. Inv => RegisteredIsListed
  BY DEF ListInv
<1> QED
  BY <1>1, <1>2, <1>3, PTL DEF Spec
=============================================================================
