-------------------------------- MODULE Cache --------------------------------
(***************************************************************************)
(* The response cache of the proxy, proxy/src/cache/cache.c.               *)
(*                                                                         *)
(* The cache is an array of buckets.  A bucket has a mutex, a list of      *)
(* entries and a list of pending waiters: clients that registered for a    *)
(* key that has no entry yet.  An entry has the bytes received so far, the *)
(* flag is_loading and the list of clients to notify.                      *)
(*                                                                         *)
(* "heap" holds every entry ever allocated, in order, so that an entry is  *)
(* named by its address after it has been freed too; "buckets" and         *)
(* "pending" are the linked lists, from their heads.  The bytes are chunks *)
(* (one call of curl's write callback each), numbered by their place in    *)
(* the resource.                                                           *)
(*                                                                         *)
(* The operators below are the bodies of the functions.  All but           *)
(* cache_append_data, cache_finish_loading and the notification run under  *)
(* the bucket's mutex and are atomic to each other; who holds that mutex   *)
(* is the business of the caller (module Proxy).                           *)
(***************************************************************************)
EXTENDS Naturals, SequencesExt

CONSTANTS
    Keys,         \* cache keys: path with the Referer appended
    Buckets,
    Bucket        \* cache_hash: the bucket of a key

ASSUME BucketAssumption == Bucket \in [Keys -> Buckets]

VARIABLES heap, buckets, pending

cacheVars == <<heap, buckets, pending>>

\* cache_init: every bucket is empty (calloc clears the pending list).
CacheInit ==
    /\ heap = <<>>
    /\ buckets = [b \in Buckets |-> <<>>]
    /\ pending = [b \in Buckets |-> <<>>]

\* The walk along a bucket's list, which stops at the entry with the key.
Match(k) == {e \in ToSet(buckets[Bucket[k]]) : heap[e].key = k}
Found(k) == Match(k) # {}
EntryOf(k) == CHOOSE e \in Match(k) : TRUE

\* create_entry; "expired" says that last_accessed + default_ttl has passed.
create_entry(k, waiters) ==
    [key |-> k, is_loading |-> TRUE, data |-> <<>>, waiting_clients |-> waiters,
     expired |-> FALSE, freed |-> FALSE]

\* last_accessed = time(NULL)
Touch(e) == [heap EXCEPT ![e].expired = FALSE]

\* free_entry frees the waiters of the entry with it; nobody is notified.
free_entry(e) ==
    [heap EXCEPT ![e] = [@ EXCEPT !.freed = TRUE, !.data = <<>>, !.waiting_clients = <<>>]]

-----------------------------------------------------------------------------
PendingAt(k) == {n \in DOMAIN pending[Bucket[k]] : pending[Bucket[k]][n].key = k}
PendingIndex(k) == CHOOSE n \in PendingAt(k) : TRUE

\* Mutant: the new entry starts without waiters.
PendingWaitersForgotten(k) == <<>>

PendingWaiters(k) ==
    IF PendingAt(k) = {} THEN <<>> ELSE pending[Bucket[k]][PendingIndex(k)].waiters

\* The unlinking of a key's pending waiters: an element with a predecessor is
\* bypassed, but the first one is removed by clearing the head of the list.
WithoutPending(k) ==
    CASE PendingAt(k) = {} -> pending[Bucket[k]]
      [] PendingAt(k) = {1} -> <<>>
      [] OTHER -> RemoveAt(pending[Bucket[k]], PendingIndex(k))

\* e is the entry it returns: the existing one, whatever its state, or a new one
\* at the head of the bucket that takes over the key's pending waiters.
cache_start_loading(k, e) ==
    \/ /\ Found(k)
       /\ e = EntryOf(k)
       /\ UNCHANGED cacheVars
    \/ /\ ~Found(k)
       /\ e = Len(heap) + 1
       /\ heap' = Append(heap, create_entry(k, PendingWaiters(k)))
       /\ buckets' = [buckets EXCEPT ![Bucket[k]] = <<e>> \o @]
       /\ pending' = [pending EXCEPT ![Bucket[k]] = WithoutPending(k)]

\* Mutant: a full buffer is not enlarged, and the chunk is dropped.
AppendNoGrow(e, chunk) ==
    /\ heap' = [heap EXCEPT ![e] =
                   [@ EXCEPT !.data = IF heap[e].data = <<>> THEN <<chunk>> ELSE heap[e].data,
                             !.expired = FALSE]]
    /\ UNCHANGED <<buckets, pending>>

\* The part of cache_append_data under data_lock; its test of is_loading comes
\* before the lock and its notification after it, as steps of the caller.
cache_append_data(e, chunk) ==
    /\ heap' = [heap EXCEPT ![e] = [@ EXCEPT !.data = Append(heap[e].data, chunk),
                                             !.expired = FALSE]]
    /\ UNCHANGED <<buckets, pending>>

\* The part of cache_finish_loading under data_lock.
cache_finish_loading(e) ==
    /\ heap' = [heap EXCEPT ![e] = [@ EXCEPT !.is_loading = FALSE, !.expired = FALSE]]
    /\ UNCHANGED <<buckets, pending>>

\* Only an entry that is still loading is unlinked and freed.
cache_cancel_loading(k) ==
    \/ /\ Found(k)
       /\ heap[EntryOf(k)].is_loading
       /\ buckets' = [buckets EXCEPT ![Bucket[k]] = RemoveFirst(@, EntryOf(k))]
       /\ heap' = free_entry(EntryOf(k))
       /\ UNCHANGED pending
    \/ /\ Found(k) => ~heap[EntryOf(k)].is_loading
       /\ UNCHANGED cacheVars

-----------------------------------------------------------------------------
Collectable(e) == ~heap[e].is_loading /\ heap[e].expired

\* cache_clean_expired at a bucket, as far as the next entry that it frees: place
\* n of the list.  prev is the last entry before it that is not loading: it does
\* not move over loading entries, so that those between prev and n are unlinked
\* with n.  A sweep that frees several entries is as many steps; one that it keeps
\* although it is expired here has expired since the sweep read the time.
cache_clean_expired(b) ==
    LET list == buckets[b]
    IN  \E n \in DOMAIN list, prev \in 0..Len(list) :
          /\ Collectable(list[n]) /\ prev < n
          /\ prev # 0 => ~heap[list[prev]].is_loading
          /\ \A i \in prev + 1 .. n - 1 : heap[list[i]].is_loading
          /\ buckets' = [buckets EXCEPT ![b] =
                 SubSeq(list, 1, prev) \o SubSeq(list, n + 1, Len(list))]
          /\ heap' = free_entry(list[n])
          /\ UNCHANGED pending

-----------------------------------------------------------------------------
\* The waiter goes to the entry of its key, whatever the entry's state; to the
\* key's pending list; or to a new pending list at the head.
cache_register_waiter(k, w) ==
    \/ /\ Found(k)
       /\ heap' = [heap EXCEPT ![EntryOf(k)].waiting_clients = <<w>> \o @]
       /\ UNCHANGED <<buckets, pending>>
    \/ /\ ~Found(k)
       /\ pending' =
            IF PendingAt(k) # {}
            THEN [pending EXCEPT ![Bucket[k]][PendingIndex(k)].waiters = <<w>> \o @]
            ELSE [pending EXCEPT ![Bucket[k]] = <<[key |-> k, waiters |-> <<w>>]>> \o @]
       /\ UNCHANGED <<heap, buckets>>

\* The pending lists are not searched.
cache_unregister_waiter(k, w) ==
    \/ /\ Found(k)
       /\ heap' = [heap EXCEPT ![EntryOf(k)].waiting_clients =
                                   RemoveFirst(@, w)]
       /\ UNCHANGED <<buckets, pending>>
    \/ ~Found(k) /\ UNCHANGED cacheVars

\* The waiters that some list of the cache still refers to.
ListedWaiters ==
    UNION ({ToSet(heap[e].waiting_clients) : e \in DOMAIN heap}
           \cup UNION {{ToSet(p.waiters) : p \in ToSet(pending[b])} : b \in Buckets})
=============================================================================
