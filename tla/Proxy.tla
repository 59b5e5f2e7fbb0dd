-------------------------------- MODULE Proxy --------------------------------
(***************************************************************************)
(* How a request is answered: the backends' event loops (proxy/src/domain/ *)
(* backend.c), the background workers that load a resource with curl       *)
(* (background_worker.c) and the cache they share (module Cache).          *)
(*                                                                         *)
(* A request is one accepted connection with one HTTP request on it.  Its  *)
(* callbacks run on the event loop of its backend, one callback of a       *)
(* backend at a time; "pc" is where the callback stands, "loop" when the   *)
(* loop waits for the request's next event.  "wr" is its write_req_t, and  *)
(* "sent" the chunks handed to uv_write for it.  A request that finds no   *)
(* entry launches a task, named after it, which a worker thread executes   *)
(* beside everything else.                                                 *)
(*                                                                         *)
(* A cache lookup holds the bucket's mutex but reads is_loading and        *)
(* data_size, which workers change without it, one after the other: it is  *)
(* two steps, between which workers append and finish.                     *)
(***************************************************************************)
EXTENDS Cache, FiniteSets

CONSTANTS
    Reqs,
    Backends,
    KeyOf, PathOf,    \* of a request: its cache key, and its key without Referer
    BackendOf,
    PACKET_SIZE,      \* chunks a single write may carry
    Lengths,          \* lengths, in chunks, of the origin's answers
    Faults,           \* which of "origin", "write", "read" and "expire" happen
    ConcurrentMisses  \* may a key be requested while its load is still queued?

ASSUME ProxyAssumption ==
    /\ KeyOf \in [Reqs -> Keys]
    /\ PathOf \in [Reqs -> Keys]
    /\ BackendOf \in [Reqs -> Backends]
    /\ PACKET_SIZE \in Nat \ {0}
    /\ Lengths \subseteq Nat \ {0}
    /\ Faults \subseteq {"origin", "write", "read", "expire"}
    /\ ConcurrentMisses \in BOOLEAN

VARIABLES pc, wr, sent, task

proxyVars == <<pc, wr, sent, task>>
vars == <<cacheVars, proxyVars>>

\* alloc_write_req_t and the initialisations of read_client.  "async" is the
\* pending flag of data_ready_async, "inflight" counts the uncompleted uv_writes,
\* and "writable" is what libuv keeps of the connection.
NewWriteReq ==
    [offset |-> 0, did_register |-> FALSE, write_pending |-> FALSE,
     async |-> FALSE, inflight |-> 0, writable |-> TRUE]

\* "at" is where the worker stands: "none" when the request launched no task.
NewTask ==
    [at |-> "none", entry |-> 0, got |-> 0, total |-> 0, should_stop |-> FALSE]

launch_bgw(r) == [task EXCEPT ![r].at = "queued"]

Init ==
    /\ CacheInit
    /\ pc = [r \in Reqs |-> "open"]
    /\ wr = [r \in Reqs |-> NewWriteReq]
    /\ sent = [r \in Reqs |-> <<>>]
    /\ task = [r \in Reqs |-> NewTask]

-----------------------------------------------------------------------------
(* Threads and locks *)

\* Inside a lookup, after it has read that the entry is loading, or complete.
LookupLabels == {"rc_loading", "rc_complete", "read_loading", "read_complete",
                 "recheck_loading", "recheck_complete"}

\* Inside a callback.
Locals == LookupLabels \cup {"send", "register_new", "register", "recheck",
                            "free", "close"}

\* The backend of r runs no callback of another request.
LoopFree(r) ==
    \A q \in Reqs \ {r} : BackendOf[q] = BackendOf[r] => pc[q] \notin Locals

\* No lookup is between its two reads in the bucket.
BucketFree(b) ==
    \A q \in Reqs : pc[q] \in LookupLabels => Bucket[KeyOf[q]] # b

KeyFree(r) == BucketFree(Bucket[KeyOf[r]])

Step(r, from, to) ==
    /\ pc[r] = from
    /\ pc' = [pc EXCEPT ![r] = to]

Cached(r) == heap[EntryOf(KeyOf[r])]
Size(r) == Len(Cached(r).data)

\* First half of cache_lookup_partial: the walk, and the load of is_loading.
Lookup(r, from, loading, complete, notFound) ==
    /\ KeyFree(r)
    /\ Step(r, from, IF ~Found(KeyOf[r]) THEN notFound
                     ELSE IF Cached(r).is_loading THEN loading ELSE complete)
    /\ UNCHANGED <<cacheVars, wr, sent>>

\* In the second half: there is something to copy, and last_accessed is set.
NewLoaded(r) == wr[r].offset < Size(r)

TouchIfNew(r) ==
    /\ heap' = IF NewLoaded(r) THEN Touch(EntryOf(KeyOf[r])) ELSE heap
    /\ UNCHANGED <<buckets, pending>>

-----------------------------------------------------------------------------
(* read_client *)

\* The request is parsed and looked up with max_size = 0.  On CACHE_NOT_FOUND
\* launch_bgw queues a task, and the case falls through to streaming.
read_client(r) ==
    /\ LoopFree(r)
    /\ ConcurrentMisses \/ \A q \in Reqs : KeyOf[q] = KeyOf[r] => task[q].at # "queued"
    /\ Lookup(r, "open", "rc_loading", "rc_complete", "send")
    /\ task' = IF Found(KeyOf[r]) THEN task ELSE launch_bgw(r)

\* CACHE_FOUND: the whole entry is written at once.
ReadFound(r) ==
    /\ Step(r, "rc_complete", "write_all")
    /\ sent' = [sent EXCEPT ![r] = Cached(r).data]
    /\ wr' = [wr EXCEPT ![r].inflight = 1]
    /\ UNCHANGED <<cacheVars, task>>

\* CACHE_NEW_LOADED or CACHE_NEW_NOT_LOADED: the data is not used, and streaming
\* starts from offset 0.
ReadLoading(r) ==
    /\ Step(r, "rc_loading", "send")
    /\ TouchIfNew(r)
    /\ UNCHANGED <<wr, sent, task>>

-----------------------------------------------------------------------------
(* send_next_chunk *)

send_next_chunk(r) ==
    /\ Lookup(r, "send", "read_loading", "read_complete",
              IF wr[r].did_register THEN "loop" ELSE "register_new")
    /\ UNCHANGED task

\* Up to where a packet is filled.
ChunkEnd(r) ==
    IF Size(r) - wr[r].offset > PACKET_SIZE THEN wr[r].offset + PACKET_SIZE ELSE Size(r)

\* Mutant: the copy starts one chunk too early.
SendChunkOverlap(r) ==
    /\ Step(r, "read_loading", "loop") \/ Step(r, "read_complete", "loop")
    /\ NewLoaded(r) /\ wr[r].writable
    /\ sent' = [sent EXCEPT ![r] =
           @ \o SubSeq(Cached(r).data, IF wr[r].offset = 0 THEN 1 ELSE wr[r].offset, ChunkEnd(r))]
    /\ wr' = [wr EXCEPT ![r] = [@ EXCEPT !.offset = ChunkEnd(r), !.write_pending = TRUE,
                                         !.inflight = wr[r].inflight + 1]]
    /\ TouchIfNew(r)
    /\ UNCHANGED task

\* Mutant: write_pending is not set.
SendChunkUnmarked(r) ==
    /\ Step(r, "read_loading", "loop") \/ Step(r, "read_complete", "loop")
    /\ NewLoaded(r) /\ wr[r].writable
    /\ sent' = [sent EXCEPT ![r] = @ \o SubSeq(Cached(r).data, wr[r].offset + 1, ChunkEnd(r))]
    /\ wr' = [wr EXCEPT ![r] = [@ EXCEPT !.offset = ChunkEnd(r), !.inflight = wr[r].inflight + 1]]
    /\ TouchIfNew(r)
    /\ UNCHANGED task

\* CACHE_NEW_LOADED: up to PACKET_SIZE chunks are written.
SendChunk(r) ==
    /\ Step(r, "read_loading", "loop") \/ Step(r, "read_complete", "loop")
    /\ NewLoaded(r) /\ wr[r].writable
    /\ sent' = [sent EXCEPT ![r] = @ \o SubSeq(Cached(r).data, wr[r].offset + 1, ChunkEnd(r))]
    /\ wr' = [wr EXCEPT ![r] = [@ EXCEPT !.offset = ChunkEnd(r), !.write_pending = TRUE,
                                         !.inflight = wr[r].inflight + 1]]
    /\ TouchIfNew(r)
    /\ UNCHANGED task

\* uv_write returns UV_EPIPE: nothing is written and no completion will come, but the
\* offset stays advanced and the request waits.
SendRefused(r) ==
    /\ Step(r, "read_loading", "loop") \/ Step(r, "read_complete", "loop")
    /\ NewLoaded(r) /\ ~wr[r].writable
    /\ wr' = [wr EXCEPT ![r] = [@ EXCEPT !.offset = ChunkEnd(r), !.write_pending = FALSE]]
    /\ TouchIfNew(r)
    /\ UNCHANGED <<sent, task>>

\* CACHE_NEW_NOT_LOADED: wait, after registering for notifications.
SendNothingNew(r) ==
    /\ Step(r, "read_loading", IF wr[r].did_register THEN "loop" ELSE "register")
    /\ ~NewLoaded(r)
    /\ UNCHANGED <<cacheVars, wr, sent, task>>

\* CACHE_DONE: everything has been sent.
SendDone(r) ==
    /\ Step(r, "read_complete", "free")
    /\ wr[r].offset = Size(r)
    /\ UNCHANGED <<cacheVars, wr, sent, task>>

\* CACHE_ERROR: the entry is complete and shorter than what was sent.
SendError(r) ==
    /\ Step(r, "read_complete", "free")
    /\ wr[r].offset > Size(r)
    /\ UNCHANGED <<cacheVars, wr, sent, task>>

\* CACHE_NOT_FOUND: register and return to the loop.
RegisterNotFound(r) ==
    /\ KeyFree(r)
    /\ Step(r, "register_new", "loop")
    /\ cache_register_waiter(KeyOf[r], r)
    /\ wr' = [wr EXCEPT ![r].did_register = TRUE]
    /\ UNCHANGED <<sent, task>>

\* Mutant: the registration is not followed by another look.
RegisterOnly(r) ==
    /\ KeyFree(r)
    /\ Step(r, "register", "loop")
    /\ cache_register_waiter(KeyOf[r], r)
    /\ wr' = [wr EXCEPT ![r].did_register = TRUE]
    /\ UNCHANGED <<sent, task>>

\* CACHE_NEW_NOT_LOADED: register, then look again.
Register(r) ==
    /\ KeyFree(r)
    /\ Step(r, "register", "recheck")
    /\ cache_register_waiter(KeyOf[r], r)
    /\ wr' = [wr EXCEPT ![r].did_register = TRUE]
    /\ UNCHANGED <<sent, task>>

\* A key that has vanished leaves is_still_loading_check FALSE, so the call
\* recurs as it does for a finished entry.
Recheck(r) ==
    /\ Lookup(r, "recheck", "recheck_loading", "recheck_complete", "send")
    /\ UNCHANGED task

RecheckRead(r) ==
    /\ \/ Step(r, "recheck_loading", IF NewLoaded(r) THEN "send" ELSE "loop")
       \/ Step(r, "recheck_complete", "send")
    /\ TouchIfNew(r)
    /\ UNCHANGED <<wr, sent, task>>

-----------------------------------------------------------------------------
(* Events of the loop *)

\* on_data_ready: the notification is dropped while a write is pending, whose
\* completion will look at the cache.
on_data_ready(r) ==
    /\ LoopFree(r)
    /\ wr[r].async
    /\ Step(r, "loop", IF wr[r].write_pending THEN "loop" ELSE "send")
    /\ wr' = [wr EXCEPT ![r].async = FALSE]
    /\ UNCHANGED <<cacheVars, sent, task>>

\* Mutant: a completion is handled although no write is outstanding.
CompletionTwice(r) ==
    /\ LoopFree(r)
    /\ wr[r].inflight >= 0
    /\ Step(r, "loop", "send")
    /\ wr' = [wr EXCEPT ![r] = [@ EXCEPT !.write_pending = FALSE,
                                         !.inflight = wr[r].inflight - 1]]
    /\ UNCHANGED <<cacheVars, sent, task>>

\* The write succeeded; progress.is_loading stays true, so the stream goes on
\* until a lookup says that all is sent.
echo_write_buffer_load(r) ==
    /\ LoopFree(r)
    /\ wr[r].inflight > 0
    /\ Step(r, "loop", "send")
    /\ wr' = [wr EXCEPT ![r] = [@ EXCEPT !.write_pending = FALSE,
                                         !.inflight = wr[r].inflight - 1]]
    /\ UNCHANGED <<cacheVars, sent, task>>

\* The write failed: the client has gone.
WriteError(r) ==
    /\ "write" \in Faults
    /\ LoopFree(r)
    /\ wr[r].inflight > 0
    /\ Step(r, "loop", "free")
    /\ wr' = [wr EXCEPT ![r] = [@ EXCEPT !.write_pending = FALSE,
                                         !.inflight = wr[r].inflight - 1]]
    /\ UNCHANGED <<cacheVars, sent, task>>

\* Reading from the connection of a streaming request fails.  libuv takes the
\* connection for no longer writable, and read_client ignores the error.
ReadError(r) ==
    /\ "read" \in Faults
    /\ LoopFree(r)
    /\ Step(r, "loop", "loop")
    /\ wr[r].writable
    /\ wr' = [wr EXCEPT ![r].writable = FALSE]
    /\ UNCHANGED <<cacheVars, sent, task>>

ClientGone(r) == WriteError(r) \/ ReadError(r)

\* The end of the single write of a finished entry, successful or not; its write
\* request has no async handle and no task, and free_write_req only closes.
echo_write(r) ==
    /\ LoopFree(r)
    /\ Step(r, "write_all", "closed")
    /\ wr' = [wr EXCEPT ![r].inflight = 0]
    /\ UNCHANGED <<cacheVars, sent, task>>

\* Mutant: the waiter stays registered.
UnregisterNot(r) ==
    /\ Step(r, "free", "close")
    /\ UNCHANGED <<cacheVars, wr, sent, task>>

\* free_write_req of a streaming request: unregister, then stop the task it
\* launched and close the connection and the async handle.  No event of the
\* request runs any more, and on_async_close frees its memory.
Unregister(r) ==
    /\ KeyFree(r)
    /\ Step(r, "free", "close")
    /\ cache_unregister_waiter(KeyOf[r], r)
    /\ UNCHANGED <<wr, sent, task>>

\* Mutant: the load is cancelled at once instead of asking its worker to stop.
FreeCancels(r) ==
    /\ KeyFree(r)
    /\ Step(r, "close", "closed")
    /\ cache_cancel_loading(KeyOf[r])
    /\ wr' = [wr EXCEPT ![r].async = FALSE]
    /\ UNCHANGED <<sent, task>>

free_write_req(r) ==
    /\ Step(r, "close", "closed")
    /\ task' = [task EXCEPT ![r].should_stop = (@ \/ task[r].at # "none")]
    /\ wr' = [wr EXCEPT ![r].async = FALSE]
    /\ UNCHANGED <<cacheVars, sent>>


-----------------------------------------------------------------------------
(* The background worker of the task that r launched *)

Work(r, from, to) ==
    /\ task[r].at = from
    /\ task' = [task EXCEPT ![r].at = to]
    /\ UNCHANGED <<pc, sent>>

\* load_http_resp up to curl_easy_perform.  The origin's answer has one of the
\* Lengths: a connection closed early is a complete answer to curl too.
StartLoad(r) ==
    /\ BucketFree(Bucket[KeyOf[r]])
    /\ task[r].at = "queued"
    /\ \E e \in 1..Len(heap) + 1, n \in Lengths :
          /\ cache_start_loading(KeyOf[r], e)
          /\ task' = [task EXCEPT ![r] = [@ EXCEPT !.at = "recv", !.entry = e, !.total = n]]
    /\ UNCHANGED <<pc, wr, sent>>

Entry(r) == heap[task[r].entry]

\* write_callback up to the lock of cache_append_data: a stopped task, or an
\* entry that somebody finished, makes curl fail.
write_callback(r) ==
    /\ task[r].got < task[r].total
    /\ \/ Work(r, "recv", "append") /\ ~task[r].should_stop /\ Entry(r).is_loading
       \/ Work(r, "recv", "cancel") /\ (task[r].should_stop \/ ~Entry(r).is_loading)
    /\ UNCHANGED <<cacheVars, wr>>

AppendChunk(r) ==
    /\ task[r].at = "append"
    /\ cache_append_data(task[r].entry, task[r].got + 1)
    /\ task' = [task EXCEPT ![r] = [@ EXCEPT !.at = "notify", !.got = task[r].got + 1]]
    /\ UNCHANGED <<pc, wr, sent>>

\* notify_waiting_clients, under waiters_mutex: every handle that is not closing
\* is signalled; signals that are not yet handled coalesce.
Notify(r) ==
    wr' = [q \in Reqs |->
             IF q \in ToSet(Entry(r).waiting_clients) /\ pc[q] # "closed"
             THEN [wr[q] EXCEPT !.async = TRUE] ELSE wr[q]]

NotifyAppended(r) ==
    /\ Work(r, "notify", "recv")
    /\ Notify(r)
    /\ UNCHANGED cacheVars

\* curl succeeded with code 200: cache_finish_loading up to its lock.
LoadComplete(r) ==
    /\ task[r].got = task[r].total
    /\ \/ Work(r, "recv", "finish") /\ Entry(r).is_loading
       \/ Work(r, "recv", "done") /\ ~Entry(r).is_loading
    /\ UNCHANGED <<cacheVars, wr>>

FinishLoad(r) ==
    /\ Work(r, "finish", "notify_end")
    /\ cache_finish_loading(task[r].entry)
    /\ UNCHANGED wr

NotifyFinished(r) ==
    /\ Work(r, "notify_end", "done")
    /\ Notify(r)
    /\ UNCHANGED cacheVars

\* curl failed or timed out, or the code is not 200.
LoadFailed(r) ==
    /\ "origin" \in Faults
    /\ Work(r, "recv", "cancel")
    /\ UNCHANGED <<cacheVars, wr>>

\* The entry is looked for under the path, not under the task's key.
CancelLoad(r) ==
    /\ BucketFree(Bucket[PathOf[r]])
    /\ Work(r, "cancel", "done")
    /\ cache_cancel_loading(PathOf[r])
    /\ UNCHANGED wr

-----------------------------------------------------------------------------
(* Time and the collector *)

\* DEFAULT_TTL passes without access.  A worker's own accesses under the entry's
\* locks are far apart from that.
Expire(e) ==
    /\ "expire" \in Faults
    /\ ~heap[e].is_loading /\ ~heap[e].freed /\ ~heap[e].expired
    /\ \A r \in Reqs : task[r].entry = e => task[r].at \notin {"append", "notify", "notify_end"}
    /\ heap' = [heap EXCEPT ![e].expired = TRUE]
    /\ UNCHANGED <<buckets, pending, proxyVars>>

\* cache_cleaner_thread at a bucket.
Collect(b) ==
    /\ BucketFree(b)
    /\ cache_clean_expired(b)
    /\ UNCHANGED proxyVars

-----------------------------------------------------------------------------
Callback(r) ==
    \/ read_client(r) \/ ReadFound(r) \/ ReadLoading(r)
    \/ send_next_chunk(r) \/ SendChunk(r) \/ SendRefused(r) \/ SendNothingNew(r)
    \/ SendDone(r) \/ SendError(r) \/ RegisterNotFound(r) \/ Register(r) \/ Recheck(r)
    \/ RecheckRead(r) \/ on_data_ready(r) \/ echo_write_buffer_load(r)
    \/ echo_write(r) \/ Unregister(r) \/ free_write_req(r)

Worker(r) ==
    \/ StartLoad(r) \/ write_callback(r) \/ AppendChunk(r) \/ NotifyAppended(r)
    \/ LoadComplete(r) \/ FinishLoad(r) \/ NotifyFinished(r) \/ CancelLoad(r)

Next ==
    \/ \E r \in Reqs :
          Callback(r) \/ ClientGone(r) \/ Worker(r) \/ LoadFailed(r)
    \/ \E e \in DOMAIN heap : Expire(e)
    \/ \E b \in Buckets : Collect(b)

Spec == Init /\ [][Next]_vars

\* Event loops and worker threads are scheduled, clients read what is written to
\* them and origins answer.
FairSpec ==
    /\ Spec
    /\ \A r \in Reqs : WF_vars(Callback(r)) /\ WF_vars(Worker(r))

-----------------------------------------------------------------------------
(* Properties *)

Labels == Locals \cup {"open", "write_all", "loop", "closed"}

WorkerLabels == {"none", "queued", "recv", "append", "notify", "cancel",
                 "finish", "notify_end", "done"}

EntryType ==
    [key : Keys, is_loading : BOOLEAN, data : Seq(Nat), waiting_clients : Seq(Reqs),
     expired : BOOLEAN, freed : BOOLEAN]

TypeOK ==
    /\ pc \in [Reqs -> Labels]
    /\ wr \in [Reqs -> [offset : Nat, did_register : BOOLEAN, write_pending : BOOLEAN,
                        async : BOOLEAN, inflight : Nat, writable : BOOLEAN]]
    /\ sent \in [Reqs -> Seq(Nat)]
    /\ task \in [Reqs -> [at : WorkerLabels, entry : 0..Len(heap), got : Nat,
                          total : Nat, should_stop : BOOLEAN]]
    /\ heap \in Seq(EntryType)
    /\ buckets \in [Buckets -> Seq(DOMAIN heap)]
    /\ pending \in [Buckets -> Seq([key : Keys, waiters : Seq(Reqs)])]

\* The uv_write_t inside a write request is never submitted while libuv still
\* owns it, whichever of write completions, notifications and rechecks call
\* send_next_chunk, and nothing is owned when the request is being freed.
SingleWrite ==
    \A r \in Reqs : /\ wr[r].inflight <= 1
                    /\ pc[r] \in {"free", "close", "closed"} => wr[r].inflight = 0

\* Workers only ever signal handles that exist: a request whose memory is being
\* released is in no list of the cache any more.
WaitersLive ==
    \A r \in ListedWaiters : pc[r] \notin {"open", "close", "closed"}

WorkerActive(r) ==
    task[r].at \in {"recv", "append", "notify", "finish", "notify_end"}

\* While a worker still appends to its entry or finishes it, the entry is neither
\* freed by a cancelled load or the collector nor unlinked from its bucket.
EntryLive ==
    \A r \in Reqs : WorkerActive(r) =>
        ~Entry(r).freed /\ task[r].entry \in ToSet(buckets[Bucket[KeyOf[r]]])

\* What a worker reports with "Successfully loaded %zu bytes into cache" is so:
\* the entry it finished is in the cache and holds those bytes.
LoadedIntoCache ==
    \A r \in Reqs : task[r].at = "notify_end" =>
        /\ task[r].entry \in Match(KeyOf[r])
        /\ Len(Entry(r).data) = task[r].got

\* A client receives the resource from its start, in order, without gap or
\* repetition, however its lookups interleave with appends, finishes, failed
\* loads and reloads.
StreamFaithful ==
    \A r \in Reqs : \A n \in DOMAIN sent[r] : sent[r][n] = n

\* A client that was told to wait for notifications is in a list from which
\* it can be notified.
RegisteredIsListed ==
    \A r \in Reqs :
        wr[r].did_register /\ pc[r] \notin {"close", "closed"} => r \in ListedWaiters

Served(r) == pc[r] = "closed"

\* A client that joined a load in progress is eventually served to the end and
\* its connection closed, unless its connection fails: no notification it needs is
\* lost.
JoinerServed ==
    \A r \in Reqs :
        (pc[r] = "send" /\ task[r].at = "none") ~> (Served(r) \/ ~wr[r].writable)

\* A client that was told that the data was not found and that it registers for
\* notifications is eventually served.
RegisteredServed ==
    \A r \in Reqs : (pc[r] = "register_new") ~> Served(r)

-----------------------------------------------------------------------------
(* Under which conditions on the constants the properties hold *)

\* A key is not requested while its load is queued and not begun.
OneLoad == ~ConcurrentMisses

SeparateBuckets == \A k, l \in Keys : Bucket[k] = Bucket[l] => k = l

\* The collector unlinks no entry but those it frees.
KeepsLoading == "expire" \in Faults => SeparateBuckets

\* No request has a Referer.
PathIsKey == PathOf = KeyOf

-----------------------------------------------------------------------------
(* The inductive invariants *)

\* The inductive invariant of SingleWrite: inside a callback libuv owns no write of
\* the request, and between callbacks write_pending says whether it does.
WriteOwned(r) ==
    /\ pc[r] \in Labels
    /\ wr[r].write_pending \in BOOLEAN
    /\ wr[r].write_pending => pc[r] = "loop"
    /\ wr[r].inflight = IF pc[r] = "write_all" \/ wr[r].write_pending THEN 1 ELSE 0

WriteInv ==
    /\ DOMAIN pc = Reqs /\ DOMAIN wr = Reqs
    /\ \A r \in Reqs : DOMAIN wr[r] = DOMAIN NewWriteReq /\ WriteOwned(r)

\* Of every bucket's list: no entry is twice in it, no two have one key, and none
\* is freed.
BucketsExact ==
    \A b \in Buckets :
        /\ IsInjective(buckets[b])
        /\ \A e \in ToSet(buckets[b]) : ~heap[e].freed /\ Bucket[heap[e].key] = b
        /\ \A e, f \in ToSet(buckets[b]) : heap[e].key = heap[f].key => e = f

PendingExact ==
    \A b \in Buckets :
        /\ IsInjective(pending[b])
        /\ \A p, q \in ToSet(pending[b]) : p.key = q.key => p = q

Started(r) == task[r].at \notin {"none", "queued"}

WorkersHaveEntries ==
    \A r \in Reqs :
        /\ Started(r) => task[r].entry # 0 /\ Entry(r).key = KeyOf[r]
        /\ ~Started(r) => task[r].got = 0
        /\ pc[r] = "open" => task[r].at = "none"

\* The entry that the first half of a lookup has found is there for the second.
LookupsFind == \A r \in Reqs : pc[r] \in LookupLabels => Found(KeyOf[r])

\* Holds for all constants.
ProxyInv ==
    /\ TypeOK /\ WriteInv
    /\ BucketsExact /\ PendingExact
    /\ WorkersHaveEntries /\ LookupsFind

InOrder(chunks) == \A n \in DOMAIN chunks : chunks[n] = n

\* A queued load will find no entry, so each entry is filled by one worker.
OneWorkerEach ==
    /\ \A r \in Reqs : task[r].at = "queued" => ~Found(KeyOf[r])
    /\ \A r, q \in Reqs :
          task[r].at = "queued" /\ task[q].at = "queued" /\ KeyOf[r] = KeyOf[q] => r = q
    /\ \A r, q \in Reqs :
          Started(r) /\ Started(q) /\ task[r].entry = task[q].entry => r = q

DataInOrder ==
    /\ \A e \in DOMAIN heap : ~heap[e].freed => InOrder(heap[e].data)
    /\ \A r \in Reqs :
          Started(r) /\ ~Entry(r).freed => Len(Entry(r).data) = task[r].got

SentInOrder ==
    \A r \in Reqs :
        /\ InOrder(sent[r])
        /\ pc[r] \notin {"write_all", "closed"} /\ wr[r].writable =>
              Len(sent[r]) = wr[r].offset

\* Holds under OneLoad.
StreamInv == OneWorkerEach /\ DataInOrder /\ SentInOrder

\* Holds under KeepsLoading.
KeptInCache ==
    \A e \in DOMAIN heap :
        /\ ~heap[e].freed => e \in ToSet(buckets[Bucket[heap[e].key]])
        /\ heap[e].expired => "expire" \in Faults

\* Where a request can be once it is registered.
Registered == {"send", "read_loading", "read_complete", "recheck", "recheck_loading",
               "recheck_complete", "loop", "free", "close", "closed"}

RegisterOnce ==
    \A r \in Reqs : /\ wr[r].did_register => pc[r] \in Registered
                    /\ wr[r].async => wr[r].did_register

\* A waiter of an entry waits for the entry's key.
WaitersOfEntries ==
    \A e \in DOMAIN heap :
        /\ IsInjective(heap[e].waiting_clients)
        /\ \A r \in ToSet(heap[e].waiting_clients) :
              /\ ~heap[e].freed /\ KeyOf[r] = heap[e].key
              /\ wr[r].did_register /\ pc[r] \notin {"close", "closed"}

\* A pending waiter has no entry, and nothing wakes it.
PendingWaits ==
    \A b \in Buckets : \A p \in ToSet(pending[b]) :
        /\ Bucket[p.key] = b /\ ~Found(p.key)
        /\ IsInjective(p.waiters)
        /\ \A r \in ToSet(p.waiters) :
              /\ KeyOf[r] = p.key /\ wr[r].did_register
              /\ pc[r] \in {"loop", "recheck", "send"}
              /\ ~wr[r].async /\ ~wr[r].write_pending

\* Holds under KeepsLoading.
WaitInv == RegisterOnce /\ WaitersOfEntries /\ PendingWaits

\* Holds under OneLoad, KeepsLoading and PathIsKey.
LoadInv ==
    \A r \in Reqs :
        /\ WorkerActive(r) \/ task[r].at = "cancel" => ~Entry(r).freed
        /\ task[r].at \in {"recv", "append", "notify", "finish", "cancel"}
              => Entry(r).is_loading
        /\ task[r].at = "notify_end" => ~Entry(r).expired

Complete(k) == \E e \in Match(k) : ~heap[e].is_loading

\* A client is through, and its load stops, only when the entry is complete.
StopsComplete ==
    \A r \in Reqs :
        \/ pc[r] \in {"rc_complete", "read_complete", "recheck_complete", "free", "close"}
        \/ task[r].should_stop \/ task[r].at = "cancel"
        => Complete(KeyOf[r])

\* Holds when nothing fails but connections are read, with SeparateBuckets and PathIsKey.
ListInv ==
    /\ \A e \in DOMAIN heap : ~heap[e].freed
    /\ StopsComplete
    /\ RegisteredIsListed

AllInv ==
    /\ ProxyInv
    /\ OneLoad => StreamInv
    /\ KeepsLoading => KeptInCache /\ WaitInv
    /\ OneLoad /\ KeepsLoading /\ PathIsKey => LoadInv
    /\ Faults \subseteq {"read"} /\ SeparateBuckets /\ PathIsKey => ListInv
=============================================================================
