------------------------------- MODULE Master -------------------------------
(***************************************************************************)
(* How connections reach a backend: the master's event loop                *)
(* (proxy/src/domain/master.c) accepts a connection, picks the first       *)
(* backend whose client_count is below the limit, or adds a backend, and   *)
(* sends the descriptor through the backend's pipe; the backend's loop     *)
(* (backend.c) receives it, counts the client, and uncounts it when the    *)
(* connection is closed.                                                   *)
(*                                                                         *)
(* client_count is shared between the threads: the master reads the        *)
(* counters one after the other while backends change them, and a          *)
(* connection that is still in a pipe is not counted yet.                  *)
(*                                                                         *)
(* Slot b of the arrays is backends[b - 1]; slot 0 is the memory before    *)
(* the array, and the last slot the memory after it.                       *)
(***************************************************************************)
EXTENDS Naturals, Sequences, FiniteSets

CONSTANTS
    Conns,        \* the connections that can exist at a time
    MAX_BACKEND_NUM, MAX_BACKEND_CONNECTIONS_NUM,
    Faults,       \* which of "accept", "send", "receive", "add" and "add_first" happen
    None

\* No more clients at a time than the configured backends may have together.
ASSUME MasterAssumption ==
    /\ MAX_BACKEND_NUM \in Nat \ {0}
    /\ MAX_BACKEND_CONNECTIONS_NUM \in Nat \ {0}
    /\ IsFiniteSet(Conns)
    /\ Cardinality(Conns) <= MAX_BACKEND_NUM * MAX_BACKEND_CONNECTIONS_NUM
    /\ Faults \subseteq {"accept", "send", "receive", "add", "add_first"}
    /\ None \notin Conns

VARIABLES
    cur_backend_count,
    client_count,
    pipe,       \* descriptors sent to a backend and not yet received
    at,         \* of a connection
    backend,    \* of a connection: the slot it was sent to
    master      \* where on_new_connection stands

vars == <<cur_backend_count, client_count, pipe, at, backend, master>>

Slots == 0..MAX_BACKEND_NUM + 1
Waiting == [pc |-> "loop", conn |-> None, i |-> 1]

\* init_master_thread: no backend exists before the first connection.
Init ==
    /\ cur_backend_count = 0
    /\ client_count = [b \in Slots |-> 0]
    /\ pipe = [b \in Slots |-> <<>>]
    /\ at = [c \in Conns |-> "fresh"]
    /\ backend = [c \in Conns |-> 0]
    /\ master = Waiting

-----------------------------------------------------------------------------
(* The environment *)

\* A client connects; the connection waits in the backlog.
Connect(c) ==
    /\ at[c] \in {"fresh", "closed"}
    /\ at' = [at EXCEPT ![c] = "backlog"]
    /\ UNCHANGED <<cur_backend_count, client_count, pipe, backend, master>>

-----------------------------------------------------------------------------
(* The master *)

on_new_connection(c) ==
    /\ master.pc = "loop"
    /\ at[c] = "backlog"
    /\ master' = [pc |-> "scan", conn |-> c, i |-> 1]
    /\ UNCHANGED <<cur_backend_count, client_count, pipe, at, backend>>

\* Mutant: the limit is taken for the number of further clients.
GetBackendEarly ==
    /\ master.pc = "scan"
    /\ master.i <= cur_backend_count
    /\ master' = IF client_count[master.i] + 1 < MAX_BACKEND_CONNECTIONS_NUM
                 THEN [master EXCEPT !.pc = "accept"]
                 ELSE [master EXCEPT !.i = @ + 1]
    /\ UNCHANGED <<cur_backend_count, client_count, pipe, at, backend>>

\* Mutant: when every backend is full the loop starts over.
GetBackendRescan ==
    /\ master.pc = "scan"
    /\ master.i <= cur_backend_count
    /\ master' = IF client_count[master.i] < MAX_BACKEND_CONNECTIONS_NUM
                 THEN [master EXCEPT !.pc = "accept"]
                 ELSE [master EXCEPT !.i = IF @ = cur_backend_count THEN 1 ELSE @ + 1]
    /\ UNCHANGED <<cur_backend_count, client_count, pipe, at, backend>>

\* A turn of the loop of get_backend: one atomic_load.
get_backend ==
    /\ master.pc = "scan"
    /\ master.i <= cur_backend_count
    /\ master' = IF client_count[master.i] < MAX_BACKEND_CONNECTIONS_NUM
                 THEN [master EXCEPT !.pc = "accept"]
                 ELSE [master EXCEPT !.i = @ + 1]
    /\ UNCHANGED <<cur_backend_count, client_count, pipe, at, backend>>

\* Mutant: cur_backend_count is not advanced.
AddBackendUncounted ==
    /\ master.pc = "scan"
    /\ master.i = cur_backend_count + 1
    /\ client_count' = [client_count EXCEPT ![master.i] = 0]
    /\ master' = [master EXCEPT !.pc = "accept"]
    /\ UNCHANGED <<cur_backend_count, pipe, at, backend>>

\* No backend can take the client: create_backend in the next slot, whether or
\* not the array has one, and start its thread.
add_backend ==
    /\ master.pc = "scan"
    /\ master.i = cur_backend_count + 1
    /\ client_count' = [client_count EXCEPT ![master.i] = 0]
    /\ cur_backend_count' = master.i
    /\ master' = [master EXCEPT !.pc = "accept"]
    /\ UNCHANGED <<pipe, at, backend>>

\* The result of add_backend is ignored: the last backend gets the client, and
\* when there is none, the slot before the first.  (The failure is that of the
\* backend or of its pipe; for that of add_thread see ThreadPool.)
AddFailed ==
    /\ "add" \in Faults
    /\ cur_backend_count > 0 \/ "add_first" \in Faults
    /\ master.pc = "scan"
    /\ master.i = cur_backend_count + 1
    /\ master' = [master EXCEPT !.pc = "accept", !.i = cur_backend_count]
    /\ UNCHANGED <<cur_backend_count, client_count, pipe, at, backend>>

\* uv_accept, and send_client_to_backend with uv_write2.  Nothing closes
\* the accepted handle afterwards; no later step looks at it.
send_client_to_backend ==
    LET c == master.conn
    IN  /\ master.pc = "accept"
        /\ pipe' = [pipe EXCEPT ![master.i] = Append(@, c)]
        /\ at' = [at EXCEPT ![c] = "pipe"]
        /\ backend' = [backend EXCEPT ![c] = master.i]
        /\ master' = Waiting
        /\ UNCHANGED <<cur_backend_count, client_count>>

\* uv_accept failed: libuv has closed the connection.
AcceptFailed ==
    /\ "accept" \in Faults
    /\ master.pc = "accept"
    /\ at' = [at EXCEPT ![master.conn] = "closed"]
    /\ master' = Waiting
    /\ UNCHANGED <<cur_backend_count, client_count, pipe, backend>>

\* uv_write2 failed, as it returns or as on_client_sent_cb learns later: the
\* descriptor is not in the pipe, and the accepted connection stays where it is.
SendFailed ==
    /\ "send" \in Faults
    /\ master.pc = "accept"
    /\ at' = [at EXCEPT ![master.conn] = "stuck"]
    /\ master' = Waiting
    /\ UNCHANGED <<cur_backend_count, client_count, pipe, backend>>

Master ==
    \/ \E c \in Conns : on_new_connection(c)
    \/ get_backend \/ add_backend \/ AddFailed
    \/ send_client_to_backend \/ AcceptFailed \/ SendFailed

-----------------------------------------------------------------------------
(* A backend *)

\* Mutant: the new client is not counted.
ReadPipeUncounted(b) ==
    /\ pipe[b] # <<>>
    /\ pipe' = [pipe EXCEPT ![b] = Tail(@)]
    /\ at' = [at EXCEPT ![Head(pipe[b])] = "open"]
    /\ UNCHANGED <<cur_backend_count, client_count, backend, master>>

\* read_pipe and new_client: one descriptor is received and counted.
read_pipe(b) ==
    /\ pipe[b] # <<>>
    /\ pipe' = [pipe EXCEPT ![b] = Tail(@)]
    /\ at' = [at EXCEPT ![Head(pipe[b])] = "open"]
    /\ client_count' = [client_count EXCEPT ![b] = @ + 1]
    /\ UNCHANGED <<cur_backend_count, backend, master>>

\* uv_accept failed in read_pipe: libuv has closed the backend's descriptor, and the
\* master's handle keeps the connection.
ReceiveFailed(b) ==
    /\ "receive" \in Faults
    /\ pipe[b] # <<>>
    /\ pipe' = [pipe EXCEPT ![b] = Tail(@)]
    /\ at' = [at EXCEPT ![Head(pipe[b])] = "stuck"]
    /\ UNCHANGED <<cur_backend_count, client_count, backend, master>>

Backend(b) == read_pipe(b) \/ ReceiveFailed(b)

\* The end of free_write_req, when the client has been served.
Close(c) ==
    /\ at[c] = "open"
    /\ at' = [at EXCEPT ![c] = "closed"]
    /\ client_count' = [client_count EXCEPT ![backend[c]] = @ - 1]
    /\ UNCHANGED <<cur_backend_count, pipe, backend, master>>

-----------------------------------------------------------------------------
Next ==
    \/ \E c \in Conns : Connect(c) \/ Close(c)
    \/ Master
    \/ \E b \in Slots : Backend(b)

Spec == Init /\ [][Next]_vars

\* The loops of the master, which takes connections in their order, and of the
\* backends run.
FairSpec ==
    /\ Spec
    /\ WF_vars(Master)
    /\ \A c \in Conns : SF_vars(on_new_connection(c))
    /\ \A b \in Slots : WF_vars(Backend(b))

-----------------------------------------------------------------------------
(* Properties *)

TypeOK ==
    /\ cur_backend_count \in Nat
    /\ client_count \in [Slots -> Nat]
    /\ pipe \in [Slots -> Seq(Conns)]
    /\ at \in [Conns -> {"fresh", "backlog", "pipe", "open", "stuck", "closed"}]
    /\ backend \in [Conns -> Slots]
    /\ master \in [pc : {"loop", "scan", "accept"}, conn : Conns \cup {None}, i : Nat]

\* As long as no more clients are connected than all backends may have, get_backend
\* never adds a backend behind the end of the array, although its loop reads
\* counters that change under it and do not include the clients in the pipes.
BackendsInBounds == cur_backend_count <= MAX_BACKEND_NUM

\* The counter that get_backend compares with the limit is the number of
\* connections the backend has open: every received client is counted once
\* and uncounted once, on the backend it was sent to.
CountExact ==
    \A b \in Slots :
        client_count[b] = Cardinality({c \in Conns : at[c] = "open" /\ backend[c] = b})

\* A connection is only ever handed to a backend that exists and runs, so that
\* somebody reads it from the pipe.
SentToBackend ==
    \A c \in Conns : at[c] \in {"pipe", "open"} => backend[c] \in 1..cur_backend_count

\* The inductive invariant.  The connection that the master works on still waits,
\* and the slot it has come to exists; only a failure to add the very first backend
\* leads to the slot before the array.
LowestSlot == IF "add_first" \in Faults THEN 0 ELSE 1

MasterAt ==
    /\ master.pc # "loop" => master.conn \in Conns /\ at[master.conn] = "backlog"
    /\ master.pc = "scan" => master.i \in 1..cur_backend_count + 1
    /\ master.pc = "accept" => master.i \in LowestSlot..cur_backend_count

\* A pipe holds each of its connections once, and only connections sent to it.
PipeExact ==
    \A b \in Slots : \A k \in DOMAIN pipe[b] :
        /\ at[pipe[b][k]] = "pipe" /\ backend[pipe[b][k]] = b
        /\ \A j \in DOMAIN pipe[b] : pipe[b][j] = pipe[b][k] => j = k

SentToSlot ==
    \A c \in Conns :
        at[c] \in {"pipe", "open"} => backend[c] \in LowestSlot..cur_backend_count

\* The connections other than the one being placed that were last sent to slot b.
LastSentTo(b) == {c \in Conns \ {master.conn} : backend[c] = b}

\* A backend that the loop of get_backend has found full may have closed clients
\* since then, but the connections that filled it have not been sent elsewhere.
ScannedFull ==
    master.pc = "scan" =>
        \A b \in 1..master.i - 1 :
            Cardinality(LastSentTo(b)) >= MAX_BACKEND_CONNECTIONS_NUM

MasterInv ==
    /\ TypeOK /\ BackendsInBounds /\ CountExact
    /\ MasterAt /\ PipeExact /\ SentToSlot /\ ScannedFull

\* A client that connects reaches the loop of a backend, unless the system
\* refuses its connection.
Delivered ==
    \A c \in Conns : at[c] = "backlog" ~> at[c] \in {"open", "stuck", "closed"}
=============================================================================
