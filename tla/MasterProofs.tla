---------------------------- MODULE MasterProofs ----------------------------
(***************************************************************************)
(* Proofs about how connections reach a backend, for any number of         *)
(* connections and backends: the counters are exact, a connection is only  *)
(* sent to a backend that exists, and get_backend never leaves the array   *)
(* of backends.  The last one is a counting argument: a scan that finds    *)
(* every backend full has seen more connections than there are.            *)
(***************************************************************************)
EXTENDS Master, FiniteSetTheorems, TLAPS

(* Counting *)

\* Every non-empty set of natural numbers has a least element.
LEMMA LeastNatural ==
  ASSUME NEW T \in SUBSET Nat, T # {}
  PROVE  \E m \in T : \A k \in T : m <= k
<1>1. PICK m \in T : \A k \in T : <<k, m>> \notin OpToRel(<, Nat)
  BY WFMin, NatLessThanWellFounded, Zenon
<1>2. \A k \in T : ~(k < m)
  BY <1>1, Zenon DEF OpToRel
<1> QED
  BY <1>2

\* Induction, for a property given as the set of the numbers that have it.
LEMMA Induction ==
  ASSUME NEW S, 0 \in S, \A n \in Nat : n \in S => n + 1 \in S
  PROVE  \A n \in Nat : n \in S
<1> DEFINE T == Nat \ S
<1> SUFFICES ASSUME T # {} PROVE FALSE
  OBVIOUS
<1>1. PICK m \in T : \A k \in T : m <= k
  <2> HIDE DEF T
  <2>1. T \in SUBSET Nat
    BY DEF T
  <2> QED
    BY <2>1, LeastNatural
<1>2. m # 0 /\ m - 1 \in Nat /\ m - 1 \notin T
  BY <1>1
<1> QED
  BY <1>1, <1>2

\* Where each of n classes has at least m members there are at least n * m members.
LEMMA ClassesCount ==
  ASSUME NEW C, IsFiniteSet(C), NEW f, NEW n \in Nat, NEW m \in Nat,
         \A b \in 1..n : Cardinality({c \in C : f[c] = b}) >= m
  PROVE  Cardinality(C) >= n * m
<1> DEFINE Upto(k) == {c \in C : f[c] \in 1..k}
           Class(k) == {c \in C : f[c] = k}
           S == {k \in Nat : k <= n => Cardinality(Upto(k)) >= k * m}
<1>1. \A k : /\ IsFiniteSet(Upto(k)) /\ Cardinality(Upto(k)) \in Nat
             /\ IsFiniteSet(Class(k)) /\ Cardinality(Class(k)) \in Nat
             /\ Cardinality(Upto(k)) <= Cardinality(C)
  <2>1. \A k : Upto(k) \in SUBSET C /\ Class(k) \in SUBSET C
    OBVIOUS
  <2> HIDE DEF Upto, Class
  <2> QED
    BY <2>1, FS_Subset, FS_CardinalityType
<1>2. 0 \in S
  <2> HIDE DEF Upto
  <2>1. 0 * m = 0
    OBVIOUS
  <2>2. Cardinality(Upto(0)) \in Nat
    BY <1>1
  <2> QED
    BY <2>1, <2>2
<1>3. ASSUME NEW k \in Nat, k \in S PROVE k + 1 \in S
  <2> SUFFICES ASSUME k + 1 <= n PROVE Cardinality(Upto(k + 1)) >= (k + 1) * m
    OBVIOUS
  <2>1. Upto(k + 1) = Upto(k) \cup Class(k + 1) /\ Upto(k) \cap Class(k + 1) = {}
    OBVIOUS
  <2>2. Cardinality(Class(k + 1)) >= m /\ Cardinality(Upto(k)) >= k * m
    BY <1>3
  <2> HIDE DEF Upto, Class
  <2>3. Cardinality(Upto(k + 1)) = Cardinality(Upto(k)) + Cardinality(Class(k + 1))
    <3>1. Cardinality(Upto(k) \cup Class(k + 1)) =
            Cardinality(Upto(k)) + Cardinality(Class(k + 1))
              - Cardinality(Upto(k) \cap Class(k + 1))
      BY <1>1, FS_Union, Zenon
    <3>2. Cardinality(Upto(k) \cap Class(k + 1)) = 0
      BY <2>1, FS_EmptySet
    <3>3. Cardinality(Upto(k)) \in Nat /\ Cardinality(Class(k + 1)) \in Nat
      BY <1>1
    <3> QED
      BY <2>1, <3>1, <3>2, <3>3
  <2>4. (k + 1) * m = k * m + m
    OBVIOUS
  <2>5. k * m \in Nat
    OBVIOUS
  <2> QED
    BY <1>1, <2>2, <2>3, <2>4, <2>5
<1>4. Cardinality(Upto(n)) >= n * m
  <2>1. n \in S
    <3> HIDE DEF S
    <3> QED
      BY <1>2, <1>3, Induction
  <2> HIDE DEF Upto
  <2> QED
    BY <2>1
<1>5. n * m \in Nat /\ Cardinality(C) \in Nat
  BY FS_CardinalityType
<1> HIDE DEF Upto
<1>6. Cardinality(Upto(n)) \in Nat /\ Cardinality(Upto(n)) <= Cardinality(C)
  BY <1>1
<1> QED
  BY <1>4, <1>5, <1>6

\* A member more or less.
LEMMA CountOne ==
  ASSUME NEW S, IsFiniteSet(S), NEW x
  PROVE  /\ Cardinality(S) \in Nat
         /\ x \in S => Cardinality(S) >= 1
         /\ x \notin S => Cardinality(S \cup {x}) = Cardinality(S) + 1
         /\ x \in S => Cardinality(S \ {x}) = Cardinality(S) - 1
<1>1. Cardinality(S) \in Nat
  BY FS_CardinalityType
<1>2. x \notin S => Cardinality(S \cup {x}) = Cardinality(S) + 1
  BY FS_AddElement
<1>3. IsFiniteSet(S \ {x}) /\ (x \in S => Cardinality(S \ {x}) = Cardinality(S) - 1)
  BY FS_RemoveElement
<1>4. Cardinality(S \ {x}) \in Nat
  BY <1>3, FS_CardinalityType
<1> QED
  BY <1>1, <1>2, <1>3, <1>4
-----------------------------------------------------------------------------
(* The inductive invariant *)

OpenAt(b) == {c \in Conns : at[c] = "open" /\ backend[c] = b}

\* Before the first connection there is no backend and nothing is counted.
LEMMA InitInv == Init => MasterInv
<1> SUFFICES ASSUME Init PROVE MasterInv
  OBVIOUS
<1> USE MasterAssumption DEF Init, Waiting
<1>1. TypeOK
  <2>1. <<>> \in Seq(Conns)
    OBVIOUS
  <2> QED
    BY <2>1 DEF TypeOK, Slots
<1>2. CountExact
  BY FS_EmptySet DEF CountExact, Slots
<1>3. PipeExact
  BY DEF PipeExact
<1>4. BackendsInBounds /\ MasterAt /\ SentToSlot /\ ScannedFull
  BY DEF BackendsInBounds, MasterAt, SentToSlot, ScannedFull
<1> QED
  BY <1>1, <1>2, <1>3, <1>4 DEF MasterInv

\* A step that leaves the open connections, their counters and their backends
\* alone keeps the counters exact.
LEMMA CountKept ==
  ASSUME CountExact, UNCHANGED client_count, \A b \in Slots : OpenAt(b)' = OpenAt(b)
  PROVE  CountExact'
  BY DEF CountExact, OpenAt

\* A step that sends nothing leaves what the scan has found.
LEMMA ScanKept ==
  ASSUME ScannedFull, UNCHANGED <<master, backend>>
  PROVE  ScannedFull'
  BY DEF ScannedFull, LastSentTo

\* A client connects.
LEMMA ConnectInv == ASSUME MasterInv, NEW c \in Conns, Connect(c) PROVE MasterInv'
<1> USE DEF Connect
<1>1. TypeOK' /\ BackendsInBounds' /\ MasterAt' /\ SentToSlot'
  BY DEF MasterInv, TypeOK, BackendsInBounds, MasterAt, SentToSlot
<1>2. \A b \in Slots : OpenAt(b)' = OpenAt(b)
  BY DEF MasterInv, TypeOK, OpenAt
<1>3. PipeExact'
  BY DEF MasterInv, TypeOK, PipeExact
<1> QED
  BY <1>1, <1>2, <1>3, CountKept, ScanKept DEF MasterInv

\* The connection of a client is closed and uncounted.
LEMMA CloseInv == ASSUME MasterInv, NEW c \in Conns, Close(c) PROVE MasterInv'
<1> USE DEF Close
<1>1. \A b \in Slots : IsFiniteSet(OpenAt(b)) /\ client_count[b] = Cardinality(OpenAt(b))
  <2>1. \A b : OpenAt(b) \in SUBSET Conns
    BY DEF OpenAt
  <2> QED
    BY <2>1, MasterAssumption, FS_Subset DEF MasterInv, CountExact, OpenAt
<1>2. backend[c] \in Slots /\ c \in OpenAt(backend[c])
  BY DEF MasterInv, TypeOK, OpenAt
<1>3. /\ OpenAt(backend[c])' = OpenAt(backend[c]) \ {c}
      /\ \A b \in Slots \ {backend[c]} : OpenAt(b)' = OpenAt(b)
  BY DEF MasterInv, TypeOK, OpenAt
<1>4. /\ Cardinality(OpenAt(backend[c]) \ {c}) = client_count[backend[c]] - 1
      /\ client_count[backend[c]] >= 1
  BY <1>1, <1>2, CountOne
<1>5. CountExact'
  <2>1. \A b \in Slots : client_count'[b] = Cardinality(OpenAt(b)')
    BY <1>1, <1>3, <1>4 DEF MasterInv, TypeOK
  <2> QED
    BY <2>1 DEF CountExact, OpenAt
<1>6. TypeOK'
  BY <1>2, <1>4 DEF MasterInv, TypeOK
<1>7. BackendsInBounds' /\ MasterAt' /\ SentToSlot'
  BY DEF MasterInv, TypeOK, BackendsInBounds, MasterAt, SentToSlot
<1>8. PipeExact'
  BY DEF MasterInv, TypeOK, PipeExact
<1> QED
  BY <1>5, <1>6, <1>7, <1>8, ScanKept DEF MasterInv

\* A backend takes the first connection out of its pipe.
LEMMA TakenFacts ==
  ASSUME MasterInv, NEW b \in Slots, pipe[b] # <<>>, NEW c, c = Head(pipe[b])
  PROVE  /\ pipe[b] \in Seq(Conns) /\ Len(pipe[b]) \in Nat \ {0}
         /\ c = pipe[b][1] /\ c \in Conns /\ Tail(pipe[b]) \in Seq(Conns)
         /\ Len(Tail(pipe[b])) = Len(pipe[b]) - 1
         /\ \A k \in 1..Len(pipe[b]) - 1 : Tail(pipe[b])[k] = pipe[b][k + 1]
         /\ at[c] = "pipe" /\ backend[c] = b
<1>1. /\ pipe[b] \in Seq(Conns) /\ Len(pipe[b]) \in Nat \ {0}
      /\ c = pipe[b][1] /\ c \in Conns /\ Tail(pipe[b]) \in Seq(Conns)
      /\ Len(Tail(pipe[b])) = Len(pipe[b]) - 1
      /\ \A k \in 1..Len(pipe[b]) - 1 : Tail(pipe[b])[k] = pipe[b][k + 1]
  BY DEF MasterInv, TypeOK
<1>2. at[c] = "pipe" /\ backend[c] = b
  BY <1>1 DEF MasterInv, PipeExact
<1> QED
  BY <1>1, <1>2

\* The pipe without that connection.
LEMMA TakenFromPipe ==
  ASSUME MasterInv, NEW b \in Slots, pipe[b] # <<>>, NEW c, c = Head(pipe[b]),
         NEW place \in {"open", "stuck"},
         pipe' = [pipe EXCEPT ![b] = Tail(@)], at' = [at EXCEPT ![c] = place],
         backend' = backend
  PROVE  PipeExact'
<1>1. /\ pipe[b] \in Seq(Conns) /\ Len(pipe[b]) \in Nat \ {0}
      /\ c = pipe[b][1] /\ c \in Conns /\ Tail(pipe[b]) \in Seq(Conns)
      /\ Len(Tail(pipe[b])) = Len(pipe[b]) - 1
      /\ \A k \in 1..Len(pipe[b]) - 1 : Tail(pipe[b])[k] = pipe[b][k + 1]
      /\ at[c] = "pipe" /\ backend[c] = b
  BY TakenFacts
<1>2. /\ pipe' = [pipe EXCEPT ![b] = Tail(@)]
      /\ at' = [at EXCEPT ![c] = place]
      /\ backend' = backend
  OBVIOUS
<1> SUFFICES ASSUME NEW d \in Slots, NEW k \in DOMAIN pipe'[d]
             PROVE  /\ at'[pipe'[d][k]] = "pipe" /\ backend'[pipe'[d][k]] = d
                    /\ \A j \in DOMAIN pipe'[d] : pipe'[d][j] = pipe'[d][k] => j = k
  BY DEF PipeExact
<1>3. CASE d = b
  <2>1. pipe'[b] = Tail(pipe[b]) /\ DOMAIN pipe'[b] = 1..Len(pipe[b]) - 1
    BY <1>1, <1>2 DEF MasterInv, TypeOK
  <2>2. /\ \A n \in 1..Len(pipe[b]) - 1 : pipe'[b][n] = pipe[b][n + 1]
        /\ DOMAIN pipe[b] = 1..Len(pipe[b])
    BY <1>1, <2>1
  <2>3. k \in 1..Len(pipe[b]) - 1 /\ k + 1 \in 1..Len(pipe[b]) /\ 1 \in 1..Len(pipe[b])
    BY <1>1, <1>3, <2>1
  <2>4. pipe[b][k + 1] # c /\ at[pipe[b][k + 1]] = "pipe" /\ backend[pipe[b][k + 1]] = b
    BY <1>1, <2>2, <2>3 DEF MasterInv, PipeExact
  <2>5. \A j \in 1..Len(pipe[b]) - 1 : pipe[b][j + 1] = pipe[b][k + 1] => j = k
    BY <1>1, <2>2, <2>3 DEF MasterInv, PipeExact
  <2>6. pipe[b][k + 1] \in Conns
    BY <1>1, <2>3
  <2>7. pipe'[b][k] = pipe[b][k + 1] /\ at'[pipe[b][k + 1]] = at[pipe[b][k + 1]]
    BY <1>2, <2>2, <2>3, <2>4, <2>6 DEF MasterInv, TypeOK
  <2>8. \A j \in DOMAIN pipe'[b] : pipe'[b][j] = pipe'[b][k] => j = k
    BY <2>1, <2>2, <2>5, <2>7
  <2> QED
    BY <1>2, <1>3, <2>4, <2>7, <2>8
<1>4. CASE d # b
  <2>1. pipe'[d] = pipe[d]
    BY <1>2, <1>4 DEF MasterInv, TypeOK
  <2>2. pipe[d][k] \in Conns /\ at[pipe[d][k]] = "pipe" /\ backend[pipe[d][k]] = d
    BY <2>1 DEF MasterInv, TypeOK, PipeExact
  <2> QED
    BY <1>1, <1>2, <1>4, <2>1, <2>2 DEF MasterInv, TypeOK, PipeExact
<1> QED
  BY <1>3, <1>4

\* A backend receives a connection and counts it.
LEMMA ReadInv == ASSUME MasterInv, NEW b \in Slots, read_pipe(b) PROVE MasterInv'
<1> DEFINE c == Head(pipe[b])
<1>1. /\ pipe[b] # <<>> /\ c \in Conns /\ Tail(pipe[b]) \in Seq(Conns)
      /\ at[c] = "pipe" /\ backend[c] = b
  BY TakenFacts DEF read_pipe
<1>2. PipeExact'
  BY TakenFromPipe DEF read_pipe
<1>3. /\ pipe' = [pipe EXCEPT ![b] = Tail(@)]
      /\ at' = [at EXCEPT ![c] = "open"]
      /\ client_count' = [client_count EXCEPT ![b] = @ + 1]
      /\ UNCHANGED <<cur_backend_count, backend, master>>
  BY DEF read_pipe
<1> HIDE DEF c
<1>4. IsFiniteSet(OpenAt(b)) /\ c \notin OpenAt(b)
  <2>1. OpenAt(b) \in SUBSET Conns
    BY DEF OpenAt
  <2> QED
    BY <1>1, <2>1, MasterAssumption, FS_Subset DEF OpenAt
<1>5. OpenAt(b)' = OpenAt(b) \cup {c} /\ \A d \in Slots \ {b} : OpenAt(d)' = OpenAt(d)
  BY <1>1, <1>3 DEF MasterInv, TypeOK, OpenAt
<1>6. CountExact'
  <2>1. \A d \in Slots : client_count[d] = Cardinality(OpenAt(d))
    BY DEF MasterInv, CountExact, OpenAt
  <2>2. Cardinality(OpenAt(b)') = client_count[b] + 1
    BY <1>4, <1>5, <2>1, CountOne
  <2>3. \A d \in Slots : client_count'[d] = Cardinality(OpenAt(d)')
    BY <1>3, <1>5, <2>1, <2>2 DEF MasterInv, TypeOK
  <2> QED
    BY <2>3 DEF CountExact, OpenAt
<1>7. TypeOK'
  BY <1>1, <1>3 DEF MasterInv, TypeOK
<1>8. BackendsInBounds' /\ MasterAt' /\ SentToSlot'
  BY <1>1, <1>3 DEF MasterInv, TypeOK, BackendsInBounds, MasterAt, SentToSlot
<1> QED
  BY <1>2, <1>3, <1>6, <1>7, <1>8, ScanKept DEF MasterInv

\* A backend fails to receive a connection.
LEMMA ReceiveFailedInv == ASSUME MasterInv, NEW b \in Slots, ReceiveFailed(b) PROVE MasterInv'
<1> DEFINE c == Head(pipe[b])
<1>1. /\ pipe[b] # <<>> /\ c \in Conns /\ Tail(pipe[b]) \in Seq(Conns)
      /\ at[c] = "pipe" /\ backend[c] = b
  BY TakenFacts DEF ReceiveFailed
<1>2. PipeExact'
  BY TakenFromPipe DEF ReceiveFailed
<1>3. /\ pipe' = [pipe EXCEPT ![b] = Tail(@)]
      /\ at' = [at EXCEPT ![c] = "stuck"]
      /\ UNCHANGED <<cur_backend_count, client_count, backend, master>>
  BY DEF ReceiveFailed
<1> HIDE DEF c
<1>4. \A d \in Slots : OpenAt(d)' = OpenAt(d)
  BY <1>1, <1>3 DEF MasterInv, TypeOK, OpenAt
<1>5. TypeOK'
  BY <1>1, <1>3 DEF MasterInv, TypeOK
<1>6. BackendsInBounds' /\ MasterAt' /\ SentToSlot'
  BY <1>1, <1>3 DEF MasterInv, TypeOK, BackendsInBounds, MasterAt, SentToSlot
<1> QED
  BY <1>2, <1>3, <1>4, <1>5, <1>6, CountKept, ScanKept DEF MasterInv

\* The master takes a connection from the backlog.
LEMMA NewConnectionInv ==
  ASSUME MasterInv, NEW c \in Conns, on_new_connection(c)
  PROVE  MasterInv'
<1> USE DEF on_new_connection
<1>1. TypeOK' /\ BackendsInBounds' /\ MasterAt' /\ SentToSlot'
  BY DEF MasterInv, TypeOK, BackendsInBounds, MasterAt, SentToSlot
<1>2. CountExact' /\ PipeExact'
  BY DEF MasterInv, CountExact, PipeExact
<1>3. ScannedFull'
  BY DEF ScannedFull
<1> QED
  BY <1>1, <1>2, <1>3 DEF MasterInv

\* A turn of the scan: a backend that is passed over is full of connections other
\* than the one to be placed.
LEMMA GetBackendInv == ASSUME MasterInv, get_backend PROVE MasterInv'
<1>1. /\ master.pc = "scan" /\ master.i \in 1..cur_backend_count
      /\ master.i \in Slots /\ master.conn \in Conns /\ at[master.conn] = "backlog"
      /\ cur_backend_count \in Nat /\ master.i \in Nat
  BY MasterAssumption DEF get_backend, MasterInv, TypeOK, MasterAt, BackendsInBounds, Slots
<1>2. UNCHANGED <<cur_backend_count, client_count, pipe, at, backend>>
  BY DEF get_backend
<1>3. CountExact' /\ PipeExact' /\ SentToSlot' /\ BackendsInBounds'
  BY <1>2 DEF MasterInv, CountExact, PipeExact, SentToSlot, BackendsInBounds
<1>4. CASE client_count[master.i] < MAX_BACKEND_CONNECTIONS_NUM
  <2>1. master' = [master EXCEPT !.pc = "accept"]
    BY <1>4 DEF get_backend
  <2>2. master'.pc = "accept" /\ master'.conn = master.conn /\ master'.i = master.i
    BY <2>1 DEF MasterInv, TypeOK
  <2>3. TypeOK'
    BY <1>2, <2>1 DEF MasterInv, TypeOK
  <2>4. MasterAt' /\ ScannedFull'
    BY <1>1, <1>2, <2>2 DEF MasterAt, ScannedFull, LowestSlot
  <2> QED
    BY <1>3, <2>3, <2>4 DEF MasterInv
<1>5. CASE ~(client_count[master.i] < MAX_BACKEND_CONNECTIONS_NUM)
  <2>1. master' = [master EXCEPT !.i = @ + 1]
    BY <1>5 DEF get_backend
  <2>2. master'.pc = "scan" /\ master'.conn = master.conn /\ master'.i = master.i + 1
    BY <1>1, <2>1 DEF MasterInv, TypeOK
  <2>3. TypeOK'
    <3>1. master \in [pc : {"loop", "scan", "accept"}, conn : Conns \cup {None}, i : Nat]
      BY DEF MasterInv, TypeOK
    <3>2. master' \in [pc : {"loop", "scan", "accept"}, conn : Conns \cup {None}, i : Nat]
      BY <2>1, <3>1
    <3> QED
      BY <1>2, <3>2 DEF MasterInv, TypeOK
  <2>4. MasterAt'
    BY <1>1, <1>2, <2>2 DEF MasterAt
  <2>5. Cardinality(LastSentTo(master.i)) >= MAX_BACKEND_CONNECTIONS_NUM
    <3>1. OpenAt(master.i) \in SUBSET LastSentTo(master.i)
      BY <1>1 DEF OpenAt, LastSentTo
    <3>2. LastSentTo(master.i) \in SUBSET Conns
      BY DEF LastSentTo
    <3>3. /\ Cardinality(OpenAt(master.i)) <= Cardinality(LastSentTo(master.i))
          /\ Cardinality(LastSentTo(master.i)) \in Nat
      BY <3>1, <3>2, MasterAssumption, FS_Subset, FS_CardinalityType
    <3>4. Cardinality(OpenAt(master.i)) = client_count[master.i]
      BY <1>1 DEF MasterInv, CountExact, OpenAt
    <3>5. client_count[master.i] \in Nat
      BY <1>1 DEF MasterInv, TypeOK
    <3> QED
      BY <1>5, <3>3, <3>4, <3>5, MasterAssumption
  <2>6. \A b : LastSentTo(b)' = LastSentTo(b)
    BY <1>2, <2>2 DEF LastSentTo
  <2>7. ScannedFull'
    <3> SUFFICES ASSUME NEW b \in 1..master.i
                 PROVE  Cardinality(LastSentTo(b)') >= MAX_BACKEND_CONNECTIONS_NUM
      BY <1>1, <2>2 DEF ScannedFull
    <3> QED
      BY <1>1, <2>5, <2>6 DEF MasterInv, ScannedFull
  <2> QED
    BY <1>3, <2>3, <2>4, <2>7 DEF MasterInv
<1> QED
  BY <1>4, <1>5

\* The array is never full when a backend is added: if the scan has passed every
\* slot, the connections that filled the backends and the one to be placed are
\* more than there can be.
LEMMA RoomForBackend ==
  ASSUME MasterInv, master.pc = "scan", master.i = cur_backend_count + 1
  PROVE  cur_backend_count < MAX_BACKEND_NUM
<1> SUFFICES ASSUME ~(cur_backend_count < MAX_BACKEND_NUM) PROVE FALSE
  OBVIOUS
<1> DEFINE C == Conns \ {master.conn}
<1>1. /\ cur_backend_count = MAX_BACKEND_NUM /\ MAX_BACKEND_NUM \in Nat
      /\ MAX_BACKEND_CONNECTIONS_NUM \in Nat
      /\ master.i - 1 = MAX_BACKEND_NUM
  BY MasterAssumption DEF MasterInv, TypeOK, BackendsInBounds
<1>2. master.conn \in Conns
  BY DEF MasterInv, MasterAt
<1>3. IsFiniteSet(C) /\ Cardinality(C) = Cardinality(Conns) - 1 /\ Cardinality(Conns) \in Nat
  BY <1>2, MasterAssumption, FS_RemoveElement, FS_CardinalityType
<1>4. \A b \in 1..MAX_BACKEND_NUM :
         Cardinality({c \in C : backend[c] = b}) >= MAX_BACKEND_CONNECTIONS_NUM
  BY <1>1 DEF MasterInv, ScannedFull, LastSentTo
<1> HIDE DEF C
<1>5. Cardinality(C) >= MAX_BACKEND_NUM * MAX_BACKEND_CONNECTIONS_NUM
  BY <1>1, <1>3, <1>4, ClassesCount
<1>6. MAX_BACKEND_NUM * MAX_BACKEND_CONNECTIONS_NUM \in Nat
  BY <1>1
<1> QED
  BY <1>3, <1>5, <1>6, MasterAssumption

\* A backend is added in the next slot, which nobody has used.
LEMMA AddBackendInv == ASSUME MasterInv, add_backend PROVE MasterInv'
<1>1. /\ master.pc = "scan" /\ master.i = cur_backend_count + 1
      /\ cur_backend_count \in Nat /\ master.i \in Nat
  BY DEF add_backend, MasterInv, TypeOK
<1>2. cur_backend_count < MAX_BACKEND_NUM
  BY <1>1, RoomForBackend
<1>3. master.i \in Slots
  BY <1>1, <1>2, MasterAssumption DEF Slots
<1>4. /\ client_count' = [client_count EXCEPT ![master.i] = 0]
      /\ cur_backend_count' = cur_backend_count + 1
      /\ master' = [master EXCEPT !.pc = "accept"]
      /\ UNCHANGED <<pipe, at, backend>>
  BY <1>1 DEF add_backend
<1>5. master'.pc = "accept" /\ master'.conn = master.conn /\ master'.i = master.i
  BY <1>4 DEF MasterInv, TypeOK
<1>6. TypeOK'
  <2>1. client_count' \in [Slots -> Nat] /\ cur_backend_count' \in Nat
    BY <1>1, <1>3, <1>4 DEF MasterInv, TypeOK
  <2>2. master' \in [pc : {"loop", "scan", "accept"}, conn : Conns \cup {None}, i : Nat]
    BY <1>4 DEF MasterInv, TypeOK
  <2> QED
    BY <1>4, <2>1, <2>2 DEF MasterInv, TypeOK
<1>7. BackendsInBounds'
  BY <1>1, <1>2, <1>4, MasterAssumption DEF BackendsInBounds
<1>8. CountExact'
  <2>1. OpenAt(master.i) = {}
    BY <1>1 DEF OpenAt, MasterInv, SentToSlot, LowestSlot
  <2>2. \A b \in Slots : OpenAt(b)' = OpenAt(b) /\ client_count[b] = Cardinality(OpenAt(b))
    BY <1>4 DEF OpenAt, MasterInv, CountExact
  <2>3. \A b \in Slots : client_count'[b] = Cardinality(OpenAt(b)')
    BY <1>3, <1>4, <2>1, <2>2, FS_EmptySet DEF MasterInv, TypeOK
  <2> QED
    BY <2>3 DEF CountExact, OpenAt
<1>9. MasterAt' /\ ScannedFull'
  BY <1>1, <1>4, <1>5 DEF MasterInv, MasterAt, ScannedFull, LowestSlot
<1>10. PipeExact' /\ SentToSlot'
  BY <1>1, <1>4 DEF MasterInv, PipeExact, SentToSlot, LowestSlot
<1> QED
  BY <1>6, <1>7, <1>8, <1>9, <1>10 DEF MasterInv

\* The backend could not be added: the last slot in use is taken.
LEMMA AddFailedInv == ASSUME MasterInv, AddFailed PROVE MasterInv'
<1>1. /\ UNCHANGED <<cur_backend_count, client_count, pipe, at, backend>>
      /\ master' = [master EXCEPT !.pc = "accept", !.i = cur_backend_count]
      /\ master.pc = "scan" /\ cur_backend_count \in Nat
      /\ cur_backend_count > 0 \/ "add_first" \in Faults
  BY DEF AddFailed, MasterInv, TypeOK
<1>2. master'.pc = "accept" /\ master'.conn = master.conn /\ master'.i = cur_backend_count
  BY <1>1 DEF MasterInv, TypeOK
<1>3. TypeOK'
  BY <1>1 DEF MasterInv, TypeOK
<1>4. MasterAt' /\ ScannedFull'
  BY <1>1, <1>2 DEF MasterInv, MasterAt, ScannedFull, LowestSlot
<1>5. CountExact' /\ PipeExact' /\ SentToSlot' /\ BackendsInBounds'
  BY <1>1 DEF MasterInv, CountExact, PipeExact, SentToSlot, BackendsInBounds
<1> QED
  BY <1>3, <1>4, <1>5 DEF MasterInv
\* The connection goes into the pipe of the chosen slot.
LEMMA SendInv == ASSUME MasterInv, send_client_to_backend PROVE MasterInv'
<1> DEFINE c == master.conn  b == master.i
<1>1. /\ c \in Conns /\ at[c] = "backlog" /\ b \in LowestSlot..cur_backend_count
      /\ cur_backend_count \in Nat /\ cur_backend_count <= MAX_BACKEND_NUM
  BY DEF send_client_to_backend, MasterInv, TypeOK, MasterAt, BackendsInBounds
<1>2. b \in Slots
  BY <1>1, MasterAssumption DEF LowestSlot, Slots
<1>3. /\ pipe' = [pipe EXCEPT ![b] = Append(@, c)]
      /\ at' = [at EXCEPT ![c] = "pipe"]
      /\ backend' = [backend EXCEPT ![c] = b]
      /\ master' = Waiting
      /\ UNCHANGED <<cur_backend_count, client_count>>
  BY DEF send_client_to_backend
<1> HIDE DEF b, c
<1>4. TypeOK'
  <2>1. pipe' \in [Slots -> Seq(Conns)]
    BY <1>1, <1>2, <1>3 DEF MasterInv, TypeOK
  <2> QED
    BY <1>1, <1>2, <1>3, <2>1 DEF MasterInv, TypeOK, Waiting
<1>5. \A d \in Slots : OpenAt(d)' = OpenAt(d)
  BY <1>1, <1>2, <1>3 DEF MasterInv, TypeOK, OpenAt
<1>6. MasterAt' /\ ScannedFull' /\ BackendsInBounds'
  BY <1>3 DEF MasterInv, MasterAt, ScannedFull, BackendsInBounds, Waiting
<1>7. SentToSlot'
  BY <1>1, <1>2, <1>3 DEF MasterInv, TypeOK, SentToSlot
<1>8. PipeExact'
  <2> SUFFICES ASSUME NEW d \in Slots, NEW k \in DOMAIN pipe'[d]
               PROVE  /\ at'[pipe'[d][k]] = "pipe" /\ backend'[pipe'[d][k]] = d
                      /\ \A j \in DOMAIN pipe'[d] : pipe'[d][j] = pipe'[d][k] => j = k
    BY DEF PipeExact
  <2>1. \A e \in Slots : \A j \in DOMAIN pipe[e] :
           pipe[e][j] \in Conns /\ pipe[e][j] # c
    BY <1>1 DEF MasterInv, TypeOK, PipeExact
  <2>2. CASE d = b
    <3>1. /\ pipe'[b] = Append(pipe[b], c) /\ Len(pipe[b]) \in Nat
          /\ DOMAIN pipe[b] = 1..Len(pipe[b]) /\ DOMAIN pipe'[b] = 1..Len(pipe[b]) + 1
          /\ \A j \in 1..Len(pipe[b]) : pipe'[b][j] = pipe[b][j]
          /\ pipe'[b][Len(pipe[b]) + 1] = c
      BY <1>1, <1>2, <1>3 DEF MasterInv, TypeOK
    <3>2. CASE k = Len(pipe[b]) + 1
      BY <1>1, <1>2, <1>3, <2>1, <2>2, <3>1, <3>2 DEF MasterInv, TypeOK
    <3>3. CASE k \in 1..Len(pipe[b])
      <4>1. /\ at[pipe[b][k]] = "pipe" /\ backend[pipe[b][k]] = b
            /\ \A j \in DOMAIN pipe[b] : pipe[b][j] = pipe[b][k] => j = k
        BY <1>2, <3>1, <3>3 DEF MasterInv, PipeExact
      <4> QED
        BY <1>1, <1>2, <1>3, <2>1, <2>2, <3>1, <3>3, <4>1 DEF MasterInv, TypeOK
    <3> QED
      BY <2>2, <3>1, <3>2, <3>3
  <2>3. CASE d # b
    <3>1. pipe'[d] = pipe[d]
      BY <1>3, <2>3 DEF MasterInv, TypeOK
    <3>2. /\ at[pipe[d][k]] = "pipe" /\ backend[pipe[d][k]] = d
          /\ \A j \in DOMAIN pipe[d] : pipe[d][j] = pipe[d][k] => j = k
      BY <3>1 DEF MasterInv, PipeExact
    <3> QED
      BY <1>3, <2>1, <3>1, <3>2 DEF MasterInv, TypeOK
  <2> QED
    BY <2>2, <2>3
<1> QED
  BY <1>3, <1>4, <1>5, <1>6, <1>7, <1>8, CountKept DEF MasterInv

\* The connection is lost, or kept where nobody serves it.
LEMMA NotSentInv == ASSUME MasterInv, AcceptFailed \/ SendFailed PROVE MasterInv'
<1>1. /\ master.conn \in Conns /\ at[master.conn] = "backlog"
      /\ at' \in {[at EXCEPT ![master.conn] = "closed"], [at EXCEPT ![master.conn] = "stuck"]}
      /\ master' = Waiting
      /\ UNCHANGED <<cur_backend_count, client_count, pipe, backend>>
  BY DEF AcceptFailed, SendFailed, MasterInv, MasterAt
<1>2. TypeOK'
  BY <1>1 DEF MasterInv, TypeOK, Waiting
<1>3. \A b \in Slots : OpenAt(b)' = OpenAt(b)
  BY <1>1 DEF MasterInv, TypeOK, OpenAt
<1>4. MasterAt' /\ ScannedFull' /\ BackendsInBounds' /\ SentToSlot'
  BY <1>1 DEF MasterInv, TypeOK, MasterAt, ScannedFull, BackendsInBounds, SentToSlot, Waiting
<1>5. PipeExact'
  BY <1>1 DEF MasterInv, TypeOK, PipeExact
<1> QED
  BY <1>1, <1>2, <1>3, <1>4, <1>5, CountKept DEF MasterInv

\* Every step of the master, of a backend and of a client preserves the invariant.
LEMMA StepInv == MasterInv /\ [Next]_vars => MasterInv'
<1> SUFFICES ASSUME MasterInv, [Next]_vars PROVE MasterInv'
  OBVIOUS
<1>1. CASE Master
  BY <1>1, NewConnectionInv, GetBackendInv, AddBackendInv, AddFailedInv, SendInv, NotSentInv
     DEF Master
<1>2. CASE UNCHANGED vars
  <2>1. TypeOK' /\ BackendsInBounds' /\ MasterAt' /\ SentToSlot'
    BY <1>2 DEF vars, MasterInv, TypeOK, BackendsInBounds, MasterAt, SentToSlot
  <2>2. CountExact' /\ PipeExact'
    BY <1>2 DEF vars, MasterInv, CountExact, PipeExact
  <2> QED
    BY <1>2, <2>1, <2>2, ScanKept DEF vars, MasterInv
<1> QED
  BY <1>1, <1>2, ConnectInv, CloseInv, ReadInv, ReceiveFailedInv DEF Next, Backend

-----------------------------------------------------------------------------
\* The counters never go below zero, no client is sent to a slot outside the arrays
\* and everything keeps its type.
THEOREM TypeCorrect == Spec => []TypeOK
<1>1. MasterInv => TypeOK
  BY DEF MasterInv
<1> QED
  BY InitInv, StepInv, <1>1, PTL DEF Spec

\* With no more clients at a time than the backends may have together, get_backend
\* never adds a backend behind the end of the array, whatever the order in which
\* clients come and go while it reads the counters.
THEOREM NeverTooManyBackends == Spec => []BackendsInBounds
<1>1. MasterInv => BackendsInBounds
  BY DEF MasterInv
<1> QED
  BY InitInv, StepInv, <1>1, PTL DEF Spec

\* client_count of a backend is the number of connections it has open.
THEOREM CountersExact == Spec => []CountExact
<1>1. MasterInv => CountExact
  BY DEF MasterInv
<1> QED
  BY InitInv, StepInv, <1>1, PTL DEF Spec

\* As long as the first backend can be created, every connection is handed to a
\* backend that exists, whichever later failures are ignored.
THEOREM ConnectionsReachBackends ==
  ASSUME "add_first" \notin Faults
  PROVE  Spec => []SentToBackend
<1>1. MasterInv => SentToBackend
  BY DEF MasterInv, SentToSlot, SentToBackend, LowestSlot
<1> QED
  BY InitInv, StepInv, <1>1, PTL DEF Spec
=============================================================================
