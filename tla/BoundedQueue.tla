---------------------------- MODULE BoundedQueue ----------------------------
(***************************************************************************)
(* What sync/queue.h promises of the blocking queues: writers put the      *)
(* successive integers they count, readers get them in the order in which  *)
(* they were put, and there are never more than max_count items.           *)
(***************************************************************************)
EXTENDS Naturals, Sequences

CONSTANTS Writers, Readers, max_count, IntRange

VARIABLES
    items,
    i,      \* of a writer: the next value
    val     \* of a reader: the value of its last queue_get

Init ==
    /\ items = <<>>
    /\ i = [w \in Writers |-> 0]
    /\ val = [r \in Readers |-> 0]

Put(w) ==
    /\ Len(items) < max_count
    /\ items' = Append(items, i[w])
    /\ i' = [i EXCEPT ![w] = (@ + 1) % IntRange]
    /\ UNCHANGED val

Get(r) ==
    /\ items # <<>>
    /\ val' = [val EXCEPT ![r] = Head(items)]
    /\ items' = Tail(items)
    /\ UNCHANGED i

Next == (\E w \in Writers : Put(w)) \/ (\E r \in Readers : Get(r))

Spec == Init /\ [][Next]_<<items, i, val>>
=============================================================================
