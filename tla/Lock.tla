-------------------------------- MODULE Lock --------------------------------
(***************************************************************************)
(* What every lock of sync/ promises its callers: at most one thread is    *)
(* inside, a thread enters only when nobody is, and only the thread that   *)
(* entered leaves.                                                         *)
(***************************************************************************)
CONSTANTS Threads, None

VARIABLE holder

Init == holder = None

Acquire(t) ==
    /\ holder = None
    /\ holder' = t

Release(t) ==
    /\ holder = t
    /\ holder' = None

Next == \E t \in Threads : Acquire(t) \/ Release(t)

Spec == Init /\ [][Next]_holder
=============================================================================
