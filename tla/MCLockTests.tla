----------------------------- MODULE MCLockTests -----------------------------
(* Three workers: the fewest with which a thread sleeps on the futex while   *)
(* two others exchange the word.                                             *)
EXTENDS LockTests
=============================================================================
