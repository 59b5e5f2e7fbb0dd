------------------------------ MODULE MCQueues ------------------------------
(* Two writers and two readers, so that a signal has a choice and can be     *)
(* overtaken, on a queue that is empty, half full and full.                  *)
EXTENDS Queues
=============================================================================
