------------------------------ MODULE MCCluster ------------------------------
(* Two workers with two coroutines that yield twice.  Of the three thread ids *)
(* 1 and 3 fall into one bucket of the map, 2 into the other.                 *)
EXTENDS Cluster
=============================================================================
