---------------------------- MODULE MCRwNodeList ----------------------------
(* Five nodes and two swappers, as in MCNodeList: a swapper that waits for   *)
(* its write locks is overtaken by one whose exchange overlaps its own.      *)
EXTENDS RwNodeList
=============================================================================
