------------------------------ MODULE MCMaster ------------------------------
(* Four clients at a time fill two backends of two clients exactly; clients  *)
(* that are closed connect again.                                            *)
EXTENDS Master
=============================================================================
