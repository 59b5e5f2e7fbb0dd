----------------------------- MODULE MCNodeList -----------------------------
(* Five nodes, so that the exchanges of the two swappers overlap: randElem is *)
(* 1 or 2, and node 3 takes part in both.                                     *)
EXTENDS NodeList
=============================================================================
