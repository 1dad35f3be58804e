------------------------------ MODULE MCServer ------------------------------
(* Instances of Server for TLC: l1 and l2 are answered locally, p1 and
   p2 by the pool. *)
EXTENDS Server

CONSTANTS l1, l2, p1, p2
=============================================================================
