------------------------------- MODULE MCLog -------------------------------
(***************************************************************************)
(* A small instance of Log for TLC: two processes work on two blocks each, *)
(* one of which they share; into the last one only ever d1 is written.     *)
(***************************************************************************)
EXTENDS Log

CONSTANTS p1, p2, b1, b2, b3, d1

MCNext ==
  /\ Next
  /\ blk'[p1] # b3 /\ blk'[p2] # b1
  /\ cache[b3] = d1 => cache'[b3] \in {d1, None}
MCSpec == Init /\ [][MCNext]_vars /\ Fairness
=============================================================================
