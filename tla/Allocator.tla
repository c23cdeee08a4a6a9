------------------------------ MODULE Allocator ------------------------------
(***************************************************************************)
(* What malloc and free promise: a block is as large as was asked for,     *)
(* lies in the heap and does not overlap another one that is in use.       *)
(***************************************************************************)
EXTENDS Naturals

CONSTANTS Slots,    (* what holds blocks                                   *)
          NoBlock
VARIABLES heap,     (* the addresses that belong to the heap               *)
          block     (* of each slot: NoBlock, or [at, size]                *)

vars == <<heap, block>>

Span(b) == IF b = NoBlock THEN {} ELSE b.at .. b.at + b.size - 1
Malloc(s) ==
  /\ block[s] = NoBlock
  /\ heap \subseteq heap'
  /\ Span(block'[s]) \subseteq heap'
  /\ \A t \in Slots \ {s} : block'[t] = block[t] /\ Span(block[t]) \cap Span(block'[s]) = {}
Free(s) ==
  /\ block' = [block EXCEPT ![s] = NoBlock]
  /\ UNCHANGED heap
Init == block = [s \in Slots |-> NoBlock]
Next == \E s \in Slots : Malloc(s) \/ Free(s)
Spec == Init /\ [][Next]_vars
==============================================================================
