----------------------------- MODULE ByteStream -----------------------------
(***************************************************************************)
(* What a pipe promises: a bounded first-in first-out stream of bytes with *)
(* a write end and a read end.  Nothing is written once the read end is    *)
(* closed; what was written before the write end closed can still be read. *)
(***************************************************************************)
EXTENDS Naturals, Sequences

CONSTANTS Data, Capacity

VARIABLES queue, readopen, writeopen

vars == <<queue, readopen, writeopen>>

Init == queue = <<>> /\ readopen = TRUE /\ writeopen = TRUE

Put(v) == /\ readopen /\ writeopen
          /\ Len(queue) < Capacity
          /\ queue' = Append(queue, v)
          /\ UNCHANGED <<readopen, writeopen>>

Get == /\ readopen
       /\ queue # <<>>
       /\ queue' = Tail(queue)
       /\ UNCHANGED <<readopen, writeopen>>

CloseRead == readopen /\ readopen' = FALSE /\ UNCHANGED <<queue, writeopen>>
CloseWrite == writeopen /\ writeopen' = FALSE /\ UNCHANGED <<queue, readopen>>

Next == (\E v \in Data : Put(v)) \/ Get \/ CloseRead \/ CloseWrite

Spec == Init /\ [][Next]_vars
=============================================================================
