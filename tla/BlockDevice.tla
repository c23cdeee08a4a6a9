---------------------------- MODULE BlockDevice ----------------------------
(***************************************************************************)
(* What virtio_disk_rw() promises: the contents of a buffer go to its      *)
(* block, or the block to the buffer, at one moment between call and       *)
(* return, and nothing else changes either.                                *)
(***************************************************************************)
CONSTANTS Bufs,  \* buffers; each caches a block of its own
          Data

VARIABLES block,  \* the contents of the block of every buffer, on the disk
          data,   \* the contents of every buffer
          req     \* "none", "read", "write" or "done"

vars == <<block, data, req>>

Init == /\ block \in [Bufs -> Data] /\ data \in [Bufs -> Data]
        /\ req = [b \in Bufs |-> "none"]

\* The caller owns the buffer, and may have changed it before.
Call(b, rw, v) == /\ req[b] = "none"
                  /\ req' = [req EXCEPT ![b] = rw]
                  /\ data' = [data EXCEPT ![b] = v]
                  /\ block' = block

Transfer(b) == /\ req[b] \in {"read", "write"}
               /\ req' = [req EXCEPT ![b] = "done"]
               /\ IF req[b] = "read"
                  THEN data' = [data EXCEPT ![b] = block[b]] /\ block' = block
                  ELSE block' = [block EXCEPT ![b] = data[b]] /\ data' = data

Return(b) == /\ req[b] = "done"
             /\ req' = [req EXCEPT ![b] = "none"]
             /\ UNCHANGED <<block, data>>

Next == \/ UNCHANGED vars
        \/ \E b \in Bufs : \/ Transfer(b) \/ Return(b)
                          \/ \E rw \in {"read", "write"}, v \in Data : Call(b, rw, v)

Spec == Init /\ [][Next]_vars
=============================================================================
