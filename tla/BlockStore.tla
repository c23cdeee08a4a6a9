----------------------------- MODULE BlockStore -----------------------------
(***************************************************************************)
(* What the buffer cache promises its callers: every block is one          *)
(* register, however many buffers come and go, and one process at a time   *)
(* owns it.  A change that was neither saved nor pinned may be forgotten,  *)
(* as a whole and while nobody owns the block; every other change stays.   *)
(***************************************************************************)
CONSTANTS Procs, Blocks, Data,
          None    \* not a process

VARIABLES value,   \* the contents of every block, as bread() shows it
          written, \* what was last saved of it with bwrite()
          pinned,  \* the blocks that bpin() keeps in memory
          owner    \* the process between bread() and brelse(), or None

vars == <<value, written, pinned, owner>>

Init == /\ value \in [Blocks -> Data]
        /\ written = value
        /\ pinned = {}
        /\ owner = [b \in Blocks |-> None]

Acquire(p, b) == /\ owner[b] = None
                 /\ owner' = [owner EXCEPT ![b] = p]
                 /\ UNCHANGED <<value, written, pinned>>

Modify(p, b, v) == /\ owner[b] = p
                   /\ value' = [value EXCEPT ![b] = v]
                   /\ UNCHANGED <<written, pinned, owner>>

Save(p, b) == /\ owner[b] = p
              /\ written' = [written EXCEPT ![b] = value[b]]
              /\ UNCHANGED <<value, pinned, owner>>

Pin(p, b) == /\ owner[b] = p
             /\ pinned' = pinned \cup {b}
             /\ UNCHANGED <<value, written, owner>>

Unpin(p, b) == /\ owner[b] = p
               /\ value[b] = written[b]
               /\ pinned' = pinned \ {b}
               /\ UNCHANGED <<value, written, owner>>

Release(p, b) == /\ owner[b] = p
                 /\ owner' = [owner EXCEPT ![b] = None]
                 /\ UNCHANGED <<value, written, pinned>>

Forget(b) == /\ owner[b] = None /\ b \notin pinned
             /\ value' = [value EXCEPT ![b] = written[b]]
             /\ UNCHANGED <<written, pinned, owner>>

Next == \/ UNCHANGED vars
        \/ \E b \in Blocks :
             \/ Forget(b)
             \/ \E p \in Procs : \/ Acquire(p, b) \/ Release(p, b)
                                 \/ Save(p, b) \/ Pin(p, b) \/ Unpin(p, b)
                                 \/ \E v \in Data : Modify(p, b, v)

Spec == Init /\ [][Next]_vars
=============================================================================
