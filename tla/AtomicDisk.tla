----------------------------- MODULE AtomicDisk -----------------------------
(***************************************************************************)
(* What the log promises to the file system (log.c, comment at the top):   *)
(* a disk on which a group of file-system operations becomes durable in    *)
(* one step, and never while one of the group is still under way.  A crash *)
(* throws away everything since the last such step and nothing else.       *)
(***************************************************************************)
CONSTANTS Procs,   \* processes that run file-system operations
          Blocks,  \* home block numbers outside the log area
          Data     \* possible contents of a block

VARIABLES durable,   \* what a reboot would find in every block
          current,   \* what a process that reads a block now would see
          active     \* the processes between begin_op and end_op

vars == <<durable, current, active>>

Init == /\ durable \in [Blocks -> Data]
        /\ current = durable
        /\ active = {}

Begin(p) == /\ p \notin active
            /\ active' = active \cup {p}
            /\ UNCHANGED <<durable, current>>

Write(p, b, v) == /\ p \in active
                  /\ current' = [current EXCEPT ![b] = v]
                  /\ UNCHANGED <<durable, active>>

End(p) == /\ p \in active
          /\ active' = active \ {p}
          /\ UNCHANGED <<durable, current>>

\* Every update of every finished operation becomes durable at once.
Commit == /\ active = {}
          /\ durable' = current
          /\ UNCHANGED <<current, active>>

Crash == /\ current' = durable
         /\ active' = {}
         /\ UNCHANGED durable

Next == \/ \E p \in Procs : Begin(p) \/ End(p)
        \/ \E p \in Procs, b \in Blocks, v \in Data : Write(p, b, v)
        \/ Commit
        \/ Crash

Spec == Init /\ [][Next]_vars
=============================================================================
