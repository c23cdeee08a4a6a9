------------------------------ MODULE ProcTree ------------------------------
(***************************************************************************)
(* What fork, exit, wait and kill promise: a tree of processes.  Each one  *)
(* has its parent until that exits, then init; a process that has exited   *)
(* is a zombie until its parent of that moment, and no one else, has       *)
(* waited for it, once.                                                    *)
(***************************************************************************)
CONSTANTS Pids, InitPid

VARIABLES parent,  \* the parent of every process there is; init is its own
          zombies, \* those that have exited
          killed   \* those that have been killed

vars == <<parent, zombies, killed>>

Existing == DOMAIN parent
Live == Existing \ zombies

Init == /\ parent = [p \in {InitPid} |-> InitPid]
        /\ zombies = {}
        /\ killed = {}

\* A child may have been killed before fork() is over.
Fork(p, c) == /\ p \in Live /\ c \notin Existing
              /\ parent' = [q \in Existing \cup {c} |-> IF q = c THEN p ELSE parent[q]]
              /\ zombies' = zombies
              /\ killed' \in {killed, killed \cup {c}}

Exit(p) == /\ p \in Live /\ p # InitPid
           /\ zombies' = zombies \cup {p}
           /\ parent' = [c \in Existing |-> IF parent[c] = p THEN InitPid ELSE parent[c]]
           /\ killed' = killed

Wait(p, c) == /\ p \in Live /\ c \in zombies /\ parent[c] = p
              /\ parent' = [q \in Existing \ {c} |-> parent[q]]
              /\ zombies' = zombies \ {c}
              /\ killed' = killed \ {c}

Kill(c) == /\ c \in Existing
           /\ killed' = killed \cup {c}
           /\ UNCHANGED <<parent, zombies>>

Next == \/ UNCHANGED vars
        \/ \E p, c \in Pids : Fork(p, c) \/ Exit(p) \/ Wait(p, c) \/ Kill(c)

Spec == Init /\ [][Next]_vars
=============================================================================
