----------------------------- MODULE Uninterrupted -----------------------------
(***************************************************************************)
(* What every thread of the kernel may take for granted: its position      *)
(* changes by its own steps alone.                                         *)
(***************************************************************************)
CONSTANTS Procs, Threads, Following
VARIABLES pos,      (* where each thread is: between two of its steps      *)
          pc        (* where the program of each process is                *)

vars == <<pos, pc>>
Scheduler == {<<"main", "acquire">>, <<"acquire", "wait">>,
  <<"wait", "back">>, <<"wait", "acquire">>, <<"back", "acquire">>}
Process == {<<"forkret", "forked">>, <<"forked", "ret">>, <<"ret", "userret">>, <<"userret", "user">>,
  <<"syscall", "acquire0">>, <<"acquire0", "wait0">>, <<"wait0", "check">>,
  <<"check", "end">>, <<"check", "asleep">>, <<"asleep", "acquire1">>, <<"acquire1", "wait1">>,
  <<"wait1", "check">>, <<"end", "ret">>, <<"end", "dead">>,
  <<"user", "exit">>, <<"user", "dead">>, <<"exit", "dead">>, <<"user", "ret">>}

Moves(t, edges) ==
  \E e \in edges : pos[t] = e[1] /\ pos' = [pos EXCEPT ![t] = e[2]]
Next ==
  \E t \in Threads :
    \/ Moves(t, IF t \in Procs THEN Process ELSE Scheduler) /\ UNCHANGED pc
    \/ /\ t \in Procs /\ Moves(t, {<<"user", "syscall">>})
       /\ pc' = [pc EXCEPT ![t] = Following[pc[t]]]
Init ==
  /\ pos = [t \in Threads |-> IF t \in Procs THEN "forkret" ELSE "main"]
  /\ pc = [p \in Procs |-> "u0"]
Spec == Init /\ [][Next]_vars
=============================================================================
