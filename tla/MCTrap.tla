-------------------------------- MODULE MCTrap --------------------------------
(***************************************************************************)
(* Three small machines: two harts and a process that nobody kills; one    *)
(* hart, one process and a device; one hart and two processes.             *)
(***************************************************************************)
EXTENDS Trap

VARIABLE which

Forked == {p \in Procs : proc[p].state # "UNUSED"}
\* The harts that run.
On(h) == h = 0 \/ which = "harts"
MCInit ==
  /\ start
  /\ which \in {"harts", "device", "processes"}
  /\ Forked = IF which = "processes" THEN Procs ELSE {0}
MCNext ==
  /\ Next
  /\ On(1) \/ (at'[SchedOf(1)] = "main" /\ ~csr'[1].ssip)
  /\ which # "device" => plic' = plic
  /\ which = "harts" => ~proc'[0].killed /\ (at'[0] = "acquire0" => nap'[0].n > 0)
  /\ UNCHANGED which
MCFair ==
  /\ \A h \in Harts :
       /\ WF_vars(On(h) /\ Step(h))
       /\ WF_vars(On(h) /\ timervec(h))
       /\ SF_vars(On(h) /\ Interrupt(h, "timer"))
  /\ \A t \in Threads : SF_vars((t = SchedOf(1) => On(1)) /\ Own(t))
MCSpec == MCInit /\ [][MCNext]_<<vars, which>> /\ MCFair

(***************************************************************************)
(* Liveness: sys_sleep returns, however its ticks, the interrupts, a kill, *)
(* the other process and the schedulers of the harts fall.  Checked for    *)
(* process 0; another one differs in nothing but its place in proc[].      *)
(***************************************************************************)
SleepEnds == at[0] = "check" ~> at[0] = "end"
=============================================================================
