------------------------------ MODULE Terminal ------------------------------
(***************************************************************************)
(* What the console of xv6 promises those who read it: typed characters    *)
(* can be edited until a newline, a control-D or a full buffer makes them  *)
(* ready; a read takes ready characters up to the end of a line; a         *)
(* control-D ends a read, and a read that finds nothing else returns no    *)
(* characters and takes the control-D along.                               *)
(***************************************************************************)
EXTENDS Naturals, Sequences, SequencesExt

CONSTANTS Readers, Keys, Capacity, MaxRead
VARIABLES edit, ready, call

vars == <<edit, ready, call>>
Idle == [want |-> 0, got |-> <<>>, done |-> TRUE]

Type(c) ==
  /\ call' = call
  /\ CASE c = "ctrl-U" -> edit' = <<>> /\ ready' = ready
       [] c = "backspace" -> edit' = (IF edit = <<>> THEN <<>> ELSE Front(edit)) /\ ready' = ready
       [] OTHER ->
            /\ Len(ready) + Len(edit) < Capacity
            /\ IF c \in {"newline", "ctrl-D"} \/ Len(ready) + Len(edit) + 1 = Capacity
               THEN ready' = ready \o Append(edit, c) /\ edit' = <<>>
               ELSE edit' = Append(edit, c) /\ ready' = ready

Call(p, n) ==
  /\ call[p] = Idle
  /\ call' = [call EXCEPT ![p] = [want |-> n, got |-> <<>>, done |-> FALSE]]
  /\ UNCHANGED <<edit, ready>>
Take(p) ==
  /\ ~call[p].done /\ ready # <<>> /\ Head(ready) # "ctrl-D"
  /\ LET got == Append(call[p].got, Head(ready)) IN
     call' = [call EXCEPT ![p].got = got,
       ![p].done = Head(ready) = "newline" \/ Len(got) = call[p].want]
  /\ ready' = Tail(ready) /\ edit' = edit
Eof(p) ==
  /\ ~call[p].done /\ ready # <<>> /\ Head(ready) = "ctrl-D"
  /\ call' = [call EXCEPT ![p].done = TRUE]
  /\ ready' = (IF call[p].got = <<>> THEN Tail(ready) ELSE ready) /\ edit' = edit
\* The address to read to is not the caller's: one character is lost.
Fault(p) ==
  /\ ~call[p].done /\ ready # <<>>
  /\ call' = [call EXCEPT ![p].done = TRUE]
  /\ ready' = Tail(ready) /\ edit' = edit
\* Killed while it waited.
GiveUp(p) ==
  /\ ~call[p].done /\ ready = <<>>
  /\ call' = [call EXCEPT ![p].done = TRUE]
  /\ UNCHANGED <<edit, ready>>
Return(p) ==
  /\ call[p] # Idle /\ call[p].done
  /\ call' = [call EXCEPT ![p] = Idle]
  /\ UNCHANGED <<edit, ready>>

Init == edit = <<>> /\ ready = <<>> /\ call = [p \in Readers |-> Idle]
Next ==
  \/ \E c \in Keys : Type(c)
  \/ \E p \in Readers : \/ \E n \in 1 .. MaxRead : Call(p, n)
                        \/ Take(p) \/ Eof(p) \/ Fault(p) \/ GiveUp(p) \/ Return(p)
Spec == Init /\ [][Next]_vars
=============================================================================
