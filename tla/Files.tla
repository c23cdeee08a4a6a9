-------------------------------- MODULE Files --------------------------------
(***************************************************************************)
(* What the file system promises about the contents of files: a write puts *)
(* bytes at an offset no further than the end of the file, opening with    *)
(* O_TRUNC empties it, and what the calls since the last moment without an *)
(* unfinished call did is lost by a crash as a whole.  A write that fails  *)
(* may leave bytes of less than a piece in the file, which no call has     *)
(* reported: they may become durable or not, and until they are written    *)
(* over the file may get back what it durably has there.                   *)
(***************************************************************************)
EXTENDS Naturals, Sequences

CONSTANTS Procs, Inums, MaxSize, Piece, Torn
VARIABLES file, durable, ops

vars == <<file, durable, ops>>

Begin(p) == p \notin ops /\ ops' = ops \cup {p} /\ UNCHANGED <<file, durable>>
\* A piece of a write to file i: m bytes, each of them i, from off on.
Written(f, i, off, m) ==
  [k \in 1 .. (IF off + m > Len(f) THEN off + m ELSE Len(f)) |->
     IF k > off /\ k <= off + m THEN i ELSE f[k]]
\* O_TRUNC, or a piece of a write, by an unfinished call.
Change ==
  LET old == file
      new == file'
  IN
  /\ ops # {}
  /\ \E i \in Inums :
       /\ new = [old EXCEPT ![i] = new[i]]
       /\ \/ new[i] = <<>>
          \/ \E off \in 0 .. Len(old[i]), m \in 1 .. Piece :
               off + m <= MaxSize /\ new[i] = Written(old[i], i, off, m)
  /\ UNCHANGED <<durable, ops>>
\* The part of a failing write that lies within the file.
Tear ==
  /\ ops # {}
  /\ \E i \in Inums : \E off \in 0 .. Len(file[i]) - 1, m \in 1 .. Piece - 1 :
       file' = [file EXCEPT ![i] = [k \in DOMAIN @ |-> IF k > off /\ k <= off + m THEN Torn ELSE @[k]]]
  /\ UNCHANGED <<durable, ops>>
\* The files with what is durable in some of the torn places.
TornPlaces == {<<i, k>> \in Inums \X (1 .. MaxSize) :
                 k <= Len(file[i]) /\ file[i][k] = Torn /\ k <= Len(durable[i])}
Mended(S) == [i \in Inums |-> [k \in 1 .. Len(file[i]) |-> IF <<i, k>> \in S THEN durable[i][k] ELSE file[i][k]]]
Mend ==
  /\ \E S \in SUBSET TornPlaces : file' = Mended(S)
  /\ UNCHANGED <<durable, ops>>
End(p) ==
  /\ p \in ops
  /\ ops' = ops \ {p}
  /\ IF ops' = {} THEN \E S \in SUBSET TornPlaces : durable' = Mended(S) ELSE durable' = durable
  /\ UNCHANGED file
Crash == file' = durable /\ ops' = {} /\ UNCHANGED durable

Init ==
  /\ DOMAIN file = Inums
  /\ \A i \in Inums : file[i] \in Seq({0, i}) /\ Len(file[i]) <= MaxSize
  /\ durable = file /\ ops = {}
Next ==
  \/ UNCHANGED vars
  \/ Crash
  \/ \E p \in Procs : Begin(p) \/ End(p)
  \/ Change \/ Tear \/ Mend
Spec == Init /\ [][Next]_vars
==============================================================================
