-------------------------------- MODULE Grep --------------------------------
(***************************************************************************)
(* user/grep.c: the lines of its input that match a pattern, through a     *)
(* buffer that a line may be longer than, from reads that return as many   *)
(* characters as there happen to be; and the functions on characters in    *)
(* memory of kernel/string.c and user/ulib.c, by which grep moves the rest *)
(* of its buffer and the file system compares names.                       *)
(*                                                                         *)
(* Memory is a function on addresses from 0 up.                            *)
(***************************************************************************)
EXTENDS SequencesExt

CONSTANTS
  Patterns,   \* arguments of grep: sequences of characters
  Inputs,     \* what it reads: sequences of characters
  BufSize,    \* sizeof(buf)
  DIRSIZ,     \* characters of a directory entry's name
  FullNames   \* names as users give them: sequences of characters

ASSUME BufSizeAssumption == BufSize \in Nat /\ BufSize >= 2 /\ DIRSIZ \in Nat \ {0}

VARIABLES
  pattern, input,
  buf, m,     \* of grep(): the buffer, and how much of it holds characters
  unread,     \* what is left of the input
  printed,    \* the lines written
  ended
grepVars == <<pattern, input, buf, m, unread, printed, ended>>

Nul == "\\0"
NewLine == "\n"
-----------------------------------------------------------------------------
(* Characters in memory.                                                   *)

Ascending(n) == [k \in 1 .. n |-> k - 1]
Descending(n) == [k \in 1 .. n |-> n - k]
\* Character after character, in that order, from s to d.
CopyInOrder(mem, d, s, order) == FoldLeft(LAMBDA mm, k : [mm EXCEPT ![d + k] = mm[s + k]], mem, order)

memmove(mem, d, s, n) ==
  CopyInOrder(mem, d, s, IF s < d /\ s + n > d THEN Descending(n) ELSE Ascending(n))
\* Mutant of memmoveUser: as memcpy might have it.
MoveDown(mem, d, s, n) == CopyInOrder(mem, d, s, Descending(n))
memmoveUser(mem, d, s, n) ==
  CopyInOrder(mem, d, s, IF s > d THEN Ascending(n) ELSE Descending(n))

\* The first c from p on, or none before the string ends.
strchr(mem, p, c) ==
  LET at == {q \in DOMAIN mem : q >= p /\ mem[q] = c /\ \A i \in p .. q : mem[i] # Nul}
  IN IF at = {} THEN {} ELSE {CHOOSE q \in at : \A r \in at : q <= r}

\* A string ends at its first Nul; an array of n may have none.
strncmpEqual(p, q, n) ==
  \A i \in 0 .. n - 1 : (\A j \in 0 .. i - 1 : p[j] = q[j] /\ p[j] # Nul) => p[i] = q[i]
strlen(t) == CHOOSE l \in DOMAIN t : t[l] = Nul /\ \A i \in 0 .. l - 1 : t[i] # Nul
strncpy(t, n) == [i \in 0 .. n - 1 |-> IF i < strlen(t) THEN t[i] ELSE Nul]
safestrcpy(s, t, n) ==
  LET l == IF strlen(t) < n THEN strlen(t) ELSE n - 1
  IN [i \in 0 .. n - 1 |-> IF i < l THEN t[i] ELSE IF i = l THEN Nul ELSE s[i]]

\* A path element, in an array of DIRSIZ: skipelem ends it only if it is
\* shorter; dirlink stores it and dirlookup compares it.
CString(w) == [i \in 0 .. Len(w) |-> IF i < Len(w) THEN w[i + 1] ELSE Nul]
skipelem(w, old) ==
  LET moved == [i \in 0 .. DIRSIZ - 1 |-> IF i < Len(w) THEN w[i + 1] ELSE old[i]]
  IN IF Len(w) >= DIRSIZ THEN moved ELSE [moved EXCEPT ![Len(w)] = Nul]
Ended(a) == [i \in 0 .. DIRSIZ |-> IF i < DIRSIZ THEN a[i] ELSE Nul]
dirlink(name) == strncpy(Ended(name), DIRSIZ)
namecmp(s, t) == strncmpEqual(s, t, DIRSIZ)
-----------------------------------------------------------------------------
(* The matcher: on the pattern from i and the text from j, by recursion.   *)

matchhere(re, text) ==
  LET at(s, k) == IF k <= Len(s) THEN s[k] ELSE Nul
      here[i \in 1 .. Len(re) + 1, j \in 1 .. Len(text) + 1] ==
        CASE at(re, i) = Nul -> TRUE
          [] at(re, i + 1) = "*" ->
               LET star[k \in j .. Len(text) + 1] ==
                     \/ here[i + 2, k]
                     \/ /\ at(text, k) # Nul /\ at(re, i) \in {at(text, k), "."}
                        /\ star[k + 1]
               IN star[j]
          [] at(re, i) = "$" /\ at(re, i + 1) = Nul -> at(text, j) = Nul
          [] OTHER -> /\ at(text, j) # Nul /\ at(re, i) \in {".", at(text, j)}
                      /\ here[i + 1, j + 1]
  IN here
match(re, text) ==
  IF re # <<>> /\ re[1] = "^"
  THEN matchhere(Tail(re), text)[1, 1]
  ELSE \E j \in 1 .. Len(text) + 1 : matchhere(re, text)[1, j]
-----------------------------------------------------------------------------
(* grep().                                                                 *)

grepmain ==
  /\ pattern \in Patterns /\ input \in Inputs
  /\ buf = [i \in 0 .. BufSize - 1 |-> Nul] /\ m = 0
  /\ unread = input /\ printed = <<>> /\ ended = FALSE

\* The lines from p on: those that match are written, in the others the
\* newline stays overwritten.
Lines(b, from) ==
  LET RECURSIVE line(_, _, _)
      line(bb, p, out) ==
        IF strchr(bb, p, NewLine) = {} THEN [buf |-> bb, p |-> p, out |-> out]
        ELSE LET q == CHOOSE x \in strchr(bb, p, NewLine) : TRUE
                 text == [k \in 1 .. q - p |-> bb[p + k - 1]]
             IN IF match(pattern, text) THEN line(bb, q + 1, Append(out, text))
                ELSE line([bb EXCEPT ![q] = Nul], q + 1, out)
  IN line(b, from, <<>>)
\* One read of n characters and all that is done with them.
grep(n) ==
  /\ ~ended /\ n \in 1 .. BufSize - m - 1 /\ n <= Len(unread)
  /\ LET got == [i \in DOMAIN buf |-> IF i \in m .. m + n - 1 THEN unread[i - m + 1]
                                      ELSE IF i = m + n THEN Nul ELSE buf[i]]
         done == Lines(got, 0)
     IN /\ printed' = printed \o done.out
        /\ m' = m + n - done.p
        /\ buf' = memmoveUser(done.buf, 0, done.p, m')
  /\ unread' = SubSeq(unread, n + 1, Len(unread))
  /\ UNCHANGED <<pattern, input, ended>>
\* read() has nothing more, or no room is left for it.
grepend ==
  /\ ~ended /\ (unread = <<>> \/ m = BufSize - 1)
  /\ ended' = TRUE
  /\ UNCHANGED <<pattern, input, buf, m, unread, printed>>

grepNext == (\E n \in 1 .. BufSize - 1 : grep(n)) \/ grepend
-----------------------------------------------------------------------------
(* Properties                                                              *)

\* What a pattern means: a list of items, each for one character or for any
\* number, between two anchors.
ItemsOf(re) ==
  LET items[i \in 1 .. Len(re) + 2] ==
        IF i > Len(re) THEN <<>>
        ELSE IF i < Len(re) /\ re[i + 1] = "*" THEN <<[c |-> re[i], star |-> TRUE]>> \o items[i + 2]
        ELSE <<[c |-> re[i], star |-> FALSE]>> \o items[i + 1]
  IN items[1]
FitsItem(item, s) ==
  /\ item.star \/ Len(s) = 1
  /\ \A k \in DOMAIN s : item.c \in {".", s[k]}
\* s is the items' pieces, put together.
FitsItems(items, s) ==
  \E cut \in [1 .. Len(items) + 1 -> 0 .. Len(s)] :
    /\ cut[1] = 0 /\ cut[Len(items) + 1] = Len(s)
    /\ \A k \in DOMAIN items : cut[k] <= cut[k + 1] /\ FitsItem(items[k], SubSeq(s, cut[k] + 1, cut[k + 1]))
Matches(re, text) ==
  LET start == re # <<>> /\ re[1] = "^"
      body == IF start THEN Tail(re) ELSE re
      end == body # <<>> /\ Last(ItemsOf(body)) = [c |-> "$", star |-> FALSE]
      items == IF end THEN Front(ItemsOf(body)) ELSE ItemsOf(body)
  IN \E i \in 1 .. Len(text) + 1, j \in 0 .. Len(text) :
       /\ start => i = 1
       /\ end => j = Len(text)
       /\ i <= j + 1 /\ FitsItems(items, SubSeq(text, i, j))

\* The lines of the input: what has no newline behind it is none.
LinesOf(s) ==
  LET ends == {i \in DOMAIN s : s[i] = NewLine}
      RECURSIVE from(_)
      from(i) == IF \A e \in ends : e < i THEN <<>>
                 ELSE LET e == CHOOSE e \in ends : e >= i /\ \A f \in ends : f < i \/ e <= f
                      IN <<SubSeq(s, i, e - 1)>> \o from(e + 1)
  IN from(1)
Selected(s) == SelectSeq(LinesOf(s), LAMBDA l : Matches(pattern, l))
\* Every line fits, and grep can see where it ends.
Plain == /\ \A i \in DOMAIN input : input[i] # Nul
         /\ \A i \in DOMAIN input : i + BufSize - 2 <= Len(input)
               => \E k \in i .. i + BufSize - 2 : input[k] = NewLine

\* grep writes the lines that match its pattern, in their order, however the
\* reads cut them; with a line too long for its buffer, or a Nul, it writes
\* the first of them and no line that does not match.
GrepPrints ==
  /\ IsPrefix(printed, Selected(input))
  /\ ended /\ Plain => printed = Selected(input)

Moved(mem, d, s, n) == [a \in DOMAIN mem |-> IF a \in d .. d + n - 1 THEN mem[a - d + s] ELSE mem[a]]
\* Moving characters, ranges that overlap either way included.
MovesRight ==
  \A d, s \in DOMAIN buf : \A n \in 0 .. BufSize - (IF d < s THEN s ELSE d) :
    memmove(buf, d, s, n) = Moved(buf, d, s, n) /\ memmoveUser(buf, d, s, n) = Moved(buf, d, s, n)
\* A directory entry is found by the name it was made with, and by another
\* exactly if the two are equal as far as an entry holds them; whatever was in
\* the array before.  A process's name always ends.
NamesFound ==
  \A v, w \in FullNames :
    LET old == strncpy(CString(v), DIRSIZ)
        short(x) == IF Len(x) > DIRSIZ THEN SubSeq(x, 1, DIRSIZ) ELSE x
    IN /\ namecmp(skipelem(w, old), dirlink(skipelem(v, old))) <=> short(v) = short(w)
       /\ \E i \in 0 .. DIRSIZ - 1 : safestrcpy(old, CString(w), DIRSIZ)[i] = Nul
StringsRight == MovesRight /\ NamesFound
=============================================================================
