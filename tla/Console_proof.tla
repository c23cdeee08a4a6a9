---------------------------- MODULE Console_proof ----------------------------
(***************************************************************************)
(* Proofs about Console, for any number of readers and writers, any size   *)
(* of both rings, and input indices that wrap at any multiple of the size. *)
(***************************************************************************)
EXTENDS Console, SequenceTheorems, TLAPS

Chars == Keys \cup {"newline"}
Nothing == <<"echo", 0>>
Out == (Writers \X Nat) \cup {Nothing}

Wide == 0 .. UintMod - 1
ConsRecord == [buf : [0 .. INPUT_BUF - 1 -> Chars], r : Wide, w : Wide, e : Wide,
               lock : Readers \cup {Handler, None}]

ConsTypes ==
  /\ cons \in ConsRecord
  /\ reader \in [Readers -> [pc : {"idle", "enter", "run", "sleep", "done"}, want : Nat, got : Seq(Chars)]]
TxTypes ==
  /\ tx \in [buf : [0 .. UART_TX_BUF_SIZE - 1 -> Out], w : Nat, r : Nat, lock : Writers \cup {Handler, None}]
  /\ writer \in [Writers -> [pc : {"idle", "put", "sleep", "start", "start-put"}, put : Nat]]
  /\ sent \in [Writers -> Nat]
IntrTypes ==
  /\ intr \in [pc : {"idle", "get", "echo", "echo-put", "start", "start-put"}, echo : Nat]
  /\ intr.pc = "echo-put" => intr.echo # 0
  /\ uart \in [rx : Seq(Keys), fifo : Seq(Out), irq : BOOLEAN]

\* Who has the two locks.
Locks ==
  /\ \A p \in Readers : reader[p].pc \in {"run", "done"} <=> cons.lock = p
  /\ intr.pc \in {"echo", "echo-put"} <=> cons.lock = Handler
  /\ \A p \in Writers : writer[p].pc \in {"start", "start-put"} <=> tx.lock = p
  /\ intr.pc \in {"start", "start-put"} <=> tx.lock = Handler

\* A call asks for something and has nothing before it begins.
Reads == \A p \in Readers : IF reader[p].pc = "idle" THEN reader[p].want = 0 /\ reader[p].got = <<>>
                            ELSE reader[p].want # 0
\* Whatever ends the reason of a sleep wakes the sleepers in the same step.
Sleepers == /\ \A p \in Readers : reader[p].pc = "sleep" => Empty
            /\ \A p \in Writers : writer[p].pc = "sleep" => TxFull

\* The ring holds what is ready and, behind it, what can be edited, in which
\* there is no end of a line; when it is full all is ready.
Dist(a, b) == Uint(b + UintMod - a)
RingOK(c) ==
  /\ Dist(c.r, c.w) + Dist(c.w, c.e) <= INPUT_BUF
  /\ Dist(c.r, c.w) + Dist(c.w, c.e) = INPUT_BUF => Dist(c.w, c.e) = 0
  /\ \A i \in 1 .. Dist(c.w, c.e) : c.buf[(c.w + i - 1) % INPUT_BUF] # "newline"
InputRing == RingOK(cons)

\* Between the look at the status and the write of a character.
Putting == intr.pc = "start-put" \/ \E p \in Writers : writer[p].pc = "start-put"
\* Two characters in the UART at most: those of uartstart and of the echo.
FifoHasRoom ==
  /\ Putting \/ intr.pc = "echo-put" => Len(uart.fifo) <= 1
  /\ Putting /\ intr.pc = "echo-put" => uart.fifo = <<>>

\* The characters of writers: numbered by k in the ring, or in flight, that is
\* taken from it and on their way out of the UART.
Entry(k) == tx.buf[k % UART_TX_BUF_SIZE]
Waiting == tx.r .. tx.w - 1
InFifo == {uart.fifo[i] : i \in 1 .. Len(uart.fifo)} \ {Nothing}
Flying == InFifo \cup {c \in {Entry(tx.r - 1)} : Putting}
OutputRing ==
  /\ tx.r <= tx.w /\ tx.w <= tx.r + UART_TX_BUF_SIZE
  /\ \A p \in Writers : sent[p] <= writer[p].put
  /\ \A k \in Waiting : Entry(k) \in Writers \X Nat
                        /\ sent[Entry(k)[1]] < Entry(k)[2] /\ Entry(k)[2] <= writer[Entry(k)[1]].put
  /\ \A k, l \in Waiting : k < l /\ Entry(k)[1] = Entry(l)[1] => Entry(k)[2] < Entry(l)[2]
\* At most one is in flight, and it is the next of its writer.
OneInFifo == \A i, j \in 1 .. Len(uart.fifo) : uart.fifo[i] # Nothing /\ uart.fifo[j] # Nothing => i = j
OneFlies ==
  /\ OneInFifo
  /\ Putting => InFifo = {} /\ tx.r >= 1 /\ Entry(tx.r - 1) \in Writers \X Nat
  /\ \A c \in Flying : /\ c[2] = sent[c[1]] + 1 /\ c[2] <= writer[c[1]].put
                       /\ \A k \in Waiting : Entry(k)[1] = c[1] => c[2] < Entry(k)[2]
\* None is lost.
NoneLost == \A p \in Writers : \A j \in Nat :
              sent[p] < j /\ j <= writer[p].put =>
                <<p, j>> \in Flying \/ \E k \in Waiting : Entry(k) = <<p, j>>

Output == OutputRing /\ OneFlies /\ NoneLost

(* Counters that wrap, and the places of a ring that they point to.        *)

LEMMA DivMod == ASSUME NEW a \in Nat, NEW P \in Nat \ {0}
                PROVE  /\ a % P \in 0..(P - 1) /\ a \div P \in Nat
                       /\ a = P * (a \div P) + (a % P)
  OBVIOUS

\* The next value of a counter, and how far one counter is behind another.
LEMMA WrapsInc == ASSUME NEW P \in Nat \ {0}, NEW a \in 0..(P - 1)
                  PROVE  (a + 1) % P = IF a + 1 < P THEN a + 1 ELSE 0
  OBVIOUS

LEMMA WrapsSum == ASSUME NEW P \in Nat \ {0}, NEW a \in 0..(P - 1), NEW b \in 0..(P - 1)
                  PROVE  (a + b) % P = IF a + b < P THEN a + b ELSE a + b - P
  OBVIOUS

LEMMA WrapsDiff == ASSUME NEW P \in Nat \ {0}, NEW a \in 0..(P - 1), NEW b \in 0..(P - 1)
                   PROVE  (a + P - b) % P = IF b <= a THEN a - b ELSE a + P - b
  OBVIOUS

LEMMA Quotient == ASSUME NEW P \in Nat \ {0}, NEW q \in Nat, NEW r \in 0..(P - 1)
                  PROVE  (q * P + r) % P = r
  OBVIOUS

LEMMA Distribute == ASSUME NEW P \in Nat, NEW q \in Nat, NEW k \in Nat
                    PROVE  (q + k) * P = q * P + k * P /\ q * P = P * q /\ q * P \in Nat
  OBVIOUS

\* Full rounds do not change a place in the array.
LEMMA Round == ASSUME NEW a \in Nat, NEW k \in Nat, NEW P \in Nat \ {0}
               PROVE  (a + k * P) % P = a % P
<1>1. PICK q \in Nat, r \in 0..(P - 1) : r = a % P /\ a = P * q + r
  BY DivMod
<1>2. PICK s \in Nat : s = q + k
  OBVIOUS
<1>3. a + k * P = s * P + r
  BY <1>1, <1>2, Distribute
<1>4. (s * P + r) % P = r
  BY Quotient
<1> QED
  BY <1>1, <1>3, <1>4

\* Less than a round does.
LEMMA Apart == ASSUME NEW a \in Nat, NEW P \in Nat \ {0}, NEW d \in 1..(P - 1)
               PROVE  (a + d) % P # a % P
<1>1. PICK q \in Nat, r \in 0..(P - 1) : r = a % P /\ a = P * q + r
  BY DivMod
<1>2. CASE r + d < P
  <2>1. PICK s \in 0..(P - 1) : s = r + d
    BY <1>2
  <2>2. a + d = q * P + s
    BY <1>1, <2>1, Distribute
  <2>3. (q * P + s) % P = s
    BY Quotient
  <2>4. (a + d) % P = s
    BY <2>2, <2>3
  <2> QED
    BY <1>1, <2>1, <2>4
<1>3. CASE r + d >= P
  <2>1. PICK s \in 0..(P - 1) : s = r + d - P
    BY <1>3
  <2>2. PICK t \in Nat : t = q + 1
    OBVIOUS
  <2>3. t * P = q * P + P
    BY <2>2, Distribute
  <2>4. a + d = t * P + s
    BY <1>1, <2>1, <2>3, Distribute
  <2>5. (t * P + s) % P = s
    BY Quotient
  <2>6. (a + d) % P = s
    BY <2>4, <2>5
  <2>7. s # r
    BY <2>1
  <2> QED
    BY <1>1, <2>6, <2>7
<1> QED
  BY <1>1, <1>2, <1>3

\* Less than a round apart are two places.
LEMMA PlacesDiffer == ASSUME NEW P \in Nat \ {0}, NEW a \in Nat, NEW i \in Nat, NEW j \in Nat,
                             i # j, i < j + P, j < i + P
                      PROVE  (a + i) % P # (a + j) % P
<1>1. ASSUME NEW x \in Nat, NEW y \in Nat, x < y, y < x + P
      PROVE  (a + x) % P # (a + y) % P
  <2>1. PICK m \in Nat, d \in 1..(P - 1) : m = a + x /\ m + d = a + y
    BY <1>1
  <2>2. (m + d) % P # m % P
    BY Apart
  <2> QED
    BY <2>1, <2>2
<1>2. i < j \/ j < i
  OBVIOUS
<1> QED
  BY <1>1, <1>2

IndInv == ConsTypes /\ TxTypes /\ IntrTypes /\ Locks /\ Reads /\ Sleepers /\ InputRing
          /\ FifoHasRoom /\ Output
-----------------------------------------------------------------------------
(* Numbers                                                                 *)

LEMMA Numbers ==
  /\ INPUT_BUF \in Nat \ {0} /\ UART_TX_BUF_SIZE \in Nat \ {0} /\ UintMod \in Nat \ {0}
  /\ UintMod > INPUT_BUF /\ FifoSize \in Nat /\ FifoSize >= 2 /\ 0 \in Wide
  /\ Handler \notin Readers \cup Writers /\ None \notin Readers \cup Writers /\ "echo" \notin Writers
  /\ Handler # None
  /\ \E m \in Nat : UintMod = m * INPUT_BUF
<1>1. INPUT_BUF \in Nat \ {0} /\ UintMod \in Nat /\ UintMod > INPUT_BUF /\ UintMod % INPUT_BUF = 0
  BY ConsoleAssumption
<1>2. PICK m \in Nat : m = UintMod \div INPUT_BUF
  BY <1>1, DivMod
<1>3. UintMod = INPUT_BUF * m
  BY <1>1, <1>2, DivMod
<1>4. UintMod = m * INPUT_BUF
  BY <1>1, <1>3, Distribute
<1> QED
  BY <1>1, <1>4, ConsoleAssumption, NameAssumption DEF Wide, None, Handler

\* The distance of two indices, without %.
LEMMA DistIs == ASSUME NEW a \in Wide, NEW b \in Wide
                PROVE  /\ Dist(a, b) = IF a <= b THEN b - a ELSE b + UintMod - a
                       /\ Dist(a, b) \in Wide /\ (Dist(a, b) = 0 <=> a = b)
  BY Numbers, WrapsDiff DEF Dist, Uint, Wide

LEMMA UintIs == ASSUME NEW a \in Wide, NEW d \in 0 .. UintMod - 1
                PROVE  /\ Uint(a + d) = IF a + d < UintMod THEN a + d ELSE a + d - UintMod
                       /\ Uint(a + d) \in Wide /\ Dist(a, Uint(a + d)) = d
<1>1. Uint(a + d) = IF a + d < UintMod THEN a + d ELSE a + d - UintMod
  BY Numbers, WrapsSum DEF Uint, Wide
<1>2. Uint(a + d) \in Wide
  BY <1>1, Numbers DEF Wide
<1>3. Dist(a, Uint(a + d)) = IF a <= Uint(a + d) THEN Uint(a + d) - a ELSE Uint(a + d) + UintMod - a
  BY <1>2, DistIs
<1>4. Dist(a, Uint(a + d)) = d
  BY <1>1, <1>3, Numbers DEF Wide
<1> QED
  BY <1>1, <1>2, <1>4

\* Two distances that follow each other and stay below a round.
LEMMA DistSum == ASSUME NEW a \in Wide, NEW b \in Wide, NEW c \in Wide,
                        Dist(a, b) + Dist(b, c) < UintMod
                 PROVE  Dist(a, c) = Dist(a, b) + Dist(b, c)
<1>1. /\ Dist(a, b) = IF a <= b THEN b - a ELSE b + UintMod - a
      /\ Dist(b, c) = IF b <= c THEN c - b ELSE c + UintMod - b
      /\ Dist(a, c) = IF a <= c THEN c - a ELSE c + UintMod - a
  BY DistIs
<1> QED
  BY <1>1, Numbers DEF Wide

\* One more and one less.
LEMMA DistInc == ASSUME NEW a \in Wide, NEW b \in Wide, Dist(a, b) < UintMod - 1
                 PROVE  Uint(b + 1) \in Wide /\ Dist(a, Uint(b + 1)) = Dist(a, b) + 1
<1>1. Uint(b + 1) = IF b + 1 < UintMod THEN b + 1 ELSE 0
  BY Numbers, WrapsInc DEF Uint, Wide
<1>2. Uint(b + 1) \in Wide
  BY <1>1, Numbers DEF Wide
<1>3. /\ Dist(a, b) = IF a <= b THEN b - a ELSE b + UintMod - a
      /\ Dist(a, Uint(b + 1)) = IF a <= Uint(b + 1) THEN Uint(b + 1) - a ELSE Uint(b + 1) + UintMod - a
  BY <1>2, DistIs
<1> QED
  BY <1>1, <1>2, <1>3, Numbers DEF Wide
LEMMA DistTake == ASSUME NEW a \in Wide, NEW b \in Wide, a # b
                  PROVE  Uint(a + 1) \in Wide /\ Dist(Uint(a + 1), b) = Dist(a, b) - 1
<1>1. Uint(a + 1) = IF a + 1 < UintMod THEN a + 1 ELSE 0
  BY Numbers, WrapsInc DEF Uint, Wide
<1>2. Uint(a + 1) \in Wide
  BY <1>1, Numbers DEF Wide
<1>3. /\ Dist(a, b) = IF a <= b THEN b - a ELSE b + UintMod - a
      /\ Dist(Uint(a + 1), b) = IF Uint(a + 1) <= b THEN b - Uint(a + 1) ELSE b + UintMod - Uint(a + 1)
  BY <1>2, DistIs
<1> QED
  BY <1>1, <1>2, <1>3, Numbers DEF Wide
LEMMA DistDec == ASSUME NEW a \in Wide, NEW b \in Wide, a # b
                 PROVE  Dec(b) \in Wide /\ Dist(a, Dec(b)) = Dist(a, b) - 1
<1>1. Dec(b) = IF 1 <= b THEN b - 1 ELSE b + UintMod - 1
  <2>1. 1 \in 0 .. UintMod - 1
    BY Numbers
  <2>2. Dec(b) = (b + UintMod - 1) % UintMod
    BY DEF Dec, Uint
  <2> QED
    BY <2>1, <2>2, Numbers, WrapsDiff DEF Wide
<1>2. Dec(b) \in Wide
  BY <1>1, Numbers DEF Wide
<1>3. /\ Dist(a, b) = IF a <= b THEN b - a ELSE b + UintMod - a
      /\ Dist(a, Dec(b)) = IF a <= Dec(b) THEN Dec(b) - a ELSE Dec(b) + UintMod - a
  BY <1>2, DistIs
<1> QED
  BY <1>1, <1>2, <1>3, Numbers DEF Wide
LEMMA DistBack == ASSUME NEW a \in Wide, NEW b \in Wide
                  PROVE  Uint(b + UintMod - Dist(a, b)) = a
<1>1. Dist(a, b) \in Wide
  BY DistIs
<1>2. Uint(b + UintMod - Dist(a, b)) = IF Dist(a, b) <= b THEN b - Dist(a, b) ELSE b + UintMod - Dist(a, b)
  BY <1>1, Numbers, WrapsDiff DEF Uint, Wide
<1>3. Dist(a, b) = IF a <= b THEN b - a ELSE b + UintMod - a
  BY DistIs
<1> QED
  BY <1>2, <1>3, Numbers DEF Wide

\* Counting the places from another index.
LEMMA SamePlace == ASSUME NEW a \in Wide, NEW b \in Wide, NEW i \in Nat
                   PROVE  (b + i) % INPUT_BUF = (a + Dist(a, b) + i) % INPUT_BUF
<1>1. PICK m \in Nat : UintMod = m * INPUT_BUF
  BY Numbers
<1>2. CASE a <= b
  <2>1. a + Dist(a, b) + i = b + i
    BY <1>2, DistIs, Numbers DEF Wide
  <2> QED
    BY <2>1
<1>3. CASE a > b
  <2>1. a + Dist(a, b) + i = (b + i) + m * INPUT_BUF
    BY <1>1, <1>3, DistIs, Numbers DEF Wide
  <2>2. b + i \in Nat
    BY Numbers DEF Wide
  <2>3. ((b + i) + m * INPUT_BUF) % INPUT_BUF = (b + i) % INPUT_BUF
    BY <1>1, <2>2, Numbers, Round
  <2> QED
    BY <2>1, <2>3
<1> QED
  BY <1>2, <1>3, Numbers DEF Wide

LEMMA InPlace == ASSUME NEW a \in Nat PROVE a % INPUT_BUF \in 0 .. INPUT_BUF - 1
  BY Numbers, DivMod

\* Less than a round apart are two places of the input ring.
LEMMA TwoPlaces == ASSUME NEW a \in Wide, NEW i \in 0 .. INPUT_BUF - 1, NEW j \in 0 .. INPUT_BUF - 1, i # j
                   PROVE  (a + i) % INPUT_BUF # (a + j) % INPUT_BUF
<1>1. a \in Nat /\ i \in Nat /\ j \in Nat /\ i < j + INPUT_BUF /\ j < i + INPUT_BUF
  BY Numbers DEF Wide
<1> QED
  BY <1>1, Numbers, PlacesDiffer
-----------------------------------------------------------------------------
(* What a key does to the ring                                             *)

\* From one index to another: what readers and editors see.
Contents(c, a, b) == [i \in 1 .. Dist(a, b) |-> c.buf[(a + i - 1) % INPUT_BUF]]
\* The place of the next character is in neither part.
LEMMA NextPlace ==
  ASSUME NEW c \in ConsRecord, Dist(c.r, c.w) + Dist(c.w, c.e) < INPUT_BUF
  PROVE  /\ \A i \in 1 .. Dist(c.r, c.w) : c.e % INPUT_BUF # (c.r + i - 1) % INPUT_BUF
         /\ \A i \in 1 .. Dist(c.w, c.e) : c.e % INPUT_BUF # (c.w + i - 1) % INPUT_BUF
         /\ c.e % INPUT_BUF = (c.w + Dist(c.w, c.e)) % INPUT_BUF
         /\ c.e % INPUT_BUF = (c.r + Dist(c.r, c.w) + Dist(c.w, c.e)) % INPUT_BUF
         /\ \A i \in 1 .. Dist(c.w, c.e) :
              (c.w + i - 1) % INPUT_BUF = (c.r + Dist(c.r, c.w) + i - 1) % INPUT_BUF
<1>1. c.r \in Wide /\ c.w \in Wide /\ c.e \in Wide
  BY DEF ConsRecord
<1>2. PICK m \in Wide, n \in Wide : m = Dist(c.r, c.w) /\ n = Dist(c.w, c.e)
  BY <1>1, DistIs
<1>3. m \in Nat /\ n \in Nat /\ m + n < INPUT_BUF /\ m + n < UintMod
  BY <1>2, Numbers DEF Wide
<1>4. c.e % INPUT_BUF = (c.w + n) % INPUT_BUF
  <2>1. (c.e + 0) % INPUT_BUF = (c.w + Dist(c.w, c.e) + 0) % INPUT_BUF
    BY <1>1, SamePlace
  <2>2. c.e + 0 = c.e /\ c.w + Dist(c.w, c.e) + 0 = c.w + n
    BY <1>1, <1>2, <1>3 DEF Wide
  <2> QED
    BY <2>1, <2>2
<1>5. c.e % INPUT_BUF = (c.r + (m + n)) % INPUT_BUF
  <2>1. Dist(c.r, c.e) = m + n
    <3>1. Dist(c.r, c.w) + Dist(c.w, c.e) < UintMod
      BY <1>2, <1>3
    <3>2. Dist(c.r, c.e) = Dist(c.r, c.w) + Dist(c.w, c.e)
      BY <1>1, <3>1, DistSum
    <3> QED
      BY <1>2, <3>2
  <2>2. (c.e + 0) % INPUT_BUF = (c.r + Dist(c.r, c.e) + 0) % INPUT_BUF
    BY <1>1, SamePlace
  <2>3. c.e + 0 = c.e /\ c.r + Dist(c.r, c.e) + 0 = c.r + (m + n)
    BY <1>1, <1>3, <2>1 DEF Wide
  <2> QED
    BY <2>2, <2>3
<1>6. ASSUME NEW i \in 1 .. m PROVE c.e % INPUT_BUF # (c.r + i - 1) % INPUT_BUF
  <2>0. i - 1 \in 0 .. INPUT_BUF - 1 /\ i - 1 # m + n
    BY <1>3, Numbers
  <2>1. PICK j \in 0 .. INPUT_BUF - 1 : j = i - 1 /\ j # m + n
    BY <2>0
  <2>a. c.r + i - 1 = c.r + j
    BY <1>1, <1>3, <2>1 DEF Wide
  <2>2. m + n \in 0 .. INPUT_BUF - 1
    BY <1>3, Numbers
  <2>3. (c.r + j) % INPUT_BUF # (c.r + (m + n)) % INPUT_BUF
    BY <1>1, <2>1, <2>2, TwoPlaces
  <2> QED
    BY <1>5, <2>a, <2>3
<1>7. ASSUME NEW i \in 1 .. n PROVE c.e % INPUT_BUF # (c.w + i - 1) % INPUT_BUF
  <2>0. i - 1 \in 0 .. INPUT_BUF - 1 /\ i - 1 # n
    BY <1>3, Numbers
  <2>1. PICK j \in 0 .. INPUT_BUF - 1 : j = i - 1 /\ j # n
    BY <2>0
  <2>a. c.w + i - 1 = c.w + j
    BY <1>1, <1>3, <2>1 DEF Wide
  <2>2. n \in 0 .. INPUT_BUF - 1
    BY <1>3, Numbers
  <2>3. (c.w + j) % INPUT_BUF # (c.w + n) % INPUT_BUF
    BY <1>1, <2>1, <2>2, TwoPlaces
  <2> QED
    BY <1>4, <2>a, <2>3
<1>8. ASSUME NEW i \in 1 .. n PROVE (c.w + i - 1) % INPUT_BUF = (c.r + m + i - 1) % INPUT_BUF
  <2>1. PICK j \in Nat : j = i - 1 /\ c.w + i - 1 = c.w + j /\ c.r + m + i - 1 = c.r + m + j
    BY <1>1, <1>3 DEF Wide
  <2> QED
    BY <1>1, <1>2, <2>1, SamePlace
<1>9. c.r + (m + n) = c.r + m + n
  BY <1>1, <1>3 DEF Wide
<1> QED
  BY <1>2, <1>4, <1>5, <1>6, <1>7, <1>8, <1>9

\* Control-U takes back all that can be edited.
LEMMA KillIs ==
  ASSUME NEW c \in ConsRecord, RingOK(c)
  PROVE  KillLine(c) = [cons |-> [c EXCEPT !.e = c.w], echo |-> Dist(c.w, c.e), wake |-> FALSE]
<1>1. c.w \in Wide /\ c.e \in Wide
  BY DEF ConsRecord
<1>2. PICK n \in Wide : n = Dist(c.w, c.e)
  BY <1>1, DistIs
<1>3. ASSUME NEW k \in 1 .. n PROVE c.buf[(c.e + UintMod - k) % INPUT_BUF] # "newline"
  <2>1. PICK i \in 1 .. n : i = n - k + 1
    BY <1>2 DEF Wide
  <2>2. PICK j \in Nat : j = n - k /\ c.w + i - 1 = c.w + j
    BY <1>1, <1>2, <2>1 DEF Wide
  <2>3. PICK m \in Nat : UintMod = m * INPUT_BUF
    BY Numbers
  <2>4. c.e + UintMod - k \in {(c.w + j), (c.w + j) + m * INPUT_BUF}
    <3>1. n = IF c.w <= c.e THEN c.e - c.w ELSE c.e + UintMod - c.w
      BY <1>1, <1>2, DistIs
    <3> QED
      BY <1>1, <1>2, <2>2, <2>3, <3>1, Numbers DEF Wide
  <2>5. c.w + j \in Nat
    BY <1>1, <2>2 DEF Wide
  <2>6. ((c.w + j) + m * INPUT_BUF) % INPUT_BUF = (c.w + j) % INPUT_BUF
    BY <2>5, <2>3, Numbers, Round
  <2>7. c.buf[(c.w + i - 1) % INPUT_BUF] # "newline"
    BY <1>2 DEF RingOK
  <2> QED
    BY <2>2, <2>4, <2>6, <2>7
<1>4. Stop(c) = {}
  BY <1>2, <1>3 DEF Stop, Dist
<1>5. Uint(c.e + UintMod - n) = c.w
  BY <1>1, <1>2, DistBack
<1>6. KillLine(c) = [cons |-> [c EXCEPT !.e = Uint(c.e + UintMod - n)], echo |-> n, wake |-> FALSE]
  BY <1>2, <1>4 DEF KillLine, Dist
<1> QED
  BY <1>2, <1>5, <1>6

Stored(c, key) == [c EXCEPT !.buf[c.e % INPUT_BUF] = key, !.e = Uint(c.e + 1)]
Finished(c, key) == [Stored(c, key) EXCEPT !.w = Uint(c.e + 1)]
EndsLine(c, key) == \/ key \in {"newline", "ctrl-D"}
                    \/ Dist(c.r, c.w) + Dist(c.w, c.e) + 1 = INPUT_BUF

LEMMA StoreIs ==
  ASSUME NEW c \in ConsRecord, RingOK(c), NEW key
  PROVE  Store(c, key) =
           IF Dist(c.r, c.w) + Dist(c.w, c.e) = INPUT_BUF
           THEN [cons |-> c, echo |-> 0, wake |-> FALSE]
           ELSE [cons |-> IF EndsLine(c, key) THEN Finished(c, key) ELSE Stored(c, key),
                 echo |-> 1, wake |-> EndsLine(c, key)]
<1>1. c.r \in Wide /\ c.w \in Wide /\ c.e \in Wide
  BY DEF ConsRecord
<1>2. PICK m \in Wide, n \in Wide : m = Dist(c.r, c.w) /\ n = Dist(c.w, c.e)
  BY <1>1, DistIs
<1>3. Used(c) = m + n /\ Dist(c.r, c.e) = m + n
  <2>1. Dist(c.r, c.e) = m + n
    BY <1>1, <1>2, Numbers, DistSum DEF RingOK, Wide
  <2> QED
    BY <2>1 DEF Used, Dist
<1>4. ASSUME m + n # INPUT_BUF
      PROVE  Uint(c.e + 1) = Uint(c.r + INPUT_BUF) <=> m + n + 1 = INPUT_BUF
  <2>1. m + n < UintMod - 1 /\ INPUT_BUF \in 0 .. UintMod - 1
    BY <1>2, <1>4, Numbers DEF RingOK, Wide
  <2>2. Uint(c.e + 1) \in Wide /\ Dist(c.r, Uint(c.e + 1)) = m + n + 1
    BY <1>1, <1>3, <2>1, DistInc
  <2>3. Uint(c.r + INPUT_BUF) \in Wide /\ Dist(c.r, Uint(c.r + INPUT_BUF)) = INPUT_BUF
    BY <1>1, <2>1, UintIs
  <2>4. ASSUME m + n + 1 = INPUT_BUF PROVE Uint(c.e + 1) = Uint(c.r + INPUT_BUF)
    <3>1. \A x \in Wide, y \in Wide : Dist(c.r, x) = Dist(c.r, y) => x = y
      <4>1. \A x \in Wide : Dist(c.r, x) = IF c.r <= x THEN x - c.r ELSE x + UintMod - c.r
        BY <1>1, DistIs
      <4> QED
        BY <1>1, <4>1, Numbers DEF Wide
    <3> QED
      BY <2>2, <2>3, <2>4, <3>1
  <2> QED
    BY <2>2, <2>3, <2>4
<1>5. m \in Nat /\ n \in Nat /\ m + n <= INPUT_BUF
  BY <1>2, Numbers DEF RingOK, Wide
<1>6. CASE m + n = INPUT_BUF
  BY <1>2, <1>3, <1>6, Numbers DEF Store
<1>7. CASE m + n # INPUT_BUF
  <2>1. ~(Used(c) >= INPUT_BUF)
    BY <1>3, <1>5, <1>7, Numbers
  <2>2. /\ Stored(c, key).e = Uint(c.e + 1) /\ Stored(c, key).r = c.r
        /\ Stored(c, key) = [c EXCEPT !.buf[c.e % INPUT_BUF] = key, !.e = Uint(@ + 1)]
    BY DEF Stored, ConsRecord
  <2> DEFINE full == key \in {"newline", "ctrl-D"} \/ Stored(c, key).e = Uint(Stored(c, key).r + INPUT_BUF)
  <2>3. Store(c, key) = [cons |-> IF full THEN [Stored(c, key) EXCEPT !.w = Stored(c, key).e] ELSE Stored(c, key),
                         echo |-> 1, wake |-> full]
    BY <2>1, <2>2 DEF Store
  <2>4. full <=> EndsLine(c, key)
    BY <1>2, <1>4, <1>7, <2>2 DEF EndsLine
  <2>5. full \in BOOLEAN /\ EndsLine(c, key) \in BOOLEAN
    BY DEF EndsLine
  <2>6. full = EndsLine(c, key)
    BY <2>4, <2>5
  <2> HIDE DEF full
  <2> QED
    BY <1>2, <1>7, <2>2, <2>3, <2>6 DEF Finished
<1> QED
  BY <1>6, <1>7
LEMMA ContentsIs ==
  ASSUME NEW c \in ConsRecord, NEW a \in Wide, NEW b \in Wide
  PROVE  /\ Contents(c, a, b) \in Seq(Chars) /\ Len(Contents(c, a, b)) = Dist(a, b)
         /\ Dist(a, b) \in Nat /\ (Contents(c, a, b) = <<>> <=> a = b)
<1>1. Dist(a, b) \in Nat /\ (Dist(a, b) = 0 <=> a = b)
  BY DistIs DEF Wide
<1>2. ASSUME NEW i \in 1 .. Dist(a, b) PROVE c.buf[(a + i - 1) % INPUT_BUF] \in Chars
  <2>1. a + i - 1 \in Nat
    BY <1>1 DEF Wide
  <2>2. (a + i - 1) % INPUT_BUF \in 0 .. INPUT_BUF - 1
    BY <2>1, InPlace
  <2> QED
    BY <2>2 DEF ConsRecord
<1>3. Contents(c, a, b) \in [1 .. Dist(a, b) -> Chars]
  BY <1>2 DEF Contents
<1>4. Contents(c, a, b) \in Seq(Chars)
  BY <1>1, <1>3, SeqDef
<1>5. Len(Contents(c, a, b)) = Dist(a, b)
  BY <1>1, <1>3, <1>4, LenProperties
<1>6. Contents(c, a, b) = <<>> <=> Dist(a, b) = 0
  BY <1>1, <1>4, <1>5, EmptySeq
<1> QED
  BY <1>1, <1>4, <1>5, <1>6

\* Erasing takes the last character of the line.
LEMMA Erased ==
  ASSUME NEW c \in ConsRecord, RingOK(c), c.e # c.w, NEW d, d = [c EXCEPT !.e = Dec(c.e)]
  PROVE  /\ d \in ConsRecord /\ RingOK(d) /\ d.lock = c.lock
         /\ d.r = c.r /\ d.w = c.w
         /\ Contents(d, d.r, d.w) = Contents(c, c.r, c.w)
         /\ Contents(d, d.w, d.e) = SubSeq(Contents(c, c.w, c.e), 1, Len(Contents(c, c.w, c.e)) - 1)
<1>1. c.r \in Wide /\ c.w \in Wide /\ c.e \in Wide
  BY DEF ConsRecord
<1>2. Dec(c.e) \in Wide /\ Dist(c.w, Dec(c.e)) = Dist(c.w, c.e) - 1
  BY <1>1, DistDec
<1>3. d \in ConsRecord /\ d.buf = c.buf /\ d.r = c.r /\ d.w = c.w /\ d.e = Dec(c.e) /\ d.lock = c.lock
  BY <1>2 DEF ConsRecord
<1>4. Dist(c.r, c.w) \in Nat /\ Dist(c.w, c.e) \in Nat /\ Dist(c.w, c.e) >= 1
  BY <1>1, <1>2, DistIs DEF Wide
<1>5. RingOK(d)
  BY <1>2, <1>3, <1>4, Numbers DEF RingOK
<1>6. Contents(d, d.r, d.w) = Contents(c, c.r, c.w)
  BY <1>3 DEF Contents
<1> DEFINE s == Contents(c, c.w, c.e)
           t == SubSeq(s, 1, Len(s) - 1)
           u == Contents(d, d.w, d.e)
<1>7. /\ s \in Seq(Chars) /\ Len(s) = Dist(c.w, c.e)
      /\ \A i \in 1 .. Dist(c.w, c.e) : s[i] = c.buf[(c.w + i - 1) % INPUT_BUF]
  <2>c1. s \in Seq(Chars) /\ Len(s) = Dist(c.w, c.e)
    BY <1>1, ContentsIs
  <2>c2. \A i \in 1 .. Dist(c.w, c.e) : s[i] = c.buf[(c.w + i - 1) % INPUT_BUF]
    BY DEF Contents
  <2> QED
    BY <2>c1, <2>c2
<1>8. /\ u \in Seq(Chars) /\ Len(u) = Dist(c.w, c.e) - 1
      /\ \A i \in 1 .. Dist(c.w, c.e) - 1 : u[i] = c.buf[(c.w + i - 1) % INPUT_BUF]
  <2>0. d \in ConsRecord /\ d.w \in Wide /\ d.e \in Wide
    BY <1>1, <1>2, <1>3
  <2>1. /\ u \in Seq(Chars) /\ Len(u) = Dist(d.w, d.e)
        /\ \A i \in 1 .. Dist(d.w, d.e) : u[i] = d.buf[(d.w + i - 1) % INPUT_BUF]
    <3>1. u \in Seq(Chars) /\ Len(u) = Dist(d.w, d.e)
      BY <2>0, ContentsIs
    <3>2. \A i \in 1 .. Dist(d.w, d.e) : u[i] = d.buf[(d.w + i - 1) % INPUT_BUF]
      BY DEF Contents
    <3> QED
      BY <3>1, <3>2
  <2> HIDE DEF u
  <2> QED
    BY <1>2, <1>3, <2>1
<1> HIDE DEF s, u
<1>9. t \in Seq(Chars) /\ Len(t) = Len(s) - 1 /\ \A i \in 1 .. Len(s) - 1 : t[i] = s[i]
  <2>1. Len(s) - 1 \in Int /\ 1 \in Int /\ Len(s) - 1 - 1 + 1 = Len(s) - 1 /\ Len(s) >= 1
    BY <1>4, <1>7
  <2>2. \A i \in 1 .. Len(s) - 1 : s[i] \in Chars
    BY <1>7, <2>1, ElementOfSeq
  <2>3. /\ t \in Seq(Chars)
        /\ Len(t) = IF 1 <= Len(s) - 1 THEN Len(s) - 1 - 1 + 1 ELSE 0
        /\ \A i \in 1 .. Len(s) - 1 - 1 + 1 : t[i] = s[1 + i - 1]
    BY <2>1, <2>2, SubSeqProperties
  <2> QED
    BY <2>1, <2>3
<1> HIDE DEF t
<1>10. u = t
  <2>1. \A i \in 1 .. Len(u) : u[i] = t[i]
    BY <1>4, <1>7, <1>8, <1>9
  <2> QED
    BY <1>7, <1>8, <1>9, <2>1, SeqEqual
<1> QED
  BY <1>3, <1>5, <1>6, <1>10 DEF s, t, u

\* Control-U all of it.
LEMMA LineKilled ==
  ASSUME NEW c \in ConsRecord, RingOK(c), NEW d, d = [c EXCEPT !.e = c.w]
  PROVE  /\ d \in ConsRecord /\ RingOK(d) /\ d.lock = c.lock
         /\ d.r = c.r /\ d.w = c.w
         /\ Contents(d, d.r, d.w) = Contents(c, c.r, c.w) /\ Contents(d, d.w, d.e) = <<>>
<1>1. c.r \in Wide /\ c.w \in Wide /\ c.e \in Wide
  BY DEF ConsRecord
<1>2. d \in ConsRecord /\ d.buf = c.buf /\ d.r = c.r /\ d.w = c.w /\ d.e = c.w /\ d.lock = c.lock
  BY <1>1 DEF ConsRecord
<1>3. Dist(c.w, c.w) = 0 /\ Dist(c.r, c.w) \in Nat /\ Dist(c.w, c.e) \in Nat
  BY <1>1, DistIs DEF Wide
<1>4. RingOK(d)
  BY <1>2, <1>3, Numbers DEF RingOK
<1>5. Contents(d, d.w, d.e) = <<>>
  BY <1>1, <1>2, ContentsIs
<1> QED
  BY <1>2, <1>4, <1>5 DEF Contents

\* A key goes behind all that is there.
LEMMA KeyStored ==
  ASSUME NEW c \in ConsRecord, NEW key \in Chars, Dist(c.r, c.w) + Dist(c.w, c.e) < INPUT_BUF,
         NEW d, d = Stored(c, key)
  PROVE  /\ d \in ConsRecord /\ d.r = c.r /\ d.w = c.w /\ d.e = Uint(c.e + 1) /\ d.lock = c.lock
         /\ Dist(d.r, d.w) = Dist(c.r, c.w) /\ Dist(d.w, d.e) = Dist(c.w, c.e) + 1
         /\ Contents(d, d.r, d.w) = Contents(c, c.r, c.w)
         /\ Contents(d, d.w, d.e) = Append(Contents(c, c.w, c.e), key)
         /\ \A i \in 1 .. Dist(c.w, c.e) : d.buf[(c.w + i - 1) % INPUT_BUF] = c.buf[(c.w + i - 1) % INPUT_BUF]
         /\ d.buf[(c.w + Dist(c.w, c.e)) % INPUT_BUF] = key
<1>1. c.r \in Wide /\ c.w \in Wide /\ c.e \in Wide /\ c.e \in Nat
  BY DEF ConsRecord, Wide
<1>2. PICK m \in Wide, n \in Wide : m = Dist(c.r, c.w) /\ n = Dist(c.w, c.e)
  BY <1>1, DistIs
<1>3. m \in Nat /\ n \in Nat /\ m + n < INPUT_BUF /\ n < UintMod - 1
  BY <1>2, Numbers DEF Wide
<1>4. Uint(c.e + 1) \in Wide /\ Dist(c.w, Uint(c.e + 1)) = n + 1
  BY <1>1, <1>2, <1>3, DistInc
<1>5. PICK x \in 0 .. INPUT_BUF - 1 : x = c.e % INPUT_BUF
  BY <1>1, InPlace
<1>6. /\ d \in ConsRecord /\ d.r = c.r /\ d.w = c.w /\ d.e = Uint(c.e + 1) /\ d.lock = c.lock
      /\ d.buf = [c.buf EXCEPT ![x] = key]
  BY <1>4, <1>5 DEF Stored, ConsRecord
<1>7. /\ \A y \in 0 .. INPUT_BUF - 1 : y # x => d.buf[y] = c.buf[y]
      /\ d.buf[x] = key
  BY <1>5, <1>6 DEF ConsRecord
<1>8. /\ \A i \in 1 .. m : x # (c.r + i - 1) % INPUT_BUF
      /\ \A i \in 1 .. n : x # (c.w + i - 1) % INPUT_BUF
      /\ x = (c.w + n) % INPUT_BUF
  BY <1>2, <1>5, NextPlace
<1>9. ASSUME NEW i \in 1 .. m PROVE d.buf[(c.r + i - 1) % INPUT_BUF] = c.buf[(c.r + i - 1) % INPUT_BUF]
  <2>1. c.r + i - 1 \in Nat
    BY <1>1 DEF Wide
  <2>2. (c.r + i - 1) % INPUT_BUF \in 0 .. INPUT_BUF - 1
    BY <2>1, InPlace
  <2> QED
    BY <1>7, <1>8, <2>2
<1>10. ASSUME NEW i \in 1 .. n PROVE d.buf[(c.w + i - 1) % INPUT_BUF] = c.buf[(c.w + i - 1) % INPUT_BUF]
  <2>1. c.w + i - 1 \in Nat
    BY <1>1 DEF Wide
  <2>2. (c.w + i - 1) % INPUT_BUF \in 0 .. INPUT_BUF - 1
    BY <2>1, InPlace
  <2> QED
    BY <1>7, <1>8, <2>2
<1>11. Contents(d, d.r, d.w) = Contents(c, c.r, c.w)
  BY <1>2, <1>6, <1>9 DEF Contents
<1> DEFINE s == Contents(c, c.w, c.e)
           t == Append(s, key)
           u == Contents(d, d.w, d.e)
<1>12. s \in Seq(Chars) /\ Len(s) = n /\ \A i \in 1 .. n : s[i] = c.buf[(c.w + i - 1) % INPUT_BUF]
  <2>1. /\ s \in Seq(Chars) /\ Len(s) = Dist(c.w, c.e)
        /\ \A i \in 1 .. Dist(c.w, c.e) : s[i] = c.buf[(c.w + i - 1) % INPUT_BUF]
    <3>1. s \in Seq(Chars) /\ Len(s) = Dist(c.w, c.e)
      BY <1>1, ContentsIs
    <3>2. \A i \in 1 .. Dist(c.w, c.e) : s[i] = c.buf[(c.w + i - 1) % INPUT_BUF]
      BY DEF Contents
    <3> QED
      BY <3>1, <3>2
  <2> HIDE DEF s
  <2> QED
    BY <1>2, <2>1
<1>13. u \in Seq(Chars) /\ Len(u) = n + 1 /\ \A i \in 1 .. n + 1 : u[i] = d.buf[(c.w + i - 1) % INPUT_BUF]
  <2>0. d \in ConsRecord /\ d.w \in Wide /\ d.e \in Wide
    BY <1>1, <1>4, <1>6
  <2>1. /\ u \in Seq(Chars) /\ Len(u) = Dist(d.w, d.e)
        /\ \A i \in 1 .. Dist(d.w, d.e) : u[i] = d.buf[(d.w + i - 1) % INPUT_BUF]
    <3>1. u \in Seq(Chars) /\ Len(u) = Dist(d.w, d.e)
      BY <2>0, ContentsIs
    <3>2. \A i \in 1 .. Dist(d.w, d.e) : u[i] = d.buf[(d.w + i - 1) % INPUT_BUF]
      BY DEF Contents
    <3> QED
      BY <3>1, <3>2
  <2> HIDE DEF u
  <2> QED
    BY <1>4, <1>6, <2>1
<1> HIDE DEF s, u
<1>14. t \in Seq(Chars) /\ Len(t) = n + 1 /\ (\A i \in 1 .. n : t[i] = s[i]) /\ t[n + 1] = key
  BY <1>12, AppendProperties
<1> HIDE DEF t
<1>15. u[n + 1] = key
  <2>1. c.w + (n + 1) - 1 = c.w + n /\ n + 1 \in 1 .. n + 1
    BY <1>1, <1>3 DEF Wide
  <2> QED
    BY <1>7, <1>8, <1>13, <2>1
<1>16. \A i \in 1 .. n + 1 : u[i] = t[i]
  <2>1. \A i \in 1 .. n : u[i] = t[i]
    <3>1. \A i \in 1 .. n : i \in 1 .. n + 1
      BY <1>3
    <3> QED
      BY <1>10, <1>12, <1>13, <1>14, <3>1
  <2>2. \A i \in 1 .. n + 1 : i \in 1 .. n \/ i = n + 1
    BY <1>3
  <2> QED
    BY <1>14, <1>15, <2>1, <2>2
<1>17. u = t
  BY <1>13, <1>14, <1>16, SeqEqual
<1> QED
  BY <1>2, <1>4, <1>6, <1>7, <1>8, <1>10, <1>11, <1>17 DEF s, t, u

\* The two parts of the ring, one after the other.
LEMMA RingParts ==
  ASSUME NEW s \in ConsRecord, Dist(s.r, s.w) + Dist(s.w, s.e) < UintMod
  PROVE  Contents(s, s.r, s.e) = Contents(s, s.r, s.w) \o Contents(s, s.w, s.e)
<1>1. s.r \in Wide /\ s.w \in Wide /\ s.e \in Wide
  BY DEF ConsRecord
<1>2. PICK m \in Nat, n \in Nat : m = Dist(s.r, s.w) /\ n = Dist(s.w, s.e)
  <2>1. Dist(s.r, s.w) \in Nat /\ Dist(s.w, s.e) \in Nat
    BY <1>1, ContentsIs
  <2> QED
    BY <2>1
<1>3. Dist(s.r, s.e) = m + n
  BY <1>1, <1>2, DistSum
<1>12. PICK x \in Seq(Chars) : /\ x = Contents(s, s.r, s.w) /\ Len(x) = m
                              /\ \A i \in 1 .. m : x[i] = s.buf[(s.r + i - 1) % INPUT_BUF]
  <2>1. /\ Contents(s, s.r, s.w) \in Seq(Chars) /\ Len(Contents(s, s.r, s.w)) = Dist(s.r, s.w)
        /\ \A i \in 1 .. Dist(s.r, s.w) : Contents(s, s.r, s.w)[i] = s.buf[(s.r + i - 1) % INPUT_BUF]
    <3>1. Contents(s, s.r, s.w) \in Seq(Chars) /\ Len(Contents(s, s.r, s.w)) = Dist(s.r, s.w)
      BY <1>1, ContentsIs
    <3>2. \A i \in 1 .. Dist(s.r, s.w) : Contents(s, s.r, s.w)[i] = s.buf[(s.r + i - 1) % INPUT_BUF]
      BY DEF Contents
    <3> QED
      BY <3>1, <3>2
  <2> QED
    BY <1>2, <2>1
<1>13. PICK y \in Seq(Chars) : /\ y = Contents(s, s.w, s.e) /\ Len(y) = n
                              /\ \A i \in 1 .. n : y[i] = s.buf[(s.w + i - 1) % INPUT_BUF]
  <2>1. /\ Contents(s, s.w, s.e) \in Seq(Chars) /\ Len(Contents(s, s.w, s.e)) = Dist(s.w, s.e)
        /\ \A i \in 1 .. Dist(s.w, s.e) : Contents(s, s.w, s.e)[i] = s.buf[(s.w + i - 1) % INPUT_BUF]
    <3>1. Contents(s, s.w, s.e) \in Seq(Chars) /\ Len(Contents(s, s.w, s.e)) = Dist(s.w, s.e)
      BY <1>1, ContentsIs
    <3>2. \A i \in 1 .. Dist(s.w, s.e) : Contents(s, s.w, s.e)[i] = s.buf[(s.w + i - 1) % INPUT_BUF]
      BY DEF Contents
    <3> QED
      BY <3>1, <3>2
  <2> QED
    BY <1>2, <2>1
<1>14. PICK z \in Seq(Chars) : /\ z = Contents(s, s.r, s.e) /\ Len(z) = m + n
                              /\ \A i \in 1 .. m + n : z[i] = s.buf[(s.r + i - 1) % INPUT_BUF]
  <2>1. /\ Contents(s, s.r, s.e) \in Seq(Chars) /\ Len(Contents(s, s.r, s.e)) = Dist(s.r, s.e)
        /\ \A i \in 1 .. Dist(s.r, s.e) : Contents(s, s.r, s.e)[i] = s.buf[(s.r + i - 1) % INPUT_BUF]
    <3>1. Contents(s, s.r, s.e) \in Seq(Chars) /\ Len(Contents(s, s.r, s.e)) = Dist(s.r, s.e)
      BY <1>1, ContentsIs
    <3>2. \A i \in 1 .. Dist(s.r, s.e) : Contents(s, s.r, s.e)[i] = s.buf[(s.r + i - 1) % INPUT_BUF]
      BY DEF Contents
    <3> QED
      BY <3>1, <3>2
  <2> QED
    BY <1>3, <2>1
<1>15. /\ x \o y \in Seq(Chars) /\ Len(x \o y) = m + n
       /\ \A i \in 1 .. m + n : (x \o y)[i] = IF i <= m THEN x[i] ELSE y[i - m]
  <2>1. /\ x \o y \in Seq(Chars) /\ Len(x \o y) = Len(x) + Len(y)
        /\ \A i \in 1 .. Len(x) + Len(y) : (x \o y)[i] = IF i <= Len(x) THEN x[i] ELSE y[i - Len(x)]
    BY ConcatProperties
  <2> QED
    BY <1>12, <1>13, <2>1
<1>16. ASSUME NEW i \in 1 .. m + n PROVE z[i] = (x \o y)[i]
  <2>1. CASE i <= m
    <3>1. i \in 1 .. m
      BY <1>2, <2>1
    <3> QED
      BY <1>12, <1>14, <1>15, <2>1, <3>1
  <2>2. CASE i > m
    <3>0. i - m \in 1 .. n /\ i \in Nat
      <4>1. i \in Nat /\ i <= m + n /\ m \in Nat /\ n \in Nat
        BY <1>2
      <4> QED
        BY <2>2, <4>1
    <3>1. PICK j \in 1 .. n : j = i - m
      BY <3>0
    <3>2. PICK k \in Nat : k = j - 1
      BY <1>2
    <3>3. s.w + j - 1 = s.w + k /\ s.r + i - 1 = s.r + m + k
      <4>1. s.w \in Nat /\ s.r \in Nat
        BY <1>1 DEF Wide
      <4>2. j = k + 1 /\ i = m + j
        BY <3>0, <3>1, <3>2
      <4>3. \A a \in Nat : a + (k + 1) - 1 = a + k
        OBVIOUS
      <4>4. \A a \in Nat : a + (m + (k + 1)) - 1 = a + m + k
        OBVIOUS
      <4> QED
        BY <4>1, <4>2, <4>3, <4>4
    <3>4. (s.w + k) % INPUT_BUF = (s.r + m + k) % INPUT_BUF
      <4>1. (s.w + k) % INPUT_BUF = (s.r + Dist(s.r, s.w) + k) % INPUT_BUF
        BY <1>1, SamePlace
      <4> QED
        BY <1>2, <4>1
    <3>5. z[i] = y[j]
      <4>1. y[j] = s.buf[(s.w + j - 1) % INPUT_BUF]
        BY <1>13
      <4>2. z[i] = s.buf[(s.r + i - 1) % INPUT_BUF]
        BY <1>14
      <4> QED
        BY <3>3, <3>4, <4>1, <4>2
    <3>6. ~(i <= m)
      BY <1>2, <2>2
    <3> QED
      BY <1>15, <3>1, <3>5, <3>6
  <2>3. i <= m \/ i > m
    BY <1>2
  <2> QED
    BY <2>1, <2>2, <2>3
<1>17. z = x \o y
  BY <1>14, <1>15, <1>16, SeqEqual
<1> QED
  BY <1>12, <1>13, <1>14, <1>17


LEMMA LineEnds ==
  ASSUME NEW c \in ConsRecord, NEW key \in Chars, Dist(c.r, c.w) + Dist(c.w, c.e) < INPUT_BUF,
         NEW d, d = Finished(c, key)
  PROVE  /\ d \in ConsRecord /\ RingOK(d) /\ d.r = c.r /\ d.lock = c.lock
         /\ Contents(d, d.r, d.w) = Contents(c, c.r, c.w) \o Append(Contents(c, c.w, c.e), key)
         /\ Contents(d, d.w, d.e) = <<>>
<1>1. c.r \in Wide /\ c.w \in Wide /\ c.e \in Wide
  BY DEF ConsRecord
<1>2. PICK m \in Wide, n \in Wide : m = Dist(c.r, c.w) /\ n = Dist(c.w, c.e)
  BY <1>1, DistIs
<1>3. m \in Nat /\ n \in Nat /\ m + n < INPUT_BUF /\ m + n + 1 < UintMod
  BY <1>2, Numbers DEF Wide
<1>4. PICK s : s = Stored(c, key)
  OBVIOUS
<1>5. /\ s \in ConsRecord /\ s.r = c.r /\ s.w = c.w /\ s.lock = c.lock
      /\ s.e \in Wide /\ s.e = Uint(c.e + 1)
      /\ Dist(s.r, s.w) = m /\ Dist(s.w, s.e) = n + 1
      /\ Contents(s, s.r, s.w) = Contents(c, c.r, c.w)
      /\ Contents(s, s.w, s.e) = Append(Contents(c, c.w, c.e), key)
  <2>1. s \in ConsRecord
    BY <1>4, KeyStored
  <2>2. s.e \in Wide
    BY <2>1 DEF ConsRecord
  <2> QED
    BY <1>2, <1>4, <2>1, <2>2, KeyStored
<1>6. /\ d \in ConsRecord /\ d.buf = s.buf /\ d.r = s.r /\ d.w = s.e /\ d.e = s.e /\ d.lock = c.lock
  BY <1>4, <1>5 DEF Finished, ConsRecord
<1>7. Dist(s.r, s.e) = m + (n + 1) /\ s.r \in Wide /\ s.w \in Wide
  <2>1. Dist(s.r, s.w) + Dist(s.w, s.e) < UintMod
    BY <1>3, <1>5
  <2>2. s.r \in Wide /\ s.w \in Wide
    BY <1>1, <1>5
  <2>3. Dist(s.r, s.e) = Dist(s.r, s.w) + Dist(s.w, s.e)
    BY <1>5, <2>1, <2>2, DistSum
  <2> QED
    BY <1>5, <2>2, <2>3
<1>a. s \in ConsRecord /\ s.r \in Wide /\ s.w \in Wide /\ s.e \in Wide
  BY <1>5, <1>7
<1>8. Dist(s.e, s.e) = 0
  BY <1>5, DistIs
<1>9. RingOK(d)
  <2>0. Dist(d.r, d.w) = m + (n + 1) /\ Dist(d.w, d.e) = 0
    BY <1>6, <1>7, <1>8
  <2>1. Dist(d.r, d.w) + Dist(d.w, d.e) <= INPUT_BUF /\ Dist(d.w, d.e) = 0
    BY <1>3, <2>0, Numbers
  <2>2. 1 .. Dist(d.w, d.e) = {}
    BY <2>1
  <2> QED
    BY <2>1, <2>2 DEF RingOK
<1>10. Contents(d, d.w, d.e) = <<>>
  BY <1>5, <1>6, ContentsIs
<1>11. Contents(d, d.r, d.w) = Contents(s, s.r, s.e)
  BY <1>6 DEF Contents
<1>12. Contents(s, s.r, s.e) = Contents(s, s.r, s.w) \o Contents(s, s.w, s.e)
  <2>1. Dist(s.r, s.w) + Dist(s.w, s.e) < UintMod
    BY <1>3, <1>5
  <2> QED
    BY <1>5, <2>1, RingParts
<1> QED
  BY <1>5, <1>6, <1>9, <1>10, <1>11, <1>12

\* A reader takes the first of those that are ready.
LEMMA FirstTaken ==
  ASSUME NEW c \in ConsRecord, RingOK(c), c.r # c.w, NEW d, d = [c EXCEPT !.r = Uint(c.r + 1)]
  PROVE  /\ d \in ConsRecord /\ RingOK(d) /\ d.w = c.w /\ d.e = c.e /\ d.lock = c.lock
         /\ Contents(d, d.r, d.w) = Tail(Contents(c, c.r, c.w))
         /\ Contents(d, d.w, d.e) = Contents(c, c.w, c.e)
         /\ Contents(c, c.r, c.w) # <<>> /\ Head(Contents(c, c.r, c.w)) = c.buf[c.r % INPUT_BUF]
<1>1. c.r \in Wide /\ c.w \in Wide /\ c.e \in Wide
  BY DEF ConsRecord
<1>2. PICK q \in Wide : q = Uint(c.r + 1) /\ Dist(q, c.w) = Dist(c.r, c.w) - 1
  BY <1>1, DistTake
<1>3. d \in ConsRecord /\ d.buf = c.buf /\ d.r = q /\ d.w = c.w /\ d.e = c.e /\ d.lock = c.lock
  BY <1>2 DEF ConsRecord
<1>4. PICK m \in Nat : m = Dist(q, c.w) /\ Dist(c.r, c.w) = m + 1
  BY <1>1, <1>2, DistIs DEF Wide
<1>5. Dist(c.w, c.e) \in Nat
  BY <1>1, DistIs DEF Wide
<1>6. RingOK(d)
  BY <1>3, <1>4, <1>5, Numbers DEF RingOK
<1>7. Contents(d, d.w, d.e) = Contents(c, c.w, c.e)
  BY <1>3 DEF Contents
<1>8. PICK s \in Seq(Chars) : /\ s = Contents(c, c.r, c.w) /\ Len(s) = m + 1 /\ s # <<>>
                             /\ \A i \in 1 .. m + 1 : s[i] = c.buf[(c.r + i - 1) % INPUT_BUF]
  <2>1. /\ Contents(c, c.r, c.w) \in Seq(Chars) /\ Len(Contents(c, c.r, c.w)) = Dist(c.r, c.w)
        /\ \A i \in 1 .. Dist(c.r, c.w) : Contents(c, c.r, c.w)[i] = c.buf[(c.r + i - 1) % INPUT_BUF]
        /\ Contents(c, c.r, c.w) # <<>>
    <3>1. Contents(c, c.r, c.w) \in Seq(Chars) /\ Len(Contents(c, c.r, c.w)) = Dist(c.r, c.w) /\ Contents(c, c.r, c.w) # <<>>
      BY <1>1, ContentsIs
    <3>2. \A i \in 1 .. Dist(c.r, c.w) : Contents(c, c.r, c.w)[i] = c.buf[(c.r + i - 1) % INPUT_BUF]
      BY DEF Contents
    <3> QED
      BY <3>1, <3>2
  <2> QED
    BY <1>4, <2>1
<1>9. PICK u \in Seq(Chars) : /\ u = Contents(d, d.r, d.w) /\ Len(u) = m
                             /\ \A i \in 1 .. m : u[i] = c.buf[(q + i - 1) % INPUT_BUF]
  <2>1. /\ Contents(d, q, c.w) \in Seq(Chars) /\ Len(Contents(d, q, c.w)) = Dist(q, c.w)
        /\ \A i \in 1 .. Dist(q, c.w) : Contents(d, q, c.w)[i] = d.buf[(q + i - 1) % INPUT_BUF]
    <3>1. Contents(d, q, c.w) \in Seq(Chars) /\ Len(Contents(d, q, c.w)) = Dist(q, c.w)
      BY <1>1, <1>3, ContentsIs
    <3>2. \A i \in 1 .. Dist(q, c.w) : Contents(d, q, c.w)[i] = d.buf[(q + i - 1) % INPUT_BUF]
      BY DEF Contents
    <3> QED
      BY <3>1, <3>2
  <2> QED
    BY <1>2, <1>3, <1>4, <2>1
<1>10. /\ Tail(s) \in Seq(Chars) /\ Len(Tail(s)) = m
       /\ \A i \in 1 .. m : Tail(s)[i] = s[i + 1]
  <2>1. /\ Tail(s) \in Seq(Chars) /\ Len(Tail(s)) = Len(s) - 1
        /\ \A i \in 1 .. Len(Tail(s)) : Tail(s)[i] = s[i + 1]
    BY <1>8, HeadTailProperties
  <2> QED
    BY <1>8, <2>1
<1>11. ASSUME NEW i \in 1 .. m PROVE u[i] = Tail(s)[i]
  <2>1. PICK j \in Nat : j = i - 1
    BY <1>4
  <2>2. q + i - 1 = q + j /\ c.r + (i + 1) - 1 = c.r + 1 + j /\ i + 1 \in 1 .. m + 1
    <3>1. q \in Nat /\ c.r \in Nat
      BY <1>1 DEF Wide
    <3>2. i = j + 1 /\ i + 1 \in 1 .. m + 1
      BY <1>4, <2>1
    <3>3. \A a \in Nat : a + (j + 1) - 1 = a + j /\ a + ((j + 1) + 1) - 1 = a + 1 + j
      OBVIOUS
    <3> QED
      BY <3>1, <3>2, <3>3
  <2>3. Dist(c.r, q) = 1
    <3>1. 1 \in 0 .. UintMod - 1
      BY Numbers
    <3> QED
      BY <1>1, <1>2, <3>1, UintIs
  <2>4. (q + j) % INPUT_BUF = (c.r + 1 + j) % INPUT_BUF
    <3>1. (q + j) % INPUT_BUF = (c.r + Dist(c.r, q) + j) % INPUT_BUF
      BY <1>1, SamePlace
    <3> QED
      BY <2>3, <3>1
  <2>5. s[i + 1] = c.buf[(c.r + (i + 1) - 1) % INPUT_BUF]
    BY <1>8, <2>2
  <2> QED
    BY <1>9, <1>10, <2>2, <2>4, <2>5
<1>12. u = Tail(s)
  BY <1>9, <1>10, <1>11, SeqEqual
<1>13. Head(s) = c.buf[c.r % INPUT_BUF]
  <2>1. 1 \in 1 .. m + 1 /\ c.r + 1 - 1 = c.r
    BY <1>1, <1>4 DEF Wide
  <2>2. s[1] = c.buf[(c.r + 1 - 1) % INPUT_BUF]
    BY <1>8, <2>1
  <2> QED
    BY <2>1, <2>2
<1> QED
  BY <1>3, <1>6, <1>7, <1>8, <1>9, <1>12, <1>13
-----------------------------------------------------------------------------
(* The output ring                                                         *)

\* Characters in the UART, and in flight, are those of writers.
LEMMA FifoIs == ASSUME IntrTypes
                PROVE  /\ Len(uart.fifo) \in Nat /\ InFifo \subseteq Writers \X Nat
                       /\ \A i \in 1 .. Len(uart.fifo) : uart.fifo[i] \in Out
<1>1. uart.fifo \in Seq(Out)
  BY DEF IntrTypes
<1>2. Len(uart.fifo) \in Nat /\ \A i \in 1 .. Len(uart.fifo) : uart.fifo[i] \in Out
  BY <1>1, LenProperties, ElementOfSeq
<1> QED
  BY <1>2 DEF InFifo, Out

LEMMA FlyingIs == ASSUME IntrTypes, Output PROVE Flying \subseteq Writers \X Nat
  BY FifoIs DEF Flying, Output, OneFlies

\* Nothing of the output changes.
LEMMA OutputFrame ==
  ASSUME IntrTypes, Output, tx'.buf = tx.buf, tx'.r = tx.r, tx'.w = tx.w, sent' = sent,
         \A p \in Writers : writer'[p].put = writer[p].put,
         Putting' <=> Putting, InFifo' = InFifo, OneInFifo'
  PROVE  Output'
<1>1. \A k : Entry(k)' = Entry(k)
  BY DEF Entry
<1>2. Waiting' = Waiting
  BY DEF Waiting
<1>3. Flying' = Flying /\ Entry(tx.r - 1)' = Entry(tx.r - 1)
  BY DEF Flying, Entry
<1>4. \A k \in Waiting : Entry(k) \in Writers \X Nat
  BY DEF Output, OutputRing
<1>5. Flying \subseteq Writers \X Nat
  BY FlyingIs
<1>6. OutputRing'
  BY <1>1, <1>2, <1>4 DEF Output, OutputRing
<1>7. NoneLost'
  BY <1>1, <1>2, <1>3 DEF Output, NoneLost
<1>8. OneFlies'
  <2>1. (Putting => InFifo = {} /\ tx.r >= 1 /\ Entry(tx.r - 1) \in Writers \X Nat)'
    BY <1>3 DEF Output, OneFlies
  <2>2. ASSUME NEW c \in Flying
        PROVE  /\ c[2] = sent'[c[1]] + 1 /\ c[2] <= writer'[c[1]].put
               /\ \A k \in Waiting : Entry(k)[1] = c[1] => c[2] < Entry(k)[2]
    <3>1. c[1] \in Writers
      BY <1>5
    <3> QED
      BY <3>1 DEF Output, OneFlies
  <2> QED
    BY <1>1, <1>2, <1>3, <2>1, <2>2 DEF OneFlies
<1> QED
  BY <1>6, <1>7, <1>8 DEF Output

\* A character leaves the UART.
LEMMA OutputTransmit == ASSUME TxTypes, IntrTypes, Output, Transmit PROVE Output' /\ TxTypes' /\ IntrTypes'
<1> DEFINE c == Head(uart.fifo)
<1>1. /\ c = uart.fifo[1] /\ uart.fifo \in Seq(Out) /\ uart.fifo # <<>> /\ Len(uart.fifo) >= 1
      /\ c \in Out /\ Len(uart.fifo) \in Nat
      /\ Tail(uart.fifo) \in Seq(Out) /\ Len(Tail(uart.fifo)) = Len(uart.fifo) - 1
      /\ \A i \in 1 .. Len(uart.fifo) - 1 : Tail(uart.fifo)[i] = uart.fifo[i + 1]
  <2>1. uart.fifo \in Seq(Out) /\ uart.fifo # <<>>
    BY DEF IntrTypes, Transmit
  <2>2. Len(uart.fifo) \in Nat \ {0}
    BY <2>1, EmptySeq
  <2>3. /\ c \in Out /\ Tail(uart.fifo) \in Seq(Out) /\ Len(Tail(uart.fifo)) = Len(uart.fifo) - 1
        /\ \A i \in 1 .. Len(Tail(uart.fifo)) : Tail(uart.fifo)[i] = uart.fifo[i + 1]
    BY <2>1, HeadTailProperties
  <2>4. c = uart.fifo[1]
    OBVIOUS
  <2> QED
    BY <2>1, <2>2, <2>3, <2>4
<1>2. /\ uart'.fifo = Tail(uart.fifo) /\ uart'.rx = uart.rx /\ uart'.irq \in BOOLEAN
      /\ uart' \in [rx : Seq(Keys), fifo : Seq(Out), irq : BOOLEAN]
      /\ tx' = tx /\ writer' = writer /\ intr' = intr
      /\ sent' = IF c[1] \in Writers THEN [sent EXCEPT ![c[1]] = c[2]] ELSE sent
  BY <1>1 DEF Transmit, IntrTypes
<1> HIDE DEF c
<1>3. IntrTypes'
  BY <1>2 DEF IntrTypes
<1>4. InFifo = InFifo' \cup ({c} \ {Nothing})
  <2>1. \A i \in 1 .. Len(uart.fifo) : i = 1 \/ i - 1 \in 1 .. Len(uart.fifo) - 1
    BY <1>1
  <2>2. \A i \in 1 .. Len(uart.fifo) - 1 : i + 1 \in 1 .. Len(uart.fifo)
    BY <1>1
  <2>3. ASSUME NEW i \in 1 .. Len(uart.fifo), i # 1 PROVE uart.fifo[i] = Tail(uart.fifo)[i - 1]
    BY <1>1, <2>1, <2>3
  <2>4. 1 \in 1 .. Len(uart.fifo)
    BY <1>1
  <2>5. InFifo' = {Tail(uart.fifo)[i] : i \in 1 .. Len(uart.fifo) - 1} \ {Nothing}
    BY <1>1, <1>2 DEF InFifo, Nothing
  <2>6. \A x \in InFifo : x \in InFifo' \/ x = c
    <3>1. SUFFICES ASSUME NEW x \in InFifo, x # c PROVE x \in InFifo'
      OBVIOUS
    <3>2. PICK i \in 1 .. Len(uart.fifo) : x = uart.fifo[i]
      BY DEF InFifo
    <3>3. x # Nothing /\ i # 1
      BY <1>1, <3>1, <3>2 DEF InFifo
    <3>4. i - 1 \in 1 .. Len(uart.fifo) - 1 /\ x = Tail(uart.fifo)[i - 1]
      BY <2>1, <2>3, <3>2, <3>3
    <3> QED
      BY <2>5, <3>3, <3>4
  <2>7. \A x \in InFifo' : x \in InFifo
    BY <1>1, <2>2, <2>5 DEF InFifo
  <2>8. c \in InFifo \cup {Nothing}
    BY <1>1, <2>4 DEF InFifo
  <2>9. Nothing \notin InFifo
    BY DEF InFifo
  <2> QED
    BY <2>6, <2>7, <2>8, <2>9
<1>5. OneInFifo'
  <2>1. ASSUME NEW i \in 1 .. Len(uart.fifo) - 1, NEW j \in 1 .. Len(uart.fifo) - 1,
               Tail(uart.fifo)[i] # Nothing, Tail(uart.fifo)[j] # Nothing
        PROVE  i = j
    <3>1. i + 1 \in 1 .. Len(uart.fifo) /\ j + 1 \in 1 .. Len(uart.fifo)
      BY <1>1
    <3>2. uart.fifo[i + 1] # Nothing /\ uart.fifo[j + 1] # Nothing
      BY <1>1, <2>1
    <3>3. i + 1 = j + 1
      BY <3>1, <3>2 DEF Output, OneFlies, OneInFifo
    <3> QED
      BY <1>1, <3>3
  <2> QED
    BY <1>1, <1>2, <2>1 DEF OneInFifo, Nothing
<1>6. Putting' <=> Putting
  BY <1>2 DEF Putting
<1>7. CASE c = Nothing
  <2>1. c[1] \notin Writers
    BY <1>7, Numbers DEF Nothing
  <2>2. sent' = sent /\ InFifo' = InFifo
    BY <1>2, <1>4, <1>7, <2>1
  <2>3. Output'
    BY <1>2, <1>5, <1>6, <2>2, OutputFrame
  <2> QED
    BY <1>2, <1>3, <2>2, <2>3 DEF TxTypes
<1>8. CASE c # Nothing
  <2>1. c \in Writers \X Nat /\ c \in InFifo /\ c[1] \in Writers /\ c[2] \in Nat
    BY <1>1, <1>4, <1>8 DEF Out
  <2>2. ~Putting /\ Flying = InFifo
    BY <2>1 DEF Output, OneFlies, Flying
  <2>3. InFifo = {c}
    <3>1. 1 \in 1 .. Len(uart.fifo)
      BY <1>1
    <3>2. \A i \in 1 .. Len(uart.fifo) : uart.fifo[i] # Nothing => i = 1
      BY <1>1, <1>8, <3>1 DEF Output, OneFlies, OneInFifo
    <3> QED
      BY <1>1, <2>1, <3>2 DEF InFifo
  <2>4. InFifo' = {}
    <3>1. \A i \in 1 .. Len(uart.fifo) - 1 : i + 1 \in 1 .. Len(uart.fifo) /\ i + 1 # 1
      BY <1>1
    <3>2. 1 \in 1 .. Len(uart.fifo)
      BY <1>1
    <3>3. \A i \in 1 .. Len(uart.fifo) : uart.fifo[i] # Nothing => i = 1
      BY <1>1, <1>8, <3>2 DEF Output, OneFlies, OneInFifo
    <3>4. \A i \in 1 .. Len(uart.fifo) - 1 : Tail(uart.fifo)[i] = Nothing
      BY <1>1, <3>1, <3>3
    <3>5. InFifo' = {Tail(uart.fifo)[i] : i \in 1 .. Len(uart.fifo) - 1} \ {Nothing}
      BY <1>1, <1>2 DEF InFifo, Nothing
    <3> QED
      BY <3>4, <3>5
  <2>5. Flying' = {}
    BY <1>6, <2>2, <2>4 DEF Flying
  <2>6. /\ sent' = [sent EXCEPT ![c[1]] = c[2]] /\ sent' \in [Writers -> Nat] /\ sent \in [Writers -> Nat]
        /\ sent'[c[1]] = c[2] /\ \A p \in Writers : p # c[1] => sent'[p] = sent[p]
    BY <1>2, <2>1 DEF TxTypes
  <2>7. /\ c[2] = sent[c[1]] + 1 /\ c[2] <= writer[c[1]].put
        /\ \A k \in Waiting : Entry(k)[1] = c[1] => c[2] < Entry(k)[2]
    BY <2>1, <2>2 DEF Output, OneFlies
  <2>8. (\A k : Entry(k)' = Entry(k)) /\ Waiting' = Waiting
    BY <1>2 DEF Entry, Waiting
  <2>9. OutputRing'
    BY <1>2, <2>6, <2>7, <2>8 DEF Output, OutputRing
  <2>10. OneFlies'
    BY <1>5, <1>6, <2>2, <2>5 DEF OneFlies
  <2>11. NoneLost'
    <3>1. SUFFICES ASSUME NEW p \in Writers, NEW j \in Nat, sent'[p] < j, j <= writer[p].put
                   PROVE  \E k \in Waiting : Entry(k) = <<p, j>>
      BY <1>2, <2>8 DEF NoneLost
    <3>2. sent[p] < j /\ <<p, j>> # c
      BY <2>1, <2>6, <2>7, <3>1
    <3> QED
      BY <2>2, <2>3, <3>1, <3>2 DEF Output, NoneLost
  <2> QED
    BY <1>2, <1>3, <2>6, <2>9, <2>10, <2>11 DEF Output, TxTypes
<1> QED
  BY <1>7, <1>8

\* A character is put into the FIFO, and there is room for it.
LEMMA FifoPush ==
  ASSUME IntrTypes, NEW c \in Out, Len(uart.fifo) <= 1, uart' = Push(uart, c)
  PROVE  /\ uart' = [uart EXCEPT !.fifo = Append(uart.fifo, c)]
         /\ uart' \in [rx : Seq(Keys), fifo : Seq(Out), irq : BOOLEAN]
         /\ uart'.fifo = Append(uart.fifo, c) /\ Len(uart'.fifo) = Len(uart.fifo) + 1
         /\ InFifo' = InFifo \cup ({c} \ {Nothing})
         /\ OneInFifo /\ (c = Nothing \/ InFifo = {}) => OneInFifo'
<1>1. Len(uart.fifo) \in Nat /\ uart.fifo \in Seq(Out)
  BY FifoIs DEF IntrTypes
<1>2. Len(uart.fifo) < FifoSize
  BY <1>1, Numbers
<1>3. PICK f \in Seq(Out) : /\ f = Append(uart.fifo, c) /\ Len(f) = Len(uart.fifo) + 1
                            /\ \A i \in 1 .. Len(uart.fifo) : f[i] = uart.fifo[i]
                            /\ f[Len(uart.fifo) + 1] = c
  BY <1>1, AppendProperties
<1>4. uart' = [uart EXCEPT !.fifo = f]
  BY <1>2, <1>3 DEF Push
<1>5. uart' \in [rx : Seq(Keys), fifo : Seq(Out), irq : BOOLEAN] /\ uart'.fifo = f
  BY <1>4 DEF IntrTypes
<1>6. \A i : i \in 1 .. Len(uart.fifo) + 1 <=> i \in 1 .. Len(uart.fifo) \/ i = Len(uart.fifo) + 1
  BY <1>1
<1>7. InFifo' = {f[i] : i \in 1 .. Len(uart.fifo) + 1} \ {Nothing}
  BY <1>3, <1>5 DEF InFifo, Nothing
<1>8. InFifo' = InFifo \cup ({c} \ {Nothing})
  <2>1. \A x \in InFifo' : x \in InFifo \/ x = c
    BY <1>3, <1>6, <1>7 DEF InFifo
  <2>2. \A x \in InFifo : x \in InFifo'
    BY <1>3, <1>6, <1>7 DEF InFifo
  <2>3. c # Nothing => c \in InFifo'
    BY <1>3, <1>6, <1>7
  <2>4. Nothing \notin InFifo'
    BY <1>7
  <2> QED
    BY <2>1, <2>2, <2>3, <2>4
<1>9. ASSUME OneInFifo, c = Nothing \/ InFifo = {} PROVE OneInFifo'
  <2>1. \A i \in 1 .. Len(uart.fifo) : c = Nothing \/ uart.fifo[i] = Nothing
    BY <1>9 DEF InFifo
  <2>2. ASSUME NEW i \in 1 .. Len(uart.fifo) + 1, NEW j \in 1 .. Len(uart.fifo) + 1,
               f[i] # Nothing, f[j] # Nothing
        PROVE  i = j
    BY <1>3, <1>6, <1>9, <2>1, <2>2 DEF OneInFifo
  <2> QED
    BY <1>3, <1>5, <2>2 DEF OneInFifo, Nothing
<1> QED
  BY <1>3, <1>4, <1>5, <1>8, <1>9

\* uartstart takes a character: it is the next of its writer.
LEMMA OutputTake ==
  ASSUME TxTypes, IntrTypes, Output, tx.r # tx.w, uart.fifo = <<>>, ~Putting, Putting',
         tx' = [tx EXCEPT !.r = @ + 1], sent' = sent, uart' = uart,
         \A p \in Writers : writer'[p].put = writer[p].put
  PROVE  Output'
<1>0. PICK i \in Nat : i = tx.r
  BY DEF TxTypes
<1>1. tx.r \in Nat /\ tx.w \in Nat /\ tx.r <= tx.w /\ tx.w <= tx.r + UART_TX_BUF_SIZE
      /\ tx'.buf = tx.buf /\ tx'.r = tx.r + 1 /\ tx'.w = tx.w
  BY DEF TxTypes, Output, OutputRing
<1>2. InFifo = {} /\ InFifo' = {} /\ OneInFifo' /\ Flying = {}
  BY DEF InFifo, OneInFifo, Flying
<1>3. \A k : Entry(k)' = Entry(k)
  BY <1>1 DEF Entry
<1>4. i \in Waiting /\ tx'.r - 1 = i
  BY <1>0, <1>1 DEF Waiting
<1>5. \A k : k \in Waiting <=> k \in Waiting' \/ k = i
  BY <1>0, <1>1 DEF Waiting
<1>6. \A k \in Waiting' : k > i /\ k # i
  BY <1>0, <1>1 DEF Waiting
<1>7. Entry(i) \in Writers \X Nat
  BY <1>4 DEF Output, OutputRing
<1>8. PICK p \in Writers, n \in Nat : Entry(i) = <<p, n>>
  BY <1>7
<1>9. Entry(i)[1] = p /\ Entry(i)[2] = n
  BY <1>8
<1>10. /\ sent[p] < n /\ n <= writer[p].put
       /\ \A k \in Waiting' : Entry(k)[1] = p => n < Entry(k)[2]
  BY <1>4, <1>5, <1>6, <1>9 DEF Output, OutputRing
<1>11. n = sent[p] + 1
  <2>1. sent[p] \in Nat /\ writer[p].put \in Nat /\ sent[p] + 1 \in Nat
    BY DEF TxTypes
  <2>2. PICK k \in Waiting : Entry(k) = <<p, sent[p] + 1>>
    BY <1>2, <1>10, <2>1 DEF Output, NoneLost
  <2>3. CASE k = i
    BY <1>8, <2>2, <2>3
  <2>4. CASE k # i
    BY <1>5, <1>10, <2>1, <2>2, <2>4
  <2> QED
    BY <2>3, <2>4
<1>12. Flying' = {<<p, n>>} /\ Entry(i)' = <<p, n>>
  <2>1. Entry(i)' = <<p, n>>
    BY <1>3, <1>8
  <2>2. tx'.buf[(tx'.r - 1) % UART_TX_BUF_SIZE] = <<p, n>>
    BY <1>1, <1>4, <1>8 DEF Entry
  <2> QED
    BY <1>2, <2>1, <2>2 DEF Flying, Entry
<1>13. OutputRing'
  <2>1. tx'.r <= tx'.w /\ tx'.w <= tx'.r + UART_TX_BUF_SIZE
    <3>1. UART_TX_BUF_SIZE \in Nat
      BY Numbers
    <3>2. tx.r + 1 <= tx.w /\ tx.w <= (tx.r + 1) + UART_TX_BUF_SIZE
      BY <1>1, <3>1
    <3> QED
      BY <1>1, <3>2
  <2>2. \A k \in Waiting : Entry(k)[1] \in Writers
    BY DEF Output, OutputRing
  <2> QED
    BY <1>3, <1>5, <2>1, <2>2 DEF Output, OutputRing
<1>14. OneFlies'
  <2>1. <<p, n>> \in Writers \X Nat /\ tx'.r >= 1
    BY <1>1
  <2>2. (Putting => InFifo = {} /\ tx.r >= 1 /\ Entry(tx.r - 1) \in Writers \X Nat)'
    <3>1. tx'.buf[(tx'.r - 1) % UART_TX_BUF_SIZE] = <<p, n>>
      BY <1>1, <1>4, <1>8 DEF Entry
    <3> QED
      BY <1>2, <2>1, <3>1 DEF Entry
  <2> QED
    BY <1>2, <1>3, <1>10, <1>11, <1>12, <2>2 DEF OneFlies
<1>15. NoneLost'
  <2>1. SUFFICES ASSUME NEW q \in Writers, NEW j \in Nat, sent[q] < j, j <= writer[q].put
                 PROVE  <<q, j>> \in Flying' \/ \E k \in Waiting' : Entry(k)' = <<q, j>>
    BY DEF NoneLost
  <2>2. PICK k \in Waiting : Entry(k) = <<q, j>>
    BY <1>2, <2>1 DEF Output, NoneLost
  <2> QED
    BY <1>3, <1>5, <1>8, <1>12, <2>2
<1> QED
  BY <1>13, <1>14, <1>15 DEF Output

\* It writes it: in flight before, in flight behind.
LEMMA OutputPut ==
  ASSUME TxTypes, IntrTypes, Output, Len(uart.fifo) <= 1, Putting, ~Putting',
         uart' = Push(uart, Entry(tx.r - 1)), UNCHANGED <<tx, sent>>,
         \A p \in Writers : writer'[p].put = writer[p].put
  PROVE  Output'
<1>1. /\ InFifo = {} /\ OneInFifo /\ Entry(tx.r - 1) \in Writers \X Nat /\ Entry(tx.r - 1) # Nothing
      /\ Flying = {Entry(tx.r - 1)}
  BY Numbers DEF Output, OneFlies, Nothing, Flying
<1>2. OneInFifo' /\ InFifo' = {Entry(tx.r - 1)}
  BY <1>1, FifoPush DEF Out
<1>3. (\A k : Entry(k)' = Entry(k)) /\ Waiting' = Waiting
  BY DEF Entry, Waiting
<1>4. Flying' = Flying
  BY <1>1, <1>2 DEF Flying
<1>5. \A k \in Waiting : Entry(k) \in Writers \X Nat
  BY DEF Output, OutputRing
<1>6. OutputRing'
  BY <1>3, <1>5 DEF Output, OutputRing
<1>7. NoneLost'
  BY <1>3, <1>4 DEF Output, NoneLost
<1>8. OneFlies'
  <2>1. Flying \subseteq Writers \X Nat
    BY FlyingIs
  <2>2. ASSUME NEW c \in Flying
        PROVE  /\ c[2] = sent'[c[1]] + 1 /\ c[2] <= writer'[c[1]].put
               /\ \A k \in Waiting : Entry(k)[1] = c[1] => c[2] < Entry(k)[2]
    <3>1. c[1] \in Writers
      BY <2>1
    <3> QED
      BY <3>1 DEF Output, OneFlies
  <2> QED
    BY <1>2, <1>3, <1>4, <2>2 DEF OneFlies
<1> QED
  BY <1>6, <1>7, <1>8 DEF Output

\* A writer puts his next character behind all that wait.
LEMMA OutputAppend ==
  ASSUME TxTypes, IntrTypes, Output, ~TxFull, ~Putting, ~Putting', UNCHANGED <<uart, sent>>,
         NEW p \in Writers, NEW n \in Nat, n = writer[p].put + 1,
         tx'.buf = [tx.buf EXCEPT ![tx.w % UART_TX_BUF_SIZE] = <<p, n>>], tx'.w = tx.w + 1, tx'.r = tx.r,
         writer'[p].put = n, \A q \in Writers : q # p => writer'[q].put = writer[q].put
  PROVE  Output'
<1>0. PICK i \in Nat : i = tx.w
  BY DEF TxTypes
<1>1. /\ tx.r \in Nat /\ tx.w \in Nat /\ tx.r <= tx.w /\ tx.w < tx.r + UART_TX_BUF_SIZE
      /\ UART_TX_BUF_SIZE \in Nat \ {0} /\ tx.buf \in [0 .. UART_TX_BUF_SIZE - 1 -> Out]
  BY Numbers DEF TxTypes, Output, OutputRing, TxFull
<1>2. \A k : k \in Waiting' <=> k \in Waiting \/ k = i
  BY <1>0, <1>1 DEF Waiting
<1>3. ASSUME NEW k \in Waiting PROVE Entry(k)' = Entry(k) /\ k < i /\ k # i /\ k \in Nat
  <2>1. k \in Nat /\ tx.r <= k /\ k < i
    BY <1>0, <1>1 DEF Waiting
  <2>2. PICK d \in 1 .. UART_TX_BUF_SIZE - 1 : i = k + d
    <3>1. i - k \in 1 .. UART_TX_BUF_SIZE - 1 /\ i = k + (i - k)
      <4>1. k \in Nat /\ k < i /\ i < k + UART_TX_BUF_SIZE /\ UART_TX_BUF_SIZE \in Nat
        BY <1>0, <1>1, <2>1
      <4> QED
        BY <4>1
    <3> QED
      BY <3>1
  <2>3. k % UART_TX_BUF_SIZE # i % UART_TX_BUF_SIZE
    <3>1. (k + d) % UART_TX_BUF_SIZE # k % UART_TX_BUF_SIZE
      BY <1>1, <2>1, Apart
    <3> QED
      BY <2>2, <3>1
  <2>4. k % UART_TX_BUF_SIZE \in 0 .. UART_TX_BUF_SIZE - 1
    BY <1>1, <2>1, DivMod
  <2>5. Entry(k)' = Entry(k)
    BY <1>0, <1>1, <2>3, <2>4 DEF Entry
  <2> QED
    BY <2>1, <2>5
<1>4. Entry(i)' = <<p, n>>
  <2>1. i % UART_TX_BUF_SIZE \in 0 .. UART_TX_BUF_SIZE - 1
    BY <1>1, DivMod
  <2> QED
    BY <1>0, <1>1, <2>1 DEF Entry
<1>5. Flying' = Flying /\ InFifo' = InFifo /\ OneInFifo' /\ Flying \subseteq Writers \X Nat
  BY FlyingIs DEF Flying, InFifo, OneInFifo, Output, OneFlies
<1>6. /\ sent \in [Writers -> Nat] /\ \A q \in Writers : writer[q].put \in Nat
      /\ \A q \in Writers : sent[q] <= writer[q].put /\ writer[q].put <= writer'[q].put
      /\ \A k \in Waiting : Entry(k) \in Writers \X Nat
                            /\ sent[Entry(k)[1]] < Entry(k)[2] /\ Entry(k)[2] <= writer[Entry(k)[1]].put
  BY DEF TxTypes, Output, OutputRing
<1>7. OutputRing'
  <2>1. \A q \in Writers : sent'[q] <= writer'[q].put
    BY <1>6
  <2>2. ASSUME NEW k \in Waiting'
        PROVE  /\ Entry(k)' \in Writers \X Nat /\ sent'[Entry(k)'[1]] < Entry(k)'[2]
               /\ Entry(k)'[2] <= writer'[Entry(k)'[1]].put
    <3>1. CASE k = i
      BY <1>4, <1>6, <3>1
    <3>2. CASE k \in Waiting
      <4>1. PICK q \in Writers, j \in Nat : Entry(k) = <<q, j>>
        BY <1>6, <3>2
      <4>2. sent[q] < j /\ j <= writer[q].put /\ Entry(k)' = <<q, j>>
        BY <1>3, <1>6, <3>2, <4>1
      <4> QED
        BY <1>6, <4>2
    <3> QED
      BY <1>2, <3>1, <3>2
  <2>3. ASSUME NEW k \in Waiting', NEW l \in Waiting', k < l, Entry(k)'[1] = Entry(l)'[1]
        PROVE  Entry(k)'[2] < Entry(l)'[2]
    <3>1. k \in Waiting
      BY <1>1, <1>2, <1>3, <2>3
    <3>2. CASE l \in Waiting
      BY <1>3, <2>3, <3>1, <3>2 DEF Output, OutputRing
    <3>3. CASE l = i
      <4>1. Entry(k)[1] = p /\ Entry(k)' = Entry(k)
        BY <1>3, <1>4, <2>3, <3>1, <3>3
      <4>2. Entry(k)[2] <= writer[p].put /\ Entry(k)[2] \in Nat
        BY <1>6, <3>1, <4>1
      <4> QED
        BY <1>4, <1>6, <3>3, <4>1, <4>2
    <3> QED
      BY <1>2, <3>2, <3>3
  <2>4. tx'.r <= tx'.w /\ tx'.w <= tx'.r + UART_TX_BUF_SIZE
    BY <1>1
  <2> QED
    BY <2>1, <2>2, <2>3, <2>4 DEF OutputRing
<1>8. OneFlies'
  <2>1. ASSUME NEW c \in Flying
        PROVE  /\ c[2] = sent'[c[1]] + 1 /\ c[2] <= writer'[c[1]].put
               /\ \A k \in Waiting' : Entry(k)'[1] = c[1] => c[2] < Entry(k)'[2]
    <3>1. PICK q \in Writers, j \in Nat : c = <<q, j>>
      BY <1>5
    <3>2. /\ j = sent[q] + 1 /\ j <= writer[q].put
          /\ \A k \in Waiting : Entry(k)[1] = q => j < Entry(k)[2]
      BY <3>1 DEF Output, OneFlies
    <3>3. j <= writer'[q].put
      BY <1>6, <3>2
    <3>4. ASSUME NEW k \in Waiting', Entry(k)'[1] = q PROVE j < Entry(k)'[2]
      <4>1. CASE k \in Waiting
        BY <1>3, <3>2, <3>4, <4>1
      <4>2. CASE k = i
        BY <1>4, <1>6, <3>2, <3>4, <4>2
      <4> QED
        BY <1>2, <4>1, <4>2
    <3> QED
      BY <3>1, <3>2, <3>3, <3>4
  <2> QED
    BY <1>5, <2>1 DEF OneFlies
<1>9. NoneLost'
  <2>1. SUFFICES ASSUME NEW q \in Writers, NEW j \in Nat, sent[q] < j, j <= writer'[q].put
                 PROVE  <<q, j>> \in Flying' \/ \E k \in Waiting' : Entry(k)' = <<q, j>>
    BY DEF NoneLost
  <2>2. CASE j <= writer[q].put
    <3>1. <<q, j>> \in Flying \/ \E k \in Waiting : Entry(k) = <<q, j>>
      BY <2>1, <2>2 DEF Output, NoneLost
    <3> QED
      BY <1>2, <1>3, <1>5, <3>1
  <2>3. CASE j > writer[q].put
    <3>1. q = p /\ j = n
      BY <1>6, <2>1, <2>3
    <3> QED
      BY <1>2, <1>4, <3>1
  <2> QED
    BY <1>6, <2>2, <2>3
<1> QED
  BY <1>7, <1>8, <1>9 DEF Output
-----------------------------------------------------------------------------
(* The invariant                                                           *)

LEMMA InitInv == Init => IndInv
<1> SUFFICES ASSUME Init PROVE IndInv
  OBVIOUS
<1>1. PICK s \in Wide : cons = [buf |-> [i \in 0 .. INPUT_BUF - 1 |-> "newline"],
                                r |-> s, w |-> s, e |-> s, lock |-> None]
  BY ConsoleAssumption DEF Init, Wide
<1>2. ConsTypes /\ Reads
  BY <1>1 DEF Init, ConsTypes, ConsRecord, Chars, Reads
<1>3. TxTypes /\ IntrTypes
  BY DEF Init, TxTypes, IntrTypes, Out, Nothing
<1>4. Locks /\ Sleepers
  BY <1>1, Numbers DEF Init, Locks, Sleepers
<1>5. InputRing
  <2>1. cons.r = s /\ cons.w = s /\ cons.e = s /\ Dist(s, s) = 0
    BY <1>1, DistIs
  <2> QED
    BY <2>1, Numbers DEF InputRing, RingOK
<1>6. ~Putting /\ uart.fifo = <<>> /\ Len(uart.fifo) = 0
  BY DEF Init, Putting
<1>7. FifoHasRoom
  BY <1>6 DEF FifoHasRoom
<1>8. Output
  <2>1. InFifo = {} /\ Flying = {} /\ OneInFifo
    BY <1>6 DEF InFifo, Flying, OneInFifo
  <2>2. Waiting = {} /\ tx.r <= tx.w /\ tx.w <= tx.r + UART_TX_BUF_SIZE
    BY Numbers DEF Init, Waiting
  <2>3. \A p \in Writers : sent[p] = 0 /\ writer[p].put = 0
    BY DEF Init
  <2> QED
    BY <1>6, <2>1, <2>2, <2>3 DEF Output, OutputRing, OneFlies, NoneLost
<1> QED
  BY <1>2, <1>3, <1>4, <1>5, <1>7, <1>8 DEF IndInv

\* What a step of the input leaves alone.
LEMMA OutputAside ==
  ASSUME IndInv, UNCHANGED <<tx, sent>>, uart'.fifo = uart.fifo,
         \A p \in Writers : writer'[p].put = writer[p].put, Putting' <=> Putting
  PROVE  Output'
<1>1. InFifo' = InFifo /\ OneInFifo'
  BY DEF IndInv, InFifo, OneInFifo, Output, OneFlies
<1> QED
  BY <1>1, OutputFrame DEF IndInv

\* Readers, whose steps touch cons and reader only.
LEMMA ReaderFrame ==
  ASSUME IndInv, UNCHANGED <<tx, writer, intr, uart, sent>>,
         ConsTypes', Reads', RingOK(cons'),
         \A p \in Readers : reader'[p].pc \in {"run", "done"} <=> cons'.lock = p,
         cons'.lock = Handler <=> cons.lock = Handler,
         \A p \in Readers : reader'[p].pc = "sleep" => cons'.r = cons'.w
  PROVE  IndInv'
<1>1. Putting' <=> Putting
  BY DEF Putting
<1>2. Output'
  BY <1>1, OutputAside
<1>3. TxTypes' /\ IntrTypes'
  BY DEF IndInv, TxTypes, IntrTypes
<1>4. Locks' /\ Sleepers'
  BY DEF IndInv, Locks, Sleepers, Empty, TxFull
<1>5. InputRing'
  BY DEF InputRing
<1>6. FifoHasRoom'
  BY <1>1 DEF IndInv, FifoHasRoom
<1> QED
  BY <1>2, <1>3, <1>4, <1>5, <1>6 DEF IndInv

LEMMA ReadCallInv == ASSUME IndInv, NEW p \in Readers, NEW n \in 1 .. MaxRead, ReadCall(p, n) PROVE IndInv'
<1>1. n \in Nat /\ n # 0
  BY ConsoleAssumption
<1>2. ConsTypes' /\ Reads' /\ cons' = cons
  BY <1>1 DEF IndInv, ReadCall, ConsTypes, Reads
<1>3. RingOK(cons')
  BY <1>2 DEF IndInv, InputRing
<1> QED
  BY <1>2, <1>3, ReaderFrame DEF IndInv, ConsTypes, Locks, Sleepers, Empty, ReadCall

LEMMA ReadLockInv == ASSUME IndInv, NEW p \in Readers, ReadLock(p) PROVE IndInv'
<1>1. ConsTypes' /\ Reads'
  BY DEF IndInv, ReadLock, ConsTypes, ConsRecord, Reads
<1>2. /\ cons'.r = cons.r /\ cons'.w = cons.w /\ cons'.e = cons.e /\ cons'.buf = cons.buf /\ cons'.lock = p
      /\ reader'[p].pc = "run" /\ \A q \in Readers : q # p => reader'[q] = reader[q]
  BY DEF IndInv, ReadLock, ConsTypes, ConsRecord
<1>3. RingOK(cons')
  BY <1>2 DEF IndInv, InputRing, RingOK
<1>4. cons'.lock # Handler /\ cons.lock = None /\ cons.lock # Handler
  BY <1>2, Numbers DEF ReadLock
<1> QED
  BY <1>1, <1>2, <1>3, <1>4, Numbers, ReaderFrame DEF IndInv, Locks, Sleepers, Empty, ReadLock

\* A reader that has the lock gives it up.
LEMMA ReadSleepInv == ASSUME IndInv, NEW p \in Readers, ReadSleep(p) PROVE IndInv'
<1>1. ConsTypes' /\ Reads'
  BY DEF IndInv, ReadSleep, ConsTypes, ConsRecord, Reads
<1>2. /\ cons'.r = cons.r /\ cons'.w = cons.w /\ cons'.e = cons.e /\ cons'.buf = cons.buf /\ cons'.lock = None
      /\ reader'[p].pc = "sleep" /\ \A q \in Readers : q # p => reader'[q] = reader[q]
  BY DEF IndInv, ReadSleep, ConsTypes, ConsRecord
<1>3. RingOK(cons')
  BY <1>2 DEF IndInv, InputRing, RingOK
<1>4. cons.lock = p /\ p # Handler /\ p # None /\ None # Handler
  BY Numbers DEF IndInv, Locks, ReadSleep
<1>5. \A q \in Readers : q # p => reader[q].pc \notin {"run", "done"} /\ q # None
  BY <1>4, Numbers DEF IndInv, Locks
<1> QED
  BY <1>1, <1>2, <1>3, <1>4, <1>5, ReaderFrame DEF IndInv, Locks, Sleepers, Empty, ReadSleep

LEMMA ReadReturnInv == ASSUME IndInv, NEW p \in Readers, ReadReturn(p) PROVE IndInv'
<1>1. ConsTypes' /\ Reads'
  <2>1. [pc |-> "idle", want |-> 0, got |-> <<>>]
          \in [pc : {"idle", "enter", "run", "sleep", "done"}, want : Nat, got : Seq(Chars)]
    BY EmptySeq
  <2>2. cons' \in ConsRecord
    BY DEF IndInv, ReadReturn, ConsTypes, ConsRecord
  <2>3. reader' = [reader EXCEPT ![p] = [pc |-> "idle", want |-> 0, got |-> <<>>]]
    BY DEF ReadReturn
  <2> QED
    BY <2>1, <2>2, <2>3 DEF IndInv, ConsTypes, Reads
<1>2. /\ cons'.r = cons.r /\ cons'.w = cons.w /\ cons'.e = cons.e /\ cons'.buf = cons.buf /\ cons'.lock = None
      /\ reader'[p].pc = "idle" /\ \A q \in Readers : q # p => reader'[q] = reader[q]
  BY DEF IndInv, ReadReturn, ConsTypes, ConsRecord
<1>3. RingOK(cons')
  BY <1>2 DEF IndInv, InputRing, RingOK
<1>4. cons.lock = p /\ p # Handler /\ p # None /\ None # Handler
  BY Numbers DEF IndInv, Locks, ReadReturn
<1>5. \A q \in Readers : q # p => reader[q].pc \notin {"run", "done"} /\ q # None
  BY <1>4, Numbers DEF IndInv, Locks
<1> QED
  BY <1>1, <1>2, <1>3, <1>4, <1>5, ReaderFrame DEF IndInv, Locks, Sleepers, Empty, ReadReturn

LEMMA ReadKilledInv == ASSUME IndInv, NEW p \in Readers, ReadKilled(p) PROVE IndInv'
<1>1. ConsTypes' /\ Reads' /\ cons' = cons
  BY DEF IndInv, ReadKilled, ConsTypes, Reads
<1>2. RingOK(cons')
  BY <1>1 DEF IndInv, InputRing
<1> QED
  BY <1>1, <1>2, ReaderFrame DEF IndInv, ConsTypes, Locks, Sleepers, Empty, ReadKilled

LEMMA KillInv == ASSUME IndInv, NEW p \in Readers, Kill(p) PROVE IndInv'
<1>1. ConsTypes' /\ Reads' /\ cons' = cons
  BY DEF IndInv, Kill, ConsTypes, Reads
<1>2. RingOK(cons')
  BY <1>1 DEF IndInv, InputRing
<1>3. \A q \in Readers : reader'[q].pc = reader[q].pc \/ (reader[q].pc = "sleep" /\ reader'[q].pc = "enter")
  <2>1. reader \in [Readers -> [pc : {"idle", "enter", "run", "sleep", "done"}, want : Nat, got : Seq(Chars)]]
    BY DEF IndInv, ConsTypes
  <2>2. CASE reader[p].pc = "sleep"
    <3>1. reader' = [reader EXCEPT ![p].pc = "enter"]
      BY <2>2 DEF Kill
    <3>2. reader'[p].pc = "enter" /\ \A q \in Readers : q # p => reader'[q] = reader[q]
      BY <2>1, <3>1
    <3> QED
      BY <2>2, <3>2
  <2>3. CASE reader[p].pc # "sleep"
    BY <2>3 DEF Kill
  <2> QED
    BY <2>2, <2>3
<1> QED
  BY <1>1, <1>2, <1>3, ReaderFrame DEF IndInv, Locks, Sleepers, Empty, Kill

\* A reader that has the lock takes a character; nobody sleeps.
LEMMA TakesInv ==
  ASSUME IndInv, NEW p \in Readers, reader[p].pc = "run", ~Empty,
         cons' = [cons EXCEPT !.r = Uint(cons.r + 1)], UNCHANGED <<tx, writer, intr, uart, sent>>,
         reader' \in [Readers -> [pc : {"idle", "enter", "run", "sleep", "done"}, want : Nat, got : Seq(Chars)]],
         reader'[p].pc \in {"run", "done"}, reader'[p].want = reader[p].want,
         \A q \in Readers : q # p => reader'[q] = reader[q]
  PROVE  IndInv'
<1>1. cons \in ConsRecord /\ RingOK(cons) /\ cons.r # cons.w
  BY DEF IndInv, ConsTypes, InputRing, Empty
<1>2. cons' \in ConsRecord /\ RingOK(cons') /\ cons'.lock = cons.lock
  BY <1>1, FirstTaken
<1>3. \A q \in Readers : reader[q].pc # "sleep"
  BY DEF IndInv, Sleepers
<1>4. ConsTypes' /\ Reads'
  BY <1>2 DEF IndInv, ConsTypes, Reads
<1>5. \A q \in Readers : reader'[q].pc \in {"run", "done"} <=> cons'.lock = q
  BY <1>2 DEF IndInv, Locks
<1>6. \A q \in Readers : reader'[q].pc # "sleep"
  BY <1>3
<1> QED
  BY <1>2, <1>4, <1>5, <1>6, ReaderFrame

LEMMA NextChar == ASSUME ConsTypes PROVE Next1 \in Chars
<1>1. cons.r \in Nat /\ cons.buf \in [0 .. INPUT_BUF - 1 -> Chars]
  BY DEF ConsTypes, ConsRecord, Wide
<1> QED
  BY <1>1, InPlace DEF Next1

LEMMA ReadCharInv == ASSUME IndInv, NEW p \in Readers, ReadChar(p) PROVE IndInv'
<1>1. Append(reader[p].got, Next1) \in Seq(Chars)
  <2>1. reader[p].got \in Seq(Chars) /\ Next1 \in Chars
    BY NextChar DEF IndInv, ConsTypes
  <2> QED
    BY <2>1, AppendProperties
<1>2. /\ reader' \in [Readers -> [pc : {"idle", "enter", "run", "sleep", "done"}, want : Nat, got : Seq(Chars)]]
      /\ reader'[p].pc \in {"run", "done"} /\ reader'[p].want = reader[p].want
      /\ \A q \in Readers : q # p => reader'[q] = reader[q]
  BY <1>1 DEF IndInv, ConsTypes, ReadChar
<1> QED
  BY <1>2, TakesInv DEF ReadChar

LEMMA ReadFaultInv == ASSUME IndInv, NEW p \in Readers, ReadFault(p) PROVE IndInv'
<1>1. /\ reader' \in [Readers -> [pc : {"idle", "enter", "run", "sleep", "done"}, want : Nat, got : Seq(Chars)]]
      /\ reader'[p].pc \in {"run", "done"} /\ reader'[p].want = reader[p].want
      /\ \A q \in Readers : q # p => reader'[q] = reader[q]
  BY DEF IndInv, ConsTypes, ReadFault
<1> QED
  BY <1>1, TakesInv DEF ReadFault

LEMMA ReadEofInv == ASSUME IndInv, NEW p \in Readers, ReadEof(p) PROVE IndInv'
<1>1. /\ reader' \in [Readers -> [pc : {"idle", "enter", "run", "sleep", "done"}, want : Nat, got : Seq(Chars)]]
      /\ reader'[p].pc = "done" /\ reader'[p].want = reader[p].want
      /\ \A q \in Readers : q # p => reader'[q] = reader[q]
  BY DEF IndInv, ConsTypes, ReadEof
<1>2. CASE reader[p].got = <<>>
  BY <1>1, <1>2, TakesInv DEF ReadEof
<1>3. CASE reader[p].got # <<>>
  <2>1. cons' = cons /\ RingOK(cons') /\ ConsTypes' /\ Reads'
    BY <1>1, <1>3 DEF IndInv, InputRing, ConsTypes, Reads, ReadEof
  <2> QED
    BY <1>1, <2>1, ReaderFrame DEF IndInv, Locks, Sleepers, Empty, ReadEof
<1> QED
  BY <1>2, <1>3

\* The handler and the device, while the output ring rests.
LEMMA TypeKeyInv == ASSUME IndInv, NEW c \in Keys, TypeKey(c) PROVE IndInv'
<1>1. uart' \in [rx : Seq(Keys), fifo : Seq(Out), irq : BOOLEAN] /\ uart'.fifo = uart.fifo
  <2>1. Append(uart.rx, c) \in Seq(Keys)
    BY AppendProperties DEF IndInv, IntrTypes
  <2> QED
    BY <2>1 DEF IndInv, IntrTypes, TypeKey
<1>2. Putting' <=> Putting
  BY DEF Putting, TypeKey
<1>3. Output'
  BY <1>1, <1>2, OutputAside DEF TypeKey
<1>4. ConsTypes' /\ TxTypes' /\ IntrTypes' /\ Reads'
  BY <1>1 DEF IndInv, ConsTypes, TxTypes, IntrTypes, Reads, TypeKey
<1>5. Locks' /\ Sleepers' /\ InputRing' /\ FifoHasRoom'
  BY <1>1, <1>2 DEF IndInv, Locks, Sleepers, Empty, TxFull, InputRing, FifoHasRoom, TypeKey
<1> QED
  BY <1>3, <1>4, <1>5 DEF IndInv

LEMMA ClaimInv == ASSUME IndInv, Claim PROVE IndInv'
<1>1. uart' \in [rx : Seq(Keys), fifo : Seq(Out), irq : BOOLEAN] /\ uart'.fifo = uart.fifo
      /\ intr' \in [pc : {"idle", "get", "echo", "echo-put", "start", "start-put"}, echo : Nat] /\ intr'.pc = "get"
  BY DEF IndInv, IntrTypes, Claim
<1>2. Putting' <=> Putting
  BY <1>1 DEF Putting, Claim
<1>3. Output'
  BY <1>1, <1>2, OutputAside DEF Claim
<1>4. ConsTypes' /\ TxTypes' /\ IntrTypes' /\ Reads'
  BY <1>1 DEF IndInv, ConsTypes, TxTypes, IntrTypes, Reads, Claim
<1>5. Locks' /\ Sleepers' /\ InputRing' /\ FifoHasRoom'
  BY <1>1, <1>2 DEF IndInv, Locks, Sleepers, Empty, TxFull, InputRing, FifoHasRoom, Claim
<1> QED
  BY <1>3, <1>4, <1>5 DEF IndInv

LEMMA EchoReadyInv == ASSUME IndInv, EchoReady PROVE IndInv'
<1>1. intr' \in [pc : {"idle", "get", "echo", "echo-put", "start", "start-put"}, echo : Nat]
      /\ intr'.pc = "echo-put" /\ uart' = uart /\ uart.fifo = <<>> /\ Len(uart.fifo) = 0
  BY DEF IndInv, IntrTypes, EchoReady, TxIdle
<1>2. Putting' <=> Putting
  BY <1>1 DEF Putting, EchoReady
<1>3. Output'
  BY <1>1, <1>2, OutputAside DEF EchoReady
<1>4. ConsTypes' /\ TxTypes' /\ IntrTypes' /\ Reads'
  BY <1>1 DEF IndInv, ConsTypes, TxTypes, IntrTypes, Reads, EchoReady
<1>5. Locks' /\ Sleepers' /\ InputRing'
  BY <1>1 DEF IndInv, Locks, Sleepers, Empty, TxFull, InputRing, EchoReady
<1>6. FifoHasRoom'
  BY <1>1 DEF FifoHasRoom
<1> QED
  BY <1>3, <1>4, <1>5, <1>6 DEF IndInv

LEMMA EchoPutInv == ASSUME IndInv, EchoPut PROVE IndInv'
<1>1. Len(uart.fifo) <= 1 /\ (Putting => uart.fifo = <<>>) /\ Len(uart.fifo) \in Nat
  BY FifoIs DEF IndInv, FifoHasRoom, EchoPut
<1>2. /\ uart' \in [rx : Seq(Keys), fifo : Seq(Out), irq : BOOLEAN]
      /\ Len(uart'.fifo) = Len(uart.fifo) + 1 /\ InFifo' = InFifo /\ OneInFifo'
  <2>1. Nothing \in Out /\ uart' = Push(uart, Nothing) /\ OneInFifo
    BY DEF Out, EchoPut, Nothing, IndInv, Output, OneFlies
  <2> QED
    BY <1>1, <2>1, FifoPush DEF IndInv
<1>3. intr'.pc = "echo" /\ intr.pc = "echo-put"
  BY DEF EchoPut
<1>4. intr'.echo \in Nat
  BY DEF EchoPut, IndInv, IntrTypes
<1>5. Putting' <=> Putting
  BY <1>3 DEF Putting, EchoPut
<1>6. Output'
  BY <1>2, <1>5, OutputFrame DEF EchoPut, IndInv
<1>7. ConsTypes' /\ TxTypes' /\ Reads'
  BY DEF IndInv, ConsTypes, TxTypes, Reads, EchoPut
<1>8. IntrTypes'
  BY <1>2, <1>3, <1>4 DEF EchoPut, IntrTypes
<1>9. Locks' /\ Sleepers' /\ InputRing'
  BY <1>3 DEF IndInv, Locks, Sleepers, Empty, TxFull, InputRing, EchoPut
<1>10. FifoHasRoom'
  <2>1. Putting' => Len(uart'.fifo) <= 1
    BY <1>1, <1>2, <1>5
  <2> QED
    BY <1>3, <2>1 DEF FifoHasRoom
<1> QED
  BY <1>6, <1>7, <1>8, <1>9, <1>10 DEF IndInv

LEMMA ConsoleIntrDoneInv == ASSUME IndInv, ConsoleIntrDone PROVE IndInv'
<1>1. /\ intr' \in [pc : {"idle", "get", "echo", "echo-put", "start", "start-put"}, echo : Nat]
      /\ intr'.pc = "get" /\ intr.pc = "echo"
      /\ cons' \in ConsRecord /\ cons'.r = cons.r /\ cons'.w = cons.w /\ cons'.e = cons.e
      /\ cons'.buf = cons.buf /\ cons'.lock = None
  BY DEF IndInv, IntrTypes, ConsTypes, ConsRecord, ConsoleIntrDone
<1>2. Putting' <=> Putting
  BY <1>1 DEF Putting, ConsoleIntrDone
<1>3. Output'
  BY <1>2, OutputAside DEF ConsoleIntrDone
<1>4. ConsTypes' /\ TxTypes' /\ IntrTypes' /\ Reads'
  BY <1>1 DEF IndInv, ConsTypes, TxTypes, IntrTypes, Reads, ConsoleIntrDone
<1>5. Locks'
  <2>1. cons.lock = Handler /\ \A p \in Readers : p # Handler /\ p # None
    BY <1>1, Numbers DEF IndInv, Locks
  <2> QED
    BY <1>1, <2>1, Numbers DEF IndInv, Locks, ConsoleIntrDone
<1>6. Sleepers' /\ FifoHasRoom'
  BY <1>1, <1>2 DEF IndInv, Sleepers, Empty, TxFull, FifoHasRoom, ConsoleIntrDone
<1>7. InputRing'
  BY <1>1 DEF IndInv, InputRing, RingOK
<1> QED
  BY <1>3, <1>4, <1>5, <1>6, <1>7 DEF IndInv

LEMMA IntrTxInv == ASSUME IndInv, IntrTx PROVE IndInv'
<1>1. /\ intr' \in [pc : {"idle", "get", "echo", "echo-put", "start", "start-put"}, echo : Nat]
      /\ intr'.pc = "start" /\ intr.pc = "get"
      /\ tx' \in [buf : [0 .. UART_TX_BUF_SIZE - 1 -> Out], w : Nat, r : Nat, lock : Writers \cup {Handler, None}]
      /\ tx'.buf = tx.buf /\ tx'.w = tx.w /\ tx'.r = tx.r /\ tx'.lock = Handler /\ tx.lock = None
  BY DEF IndInv, IntrTypes, TxTypes, IntrTx
<1>2. Putting' <=> Putting
  BY <1>1 DEF Putting, IntrTx
<1>3. InFifo' = InFifo /\ OneInFifo'
  BY DEF IndInv, InFifo, OneInFifo, Output, OneFlies, IntrTx
<1>4. Output'
  BY <1>1, <1>2, <1>3, OutputFrame DEF IndInv, IntrTx
<1>5. ConsTypes' /\ TxTypes' /\ IntrTypes' /\ Reads'
  BY <1>1 DEF IndInv, ConsTypes, TxTypes, IntrTypes, Reads, IntrTx
<1>6. Locks'
  BY <1>1, Numbers DEF IndInv, Locks, IntrTx
<1>7. Sleepers' /\ FifoHasRoom' /\ InputRing'
  BY <1>1, <1>2 DEF IndInv, Sleepers, Empty, TxFull, FifoHasRoom, InputRing, IntrTx
<1> QED
  BY <1>4, <1>5, <1>6, <1>7 DEF IndInv

\* What a key does to what is ready and to what can be edited.
Ready(c) == Contents(c, c.r, c.w)
Edit(c) == Contents(c, c.w, c.e)
KeyEffect(c, key) == CASE key = "ctrl-U" -> KillLine(c)
                       [] key = "backspace" -> Erase(c)
                       [] OTHER -> Store(c, key)
\* The same of the two sequences, before and after.
KeyRight(key, edit, ready, edit2, ready2) ==
  /\ key = "ctrl-U" => edit2 = <<>> /\ ready2 = ready
  /\ key = "backspace" => /\ edit2 = (IF edit = <<>> THEN <<>> ELSE SubSeq(edit, 1, Len(edit) - 1))
                          /\ ready2 = ready
  /\ key \notin {"ctrl-U", "backspace"} =>
       IF Len(ready) + Len(edit) < INPUT_BUF
       THEN IF key \in {"newline", "ctrl-D"} \/ Len(ready) + Len(edit) + 1 = INPUT_BUF
            THEN ready2 = ready \o Append(edit, key) /\ edit2 = <<>>
            ELSE edit2 = Append(edit, key) /\ ready2 = ready
       ELSE edit2 = edit /\ ready2 = ready
KeyFrame(c, d) ==
  /\ d.cons \in ConsRecord /\ RingOK(d.cons) /\ d.cons.lock = c.lock /\ d.cons.r = c.r
  /\ d.echo \in Nat /\ d.wake \in BOOLEAN /\ (d.wake \/ d.cons.w = c.w)
LEMMA KeyIs ==
  ASSUME NEW c \in ConsRecord, RingOK(c), NEW key \in Keys, NEW d, d = KeyEffect(c, key)
  PROVE  KeyFrame(c, d) /\ KeyRight(key, Edit(c), Ready(c), Edit(d.cons), Ready(d.cons))
<1>1. c.r \in Wide /\ c.w \in Wide /\ c.e \in Wide
  BY DEF ConsRecord
<1>2. PICK m \in Nat, n \in Nat : m = Dist(c.r, c.w) /\ n = Dist(c.w, c.e)
  <2>1. Dist(c.r, c.w) \in Nat /\ Dist(c.w, c.e) \in Nat
    BY <1>1, ContentsIs
  <2> QED
    BY <2>1
<1>3. Len(Ready(c)) = m /\ Len(Edit(c)) = n /\ (Edit(c) = <<>> <=> c.w = c.e)
  BY <1>1, <1>2, ContentsIs DEF Ready, Edit
<1>4. CASE key = "ctrl-U"
  <2>1. d = [cons |-> [c EXCEPT !.e = c.w], echo |-> n, wake |-> FALSE]
    BY <1>2, <1>4, KillIs DEF KeyEffect
  <2>2. d.cons = [c EXCEPT !.e = c.w] /\ d.echo = n /\ d.wake = FALSE
    BY <2>1
  <2>3. KeyFrame(c, d)
    BY <2>2, LineKilled DEF KeyFrame
  <2>4. Edit(d.cons) = <<>> /\ Ready(d.cons) = Ready(c)
    BY <2>2, LineKilled DEF Ready, Edit
  <2> QED
    BY <1>4, <2>3, <2>4 DEF KeyRight
<1>5. CASE key = "backspace"
  <2>1. d = Erase(c)
    BY <1>5 DEF KeyEffect
  <2>2. CASE c.e = c.w
    <3>1. d.cons = c /\ d.echo = 0 /\ d.wake = FALSE
      BY <2>1, <2>2 DEF Erase
    <3> QED
      BY <1>3, <1>5, <2>2, <3>1 DEF KeyFrame, KeyRight
  <2>3. CASE c.e # c.w
    <3>1. d.cons = [c EXCEPT !.e = Dec(c.e)] /\ d.echo = 1 /\ d.wake = FALSE
      BY <2>1, <2>3 DEF Erase
    <3>2. /\ d.cons \in ConsRecord /\ RingOK(d.cons) /\ d.cons.lock = c.lock
          /\ d.cons.r = c.r /\ d.cons.w = c.w /\ Ready(d.cons) = Ready(c)
          /\ Edit(d.cons) = SubSeq(Edit(c), 1, Len(Edit(c)) - 1)
      BY <2>3, <3>1, Erased DEF Ready, Edit
    <3>3. KeyFrame(c, d)
      <4>1. d.cons \in ConsRecord /\ RingOK(d.cons) /\ d.cons.lock = c.lock /\ d.cons.r = c.r /\ d.cons.w = c.w
        BY <3>2
      <4>2. d.echo \in Nat
        BY <3>1
      <4>3. d.wake \in BOOLEAN
        BY <3>1
      <4> QED
        BY <4>1, <4>2, <4>3 DEF KeyFrame
    <3>4. KeyRight(key, Edit(c), Ready(c), Edit(d.cons), Ready(d.cons))
      BY <1>3, <1>5, <2>3, <3>2 DEF KeyRight
    <3> QED
      BY <3>3, <3>4
  <2> QED
    BY <2>2, <2>3
<1>6. CASE key # "ctrl-U" /\ key # "backspace"
  <2>1. d = Store(c, key) /\ key \in Chars
    BY <1>6 DEF KeyEffect, Chars
  <2>2. CASE m + n = INPUT_BUF
    <3>1. d.cons = c /\ d.echo = 0 /\ d.wake = FALSE
      BY <1>2, <2>1, <2>2, StoreIs
    <3>2. ~(m + n < INPUT_BUF)
      BY <1>2, <2>2
    <3>3. KeyFrame(c, d)
      <4>1. d.cons \in ConsRecord /\ RingOK(d.cons) /\ d.cons.lock = c.lock /\ d.cons.r = c.r /\ d.cons.w = c.w
        BY <3>1
      <4>2. d.echo \in Nat
        BY <3>1
      <4>3. d.wake \in BOOLEAN
        BY <3>1
      <4> QED
        BY <4>1, <4>2, <4>3 DEF KeyFrame
    <3>4. ~(Len(Ready(c)) + Len(Edit(c)) < INPUT_BUF)
      BY <1>3, <3>2
    <3> QED
      BY <1>6, <3>1, <3>3, <3>4 DEF KeyRight
  <2>3. CASE m + n # INPUT_BUF
    <3>1. m + n < INPUT_BUF /\ Dist(c.r, c.w) + Dist(c.w, c.e) < INPUT_BUF
      BY <1>2, <2>3, Numbers DEF RingOK
    <3>2. d = [cons |-> IF EndsLine(c, key) THEN Finished(c, key) ELSE Stored(c, key),
               echo |-> 1, wake |-> EndsLine(c, key)]
      BY <1>2, <2>1, <2>3, StoreIs
    <3>3. EndsLine(c, key) <=> key \in {"newline", "ctrl-D"} \/ Len(Ready(c)) + Len(Edit(c)) + 1 = INPUT_BUF
      BY <1>2, <1>3 DEF EndsLine
    <3>4. CASE EndsLine(c, key)
      <4>1. d.cons = Finished(c, key) /\ d.echo = 1 /\ d.wake = TRUE
        BY <3>2, <3>4
      <4>2. /\ d.cons \in ConsRecord /\ RingOK(d.cons) /\ d.cons.r = c.r /\ d.cons.lock = c.lock
            /\ Ready(d.cons) = Ready(c) \o Append(Edit(c), key) /\ Edit(d.cons) = <<>>
        BY <2>1, <3>1, <4>1, LineEnds DEF Ready, Edit
      <4>3. KeyFrame(c, d)
        <5>1. d.echo \in Nat
          BY <4>1
        <5>2. d.wake \in BOOLEAN /\ d.wake
          BY <4>1
        <5> QED
          BY <4>2, <5>1, <5>2 DEF KeyFrame
      <4>4. Len(Ready(c)) + Len(Edit(c)) < INPUT_BUF
        BY <1>3, <3>1
      <4> QED
        BY <1>6, <3>3, <3>4, <4>2, <4>3, <4>4 DEF KeyRight
    <3>5. CASE ~EndsLine(c, key)
      <4>1. d.cons = Stored(c, key) /\ d.echo = 1 /\ d.wake = FALSE
        BY <3>2, <3>5
      <4>2. PICK s : s = d.cons
        OBVIOUS
      <4>3. /\ s \in ConsRecord /\ s.r = c.r /\ s.w = c.w /\ s.lock = c.lock
            /\ Ready(s) = Ready(c) /\ Edit(s) = Append(Edit(c), key)
            /\ Dist(s.r, s.w) = m /\ Dist(s.w, s.e) = n + 1
            /\ \A i \in 1 .. n : s.buf[(c.w + i - 1) % INPUT_BUF] = c.buf[(c.w + i - 1) % INPUT_BUF]
            /\ s.buf[(c.w + n) % INPUT_BUF] = key
        BY <1>2, <2>1, <3>1, <4>1, <4>2, KeyStored DEF Ready, Edit
      <4>4. RingOK(s)
        <5>1. m + (n + 1) < INPUT_BUF /\ key # "newline"
          <6>1. m + n + 1 # INPUT_BUF /\ key # "newline"
            BY <1>2, <3>5 DEF EndsLine
          <6> QED
            BY <3>1, <6>1, Numbers
        <5>2. \A i \in 1 .. n : c.buf[(c.w + i - 1) % INPUT_BUF] # "newline"
          BY <1>2 DEF RingOK
        <5>3. ASSUME NEW i \in 1 .. n + 1 PROVE s.buf[(c.w + i - 1) % INPUT_BUF] # "newline"
          <6>1. CASE i = n + 1
            <7>1. c.w + i - 1 = c.w + n
              BY <1>1, <1>2, <6>1 DEF Wide
            <7> QED
              BY <4>3, <5>1, <7>1
          <6>2. CASE i # n + 1
            <7>1. i \in 1 .. n
              BY <1>2, <6>2
            <7> QED
              BY <4>3, <5>2, <7>1
          <6> QED
            BY <6>1, <6>2
        <5>4. m + (n + 1) <= INPUT_BUF /\ m + (n + 1) # INPUT_BUF
          BY <1>2, <5>1, Numbers
        <5> QED
          BY <4>3, <5>3, <5>4 DEF RingOK
      <4>5. KeyFrame(c, d)
        <5>1. d.echo \in Nat
          BY <4>1
        <5>2. d.wake \in BOOLEAN
          BY <4>1
        <5>3. d.cons \in ConsRecord /\ RingOK(d.cons) /\ d.cons.lock = c.lock /\ d.cons.r = c.r /\ d.cons.w = c.w
          BY <4>2, <4>3, <4>4
        <5> QED
          BY <5>1, <5>2, <5>3 DEF KeyFrame
      <4>6. Len(Ready(c)) + Len(Edit(c)) < INPUT_BUF
        BY <1>3, <3>1
      <4> QED
        BY <1>6, <3>3, <3>5, <4>2, <4>3, <4>5, <4>6 DEF KeyRight
    <3> QED
      BY <3>4, <3>5
  <2> QED
    BY <2>2, <2>3
<1> QED
  BY <1>4, <1>5, <1>6

LEMMA ConsoleIntrInv == ASSUME IndInv, ConsoleIntr PROVE IndInv'
<1>1. PICK key : key = Head(uart.rx)
  OBVIOUS
<1>2. key \in Keys /\ Tail(uart.rx) \in Seq(Keys)
  BY <1>1, HeadTailProperties DEF IndInv, IntrTypes, ConsoleIntr
<1>3. PICK d : d = KeyEffect(cons, key)
  OBVIOUS
<1>4. /\ cons' = [d.cons EXCEPT !.lock = Handler] /\ intr' = [pc |-> "echo", echo |-> d.echo]
      /\ reader' = IF d.wake THEN Woken(reader) ELSE reader
      /\ cons.lock = None /\ intr.pc = "get"
      /\ uart' = [uart EXCEPT !.rx = Tail(@)] /\ UNCHANGED <<killed, tx, writer, sent, typed, load>>
  BY <1>1, <1>3 DEF ConsoleIntr, KeyEffect
<1>5. cons \in ConsRecord /\ RingOK(cons)
  BY DEF IndInv, ConsTypes, InputRing
<1>6. /\ d.cons \in ConsRecord /\ RingOK(d.cons) /\ d.cons.r = cons.r /\ d.echo \in Nat
      /\ d.wake \in BOOLEAN /\ (d.wake \/ d.cons.w = cons.w)
  BY <1>2, <1>3, <1>5, KeyIs DEF KeyFrame
<1>7. /\ cons' \in ConsRecord /\ cons'.r = d.cons.r /\ cons'.w = d.cons.w /\ cons'.e = d.cons.e
      /\ cons'.buf = d.cons.buf /\ cons'.lock = Handler
  BY <1>4, <1>6 DEF ConsRecord
<1>8. /\ reader' \in [Readers -> [pc : {"idle", "enter", "run", "sleep", "done"}, want : Nat, got : Seq(Chars)]]
      /\ \A p \in Readers : /\ reader'[p].want = reader[p].want /\ reader'[p].got = reader[p].got
                            /\ (reader'[p].pc = reader[p].pc \/ (reader[p].pc = "sleep" /\ reader'[p].pc = "enter"))
                            /\ reader'[p].pc = "sleep" => ~d.wake /\ reader[p].pc = "sleep"
  BY <1>4, <1>6 DEF Woken, IndInv, ConsTypes
<1>9. /\ uart' \in [rx : Seq(Keys), fifo : Seq(Out), irq : BOOLEAN] /\ uart'.fifo = uart.fifo
      /\ intr' \in [pc : {"idle", "get", "echo", "echo-put", "start", "start-put"}, echo : Nat]
      /\ intr'.pc = "echo"
  BY <1>2, <1>4, <1>6 DEF IndInv, IntrTypes
<1>10. Putting' <=> Putting
  BY <1>4, <1>9 DEF Putting
<1>11. Output'
  BY <1>4, <1>9, <1>10, OutputAside
<1>12. ConsTypes' /\ TxTypes' /\ IntrTypes' /\ Reads'
  <2>1. ConsTypes' /\ TxTypes' /\ IntrTypes'
    BY <1>4, <1>7, <1>8, <1>9 DEF IndInv, ConsTypes, TxTypes, IntrTypes
  <2>2. Reads'
    BY <1>8 DEF IndInv, Reads
  <2> QED
    BY <2>1, <2>2
<1>13. InputRing'
  BY <1>6, <1>7 DEF InputRing, RingOK
<1>14. Locks'
  BY <1>4, <1>7, <1>8, <1>9, Numbers DEF IndInv, Locks
<1>15. Sleepers'
  BY <1>4, <1>6, <1>7, <1>8 DEF IndInv, Sleepers, Empty, TxFull
<1>16. FifoHasRoom'
  BY <1>4, <1>9, <1>10 DEF IndInv, FifoHasRoom
<1> QED
  BY <1>11, <1>12, <1>13, <1>14, <1>15, <1>16 DEF IndInv

\* Writers, and whoever runs uartstart.
LEMMA TransmitInv == ASSUME IndInv, Transmit PROVE IndInv'
<1>1. Output' /\ TxTypes' /\ IntrTypes'
  BY OutputTransmit DEF IndInv
<1>2. Len(uart'.fifo) = Len(uart.fifo) - 1 /\ Len(uart.fifo) \in Nat /\ uart.fifo # <<>>
  <2>1. uart.fifo \in Seq(Out) /\ uart.fifo # <<>> /\ uart'.fifo = Tail(uart.fifo)
    BY DEF IndInv, IntrTypes, Transmit
  <2> QED
    BY <2>1, FifoIs, HeadTailProperties DEF IndInv
<1>3. Putting' <=> Putting
  BY DEF Putting, Transmit
<1>4. FifoHasRoom'
  BY <1>2, <1>3 DEF IndInv, FifoHasRoom, Transmit
<1>5. ConsTypes' /\ Reads' /\ Locks' /\ Sleepers' /\ InputRing'
  BY DEF IndInv, ConsTypes, Reads, Locks, Sleepers, Empty, TxFull, InputRing, Transmit
<1> QED
  BY <1>1, <1>4, <1>5 DEF IndInv

\* What a step of the output leaves alone.
LEMMA WriterFrame ==
  ASSUME IndInv, UNCHANGED <<cons, reader, sent>>, Output', TxTypes', IntrTypes', FifoHasRoom',
         \A p \in Writers : writer'[p].pc \in {"start", "start-put"} <=> tx'.lock = p,
         intr'.pc \in {"start", "start-put"} <=> tx'.lock = Handler,
         intr'.pc \in {"echo", "echo-put"} <=> intr.pc \in {"echo", "echo-put"},
         \A p \in Writers : writer'[p].pc = "sleep" => tx'.w = tx'.r + UART_TX_BUF_SIZE
  PROVE  IndInv'
<1>1. ConsTypes' /\ Reads' /\ InputRing'
  BY DEF IndInv, ConsTypes, Reads, InputRing
<1>2. Locks'
  BY DEF IndInv, Locks
<1>3. Sleepers'
  BY DEF IndInv, Sleepers, Empty, TxFull
<1> QED
  BY <1>1, <1>2, <1>3 DEF IndInv

LEMMA ConsoleWriteInv == ASSUME IndInv, NEW p \in Writers, ConsoleWrite(p) PROVE IndInv'
<1>1. /\ writer' \in [Writers -> [pc : {"idle", "put", "sleep", "start", "start-put"}, put : Nat]]
      /\ writer'[p].pc = "put" /\ writer[p].pc = "idle" /\ writer'[p].put = writer[p].put
      /\ \A q \in Writers : q # p => writer'[q] = writer[q]
  BY DEF IndInv, TxTypes, ConsoleWrite
<1>2. Putting' <=> Putting
  BY <1>1 DEF Putting, ConsoleWrite
<1>3. Output'
  BY <1>1, <1>2, OutputAside DEF ConsoleWrite
<1>4. TxTypes' /\ IntrTypes' /\ FifoHasRoom'
  BY <1>1, <1>2 DEF IndInv, TxTypes, IntrTypes, FifoHasRoom, ConsoleWrite
<1>5. /\ \A q \in Writers : writer'[q].pc \in {"start", "start-put"} <=> tx'.lock = q
      /\ \A q \in Writers : writer'[q].pc = "sleep" => tx'.w = tx'.r + UART_TX_BUF_SIZE
      /\ intr'.pc \in {"start", "start-put"} <=> tx'.lock = Handler
  BY <1>1 DEF IndInv, Locks, Sleepers, TxFull, ConsoleWrite
<1> QED
  BY <1>3, <1>4, <1>5, WriterFrame DEF ConsoleWrite

LEMMA PutSleepInv == ASSUME IndInv, NEW p \in Writers, PutSleep(p) PROVE IndInv'
<1>1. /\ writer' \in [Writers -> [pc : {"idle", "put", "sleep", "start", "start-put"}, put : Nat]]
      /\ writer'[p].pc = "sleep" /\ writer[p].pc = "put" /\ writer'[p].put = writer[p].put
      /\ \A q \in Writers : q # p => writer'[q] = writer[q]
  BY DEF IndInv, TxTypes, PutSleep
<1>2. Putting' <=> Putting
  BY <1>1 DEF Putting, PutSleep
<1>3. Output'
  BY <1>1, <1>2, OutputAside DEF PutSleep
<1>4. TxTypes' /\ IntrTypes' /\ FifoHasRoom'
  BY <1>1, <1>2 DEF IndInv, TxTypes, IntrTypes, FifoHasRoom, PutSleep
<1>5. /\ \A q \in Writers : writer'[q].pc \in {"start", "start-put"} <=> tx'.lock = q
      /\ \A q \in Writers : writer'[q].pc = "sleep" => tx'.w = tx'.r + UART_TX_BUF_SIZE
      /\ intr'.pc \in {"start", "start-put"} <=> tx'.lock = Handler
  BY <1>1 DEF IndInv, Locks, Sleepers, TxFull, PutSleep
<1> QED
  BY <1>3, <1>4, <1>5, WriterFrame DEF PutSleep

LEMMA PutCharInv == ASSUME IndInv, NEW p \in Writers, PutChar(p) PROVE IndInv'
<1>1. PICK n \in Nat : n = writer[p].put + 1
  BY DEF IndInv, TxTypes
<1>2. /\ writer' \in [Writers -> [pc : {"idle", "put", "sleep", "start", "start-put"}, put : Nat]]
      /\ writer'[p].pc = "start" /\ writer'[p].put = n
      /\ \A q \in Writers : q # p => writer'[q] = writer[q]
  BY <1>1 DEF IndInv, TxTypes, PutChar
<1>3. PICK x \in 0 .. UART_TX_BUF_SIZE - 1 : x = tx.w % UART_TX_BUF_SIZE
  BY Numbers, DivMod DEF IndInv, TxTypes
<1>4. tx' = [buf |-> [tx.buf EXCEPT ![x] = <<p, n>>], w |-> tx.w + 1, r |-> tx.r, lock |-> p]
  BY <1>1, <1>3 DEF PutChar
<1>5. /\ tx' \in [buf : [0 .. UART_TX_BUF_SIZE - 1 -> Out], w : Nat, r : Nat, lock : Writers \cup {Handler, None}]
      /\ tx'.buf = [tx.buf EXCEPT ![x] = <<p, n>>] /\ tx'.w = tx.w + 1 /\ tx'.r = tx.r /\ tx'.lock = p
  <2>1. <<p, n>> \in Out
    BY DEF Out
  <2> QED
    BY <1>4, <2>1 DEF IndInv, TxTypes
<1>6. tx.lock = None /\ ~TxFull /\ p # Handler /\ p # None
      /\ (\A q \in Writers : q # None) /\ (\A q \in Writers : writer[q].pc # "sleep") /\ Handler # None
  BY Numbers DEF PutChar, IndInv, Sleepers
<1>7. (\A q \in Writers : writer[q].pc \notin {"start", "start-put"}) /\ intr.pc \notin {"start", "start-put"}
  BY <1>6 DEF IndInv, Locks
<1>8. ~Putting /\ ~Putting'
  BY <1>2, <1>7 DEF Putting, PutChar
<1>9. Output'
  BY <1>1, <1>2, <1>3, <1>5, <1>6, <1>8, OutputAppend DEF IndInv, PutChar
<1>10. TxTypes' /\ IntrTypes' /\ FifoHasRoom'
  BY <1>2, <1>5, <1>8 DEF IndInv, TxTypes, IntrTypes, FifoHasRoom, PutChar
<1>11. /\ \A q \in Writers : writer'[q].pc \in {"start", "start-put"} <=> tx'.lock = q
       /\ \A q \in Writers : writer'[q].pc # "sleep"
       /\ intr'.pc \in {"start", "start-put"} <=> tx'.lock = Handler
  BY <1>2, <1>5, <1>6, <1>7 DEF PutChar
<1> QED
  BY <1>9, <1>10, <1>11, WriterFrame DEF PutChar

\* The three steps of uartstart: who runs it goes from pc to next.
LEMMA Moves ==
  ASSUME IndInv, NEW who \in Writers \cup {Handler}, NEW pc, NEW next, NEW others,
         pc \in {"start", "start-put"}, next \in {"idle", "start", "start-put"}, AtStart(who, pc),
         others \in [Writers -> [pc : {"idle", "put", "sleep", "start", "start-put"}, put : Nat]],
         \A p \in Writers : others[p].put = writer[p].put /\
                            (others[p].pc = writer[p].pc \/ (writer[p].pc = "sleep" /\ others[p].pc = "put")),
         GoTo(who, next, others), next = "idle" => tx'.lock = None, next # "idle" => tx'.lock = who
  PROVE  /\ writer' \in [Writers -> [pc : {"idle", "put", "sleep", "start", "start-put"}, put : Nat]]
         /\ \A p \in Writers : writer'[p].put = writer[p].put
         /\ \A p \in Writers : writer'[p].pc = "sleep" => others[p].pc = "sleep"
         /\ intr' \in [pc : {"idle", "get", "echo", "echo-put", "start", "start-put"}, echo : Nat]
         /\ intr'.pc \in {"echo", "echo-put"} <=> intr.pc \in {"echo", "echo-put"}
         /\ intr'.pc = "echo-put" <=> intr.pc = "echo-put"
         /\ intr'.pc = "echo-put" => intr'.echo # 0
         /\ \A p \in Writers : writer'[p].pc \in {"start", "start-put"} <=> tx'.lock = p
         /\ intr'.pc \in {"start", "start-put"} <=> tx'.lock = Handler
         /\ Putting <=> pc = "start-put"
         /\ Putting' <=> next = "start-put"
<1>1. tx.lock = who
  BY DEF AtStart
<1>2. /\ \A p \in Writers : p # who => writer[p].pc \notin {"start", "start-put"} /\ others[p].pc \notin {"start", "start-put"}
      /\ who # Handler => intr.pc \notin {"start", "start-put"}
      /\ \A p \in Writers : p # Handler /\ p # None
      /\ Handler # None
  BY <1>1, Numbers DEF IndInv, Locks
<1>3. intr \in [pc : {"idle", "get", "echo", "echo-put", "start", "start-put"}, echo : Nat]
      /\ (intr.pc = "echo-put" => intr.echo # 0)
  BY DEF IndInv, IntrTypes
<1>4. CASE who = Handler
  <2>1. intr.pc = pc /\ intr' = [intr EXCEPT !.pc = next] /\ writer' = others
    BY <1>4 DEF AtStart, GoTo
  <2>2. intr'.pc = next /\ intr' \in [pc : {"idle", "get", "echo", "echo-put", "start", "start-put"}, echo : Nat]
    BY <1>3, <2>1
  <2> QED
    BY <1>2, <1>4, <2>1, <2>2 DEF Putting
<1>5. CASE who \in Writers
  <2>1. writer[who].pc = pc /\ writer' = [others EXCEPT ![who].pc = next] /\ intr' = intr /\ who # Handler
    BY <1>2, <1>5 DEF AtStart, GoTo
  <2>2. /\ writer' \in [Writers -> [pc : {"idle", "put", "sleep", "start", "start-put"}, put : Nat]]
        /\ writer'[who].pc = next /\ writer'[who].put = others[who].put
        /\ \A p \in Writers : p # who => writer'[p] = others[p]
    BY <1>5, <2>1
  <2> QED
    BY <1>2, <1>3, <1>5, <2>1, <2>2 DEF Putting
<1> QED
  BY <1>4, <1>5

LEMMA StartDoneInv == ASSUME IndInv, NEW who \in Writers \cup {Handler}, StartDone(who) PROVE IndInv'
<1>1. /\ writer \in [Writers -> [pc : {"idle", "put", "sleep", "start", "start-put"}, put : Nat]]
      /\ tx' \in [buf : [0 .. UART_TX_BUF_SIZE - 1 -> Out], w : Nat, r : Nat, lock : Writers \cup {Handler, None}]
      /\ tx'.buf = tx.buf /\ tx'.w = tx.w /\ tx'.r = tx.r /\ tx'.lock = None
      /\ AtStart(who, "start") /\ GoTo(who, "idle", writer) /\ UNCHANGED <<cons, reader, uart, sent>>
  BY DEF IndInv, TxTypes, StartDone
<1>0. /\ writer \in [Writers -> [pc : {"idle", "put", "sleep", "start", "start-put"}, put : Nat]]
      /\ AtStart(who, "start") /\ GoTo(who, "idle", writer) /\ tx'.lock = None
  BY <1>1
<1>2. /\ writer' \in [Writers -> [pc : {"idle", "put", "sleep", "start", "start-put"}, put : Nat]]
      /\ \A p \in Writers : writer'[p].put = writer[p].put
      /\ \A p \in Writers : writer'[p].pc = "sleep" => writer[p].pc = "sleep"
      /\ intr' \in [pc : {"idle", "get", "echo", "echo-put", "start", "start-put"}, echo : Nat]
      /\ intr'.pc \in {"echo", "echo-put"} <=> intr.pc \in {"echo", "echo-put"}
      /\ intr'.pc = "echo-put" => intr'.echo # 0
      /\ \A p \in Writers : writer'[p].pc \in {"start", "start-put"} <=> tx'.lock = p
      /\ intr'.pc \in {"start", "start-put"} <=> tx'.lock = Handler
      /\ ~Putting /\ ~Putting' /\ (intr'.pc = "echo-put" <=> intr.pc = "echo-put")
  <2>1. ("idle" = "idle" => tx'.lock = None) /\ ("idle" # "idle" => tx'.lock = who) /\ "start" \in {"start", "start-put"} /\ "idle" \in {"idle", "start", "start-put"}
    BY <1>0
  <2>2. \A p \in Writers : writer[p].put = writer[p].put /\
          (writer[p].pc = writer[p].pc \/ (writer[p].pc = "sleep" /\ writer[p].pc = "put"))
    OBVIOUS
  <2>3. "idle" # "start-put" /\ "start" # "start-put"
    OBVIOUS
  <2>4. /\ Putting <=> "start" = "start-put"
        /\ Putting' <=> "idle" = "start-put"
    BY <1>0, <2>1, <2>2, Moves
  <2>5. /\ writer' \in [Writers -> [pc : {"idle", "put", "sleep", "start", "start-put"}, put : Nat]]
        /\ \A p \in Writers : writer'[p].put = writer[p].put
    BY <1>0, <2>1, <2>2, Moves
  <2>6. \A p \in Writers : writer'[p].pc = "sleep" => writer[p].pc = "sleep"
    BY <1>0 DEF GoTo
  <2>7. /\ intr' \in [pc : {"idle", "get", "echo", "echo-put", "start", "start-put"}, echo : Nat]
        /\ intr'.pc \in {"echo", "echo-put"} <=> intr.pc \in {"echo", "echo-put"}
    BY <1>0, <2>1, <2>2, Moves
  <2>8. intr'.pc = "echo-put" => intr'.echo # 0
    BY <1>0, <2>1, <2>2, Moves
  <2>9. intr'.pc = "echo-put" <=> intr.pc = "echo-put"
    BY <1>0, <2>1, <2>2, Moves
  <2>10. /\ \A p \in Writers : writer'[p].pc \in {"start", "start-put"} <=> tx'.lock = p
         /\ intr'.pc \in {"start", "start-put"} <=> tx'.lock = Handler
    BY <1>0, <2>1, <2>2, Moves
  <2> QED
    BY <2>3, <2>4, <2>5, <2>6, <2>7, <2>8, <2>9, <2>10
<1>3. Output'
  <2>1. InFifo' = InFifo /\ OneInFifo'
    BY <1>1 DEF IndInv, InFifo, OneInFifo, Output, OneFlies
  <2> QED
    BY <1>1, <1>2, <2>1, OutputFrame DEF IndInv
<1>4. TxTypes' /\ IntrTypes'
  BY <1>1, <1>2 DEF IndInv, TxTypes, IntrTypes
<1>5. FifoHasRoom'
  BY <1>1, <1>2 DEF IndInv, FifoHasRoom
<1>6. \A p \in Writers : writer'[p].pc = "sleep" => tx'.w = tx'.r + UART_TX_BUF_SIZE
  BY <1>1, <1>2 DEF IndInv, Sleepers, TxFull
<1> QED
  BY <1>1, <1>2, <1>3, <1>4, <1>5, <1>6, WriterFrame

LEMMA StartTakeInv == ASSUME IndInv, NEW who \in Writers \cup {Handler}, StartTake(who) PROVE IndInv'
<1>1. /\ tx' \in [buf : [0 .. UART_TX_BUF_SIZE - 1 -> Out], w : Nat, r : Nat, lock : Writers \cup {Handler, None}]
      /\ tx' = [tx EXCEPT !.r = @ + 1] /\ tx.r # tx.w /\ uart.fifo = <<>> /\ Len(uart.fifo) = 0
      /\ tx.lock = who /\ tx'.lock = who /\ AtStart(who, "start") /\ GoTo(who, "start-put", Wake(writer))
      /\ UNCHANGED <<cons, reader, uart, sent>>
  BY DEF IndInv, TxTypes, StartTake, TxIdle, AtStart
<1>2. /\ Wake(writer) \in [Writers -> [pc : {"idle", "put", "sleep", "start", "start-put"}, put : Nat]]
      /\ \A p \in Writers :
           /\ Wake(writer)[p].put = writer[p].put /\ Wake(writer)[p].pc # "sleep"
           /\ Wake(writer)[p].pc = writer[p].pc \/ (writer[p].pc = "sleep" /\ Wake(writer)[p].pc = "put")
  BY DEF IndInv, TxTypes, Wake
<1>3. /\ writer' \in [Writers -> [pc : {"idle", "put", "sleep", "start", "start-put"}, put : Nat]]
      /\ \A p \in Writers : writer'[p].put = writer[p].put
      /\ \A p \in Writers : writer'[p].pc = "sleep" => Wake(writer)[p].pc = "sleep"
      /\ intr' \in [pc : {"idle", "get", "echo", "echo-put", "start", "start-put"}, echo : Nat]
      /\ intr'.pc \in {"echo", "echo-put"} <=> intr.pc \in {"echo", "echo-put"}
      /\ intr'.pc = "echo-put" => intr'.echo # 0
      /\ \A p \in Writers : writer'[p].pc \in {"start", "start-put"} <=> tx'.lock = p
      /\ intr'.pc \in {"start", "start-put"} <=> tx'.lock = Handler
      /\ ~Putting /\ Putting'
  BY <1>1, <1>2, Moves
<1>4. Output'
  BY <1>1, <1>3, OutputTake DEF IndInv
<1>5. TxTypes' /\ IntrTypes'
  BY <1>1, <1>3 DEF IndInv, TxTypes, IntrTypes
<1>6. FifoHasRoom'
  BY <1>1 DEF FifoHasRoom
<1>7. \A p \in Writers : writer'[p].pc = "sleep" => tx'.w = tx'.r + UART_TX_BUF_SIZE
  BY <1>2, <1>3
<1> QED
  BY <1>1, <1>3, <1>4, <1>5, <1>6, <1>7, WriterFrame

LEMMA StartPutInv == ASSUME IndInv, NEW who \in Writers \cup {Handler}, StartPut(who) PROVE IndInv'
<1>1. /\ writer \in [Writers -> [pc : {"idle", "put", "sleep", "start", "start-put"}, put : Nat]]
      /\ uart' = Push(uart, Entry(tx.r - 1)) /\ tx' = tx /\ UNCHANGED <<cons, reader, sent>>
      /\ tx.lock = who /\ AtStart(who, "start-put") /\ GoTo(who, "start", writer)
  BY DEF IndInv, TxTypes, StartPut, AtStart, Entry
<1>2. /\ writer' \in [Writers -> [pc : {"idle", "put", "sleep", "start", "start-put"}, put : Nat]]
      /\ \A p \in Writers : writer'[p].put = writer[p].put
      /\ \A p \in Writers : writer'[p].pc = "sleep" => writer[p].pc = "sleep"
      /\ intr' \in [pc : {"idle", "get", "echo", "echo-put", "start", "start-put"}, echo : Nat]
      /\ intr'.pc \in {"echo", "echo-put"} <=> intr.pc \in {"echo", "echo-put"}
      /\ intr'.pc = "echo-put" => intr'.echo # 0
      /\ \A p \in Writers : writer'[p].pc \in {"start", "start-put"} <=> tx'.lock = p
      /\ intr'.pc \in {"start", "start-put"} <=> tx'.lock = Handler
      /\ Putting /\ ~Putting' /\ (intr'.pc = "echo-put" <=> intr.pc = "echo-put")
  <2>1. ("start" = "idle" => tx'.lock = None) /\ ("start" # "idle" => tx'.lock = who) /\ "start-put" \in {"start", "start-put"} /\ "start" \in {"idle", "start", "start-put"}
    BY <1>1
  <2>2. \A p \in Writers : writer[p].put = writer[p].put /\
          (writer[p].pc = writer[p].pc \/ (writer[p].pc = "sleep" /\ writer[p].pc = "put"))
    OBVIOUS
  <2>3. "start" # "idle" /\ "start" # "start-put"
    OBVIOUS
  <2> QED
    BY <1>1, <2>1, <2>2, <2>3, Moves
<1>3. Len(uart.fifo) <= 1 /\ (intr.pc = "echo-put" => Len(uart.fifo) = 0) /\ Len(uart.fifo) \in Nat
  BY <1>2, FifoIs DEF IndInv, FifoHasRoom
<1>4. Entry(tx.r - 1) \in Out
  BY <1>2 DEF IndInv, Output, OneFlies, Out
<1>5. /\ uart' \in [rx : Seq(Keys), fifo : Seq(Out), irq : BOOLEAN]
      /\ Len(uart'.fifo) = Len(uart.fifo) + 1
  BY <1>1, <1>3, <1>4, FifoPush DEF IndInv
<1>6. Output'
  BY <1>1, <1>2, <1>3, OutputPut DEF IndInv
<1>7. TxTypes' /\ IntrTypes'
  BY <1>1, <1>2, <1>5 DEF IndInv, TxTypes, IntrTypes
<1>8. FifoHasRoom'
  BY <1>2, <1>3, <1>5 DEF FifoHasRoom
<1>9. \A p \in Writers : writer'[p].pc = "sleep" => tx'.w = tx'.r + UART_TX_BUF_SIZE
  BY <1>1, <1>2 DEF IndInv, Sleepers, TxFull
<1> QED
  BY <1>1, <1>2, <1>6, <1>7, <1>8, <1>9, WriterFrame

LEMMA StutterInv == ASSUME IndInv, UNCHANGED vars PROVE IndInv'
<1>1. UNCHANGED <<cons, reader, tx, writer, intr, uart, sent>>
  BY DEF vars
<1>2. Putting' <=> Putting
  BY <1>1 DEF Putting
<1>3. Output'
  BY <1>1, <1>2, OutputAside
<1>4. ConsTypes' /\ TxTypes' /\ IntrTypes' /\ Reads'
  BY <1>1 DEF IndInv, ConsTypes, TxTypes, IntrTypes, Reads
<1>5. Locks' /\ Sleepers' /\ InputRing' /\ FifoHasRoom'
  BY <1>1, <1>2 DEF IndInv, Locks, Sleepers, Empty, TxFull, InputRing, FifoHasRoom
<1> QED
  BY <1>3, <1>4, <1>5 DEF IndInv

LEMMA NextInv == IndInv /\ [Next]_vars => IndInv'
<1> SUFFICES ASSUME IndInv, [Next]_vars PROVE IndInv'
  OBVIOUS
<1>1. CASE Device
  BY <1>1, TransmitInv DEF Device
<1>2. CASE Interrupt
  BY <1>2, ClaimInv, ConsoleIntrInv, EchoReadyInv, EchoPutInv, ConsoleIntrDoneInv, IntrTxInv DEF Interrupt
<1>3. ASSUME NEW who \in Writers \cup {Handler}, Start(who) PROVE IndInv'
  BY <1>3, StartDoneInv, StartTakeInv, StartPutInv DEF Start
<1>4. ASSUME NEW c \in Keys, TypeKey(c) PROVE IndInv'
  BY <1>4, TypeKeyInv
<1>5. ASSUME NEW p \in Writers, ConsoleWrite(p) \/ Write(p) PROVE IndInv'
  BY <1>3, <1>5, ConsoleWriteInv, PutSleepInv, PutCharInv DEF Write
<1>6. ASSUME NEW p \in Readers, Read(p) \/ ReadFault(p) \/ Kill(p) PROVE IndInv'
  BY <1>6, ReadLockInv, ReadSleepInv, ReadKilledInv, ReadCharInv, ReadEofInv, ReadReturnInv,
     ReadFaultInv, KillInv DEF Read
<1>7. ASSUME NEW p \in Readers, NEW n \in 1 .. MaxRead, ReadCall(p, n) PROVE IndInv'
  BY <1>7, ReadCallInv
<1>8. CASE UNCHANGED vars
  BY <1>8, StutterInv
<1> QED
  BY <1>1, <1>2, <1>3, <1>4, <1>5, <1>6, <1>7, <1>8 DEF Next

\* Locks, rings and what is on its way out hold together in every state.
THEOREM Invariance == Spec => []IndInv
<1> QED
  BY InitInv, NextInv, PTL DEF Spec

\* Nobody sleeps without a cause, and a full input ring can be read
\* (consoleread, uartputc, consoleintr).
THEOREM NobodySleepsInVain == Spec => []SleepersHaveCause
<1>1. ASSUME IndInv PROVE SleepersHaveCause
  <2>1. cons.r \in Wide /\ cons.w \in Wide /\ cons.e \in Wide /\ RingOK(cons)
    BY <1>1 DEF IndInv, ConsTypes, ConsRecord, InputRing
  <2>2. PICK m \in Nat, n \in Nat : m = Dist(cons.r, cons.w) /\ n = Dist(cons.w, cons.e)
    <3>1. Dist(cons.r, cons.w) \in Nat /\ Dist(cons.w, cons.e) \in Nat
      BY <1>1, <2>1, ContentsIs DEF IndInv, ConsTypes
    <3> QED
      BY <3>1
  <2>3. m + n <= INPUT_BUF /\ (m + n = INPUT_BUF => n = 0)
    BY <2>1, <2>2 DEF RingOK
  <2>4. m + n < UintMod
    BY <2>3, ConsoleAssumption
  <2>5. Used(cons) = m + n
    BY <2>1, <2>2, <2>4, DistSum DEF Used, Dist
  <2>6. n = 0 => cons.w = cons.e
    BY <2>1, <2>2, DistIs
  <2> QED
    BY <1>1, <2>3, <2>5, <2>6 DEF IndInv, Sleepers, SleepersHaveCause
<1> QED
  BY <1>1, Invariance, PTL

\* What leaves the UART is the next character of its writer (uartstart and
\* uartputc_sync, which do not share a lock).
THEOREM InOrder == Spec => OutputInOrder
<1>1. ASSUME IndInv, [Next]_vars PROVE [\A p \in Writers : sent'[p] \in {sent[p], sent[p] + 1}]_sent
  <2>1. CASE Transmit
    <3>1. PICK c : c = Head(uart.fifo)
      OBVIOUS
    <3>2. uart.fifo # <<>> /\ sent' = IF c[1] \in Writers THEN [sent EXCEPT ![c[1]] = c[2]] ELSE sent
      BY <2>1, <3>1 DEF Transmit
    <3>3. uart.fifo \in Seq(Out)
      BY <1>1 DEF IndInv, IntrTypes
    <3>4. c = uart.fifo[1] /\ c \in Out /\ 1 \in 1 .. Len(uart.fifo)
      BY <3>1, <3>2, <3>3, HeadTailProperties, EmptySeq, LenProperties, ElementOfSeq
    <3>5. ASSUME c[1] \in Writers PROVE c[2] = sent[c[1]] + 1
      <4>1. c # Nothing
        BY <3>5, Numbers DEF Nothing
      <4>2. c \in Flying
        BY <3>4, <4>1 DEF Flying, InFifo
      <4> QED
        BY <1>1, <4>2 DEF IndInv, Output, OneFlies
    <3>6. sent \in [Writers -> Nat]
      BY <1>1 DEF IndInv, TxTypes
    <3> QED
      BY <3>2, <3>5, <3>6
  <2>2. CASE ~Transmit
    <3>1. sent' = sent
      BY <1>1, <2>2 DEF Next, vars, Device, Interrupt, Claim, ConsoleIntr, EchoReady, EchoPut, ConsoleIntrDone,
         IntrTx, Start, StartDone, StartTake, StartPut, TypeKey, ConsoleWrite, Write, PutSleep, PutChar,
         Read, ReadLock, ReadSleep, ReadKilled, ReadChar, ReadEof, ReadReturn, ReadFault, Kill, ReadCall
    <3> QED
      BY <3>1
  <2> QED
    BY <2>1, <2>2
<1> QED
  BY <1>1, Invariance, PTL DEF Spec, OutputInOrder
-----------------------------------------------------------------------------
(* Readers see a terminal                                                  *)

Calls == [p \in Readers |-> [want |-> reader[p].want, got |-> reader[p].got,
                             done |-> reader[p].pc \in {"idle", "done"}]]
LEMMA MappingIs ==
  /\ Ring(cons.w, cons.e) = Edit(cons) /\ Ring(cons.r, cons.w) = Ready(cons)
  /\ Ring(cons.w, cons.e)' = Edit(cons') /\ Ring(cons.r, cons.w)' = Ready(cons')
  BY DEF Ring, Edit, Ready, Contents, Dist

LEMMA SameRing ==
  ASSUME NEW c, NEW d, d.buf = c.buf, d.r = c.r, d.w = c.w, d.e = c.e
  PROVE  Ready(d) = Ready(c) /\ Edit(d) = Edit(c)
  BY DEF Ready, Edit, Contents

LEMMA SameCalls ==
  ASSUME \A p \in Readers :
           /\ reader'[p].want = reader[p].want /\ reader'[p].got = reader[p].got
           /\ reader'[p].pc \in {"idle", "done"} <=> reader[p].pc \in {"idle", "done"}
  PROVE  Calls' = Calls
<1>1. \A p \in Readers : (reader'[p].pc \in {"idle", "done"}) = (reader[p].pc \in {"idle", "done"})
  OBVIOUS
<1> QED
  BY <1>1 DEF Calls

LEMMA Stutters == ASSUME Ready(cons') = Ready(cons), Edit(cons') = Edit(cons), Calls' = Calls
                  PROVE  UNCHANGED Tty!vars
  BY MappingIs DEF Tty!vars, Calls

\* The call of one reader changes.
LEMMA OneCall ==
  ASSUME ConsTypes, NEW p \in Readers, NEW x,
         reader' = [reader EXCEPT ![p] = x]
  PROVE  Calls' = [Calls EXCEPT ![p] = [want |-> x.want, got |-> x.got, done |-> x.pc \in {"idle", "done"}]]
  BY DEF Calls, ConsTypes

\* Taking the first character.
LEMMA TakenIs ==
  ASSUME IndInv, ~Empty, cons' = [cons EXCEPT !.r = Uint(@ + 1)]
  PROVE  /\ Ready(cons') = Tail(Ready(cons)) /\ Edit(cons') = Edit(cons)
  BY FirstTaken DEF IndInv, ConsTypes, InputRing, Empty, Ready, Edit
LEMMA FirstIs == ASSUME IndInv, ~Empty PROVE Ready(cons) # <<>> /\ Head(Ready(cons)) = Next1
<1>1. PICK d : d = [cons EXCEPT !.r = Uint(cons.r + 1)]
  OBVIOUS
<1> QED
  BY <1>1, FirstTaken DEF IndInv, ConsTypes, InputRing, Empty, Ready, Next1

LEMMA TakeRefines == ASSUME IndInv, NEW p \in Readers, ReadChar(p) PROVE Tty!Take(p)
<1>1. /\ Ready(cons) # <<>> /\ Head(Ready(cons)) = Next1 /\ Next1 # "ctrl-D"
      /\ Ready(cons') = Tail(Ready(cons)) /\ Edit(cons') = Edit(cons)
  BY TakenIs, FirstIs DEF ReadChar
<1>2. PICK got : got = Append(reader[p].got, Next1)
  OBVIOUS
<1>3. PICK ends : ends = (Next1 = "newline" \/ Len(got) = reader[p].want)
  OBVIOUS
<1>4. PICK x : x = [reader[p] EXCEPT !.got = got, !.pc = IF ends THEN "done" ELSE "run"]
  OBVIOUS
<1>5. reader' = [reader EXCEPT ![p] = x]
  BY <1>2, <1>3, <1>4 DEF ReadChar, IndInv, ConsTypes
<1>6. x.want = reader[p].want /\ x.got = got /\ (x.pc \in {"idle", "done"}) = ends
  <2>1. reader[p] \in [pc : {"idle", "enter", "run", "sleep", "done"}, want : Nat, got : Seq(Chars)]
    BY DEF IndInv, ConsTypes
  <2>2. x.want = reader[p].want /\ x.got = got /\ x.pc = IF ends THEN "done" ELSE "run"
    BY <1>4, <2>1
  <2>3. ends \in BOOLEAN
    BY <1>3
  <2> QED
    BY <2>2, <2>3
<1>7. /\ Calls[p].want = reader[p].want /\ Calls[p].got = reader[p].got /\ ~Calls[p].done
  BY DEF Calls, ReadChar
<1>8. Calls' = [Calls EXCEPT ![p] = [want |-> reader[p].want, got |-> got, done |-> ends]]
  BY <1>5, <1>6, OneCall DEF IndInv
<1>9. Calls' = [Calls EXCEPT ![p].got = got, ![p].done = ends]
  BY <1>8 DEF Calls
<1> QED
  BY <1>1, <1>2, <1>3, <1>7, <1>9, MappingIs DEF Tty!Take, Calls

\* Control-D, a bad address, a reader that was killed.
LEMMA EofRefines == ASSUME IndInv, NEW p \in Readers, ReadEof(p) PROVE Tty!Eof(p)
<1>1. Ready(cons) # <<>> /\ Head(Ready(cons)) = "ctrl-D"
  BY FirstIs DEF ReadEof
<1>2. PICK x : x = [reader[p] EXCEPT !.pc = "done"]
  OBVIOUS
<1>3. /\ reader' = [reader EXCEPT ![p] = x] /\ x.pc = "done" /\ x.want = reader[p].want /\ x.got = reader[p].got
  BY <1>2 DEF ReadEof, IndInv, ConsTypes
<1>4. Calls' = [Calls EXCEPT ![p] = [want |-> reader[p].want, got |-> reader[p].got, done |-> TRUE]]
  BY <1>3, OneCall DEF IndInv
<1>5. Calls' = [Calls EXCEPT ![p].done = TRUE] /\ ~Calls[p].done /\ Calls[p].got = reader[p].got
  BY <1>4 DEF Calls, ReadEof
<1>6. Ready(cons') = (IF reader[p].got = <<>> THEN Tail(Ready(cons)) ELSE Ready(cons)) /\ Edit(cons') = Edit(cons)
  BY TakenIs DEF ReadEof
<1> QED
  BY <1>1, <1>5, <1>6, MappingIs DEF Tty!Eof, Calls
LEMMA FaultRefines == ASSUME IndInv, NEW p \in Readers, ReadFault(p) PROVE Tty!Fault(p)
<1>1. Ready(cons) # <<>> /\ Ready(cons') = Tail(Ready(cons)) /\ Edit(cons') = Edit(cons)
  BY FirstIs, TakenIs DEF ReadFault
<1>2. PICK x : x = [reader[p] EXCEPT !.pc = "done"]
  OBVIOUS
<1>3. /\ reader' = [reader EXCEPT ![p] = x] /\ x.pc = "done" /\ x.want = reader[p].want /\ x.got = reader[p].got
  BY <1>2 DEF ReadFault, IndInv, ConsTypes
<1>4. Calls' = [Calls EXCEPT ![p] = [want |-> reader[p].want, got |-> reader[p].got, done |-> TRUE]]
  BY <1>3, OneCall DEF IndInv
<1>5. Calls' = [Calls EXCEPT ![p].done = TRUE] /\ ~Calls[p].done
  BY <1>4 DEF Calls, ReadFault
<1> QED
  BY <1>1, <1>5, MappingIs DEF Tty!Fault, Calls
LEMMA GiveUpRefines == ASSUME IndInv, NEW p \in Readers, ReadKilled(p) PROVE Tty!GiveUp(p)
<1>1. Ready(cons) = <<>>
  <2>1. cons \in ConsRecord /\ cons.r \in Wide /\ cons.w \in Wide /\ cons.r = cons.w
    BY DEF ReadKilled, Empty, IndInv, ConsTypes, ConsRecord
  <2> QED
    BY <2>1, ContentsIs DEF Ready
<1>2. PICK x : x = [reader[p] EXCEPT !.pc = "done"]
  OBVIOUS
<1>3. /\ reader' = [reader EXCEPT ![p] = x] /\ x.pc = "done" /\ x.want = reader[p].want /\ x.got = reader[p].got
  BY <1>2 DEF ReadKilled, IndInv, ConsTypes
<1>4. Calls' = [Calls EXCEPT ![p] = [want |-> reader[p].want, got |-> reader[p].got, done |-> TRUE]]
  BY <1>3, OneCall DEF IndInv
<1>5. Calls' = [Calls EXCEPT ![p].done = TRUE] /\ ~Calls[p].done
  BY <1>4 DEF Calls, ReadKilled
<1>6. cons' = cons
  BY DEF ReadKilled
<1> QED
  BY <1>1, <1>5, <1>6, MappingIs DEF Tty!GiveUp, Calls
LEMMA CallRefines == ASSUME IndInv, NEW p \in Readers, NEW n \in 1 .. MaxRead, ReadCall(p, n) PROVE Tty!Call(p, n)
<1>1. Calls[p] = Tty!Idle
  BY DEF Calls, Tty!Idle, ReadCall, IndInv, Reads
<1>2. Calls' = [Calls EXCEPT ![p] = [want |-> n, got |-> <<>>, done |-> FALSE]]
  <2>1. PICK x : x = [pc |-> "enter", want |-> n, got |-> <<>>]
    OBVIOUS
  <2>2. reader' = [reader EXCEPT ![p] = x] /\ x.want = n /\ x.got = <<>> /\ x.pc = "enter"
    BY <2>1 DEF ReadCall
  <2>3. (x.pc \in {"idle", "done"}) = FALSE
    BY <2>2
  <2> QED
    BY <2>2, <2>3, OneCall DEF IndInv
<1>3. cons' = cons
  BY DEF ReadCall
<1> QED
  BY <1>1, <1>2, <1>3, MappingIs DEF Tty!Call, Calls
LEMMA ReturnRefines == ASSUME IndInv, NEW p \in Readers, ReadReturn(p) PROVE Tty!Return(p)
<1>1. Calls[p] # Tty!Idle /\ Calls[p].done
  BY DEF Calls, Tty!Idle, ReadReturn, IndInv, Reads
<1>2. Calls' = [Calls EXCEPT ![p] = Tty!Idle]
  <2>1. PICK x : x = [pc |-> "idle", want |-> 0, got |-> <<>>]
    OBVIOUS
  <2>2. reader' = [reader EXCEPT ![p] = x] /\ x.want = 0 /\ x.got = <<>> /\ x.pc = "idle"
    BY <2>1 DEF ReadReturn
  <2> QED
    BY <2>2, OneCall DEF IndInv, Tty!Idle
<1>3. Ready(cons') = Ready(cons) /\ Edit(cons') = Edit(cons)
  <2>1. cons'.buf = cons.buf /\ cons'.r = cons.r /\ cons'.w = cons.w /\ cons'.e = cons.e
    BY DEF ReadReturn, IndInv, ConsTypes, ConsRecord
  <2> QED
    BY <2>1, SameRing
<1> QED
  BY <1>1, <1>2, <1>3, MappingIs DEF Tty!Return, Calls

\* A key is typed, or there is no room for it.
LEMMA KeyRefines == ASSUME IndInv, ConsoleIntr PROVE (\E c \in Keys : Tty!Type(c)) \/ UNCHANGED Tty!vars
<1>1. PICK key : key = Head(uart.rx)
  OBVIOUS
<1>2. key \in Keys
  BY <1>1, HeadTailProperties DEF IndInv, IntrTypes, ConsoleIntr
<1>3. PICK d : d = KeyEffect(cons, key)
  OBVIOUS
<1>4. /\ cons' = [d.cons EXCEPT !.lock = Handler]
      /\ reader' = IF d.wake THEN Woken(reader) ELSE reader
  BY <1>1, <1>3 DEF ConsoleIntr, KeyEffect
<1>5. cons \in ConsRecord /\ RingOK(cons)
  BY DEF IndInv, ConsTypes, InputRing
<1>6. KeyFrame(cons, d) /\ KeyRight(key, Edit(cons), Ready(cons), Edit(d.cons), Ready(d.cons))
  BY <1>2, <1>3, <1>5, KeyIs
<1>7. Ready(cons') = Ready(d.cons) /\ Edit(cons') = Edit(d.cons)
  <2>1. cons'.buf = d.cons.buf /\ cons'.r = d.cons.r /\ cons'.w = d.cons.w /\ cons'.e = d.cons.e
    BY <1>4, <1>6 DEF KeyFrame, ConsRecord
  <2> QED
    BY <2>1, SameRing
<1>8. Calls' = Calls
  <2>1. ASSUME NEW p \in Readers
        PROVE  /\ reader'[p].want = reader[p].want /\ reader'[p].got = reader[p].got
               /\ reader'[p].pc \in {"idle", "done"} <=> reader[p].pc \in {"idle", "done"}
    BY <1>4 DEF Woken, IndInv, ConsTypes
  <2> QED
    BY <2>1, SameCalls
<1>9. KeyRight(key, Edit(cons), Ready(cons), Edit(cons'), Ready(cons'))
  BY <1>6, <1>7
<1>10. CASE key \notin {"ctrl-U", "backspace"} /\ ~(Len(Ready(cons)) + Len(Edit(cons)) < INPUT_BUF)
  <2>1. Ready(cons') = Ready(cons) /\ Edit(cons') = Edit(cons)
    BY <1>9, <1>10 DEF KeyRight
  <2> QED
    BY <1>8, <2>1, Stutters
<1>11. CASE key \in {"ctrl-U", "backspace"} \/ Len(Ready(cons)) + Len(Edit(cons)) < INPUT_BUF
  <2>1. Tty!Type(key)
    BY <1>8, <1>9, <1>11, MappingIs DEF KeyRight, Tty!Type, Tty!Front, Calls
  <2> QED
    BY <1>2, <2>1
<1> QED
  BY <1>10, <1>11

LEMMA InitRefines == Init => Tty!Init
<1> SUFFICES ASSUME Init PROVE Tty!Init
  OBVIOUS
<1>1. cons.r \in Wide /\ cons.r = cons.w /\ cons.w = cons.e
  BY ConsoleAssumption DEF Init, Wide
<1>2. Edit(cons) = <<>> /\ Ready(cons) = <<>>
  <2>1. cons \in ConsRecord
    BY InitInv DEF IndInv, ConsTypes
  <2> QED
    BY <1>1, <2>1, ContentsIs DEF Edit, Ready
<1>3. Calls = [p \in Readers |-> Tty!Idle]
  BY DEF Init, Calls, Tty!Idle
<1> QED
  BY <1>2, <1>3, MappingIs DEF Tty!Init, Calls

LEMMA StepRefines == IndInv /\ [Next]_vars => [Tty!Next]_Tty!vars
<1> SUFFICES ASSUME IndInv, [Next]_vars PROVE Tty!Next \/ UNCHANGED Tty!vars
  OBVIOUS
<1>1. CASE UNCHANGED <<cons, reader>>
  <2>1. Calls' = Calls /\ Ready(cons') = Ready(cons) /\ Edit(cons') = Edit(cons)
    BY <1>1 DEF Calls
  <2> QED
    BY <2>1, Stutters
<1>2. CASE ConsoleIntr
  BY <1>2, KeyRefines DEF Tty!Next
<1>3. CASE ConsoleIntrDone
  <2>1. reader' = reader /\ cons'.buf = cons.buf /\ cons'.r = cons.r /\ cons'.w = cons.w /\ cons'.e = cons.e
    BY <1>3 DEF ConsoleIntrDone, IndInv, ConsTypes, ConsRecord
  <2>2. Calls' = Calls
    BY <2>1 DEF Calls
  <2> QED
    BY <2>1, <2>2, SameRing, Stutters
<1>4. ASSUME NEW p \in Readers, ReadLock(p) \/ ReadSleep(p) \/ Kill(p) PROVE UNCHANGED Tty!vars
  <2>1. cons'.buf = cons.buf /\ cons'.r = cons.r /\ cons'.w = cons.w /\ cons'.e = cons.e
    BY <1>4 DEF ReadLock, ReadSleep, Kill, IndInv, ConsTypes, ConsRecord
  <2>2. ASSUME NEW q \in Readers
        PROVE  /\ reader'[q].want = reader[q].want /\ reader'[q].got = reader[q].got
               /\ reader'[q].pc \in {"idle", "done"} <=> reader[q].pc \in {"idle", "done"}
    BY <1>4 DEF ReadLock, ReadSleep, Kill, IndInv, ConsTypes
  <2>3. Calls' = Calls
    BY <2>2, SameCalls
  <2> QED
    BY <2>1, <2>3, SameRing, Stutters
<1>5. ASSUME NEW p \in Readers, ReadChar(p) \/ ReadEof(p) \/ ReadFault(p) \/ ReadKilled(p) \/ ReadReturn(p)
      PROVE  Tty!Next
  BY <1>5, TakeRefines, EofRefines, FaultRefines, GiveUpRefines, ReturnRefines DEF Tty!Next
<1>6. ASSUME NEW p \in Readers, NEW n \in 1 .. MaxRead, ReadCall(p, n) PROVE Tty!Next
  BY <1>6, CallRefines DEF Tty!Next
<1>7. ASSUME NEW p \in Readers, Read(p) \/ ReadFault(p) \/ Kill(p) PROVE Tty!Next \/ UNCHANGED Tty!vars
  BY <1>4, <1>5, <1>7 DEF Read
<1>8. CASE Interrupt
  <2>1. ConsoleIntr \/ ConsoleIntrDone \/ UNCHANGED <<cons, reader>>
    BY <1>8 DEF Interrupt, Claim, EchoReady, EchoPut, IntrTx
  <2> QED
    BY <1>1, <1>2, <1>3, <2>1
<1>9. CASE Device \/ Start(Handler) \/ (\E c \in Keys : TypeKey(c)) \/ (\E p \in Writers : ConsoleWrite(p) \/ Write(p))
  <2>1. UNCHANGED <<cons, reader>>
    BY <1>9 DEF Device, Transmit, Start, StartDone, StartTake, StartPut, TypeKey, ConsoleWrite, Write, PutSleep, PutChar
  <2> QED
    BY <1>1, <2>1
<1>10. CASE UNCHANGED vars
  BY <1>1, <1>10 DEF vars
<1> QED
  BY <1>6, <1>7, <1>8, <1>9, <1>10 DEF Next

\* With indices that wrap, erasing and a control-D put back, readers see a
\* terminal with an editable line (console.c).
THEOREM Refinement == Spec => ImplementsTerminal
<1> QED
  BY InitRefines, StepRefines, Invariance, PTL DEF Spec, ImplementsTerminal, Tty!Spec
=============================================================================
