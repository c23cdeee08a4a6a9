----------------------------- MODULE FileBlocks -----------------------------
(***************************************************************************)
(* The contents of files on disk: the free bitmap (balloc, bfree), the     *)
(* direct and indirect blocks of an inode (bmap, itrunc), reading and      *)
(* writing by offsets (readi, writei) and filewrite, which cuts a write    *)
(* into pieces that fit the log; and the image mkfs makes.                 *)
(*                                                                         *)
(* Processes share open files, as after fork.  An action is the work done  *)
(* while one buffer is locked.  The log is used as Log.tla shows it: what  *)
(* was logged reaches the disk as a whole when the last operation ends.    *)
(* What was changed but not logged is lost when its buffer gets another    *)
(* block.                                                                  *)
(* Blocks 0 and 1 stand for boot block, super block, log and inode blocks. *)
(***************************************************************************)
EXTENDS Naturals, Sequences, FiniteSets, SequencesExt

CONSTANTS
  Procs,
  Files,                    (* the inodes of files, in the order of mkfs   *)
  BSIZE, NDIRECT, NINDIRECT, FSSIZE, BPB, MAXOPBLOCKS,
  UintMod,                  (* 2^32 in the code                            *)
  Counts,                   (* bound: how much a call reads or writes      *)
  Sizes,                    (* the sizes files may have in the image       *)
  Opened,                   (* bound: the inodes that are used             *)
  MaxCalls                  (* bound                                       *)

ASSUME FileBlocksAssumption ==
  /\ {BSIZE, NDIRECT, NINDIRECT, FSSIZE, BPB, MAXOPBLOCKS} \subseteq Nat \ {0}
  /\ NINDIRECT <= BSIZE /\ (NDIRECT + NINDIRECT) * BSIZE < UintMod

VARIABLES
  disk,     (* what a restart finds: block -> contents                     *)
  cache,    (* block -> contents, as the buffers show them                 *)
  inode,    (* in memory: inode -> [size, addrs]                           *)
  owner,    (* inode -> who holds its lock                                 *)
  off,      (* inode -> f->off of its open file                            *)
  ops,      (* processes between begin_op and end_op                       *)
  logged,   (* of each process, the blocks its operation has logged        *)
  group,    (* the blocks logged since the last commit                     *)
  call,     (* of each process: [pc, kind, ip, left, n, tot, blk, todo]    *)
  calls

fsvars == <<cache, inode, owner, off, ops, logged, group, call>>
vars == <<disk, fsvars, calls>>

None == "none"
Root == 1
Inums == {Root} \cup Range(Files)
Uint(n) == n % UintMod
MinOf(a, b) == IF a < b THEN a ELSE b
MaxOf(a, b) == IF a > b THEN a ELSE b
MAXFILE == NDIRECT + NINDIRECT

IBLOCK == 1
BMAPSTART == 2
BBLOCK(b) == BMAPSTART + b \div BPB
nbitmap == FSSIZE \div BPB + 1
nmeta == BMAPSTART + nbitmap
Zeroes == [k \in 0 .. BSIZE - 1 |-> 0]
Torn == UintMod             \* a byte of a piece that was copied in part

Marked(d) == UNION {d[BMAPSTART + k] : k \in 0 .. nbitmap - 1}

(***************************************************************************)
(* mkfs: blocks are handed out one after the other.                        *)
(***************************************************************************)
SlotOf(bn) == MinOf(bn, NDIRECT)
EmptyInode == [size |-> 0, addrs |-> [k \in 0 .. NDIRECT |-> 0]]
\* The block that bmap has to allocate before file block bn can be used.
Missing(ip, d, bn) ==
  IF ip.addrs[SlotOf(bn)] = 0 THEN "slot"
  ELSE IF bn >= NDIRECT /\ d[ip.addrs[NDIRECT]][bn - NDIRECT] = 0 THEN "entry" ELSE "nothing"
Bmap(ip, d, bn) == IF bn < NDIRECT THEN ip.addrs[bn] ELSE d[ip.addrs[NDIRECT]][bn - NDIRECT]

\* One more byte for inode i.
Iappend(img, i) ==
  LET ip == img.inode[i]
      fbn == ip.size \div BSIZE
      slot == Missing(ip, img.data, fbn) = "slot"
      ip2 == IF slot THEN [ip EXCEPT !.addrs[SlotOf(fbn)] = img.free] ELSE ip
      free2 == IF slot THEN img.free + 1 ELSE img.free
      entry == Missing(ip2, img.data, fbn) = "entry"
      data2 == IF entry THEN [img.data EXCEPT ![ip2.addrs[NDIRECT]][fbn - NDIRECT] = free2] ELSE img.data
  IN [inode |-> [img.inode EXCEPT ![i] = [ip2 EXCEPT !.size = @ + 1]],
      data |-> [data2 EXCEPT ![Bmap(ip2, data2, fbn)][ip.size % BSIZE] = i],
      free |-> IF entry THEN free2 + 1 ELSE free2]
Order(size) ==
  FoldLeft(LAMBDA done, f : done \o <<Root>> \o [k \in 1 .. size[f] |-> f], <<Root, Root>>, Files)
\* The root directory's size is rounded up.
Image(size) ==
  LET img == FoldLeft(Iappend, [inode |-> [i \in Inums |-> EmptyInode],
                                data |-> [b \in 0 .. FSSIZE - 1 |-> Zeroes], free |-> nmeta], Order(size))
      inodes == [img.inode EXCEPT ![Root].size = (@ \div BSIZE + 1) * BSIZE]
  IN [b \in 0 .. FSSIZE - 1 |->
        CASE b = IBLOCK -> inodes
          [] b = BMAPSTART -> 0 .. img.free - 1
          [] b \in BMAPSTART + 1 .. nmeta - 1 -> {}
          [] OTHER -> img.data[b]]

(***************************************************************************)
(* begin_op, log_write and end_op, as module Log has them.                 *)
(***************************************************************************)
At(p, pc) == call[p].pc = pc
Counted == calls < MaxCalls /\ calls' = calls + 1
Goto(p, pc) == call' = [call EXCEPT ![p].pc = pc]
LogWrite(p, blocks) ==
  /\ logged' = [logged EXCEPT ![p] = @ \cup blocks]
  /\ group' = group \cup blocks
BeginOp(p) ==
  /\ At(p, "begin")
  /\ ops' = ops \cup {p}
  /\ logged' = [logged EXCEPT ![p] = {}]
  /\ Goto(p, "lock")
  /\ UNCHANGED <<disk, cache, inode, owner, off, group, calls>>
EndOp(p) ==
  /\ ops' = ops \ {p}
  /\ IF ops' = {}
     THEN /\ disk' = [b \in DOMAIN disk |-> IF b \in group THEN cache[b] ELSE disk[b]]
          /\ group' = {}
     ELSE UNCHANGED <<disk, group>>

(***************************************************************************)
(* fileread and filewrite.                                                 *)
(***************************************************************************)
Idle == [pc |-> "idle", kind |-> "none", ip |-> Root, left |-> 0, n |-> 0, tot |-> 0, blk |-> 0, todo |-> <<>>]

\* readi: how much may be read, with sums of uints.
Readable(i, n) ==
  IF off[i] > inode[i].size \/ Uint(off[i] + n) < off[i] THEN 0
  ELSE IF Uint(off[i] + n) > inode[i].size THEN inode[i].size - off[i] ELSE n
\* It ends at block upto; if that is not for want of bytes, either_copyout has
\* failed there: readi returns -1, and f->off is what it was.
FileRead(p, i, n) ==
  /\ Counted /\ At(p, "idle") /\ owner[i] = None
  /\ LET r == Readable(i, n)
         first == off[i] \div BSIZE
         last == MinOf((off[i] + r - 1) \div BSIZE, MAXFILE)
         Hole(bn) == bn >= MAXFILE \/ Missing(inode[i], cache, bn) # "nothing"
     IN \E copied \in BOOLEAN, upto \in {last} \cup first .. last :
          /\ IF copied THEN upto = last ELSE r > 0
          /\ IF r > 0 /\ \E bn \in first .. upto : Hole(bn) THEN Goto(p, "panic") /\ off' = off
             ELSE off' = [off EXCEPT ![i] = @ + (IF copied THEN r ELSE 0)] /\ call' = call
  /\ UNCHANGED <<disk, cache, inode, owner, ops, logged, group>>

MaxChunk == ((MAXOPBLOCKS - 1 - 1 - 2) \div 2) * BSIZE
FileWrite(p, i, n) ==
  /\ Counted /\ At(p, "idle") /\ i # Root
  /\ call' = [call EXCEPT ![p] = [Idle EXCEPT !.pc = "begin", !.kind = "write", !.ip = i, !.left = n,
                                              !.n = MinOf(n, MaxChunk)]]
  /\ UNCHANGED <<disk, cache, inode, owner, off, ops, logged, group>>
\* ilock, and the checks writei starts with: what it refuses changes nothing.
WriteLock(p) ==
  LET i == call[p].ip IN
  /\ At(p, "lock") /\ call[p].kind = "write" /\ owner[i] = None
  /\ IF \/ off[i] > inode[i].size \/ Uint(off[i] + call[p].n) < off[i]
        \/ off[i] + call[p].n > MAXFILE * BSIZE
     THEN Goto(p, "end") /\ owner' = owner
     ELSE Goto(p, "map") /\ owner' = [owner EXCEPT ![i] = p]
  /\ UNCHANGED <<disk, cache, inode, off, ops, logged, group, calls>>

Where(p) == off[call[p].ip] + call[p].tot
Lacks(p) == Missing(inode[call[p].ip], cache, Where(p) \div BSIZE)
\* balloc: the first free block, or panic.
Balloc(p) ==
  /\ At(p, "map") /\ call[p].tot < call[p].n /\ Lacks(p) # "nothing"
  /\ LET free == (0 .. FSSIZE - 1) \ Marked(cache)
         b == CHOOSE x \in free : \A y \in free : x <= y
     IN IF free = {} THEN Goto(p, "out of blocks") /\ UNCHANGED <<cache, logged, group>>
        ELSE /\ cache' = [cache EXCEPT ![BBLOCK(b)] = @ \cup {b}]
             /\ LogWrite(p, {BBLOCK(b)})
             /\ call' = [call EXCEPT ![p].pc = "zero", ![p].blk = b]
  /\ UNCHANGED <<disk, inode, owner, off, ops, calls>>
\* bzero, and where bmap puts the number of the block.
Bzero(p) ==
  LET i == call[p].ip
      bn == Where(p) \div BSIZE
      b == call[p].blk
      zeroed == [cache EXCEPT ![b] = Zeroes]
      ind == inode[i].addrs[NDIRECT]
  IN
  /\ At(p, "zero")
  /\ IF Lacks(p) = "slot"
     THEN /\ inode' = [inode EXCEPT ![i].addrs[SlotOf(bn)] = b]
          /\ cache' = zeroed /\ LogWrite(p, {b})
     ELSE /\ cache' = [zeroed EXCEPT ![ind][bn - NDIRECT] = b]
          /\ LogWrite(p, {b, ind}) /\ inode' = inode
  /\ Goto(p, "map")
  /\ UNCHANGED <<disk, owner, off, ops, calls>>
\* Mutant of PieceLen: the start of the piece in its block is forgotten.
PieceLenLong(p) == MinOf(call[p].n - call[p].tot, BSIZE)
PieceLen(p) == MinOf(call[p].n - call[p].tot, BSIZE - (Where(p) % BSIZE))
Target(p) == Bmap(inode[call[p].ip], cache, Where(p) \div BSIZE)
\* The block after m bytes were copied to where the piece goes.
Filled(p, m, byte) ==
  LET from == Where(p) % BSIZE
  IN [cache EXCEPT ![Target(p)] = [k \in DOMAIN @ |-> IF k >= from /\ k < from + m THEN byte ELSE @[k]]]
Copyin(p) ==
  /\ At(p, "map") /\ call[p].tot < call[p].n /\ Lacks(p) = "nothing"
  /\ cache' = Filled(p, PieceLen(p), call[p].ip)
  /\ LogWrite(p, {Target(p)})
  /\ call' = [call EXCEPT ![p].tot = @ + PieceLen(p)]
  /\ UNCHANGED <<disk, inode, owner, off, ops, calls>>
\* either_copyin fails where the caller's memory ends: the bytes before are in
\* the buffer, which is released and not logged.
CopyinFails(p) ==
  /\ At(p, "map") /\ call[p].tot < call[p].n /\ Lacks(p) = "nothing"
  /\ \E m \in 0 .. PieceLen(p) - 1 : cache' = Filled(p, m, Torn)
  /\ Goto(p, "save")
  /\ UNCHANGED <<disk, inode, owner, off, ops, logged, group, calls>>
\* bget gives the buffer of b to another block: it is not pinned by the log.
Recycle(b) ==
  /\ b \notin group /\ cache[b] # disk[b]
  /\ cache' = [cache EXCEPT ![b] = disk[b]]
  /\ UNCHANGED <<disk, inode, owner, off, ops, logged, group, call, calls>>
\* iupdate, also when the size is what it was.
\* Mutant of MustSave: only a size that has grown is worth saving.
MustSaveGrown(p) == Where(p) > inode[call[p].ip].size
MustSave(p) == TRUE
\* f->off += r, iunlock.
WriteDone(p) ==
  LET i == call[p].ip
      ip == [inode[i] EXCEPT !.size = MaxOf(@, Where(p))]
  IN
  /\ At(p, "save") \/ (At(p, "map") /\ call[p].tot = call[p].n)
  /\ IF MustSave(p) THEN cache' = [cache EXCEPT ![IBLOCK][i] = ip] /\ LogWrite(p, {IBLOCK})
     ELSE UNCHANGED <<cache, logged, group>>
  /\ inode' = [inode EXCEPT ![i] = ip]
  /\ off' = [off EXCEPT ![i] = Where(p)]
  /\ owner' = [owner EXCEPT ![i] = None]
  /\ Goto(p, "end")
  /\ UNCHANGED <<disk, ops, calls>>
\* end_op; a piece that was written whole may have others after it.
End(p) ==
  /\ At(p, "end")
  /\ EndOp(p)
  /\ LET left == call[p].left - call[p].n IN
     call' = [call EXCEPT ![p] =
       IF call[p].kind = "write" /\ call[p].tot = call[p].n /\ left > 0
       THEN [call[p] EXCEPT !.pc = "begin", !.left = left, !.n = MinOf(left, MaxChunk), !.tot = 0]
       ELSE Idle]
  /\ logged' = [logged EXCEPT ![p] = {}]
  /\ UNCHANGED <<cache, inode, owner, off, calls>>

(***************************************************************************)
(* Opening: with O_TRUNC the file is emptied (itrunc); the struct file is  *)
(* another one, so that off of the one in use stays.  Reopen: the next     *)
(* calls use a newly opened file.                                          *)
(***************************************************************************)
OpenTrunc(p, i) ==
  /\ Counted /\ At(p, "idle") /\ i # Root
  /\ call' = [call EXCEPT ![p] = [Idle EXCEPT !.pc = "begin", !.kind = "trunc", !.ip = i]]
  /\ UNCHANGED <<disk, cache, inode, owner, off, ops, logged, group>>
Nonzero(s) == SelectSeq(s, LAMBDA b : b # 0)
Direct(i) == Nonzero([k \in 1 .. NDIRECT |-> inode[i].addrs[k - 1]])
ToFree(i) ==
  LET ind == inode[i].addrs[NDIRECT] IN
  Direct(i) \o (IF ind = 0 THEN <<>> ELSE Append(Nonzero([k \in 1 .. NINDIRECT |-> cache[ind][k - 1]]), ind))
TruncLock(p) ==
  LET i == call[p].ip IN
  /\ At(p, "lock") /\ call[p].kind = "trunc" /\ owner[i] = None
  /\ owner' = [owner EXCEPT ![i] = p]
  /\ call' = [call EXCEPT ![p].pc = "free", ![p].todo = ToFree(i)]
  /\ UNCHANGED <<disk, cache, inode, off, ops, logged, group, calls>>
\* bfree panics when the block is free.
Bfree(p) ==
  /\ At(p, "free") /\ call[p].todo # <<>>
  /\ LET b == Head(call[p].todo) IN
     IF b \notin cache[BBLOCK(b)] THEN Goto(p, "panic") /\ UNCHANGED <<cache, logged, group>>
     ELSE /\ cache' = [cache EXCEPT ![BBLOCK(b)] = @ \ {b}]
          /\ LogWrite(p, {BBLOCK(b)})
          /\ call' = [call EXCEPT ![p].todo = Tail(@)]
  /\ UNCHANGED <<disk, inode, owner, off, ops, calls>>
\* The addresses are cleared one by one in the code; the lock hides it.
TruncDone(p) ==
  LET i == call[p].ip IN
  /\ At(p, "free") /\ call[p].todo = <<>>
  /\ inode' = [inode EXCEPT ![i] = EmptyInode]
  /\ cache' = [cache EXCEPT ![IBLOCK][i] = EmptyInode]
  /\ LogWrite(p, {IBLOCK})
  /\ owner' = [owner EXCEPT ![i] = None]
  /\ Goto(p, "end")
  /\ UNCHANGED <<disk, off, ops, calls>>
Reopen(i) ==
  /\ off[i] > 0 /\ \A p \in Procs : At(p, "idle") \/ call[p].ip # i
  /\ off' = [off EXCEPT ![i] = 0]
  /\ UNCHANGED <<disk, cache, inode, owner, ops, logged, group, call, calls>>

\* A crash, and the restart: initlog and reading the inodes anew.
Boot(d) ==
  /\ cache' = d /\ inode' = d[IBLOCK]
  /\ owner' = [i \in Inums |-> None] /\ off' = [i \in Inums |-> 0]
  /\ ops' = {} /\ logged' = [p \in Procs |-> {}] /\ group' = {}
  /\ call' = [p \in Procs |-> Idle]
Crash == Boot(disk) /\ UNCHANGED <<disk, calls>>

Init ==
  /\ \E size \in Sizes : disk = Image(size)
  /\ cache = disk /\ inode = disk[IBLOCK]
  /\ owner = [i \in Inums |-> None] /\ off = [i \in Inums |-> 0]
  /\ ops = {} /\ logged = [p \in Procs |-> {}] /\ group = {}
  /\ call = [p \in Procs |-> Idle]
  /\ calls = 0
Next ==
  \/ Crash
  \/ \E b \in DOMAIN cache : Recycle(b)
  \/ \E i \in Opened : Reopen(i)
  \/ \E p \in Procs, i \in Opened : OpenTrunc(p, i)
  \/ \E p \in Procs, i \in Opened, n \in Counts : FileWrite(p, i, n)
  \/ \E p \in Procs, i \in Opened, n \in Counts \cup {UintMod - 1} : FileRead(p, i, n)
  \/ \E p \in Procs :
       \/ BeginOp(p) \/ WriteLock(p) \/ Balloc(p) \/ Bzero(p) \/ Copyin(p) \/ CopyinFails(p) \/ WriteDone(p)
       \/ End(p) \/ TruncLock(p) \/ Bfree(p) \/ TruncDone(p)
Spec == Init /\ [][Next]_vars

(***************************************************************************)
(* Properties.                                                             *)
(***************************************************************************)
Entries(ip, d) ==
  LET ind == ip.addrs[NDIRECT] IN
  (IF ind = 0 THEN <<>> ELSE [k \in 1 .. NINDIRECT |-> d[ind][k - 1]]) \o [k \in 1 .. NDIRECT + 1 |-> ip.addrs[k - 1]]
\* The blocks of all inodes, one after the other.
Held(inodes, d) ==
  FoldLeft(LAMBDA s, i : s \o Nonzero(Entries(inodes[i], d)), <<>>, <<Root>> \o Files)
Distinct(s) == Cardinality(Range(s)) = Len(s)
Freeing(i) == owner[i] # None /\ call[owner[i]].pc = "free"

\* Every block of the disk is either marked in the bitmap and part of one file
\* or neither, whatever was going on when the machine stopped; and so it is
\* in memory, up to what a call under way is about to change; the blocks below
\* the size of a file are all there (fs.c: balloc,
\* bfree, bmap, itrunc; iupdate at the end of writei; mkfs.c).
BlocksAccounted ==
  /\ LET held == Held(disk[IBLOCK], disk) IN
     Distinct(held) /\ Marked(disk) = 0 .. nmeta - 1 \cup Range(held)
  /\ LET whole == [i \in Inums |-> IF Freeing(i) THEN EmptyInode ELSE inode[i]]
         held == Held(whole, cache)
     IN
     /\ Distinct(held) /\ Range(held) \subseteq Marked(cache) \ 0 .. nmeta - 1
     /\ \A i \in Inums : \A bn \in 0 .. MAXFILE - 1 :
          bn * BSIZE < whole[i].size => Missing(whole[i], cache, bn) = "nothing"

\* No operation logs more blocks than begin_op has set aside for it, although
\* a write is cut by a formula that only estimates them; no block is freed
\* twice, and no read comes upon a block that was never allocated, which
\* bmap would allocate outside of a transaction (file.c:57, fs.c: bfree, bmap).
OpsFit ==
  \A p \in Procs : Cardinality(logged[p]) <= MAXOPBLOCKS /\ ~At(p, "panic")

\* No block is lost or shared, whatever a write, a truncation or a crash
\* leaves behind, and no operation overfills its share of the log
\* (fs.c: balloc, bfree, bmap, itrunc; file.c: filewrite).
FilesSound == BlocksAccounted /\ OpsFit

\* Refinement: files are sequences of bytes.  While a write is under way its
\* bytes count as written one piece at a time; but for a part of the piece in
\* which a write fails, which may be there and be gone later, no other step
\* may change any byte of any file (fs.c: writei, itrunc; log.c: end_op).
SizeNow(i) ==
  IF Freeing(i) THEN 0
  ELSE IF owner[i] # None /\ call[owner[i]].pc \in {"map", "zero", "save", "out of blocks"}
       THEN MaxOf(inode[i].size, Where(owner[i]))
       ELSE inode[i].size
Contents(ip, d, size) ==
  [k \in 1 .. size |->
     LET bn == (k - 1) \div BSIZE IN
     IF Missing(ip, d, bn) # "nothing" THEN 0 ELSE d[Bmap(ip, d, bn)][(k - 1) % BSIZE]]
F == INSTANCE Files WITH
  MaxSize <- MAXFILE * BSIZE, Piece <- BSIZE,
  file <- [i \in Inums |-> Contents(inode[i], cache, SizeNow(i))],
  durable <- [i \in Inums |-> Contents(disk[IBLOCK][i], disk, disk[IBLOCK][i].size)]
ImplementsFiles == F!Spec

(***************************************************************************)
(* For TLC: an image with three files, of which the first has two bytes.   *)
(***************************************************************************)
MCSymmetry == Permutations(Procs)
MCFiles == <<2, 3, 4>>
MCSizes == {[f \in 2 .. 4 |-> IF f = 2 THEN 2 ELSE 0]}
=============================================================================
