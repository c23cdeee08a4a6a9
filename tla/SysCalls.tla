------------------------------ MODULE SysCalls ------------------------------
(***************************************************************************)
(* xv6 as programs see it: the system calls, on what the whole system has  *)
(* of inodes, open files, pipes, processes, pages and blocks.  Modules     *)
(* Inode, FileBlocks, Pipe, Proc and Memory have the parts of the kernel   *)
(* and the order of their steps; here every part of a call happens in one  *)
(* step, except that a write is cut into pieces as filewrite and pipewrite *)
(* cut it, and that wait and the calls on pipes wait.  A call that fails   *)
(* in the middle takes what the code has taken by then, and then undoes it *)
(* as the code does.                                                       *)
(*                                                                         *)
(* A program is the sequence of statements it has still to run: a call,    *)
(* which result the program takes for good, and how it goes on.            *)
(*                                                                         *)
(* Memory is counted in quarters of a page, its contents are left out; a   *)
(* file is a sequence of units, BSIZE to a block.                          *)
(***************************************************************************)
EXTENDS Integers, SequencesExt, FiniteSetsExt, TLC

CONSTANTS
  NPROC, NOFILE, NFILE, NInodes,   (* sizes of the tables                  *)
  NPages,                          (* pages of memory                      *)
  NBlocks,                         (* blocks of the disk for data          *)
  BSIZE, NDIRECT, NINDIRECT, MAXOPBLOCKS, PIPESIZE, DIRSIZ, MAXARG,
  Image                            (* the inodes mkfs makes                *)

PGSIZE == 4
Procs == 1 .. NPROC
InitProc == 1
Runner == 2                        \* the program that is run
Inums == 1 .. NInodes
Root == 1
Tables == 2                        \* pages for trapframe and page table
ImageSize == 3 * PGSIZE            \* of every program: text, guard, stack
Guard == 1                         \* exec's inaccessible page

VARIABLES
  sys,    (* [inode, file, pipe, pages, blocks, panic]                     *)
  proc    (* of each slot, which is also the pid: [state, parent, killed,  *)
          (* xstate, sz, ofile, cwd] of struct proc, and the program: what *)
          (* it has to run, its variables, what it read, and how far a     *)
          (* write has come                                                *)
sysvars == <<sys, proc>>

NoInode == [type |-> "free", nlink |-> 0, ref |-> 0, ents |-> <<>>, data |-> <<>>, blocks |-> 0]
NoFile == [ref |-> 0, type |-> "none", readable |-> FALSE, writable |-> FALSE, ip |-> 0, off |-> 0, pipe |-> 0]
NoPipe == [data |-> <<>>, readopen |-> FALSE, writeopen |-> FALSE]
NoProc == [state |-> "unused", parent |-> 0, killed |-> FALSE, xstate |-> 0, sz |-> 0, cwd |-> 0,
           ofile |-> [fd \in 0 .. NOFILE - 1 |-> 0], prog |-> <<>>, env |-> <<>>, got |-> <<>>, part |-> 0]

\* The variables a program starts with: descriptors, one of them of no file,
\* and some addresses.
StartEnv == [stdin |-> 0, stdout |-> 1, stderr |-> 2, fd |-> -1,
             buf |-> 0, guard |-> Guard * PGSIZE, KERNBASE |-> 1000, top |-> 2000, xstatus |-> 0]

PagesOf(sz) == (sz + PGSIZE - 1) \div PGSIZE
LeastOf(n, m) == IF n < m THEN n ELSE m

\* A call; which result is good (any, ok, positive, none, fails, is or not n);
\* the variable that gets it; whether what it read is set aside (alone, with
\* what was), or what was set aside is written; how the program goes on after
\* a good one, and whether it then does the same again, and how after a bad
\* one.  Of fork: does the child go on here, or with what?
Stmt(c, arguments) ==
  [call |-> c, args |-> arguments, want |-> "any", n |-> 0, to |-> "", keep |-> "no",
   then |-> <<>>, again |-> FALSE, else |-> <<>>, both |-> FALSE, child |-> <<>>]
Text(chars) == Stmt("write", <<"stdout", [at |-> "buf", plus |-> 0], chars>>)
Exit0 == Stmt("exit", <<0>>)
\* What a program of the image runs: echo writes its arguments, with something
\* after each; cat copies; a program that is not there has nothing to run.
Main(name, args) ==
  IF name = "echo"
  THEN FlattenSeq([i \in 1 .. Len(args) - 1 |->
         <<Text(args[i + 1].text), Text(IF i = Len(args) - 1 THEN <<"nl">> ELSE <<"sp">>)>>]) \o <<Exit0>>
  ELSE LET exit1 == <<Stmt("exit", <<1>>)>>
           put == [Text(<<>>) EXCEPT !.keep = "put", !.want = "ok", !.else = exit1]
       IN << [Stmt("read", <<"stdin", [at |-> "buf", plus |-> 0], BSIZE>>) EXCEPT
                !.want = "positive", !.to = "n", !.keep = "set", !.then = <<put>>, !.again = TRUE],
             [Stmt("equal", <<"n", 0>>) EXCEPT !.want = "ok", !.else = exit1], Exit0 >>
(***************************************************************************)
(* Inodes, files and pipes: each function returns the system after it.     *)
(***************************************************************************)
Panic(k, what) == [k EXCEPT !.panic = what]

Kalloc(k, n) == [k EXCEPT !.pages = @ - n]
Kfree(k, n) == [k EXCEPT !.pages = @ + n]
\* n pages, one after the other; if there are too few, those that it has go
\* back (uvmalloc, uvmcopy, allocproc).
Take(k, n) ==
  LET took == LeastOf(n, k.pages)
      k1 == Kalloc(k, took)
  IN IF took = n THEN [sys |-> k1, ok |-> TRUE] ELSE [sys |-> Kfree(k1, took), ok |-> FALSE]

Iget(k, i) == [k EXCEPT !.inode[i].ref = @ + 1]
Iput(k, i) ==
  LET ip == k.inode[i] IN
  IF ip.ref = 1 /\ ip.nlink = 0 THEN [k EXCEPT !.inode[i] = NoInode, !.blocks = @ + ip.blocks]
  ELSE [k EXCEPT !.inode[i].ref = @ - 1]
Itrunc(k, i) == [k EXCEPT !.blocks = @ + k.inode[i].blocks, !.inode[i].data = <<>>, !.inode[i].blocks = 0]

Pipeclose(k, q, writable) ==
  LET pi == IF writable THEN [k.pipe[q] EXCEPT !.writeopen = FALSE] ELSE [k.pipe[q] EXCEPT !.readopen = FALSE] IN
  IF pi.readopen \/ pi.writeopen THEN [k EXCEPT !.pipe[q] = pi]
  ELSE Kfree([k EXCEPT !.pipe[q] = NoPipe], 1)
\* A file that has no type yet is not one of anything.
Fileclose(k, f) ==
  LET ff == k.file[f]
      gone == [k EXCEPT !.file[f] = NoFile]
  IN IF ff.ref > 1 THEN [k EXCEPT !.file[f].ref = @ - 1]
     ELSE CASE ff.type = "pipe" -> Pipeclose(gone, ff.pipe, ff.writable)
            [] ff.type \in {"inode", "device"} -> Iput(gone, ff.ip)
            [] ff.type = "none" -> gone
\* The least place in a table that is free, or none.
Least(S, none) == IF S = {} THEN none ELSE Min(S)
Filealloc(k) == Least({f \in 1 .. NFILE : k.file[f].ref = 0}, 0)
\* filealloc has counted one reference to the file, if there is one.
Allocated(k, f) == IF f = 0 THEN k ELSE [k EXCEPT !.file[f].ref = 1]
\* if(f) fileclose(f);
CloseIf(k, f) == IF f = 0 THEN k ELSE Fileclose(k, f)
Fdalloc(me) == Least({fd \in 0 .. NOFILE - 1 : me.ofile[fd] = 0}, -1)

\* A directory reads as its entries, in some order.
Listing(names) == FoldSet(LAMBDA n, s : Append(s, n), <<>>, names)
Contents(ip) == IF ip.type = "dir" THEN Listing(DOMAIN ip.ents) ELSE ip.data
(***************************************************************************)
(* Paths: namex reads DIRSIZ characters of a name.  0 stands for failure;  *)
(* -1 if ilock finds an inode that has been freed.                         *)
(***************************************************************************)
Skipelem(n) == IF Len(n) > DIRSIZ THEN SubSeq(n, 1, DIRSIZ) ELSE n
Dirlookup(k, i, n) ==
  IF i <= 0 THEN i
  ELSE IF k.inode[i].type = "free" THEN -1
  ELSE IF k.inode[i].type = "dir" /\ n \in DOMAIN k.inode[i].ents THEN k.inode[i].ents[n] ELSE 0
Namex(k, me, path, elems) ==
  FoldLeft(LAMBDA i, n : Dirlookup(k, i, Skipelem(n)), IF path.abs THEN Root ELSE me.cwd, elems)
Namei(k, me, path) == Namex(k, me, path, path.elems)
\* The directory, which must be one.
Nameiparent(k, me, path) ==
  IF path.elems = <<>> THEN 0
  ELSE LET dp == Namex(k, me, path, Front(path.elems)) IN
       IF dp <= 0 THEN dp ELSE Dirlookup(k, dp, ".")
NameOf(path) == Skipelem(Last(path.elems))

Freed(k) == {i \in Inums : k.inode[i].type = "free"}
\* create(): ip is 0 if it fails, else one reference to it is counted.
Created(k, dp, name, type) ==
  LET i == Min(Freed(k))
      dir == type = "dir"
  IN [k EXCEPT !.inode[i] = [NoInode EXCEPT !.type = type, !.nlink = 1, !.ref = 1,
                               !.ents = IF dir THEN "." :> i @@ ".." :> dp ELSE <<>>],
               !.inode[dp].ents = (name :> i) @@ @,
               !.inode[dp].nlink = @ + (IF dir THEN 1 ELSE 0)]
Create(k, me, path, type) ==
  LET dp == Nameiparent(k, me, path)
      ip == Dirlookup(k, dp, NameOf(path))
      k1 == Iget(k, dp)
      k2 == Iput(Iget(k1, ip), dp)
  IN IF dp <= 0 THEN [sys |-> k, ip |-> dp]
     ELSE IF ip # 0 THEN
       IF type = "file" /\ k.inode[ip].type \in {"file", "device"} THEN [sys |-> k2, ip |-> ip]
       ELSE [sys |-> Iput(k2, ip), ip |-> 0]
     ELSE IF Freed(k) = {} THEN [sys |-> Panic(k, "ialloc: no inodes"), ip |-> 0]
     ELSE [sys |-> Iput(Created(k1, dp, NameOf(path), type), dp), ip |-> Min(Freed(k))]
(***************************************************************************)
(* Statements and their results.                                           *)
(***************************************************************************)
\* copyin, copyout: an address is a variable of the program and a distance.
Address(me, a) == me.env[a.at] + a.plus
Mapped(me, a) == /\ Address(me, a) \div PGSIZE < PagesOf(me.sz)
                 /\ Address(me, a) \div PGSIZE # Guard
\* argstr: the buffer for a path has MAXPATH characters.
Fetched(me, path) == Mapped(me, path.at) /\ ~path.long
Argfd(me, fd) == IF me.env[fd] \in 0 .. NOFILE - 1 THEN me.ofile[me.env[fd]] ELSE 0

Accepts(s, r) == CASE s.want = "any" -> TRUE
                   [] s.want = "ok" -> r >= 0
                   [] s.want = "positive" -> r > 0
                   [] s.want = "none" -> r <= 0
                   [] s.want = "fails" -> r < 0
                   [] s.want = "is" -> r = s.n
                   [] s.want = "not" -> r # s.n
\* The program after its first statement returned r and read data.
After(me, r, data) ==
  LET s == Head(me.prog)
      next == IF Accepts(s, r) THEN s.then \o (IF s.again THEN <<s>> ELSE <<>>) ELSE s.else
  IN [me EXCEPT !.prog = next \o Tail(@), !.part = 0,
                !.env = IF s.to = "" THEN @ ELSE (s.to :> r) @@ @,
                !.got = IF s.keep = "add" THEN @ \o data ELSE IF s.keep = "set" THEN data ELSE @]

Alive(p) == sys.panic = "" /\ proc[p].state = "run"
\* p makes the call c; one who is killed in the middle of a write goes on.
Calls(p, c) == /\ Alive(p) /\ (proc[p].killed => proc[p].part > 0) /\ proc[p].sz > 0
               /\ proc[p].prog # <<>> /\ Head(proc[p].prog).call = c
Arg(p, n) == Head(proc[p].prog).args[n]
Chars(p) == IF Head(proc[p].prog).keep = "put" THEN proc[p].got ELSE Arg(p, 3)
\* The call returns r, after it has made k of the system and me of the process.
Returns(p, k, me, r, data) == sys' = k /\ proc' = [proc EXCEPT ![p] = After(me, r, data)]
IlockPanics == sys' = Panic(sys, "ilock: no type") /\ UNCHANGED proc
Fails(p) == Returns(p, sys, proc[p], -1, <<>>)
(***************************************************************************)
(* sysfile.c                                                               *)
(***************************************************************************)
OpenFile(k, f, ip, mode) ==
  [(IF "TRUNC" \in mode /\ k.inode[ip].type = "file" THEN Itrunc(k, ip) ELSE k)
    EXCEPT !.file[f] = [NoFile EXCEPT !.ref = 1, !.ip = ip,
                          !.type = IF k.inode[ip].type = "device" THEN "device" ELSE "inode",
                          !.readable = "WRONLY" \notin mode, !.writable = mode \cap {"WRONLY", "RDWR"} # {}]]
\* Mutant of Refused: the file system lets programs write to directories.
RefusedNever(k, ip, mode) == k.inode[ip].type = "free"
Refused(k, ip, mode) == k.inode[ip].type = "dir" /\ mode # {}
Opens(p) ==
  LET me == proc[p]
      path == Arg(p, 1)
      mode == Arg(p, 2)
      ip == Namei(sys, me, path)
      found == IF "CREATE" \in mode THEN Create(sys, me, path, "file")
               ELSE [sys |-> IF ip > 0 THEN Iget(sys, ip) ELSE sys, ip |-> ip]
      f == Filealloc(found.sys)
      k == Allocated(found.sys, f)
      fd == Fdalloc(me)
  IN /\ Calls(p, "open")
     /\ IF ~Fetched(me, path) THEN Fails(p)
        ELSE IF found.ip < 0 THEN IlockPanics
        ELSE IF found.ip = 0 THEN Returns(p, found.sys, me, -1, <<>>)
        ELSE IF "CREATE" \notin mode /\ Refused(found.sys, found.ip, mode)
        THEN Returns(p, Iput(found.sys, found.ip), me, -1, <<>>)
        ELSE IF f = 0 \/ fd = -1 THEN Returns(p, Iput(CloseIf(k, f), found.ip), me, -1, <<>>)
        ELSE Returns(p, OpenFile(k, f, found.ip, mode), [me EXCEPT !.ofile[fd] = f], fd, <<>>)

Closes(p) ==
  LET f == Argfd(proc[p], Arg(p, 1)) IN
  /\ Calls(p, "close")
  /\ IF f = 0 THEN Fails(p)
     ELSE Returns(p, Fileclose(sys, f), [proc[p] EXCEPT !.ofile[proc[p].env[Arg(p, 1)]] = 0], 0, <<>>)

Dups(p) ==
  LET f == Argfd(proc[p], Arg(p, 1))
      fd == Fdalloc(proc[p])
  IN /\ Calls(p, "dup")
     /\ IF f = 0 \/ fd = -1 THEN Fails(p)
        ELSE Returns(p, [sys EXCEPT !.file[f].ref = @ + 1], [proc[p] EXCEPT !.ofile[fd] = f], fd, <<>>)

\* The result is the size.
Fstats(p) ==
  LET f == Argfd(proc[p], Arg(p, 1)) IN
  /\ Calls(p, "fstat")
  /\ IF f = 0 \/ sys.file[f].type = "pipe" THEN Fails(p)
     ELSE Returns(p, sys, proc[p], Len(Contents(sys.inode[sys.file[f].ip])), <<>>)
-----------------------------------------------------------------------------
\* fileread.  Nothing comes from the console.
Readi(p, f) ==
  LET ff == sys.file[f]
      all == Contents(sys.inode[ff.ip])
      r == IF ff.off > Len(all) THEN 0 ELSE LeastOf(Arg(p, 3), Len(all) - ff.off)
  IN IF r > 0 /\ ~Mapped(proc[p], Arg(p, 2)) THEN Fails(p)
     ELSE Returns(p, [sys EXCEPT !.file[f].off = @ + r], proc[p], r, SubSeq(all, ff.off + 1, ff.off + r))
\* A byte that cannot be copied is lost.
Piperead(p, q) ==
  LET pi == sys.pipe[q]
      r == IF Mapped(proc[p], Arg(p, 2)) THEN LeastOf(Arg(p, 3), Len(pi.data)) ELSE 0
      lost == IF r = 0 THEN LeastOf(1, Len(pi.data)) ELSE r
  IN /\ pi.data # <<>> \/ ~pi.writeopen
     /\ Returns(p, [sys EXCEPT !.pipe[q].data = SubSeq(@, lost + 1, Len(@))], proc[p], r, SubSeq(pi.data, 1, r))
Reads(p) ==
  LET f == Argfd(proc[p], Arg(p, 1)) IN
  /\ Calls(p, "read")
  /\ IF f = 0 \/ ~sys.file[f].readable THEN Fails(p)
     ELSE \/ sys.file[f].type = "pipe" /\ Piperead(p, sys.file[f].pipe)
          \/ sys.file[f].type = "inode" /\ Readi(p, f)

\* Blocks of a file of n units, with its indirect block.
BlocksFor(n) == LET b == (n + BSIZE - 1) \div BSIZE IN IF b > NDIRECT THEN b + 1 ELSE b
MaxChunk == ((MAXOPBLOCKS - 1 - 1 - 2) \div 2) * BSIZE
Writable(ip, off, n) == off <= Len(ip.data) /\ off + n <= (NDIRECT + NINDIRECT) * BSIZE
Overwrite(old, off, new) == [i \in 1 .. (IF off + Len(new) > Len(old) THEN off + Len(new) ELSE Len(old)) |->
                               IF i > off /\ i <= off + Len(new) THEN new[i - off] ELSE old[i]]
\* One transaction of filewrite.
Writei(p, f) ==
  LET me == proc[p]
      ff == sys.file[f]
      ip == sys.inode[ff.ip]
      chars == Chars(p)
      n1 == LeastOf(Len(chars) - me.part, MaxChunk)
      ok == Mapped(me, Arg(p, 2))
      \* bmap comes before the copy
      more == LET b == BlocksFor(IF ok THEN ff.off + n1 ELSE ff.off + 1) IN IF b > ip.blocks THEN b - ip.blocks ELSE 0
      k == [sys EXCEPT !.blocks = @ - more, !.inode[ff.ip].blocks = @ + more]
      k2 == [k EXCEPT !.file[f].off = @ + n1,
                      !.inode[ff.ip].data = Overwrite(@, ff.off, SubSeq(chars, me.part + 1, me.part + n1))]
  IN IF ~Writable(ip, ff.off, n1) THEN Fails(p)
     ELSE IF more > sys.blocks THEN sys' = Panic(sys, "balloc: out of blocks") /\ UNCHANGED proc
     ELSE IF ~ok THEN Returns(p, k, me, -1, <<>>)
     ELSE IF me.part + n1 = Len(chars) THEN Returns(p, k2, me, Len(chars), <<>>)
     ELSE sys' = k2 /\ proc' = [proc EXCEPT ![p].part = @ + n1]
\* As much as there is room for.
Pipewrite(p, q) ==
  LET me == proc[p]
      pi == sys.pipe[q]
      chars == Chars(p)
      m == LeastOf(PIPESIZE - Len(pi.data), Len(chars) - me.part)
      k == [sys EXCEPT !.pipe[q].data = @ \o SubSeq(chars, me.part + 1, me.part + m)]
  IN IF ~pi.readopen \/ me.killed THEN Fails(p)
     ELSE /\ Len(pi.data) < PIPESIZE
          /\ IF ~Mapped(me, Arg(p, 2)) THEN Returns(p, sys, me, me.part, <<>>)
             ELSE IF me.part + m = Len(chars) THEN Returns(p, k, me, Len(chars), <<>>)
             ELSE sys' = k /\ proc' = [proc EXCEPT ![p].part = @ + m]
Writes(p) ==
  LET f == Argfd(proc[p], Arg(p, 1)) IN
  /\ Calls(p, "write")
  /\ IF f = 0 \/ ~sys.file[f].writable THEN Fails(p)
     ELSE \/ sys.file[f].type = "pipe" /\ Pipewrite(p, sys.file[f].pipe)
          \/ sys.file[f].type = "inode" /\ Writei(p, f)
          \/ /\ sys.file[f].type = "device"
             /\ Returns(p, sys, proc[p], IF Mapped(proc[p], Arg(p, 2)) THEN Len(Chars(p)) ELSE 0, <<>>)
-----------------------------------------------------------------------------
\* bad: the link that ip has got goes again.
LinkUndone(k, ip) == Iput([k EXCEPT !.inode[ip].nlink = @ - 1], ip)
Links(p) ==
  LET me == proc[p]
      old == Arg(p, 1)
      new == Arg(p, 2)
      ip == Namei(sys, me, old)
      k1 == Iget(sys, ip)
      k2 == [k1 EXCEPT !.inode[ip].nlink = @ + 1]
      dp == Nameiparent(k2, me, new)
      k3 == Iget(k2, dp)
  IN /\ Calls(p, "link")
     /\ IF ~Fetched(me, old) \/ ~Fetched(me, new) THEN Fails(p)
        ELSE IF ip < 0 THEN IlockPanics
        ELSE IF ip = 0 THEN Fails(p)
        ELSE IF sys.inode[ip].type = "dir" THEN Returns(p, Iput(k1, ip), me, -1, <<>>)
        ELSE IF dp < 0 THEN IlockPanics
        ELSE IF dp = 0 THEN Returns(p, LinkUndone(k2, ip), me, -1, <<>>)
        ELSE IF NameOf(new) \in DOMAIN sys.inode[dp].ents
        THEN Returns(p, LinkUndone(Iput(k3, dp), ip), me, -1, <<>>)
        ELSE Returns(p, Iput(Iput([k3 EXCEPT !.inode[dp].ents = (NameOf(new) :> ip) @@ @], dp), ip), me, 0, <<>>)

Without(ents, n) == [m \in DOMAIN ents \ {n} |-> ents[m]]
Isdirempty(ip) == DOMAIN ip.ents = {".", ".."}
Unlinks(p) ==
  LET me == proc[p]
      path == Arg(p, 1)
      dp == Nameiparent(sys, me, path)
      n == NameOf(path)
      ip == Dirlookup(sys, dp, n)
      dir == sys.inode[ip].type = "dir"
      k1 == Iget(sys, dp)
      k2 == Iget(k1, ip)
      k3 == [k2 EXCEPT !.inode[dp].ents = Without(@, n), !.inode[dp].nlink = @ - (IF dir THEN 1 ELSE 0)]
      k4 == [Iput(k3, dp) EXCEPT !.inode[ip].nlink = @ - 1]
  IN /\ Calls(p, "unlink")
     /\ IF ~Fetched(me, path) THEN Fails(p)
        ELSE IF dp < 0 THEN IlockPanics
        ELSE IF dp = 0 THEN Fails(p)
        ELSE IF n \in {".", ".."} \/ ip = 0 THEN Returns(p, Iput(k1, dp), me, -1, <<>>)
        ELSE IF dir /\ ~Isdirempty(sys.inode[ip]) THEN Returns(p, Iput(Iput(k2, ip), dp), me, -1, <<>>)
        ELSE Returns(p, Iput(k4, ip), me, 0, <<>>)

Mkdirs(p) ==
  LET me == proc[p]
      made == Create(sys, me, Arg(p, 1), "dir")
  IN /\ Calls(p, "mkdir")
     /\ IF ~Fetched(me, Arg(p, 1)) THEN Fails(p)
        ELSE IF made.ip < 0 THEN IlockPanics
        ELSE IF made.ip = 0 THEN Returns(p, made.sys, me, -1, <<>>)
        ELSE Returns(p, Iput(made.sys, made.ip), me, 0, <<>>)

Chdirs(p) ==
  LET me == proc[p]
      ip == Namei(sys, me, Arg(p, 1))
  IN /\ Calls(p, "chdir")
     /\ IF ~Fetched(me, Arg(p, 1)) THEN Fails(p)
        ELSE IF ip < 0 THEN IlockPanics
        ELSE IF ip = 0 THEN Fails(p)
        ELSE IF sys.inode[ip].type # "dir" THEN Returns(p, Iput(Iget(sys, ip), ip), me, -1, <<>>)
        ELSE Returns(p, Iput(Iget(sys, ip), me.cwd), [me EXCEPT !.cwd = ip], 0, <<>>)

\* Two files and a page, or what it has got of them goes back; 0 is failure.
Pipealloc(k) ==
  LET rf == Filealloc(k)
      k1 == Allocated(k, rf)
      wf == IF rf = 0 THEN 0 ELSE Filealloc(k1)
      k2 == Allocated(k1, wf)
      q == Min({c \in 1 .. NFILE : k.pipe[c] = NoPipe})
      end == [NoFile EXCEPT !.ref = 1, !.type = "pipe", !.pipe = q]
  IN IF wf = 0 \/ k2.pages = 0 THEN [sys |-> CloseIf(CloseIf(k2, rf), wf), rf |-> 0, wf |-> 0]
     ELSE [sys |-> [Kalloc(k2, 1) EXCEPT !.pipe[q] = [NoPipe EXCEPT !.readopen = TRUE, !.writeopen = TRUE],
                                         !.file[rf] = [end EXCEPT !.readable = TRUE],
                                         !.file[wf] = [end EXCEPT !.writable = TRUE]],
           rf |-> rf, wf |-> wf]
\* Both ends are closed: the second one frees the page.
\* Mutant of PipeUndone: the end for writing is forgotten.
PipeUndoneHalf(a) == Fileclose(a.sys, a.rf)
PipeUndone(a) == Fileclose(Fileclose(a.sys, a.rf), a.wf)
\* fds[0] and fds[1] go to the variables r and w.
Pipes(p) ==
  LET me == proc[p]
      a == Pipealloc(sys)
      fd0 == Fdalloc(me)
      me0 == [me EXCEPT !.ofile[fd0] = a.rf]
      fd1 == Fdalloc(me0)
      me1 == [me0 EXCEPT !.ofile[fd1] = a.wf]
      Undone(undone) == Returns(p, PipeUndone(a), undone, -1, <<>>)
  IN /\ Calls(p, "pipe")
     /\ IF a.rf = 0 THEN Returns(p, a.sys, me, -1, <<>>)
        ELSE IF fd0 = -1 THEN Undone(me)
        ELSE IF fd1 = -1 THEN Undone([me0 EXCEPT !.ofile[fd0] = 0])
        ELSE IF ~Mapped(me, Arg(p, 3)) THEN Undone([me1 EXCEPT !.ofile[fd0] = 0, !.ofile[fd1] = 0])
        ELSE Returns(p, a.sys, [me1 EXCEPT !.env = (Arg(p, 1) :> fd0) @@ (Arg(p, 2) :> fd1) @@ @], 0, <<>>)
(***************************************************************************)
(* sysproc.c, proc.c and exec.c                                            *)
(***************************************************************************)
Took(p) == Tables + PagesOf(proc[p].sz)
\* The child has a program of its own, or goes on with that of its parent.
Child(p) ==
  LET s == Head(proc[p].prog)
      me == After(proc[p], 0, <<>>)
  IN [me EXCEPT !.parent = p, !.prog = IF s.both THEN @ ELSE s.child]
Duplicates(k, me) ==
  [Iget(k, me.cwd) EXCEPT !.file = [f \in DOMAIN @ |->
     [@[f] EXCEPT !.ref = @ + Cardinality({fd \in DOMAIN me.ofile : me.ofile[fd] = f})]]]
\* What freeproc gives back.
Freeproc(k, sz) == Kfree(k, Tables + PagesOf(sz))
Forks(p) ==
  LET np == Least({q \in Procs : proc[q].state = "unused"}, 0)
      allocproc == Take(sys, Tables)
      uvmcopy == Take(allocproc.sys, PagesOf(proc[p].sz))
  IN /\ Calls(p, "fork")
     /\ IF np = 0 THEN Fails(p)
        ELSE IF ~allocproc.ok THEN Returns(p, allocproc.sys, proc[p], -1, <<>>)
        ELSE IF ~uvmcopy.ok THEN Returns(p, Freeproc(uvmcopy.sys, 0), proc[p], -1, <<>>)
        ELSE /\ sys' = Duplicates(uvmcopy.sys, proc[p])
             /\ proc' = [proc EXCEPT ![p] = After(@, np, <<>>), ![np] = Child(p)]

Reparent(q, p) == IF proc[q].parent = p THEN InitProc ELSE proc[q].parent
\* The open files are closed one after the other.
Exit(p, status) ==
  LET me == proc[p]
      open == {fd \in DOMAIN me.ofile : me.ofile[fd] # 0}
  IN IF open # {}
     THEN /\ sys' = Fileclose(sys, me.ofile[Min(open)])
          /\ proc' = [proc EXCEPT ![p].ofile[Min(open)] = 0, ![p].part = IF me.killed THEN @ ELSE 1]
     ELSE /\ sys' = Iput(sys, me.cwd)
          /\ proc' = [q \in Procs |->
                        IF q = p THEN [NoProc EXCEPT !.state = "zombie", !.parent = me.parent,
                                                     !.xstate = status, !.sz = me.sz]
                        ELSE [proc[q] EXCEPT !.parent = Reparent(q, p)]]
Exits(p) == \/ Calls(p, "exit") /\ Exit(p, Arg(p, 1))
            \/ Calls(p, "exitvar") /\ Exit(p, proc[p].env[Arg(p, 1)])
\* usertrap: a process that has been killed gets no further.
DiesKilled(p) == Alive(p) /\ proc[p].killed /\ proc[p].part = 0 /\ Exit(p, -1)

Children(p) == {q \in Procs : proc[q].parent = p}
Waits(p) ==
  LET zombies == {q \in Children(p) : proc[q].state = "zombie"}
      np == Min(zombies)
  IN /\ Calls(p, "wait")
     /\ \/ /\ Children(p) = {}
           /\ Fails(p)
        \/ /\ zombies # {}
           /\ sys' = Freeproc(sys, proc[np].sz)
           /\ proc' = [proc EXCEPT ![np] = NoProc,
                         ![p] = [After(@, np, <<>>) EXCEPT !.env = ("xstatus" :> proc[np].xstate) @@ @]]

Kills(p) ==
  LET pid == proc[p].env[Arg(p, 1)] IN
  /\ Calls(p, "kill")
  /\ IF pid \notin Procs THEN Fails(p)
     ELSE IF proc[pid].state = "unused" THEN Fails(p)
     ELSE /\ proc' = [[proc EXCEPT ![p] = After(@, 0, <<>>)] EXCEPT ![pid].killed = TRUE]
          /\ UNCHANGED sys

\* The change: by so much, to a size, or to what a variable has.
Change(p) == CASE Arg(p, 1) = "by" -> Arg(p, 2)
               [] Arg(p, 1) = "to" -> Arg(p, 2) - proc[p].sz
               [] Arg(p, 1) = "back" -> proc[p].env[Arg(p, 2)] - proc[p].sz
Sbrks(p) ==
  LET me == proc[p]
      sz == me.sz + Change(p)
      more == PagesOf(sz) - PagesOf(me.sz)
      uvmalloc == Take(sys, more)
  IN /\ Calls(p, "sbrk")
     /\ IF sz <= me.sz THEN Returns(p, Kfree(sys, -more), [me EXCEPT !.sz = sz], me.sz, <<>>)
        ELSE IF ~uvmalloc.ok THEN Returns(p, uvmalloc.sys, me, -1, <<>>)
        ELSE Returns(p, uvmalloc.sys, [me EXCEPT !.sz = sz], me.sz, <<>>)

\* sys_exec copies each argument to a page of its own, until one is bad or
\* there are too many.  An argument is [at, size]: where it is, its length.
BadArgs(me, args) == {i \in DOMAIN args : ~Mapped(me, args[i].at) \/ args[i].size > PGSIZE}
ArgPages(me, args) == LeastOf(Min(BadArgs(me, args) \cup {Len(args)}), MAXARG)
\* exec: the image of a process of me.sz from a file, its arguments on one page
\* of stack.  The new image goes again if it cannot be finished, the old one if
\* it can.
Pushed(args) == FoldLeft(LAMBDA n, a : n + a.size, 0, args)
NewImage(k, me, ip, args) ==
  LET k1 == Iget(k, ip)
      elf == k.inode[ip].data # <<>> /\ k.inode[ip].data[1] = "ELF"
      table == Take(k1, 1)
      text == Take(table.sys, 1)
      stack == Take(Iput(text.sys, ip), PagesOf(ImageSize) - 1)
      Bad(s) == [sys |-> s, ok |-> FALSE]
  IN IF ~elf THEN Bad(Iput(k1, ip))
     ELSE IF ~table.ok THEN Bad(Iput(table.sys, ip))
     ELSE IF ~text.ok THEN Bad(Iput(Kfree(text.sys, 1), ip))
     ELSE IF ~stack.ok THEN Bad(Kfree(stack.sys, 2))
     ELSE IF Pushed(args) > PGSIZE THEN Bad(Kfree(stack.sys, 1 + PagesOf(ImageSize)))
     ELSE [sys |-> Kfree(stack.sys, 1 + PagesOf(me.sz)), ok |-> TRUE]
Execs(p) ==
  LET me == proc[p]
      args == Arg(p, 2)
      ip == Namei(sys, me, Arg(p, 1))
      n == ArgPages(me, args)
      argv == Take(sys, n)
      image == NewImage(argv.sys, me, ip, args)
  IN /\ Calls(p, "exec")
     /\ IF ~Fetched(me, Arg(p, 1)) THEN Fails(p)
        ELSE IF ~argv.ok THEN Returns(p, argv.sys, me, -1, <<>>)
        ELSE IF BadArgs(me, args) # {} \/ Len(args) >= MAXARG THEN Returns(p, Kfree(argv.sys, n), me, -1, <<>>)
        ELSE IF ip < 0 THEN IlockPanics
        ELSE IF ip = 0 THEN Returns(p, Kfree(argv.sys, n), me, -1, <<>>)
        ELSE IF ~image.ok THEN Returns(p, Kfree(image.sys, n), me, -1, <<>>)
        ELSE /\ sys' = Kfree(image.sys, n)
             /\ proc' = [proc EXCEPT ![p] = [@ EXCEPT !.sz = ImageSize, !.env = StartEnv,
                                                      !.prog = Main(sys.inode[ip].data[2], args)]]

\* A load of a page that is not there, or the code itself is not there.
Faults(p) ==
  /\ Alive(p) /\ ~proc[p].killed
  /\ \/ proc[p].sz = 0
     \/ Calls(p, "load") /\ ~Mapped(proc[p], Arg(p, 1))
  /\ proc' = [proc EXCEPT ![p].killed = TRUE]
  /\ UNCHANGED sys

\* What changes nothing but the program: a load; sleep, getpid, and computing;
\* one of several ways to go on; a counter; tests of variables.
Local(p) ==
  LET me == proc[p]
      Done(r) == Returns(p, sys, me, r, <<>>)
      If(good) == Done(IF good THEN 0 ELSE -1)
  IN \/ Calls(p, "load") /\ Mapped(me, Arg(p, 1)) /\ Done(0)
     \/ Calls(p, "pause") /\ Done(0)
     \/ Calls(p, "getpid") /\ Done(p)
     \/ /\ Calls(p, "pick")
        /\ \E way \in Arg(p, 1) : proc' = [proc EXCEPT ![p].prog = way \o Tail(@)]
        /\ UNCHANGED sys
     \/ Calls(p, "count") /\ Returns(p, sys, [me EXCEPT !.env[Arg(p, 1)] = @ + 1], 0, <<>>)
     \/ Calls(p, "equal") /\ If(me.env[Arg(p, 1)] = Arg(p, 2))
     \/ Calls(p, "same") /\ If(me.env[Arg(p, 1)] = me.env[Arg(p, 2)])
     \/ Calls(p, "atleast") /\ If(me.env[Arg(p, 1)] >= me.env[Arg(p, 2)])
     \/ Calls(p, "expect") /\ Returns(p, sys, [me EXCEPT !.got = <<>>], IF me.got \in Arg(p, 1) THEN 0 ELSE -1, <<>>)

\* A pause long enough for all that a test left behind to exit.
Settles(p) == /\ Calls(p, "settle")
              /\ \A q \in Procs \ {InitProc, p} : proc[q].state = "unused"
              /\ Returns(p, sys, proc[p], 0, <<>>)

Step(p) == \/ Opens(p) \/ Closes(p) \/ Dups(p) \/ Fstats(p) \/ Reads(p) \/ Writes(p)
           \/ Links(p) \/ Unlinks(p) \/ Mkdirs(p) \/ Chdirs(p) \/ Pipes(p)
           \/ Forks(p) \/ Exits(p) \/ DiesKilled(p) \/ Waits(p) \/ Kills(p) \/ Sbrks(p)
           \/ Execs(p) \/ Faults(p) \/ Local(p) \/ Settles(p)
(***************************************************************************)
(* init waits for whoever becomes its child; the program runs as a child   *)
(* of its own.  Both have the console open three times, and are in the     *)
(* root directory.                                                         *)
(***************************************************************************)
Console == CHOOSE i \in Inums : Image[i].type = "device"
Running(me, parent, prog) ==
  [NoProc EXCEPT !.state = "run", !.parent = parent, !.sz = ImageSize, !.cwd = Root, !.prog = prog, !.env = StartEnv,
                 !.ofile = [fd \in 0 .. NOFILE - 1 |-> IF fd <= 2 THEN 1 ELSE 0]]
BlocksInUse(k) == MapThenSumSet(LAMBDA i : k.inode[i].blocks, Inums)
Began(prog) ==
  LET waits == [Stmt("wait", <<>>) EXCEPT !.then = <<Stmt("pause", <<>>)>>, !.again = TRUE]
      k == [inode |-> [Image EXCEPT ![Root].ref = 2, ![Console].ref = 1],
            file |-> [f \in 1 .. NFILE |->
                        IF f = 1 THEN [NoFile EXCEPT !.ref = 6, !.type = "device", !.readable = TRUE, !.writable = TRUE,
                                                     !.ip = Console]
                        ELSE NoFile],
            pipe |-> [q \in 1 .. NFILE |-> NoPipe],
            pages |-> NPages - 2 * (Tables + PagesOf(ImageSize)), blocks |-> 0, panic |-> ""]
  IN /\ sys = [k EXCEPT !.blocks = NBlocks - BlocksInUse(k)]
     /\ proc = [p \in Procs |-> IF p = InitProc THEN Running(p, 0, <<waits>>)
                               ELSE IF p = Runner THEN Running(p, InitProc, prog) ELSE NoProc]
Calling == \E p \in Procs : Step(p)
\* What a process waits for: an exit, bytes or room in a pipe, the others.
Waiting(p) ==
  LET f == Argfd(proc[p], Arg(p, 1))
      pi == sys.pipe[sys.file[f].pipe]
      OnPipe(c) == Calls(p, c) /\ f # 0 /\ sys.file[f].type = "pipe"
  IN \/ Calls(p, "wait") /\ Children(p) # {} /\ \A q \in Children(p) : proc[q].state # "zombie"
     \/ OnPipe("read") /\ sys.file[f].readable /\ pi.data = <<>> /\ pi.writeopen
     \/ OnPipe("write") /\ sys.file[f].writable /\ Len(pi.data) = PIPESIZE /\ pi.readopen /\ ~proc[p].killed
     \/ Calls(p, "read") /\ f # 0 /\ sys.file[f].readable /\ sys.file[f].type = "device"
     \/ Calls(p, "settle") /\ \E q \in Procs \ {InitProc, p} : proc[q].state # "unused"
CanStep(p) == Alive(p) /\ (proc[p].killed \/ proc[p].sz = 0 \/ (proc[p].prog # <<>> /\ ~Waiting(p)))
\* The scheduler goes round: no process that can go on waits forever.  It is
\* weak fairness of Step(p), with CanStep(p) for ENABLED <<Step(p)>>_sysvars.
Scheduled == \A p \in Procs : []<>~CanStep(p) \/ []<><<Step(p)>>_sysvars
-----------------------------------------------------------------------------
(* Properties                                                              *)

Live == {p \in Procs : proc[p].state # "unused"}
PagesTaken == MapThenSumSet(Took, Live) + Cardinality({q \in DOMAIN sys.pipe : sys.pipe[q] # NoPipe})
\* A directory that has been unlinked is no longer counted in its parent.
Names == {<<d, n>> \in UNION {{d} \X DOMAIN sys.inode[d].ents : d \in Inums} :
            n # "." /\ (n = ".." => sys.inode[d].nlink > 0)}
Descriptors == {<<p, fd>> \in Live \X (0 .. NOFILE - 1) : proc[p].ofile[fd] # 0}
EndOpen(q, writable) == \E f \in 1 .. NFILE : /\ sys.file[f].ref > 0 /\ sys.file[f].type = "pipe"
                                              /\ sys.file[f].pipe = q /\ sys.file[f].writable = writable
InodesAccounted ==
  LET names == Names
      files == {f \in 1 .. NFILE : sys.file[f].ref > 0 /\ sys.file[f].type # "pipe"}
  IN \A i \in Inums :
       LET ip == sys.inode[i] IN
       /\ ip.ref = Cardinality({p \in Live : proc[p].cwd = i}) + Cardinality({f \in files : sys.file[f].ip = i})
       /\ ip.nlink = Cardinality({<<d, n>> \in names : sys.inode[d].ents[n] = i})
       /\ ip.nlink = 0 /\ ip.ref = 0 => ip = NoInode
       /\ ip.type = "file" => Len(ip.data) <= BSIZE * ip.blocks
FilesAccounted ==
  LET descriptors == Descriptors IN
  \A f \in 1 .. NFILE : sys.file[f].ref = Cardinality({<<p, fd>> \in descriptors : proc[p].ofile[fd] = f})

\* Whatever programs do in whatever order, with calls that fail in the middle,
\* processes killed and descriptors shared: every page is free, a process's or
\* a pipe's, every block free or a file's, each count is what it counts, and
\* what nothing leads to has been given back.
Accounted ==
  /\ sys.pages + PagesTaken = NPages
  /\ sys.blocks + BlocksInUse(sys) = NBlocks
  /\ InodesAccounted
  /\ FilesAccounted
  /\ \A q \in 1 .. NFILE : /\ sys.pipe[q].readopen = EndOpen(q, FALSE)
                           /\ sys.pipe[q].writeopen = EndOpen(q, TRUE)

\* The program has exited, and is content.
Passed == proc[Runner].state = "zombie" /\ proc[Runner].xstate = 0
=============================================================================
