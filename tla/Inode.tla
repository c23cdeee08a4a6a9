-------------------------------- MODULE Inode --------------------------------
(***************************************************************************)
(* The inodes of kernel/fs.c and the system calls of sysfile.c that look   *)
(* names up, make them and remove them, run by several processes at once.  *)
(*                                                                         *)
(* One step is what a process does between two points at which another one *)
(* may see the difference: while it owns the sleep lock of an inode nobody *)
(* else looks at the inode's fields or entries, and the table of inodes is *)
(* looked at under icache.lock.  A call runs inside one transaction of the *)
(* log, so that its disk writes are plain assignments here.                *)
(*                                                                         *)
(* Contents of files, "." and devices are left out; a file is FD_INODE and *)
(* has one descriptor.                                                     *)
(***************************************************************************)
EXTENDS Naturals, Sequences, FiniteSets, TLC

CONSTANTS Procs,
          Names,    \* names of directory entries, without "." and ".."
          NInodes,  \* inodes on the disk: 1 is the root
          Slots,    \* the NINODE entries of the inode table
          Calls,    \* the system calls that each process makes
          None      \* not a process, nor an entry

Inums == 1..NInodes
Root == 1

ASSUME SizeAssumption == NInodes \in Nat \ {0}
ASSUME ProcsAssumption == IsFiniteSet(Procs) /\ None \notin Procs \cup Slots
ASSUME NamesAssumption == IsFiniteSet(Names) /\ ".." \notin Names
\* A call, with the path that is left to look up; of link(), also the new path.
Path == [abs : BOOLEAN, elems : Seq(Names \cup {".."}) \ {<<>>}]
NoPath == [abs |-> FALSE, elems |-> <<>>]
ASSUME CallsAssumption == \A p \in Procs :
  Calls[p] \subseteq [op : {"open", "create", "mkdir", "unlink", "chdir"}, path : Path, new : {NoPath}]
                     \cup [op : {"link"}, path : Path, new : Path]

VARIABLES
  dtype, dlink,        \* disk: type and nlink of every inode
  ents, up,            \* disk: the entries of a directory, and its ".."
  inum, ref, owner,    \* the inode table: owner has the entry's sleep lock
  valid, type, nlink,  \* and its copy of the inode on disk
  pc, call,            \* each process: where it is, its system call
  cur, ip, put,        \*   entries it has a reference to, or None: dp and ip,
  ret,                 \*   what iput() is to drop, and where that returns
  scan,                \*   ialloc's inum
  cwd, fd              \*   current directory and open file

disk == <<dtype, dlink, ents, up>>
table == <<inum, ref, owner, valid, type, nlink>>
procs == <<pc, call, cur, ip, put, ret, scan, cwd, fd>>
vars == <<disk, table, procs>>

NoCall == [op |-> "none", path |-> NoPath, new |-> NoPath]
NoEnts == [n \in Names |-> 0]

\* mkfs has made the root; every process has it as its current directory.
Init ==
  /\ dtype = [i \in Inums |-> IF i = Root THEN "dir" ELSE "free"]
  /\ dlink = [i \in Inums |-> IF i = Root THEN 1 ELSE 0]
  /\ ents = [i \in Inums |-> NoEnts]
  /\ up = [i \in Inums |-> IF i = Root THEN Root ELSE 0]
  /\ \E r \in Slots : /\ inum = [s \in Slots |-> IF s = r THEN Root ELSE 0]
                      /\ ref = [s \in Slots |-> IF s = r THEN Cardinality(Procs) ELSE 0]
                      /\ cwd = [p \in Procs |-> r]
  /\ owner = [s \in Slots |-> None]
  /\ valid = [s \in Slots |-> FALSE]
  /\ type = [s \in Slots |-> "free"] /\ nlink = [s \in Slots |-> 0]
  /\ pc = [p \in Procs |-> "idle"] /\ ret = [p \in Procs |-> "idle"]
  /\ call = [p \in Procs |-> NoCall]
  /\ cur = [p \in Procs |-> None] /\ ip = [p \in Procs |-> None]
  /\ put = [p \in Procs |-> None] /\ fd = [p \in Procs |-> None]
  /\ scan = [p \in Procs |-> 0]
-----------------------------------------------------------------------------
(* The inode table                                                         *)

Goto(p, l) == pc' = [pc EXCEPT ![p] = l]

\* iget() panics with icache.lock held.
TableFree == \A p \in Procs : pc[p] # "igetPanic"

Holders(i) == {s \in Slots : ref[s] > 0 /\ inum[s] = i}
Empty == {s \in Slots : ref[s] = 0}

\* iget() returns s: the inode's entry, or a free one, no matter which.
IgetHit(i, s) == /\ s \in Holders(i)
                 /\ ref' = [ref EXCEPT ![s] = @ + 1]
                 /\ UNCHANGED <<inum, valid>>
IgetNew(i, s) == /\ Holders(i) = {}
                 /\ s \in Empty
                 /\ inum' = [inum EXCEPT ![s] = i]
                 /\ ref' = [ref EXCEPT ![s] = 1]
                 /\ valid' = [valid EXCEPT ![s] = FALSE]
Iget(i, s) == TableFree /\ (IgetHit(i, s) \/ IgetNew(i, s))

\* Mutant of Idup: the reference is not counted.
IdupUncounted(s) == TableFree /\ s \in Slots /\ UNCHANGED <<ref, inum, valid>>
Idup(s) == TableFree /\ ref' = [ref EXCEPT ![s] = @ + 1] /\ UNCHANGED <<inum, valid>>

\* iupdate() of an inode with n links.
Iupdate(i, n) == [dlink EXCEPT ![i] = n]

Unlocked(s) == [owner EXCEPT ![s] = None]

\* Where ilock() is called, and what follows.
AfterLock == [namei |-> "walk", found |-> "check", parent |-> "change",
              exists |-> "reuse", fresh |-> "fill", victim |-> "remove",
              undo |-> "undoing"]
LockOf(p) == IF pc[p] \in {"namei", "found", "parent"} THEN cur[p] ELSE ip[p]

\* The sleep lock, and the copy of the inode if there is none.
Ilock(p) ==
  /\ pc[p] \in DOMAIN AfterLock
  /\ LET s == LockOf(p)
         i == inum[s]
     IN /\ owner[s] = None
        /\ owner' = [owner EXCEPT ![s] = p]
        /\ IF valid[s] THEN UNCHANGED <<valid, type, nlink>> /\ Goto(p, AfterLock[pc[p]])
           ELSE /\ valid' = [valid EXCEPT ![s] = TRUE]
                /\ type' = [type EXCEPT ![s] = dtype[i]]
                /\ nlink' = [nlink EXCEPT ![s] = dlink[i]]
                /\ Goto(p, IF dtype[i] = "free" THEN "panic" ELSE AfterLock[pc[p]])
  /\ UNCHANGED <<disk, inum, ref, call, cur, ip, put, ret, scan, cwd, fd>>

\* iput(s), and then l.
PutThen(p, s, l) == /\ put' = [put EXCEPT ![p] = s]
                    /\ ret' = [ret EXCEPT ![p] = l]
                    /\ Goto(p, "iput")

\* Mutant of LastPut: it does not look at valid.
LastPutUnread(s) == ref[s] = 1 /\ nlink[s] = 0
LastPut(s) == ref[s] = 1 /\ valid[s] /\ nlink[s] = 0

PutReturn(p) == /\ Goto(p, ret[p])
                /\ put' = [put EXCEPT ![p] = None]
                /\ ret' = [ret EXCEPT ![p] = "idle"]

\* Nobody reads these fields of a free entry again; valid stays as it is.
Forget(s) == /\ inum' = [inum EXCEPT ![s] = 0]
             /\ type' = [type EXCEPT ![s] = "free"]
             /\ nlink' = [nlink EXCEPT ![s] = 0]

IputDrop(p) ==
  /\ TableFree
  /\ pc[p] = "drop" \/ (pc[p] = "iput" /\ ~LastPut(put[p]))
  /\ ref' = [ref EXCEPT ![put[p]] = @ - 1]
  /\ IF ref'[put[p]] = 0 THEN Forget(put[p]) ELSE UNCHANGED <<inum, type, nlink>>
  /\ PutReturn(p)
  /\ UNCHANGED <<disk, owner, valid, call, cur, ip, scan, cwd, fd>>

\* Nobody else has a reference or a name: acquiresleep() ...
IputLast(p) ==
  /\ TableFree
  /\ pc[p] = "iput" /\ LastPut(put[p]) /\ owner[put[p]] = None
  /\ owner' = [owner EXCEPT ![put[p]] = p]
  /\ Goto(p, "free")
  /\ UNCHANGED <<disk, inum, ref, valid, type, nlink, call, cur, ip, put, ret, scan, cwd, fd>>

\* ... itrunc(), type = 0, iupdate(): from here on ialloc() may take the inode ...
IputFree(p) ==
  /\ pc[p] = "free"
  /\ ents' = [ents EXCEPT ![inum[put[p]]] = NoEnts]
  /\ up' = [up EXCEPT ![inum[put[p]]] = 0]
  /\ type' = [type EXCEPT ![put[p]] = "free"]
  /\ dtype' = [dtype EXCEPT ![inum[put[p]]] = "free"]
  /\ dlink' = Iupdate(inum[put[p]], nlink[put[p]])
  /\ Goto(p, "freed")
  /\ UNCHANGED <<inum, ref, owner, valid, nlink, call, cur, ip, put, ret, scan, cwd, fd>>

\* ... valid = 0, releasesleep().
IputUnlock(p) ==
  /\ pc[p] = "freed"
  /\ valid' = [valid EXCEPT ![put[p]] = FALSE]
  /\ owner' = Unlocked(put[p])
  /\ Goto(p, "drop")
  /\ UNCHANGED <<disk, inum, ref, type, nlink, call, cur, ip, put, ret, scan, cwd, fd>>
-----------------------------------------------------------------------------
(* namex()                                                                 *)

Op(p) == call[p].op
Elems(p) == call[p].path.elems
EndCall(p) == call' = [call EXCEPT ![p] = NoCall]

Call(p, c) ==
  /\ pc[p] = "idle" /\ c \in Calls[p]
  /\ c.op \in {"open", "create"} => fd[p] = None
  /\ call' = [call EXCEPT ![p] = c]
  /\ Goto(p, "start")
  /\ UNCHANGED <<disk, table, cur, ip, put, ret, scan, cwd, fd>>

\* iget() of the root, or idup() of the current directory.
NamexStart(p) ==
  /\ pc[p] = "start"
  /\ \E s \in Slots :
       /\ IF call[p].path.abs THEN Iget(Root, s) ELSE s = cwd[p] /\ Idup(s)
       /\ cur' = [cur EXCEPT ![p] = s]
  /\ Goto(p, "namei")
  /\ UNCHANGED <<disk, owner, type, nlink, call, ip, put, ret, scan, cwd, fd>>

\* nameiparent() stops one level early.
AtParent(p) == Op(p) \in {"create", "mkdir", "unlink", "newname"} /\ Len(Elems(p)) = 1

\* dirlookup() in the inode that cur has locked.
Child(p) == LET n == Head(Elems(p)) IN IF n = ".." THEN up[inum[cur[p]]]
                                                  ELSE ents[inum[cur[p]]][n]

\* The lookup fails: the call returns, link() after it has undone what it did.
WalkFails(p) ==
  /\ pc[p] = "walk"
  /\ type[cur[p]] # "dir" \/ (~AtParent(p) /\ Child(p) = 0)
  /\ owner' = Unlocked(cur[p])
  /\ PutThen(p, cur[p], IF Op(p) = "newname" THEN "undo" ELSE "idle")
  /\ EndCall(p)
  /\ cur' = [cur EXCEPT ![p] = None]
  /\ UNCHANGED <<disk, inum, ref, valid, type, nlink, ip, scan, cwd, fd>>

WalkStops(p) ==
  /\ pc[p] = "walk"
  /\ type[cur[p]] = "dir" /\ AtParent(p)
  /\ owner' = Unlocked(cur[p])
  /\ Goto(p, "parent")
  /\ UNCHANGED <<disk, inum, ref, valid, type, nlink, call, cur, ip, put, ret, scan, cwd, fd>>

WalkOn(p) ==
  /\ pc[p] = "walk"
  /\ type[cur[p]] = "dir" /\ ~AtParent(p) /\ Child(p) # 0
  /\ \E s \in Slots : Iget(Child(p), s) /\ cur' = [cur EXCEPT ![p] = s]
  /\ owner' = Unlocked(cur[p])
  /\ call' = [call EXCEPT ![p].path.elems = Tail(@)]
  /\ PutThen(p, cur[p], IF Len(Elems(p)) = 1 THEN "found" ELSE "namei")
  /\ UNCHANGED <<disk, type, nlink, ip, scan, cwd, fd>>
-----------------------------------------------------------------------------
(* open() of a name that exists, chdir() and close()                       *)

\* Also the end of create(), whose inode cur is, locked.
OpenDone(p) ==
  /\ pc[p] = "check" /\ Op(p) \in {"open", "create"}
  /\ fd' = [fd EXCEPT ![p] = cur[p]]
  /\ cur' = [cur EXCEPT ![p] = None]
  /\ owner' = Unlocked(cur[p])
  /\ Goto(p, "idle") /\ EndCall(p)
  /\ UNCHANGED <<disk, inum, ref, valid, type, nlink, ip, put, ret, scan, cwd>>

\* iunlockput(): open() has no file or descriptor left, or may not write to a
\* directory; chdir() has no directory, link() has one; mkdir() is done.
CheckFails(p) == \/ Op(p) \in {"open", "create", "mkdir"}
                 \/ Op(p) = "chdir" /\ type[cur[p]] # "dir"
                 \/ Op(p) = "link" /\ type[cur[p]] = "dir"
IunlockPut(p) ==
  /\ pc[p] = "check" /\ CheckFails(p)
  /\ owner' = Unlocked(cur[p])
  /\ PutThen(p, cur[p], "idle") /\ EndCall(p)
  /\ cur' = [cur EXCEPT ![p] = None]
  /\ UNCHANGED <<disk, inum, ref, valid, type, nlink, ip, scan, cwd, fd>>

Chdir(p) ==
  /\ pc[p] = "check" /\ Op(p) = "chdir" /\ type[cur[p]] = "dir"
  /\ owner' = Unlocked(cur[p])
  /\ PutThen(p, cwd[p], "idle") /\ EndCall(p)
  /\ cwd' = [cwd EXCEPT ![p] = cur[p]]
  /\ cur' = [cur EXCEPT ![p] = None]
  /\ UNCHANGED <<disk, inum, ref, valid, type, nlink, ip, scan, fd>>

Close(p) ==
  /\ pc[p] = "idle" /\ fd[p] # None
  /\ PutThen(p, fd[p], "idle")
  /\ fd' = [fd EXCEPT ![p] = None]
  /\ UNCHANGED <<disk, table, call, cur, ip, scan, cwd>>
-----------------------------------------------------------------------------
(* create()                                                                *)

Creates(p) == pc[p] = "change" /\ Op(p) \in {"create", "mkdir"}

CreateFinds(p) ==
  /\ Creates(p) /\ Child(p) # 0
  /\ \E s \in Slots : Iget(Child(p), s) /\ ip' = [ip EXCEPT ![p] = s]
  /\ owner' = Unlocked(cur[p])
  /\ PutThen(p, cur[p], "exists")
  /\ cur' = [cur EXCEPT ![p] = None]
  /\ UNCHANGED <<disk, type, nlink, call, scan, cwd, fd>>

\* open() may have a file that is there already ...
Reuse(p) ==
  /\ pc[p] = "reuse" /\ Op(p) = "create" /\ type[ip[p]] = "file"
  /\ cur' = [cur EXCEPT ![p] = ip[p]]
  /\ ip' = [ip EXCEPT ![p] = None]
  /\ Goto(p, "check")
  /\ UNCHANGED <<disk, table, call, put, ret, scan, cwd, fd>>

\* ... but nobody else.
ReuseFails(p) ==
  /\ pc[p] = "reuse" /\ ~(Op(p) = "create" /\ type[ip[p]] = "file")
  /\ owner' = Unlocked(ip[p])
  /\ PutThen(p, ip[p], "idle") /\ EndCall(p)
  /\ ip' = [ip EXCEPT ![p] = None]
  /\ UNCHANGED <<disk, inum, ref, valid, type, nlink, cur, scan, cwd, fd>>

CreateStart(p) ==
  /\ Creates(p) /\ Child(p) = 0
  /\ scan' = [scan EXCEPT ![p] = 1]
  /\ Goto(p, "ialloc")
  /\ UNCHANGED <<disk, table, call, cur, ip, put, ret, cwd, fd>>

\* ialloc(), one inode at a time.
IallocNext(p) ==
  /\ pc[p] = "ialloc" /\ scan[p] \in Inums /\ dtype[scan[p]] # "free"
  /\ scan' = [scan EXCEPT ![p] = @ + 1]
  /\ UNCHANGED <<disk, table, pc, call, cur, ip, put, ret, cwd, fd>>

IallocFound(p) ==
  /\ pc[p] = "ialloc" /\ scan[p] \in Inums /\ dtype[scan[p]] = "free"
  /\ dtype' = [dtype EXCEPT ![scan[p]] = IF Op(p) = "mkdir" THEN "dir" ELSE "file"]
  /\ dlink' = [dlink EXCEPT ![scan[p]] = 0]
  /\ ents' = [ents EXCEPT ![scan[p]] = NoEnts]
  /\ up' = [up EXCEPT ![scan[p]] = 0]
  /\ Goto(p, "alloced")
  /\ UNCHANGED <<table, call, cur, ip, put, ret, scan, cwd, fd>>

IallocPanic(p) ==
  /\ pc[p] = "ialloc" /\ scan[p] \notin Inums
  /\ Goto(p, "panic")
  /\ UNCHANGED <<disk, table, call, cur, ip, put, ret, scan, cwd, fd>>

IallocIget(p) ==
  /\ pc[p] = "alloced"
  /\ \E s \in Slots : Iget(scan[p], s) /\ ip' = [ip EXCEPT ![p] = s]
  /\ scan' = [scan EXCEPT ![p] = 0]
  /\ Goto(p, "fresh")
  /\ UNCHANGED <<disk, owner, type, nlink, call, cur, put, ret, cwd, fd>>

FirstLinks == 1

\* Both inodes locked: the link counts, the entries, and iunlockput(dp).
Fill(p) ==
  /\ pc[p] = "fill"
  /\ LET d == cur[p]
         s == ip[p]
         more == IF Op(p) = "mkdir" THEN 1 ELSE 0
         n == Head(Elems(p))
     IN /\ nlink' = [nlink EXCEPT ![s] = FirstLinks, ![d] = @ + more]
        /\ dlink' = [Iupdate(inum[s], FirstLinks) EXCEPT ![inum[d]] = nlink[d] + more]
        /\ ents' = [ents EXCEPT ![inum[d]][n] = inum[s]]
        /\ up' = [up EXCEPT ![inum[s]] = IF Op(p) = "mkdir" THEN inum[d] ELSE 0]
        /\ owner' = Unlocked(d)
        /\ PutThen(p, d, "check")
        /\ cur' = [cur EXCEPT ![p] = s]
  /\ ip' = [ip EXCEPT ![p] = None]
  /\ UNCHANGED <<dtype, inum, ref, valid, type, call, scan, cwd, fd>>
-----------------------------------------------------------------------------
(* unlink() and link()                                                     *)

\* unlink() refuses "..", or finds nothing; and the failures of both after an
\* iput() that came before: iunlockput(dp).
BadDir(p) ==
  /\ \/ pc[p] = "bad"
     \/ pc[p] = "change" /\ Op(p) = "unlink" /\ (Head(Elems(p)) = ".." \/ Child(p) = 0)
  /\ owner' = Unlocked(cur[p])
  /\ PutThen(p, cur[p], IF Op(p) = "newname" THEN "undo" ELSE "idle") /\ EndCall(p)
  /\ cur' = [cur EXCEPT ![p] = None]
  /\ UNCHANGED <<disk, inum, ref, valid, type, nlink, ip, scan, cwd, fd>>

UnlinkFinds(p) ==
  /\ pc[p] = "change" /\ Op(p) = "unlink"
  /\ Head(Elems(p)) # ".." /\ Child(p) # 0
  /\ \E s \in Slots : Iget(Child(p), s) /\ ip' = [ip EXCEPT ![p] = s]
  /\ Goto(p, "victim")
  /\ UNCHANGED <<disk, owner, type, nlink, call, cur, put, ret, scan, cwd, fd>>

InUse(p) == type[ip[p]] = "dir" /\ ents[inum[ip[p]]] # NoEnts

UnlinkFails(p) ==
  /\ pc[p] = "remove" /\ InUse(p)
  /\ owner' = Unlocked(ip[p])
  /\ PutThen(p, ip[p], "bad")
  /\ ip' = [ip EXCEPT ![p] = None]
  /\ UNCHANGED <<disk, inum, ref, valid, type, nlink, call, cur, scan, cwd, fd>>

Erase(d, n) == [ents EXCEPT ![d][n] = 0]

\* The entry goes first, and the lock of the directory ...
Unlink(p) ==
  /\ pc[p] = "remove" /\ ~InUse(p)
  /\ LET d == cur[p]
         less == IF type[ip[p]] = "dir" THEN 1 ELSE 0
     IN /\ ents' = Erase(inum[d], Head(Elems(p)))
        /\ nlink' = [nlink EXCEPT ![d] = @ - less]
        /\ dlink' = Iupdate(inum[d], nlink[d] - less)
        /\ owner' = Unlocked(d)
        /\ PutThen(p, d, "unlinked")
  /\ cur' = [cur EXCEPT ![p] = None]
  /\ UNCHANGED <<dtype, up, inum, ref, valid, type, call, ip, scan, cwd, fd>>

\* ... then a link of the inode; likewise what link() has to undo.
DropLink(p) ==
  /\ pc[p] \in {"unlinked", "undoing"}
  /\ nlink' = [nlink EXCEPT ![ip[p]] = @ - 1]
  /\ dlink' = Iupdate(inum[ip[p]], nlink[ip[p]] - 1)
  /\ owner' = Unlocked(ip[p])
  /\ PutThen(p, ip[p], "idle") /\ EndCall(p)
  /\ ip' = [ip EXCEPT ![p] = None]
  /\ UNCHANGED <<dtype, ents, up, inum, ref, valid, type, cur, scan, cwd, fd>>

\* Mutant of AfterCount: link() keeps the lock while it looks up the new name.
AfterCountLocked(s) == IF s \in Slots THEN owner ELSE owner
AfterCount(s) == Unlocked(s)

\* link() has found the file: its link is counted before it is there.
LinkCount(p) ==
  /\ pc[p] = "check" /\ Op(p) = "link" /\ type[cur[p]] # "dir"
  /\ nlink' = [nlink EXCEPT ![cur[p]] = @ + 1]
  /\ dlink' = Iupdate(inum[cur[p]], nlink[cur[p]] + 1)
  /\ owner' = AfterCount(cur[p])
  /\ ip' = [ip EXCEPT ![p] = cur[p]]
  /\ cur' = [cur EXCEPT ![p] = None]
  /\ call' = [call EXCEPT ![p] = [op |-> "newname", path |-> @.new, new |-> NoPath]]
  /\ Goto(p, "start")
  /\ UNCHANGED <<dtype, ents, up, inum, ref, valid, type, put, ret, scan, cwd, fd>>

\* dirlink() finds the new name, and puts the inode it belongs to.
LinkExists(p) ==
  /\ pc[p] = "change" /\ Op(p) = "newname" /\ Child(p) # 0
  /\ \E s \in Slots : Iget(Child(p), s) /\ PutThen(p, s, "bad")
  /\ UNCHANGED <<disk, owner, type, nlink, call, cur, ip, scan, cwd, fd>>

LinkAdd(p) ==
  /\ pc[p] = "change" /\ Op(p) = "newname" /\ Child(p) = 0
  /\ ents' = [ents EXCEPT ![inum[cur[p]]][Head(Elems(p))] = inum[ip[p]]]
  /\ owner' = Unlocked(cur[p])
  /\ PutThen(p, cur[p], "linked")
  /\ cur' = [cur EXCEPT ![p] = None]
  /\ UNCHANGED <<dtype, dlink, up, inum, ref, valid, type, nlink, call, ip, scan, cwd, fd>>

LinkDone(p) ==
  /\ pc[p] = "linked"
  /\ PutThen(p, ip[p], "idle") /\ EndCall(p)
  /\ ip' = [ip EXCEPT ![p] = None]
  /\ UNCHANGED <<disk, table, cur, scan, cwd, fd>>
-----------------------------------------------------------------------------
\* The inode p is about to call iget() for, or 0.
Wanted(p) == CASE pc[p] = "start" /\ call[p].path.abs -> Root
               [] pc[p] = "walk" /\ type[cur[p]] = "dir" /\ ~AtParent(p) -> Child(p)
               [] pc[p] = "change" /\ ~(Op(p) = "unlink" /\ Head(Elems(p)) = "..") -> Child(p)
               [] pc[p] = "alloced" -> scan[p]
               [] OTHER -> 0

IgetPanic(p) ==
  /\ TableFree
  /\ Wanted(p) # 0 /\ Holders(Wanted(p)) = {} /\ Empty = {}
  /\ Goto(p, "igetPanic")
  /\ UNCHANGED <<disk, table, call, cur, ip, put, ret, scan, cwd, fd>>

Iput(p) == IputDrop(p) \/ IputLast(p) \/ IputFree(p) \/ IputUnlock(p)
Namex(p) == NamexStart(p) \/ WalkFails(p) \/ WalkStops(p) \/ WalkOn(p)
Open(p) == OpenDone(p) \/ IunlockPut(p) \/ Chdir(p) \/ Close(p)
Create(p) == \/ CreateFinds(p) \/ Reuse(p) \/ ReuseFails(p) \/ CreateStart(p)
             \/ IallocNext(p) \/ IallocFound(p) \/ IallocPanic(p) \/ IallocIget(p)
             \/ Fill(p)
LinkUnlink(p) == \/ BadDir(p) \/ UnlinkFinds(p) \/ UnlinkFails(p) \/ Unlink(p)
                 \/ DropLink(p) \/ LinkCount(p) \/ LinkExists(p) \/ LinkAdd(p)
                 \/ LinkDone(p)

Next == \E p \in Procs :
          \/ \E c \in Calls[p] : Call(p, c)
          \/ Ilock(p) \/ Iput(p) \/ Namex(p) \/ Open(p) \/ Create(p) \/ LinkUnlink(p)
          \/ IgetPanic(p)

Spec == Init /\ [][Next]_vars
-----------------------------------------------------------------------------
(* Properties                                                              *)

Types == {"free", "file", "dir"}
Pointers == [cwd |-> cwd, fd |-> fd, cur |-> cur, ip |-> ip, put |-> put]
RefsTo(s) == {r \in (DOMAIN Pointers) \X Procs : Pointers[r[1]][r[2]] = s}

\* The types.
TypeOK == /\ dtype \in [Inums -> Types] /\ dlink \in [Inums -> Nat]
          /\ ents \in [Inums -> [Names -> 0..NInodes]] /\ up \in [Inums -> 0..NInodes]
          /\ inum \in [Slots -> 0..NInodes] /\ ref \in [Slots -> Nat]
          /\ owner \in [Slots -> Procs \cup {None}]
          /\ valid \in [Slots -> BOOLEAN] /\ type \in [Slots -> Types]
          /\ nlink \in [Slots -> Nat]
          /\ \A v \in {cur, ip, put, fd} : v \in [Procs -> Slots \cup {None}]
          /\ cwd \in [Procs -> Slots]
          /\ scan \in [Procs -> 0..(NInodes + 1)]

\* No inode has two entries in the table.
OneEntryPerInode == \A s, t \in Slots :
  ref[s] > 0 /\ ref[t] > 0 /\ inum[s] = inum[t] => s = t

\* ref counts the pointers there are to an entry.
RefExact == \A s \in Slots : ref[s] = Cardinality(RefsTo(s))

\* The copy of an inode that nobody has locked is what is on the disk.
WriteThrough == \A s \in Slots :
  ref[s] > 0 /\ valid[s] /\ owner[s] = None =>
    type[s] = dtype[inum[s]] /\ nlink[s] = dlink[inum[s]]

NamesOf(i) == {e \in Inums \X Names : ents[e[1]][e[2]] = i}

\* Whatever has a name is allocated and has a link counted for it.
NamesCounted == \A i \in Inums : NamesOf(i) # {} =>
  dtype[i] # "free" /\ Cardinality(NamesOf(i)) <= dlink[i]

\* iput() never has to wait for the sleep lock it takes with icache.lock held.
IputNeverWaits == \A p \in Procs :
  pc[p] = "iput" /\ LastPut(put[p]) => owner[put[p]] = None

\* An inode is freed only when it has no name, and nobody else a reference.
FreedLast == [][\A i \in Inums : dtype[i] # "free" /\ dtype'[i] = "free" =>
                  NamesOf(i) = {} /\ \E s \in Holders(i) : ref[s] = 1]_vars

\* unlink() takes no directory away that has entries, not even one that is being
\* made: unless the parent has been removed itself.
RemovedEmpty == [][\A d \in Inums, n \in Names :
  ents'[d][n] # ents[d][n] /\ ents[d][n] # 0 /\ dlink[d] > 0 =>
    dtype[ents[d][n]] = "file" \/ ents[ents[d][n]] = NoEnts]_vars

Waits(p, q) == /\ pc[p] \in DOMAIN AfterLock
               /\ owner[LockOf(p)] = q
\* No process waits for itself, nor do two wait for each other.
NoWaitCycle == \A p, q \in Procs : ~(Waits(p, q) /\ Waits(q, p))

\* ilock() never meets an inode that has been freed, nor unlink() a file
\* without links.
NoStaleInode == \A p \in Procs :
  /\ pc[p] \in DOMAIN AfterLock /\ owner[LockOf(p)] = None /\ ~valid[LockOf(p)] =>
       dtype[inum[LockOf(p)]] # "free"
  /\ pc[p] = "remove" => nlink[ip[p]] >= 1

\* The table, the disk and the pointers of all processes agree, whatever calls
\* are under way: one entry and exact counts for an inode in use, a copy that is
\* that of the disk, names that are counted, nothing stale behind them.
FsSound == TypeOK /\ OneEntryPerInode /\ RefExact /\ WriteThrough /\ NamesCounted /\ NoStaleInode

\* The sleep locks of inodes never make processes wait for each other, nor
\* iput() with icache.lock held.
LocksOrdered == IputNeverWaits /\ NoWaitCycle

\* Inodes are freed, and directories removed, only when nobody needs them.
RemovedRight == FreedLast /\ RemovedEmpty
=============================================================================
