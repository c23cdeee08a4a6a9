---------------------------- MODULE Inode_proof ----------------------------
(***************************************************************************)
(* Proofs about Inode, for any number of processes, names, inodes and      *)
(* entries of the table, and any system calls.                             *)
(***************************************************************************)
EXTENDS Inode, FiniteSetTheorems, TLAPS

(* What the proofs need beside the properties of Inode.                    *)

\* While a process drops a reference it is on its way to ret.
Putting == {"iput", "free", "freed", "drop"}
Stage(p) == IF pc[p] \in Putting THEN ret[p] ELSE pc[p]
Rets == {"idle", "namei", "found", "exists", "check", "unlinked", "bad", "undo", "linked"}

Elements == Names \cup {".."}
AnyPath == [abs : BOOLEAN, elems : Seq(Elements)]
Ops == {"none", "open", "create", "mkdir", "link", "unlink", "chdir", "newname"}
CallOK(p) == /\ call[p] \in [op : Ops, path : AnyPath, new : AnyPath]
             /\ Op(p) = "link" => call[p].new.elems # <<>>
Typed == /\ TypeOK
         /\ DOMAIN pc = Procs /\ DOMAIN ret = Procs /\ DOMAIN call = Procs
         /\ \A p \in Procs : CallOK(p)

\* At which stages a process has a directory or an inode in hand, and which of
\* them it has locked.
Looking == {"start", "namei", "walk"}
AtEnd == {"parent", "change", "ialloc", "alloced", "fresh", "fill", "victim", "remove"}
WithCur == AtEnd \cup {"namei", "walk", "found", "check", "bad", "panic"}
WithIp == {"exists", "reuse", "fresh", "fill", "victim", "remove", "unlinked", "undo", "undoing", "linked"}
Renaming == {"start", "namei", "walk", "parent", "change", "bad", "linked", "igetPanic"}
LockCur == {"walk", "change", "check", "ialloc", "alloced", "fresh", "fill", "victim", "remove", "bad", "panic"}
LockIp == {"reuse", "fill", "remove", "undoing", "unlinked"}
Shape(p) ==
  /\ pc[p] \in Putting => ret[p] \in Rets
  /\ put[p] # None <=> pc[p] \in Putting
  /\ Stage(p) # "igetPanic" => (cur[p] # None <=> Stage(p) \in WithCur)
  /\ ip[p] # None <=> Stage(p) \in WithIp \/ Op(p) = "newname"
  /\ Op(p) = "newname" => Stage(p) \in Renaming
  /\ Op(p) = "none" <=> Stage(p) \in {"idle", "undo", "undoing"}
  /\ Stage(p) \in Looking => Elems(p) # <<>>
  /\ Stage(p) \in AtEnd => Len(Elems(p)) = 1
  /\ Op(p) \in {"open", "create"} => fd[p] = None
  /\ Stage(p) = "alloced" => scan[p] \in Inums
Locks(p, s) == \/ s = cur[p] /\ Stage(p) \in LockCur
               \/ s = ip[p] /\ Stage(p) \in LockIp
               \/ s = put[p] /\ pc[p] \in {"free", "freed"}
Owners == \A s \in Slots, p \in Procs :
  /\ Locks(p, s) => owner[s] = p
  /\ owner[s] = p => Locks(p, s) \/ (pc[p] = "igetPanic" /\ cur[p] = s)
\* Whoever has locked an inode has read it.
Loaded == \A s \in Slots, p \in Procs : Locks(p, s) => valid[s]

\* The pointers of a process, by their kind.
Kinds == {"cwd", "fd", "cur", "ip", "put"}
At(k, p) == IF k = "cwd" THEN cwd[p] ELSE IF k = "fd" THEN fd[p] ELSE IF k = "cur" THEN cur[p]
            ELSE IF k = "ip" THEN ip[p] ELSE put[p]
Inode(k, p) == inum[At(k, p)]

\* An inode behind a pointer is allocated and, if a directory, has a parent:
\* unless the pointer is what is left of freeing it, or the inode is being made.
Dead(k, p) == k = "put" /\ pc[p] \in {"freed", "drop"}
Fresh(k, p) == k = "ip" /\ pc[p] \in {"fresh", "fill"}
Settled(i) == dtype[i] # "free" /\ (dtype[i] = "dir" => up[i] \in Inums)
Alive == \A k \in Kinds, p \in Procs :
  At(k, p) # None /\ ~Dead(k, p) /\ ~Fresh(k, p) => Settled(Inode(k, p))

\* An inode that is being made is known to its maker alone.
Making(p) == IF pc[p] = "alloced" THEN scan[p] ELSE IF pc[p] \in {"fresh", "fill"} THEN inum[ip[p]] ELSE 0
Private(p, i) ==
  /\ dtype[i] = (IF Op(p) = "mkdir" THEN "dir" ELSE "file")
  /\ dlink[i] = 0 /\ ents[i] = NoEnts
  /\ \A k \in Kinds, q \in Procs : At(k, q) # None /\ Inode(k, q) = i => Dead(k, q) \/ (k = "ip" /\ q = p)
  /\ \A q \in Procs \ {p} : Making(q) # i
Privates == \A p \in Procs : Making(p) # 0 => Private(p, Making(p))

\* The table's copy of an inode is the disk's, except while it is being freed.
InTable == \A s \in Slots : ref[s] > 0 => inum[s] \in Inums
Freeing(s) == \E p \in Procs : pc[p] = "freed" /\ put[p] = s
Copies == \A s \in Slots : ref[s] > 0 /\ valid[s] =>
  /\ nlink[s] = dlink[inum[s]]
  /\ Freeing(s) \/ (type[s] = dtype[inum[s]] /\ type[s] # "free")
Freers == \A p \in Procs :
  /\ pc[p] = "free" => ref[put[p]] = 1 /\ valid[put[p]] /\ nlink[put[p]] = 0
  /\ pc[p] = "freed" => valid[put[p]] /\ nlink[put[p]] = 0 /\ put[p] \notin {cur[p], ip[p]}

\* The link count covers names, the ".." of directories in it, and what unlink()
\* and link() have still to take off; and the root's own.
Subdirs(i) == {n \in Names : ents[i][n] # 0 /\ dtype[ents[i][n]] = "dir"}
Owes(p) == Stage(p) \in {"undo", "undoing", "unlinked"} \/ (Op(p) = "newname" /\ Stage(p) # "linked")
Pending(i) == {p \in Procs : Owes(p) /\ inum[ip[p]] = i}
Least(i) == Cardinality(NamesOf(i)) + Cardinality(Subdirs(i)) + Cardinality(Pending(i))
            + (IF i = Root THEN 1 ELSE 0)
Counted == \A i \in Inums : dlink[i] >= Least(i)

\* Only directories have entries; one that has a name has its ".." there, and
\* none leads back where it is.
Entries == \A d \in Inums, n \in Names : ents[d][n] # 0 =>
  /\ dtype[d] = "dir" /\ up[d] \in Inums /\ dtype[ents[d][n]] # "free"
  /\ dtype[ents[d][n]] = "dir" => up[ents[d][n]] = d /\ \A m \in Names : ents[ents[d][n]][m] # d
RootStays == dtype[Root] = "dir" /\ up[Root] = Root

\* What was seen in a directory holds as long as its lock is kept.
Stays(p) ==
  /\ Stage(p) \in AtEnd => dtype[inum[cur[p]]] = "dir"
  /\ pc[p] \in {"ialloc", "alloced", "fresh", "fill"} => Head(Elems(p)) # ".." /\ Child(p) = 0
  /\ pc[p] \in {"victim", "remove"} => Head(Elems(p)) # ".." /\ Child(p) = inum[ip[p]]
  /\ Op(p) = "newname" => dtype[inum[ip[p]]] = "file"

IInv == /\ Typed /\ (\A p \in Procs : Shape(p)) /\ Owners /\ Loaded
        /\ RefExact /\ InTable /\ OneEntryPerInode
        /\ Alive /\ Privates /\ Copies /\ Freers
        /\ Counted /\ Entries /\ RootStays /\ (\A p \in Procs : Stays(p))

\* Where the proofs end: ".." of a directory that has been removed may lead to
\* an inode that is free, or another one, by then (fs.c: namex; sysfile.c:
\* create, sys_link).  No lookup does that in the behaviours they are about.
GoesUp(p) == pc[p] \in {"walk", "change"} /\ Wanted(p) # 0 /\ Head(Elems(p)) = ".."
NoneAstray == \A p \in Procs :
  GoesUp(p) => inum[cur[p]] = Root \/ NamesOf(inum[cur[p]]) # {}
-----------------------------------------------------------------------------
(* Pointers and their number.                                              *)

Places == Kinds \X Procs
Ptrs == [r \in Places |-> At(r[1], r[2])]
Uses(P, s) == {r \in Places : P[r] = s}

\* There are finitely many pointers.
LEMMA PlacesFinite == IsFiniteSet(Places) /\ \A P, s : IsFiniteSet(Uses(P, s)) /\ Cardinality(Uses(P, s)) \in Nat
<1>1. IsFiniteSet(Kinds)
  <2>1. Kinds = ((({"cwd"} \cup {"fd"}) \cup {"cur"}) \cup {"ip"}) \cup {"put"}
    BY DEF Kinds
  <2>2. IsFiniteSet({"cwd"})
    BY FS_Singleton, Zenon
  <2>3. IsFiniteSet({"cwd"} \cup {"fd"})
    BY <2>2, FS_AddElement, Zenon
  <2>4. IsFiniteSet(({"cwd"} \cup {"fd"}) \cup {"cur"})
    BY <2>3, FS_AddElement, Zenon
  <2>5. IsFiniteSet((({"cwd"} \cup {"fd"}) \cup {"cur"}) \cup {"ip"})
    BY <2>4, FS_AddElement, Zenon
  <2> QED
    BY <2>1, <2>5, FS_AddElement, Zenon
<1>2. IsFiniteSet(Places)
  BY <1>1, ProcsAssumption, FS_Product DEF Places
<1>3. ASSUME NEW P, NEW s PROVE IsFiniteSet(Uses(P, s)) /\ Cardinality(Uses(P, s)) \in Nat
  <2>1. Uses(P, s) \in SUBSET Places
    BY DEF Uses
  <2>2. IsFiniteSet(Uses(P, s))
    BY <1>2, <2>1, FS_Subset
  <2> QED
    BY <2>2, FS_CardinalityType
<1> QED
  BY <1>2, <1>3

\* ref[s] counts what leads to s.
LEMMA RefsAreUses == /\ \A s : RefsTo(s) = Uses(Ptrs, s)
                     /\ \A s : RefsTo(s)' = Uses(Ptrs', s)
<1>1. ASSUME NEW s PROVE RefsTo(s) = Uses(Ptrs, s)
  BY DEF RefsTo, Pointers, Uses, Ptrs, Places, Kinds, At
<1>2. ASSUME NEW s PROVE RefsTo(s)' = Uses(Ptrs', s)
  BY DEF RefsTo, Pointers, Uses, Ptrs, Places, Kinds, At
<1> QED
  BY <1>1, <1>2

\* f says where each of a process's pointers goes.
Permutes(f) == /\ f \in [Kinds -> Kinds]
               /\ \A a, b \in Kinds : f[a] = f[b] => a = b
               /\ \A b \in Kinds : \E a \in Kinds : f[a] = b

\* Moving the pointers of one process about leaves the numbers as they are.
LEMMA Shuffled ==
  ASSUME NEW p \in Procs, NEW f, Permutes(f), NEW P, NEW Q, NEW s,
         \A k \in Kinds : Q[<<f[k], p>>] = P[<<k, p>>],
         \A k \in Kinds, q \in Procs \ {p} : Q[<<k, q>>] = P[<<k, q>>]
  PROVE  Cardinality(Uses(Q, s)) = Cardinality(Uses(P, s))
<1> DEFINE move == [r \in Uses(P, s) |-> <<IF r[2] = p THEN f[r[1]] ELSE r[1], r[2]>>]
<1>1. \A r \in Uses(P, s) : move[r] \in Uses(Q, s)
  BY DEF Uses, Places, Permutes
<1>2. \A r, t \in Uses(P, s) : move[r] = move[t] => r = t
  BY DEF Uses, Places, Permutes
<1>3. ASSUME NEW t \in Uses(Q, s) PROVE \E r \in Uses(P, s) : move[r] = t
  <2>1. CASE t[2] = p
    <3>1. PICK a \in Kinds : f[a] = t[1]
      BY DEF Uses, Places, Permutes
    <3>2. <<a, p>> \in Uses(P, s) /\ move[<<a, p>>] = t
      BY <2>1, <3>1 DEF Uses, Places
    <3> QED
      BY <3>2
  <2>2. CASE t[2] # p
    <3>1. t \in Uses(P, s) /\ move[t] = t
      BY <2>2 DEF Uses, Places
    <3> QED
      BY <3>1
  <2> QED
    BY <2>1, <2>2
<1>4. move \in Bijection(Uses(P, s), Uses(Q, s))
  <2>1. move \in [Uses(P, s) -> Uses(Q, s)]
    BY <1>1
  <2> HIDE DEF move
  <2>2. move \in Injection(Uses(P, s), Uses(Q, s))
    BY <2>1, <1>2 DEF Injection, IsInjective
  <2>3. move \in Surjection(Uses(P, s), Uses(Q, s))
    BY <2>1, <1>3 DEF Surjection
  <2> QED
    BY <2>2, <2>3 DEF Bijection
<1> HIDE DEF move
<1> QED
  BY <1>4, PlacesFinite, FS_Bijection DEF ExistsBijection

\* What the other processes keep: everything that is theirs.
Frame(p) == \A q \in Procs \ {p} :
  /\ pc'[q] = pc[q] /\ ret'[q] = ret[q] /\ call'[q] = call[q] /\ scan'[q] = scan[q]
  /\ \A k \in Kinds : At(k, q)' = At(k, q)
\* p moves its pointers as f says, and one that was free now leads to s.
Moves(p, f) == Permutes(f) /\ \A k \in Kinds : At(f[k], p)' = At(k, p)
Takes(p, f, b, s) == /\ Permutes(f) /\ b \in Kinds
                     /\ \A k \in Kinds : IF f[k] = b THEN At(k, p) = None /\ At(b, p)' = s
                                         ELSE At(f[k], p)' = At(k, p)

LEMMA MovesCount ==
  ASSUME NEW p \in Procs, NEW f, Frame(p), Moves(p, f), NEW s
  PROVE  Cardinality(RefsTo(s))' = Cardinality(RefsTo(s))
<1>1. \A k \in Kinds : Ptrs'[<<f[k], p>>] = Ptrs[<<k, p>>]
  BY DEF Moves, Ptrs, Places, Permutes
<1>2. \A k \in Kinds, q \in Procs \ {p} : Ptrs'[<<k, q>>] = Ptrs[<<k, q>>]
  BY DEF Frame, Ptrs, Places
<1>3. Permutes(f)
  BY DEF Moves
<1>4. Cardinality(Uses(Ptrs', s)) = Cardinality(Uses(Ptrs, s))
  BY <1>1, <1>2, <1>3, Shuffled
<1> QED
  BY <1>4, RefsAreUses

LEMMA TakesCount ==
  ASSUME NEW p \in Procs, NEW f, NEW b, NEW s, s # None, Frame(p), Takes(p, f, b, s), NEW t, t # None
  PROVE  Cardinality(RefsTo(t))' = Cardinality(RefsTo(t)) + (IF t = s THEN 1 ELSE 0)
<1> DEFINE Q == [r \in Places |-> IF r = <<b, p>> THEN None ELSE Ptrs'[r]]
<1>1. \A k \in Kinds : Q[<<f[k], p>>] = Ptrs[<<k, p>>]
  BY DEF Takes, Ptrs, Places, Permutes
<1>2. \A k \in Kinds, q \in Procs \ {p} : Q[<<k, q>>] = Ptrs[<<k, q>>]
  BY DEF Frame, Ptrs, Places
<1>3. Permutes(f)
  BY DEF Takes
<1>4. Q \in [Places -> {Q[r] : r \in Places}] /\ <<b, p>> \in Places
  BY DEF Takes, Places
<1>5. Ptrs'[<<b, p>>] = s
  BY DEF Takes, Permutes, Ptrs, Places
<1>6. Uses(Ptrs', t) = IF t = s THEN Uses(Q, t) \cup {<<b, p>>} ELSE Uses(Q, t)
  BY <1>4, <1>5 DEF Uses
<1>7. <<b, p>> \notin Uses(Q, t)
  BY <1>4 DEF Uses
<1> HIDE DEF Q
<1>8. Cardinality(Uses(Q, t)) = Cardinality(Uses(Ptrs, t))
  BY <1>1, <1>2, <1>3, Shuffled
<1>9. Cardinality(Uses(Q, t) \cup {<<b, p>>}) = Cardinality(Uses(Q, t)) + 1
  BY <1>7, PlacesFinite, FS_AddElement
<1> QED
  BY <1>6, <1>8, <1>9, RefsAreUses, PlacesFinite

LEMMA DropCount ==
  ASSUME NEW p \in Procs, Frame(p), At("put", p)' = None, \A k \in Kinds \ {"put"} : At(k, p)' = At(k, p),
         NEW t, t # None
  PROVE  Cardinality(RefsTo(t))' = Cardinality(RefsTo(t)) - (IF t = put[p] THEN 1 ELSE 0)
<1>1. <<"put", p>> \in Places
  BY DEF Places, Kinds
<1>2. Ptrs'[<<"put", p>>] = None /\ Ptrs[<<"put", p>>] = put[p]
  BY <1>1 DEF Ptrs, At
<1>3. \A r \in Places : r # <<"put", p>> => Ptrs'[r] = Ptrs[r]
  BY DEF Ptrs, Places, Frame
<1>4. Uses(Ptrs', t) = IF t = put[p] THEN Uses(Ptrs, t) \ {<<"put", p>>} ELSE Uses(Ptrs, t)
  BY <1>1, <1>2, <1>3 DEF Uses
<1>5. t = put[p] => <<"put", p>> \in Uses(Ptrs, t)
  BY <1>1, <1>2 DEF Uses
<1>6. t = put[p] => Cardinality(Uses(Ptrs, t) \ {<<"put", p>>}) = Cardinality(Uses(Ptrs, t)) - 1
  BY <1>5, PlacesFinite, FS_RemoveElement
<1> QED
  BY <1>4, <1>6, RefsAreUses, PlacesFinite

\* An entry that something leads to is counted once for each.
LEMMA HeldOnce ==
  ASSUME RefExact, NEW k \in Kinds, NEW p \in Procs, At(k, p) \in Slots
  PROVE  ref[At(k, p)] \in Nat \ {0}
<1>1. <<k, p>> \in Uses(Ptrs, At(k, p))
  BY DEF Uses, Ptrs, Places
<1>2. Cardinality(Uses(Ptrs, At(k, p))) # 0
  BY <1>1, PlacesFinite, FS_EmptySet
<1> QED
  BY <1>2, PlacesFinite, RefsAreUses DEF RefExact

LEMMA HeldTwice ==
  ASSUME RefExact, NEW k \in Kinds, NEW p \in Procs, NEW l \in Kinds, NEW q \in Procs,
         At(k, p) \in Slots, At(l, q) = At(k, p), k # l \/ p # q
  PROVE  ref[At(k, p)] # 1
<1> DEFINE s == At(k, p)
           U == Uses(Ptrs, s)
<1>1. <<k, p>> \in U /\ <<l, q>> \in U
  BY DEF Uses, Ptrs, Places
<1>2. \A x : U # {x}
  BY <1>1
<1>3. Cardinality(U) # 1
  BY <1>2, PlacesFinite, FS_Singleton
<1> QED
  BY <1>3, RefsAreUses DEF RefExact
-----------------------------------------------------------------------------
(* What one process's step leaves alone.                                   *)

LEMMA FrameSame ==
  ASSUME NEW p \in Procs, Frame(p), NEW q \in Procs \ {p}
  PROVE  /\ cwd'[q] = cwd[q] /\ fd'[q] = fd[q] /\ cur'[q] = cur[q] /\ ip'[q] = ip[q] /\ put'[q] = put[q]
         /\ pc'[q] = pc[q] /\ ret'[q] = ret[q] /\ call'[q] = call[q] /\ scan'[q] = scan[q]
         /\ Stage(q)' = Stage(q) /\ Op(q)' = Op(q) /\ Elems(q)' = Elems(q)
         /\ (Owes(q)' <=> Owes(q)) /\ (Shape(q)' <=> Shape(q)) /\ (CallOK(q)' <=> CallOK(q))
         /\ \A t : Locks(q, t)' <=> Locks(q, t)
         /\ \A k \in Kinds : /\ At(k, q)' = At(k, q)
                             /\ (Dead(k, q)' <=> Dead(k, q)) /\ (Fresh(k, q)' <=> Fresh(k, q))
<1>1. /\ cwd'[q] = cwd[q] /\ fd'[q] = fd[q] /\ cur'[q] = cur[q] /\ ip'[q] = ip[q] /\ put'[q] = put[q]
      /\ pc'[q] = pc[q] /\ ret'[q] = ret[q] /\ call'[q] = call[q] /\ scan'[q] = scan[q]
      /\ \A k \in Kinds : At(k, q)' = At(k, q)
  <2>1. {"cwd", "fd", "cur", "ip", "put"} \subseteq Kinds
    BY DEF Kinds
  <2> QED
    BY <2>1 DEF Frame, At
<1>2. Stage(q)' = Stage(q) /\ Op(q)' = Op(q) /\ Elems(q)' = Elems(q)
  BY <1>1 DEF Stage, Op, Elems
<1>3. (Owes(q)' <=> Owes(q)) /\ (CallOK(q)' <=> CallOK(q))
  BY <1>1, <1>2 DEF Owes, CallOK
<1>4. Shape(q)' <=> Shape(q)
  BY <1>1, <1>2 DEF Shape
<1>5. \A t : Locks(q, t)' <=> Locks(q, t)
  BY <1>1, <1>2 DEF Locks
<1>6. \A k \in Kinds : (Dead(k, q)' <=> Dead(k, q)) /\ (Fresh(k, q)' <=> Fresh(k, q))
  BY <1>1 DEF Dead, Fresh
<1> QED
  BY <1>1, <1>2, <1>3, <1>4, <1>5, <1>6

LEMMA ShapeStep ==
  ASSUME \A q \in Procs : Shape(q), NEW p \in Procs, Frame(p), Shape(p)'
  PROVE  \A q \in Procs : Shape(q)'
<1> SUFFICES ASSUME NEW q \in Procs, q # p PROVE Shape(q)'
  OBVIOUS
<1> QED
  BY FrameSame

\* A pointer leads to an entry of the table.
LEMMA PointersTyped ==
  ASSUME Typed, NEW k \in Kinds, NEW p \in Procs
  PROVE  At(k, p) \in Slots \cup {None}
BY DEF Typed, TypeOK, At, Kinds

\* Only p takes a lock, or gives one up.
LEMMA OwnersStep ==
  ASSUME Owners, NEW p \in Procs, Frame(p), None \notin Procs,
         \A t \in Slots : owner'[t] = owner[t] \/ {owner[t], owner'[t]} \subseteq {p, None},
         \A t \in Slots : Locks(p, t)' => owner'[t] = p,
         \A t \in Slots : owner'[t] = p => Locks(p, t)' \/ (pc'[p] = "igetPanic" /\ cur'[p] = t)
  PROVE  Owners'
<1> SUFFICES ASSUME NEW t \in Slots, NEW q \in Procs
             PROVE  /\ Locks(q, t)' => owner'[t] = q
                    /\ owner'[t] = q => Locks(q, t)' \/ (pc'[q] = "igetPanic" /\ cur'[q] = t)
  BY DEF Owners
<1>1. CASE q = p
  BY <1>1
<1>2. CASE q # p
  <2>1. (Locks(q, t)' <=> Locks(q, t)) /\ pc'[q] = pc[q] /\ cur'[q] = cur[q]
    BY <1>2, FrameSame
  <2>2. owner'[t] = q <=> owner[t] = q
    BY <1>2
  <2> QED
    BY <2>1, <2>2 DEF Owners
<1> QED
  BY <1>1, <1>2

\* Every pointer of another process leads where it led.
KeepsNodes(p) == \A q \in Procs \ {p}, k \in Kinds :
  At(k, q) # None => inum'[At(k, q)] = inum[At(k, q)]

LEMMA MakingSame ==
  ASSUME \A q \in Procs : Shape(q), NEW p \in Procs, Frame(p), KeepsNodes(p), NEW q \in Procs \ {p}
  PROVE  Making(q)' = Making(q)
<1>1. pc'[q] = pc[q] /\ ip'[q] = ip[q] /\ scan'[q] = scan[q]
  BY FrameSame
<1>2. CASE pc[q] \in {"fresh", "fill"}
  <2>1. At("ip", q) = ip[q] /\ "ip" \in Kinds
    BY DEF At, Kinds
  <2>2. ip[q] # None
    BY <1>2 DEF Shape, Stage, Putting, WithIp
  <2>3. inum'[ip[q]] = inum[ip[q]]
    BY <2>1, <2>2 DEF KeepsNodes
  <2> QED
    BY <1>1, <1>2, <2>3 DEF Making
<1>3. CASE pc[q] \notin {"fresh", "fill"}
  BY <1>1, <1>3 DEF Making
<1> QED
  BY <1>2, <1>3

\* What has been settled stays so for the others, and is so for p.
LEMMA AliveStep ==
  ASSUME Alive, NEW p \in Procs, Frame(p), KeepsNodes(p),
         \A q \in Procs \ {p}, k \in Kinds : \A i \in {Inode(k, q)} :
           At(k, q) # None /\ ~Dead(k, q) /\ Settled(i) => Settled(i)',
         \A k \in Kinds : At(k, p)' # None /\ ~Dead(k, p)' /\ ~Fresh(k, p)' => Settled(Inode(k, p))'
  PROVE  Alive'
<1> SUFFICES ASSUME NEW k \in Kinds, NEW q \in Procs, q # p,
                    At(k, q)' # None, ~Dead(k, q)', ~Fresh(k, q)'
             PROVE  Settled(Inode(k, q))'
  BY DEF Alive
<1>1. At(k, q)' = At(k, q) /\ ~Dead(k, q) /\ ~Fresh(k, q)
  BY FrameSame
<1>2. Inode(k, q)' = Inode(k, q)
  BY <1>1 DEF Inode, KeepsNodes
<1>3. Settled(Inode(k, q))
  BY <1>1 DEF Alive
<1> DEFINE i == Inode(k, q)
<1>4. \A j \in {i} : Settled(j) => Settled(j)'
  BY <1>1
<1>5. dtype'[i] # "free" /\ (dtype'[i] = "dir" => up'[i] \in Inums)
  BY <1>3, <1>4 DEF Settled
<1> QED
  BY <1>2, <1>5 DEF Settled

\* What others make stays private, and so does what p makes.
LEMMA PrivatesStep ==
  ASSUME Privates, \A q \in Procs : Shape(q), NEW p \in Procs, Frame(p), KeepsNodes(p),
         \A q \in Procs \ {p} : \A i \in {Making(q)} : i # 0 =>
           /\ dtype'[i] = dtype[i] /\ dlink'[i] = dlink[i] /\ ents'[i] = ents[i]
           /\ Making(p)' # i
           /\ \A k \in Kinds : At(k, p)' # None /\ Inode(k, p)' = i => Dead(k, p)',
         \A i \in {Making(p)'} : i # 0 => Private(p, i)'
  PROVE  Privates'
<1> SUFFICES ASSUME NEW q \in Procs, q # p, NEW i, i = Making(q)', i # 0 PROVE Private(q, i)'
  BY DEF Privates
<1>1. i = Making(q)
  BY MakingSame
<1>2. Private(q, i)
  BY <1>1 DEF Privates
<1>3. dtype'[i] = dtype[i] /\ dlink'[i] = dlink[i] /\ ents'[i] = ents[i] /\ Op(q)' = Op(q)
  BY <1>1, FrameSame
<1>4. ASSUME NEW k \in Kinds, NEW r \in Procs, At(k, r)' # None, Inode(k, r)' = i
      PROVE  Dead(k, r)' \/ (k = "ip" /\ r = q)
  <2>1. CASE r = p
    BY <2>1, <1>1, <1>4
  <2>2. CASE r # p
    <3>1. At(k, r)' = At(k, r) /\ (Dead(k, r)' <=> Dead(k, r))
      BY <2>2, FrameSame
    <3>2. Inode(k, r) = i
      BY <1>4, <2>2, <3>1 DEF Inode, KeepsNodes
    <3> QED
      BY <1>2, <1>4, <3>1, <3>2 DEF Private
  <2> QED
    BY <2>1, <2>2
<1>5. ASSUME NEW r \in Procs \ {q} PROVE Making(r)' # i
  <2>1. CASE r = p
    BY <2>1, <1>1
  <2>2. CASE r # p
    BY <2>2, <1>2, MakingSame DEF Private
  <2> QED
    BY <2>1, <2>2
<1>6. ents'[i] = NoEnts' /\ dlink'[i] = 0
  BY <1>2, <1>3 DEF Private, NoEnts
<1>7. dtype'[i] = (IF Op(q)' = "mkdir" THEN "dir" ELSE "file")
  BY <1>2, <1>3 DEF Private
<1> QED
  BY <1>4, <1>5, <1>6, <1>7 DEF Private

LEMMA FreersStep ==
  ASSUME Freers, NEW p \in Procs, Frame(p),
         \A q \in Procs \ {p} : /\ pc[q] = "free" => ref'[put[q]] = ref[put[q]]
                                /\ pc[q] \in {"free", "freed"} => /\ valid'[put[q]] = valid[put[q]]
                                                                 /\ nlink'[put[q]] = nlink[put[q]],
         pc'[p] = "free" => ref'[put'[p]] = 1 /\ valid'[put'[p]] /\ nlink'[put'[p]] = 0,
         pc'[p] = "freed" => valid'[put'[p]] /\ nlink'[put'[p]] = 0 /\ put'[p] \notin {cur'[p], ip'[p]}
  PROVE  Freers'
<1> SUFFICES ASSUME NEW q \in Procs, q # p
             PROVE  /\ pc'[q] = "free" => ref'[put'[q]] = 1 /\ valid'[put'[q]] /\ nlink'[put'[q]] = 0
                    /\ pc'[q] = "freed" => valid'[put'[q]] /\ nlink'[put'[q]] = 0 /\ put'[q] \notin {cur'[q], ip'[q]}
  BY DEF Freers
<1>1. pc'[q] = pc[q] /\ put'[q] = put[q] /\ cur'[q] = cur[q] /\ ip'[q] = ip[q]
  BY FrameSame
<1> QED
  BY <1>1 DEF Freers

\* What others have seen in a directory is still there.
LEMMA StaysStep ==
  ASSUME \A q \in Procs : Stays(q) /\ Shape(q), NEW p \in Procs, Frame(p), KeepsNodes(p),
         \A q \in Procs \ {p} : \A i \in {inum[cur[q]]} :
           /\ Stage(q) \in AtEnd => dtype'[i] = dtype[i]
           /\ pc[q] \in {"ialloc", "alloced", "fresh", "fill", "victim", "remove"} => ents'[i] = ents[i],
         \A q \in Procs \ {p} : \A i \in {inum[ip[q]]} : Op(q) = "newname" => dtype'[i] = dtype[i],
         Stays(p)'
  PROVE  \A q \in Procs : Stays(q)'
<1> SUFFICES ASSUME NEW q \in Procs, q # p PROVE Stays(q)'
  OBVIOUS
<1> DEFINE late == {"ialloc", "alloced", "fresh", "fill", "victim", "remove"}
<1>1. /\ pc'[q] = pc[q] /\ cur'[q] = cur[q] /\ ip'[q] = ip[q]
      /\ Stage(q)' = Stage(q) /\ Op(q)' = Op(q) /\ Elems(q)' = Elems(q)
  BY FrameSame
<1>2. At("cur", q) = cur[q] /\ At("ip", q) = ip[q] /\ {"cur", "ip"} \subseteq Kinds
  BY DEF At, Kinds
<1>3. /\ cur[q] # None => inum'[cur[q]] = inum[cur[q]]
      /\ ip[q] # None => inum'[ip[q]] = inum[ip[q]]
  BY <1>2 DEF KeepsNodes
<1>4. /\ Stage(q) \in AtEnd => cur[q] # None
      /\ pc[q] \in late => Stage(q) \in AtEnd
      /\ pc[q] \in {"victim", "remove"} => ip[q] # None
      /\ Op(q) = "newname" => ip[q] # None
  BY DEF Shape, Stage, Putting, AtEnd, WithCur, WithIp
<1>5. Stage(q) \in AtEnd => dtype'[inum'[cur'[q]]] = dtype[inum[cur[q]]]
  BY <1>1, <1>3, <1>4
<1>6. pc[q] \in late /\ Head(Elems(q)) # ".." => Child(q)' = Child(q)
  BY <1>1, <1>3, <1>4 DEF Child
<1>7. Op(q) = "newname" => dtype'[inum'[ip'[q]]] = dtype[inum[ip[q]]]
  BY <1>1, <1>3, <1>4
<1>8. Stays(q)
  OBVIOUS
<1>9. Stage(q)' \in AtEnd => dtype'[inum'[cur'[q]]] = "dir"
  BY <1>1, <1>5, <1>8 DEF Stays
<1>10. /\ pc'[q] \in {"ialloc", "alloced", "fresh", "fill"} => Head(Elems(q)') # ".." /\ Child(q)' = 0
       /\ pc'[q] \in {"victim", "remove"} => Head(Elems(q)') # ".." /\ Child(q)' = inum'[ip'[q]]
  BY <1>1, <1>3, <1>4, <1>6, <1>8 DEF Stays
<1>11. Op(q)' = "newname" => dtype'[inum'[ip'[q]]] = "file"
  BY <1>1, <1>7, <1>8 DEF Stays
<1> QED
  BY <1>9, <1>10, <1>11 DEF Stays
-----------------------------------------------------------------------------
(* Counting links.                                                         *)

LEMMA LinksFinite ==
  /\ \A i : /\ IsFiniteSet(NamesOf(i)) /\ Cardinality(NamesOf(i)) \in Nat
            /\ IsFiniteSet(Subdirs(i)) /\ Cardinality(Subdirs(i)) \in Nat
            /\ IsFiniteSet(Pending(i)) /\ Cardinality(Pending(i)) \in Nat
            /\ Least(i) \in Nat
  /\ \A i : /\ IsFiniteSet(NamesOf(i)') /\ Cardinality(NamesOf(i)') \in Nat
            /\ IsFiniteSet(Subdirs(i)') /\ Cardinality(Subdirs(i)') \in Nat
            /\ IsFiniteSet(Pending(i)') /\ Cardinality(Pending(i)') \in Nat
            /\ Least(i)' \in Nat
<1>1. IsFiniteSet(Inums \X Names)
  <2>1. 1 \in Int /\ NInodes \in Int
    BY SizeAssumption
  <2>2. IsFiniteSet(Inums)
    BY <2>1, FS_Interval, Zenon DEF Inums
  <2> QED
    BY <2>2, NamesAssumption, FS_Product
<1>2. \A i : NamesOf(i) \in SUBSET (Inums \X Names) /\ NamesOf(i)' \in SUBSET (Inums \X Names)
  BY DEF NamesOf
<1>3. \A i : Subdirs(i) \in SUBSET Names /\ Subdirs(i)' \in SUBSET Names
  BY DEF Subdirs
<1>4. \A i : Pending(i) \in SUBSET Procs /\ Pending(i)' \in SUBSET Procs
  BY DEF Pending
<1>5. \A i : /\ IsFiniteSet(NamesOf(i)) /\ IsFiniteSet(Subdirs(i)) /\ IsFiniteSet(Pending(i))
             /\ IsFiniteSet(NamesOf(i)') /\ IsFiniteSet(Subdirs(i)') /\ IsFiniteSet(Pending(i)')
  BY <1>1, <1>2, <1>3, <1>4, FS_Subset, ProcsAssumption, NamesAssumption
<1>6. \A i : /\ Cardinality(NamesOf(i)) \in Nat /\ Cardinality(Subdirs(i)) \in Nat /\ Cardinality(Pending(i)) \in Nat
             /\ Cardinality(NamesOf(i)') \in Nat /\ Cardinality(Subdirs(i)') \in Nat /\ Cardinality(Pending(i)') \in Nat
  BY <1>5, FS_CardinalityType
<1>7. \A i : Least(i) \in Nat /\ Least(i)' \in Nat
  BY <1>6 DEF Least
<1> QED
  BY <1>5, <1>6, <1>7

\* An inode without links has no name, no directory in it, and is owed to nobody.
LEMMA Unlinked ==
  ASSUME Counted, NEW i \in Inums, dlink[i] = 0
  PROVE  NamesOf(i) = {} /\ Subdirs(i) = {} /\ Pending(i) = {} /\ i # Root
<1>1. Least(i) = 0
  BY LinksFinite DEF Counted
<1>2. Cardinality(NamesOf(i)) = 0 /\ Cardinality(Subdirs(i)) = 0 /\ Cardinality(Pending(i)) = 0 /\ i # Root
  <2> DEFINE a == Cardinality(NamesOf(i))
             b == Cardinality(Subdirs(i))
             c == Cardinality(Pending(i))
  <2>1. a \in Nat /\ b \in Nat /\ c \in Nat
    BY LinksFinite
  <2>2. a + b + c + (IF i = Root THEN 1 ELSE 0) = 0
    BY <1>1 DEF Least
  <2> HIDE DEF a, b, c
  <2>3. a = 0 /\ b = 0 /\ c = 0 /\ i # Root
    BY <2>1, <2>2
  <2> QED
    BY <2>3 DEF a, b, c
<1> QED
  BY <1>2, LinksFinite, FS_EmptySet

\* What only gets fewer needs no more links.
LEMMA LeastShrinks ==
  ASSUME NEW i, NamesOf(i)' \subseteq NamesOf(i), Subdirs(i)' \subseteq Subdirs(i), Pending(i)' \subseteq Pending(i)
  PROVE  Least(i)' <= Least(i)
<1>1. Cardinality(NamesOf(i)') <= Cardinality(NamesOf(i))
  BY LinksFinite, FS_Subset
<1>2. Cardinality(Subdirs(i)') <= Cardinality(Subdirs(i))
  BY LinksFinite, FS_Subset
<1>3. Cardinality(Pending(i)') <= Cardinality(Pending(i))
  BY LinksFinite, FS_Subset
<1> QED
  BY <1>1, <1>2, <1>3, LinksFinite DEF Least

\* A set gains an element, or loses one.
LEMMA OneMore ==
  ASSUME NEW S, NEW T, NEW x, IsFiniteSet(S), x \notin S, T = S \cup {x}
  PROVE  Cardinality(T) = Cardinality(S) + 1
BY FS_AddElement

LEMMA OneLess ==
  ASSUME NEW S, NEW T, NEW x, IsFiniteSet(S), x \in S, T = S \ {x}
  PROVE  Cardinality(T) = Cardinality(S) - 1
BY FS_RemoveElement

\* Others owe what they owed.
LEMMA OwesOthers ==
  ASSUME \A q \in Procs : Shape(q), NEW p \in Procs, Frame(p), KeepsNodes(p), NEW i, NEW q \in Procs \ {p}
  PROVE  q \in Pending(i)' <=> q \in Pending(i)
<1>1. (Owes(q)' <=> Owes(q)) /\ ip'[q] = ip[q]
  BY FrameSame
<1>2. At("ip", q) = ip[q] /\ "ip" \in Kinds
  BY DEF At, Kinds
<1>3. Owes(q) => ip[q] # None
  BY DEF Owes, Shape, WithIp
<1>4. Owes(q) => inum'[ip'[q]] = inum[ip[q]]
  BY <1>1, <1>2, <1>3 DEF KeepsNodes
<1> QED
  BY <1>1, <1>4 DEF Pending

LEMMA PendingSame ==
  ASSUME \A q \in Procs : Shape(q), NEW p \in Procs, Frame(p), KeepsNodes(p), NEW i,
         p \in Pending(i)' <=> p \in Pending(i)
  PROVE  Pending(i)' = Pending(i)
<1>1. \A q \in Procs : q \in Pending(i)' <=> q \in Pending(i)
  BY OwesOthers
<1>2. Pending(i) \subseteq Procs /\ Pending(i)' \subseteq Procs
  BY DEF Pending
<1> QED
  BY <1>1, <1>2

\* p owes what it owed, for the same inode.
SameDebt(p) == /\ Owes(p)' <=> Owes(p)
               /\ Owes(p) => inum'[ip'[p]] = inum[ip[p]]

LEMMA CountedSame ==
  ASSUME Counted, \A q \in Procs : Shape(q), NEW p \in Procs, Frame(p), KeepsNodes(p), SameDebt(p),
         UNCHANGED disk
  PROVE  Counted'
<1> SUFFICES ASSUME NEW i \in Inums PROVE dlink'[i] >= Least(i)'
  BY DEF Counted
<1>1. Pending(i)' = Pending(i)
  BY PendingSame DEF SameDebt, Pending
<1>2. NamesOf(i)' = NamesOf(i) /\ Subdirs(i)' = Subdirs(i)
  BY DEF disk, NamesOf, Subdirs
<1>3. Least(i)' = Least(i)
  BY <1>1, <1>2 DEF Least
<1> QED
  BY <1>3 DEF Counted, disk
-----------------------------------------------------------------------------
(* Steps that leave the disk and the table as they are, but for locks.     *)

\* p neither makes an inode nor frees one, before the step and after it.
Plain(p) == /\ pc[p] \notin {"fresh", "fill", "free", "freed", "drop"}
            /\ pc'[p] \notin {"alloced", "fresh", "fill", "free", "freed", "drop"}

LEMMA RefsKept ==
  ASSUME RefExact, Typed, NEW p \in Procs, NEW f, Frame(p), Moves(p, f), ref' = ref
  PROVE  RefExact'
<1> SUFFICES ASSUME NEW s \in Slots PROVE ref'[s] = Cardinality(RefsTo(s))'
  BY DEF RefExact
<1>1. Cardinality(RefsTo(s))' = Cardinality(RefsTo(s))
  BY MovesCount
<1> QED
  BY <1>1 DEF RefExact

\* Nothing p has is dead or being made, and it has what it had.
LEMMA PlainPointers ==
  ASSUME NEW p \in Procs, NEW f, Moves(p, f), Plain(p), NEW k \in Kinds
  PROVE  /\ ~Dead(k, p) /\ ~Fresh(k, p) /\ ~Dead(k, p)' /\ ~Fresh(k, p)'
         /\ \E l \in Kinds : At(k, p)' = At(l, p)
<1>1. \E l \in Kinds : f[l] = k
  BY DEF Moves, Permutes
<1> QED
  BY <1>1 DEF Moves, Plain, Dead, Fresh

\* p locks nothing.
Unlocks(p) == \A t \in Slots : Locks(p, t)' => Locks(p, t)

LEMMA LoadedStep ==
  ASSUME Loaded, NEW p \in Procs, Frame(p),
         \A q \in Procs \ {p}, t \in Slots : Locks(q, t) => valid'[t],
         \A t \in Slots : Locks(p, t)' => valid'[t]
  PROVE  Loaded'
<1> SUFFICES ASSUME NEW t \in Slots, NEW q \in Procs, q # p, Locks(q, t)' PROVE valid'[t]
  BY DEF Loaded
<1>1. Locks(q, t)
  BY FrameSame
<1> QED
  BY <1>1

LEMMA StepQuiet ==
  ASSUME IInv, NEW p \in Procs, NEW f, Frame(p), Moves(p, f), Plain(p), SameDebt(p), Unlocks(p),
         UNCHANGED <<disk, inum, ref, valid, type, nlink>>,
         Typed', Shape(p)', Stays(p)', Owners'
  PROVE  IInv'
<1> USE DEF disk
<1>1. KeepsNodes(p)
  BY DEF KeepsNodes
<1>2. (\A q \in Procs : Shape(q)') /\ (\A q \in Procs : Stays(q)')
  BY <1>1, ShapeStep, StaysStep DEF IInv
<1>3. RefExact' /\ InTable' /\ OneEntryPerInode' /\ Loaded'
  <2>1. Loaded'
    BY LoadedStep DEF IInv, Loaded, Unlocks
  <2> QED
    BY <2>1, RefsKept DEF IInv, InTable, OneEntryPerInode
<1>4. Alive'
  <2>1. ASSUME NEW k \in Kinds, At(k, p)' # None PROVE Settled(Inode(k, p))'
    <3>1. PICK l \in Kinds : At(k, p)' = At(l, p) /\ ~Dead(l, p) /\ ~Fresh(l, p)
      BY PlainPointers
    <3>2. Settled(Inode(l, p))
      BY <2>1, <3>1 DEF IInv, Alive
    <3> QED
      BY <3>1, <3>2 DEF Inode, Settled
  <2>2. \A i : Settled(i) => Settled(i)'
    BY DEF Settled
  <2> QED
    BY <1>1, <2>1, <2>2, AliveStep DEF IInv
<1>5. Privates'
  <2>1. Making(p)' = 0
    BY DEF Plain, Making
  <2>2. ASSUME NEW q \in Procs \ {p}, NEW k \in Kinds, Making(q) # 0, At(k, p)' # None
        PROVE  Inode(k, p)' # Making(q)
    <3>1. PICK l \in Kinds : At(k, p)' = At(l, p) /\ ~Dead(l, p)
      BY PlainPointers
    <3>2. Private(q, Making(q))
      BY <2>2 DEF IInv, Privates
    <3>3. Inode(l, p) # Making(q)
      BY <2>2, <3>1, <3>2 DEF Private
    <3> QED
      BY <3>1, <3>3 DEF Inode
  <2> QED
    BY <1>1, <2>1, <2>2, PrivatesStep DEF IInv
<1>6. Copies'
  <2>1. \A s : Freeing(s)' <=> Freeing(s)
    <3>1. \A q \in Procs : (pc'[q] = "freed" <=> pc[q] = "freed") /\ (pc[q] = "freed" => put'[q] = put[q])
      BY FrameSame DEF Plain
    <3> QED
      BY <3>1 DEF Freeing
  <2> QED
    BY <2>1 DEF IInv, Copies
<1>7. Freers'
  BY FreersStep DEF IInv, Plain
<1>8. Counted'
  BY <1>1, CountedSame DEF IInv
<1>9. Entries' /\ RootStays'
  BY DEF IInv, Entries, RootStays
<1> QED
  BY <1>2, <1>3, <1>4, <1>5, <1>6, <1>7, <1>8, <1>9 DEF IInv
-----------------------------------------------------------------------------
Swap(a, b) == [k \in Kinds |-> IF k = a THEN b ELSE IF k = b THEN a ELSE k]

LEMMA SwapMoves ==
  ASSUME NEW p \in Procs, NEW a \in Kinds, NEW b \in Kinds, At(a, p)' = At(b, p), At(b, p)' = At(a, p),
         \A k \in Kinds \ {a, b} : At(k, p)' = At(k, p)
  PROVE  Moves(p, Swap(a, b))
<1>1. Permutes(Swap(a, b))
  BY DEF Permutes, Swap
<1>2. \A k \in Kinds : At(Swap(a, b)[k], p)' = At(k, p)
  BY DEF Swap
<1> QED
  BY <1>1, <1>2 DEF Moves

LEMMA TypedStep ==
  ASSUME Typed, NEW p \in Procs, Frame(p), TypeOK', DOMAIN pc' = Procs, DOMAIN ret' = Procs, DOMAIN call' = Procs, CallOK(p)'
  PROVE  Typed'
<1>1. \A q \in Procs : CallOK(q)'
  BY FrameSame DEF Typed
<1> QED
  BY <1>1 DEF Typed

LEMMA NoCallOK == NoCall \in [op : Ops, path : AnyPath, new : AnyPath] /\ NoCall.op = "none" /\ NoPath \in AnyPath
<1>1. <<>> \in Seq(Elements)
  OBVIOUS
<1>2. NoPath \in AnyPath
  BY <1>1 DEF NoPath, AnyPath
<1> QED
  BY <1>2 DEF NoCall, Ops

\* What IInv says of the types of the variables.
LEMMA Domains ==
  ASSUME IInv
  PROVE  /\ Typed /\ Owners /\ RefExact
         /\ cwd \in [Procs -> Slots] /\ fd \in [Procs -> Slots \cup {None}] /\ cur \in [Procs -> Slots \cup {None}]
         /\ ip \in [Procs -> Slots \cup {None}] /\ put \in [Procs -> Slots \cup {None}]
         /\ DOMAIN pc = Procs /\ DOMAIN ret = Procs /\ DOMAIN call = Procs
         /\ owner \in [Slots -> Procs \cup {None}] /\ scan \in [Procs -> 0..(NInodes + 1)]
         /\ inum \in [Slots -> 0..NInodes] /\ ref \in [Slots -> Nat] /\ valid \in [Slots -> BOOLEAN]
         /\ type \in [Slots -> Types] /\ nlink \in [Slots -> Nat]
         /\ dtype \in [Inums -> Types] /\ dlink \in [Inums -> Nat]
         /\ ents \in [Inums -> [Names -> 0..NInodes]] /\ up \in [Inums -> 0..NInodes]
BY DEF IInv, Typed, TypeOK

\* Behind a pointer there is an entry in use, and an inode in order.
LEMMA Pointed ==
  ASSUME IInv, NEW k \in Kinds, NEW p \in Procs, At(k, p) # None
  PROVE  /\ At(k, p) \in Slots /\ ref[At(k, p)] > 0 /\ Inode(k, p) \in Inums
         /\ ~Dead(k, p) /\ ~Fresh(k, p) => Settled(Inode(k, p))
<1>1. At(k, p) \in Slots
  BY PointersTyped DEF IInv
<1>2. ref[At(k, p)] > 0
  BY <1>1, HeldOnce DEF IInv
<1> QED
  BY <1>1, <1>2 DEF IInv, InTable, Alive, Inode

\* What p has locked it has in use, and its copy is that of the disk.
LEMMA LockedCopy ==
  ASSUME IInv, NEW p \in Procs, NEW s \in Slots, Locks(p, s)
  PROVE  /\ owner[s] = p /\ valid[s] /\ ref[s] > 0 /\ inum[s] \in Inums /\ nlink[s] = dlink[inum[s]]
         /\ pc[p] # "freed" => type[s] = dtype[inum[s]] /\ type[s] # "free"
<1>1. owner[s] = p /\ valid[s]
  BY DEF IInv, Owners, Loaded
<1>2. PICK k \in Kinds : s = At(k, p)
  BY DEF Locks, At, Kinds
<1>3. ref[s] > 0
  BY <1>2, HeldOnce DEF IInv
<1>4. ASSUME pc[p] # "freed", Freeing(s) PROVE FALSE
  <2>1. PICK q \in Procs : pc[q] = "freed" /\ put[q] = s
    BY <1>4 DEF Freeing
  <2>2. owner[s] = q
    BY <2>1 DEF IInv, Owners, Locks
  <2> QED
    BY <2>1, <2>2, <1>1, <1>4
<1> QED
  BY <1>1, <1>3, <1>4 DEF IInv, Copies, InTable

LEMMA FirstElement ==
  ASSUME IInv, NEW p \in Procs, Elems(p) # <<>>
  PROVE  Head(Elems(p)) \in Elements /\ Tail(Elems(p)) \in Seq(Elements)
<1>1. Elems(p) \in Seq(Elements)
  BY Domains DEF Typed, CallOK, AnyPath, Elems
<1>2. \A E : \A e \in Seq(E) : e # <<>> => Head(e) \in E /\ Tail(e) \in Seq(E)
  OBVIOUS
<1> QED
  BY <1>1, <1>2

\* What create() makes, or unlink() removes, is not the directory it is in.
LEMMA Apart ==
  ASSUME IInv, NEW p \in Procs, pc[p] \in {"fresh", "fill", "victim", "remove"}
  PROVE  cur[p] \in Slots /\ ip[p] \in Slots /\ inum[cur[p]] # inum[ip[p]] /\ cur[p] # ip[p]
<1>1. Shape(p) /\ Stays(p)
  BY DEF IInv
<1>2. cur[p] \in Slots /\ ip[p] \in Slots /\ Stage(p) = pc[p]
  BY <1>1, Domains DEF Shape, Stage, Putting, AtEnd, WithCur, WithIp
<1>3. inum[cur[p]] \in Inums /\ inum[ip[p]] \in Inums
  <2>1. At("cur", p) = cur[p] /\ At("ip", p) = ip[p] /\ {"cur", "ip"} \subseteq Kinds
    BY DEF At, Kinds
  <2> QED
    BY <1>2, <2>1, Pointed, ProcsAssumption DEF Inode
<1>4. CASE pc[p] \in {"fresh", "fill"}
  <2>1. Private(p, inum[ip[p]])
    BY <1>3, <1>4, SizeAssumption DEF IInv, Privates, Making, Inums
  <2>2. At("cur", p) = cur[p] /\ "cur" \in Kinds /\ ~Dead("cur", p)
    BY DEF At, Kinds, Dead
  <2> QED
    BY <1>2, <2>1, <2>2, ProcsAssumption DEF Private, Inode
<1>5. CASE pc[p] \in {"victim", "remove"}
  <2>1. Head(Elems(p)) # ".." /\ Child(p) = inum[ip[p]] /\ dtype[inum[cur[p]]] = "dir"
    BY <1>1, <1>2, <1>5 DEF Stays, AtEnd
  <2>2. Head(Elems(p)) \in Names
    <3>1. Elems(p) # <<>>
      BY <1>1, <1>2, <1>5 DEF Shape, AtEnd
    <3> QED
      BY <2>1, <3>1, FirstElement DEF Elements
  <2>3. ents[inum[cur[p]]][Head(Elems(p))] = inum[ip[p]] /\ inum[ip[p]] # 0
    BY <2>1, <1>3, SizeAssumption DEF Child, Inums
  <2> QED
    BY <1>2, <1>3, <2>1, <2>2, <2>3 DEF IInv, Entries
<1> QED
  BY <1>2, <1>4, <1>5

-----------------------------------------------------------------------------
(* Those steps.                                                            *)

LEMMA CallStep ==
  ASSUME IInv, NEW p \in Procs, NEW c \in Calls[p], Call(p, c)
  PROVE  IInv'
<1> USE DEF Call, PutThen, EndCall, Goto, Unlocked
<1>1. Shape(p) /\ Stays(p) /\ CallOK(p) /\ Typed /\ Owners
  BY DEF IInv, Typed
<1>2. Frame(p)
  BY Domains DEF Frame, At
<1>3. Stage(p) = "idle" /\ put[p] = None /\ cur[p] = None /\ ip[p] = None /\ Op(p) = "none"
  BY <1>1, Domains, ProcsAssumption DEF Shape, Stage, Putting, AtEnd, WithCur, WithIp, Renaming
<1>4. pc'[p] = "start" /\ Stage(p)' = "start" /\ Op(p)' = c.op /\ Elems(p)' = c.path.elems /\ call'[p] = c
      /\ c.op \in {"open", "create", "mkdir", "unlink", "chdir", "link"} /\ c.path.elems # <<>>
      /\ c.path \in AnyPath /\ c.new \in AnyPath /\ (c.op = "link" => c.new.elems # <<>>)
      /\ c \in [op : Ops, path : AnyPath, new : AnyPath]
  <2>1. pc'[p] = "start" /\ Stage(p)' = "start" /\ Op(p)' = c.op /\ Elems(p)' = c.path.elems /\ call'[p] = c
    BY Domains DEF Stage, Putting, Op, Elems
  <2>2. c \in [op : {"open", "create", "mkdir", "unlink", "chdir"}, path : Path, new : {NoPath}]
             \cup [op : {"link"}, path : Path, new : Path]
    BY CallsAssumption
  <2>3. \A x \in Path : x \in AnyPath /\ x.elems # <<>>
    BY DEF Path, AnyPath, Elements
  <2> QED
    BY <2>1, <2>2, <2>3, NoCallOK DEF Ops
<1>5. Moves(p, Swap("cur", "cur"))
  BY <1>1, <1>3, <1>4, Domains, SwapMoves DEF At, Kinds
<1>6. Plain(p) /\ SameDebt(p)
  BY <1>1, <1>3, <1>4 DEF Plain, SameDebt, Owes, Shape, Renaming, table
<1>7. Typed'
  <2>1. CallOK(p)'
    BY <1>1, <1>3, <1>4, NoCallOK DEF CallOK, Op, Ops
  <2>2. TypeOK'
    <3>1. /\ cur' \in [Procs -> Slots \cup {None}] /\ ip' \in [Procs -> Slots \cup {None}]
          /\ put' \in [Procs -> Slots \cup {None}] /\ fd' \in [Procs -> Slots \cup {None}]
          /\ cwd' \in [Procs -> Slots]
      BY <1>1, <1>3, <1>4, Domains
    <3>2. owner' \in [Slots -> Procs \cup {None}] /\ scan' \in [Procs -> 0..(NInodes + 1)]
      BY <1>1, <1>3, <1>4, Domains, SizeAssumption DEF table, Inums
    <3>3. UNCHANGED <<dtype, dlink, ents, up, inum, ref, valid, type, nlink>>
      BY DEF disk, table
    <3> QED
      BY <1>1, <3>1, <3>2, <3>3 DEF Typed, TypeOK
  <2>3. DOMAIN pc' = Procs /\ DOMAIN ret' = Procs /\ DOMAIN call' = Procs
    BY Domains
  <2> QED
    BY <1>1, <1>2, <2>1, <2>2, <2>3, TypedStep
<1>8. Shape(p)'
  BY <1>1, <1>3, <1>4, Domains, ProcsAssumption DEF Shape, Putting, Rets, WithCur, WithIp, Renaming, Looking, AtEnd
<1>9. Stays(p)'
  BY <1>1, <1>3, <1>4 DEF Stays, AtEnd, disk, table
<1>10. \A t \in Slots : Locks(p, t)' <=> Locks(p, t)
  BY <1>1, <1>3, <1>4, Domains DEF Locks, LockCur, LockIp
<1>12. Owners'
  BY <1>1, <1>2, <1>3, <1>4, <1>10, Domains, OwnersStep, ProcsAssumption DEF Owners, table
<1> QED
  BY <1>2, <1>5, <1>6, <1>7, <1>8, <1>9, <1>10, <1>12, StepQuiet DEF Unlocks, disk, table

LEMMA WalkFailsStep ==
  ASSUME IInv, NEW p \in Procs, WalkFails(p)
  PROVE  IInv'
<1> USE DEF WalkFails, PutThen, EndCall, Goto, Unlocked
<1>1. Shape(p) /\ Stays(p) /\ CallOK(p) /\ Typed /\ Owners
  BY DEF IInv, Typed
<1>2. Frame(p)
  BY Domains DEF Frame, At
<1>3. Stage(p) = "walk" /\ put[p] = None /\ cur[p] \in Slots
  BY <1>1, Domains, ProcsAssumption DEF Shape, Stage, Putting, AtEnd, WithCur, WithIp, Renaming
<1>4. pc'[p] = "iput" /\ put'[p] = cur[p] /\ Stage(p)' = ret'[p] /\ ret'[p] = (IF Op(p) = "newname" THEN "undo" ELSE "idle")
      /\ cur'[p] = None /\ Op(p)' = "none"
  BY <1>1, <1>3, Domains, NoCallOK DEF Stage, Putting, Op, Elems, CallOK
<1>5. Moves(p, Swap("cur", "put"))
  BY <1>1, <1>3, <1>4, Domains, SwapMoves DEF At, Kinds
<1>6. Plain(p) /\ SameDebt(p)
  BY <1>1, <1>3, <1>4 DEF Plain, SameDebt, Owes, Shape, Renaming, table
<1>7. Typed'
  <2>1. CallOK(p)'
    BY <1>1, <1>3, <1>4, NoCallOK DEF CallOK, Op
  <2>2. TypeOK'
    <3>1. /\ cur' \in [Procs -> Slots \cup {None}] /\ ip' \in [Procs -> Slots \cup {None}]
          /\ put' \in [Procs -> Slots \cup {None}] /\ fd' \in [Procs -> Slots \cup {None}]
          /\ cwd' \in [Procs -> Slots]
      BY <1>1, <1>3, <1>4, Domains
    <3>2. owner' \in [Slots -> Procs \cup {None}] /\ scan' \in [Procs -> 0..(NInodes + 1)]
      BY <1>1, <1>3, <1>4, Domains, SizeAssumption DEF table, Inums
    <3>3. UNCHANGED <<dtype, dlink, ents, up, inum, ref, valid, type, nlink>>
      BY DEF disk, table
    <3> QED
      BY <1>1, <3>1, <3>2, <3>3 DEF Typed, TypeOK
  <2>3. DOMAIN pc' = Procs /\ DOMAIN ret' = Procs /\ DOMAIN call' = Procs
    BY Domains
  <2> QED
    BY <1>1, <1>2, <2>1, <2>2, <2>3, TypedStep
<1>8. Shape(p)'
  BY <1>1, <1>3, <1>4, Domains, ProcsAssumption DEF Shape, Putting, Rets, WithCur, WithIp, Renaming, Looking, AtEnd
<1>9. Stays(p)'
  BY <1>1, <1>3, <1>4 DEF Stays, AtEnd, disk, table
<1>10. \A t \in Slots : Locks(p, t)' <=> Locks(p, t) /\ t # cur[p]
  <2>1. Locks(p, cur[p])
    BY <1>1, <1>3 DEF Locks, LockCur, LockIp
  <2> QED
    BY <1>1, <1>3, <1>4, <2>1, Domains DEF Locks, LockCur, LockIp
<1>11. owner[cur[p]] = p
  BY <1>1, <1>3 DEF Owners, Locks, LockCur, LockIp
<1>12. Owners'
  BY <1>1, <1>2, <1>3, <1>4, <1>10, <1>11, Domains, OwnersStep, ProcsAssumption DEF Owners
<1> QED
  BY <1>2, <1>5, <1>6, <1>7, <1>8, <1>9, <1>10, <1>12, StepQuiet DEF Unlocks, disk, table

LEMMA WalkStopsStep ==
  ASSUME IInv, NEW p \in Procs, WalkStops(p)
  PROVE  IInv'
<1> USE DEF WalkStops, PutThen, EndCall, Goto, Unlocked
<1>1. Shape(p) /\ Stays(p) /\ CallOK(p) /\ Typed /\ Owners
  BY DEF IInv, Typed
<1>2. Frame(p)
  BY Domains DEF Frame, At
<1>3. Stage(p) = "walk" /\ put[p] = None /\ cur[p] \in Slots /\ Len(Elems(p)) = 1
  BY <1>1, Domains, ProcsAssumption DEF Shape, Stage, Putting, AtEnd, WithCur, WithIp, Renaming, AtParent
<1>4. pc'[p] = "parent" /\ Stage(p)' = "parent" /\ Op(p)' = Op(p) /\ Elems(p)' = Elems(p)
  BY <1>1, <1>3, Domains, NoCallOK DEF Stage, Putting, Op, Elems, CallOK
<1>5. Moves(p, Swap("cur", "cur"))
  BY <1>1, <1>3, <1>4, Domains, SwapMoves DEF At, Kinds
<1>6. Plain(p) /\ SameDebt(p)
  BY <1>1, <1>3, <1>4 DEF Plain, SameDebt, Owes, Shape, Renaming, table
<1>7. Typed'
  <2>1. CallOK(p)'
    BY <1>1, <1>3, <1>4, NoCallOK DEF CallOK, Op
  <2>2. TypeOK'
    <3>1. /\ cur' \in [Procs -> Slots \cup {None}] /\ ip' \in [Procs -> Slots \cup {None}]
          /\ put' \in [Procs -> Slots \cup {None}] /\ fd' \in [Procs -> Slots \cup {None}]
          /\ cwd' \in [Procs -> Slots]
      BY <1>1, <1>3, <1>4, Domains
    <3>2. owner' \in [Slots -> Procs \cup {None}] /\ scan' \in [Procs -> 0..(NInodes + 1)]
      BY <1>1, <1>3, <1>4, Domains, SizeAssumption DEF table, Inums
    <3>3. UNCHANGED <<dtype, dlink, ents, up, inum, ref, valid, type, nlink>>
      BY DEF disk, table
    <3> QED
      BY <1>1, <3>1, <3>2, <3>3 DEF Typed, TypeOK
  <2>3. DOMAIN pc' = Procs /\ DOMAIN ret' = Procs /\ DOMAIN call' = Procs
    BY Domains
  <2> QED
    BY <1>1, <1>2, <2>1, <2>2, <2>3, TypedStep
<1>8. Shape(p)'
  BY <1>1, <1>3, <1>4, Domains, ProcsAssumption DEF Shape, Putting, Rets, WithCur, WithIp, Renaming, Looking, AtEnd
<1>9. Stays(p)'
  <2>1. type[cur[p]] = dtype[inum[cur[p]]]
    BY <1>1, <1>3, LockedCopy DEF Locks, LockCur
  <2> QED
    BY <1>1, <1>3, <1>4, <2>1 DEF Stays, AtEnd, disk
<1>10. \A t \in Slots : Locks(p, t)' <=> Locks(p, t) /\ t # cur[p]
  <2>1. Locks(p, cur[p])
    BY <1>1, <1>3 DEF Locks, LockCur, LockIp
  <2> QED
    BY <1>1, <1>3, <1>4, <2>1, Domains DEF Locks, LockCur, LockIp
<1>11. owner[cur[p]] = p
  BY <1>1, <1>3 DEF Owners, Locks, LockCur, LockIp
<1>12. Owners'
  BY <1>1, <1>2, <1>3, <1>4, <1>10, <1>11, Domains, OwnersStep, ProcsAssumption DEF Owners
<1> QED
  BY <1>2, <1>5, <1>6, <1>7, <1>8, <1>9, <1>10, <1>12, StepQuiet DEF Unlocks, disk, table

LEMMA OpenDoneStep ==
  ASSUME IInv, NEW p \in Procs, OpenDone(p)
  PROVE  IInv'
<1> USE DEF OpenDone, PutThen, EndCall, Goto, Unlocked
<1>1. Shape(p) /\ Stays(p) /\ CallOK(p) /\ Typed /\ Owners
  BY DEF IInv, Typed
<1>2. Frame(p)
  BY Domains DEF Frame, At
<1>3. Stage(p) = "check" /\ put[p] = None /\ cur[p] \in Slots /\ ip[p] = None /\ fd[p] = None
  BY <1>1, Domains, ProcsAssumption DEF Shape, Stage, Putting, AtEnd, WithCur, WithIp, Renaming
<1>4. pc'[p] = "idle" /\ Stage(p)' = "idle" /\ Op(p)' = "none" /\ fd'[p] = cur[p] /\ cur'[p] = None
  BY <1>1, <1>3, Domains, NoCallOK DEF Stage, Putting, Op, Elems, CallOK
<1>5. Moves(p, Swap("cur", "fd"))
  BY <1>1, <1>3, <1>4, Domains, SwapMoves DEF At, Kinds
<1>6. Plain(p) /\ SameDebt(p)
  BY <1>1, <1>3, <1>4 DEF Plain, SameDebt, Owes, Shape, Renaming, table
<1>7. Typed'
  <2>1. CallOK(p)'
    BY <1>1, <1>3, <1>4, NoCallOK DEF CallOK, Op
  <2>2. TypeOK'
    <3>1. /\ cur' \in [Procs -> Slots \cup {None}] /\ ip' \in [Procs -> Slots \cup {None}]
          /\ put' \in [Procs -> Slots \cup {None}] /\ fd' \in [Procs -> Slots \cup {None}]
          /\ cwd' \in [Procs -> Slots]
      BY <1>1, <1>3, <1>4, Domains
    <3>2. owner' \in [Slots -> Procs \cup {None}] /\ scan' \in [Procs -> 0..(NInodes + 1)]
      BY <1>1, <1>3, <1>4, Domains, SizeAssumption DEF table, Inums
    <3>3. UNCHANGED <<dtype, dlink, ents, up, inum, ref, valid, type, nlink>>
      BY DEF disk, table
    <3> QED
      BY <1>1, <3>1, <3>2, <3>3 DEF Typed, TypeOK
  <2>3. DOMAIN pc' = Procs /\ DOMAIN ret' = Procs /\ DOMAIN call' = Procs
    BY Domains
  <2> QED
    BY <1>1, <1>2, <2>1, <2>2, <2>3, TypedStep
<1>8. Shape(p)'
  BY <1>1, <1>3, <1>4, Domains, ProcsAssumption DEF Shape, Putting, Rets, WithCur, WithIp, Renaming, Looking, AtEnd
<1>9. Stays(p)'
  BY <1>1, <1>3, <1>4 DEF Stays, AtEnd, disk, table
<1>10. \A t \in Slots : Locks(p, t)' <=> Locks(p, t) /\ t # cur[p]
  <2>1. Locks(p, cur[p])
    BY <1>1, <1>3 DEF Locks, LockCur, LockIp
  <2> QED
    BY <1>1, <1>3, <1>4, <2>1, Domains DEF Locks, LockCur, LockIp
<1>11. owner[cur[p]] = p
  BY <1>1, <1>3 DEF Owners, Locks, LockCur, LockIp
<1>12. Owners'
  BY <1>1, <1>2, <1>3, <1>4, <1>10, <1>11, Domains, OwnersStep, ProcsAssumption DEF Owners
<1> QED
  BY <1>2, <1>5, <1>6, <1>7, <1>8, <1>9, <1>10, <1>12, StepQuiet DEF Unlocks, disk, table

LEMMA IunlockPutStep ==
  ASSUME IInv, NEW p \in Procs, IunlockPut(p)
  PROVE  IInv'
<1> USE DEF IunlockPut, PutThen, EndCall, Goto, Unlocked
<1>1. Shape(p) /\ Stays(p) /\ CallOK(p) /\ Typed /\ Owners
  BY DEF IInv, Typed
<1>2. Frame(p)
  BY Domains DEF Frame, At
<1>3. Stage(p) = "check" /\ put[p] = None /\ cur[p] \in Slots /\ ip[p] = None /\ Op(p) # "newname"
  BY <1>1, Domains, ProcsAssumption DEF Shape, Stage, Putting, AtEnd, WithCur, WithIp, Renaming, CheckFails
<1>4. pc'[p] = "iput" /\ put'[p] = cur[p] /\ Stage(p)' = ret'[p] /\ ret'[p] = "idle"
      /\ cur'[p] = None /\ Op(p)' = "none"
  BY <1>1, <1>3, Domains, NoCallOK DEF Stage, Putting, Op, Elems, CallOK
<1>5. Moves(p, Swap("cur", "put"))
  BY <1>1, <1>3, <1>4, Domains, SwapMoves DEF At, Kinds
<1>6. Plain(p) /\ SameDebt(p)
  BY <1>1, <1>3, <1>4 DEF Plain, SameDebt, Owes, Shape, Renaming, table
<1>7. Typed'
  <2>1. CallOK(p)'
    BY <1>1, <1>3, <1>4, NoCallOK DEF CallOK, Op
  <2>2. TypeOK'
    <3>1. /\ cur' \in [Procs -> Slots \cup {None}] /\ ip' \in [Procs -> Slots \cup {None}]
          /\ put' \in [Procs -> Slots \cup {None}] /\ fd' \in [Procs -> Slots \cup {None}]
          /\ cwd' \in [Procs -> Slots]
      BY <1>1, <1>3, <1>4, Domains
    <3>2. owner' \in [Slots -> Procs \cup {None}] /\ scan' \in [Procs -> 0..(NInodes + 1)]
      BY <1>1, <1>3, <1>4, Domains, SizeAssumption DEF table, Inums
    <3>3. UNCHANGED <<dtype, dlink, ents, up, inum, ref, valid, type, nlink>>
      BY DEF disk, table
    <3> QED
      BY <1>1, <3>1, <3>2, <3>3 DEF Typed, TypeOK
  <2>3. DOMAIN pc' = Procs /\ DOMAIN ret' = Procs /\ DOMAIN call' = Procs
    BY Domains
  <2> QED
    BY <1>1, <1>2, <2>1, <2>2, <2>3, TypedStep
<1>8. Shape(p)'
  BY <1>1, <1>3, <1>4, Domains, ProcsAssumption DEF Shape, Putting, Rets, WithCur, WithIp, Renaming, Looking, AtEnd
<1>9. Stays(p)'
  BY <1>1, <1>3, <1>4 DEF Stays, AtEnd, disk, table
<1>10. \A t \in Slots : Locks(p, t)' <=> Locks(p, t) /\ t # cur[p]
  <2>1. Locks(p, cur[p])
    BY <1>1, <1>3 DEF Locks, LockCur, LockIp
  <2> QED
    BY <1>1, <1>3, <1>4, <2>1, Domains DEF Locks, LockCur, LockIp
<1>11. owner[cur[p]] = p
  BY <1>1, <1>3 DEF Owners, Locks, LockCur, LockIp
<1>12. Owners'
  BY <1>1, <1>2, <1>3, <1>4, <1>10, <1>11, Domains, OwnersStep, ProcsAssumption DEF Owners
<1> QED
  BY <1>2, <1>5, <1>6, <1>7, <1>8, <1>9, <1>10, <1>12, StepQuiet DEF Unlocks, disk, table

\* chdir(): the new directory takes the place of the old one, which is put.
Turn == [k \in Kinds |-> IF k = "cwd" THEN "put" ELSE IF k = "cur" THEN "cwd" ELSE IF k = "put" THEN "cur" ELSE k]
LEMMA ChdirStep ==
  ASSUME IInv, NEW p \in Procs, Chdir(p)
  PROVE  IInv'
<1> USE DEF Chdir, PutThen, EndCall, Goto, Unlocked
<1>1. Shape(p) /\ Stays(p) /\ CallOK(p) /\ Typed /\ Owners
  BY DEF IInv, Typed
<1>2. Frame(p)
  BY Domains DEF Frame, At
<1>3. Stage(p) = "check" /\ put[p] = None /\ cur[p] \in Slots /\ ip[p] = None
  BY <1>1, Domains, ProcsAssumption DEF Shape, Stage, Putting, AtEnd, WithCur, WithIp, Renaming
<1>4. pc'[p] = "iput" /\ put'[p] = cwd[p] /\ Stage(p)' = ret'[p] /\ ret'[p] = "idle"
      /\ cwd'[p] = cur[p] /\ cur'[p] = None /\ Op(p)' = "none"
  BY <1>1, <1>3, Domains, NoCallOK DEF Stage, Putting, Op, Elems, CallOK
<1>5. Moves(p, Turn)
  <2>1. Permutes(Turn)
    BY DEF Permutes, Turn, Kinds
  <2>2. \A k \in Kinds : At(Turn[k], p)' = At(k, p)
    BY <1>3, <1>4, Domains DEF Turn, At, Kinds
  <2> QED
    BY <2>1, <2>2 DEF Moves
<1>6. Plain(p) /\ SameDebt(p)
  BY <1>1, <1>3, <1>4 DEF Plain, SameDebt, Owes, Shape, Renaming, table
<1>7. Typed'
  <2>1. CallOK(p)'
    BY <1>1, <1>3, <1>4, NoCallOK DEF CallOK, Op
  <2>2. TypeOK'
    <3>1. /\ cur' \in [Procs -> Slots \cup {None}] /\ ip' \in [Procs -> Slots \cup {None}]
          /\ put' \in [Procs -> Slots \cup {None}] /\ fd' \in [Procs -> Slots \cup {None}]
          /\ cwd' \in [Procs -> Slots]
      BY <1>1, <1>3, <1>4, Domains
    <3>2. owner' \in [Slots -> Procs \cup {None}] /\ scan' \in [Procs -> 0..(NInodes + 1)]
      BY <1>1, <1>3, <1>4, Domains, SizeAssumption DEF table, Inums
    <3>3. UNCHANGED <<dtype, dlink, ents, up, inum, ref, valid, type, nlink>>
      BY DEF disk, table
    <3> QED
      BY <1>1, <3>1, <3>2, <3>3 DEF Typed, TypeOK
  <2>3. DOMAIN pc' = Procs /\ DOMAIN ret' = Procs /\ DOMAIN call' = Procs
    BY Domains
  <2> QED
    BY <1>1, <1>2, <2>1, <2>2, <2>3, TypedStep
<1>8. Shape(p)'
  BY <1>1, <1>3, <1>4, Domains, ProcsAssumption DEF Shape, Putting, Rets, WithCur, WithIp, Renaming, Looking, AtEnd
<1>9. Stays(p)'
  BY <1>1, <1>3, <1>4 DEF Stays, AtEnd, disk, table
<1>10. \A t \in Slots : Locks(p, t)' <=> Locks(p, t) /\ t # cur[p]
  <2>1. Locks(p, cur[p])
    BY <1>1, <1>3 DEF Locks, LockCur, LockIp
  <2> QED
    BY <1>1, <1>3, <1>4, <2>1, Domains DEF Locks, LockCur, LockIp
<1>11. owner[cur[p]] = p
  BY <1>1, <1>3 DEF Owners, Locks, LockCur, LockIp
<1>12. Owners'
  BY <1>1, <1>2, <1>3, <1>4, <1>10, <1>11, Domains, OwnersStep, ProcsAssumption DEF Owners
<1> QED
  BY <1>2, <1>5, <1>6, <1>7, <1>8, <1>9, <1>10, <1>12, StepQuiet DEF Unlocks, disk, table

LEMMA CloseStep ==
  ASSUME IInv, NEW p \in Procs, Close(p)
  PROVE  IInv'
<1> USE DEF Close, PutThen, EndCall, Goto, Unlocked
<1>1. Shape(p) /\ Stays(p) /\ CallOK(p) /\ Typed /\ Owners
  BY DEF IInv, Typed
<1>2. Frame(p)
  BY Domains DEF Frame, At
<1>3. Stage(p) = "idle" /\ put[p] = None /\ cur[p] = None /\ ip[p] = None /\ Op(p) = "none"
  BY <1>1, Domains, ProcsAssumption DEF Shape, Stage, Putting, AtEnd, WithCur, WithIp, Renaming
<1>4. pc'[p] = "iput" /\ put'[p] = fd[p] /\ Stage(p)' = ret'[p] /\ ret'[p] = "idle"
      /\ fd'[p] = None /\ Op(p)' = "none"
  BY <1>1, <1>3, Domains, NoCallOK DEF Stage, Putting, Op, Elems, CallOK
<1>5. Moves(p, Swap("fd", "put"))
  BY <1>1, <1>3, <1>4, Domains, SwapMoves DEF At, Kinds
<1>6. Plain(p) /\ SameDebt(p)
  BY <1>1, <1>3, <1>4 DEF Plain, SameDebt, Owes, Shape, Renaming, table
<1>7. Typed'
  <2>1. CallOK(p)'
    BY <1>1, <1>3, <1>4, NoCallOK DEF CallOK, Op
  <2>2. TypeOK'
    <3>1. /\ cur' \in [Procs -> Slots \cup {None}] /\ ip' \in [Procs -> Slots \cup {None}]
          /\ put' \in [Procs -> Slots \cup {None}] /\ fd' \in [Procs -> Slots \cup {None}]
          /\ cwd' \in [Procs -> Slots]
      BY <1>1, <1>3, <1>4, Domains
    <3>2. owner' \in [Slots -> Procs \cup {None}] /\ scan' \in [Procs -> 0..(NInodes + 1)]
      BY <1>1, <1>3, <1>4, Domains, SizeAssumption DEF table, Inums
    <3>3. UNCHANGED <<dtype, dlink, ents, up, inum, ref, valid, type, nlink>>
      BY DEF disk, table
    <3> QED
      BY <1>1, <3>1, <3>2, <3>3 DEF Typed, TypeOK
  <2>3. DOMAIN pc' = Procs /\ DOMAIN ret' = Procs /\ DOMAIN call' = Procs
    BY Domains
  <2> QED
    BY <1>1, <1>2, <2>1, <2>2, <2>3, TypedStep
<1>8. Shape(p)'
  BY <1>1, <1>3, <1>4, Domains, ProcsAssumption DEF Shape, Putting, Rets, WithCur, WithIp, Renaming, Looking, AtEnd
<1>9. Stays(p)'
  BY <1>1, <1>3, <1>4 DEF Stays, AtEnd, disk, table
<1>10. \A t \in Slots : Locks(p, t)' <=> Locks(p, t)
  BY <1>1, <1>3, <1>4, Domains DEF Locks, LockCur, LockIp
<1>12. Owners'
  BY <1>1, <1>2, <1>3, <1>4, <1>10, Domains, OwnersStep, ProcsAssumption DEF Owners, table
<1> QED
  BY <1>2, <1>5, <1>6, <1>7, <1>8, <1>9, <1>10, <1>12, StepQuiet DEF Unlocks, disk, table

LEMMA ReuseStep ==
  ASSUME IInv, NEW p \in Procs, Reuse(p)
  PROVE  IInv'
<1> USE DEF Reuse, PutThen, EndCall, Goto, Unlocked
<1>1. Shape(p) /\ Stays(p) /\ CallOK(p) /\ Typed /\ Owners
  BY DEF IInv, Typed
<1>2. Frame(p)
  BY Domains DEF Frame, At
<1>3. Stage(p) = "reuse" /\ put[p] = None /\ cur[p] = None /\ ip[p] \in Slots
  BY <1>1, Domains, ProcsAssumption DEF Shape, Stage, Putting, AtEnd, WithCur, WithIp, Renaming
<1>4. pc'[p] = "check" /\ Stage(p)' = "check" /\ Op(p)' = Op(p) /\ cur'[p] = ip[p] /\ ip'[p] = None
  BY <1>1, <1>3, Domains, NoCallOK DEF Stage, Putting, Op, Elems, CallOK
<1>5. Moves(p, Swap("cur", "ip"))
  BY <1>1, <1>3, <1>4, Domains, SwapMoves DEF At, Kinds
<1>6. Plain(p) /\ SameDebt(p)
  BY <1>1, <1>3, <1>4 DEF Plain, SameDebt, Owes, Shape, Renaming, table
<1>7. Typed'
  <2>1. CallOK(p)'
    BY <1>1, <1>3, <1>4, NoCallOK DEF CallOK, Op
  <2>2. TypeOK'
    <3>1. /\ cur' \in [Procs -> Slots \cup {None}] /\ ip' \in [Procs -> Slots \cup {None}]
          /\ put' \in [Procs -> Slots \cup {None}] /\ fd' \in [Procs -> Slots \cup {None}]
          /\ cwd' \in [Procs -> Slots]
      BY <1>1, <1>3, <1>4, Domains
    <3>2. owner' \in [Slots -> Procs \cup {None}] /\ scan' \in [Procs -> 0..(NInodes + 1)]
      BY <1>1, <1>3, <1>4, Domains, SizeAssumption DEF table, Inums
    <3>3. UNCHANGED <<dtype, dlink, ents, up, inum, ref, valid, type, nlink>>
      BY DEF disk, table
    <3> QED
      BY <1>1, <3>1, <3>2, <3>3 DEF Typed, TypeOK
  <2>3. DOMAIN pc' = Procs /\ DOMAIN ret' = Procs /\ DOMAIN call' = Procs
    BY Domains
  <2> QED
    BY <1>1, <1>2, <2>1, <2>2, <2>3, TypedStep
<1>8. Shape(p)'
  BY <1>1, <1>3, <1>4, Domains, ProcsAssumption DEF Shape, Putting, Rets, WithCur, WithIp, Renaming, Looking, AtEnd
<1>9. Stays(p)'
  BY <1>1, <1>3, <1>4 DEF Stays, AtEnd, disk, table
<1>10. \A t \in Slots : Locks(p, t)' <=> Locks(p, t)
  BY <1>1, <1>3, <1>4, Domains DEF Locks, LockCur, LockIp
<1>12. Owners'
  BY <1>1, <1>2, <1>3, <1>4, <1>10, Domains, OwnersStep, ProcsAssumption DEF Owners, table
<1> QED
  BY <1>2, <1>5, <1>6, <1>7, <1>8, <1>9, <1>10, <1>12, StepQuiet DEF Unlocks, disk, table

LEMMA ReuseFailsStep ==
  ASSUME IInv, NEW p \in Procs, ReuseFails(p)
  PROVE  IInv'
<1> USE DEF ReuseFails, PutThen, EndCall, Goto, Unlocked
<1>1. Shape(p) /\ Stays(p) /\ CallOK(p) /\ Typed /\ Owners
  BY DEF IInv, Typed
<1>2. Frame(p)
  BY Domains DEF Frame, At
<1>3. Stage(p) = "reuse" /\ put[p] = None /\ cur[p] = None /\ ip[p] \in Slots
  BY <1>1, Domains, ProcsAssumption DEF Shape, Stage, Putting, AtEnd, WithCur, WithIp, Renaming
<1>4. pc'[p] = "iput" /\ put'[p] = ip[p] /\ Stage(p)' = ret'[p] /\ ret'[p] = "idle"
      /\ ip'[p] = None /\ Op(p)' = "none"
  BY <1>1, <1>3, Domains, NoCallOK DEF Stage, Putting, Op, Elems, CallOK
<1>5. Moves(p, Swap("ip", "put"))
  BY <1>1, <1>3, <1>4, Domains, SwapMoves DEF At, Kinds
<1>6. Plain(p) /\ SameDebt(p)
  BY <1>1, <1>3, <1>4 DEF Plain, SameDebt, Owes, Shape, Renaming, table
<1>7. Typed'
  <2>1. CallOK(p)'
    BY <1>1, <1>3, <1>4, NoCallOK DEF CallOK, Op
  <2>2. TypeOK'
    <3>1. /\ cur' \in [Procs -> Slots \cup {None}] /\ ip' \in [Procs -> Slots \cup {None}]
          /\ put' \in [Procs -> Slots \cup {None}] /\ fd' \in [Procs -> Slots \cup {None}]
          /\ cwd' \in [Procs -> Slots]
      BY <1>1, <1>3, <1>4, Domains
    <3>2. owner' \in [Slots -> Procs \cup {None}] /\ scan' \in [Procs -> 0..(NInodes + 1)]
      BY <1>1, <1>3, <1>4, Domains, SizeAssumption DEF table, Inums
    <3>3. UNCHANGED <<dtype, dlink, ents, up, inum, ref, valid, type, nlink>>
      BY DEF disk, table
    <3> QED
      BY <1>1, <3>1, <3>2, <3>3 DEF Typed, TypeOK
  <2>3. DOMAIN pc' = Procs /\ DOMAIN ret' = Procs /\ DOMAIN call' = Procs
    BY Domains
  <2> QED
    BY <1>1, <1>2, <2>1, <2>2, <2>3, TypedStep
<1>8. Shape(p)'
  BY <1>1, <1>3, <1>4, Domains, ProcsAssumption DEF Shape, Putting, Rets, WithCur, WithIp, Renaming, Looking, AtEnd
<1>9. Stays(p)'
  BY <1>1, <1>3, <1>4 DEF Stays, AtEnd, disk, table
<1>10. \A t \in Slots : Locks(p, t)' <=> Locks(p, t) /\ t # ip[p]
  <2>1. Locks(p, ip[p])
    BY <1>1, <1>3 DEF Locks, LockCur, LockIp
  <2> QED
    BY <1>1, <1>3, <1>4, <2>1, Domains DEF Locks, LockCur, LockIp
<1>11. owner[ip[p]] = p
  BY <1>1, <1>3 DEF Owners, Locks, LockCur, LockIp
<1>12. Owners'
  BY <1>1, <1>2, <1>3, <1>4, <1>10, <1>11, Domains, OwnersStep, ProcsAssumption DEF Owners
<1> QED
  BY <1>2, <1>5, <1>6, <1>7, <1>8, <1>9, <1>10, <1>12, StepQuiet DEF Unlocks, disk, table

LEMMA CreateStartStep ==
  ASSUME IInv, NEW p \in Procs, CreateStart(p)
  PROVE  IInv'
<1> USE DEF CreateStart, PutThen, EndCall, Goto, Unlocked, Creates
<1>1. Shape(p) /\ Stays(p) /\ CallOK(p) /\ Typed /\ Owners
  BY DEF IInv, Typed
<1>2. Frame(p)
  BY Domains DEF Frame, At
<1>3. Stage(p) = "change" /\ put[p] = None /\ cur[p] \in Slots /\ Op(p) \in {"create", "mkdir"}
  BY <1>1, Domains, ProcsAssumption DEF Shape, Stage, Putting, AtEnd, WithCur, WithIp, Renaming, Creates
<1>4. pc'[p] = "ialloc" /\ Stage(p)' = "ialloc" /\ Op(p)' = Op(p) /\ Elems(p)' = Elems(p) /\ Child(p)' = Child(p)
  BY <1>1, <1>3, Domains, NoCallOK DEF Stage, Putting, Op, Elems, CallOK, Child, disk, table
<1>5. Moves(p, Swap("cur", "cur"))
  BY <1>1, <1>3, <1>4, Domains, SwapMoves DEF At, Kinds
<1>6. Plain(p) /\ SameDebt(p)
  BY <1>1, <1>3, <1>4 DEF Plain, SameDebt, Owes, Shape, Renaming, table
<1>7. Typed'
  <2>1. CallOK(p)'
    BY <1>1, <1>3, <1>4, NoCallOK DEF CallOK, Op
  <2>2. TypeOK'
    <3>1. /\ cur' \in [Procs -> Slots \cup {None}] /\ ip' \in [Procs -> Slots \cup {None}]
          /\ put' \in [Procs -> Slots \cup {None}] /\ fd' \in [Procs -> Slots \cup {None}]
          /\ cwd' \in [Procs -> Slots]
      BY <1>1, <1>3, <1>4, Domains
    <3>2. owner' \in [Slots -> Procs \cup {None}] /\ scan' \in [Procs -> 0..(NInodes + 1)]
      BY <1>1, <1>3, <1>4, Domains, SizeAssumption DEF table, Inums
    <3>3. UNCHANGED <<dtype, dlink, ents, up, inum, ref, valid, type, nlink>>
      BY DEF disk, table
    <3> QED
      BY <1>1, <3>1, <3>2, <3>3 DEF Typed, TypeOK
  <2>3. DOMAIN pc' = Procs /\ DOMAIN ret' = Procs /\ DOMAIN call' = Procs
    BY Domains
  <2> QED
    BY <1>1, <1>2, <2>1, <2>2, <2>3, TypedStep
<1>8. Shape(p)'
  BY <1>1, <1>3, <1>4, Domains, ProcsAssumption DEF Shape, Putting, Rets, WithCur, WithIp, Renaming, Looking, AtEnd
<1>9. Stays(p)'
  <2>1. Settled(inum[cur[p]])
    BY <1>3, Pointed, ProcsAssumption DEF At, Kinds, Dead, Fresh, Inode
  <2>2. Head(Elems(p)) # ".."
    BY <1>1, <1>3, <2>1 DEF Stays, AtEnd, Settled, Child, Inums
  <2> QED
    BY <1>1, <1>3, <1>4, <2>2 DEF Stays, AtEnd, disk, table
<1>10. \A t \in Slots : Locks(p, t)' <=> Locks(p, t)
  BY <1>1, <1>3, <1>4, Domains DEF Locks, LockCur, LockIp
<1>12. Owners'
  BY <1>1, <1>2, <1>3, <1>4, <1>10, Domains, OwnersStep, ProcsAssumption DEF Owners, table
<1> QED
  BY <1>2, <1>5, <1>6, <1>7, <1>8, <1>9, <1>10, <1>12, StepQuiet DEF Unlocks, disk, table

LEMMA IallocNextStep ==
  ASSUME IInv, NEW p \in Procs, IallocNext(p)
  PROVE  IInv'
<1> USE DEF IallocNext, PutThen, EndCall, Goto, Unlocked
<1>1. Shape(p) /\ Stays(p) /\ CallOK(p) /\ Typed /\ Owners
  BY DEF IInv, Typed
<1>2. Frame(p)
  BY Domains DEF Frame, At
<1>3. Stage(p) = "ialloc" /\ put[p] = None /\ cur[p] \in Slots /\ scan[p] + 1 \in 0..(NInodes + 1)
  <2>1. Stage(p) = "ialloc" /\ pc[p] = "ialloc"
    BY DEF Stage, Putting
  <2>2. put[p] = None /\ cur[p] \in Slots
    BY <1>1, <2>1, Domains DEF Shape, Putting, AtEnd, WithCur
  <2>3. scan[p] + 1 \in 0..(NInodes + 1)
    BY SizeAssumption DEF Inums
  <2> QED
    BY <2>1, <2>2, <2>3
<1>4. pc'[p] = "ialloc" /\ Stage(p)' = "ialloc" /\ Op(p)' = Op(p) /\ Elems(p)' = Elems(p) /\ Child(p)' = Child(p)
  BY <1>1, <1>3, Domains, NoCallOK DEF Stage, Putting, Op, Elems, CallOK, Child, disk, table
<1>5. Moves(p, Swap("cur", "cur"))
  BY <1>1, <1>3, <1>4, Domains, SwapMoves DEF At, Kinds
<1>6. Plain(p) /\ SameDebt(p)
  BY <1>1, <1>3, <1>4 DEF Plain, SameDebt, Owes, Shape, Renaming, table
<1>7. Typed'
  <2>1. CallOK(p)'
    BY <1>1, <1>3, <1>4, NoCallOK DEF CallOK, Op
  <2>2. TypeOK'
    <3>1. /\ cur' \in [Procs -> Slots \cup {None}] /\ ip' \in [Procs -> Slots \cup {None}]
          /\ put' \in [Procs -> Slots \cup {None}] /\ fd' \in [Procs -> Slots \cup {None}]
          /\ cwd' \in [Procs -> Slots]
      BY <1>1, <1>3, <1>4, Domains
    <3>2. owner' \in [Slots -> Procs \cup {None}] /\ scan' \in [Procs -> 0..(NInodes + 1)]
      BY <1>1, <1>3, <1>4, Domains, SizeAssumption DEF table, Inums
    <3>3. UNCHANGED <<dtype, dlink, ents, up, inum, ref, valid, type, nlink>>
      BY DEF disk, table
    <3> QED
      BY <1>1, <3>1, <3>2, <3>3 DEF Typed, TypeOK
  <2>3. DOMAIN pc' = Procs /\ DOMAIN ret' = Procs /\ DOMAIN call' = Procs
    BY Domains
  <2> QED
    BY <1>1, <1>2, <2>1, <2>2, <2>3, TypedStep
<1>8. Shape(p)'
  BY <1>1, <1>3, <1>4, Domains, ProcsAssumption DEF Shape, Putting, Rets, WithCur, WithIp, Renaming, Looking, AtEnd
<1>9. Stays(p)'
  BY <1>1, <1>3, <1>4 DEF Stays, AtEnd, disk, table
<1>10. \A t \in Slots : Locks(p, t)' <=> Locks(p, t)
  BY <1>1, <1>3, <1>4, Domains DEF Locks, LockCur, LockIp
<1>12. Owners'
  BY <1>1, <1>2, <1>3, <1>4, <1>10, Domains, OwnersStep, ProcsAssumption DEF Owners, table
<1> QED
  BY <1>2, <1>5, <1>6, <1>7, <1>8, <1>9, <1>10, <1>12, StepQuiet DEF Unlocks, disk, table

LEMMA IallocPanicStep ==
  ASSUME IInv, NEW p \in Procs, IallocPanic(p)
  PROVE  IInv'
<1> USE DEF IallocPanic, PutThen, EndCall, Goto, Unlocked
<1>1. Shape(p) /\ Stays(p) /\ CallOK(p) /\ Typed /\ Owners
  BY DEF IInv, Typed
<1>2. Frame(p)
  BY Domains DEF Frame, At
<1>3. Stage(p) = "ialloc" /\ put[p] = None /\ cur[p] \in Slots
  BY <1>1, Domains, ProcsAssumption DEF Shape, Stage, Putting, AtEnd, WithCur, WithIp, Renaming
<1>4. pc'[p] = "panic" /\ Stage(p)' = "panic" /\ Op(p)' = Op(p) /\ Elems(p)' = Elems(p)
  BY <1>1, <1>3, Domains, NoCallOK DEF Stage, Putting, Op, Elems, CallOK
<1>5. Moves(p, Swap("cur", "cur"))
  BY <1>1, <1>3, <1>4, Domains, SwapMoves DEF At, Kinds
<1>6. Plain(p) /\ SameDebt(p)
  BY <1>1, <1>3, <1>4 DEF Plain, SameDebt, Owes, Shape, Renaming, table
<1>7. Typed'
  <2>1. CallOK(p)'
    BY <1>1, <1>3, <1>4, NoCallOK DEF CallOK, Op
  <2>2. TypeOK'
    <3>1. /\ cur' \in [Procs -> Slots \cup {None}] /\ ip' \in [Procs -> Slots \cup {None}]
          /\ put' \in [Procs -> Slots \cup {None}] /\ fd' \in [Procs -> Slots \cup {None}]
          /\ cwd' \in [Procs -> Slots]
      BY <1>1, <1>3, <1>4, Domains
    <3>2. owner' \in [Slots -> Procs \cup {None}] /\ scan' \in [Procs -> 0..(NInodes + 1)]
      BY <1>1, <1>3, <1>4, Domains, SizeAssumption DEF table, Inums
    <3>3. UNCHANGED <<dtype, dlink, ents, up, inum, ref, valid, type, nlink>>
      BY DEF disk, table
    <3> QED
      BY <1>1, <3>1, <3>2, <3>3 DEF Typed, TypeOK
  <2>3. DOMAIN pc' = Procs /\ DOMAIN ret' = Procs /\ DOMAIN call' = Procs
    BY Domains
  <2> QED
    BY <1>1, <1>2, <2>1, <2>2, <2>3, TypedStep
<1>8. Shape(p)'
  BY <1>1, <1>3, <1>4, Domains, ProcsAssumption DEF Shape, Putting, Rets, WithCur, WithIp, Renaming, Looking, AtEnd
<1>9. Stays(p)'
  BY <1>1, <1>3, <1>4 DEF Stays, AtEnd, disk, table
<1>10. \A t \in Slots : Locks(p, t)' <=> Locks(p, t)
  BY <1>1, <1>3, <1>4, Domains DEF Locks, LockCur, LockIp
<1>12. Owners'
  BY <1>1, <1>2, <1>3, <1>4, <1>10, Domains, OwnersStep, ProcsAssumption DEF Owners, table
<1> QED
  BY <1>2, <1>5, <1>6, <1>7, <1>8, <1>9, <1>10, <1>12, StepQuiet DEF Unlocks, disk, table

LEMMA BadDirStep ==
  ASSUME IInv, NEW p \in Procs, BadDir(p)
  PROVE  IInv'
<1> USE DEF BadDir, PutThen, EndCall, Goto, Unlocked
<1>1. Shape(p) /\ Stays(p) /\ CallOK(p) /\ Typed /\ Owners
  BY DEF IInv, Typed
<1>2. Frame(p)
  BY Domains DEF Frame, At
<1>3. Stage(p) \in {"bad", "change"} /\ put[p] = None /\ cur[p] \in Slots
  BY <1>1, Domains, ProcsAssumption DEF Shape, Stage, Putting, AtEnd, WithCur, WithIp, Renaming
<1>4. pc'[p] = "iput" /\ put'[p] = cur[p] /\ Stage(p)' = ret'[p] /\ ret'[p] = (IF Op(p) = "newname" THEN "undo" ELSE "idle")
      /\ cur'[p] = None /\ Op(p)' = "none"
  BY <1>1, <1>3, Domains, NoCallOK DEF Stage, Putting, Op, Elems, CallOK
<1>5. Moves(p, Swap("cur", "put"))
  BY <1>1, <1>3, <1>4, Domains, SwapMoves DEF At, Kinds
<1>6. Plain(p) /\ SameDebt(p)
  BY <1>1, <1>3, <1>4 DEF Plain, SameDebt, Owes, Shape, Renaming, table
<1>7. Typed'
  <2>1. CallOK(p)'
    BY <1>1, <1>3, <1>4, NoCallOK DEF CallOK, Op
  <2>2. TypeOK'
    <3>1. /\ cur' \in [Procs -> Slots \cup {None}] /\ ip' \in [Procs -> Slots \cup {None}]
          /\ put' \in [Procs -> Slots \cup {None}] /\ fd' \in [Procs -> Slots \cup {None}]
          /\ cwd' \in [Procs -> Slots]
      BY <1>1, <1>3, <1>4, Domains
    <3>2. owner' \in [Slots -> Procs \cup {None}] /\ scan' \in [Procs -> 0..(NInodes + 1)]
      BY <1>1, <1>3, <1>4, Domains, SizeAssumption DEF table, Inums
    <3>3. UNCHANGED <<dtype, dlink, ents, up, inum, ref, valid, type, nlink>>
      BY DEF disk, table
    <3> QED
      BY <1>1, <3>1, <3>2, <3>3 DEF Typed, TypeOK
  <2>3. DOMAIN pc' = Procs /\ DOMAIN ret' = Procs /\ DOMAIN call' = Procs
    BY Domains
  <2> QED
    BY <1>1, <1>2, <2>1, <2>2, <2>3, TypedStep
<1>8. Shape(p)'
  BY <1>1, <1>3, <1>4, Domains, ProcsAssumption DEF Shape, Putting, Rets, WithCur, WithIp, Renaming, Looking, AtEnd
<1>9. Stays(p)'
  BY <1>1, <1>3, <1>4 DEF Stays, AtEnd, disk, table
<1>10. \A t \in Slots : Locks(p, t)' <=> Locks(p, t) /\ t # cur[p]
  <2>1. Locks(p, cur[p])
    BY <1>1, <1>3 DEF Locks, LockCur, LockIp
  <2> QED
    BY <1>1, <1>3, <1>4, <2>1, Domains DEF Locks, LockCur, LockIp
<1>11. owner[cur[p]] = p
  BY <1>1, <1>3 DEF Owners, Locks, LockCur, LockIp
<1>12. Owners'
  BY <1>1, <1>2, <1>3, <1>4, <1>10, <1>11, Domains, OwnersStep, ProcsAssumption DEF Owners
<1> QED
  BY <1>2, <1>5, <1>6, <1>7, <1>8, <1>9, <1>10, <1>12, StepQuiet DEF Unlocks, disk, table

LEMMA UnlinkFailsStep ==
  ASSUME IInv, NEW p \in Procs, UnlinkFails(p)
  PROVE  IInv'
<1> USE DEF UnlinkFails, PutThen, EndCall, Goto, Unlocked
<1>1. Shape(p) /\ Stays(p) /\ CallOK(p) /\ Typed /\ Owners
  BY DEF IInv, Typed
<1>2. Frame(p)
  BY Domains DEF Frame, At
<1>3. Stage(p) = "remove" /\ put[p] = None /\ cur[p] \in Slots /\ ip[p] \in Slots /\ Op(p) # "newname" /\ cur[p] # ip[p]
  BY <1>1, Apart, Domains, ProcsAssumption DEF Shape, Stage, Putting, AtEnd, WithCur, WithIp, Renaming
<1>4. pc'[p] = "iput" /\ put'[p] = ip[p] /\ Stage(p)' = ret'[p] /\ ret'[p] = "bad"
      /\ ip'[p] = None /\ Op(p)' = Op(p)
  BY <1>1, <1>3, Domains, NoCallOK DEF Stage, Putting, Op, Elems, CallOK
<1>5. Moves(p, Swap("ip", "put"))
  BY <1>1, <1>3, <1>4, Domains, SwapMoves DEF At, Kinds
<1>6. Plain(p) /\ SameDebt(p)
  BY <1>1, <1>3, <1>4 DEF Plain, SameDebt, Owes, Shape, Renaming, table
<1>7. Typed'
  <2>1. CallOK(p)'
    BY <1>1, <1>3, <1>4, NoCallOK DEF CallOK, Op
  <2>2. TypeOK'
    <3>1. /\ cur' \in [Procs -> Slots \cup {None}] /\ ip' \in [Procs -> Slots \cup {None}]
          /\ put' \in [Procs -> Slots \cup {None}] /\ fd' \in [Procs -> Slots \cup {None}]
          /\ cwd' \in [Procs -> Slots]
      BY <1>1, <1>3, <1>4, Domains
    <3>2. owner' \in [Slots -> Procs \cup {None}] /\ scan' \in [Procs -> 0..(NInodes + 1)]
      BY <1>1, <1>3, <1>4, Domains, SizeAssumption DEF table, Inums
    <3>3. UNCHANGED <<dtype, dlink, ents, up, inum, ref, valid, type, nlink>>
      BY DEF disk, table
    <3> QED
      BY <1>1, <3>1, <3>2, <3>3 DEF Typed, TypeOK
  <2>3. DOMAIN pc' = Procs /\ DOMAIN ret' = Procs /\ DOMAIN call' = Procs
    BY Domains
  <2> QED
    BY <1>1, <1>2, <2>1, <2>2, <2>3, TypedStep
<1>8. Shape(p)'
  BY <1>1, <1>3, <1>4, Domains, ProcsAssumption DEF Shape, Putting, Rets, WithCur, WithIp, Renaming, Looking, AtEnd
<1>9. Stays(p)'
  BY <1>1, <1>3, <1>4 DEF Stays, AtEnd, disk, table
<1>10. \A t \in Slots : Locks(p, t)' <=> Locks(p, t) /\ t # ip[p]
  <2>1. Locks(p, ip[p])
    BY <1>1, <1>3 DEF Locks, LockCur, LockIp
  <2> QED
    BY <1>1, <1>3, <1>4, <2>1, Domains DEF Locks, LockCur, LockIp
<1>11. owner[ip[p]] = p
  BY <1>1, <1>3 DEF Owners, Locks, LockCur, LockIp
<1>12. Owners'
  BY <1>1, <1>2, <1>3, <1>4, <1>10, <1>11, Domains, OwnersStep, ProcsAssumption DEF Owners
<1> QED
  BY <1>2, <1>5, <1>6, <1>7, <1>8, <1>9, <1>10, <1>12, StepQuiet DEF Unlocks, disk, table

LEMMA LinkDoneStep ==
  ASSUME IInv, NEW p \in Procs, LinkDone(p)
  PROVE  IInv'
<1> USE DEF LinkDone, PutThen, EndCall, Goto, Unlocked
<1>1. Shape(p) /\ Stays(p) /\ CallOK(p) /\ Typed /\ Owners
  BY DEF IInv, Typed
<1>2. Frame(p)
  BY Domains DEF Frame, At
<1>3. Stage(p) = "linked" /\ put[p] = None /\ cur[p] = None /\ ip[p] \in Slots
  BY <1>1, Domains, ProcsAssumption DEF Shape, Stage, Putting, AtEnd, WithCur, WithIp, Renaming
<1>4. pc'[p] = "iput" /\ put'[p] = ip[p] /\ Stage(p)' = ret'[p] /\ ret'[p] = "idle"
      /\ ip'[p] = None /\ Op(p)' = "none"
  BY <1>1, <1>3, Domains, NoCallOK DEF Stage, Putting, Op, Elems, CallOK
<1>5. Moves(p, Swap("ip", "put"))
  BY <1>1, <1>3, <1>4, Domains, SwapMoves DEF At, Kinds
<1>6. Plain(p) /\ SameDebt(p)
  BY <1>1, <1>3, <1>4 DEF Plain, SameDebt, Owes, Shape, Renaming, table
<1>7. Typed'
  <2>1. CallOK(p)'
    BY <1>1, <1>3, <1>4, NoCallOK DEF CallOK, Op
  <2>2. TypeOK'
    <3>1. /\ cur' \in [Procs -> Slots \cup {None}] /\ ip' \in [Procs -> Slots \cup {None}]
          /\ put' \in [Procs -> Slots \cup {None}] /\ fd' \in [Procs -> Slots \cup {None}]
          /\ cwd' \in [Procs -> Slots]
      BY <1>1, <1>3, <1>4, Domains
    <3>2. owner' \in [Slots -> Procs \cup {None}] /\ scan' \in [Procs -> 0..(NInodes + 1)]
      BY <1>1, <1>3, <1>4, Domains, SizeAssumption DEF table, Inums
    <3>3. UNCHANGED <<dtype, dlink, ents, up, inum, ref, valid, type, nlink>>
      BY DEF disk, table
    <3> QED
      BY <1>1, <3>1, <3>2, <3>3 DEF Typed, TypeOK
  <2>3. DOMAIN pc' = Procs /\ DOMAIN ret' = Procs /\ DOMAIN call' = Procs
    BY Domains
  <2> QED
    BY <1>1, <1>2, <2>1, <2>2, <2>3, TypedStep
<1>8. Shape(p)'
  BY <1>1, <1>3, <1>4, Domains, ProcsAssumption DEF Shape, Putting, Rets, WithCur, WithIp, Renaming, Looking, AtEnd
<1>9. Stays(p)'
  BY <1>1, <1>3, <1>4 DEF Stays, AtEnd, disk, table
<1>10. \A t \in Slots : Locks(p, t)' <=> Locks(p, t)
  BY <1>1, <1>3, <1>4, Domains DEF Locks, LockCur, LockIp
<1>12. Owners'
  BY <1>1, <1>2, <1>3, <1>4, <1>10, Domains, OwnersStep, ProcsAssumption DEF Owners, table
<1> QED
  BY <1>2, <1>5, <1>6, <1>7, <1>8, <1>9, <1>10, <1>12, StepQuiet DEF Unlocks, disk, table

LEMMA IgetPanicStep ==
  ASSUME IInv, NEW p \in Procs, IgetPanic(p)
  PROVE  IInv'
<1> USE DEF IgetPanic, PutThen, EndCall, Goto, Unlocked
<1>1. Shape(p) /\ Stays(p) /\ CallOK(p) /\ Typed /\ Owners
  BY DEF IInv, Typed
<1>2. Frame(p)
  BY Domains DEF Frame, At
<1>3. Stage(p) \in {"start", "walk", "change", "alloced"} /\ Stage(p) = pc[p] /\ put[p] = None
  BY <1>1, Domains, ProcsAssumption DEF Shape, Stage, Putting, AtEnd, WithCur, WithIp, Renaming, Wanted
<1>4. pc'[p] = "igetPanic" /\ Stage(p)' = "igetPanic" /\ Op(p)' = Op(p) /\ Elems(p)' = Elems(p)
  BY <1>1, <1>3, Domains, NoCallOK DEF Stage, Putting, Op, Elems, CallOK
<1>5. Moves(p, Swap("cur", "cur"))
  BY <1>1, <1>3, <1>4, Domains, SwapMoves DEF At, Kinds
<1>6. Plain(p) /\ SameDebt(p)
  BY <1>1, <1>3, <1>4 DEF Plain, SameDebt, Owes, Shape, Renaming, table
<1>7. Typed'
  <2>1. CallOK(p)'
    BY <1>1, <1>3, <1>4, NoCallOK DEF CallOK, Op
  <2>2. TypeOK'
    <3>1. /\ cur' \in [Procs -> Slots \cup {None}] /\ ip' \in [Procs -> Slots \cup {None}]
          /\ put' \in [Procs -> Slots \cup {None}] /\ fd' \in [Procs -> Slots \cup {None}]
          /\ cwd' \in [Procs -> Slots]
      BY <1>1, <1>3, <1>4, Domains
    <3>2. owner' \in [Slots -> Procs \cup {None}] /\ scan' \in [Procs -> 0..(NInodes + 1)]
      BY <1>1, <1>3, <1>4, Domains, SizeAssumption DEF table, Inums
    <3>3. UNCHANGED <<dtype, dlink, ents, up, inum, ref, valid, type, nlink>>
      BY DEF disk, table
    <3> QED
      BY <1>1, <3>1, <3>2, <3>3 DEF Typed, TypeOK
  <2>3. DOMAIN pc' = Procs /\ DOMAIN ret' = Procs /\ DOMAIN call' = Procs
    BY Domains
  <2> QED
    BY <1>1, <1>2, <2>1, <2>2, <2>3, TypedStep
<1>8. Shape(p)'
  BY <1>1, <1>3, <1>4, Domains, ProcsAssumption DEF Shape, Putting, Rets, WithCur, WithIp, Renaming, Looking, AtEnd
<1>9. Stays(p)'
  BY <1>1, <1>3, <1>4 DEF Stays, AtEnd, disk, table
<1>10. \A t \in Slots : Locks(p, t)' => Locks(p, t)
  BY <1>1, <1>3, <1>4, Domains DEF Locks, LockCur, LockIp
<1>11. \A t \in Slots : Locks(p, t) => t = cur[p]
  BY <1>1, <1>3, Domains DEF Locks, LockIp
<1>12. Owners'
  BY <1>1, <1>2, <1>3, <1>4, <1>10, <1>11, Domains, OwnersStep, ProcsAssumption DEF Owners, table
<1> QED
  BY <1>2, <1>5, <1>6, <1>7, <1>8, <1>9, <1>10, <1>12, StepQuiet DEF Unlocks, disk, table

-----------------------------------------------------------------------------
(* Steps that take a reference: iget() and idup().                         *)

\* s is the entry of inode i, and has one reference more.
Gets(i, s) ==
  /\ s \in Slots /\ i \in Inums /\ inum'[s] = i /\ ref'[s] = ref[s] + 1
  /\ \A t \in Slots \ {s} : inum'[t] = inum[t] /\ valid'[t] = valid[t] /\ ref'[t] = ref[t]
  /\ IF ref[s] > 0 THEN inum[s] = i /\ valid'[s] = valid[s] ELSE ~valid'[s] /\ Holders(i) = {}
  /\ inum' \in [Slots -> 0..NInodes] /\ ref' \in [Slots -> Nat] /\ valid' \in [Slots -> BOOLEAN]

LEMMA IgetGets ==
  ASSUME IInv, NEW i \in Inums, NEW s \in Slots, Iget(i, s)
  PROVE  Gets(i, s)
<1>1. i \in 0..NInodes /\ 1 \in Nat
  BY SizeAssumption DEF Inums
<1>2. CASE IgetHit(i, s)
  <2>1. ref[s] > 0 /\ inum[s] = i
    BY <1>2 DEF IgetHit, Holders
  <2> QED
    BY <1>1, <1>2, <2>1, Domains DEF IgetHit, Gets
<1>3. CASE IgetNew(i, s)
  <2>1. ref[s] = 0 /\ Holders(i) = {}
    BY <1>3 DEF IgetNew, Empty
  <2> QED
    BY <1>1, <1>3, <2>1, Domains DEF IgetNew, Gets
<1> QED
  BY <1>2, <1>3 DEF Iget

LEMMA IdupGets ==
  ASSUME IInv, NEW s \in Slots, ref[s] > 0, Idup(s)
  PROVE  Gets(inum[s], s)
<1>1. inum[s] \in Inums
  BY DEF IInv, InTable
<1> QED
  BY <1>1, Domains DEF Idup, Gets

\* An inode that a process may look up: nobody makes it or frees it.
Known(i) == /\ Settled(i)
            /\ \A q \in Procs : Making(q) # i /\ (pc[q] = "free" => inum[put[q]] # i)

LEMMA LinkedKnown ==
  ASSUME IInv, NEW i \in Inums, Settled(i), dlink[i] # 0
  PROVE  Known(i)
<1>1. ASSUME NEW q \in Procs, Making(q) = i PROVE FALSE
  <2>1. Private(q, i)
    BY <1>1, SizeAssumption DEF IInv, Privates, Inums
  <2> QED
    BY <2>1 DEF Private
<1>2. ASSUME NEW q \in Procs, pc[q] = "free", inum[put[q]] = i PROVE FALSE
  <2>1. put[q] \in Slots /\ ref[put[q]] = 1 /\ valid[put[q]] /\ nlink[put[q]] = 0
    BY <1>2, Domains DEF IInv, Freers, Shape, Putting
  <2>2. nlink[put[q]] = dlink[i]
    BY <2>1, <1>2 DEF IInv, Copies
  <2> QED
    BY <2>1, <2>2
<1> QED
  BY <1>1, <1>2 DEF Known

LEMMA RootKnown ==
  ASSUME IInv
  PROVE  Root \in Inums /\ Known(Root)
<1>1. Root \in Inums
  BY SizeAssumption DEF Root, Inums
<1>2. Settled(Root)
  BY <1>1 DEF IInv, RootStays, Settled
<1>3. dlink[Root] # 0
  BY <1>1, Unlinked DEF IInv
<1> QED
  BY <1>1, <1>2, <1>3, LinkedKnown

\* What a name leads to.
LEMMA NamedKnown ==
  ASSUME IInv, NEW d \in Inums, NEW n \in Names, ents[d][n] # 0
  PROVE  ents[d][n] \in Inums /\ Known(ents[d][n])
<1> DEFINE i == ents[d][n]
<1>1. i \in Inums
  BY Domains, SizeAssumption DEF Inums
<1>2. Settled(i)
  BY DEF IInv, Entries, Settled
<1>3. dlink[i] # 0
  <2>1. <<d, n>> \in NamesOf(i)
    BY DEF NamesOf
  <2> QED
    BY <1>1, <2>1, Unlinked DEF IInv
<1> QED
  BY <1>1, <1>2, <1>3, LinkedKnown

\* What ".." leads to.
LEMMA UpKnown ==
  ASSUME IInv, NEW d \in Inums, dtype[d] = "dir", d = Root \/ NamesOf(d) # {}
  PROVE  up[d] \in Inums /\ Known(up[d])
<1>1. CASE d = Root
  BY <1>1, RootKnown DEF IInv, RootStays
<1>2. CASE NamesOf(d) # {}
  <2>1. PICK e \in Inums, n \in Names : ents[e][n] = d
    BY <1>2 DEF NamesOf
  <2>2. ents[e][n] # 0
    BY <2>1, SizeAssumption DEF Inums
  <2>3. dtype[e] = "dir" /\ up[e] \in Inums /\ up[d] = e
    BY <2>1, <2>2 DEF IInv, Entries
  <2>4. n \in Subdirs(e)
    BY <2>1, <2>2 DEF Subdirs
  <2>5. dlink[e] # 0
    BY <2>4, Unlinked DEF IInv
  <2> QED
    BY <2>3, <2>5, LinkedKnown DEF Settled
<1> QED
  BY <1>1, <1>2

\* What a process has in hand.
LEMMA HeldKnown ==
  ASSUME IInv, NEW p \in Procs
  PROVE  cwd[p] \in Slots /\ ref[cwd[p]] > 0 /\ inum[cwd[p]] \in Inums /\ Known(inum[cwd[p]])
<1>1. At("cwd", p) = cwd[p] /\ "cwd" \in Kinds /\ ~Dead("cwd", p) /\ ~Fresh("cwd", p)
  BY DEF At, Kinds, Dead, Fresh
<1>2. cwd[p] \in Slots /\ cwd[p] # None
  BY Domains, ProcsAssumption
<1>3. ref[cwd[p]] > 0 /\ inum[cwd[p]] \in Inums /\ Settled(inum[cwd[p]])
  BY <1>1, <1>2, Pointed DEF Inode
<1>4. ASSUME NEW q \in Procs, Making(q) = inum[cwd[p]] PROVE FALSE
  <2>1. Private(q, inum[cwd[p]])
    BY <1>3, <1>4, SizeAssumption DEF IInv, Privates, Inums
  <2> QED
    BY <1>1, <1>2, <2>1 DEF Private, Inode
<1>5. ASSUME NEW q \in Procs, pc[q] = "free", inum[put[q]] = inum[cwd[p]] PROVE FALSE
  <2>1. put[q] \in Slots /\ ref[put[q]] = 1
    BY <1>5, Domains DEF IInv, Freers, Shape, Putting
  <2>2. put[q] = cwd[p]
    BY <1>2, <1>3, <1>5, <2>1 DEF IInv, OneEntryPerInode
  <2>3. At("put", q) = put[q] /\ "put" \in Kinds
    BY DEF At, Kinds
  <2> QED
    BY <1>1, <1>2, <2>1, <2>2, <2>3, HeldTwice DEF IInv
<1> QED
  BY <1>2, <1>3, <1>4, <1>5 DEF Known

\* The inode that p is making, of which it has no entry yet.
Opens(p, i) == pc[p] = "alloced" /\ call' = call /\ pc'[p] = "fresh" /\ i = scan[p] /\ ip[p] = None

LEMMA StepTakes ==
  ASSUME IInv, NEW p \in Procs, NEW f, NEW b, NEW i, NEW s, Frame(p), Takes(p, f, b, s), Gets(i, s),
         SameDebt(p), Unlocks(p), UNCHANGED <<disk, type, nlink>>,
         pc[p] \notin {"fresh", "fill", "free", "freed", "drop"},
         pc'[p] \notin {"alloced", "fill", "free", "freed", "drop"},
         \/ Known(i) /\ pc'[p] # "fresh"
         \/ Opens(p, i) /\ b = "ip",
         Typed', Shape(p)', Stays(p)', Owners'
  PROVE  IInv'
<1> USE DEF disk
<1>1. s # None /\ \A t \in Slots : ref[t] \in Nat
  BY Domains, ProcsAssumption DEF Gets
<1>2. ASSUME NEW k \in Kinds, NEW q \in Procs, At(k, q) # None
      PROVE  inum'[At(k, q)] = inum[At(k, q)] /\ valid'[At(k, q)] = valid[At(k, q)]
  BY <1>2, Pointed DEF Gets
<1>3. KeepsNodes(p)
  BY <1>2 DEF KeepsNodes
<1>4. (\A q \in Procs : Shape(q)') /\ (\A q \in Procs : Stays(q)')
  BY <1>3, ShapeStep, StaysStep DEF IInv
<1>5. RefExact'
  <2> SUFFICES ASSUME NEW t \in Slots PROVE ref'[t] = Cardinality(RefsTo(t))'
    BY DEF RefExact
  <2>1. Cardinality(RefsTo(t))' = Cardinality(RefsTo(t)) + (IF t = s THEN 1 ELSE 0)
    BY <1>1, TakesCount, ProcsAssumption
  <2>2. ref'[t] = ref[t] + (IF t = s THEN 1 ELSE 0)
    BY <1>1 DEF Gets
  <2> QED
    BY <2>1, <2>2 DEF IInv, RefExact
<1>6. InTable' /\ OneEntryPerInode'
  BY <1>1 DEF IInv, InTable, OneEntryPerInode, Gets, Holders
<1>7. Loaded'
  <2>1. ASSUME NEW q \in Procs, NEW t \in Slots, Locks(q, t) PROVE valid'[t]
    BY <1>1, <2>1, LockedCopy DEF Gets
  <2> QED
    BY <2>1, LoadedStep DEF IInv, Unlocks
\* Where p's pointers come from.
<1>8. ASSUME NEW k \in Kinds, At(k, p)' # None
      PROVE  \/ k = b /\ At(k, p)' = s
             \/ \E l \in Kinds : At(k, p)' = At(l, p) /\ ~Dead(l, p) /\ ~Fresh(l, p) /\ (l = "ip" => ip[p] # None)
  <2>1. PICK l \in Kinds : f[l] = k
    BY DEF Takes, Permutes
  <2>2. ~Dead(l, p) /\ ~Fresh(l, p)
    BY DEF Dead, Fresh
  <2>3. At("ip", p) = ip[p]
    BY DEF At
  <2> QED
    BY <1>8, <2>1, <2>2, <2>3 DEF Takes
<1>9. Alive'
  <2>1. \A j : Settled(j) => Settled(j)'
    BY DEF Settled
  <2>2. ASSUME NEW k \in Kinds, At(k, p)' # None, ~Fresh(k, p)' PROVE Settled(Inode(k, p))'
    <3>1. CASE k = b /\ At(k, p)' = s
      <4>1. Known(i)
        BY <2>2, <3>1 DEF Opens, Fresh
      <4>2. Inode(k, p)' = i
        BY <3>1 DEF Gets, Inode
      <4> QED
        BY <4>1, <4>2 DEF Known, Settled
    <3>2. ASSUME NEW l \in Kinds, At(k, p)' = At(l, p), ~Dead(l, p), ~Fresh(l, p) PROVE Settled(Inode(k, p))'
      <4>1. Settled(Inode(l, p))
        BY <2>2, <3>2 DEF IInv, Alive
      <4>2. Inode(k, p)' = Inode(l, p)
        BY <1>2, <2>2, <3>2 DEF Inode
      <4> QED
        BY <4>1, <4>2 DEF Settled
    <3> QED
      BY <1>8, <2>2, <3>1, <3>2
  <2> QED
    BY <1>3, <2>1, <2>2, AliveStep DEF IInv
<1>10. ASSUME Opens(p, i), b = "ip" PROVE Private(p, i) /\ Making(p) = i /\ i # 0
  <2>1. Making(p) = i /\ i # 0
    BY <1>10, SizeAssumption DEF Opens, Making, Gets, Inums
  <2> QED
    BY <2>1 DEF IInv, Privates
<1>11. Privates'
  <2>1. ASSUME NEW q \in Procs \ {p}, Making(q) # 0 PROVE Making(q) # i
    BY <1>10 DEF Known, Private
  <2>2. ASSUME NEW q \in Procs \ {p}, Making(q) # 0, NEW k \in Kinds, At(k, p)' # None
        PROVE  Inode(k, p)' # Making(q)
    <3>1. Private(q, Making(q))
      BY <2>2 DEF IInv, Privates
    <3>2. CASE k = b /\ At(k, p)' = s
      BY <2>1, <2>2, <3>2 DEF Gets, Inode
    <3>3. ASSUME NEW l \in Kinds, At(k, p)' = At(l, p), ~Dead(l, p) PROVE Inode(k, p)' # Making(q)
      <4>1. Inode(k, p)' = Inode(l, p)
        BY <1>2, <2>2, <3>3 DEF Inode
      <4> QED
        BY <2>2, <3>1, <3>3, <4>1 DEF Private
    <3> QED
      BY <1>8, <2>2, <3>2, <3>3
  <2>3. CASE Known(i) /\ pc'[p] # "fresh"
    <3>1. Making(p)' = 0
      BY <2>3 DEF Making
    <3> QED
      BY <1>3, <2>2, <3>1, PrivatesStep DEF IInv
  <2>4. CASE Opens(p, i) /\ b = "ip"
    <3>1. ip'[p] = s
      <4>1. \E l \in Kinds : f[l] = "ip"
        BY <2>4 DEF Takes, Permutes
      <4> QED
        BY <2>4, <4>1 DEF Takes, At
    <3>2. Making(p)' = i
      BY <2>4, <3>1 DEF Making, Opens, Gets
    <3>3. Op(p)' = Op(p)
      BY <2>4 DEF Opens, Op
    <3>4. ASSUME NEW k \in Kinds, NEW q \in Procs, At(k, q)' # None, Inode(k, q)' = i
          PROVE  Dead(k, q)' \/ (k = "ip" /\ q = p)
      <4>1. CASE q # p
        <5>1. At(k, q)' = At(k, q) /\ (Dead(k, q)' <=> Dead(k, q))
          BY <4>1, FrameSame
        <5>2. Inode(k, q) = i
          BY <1>2, <3>4, <5>1 DEF Inode
        <5> QED
          BY <1>10, <2>4, <3>4, <5>1, <5>2, <4>1 DEF Private
      <4>2. CASE q = p /\ k # "ip"
        <5>1. PICK l \in Kinds : At(k, p)' = At(l, p) /\ ~Dead(l, p) /\ (l = "ip" => ip[p] # None)
          BY <1>8, <2>4, <3>4, <4>2
        <5>2. Inode(l, p) = i
          BY <1>2, <3>4, <4>2, <5>1 DEF Inode
        <5> QED
          BY <1>10, <2>4, <3>4, <4>2, <5>1, <5>2 DEF Private, Opens
      <4> QED
        BY <4>1, <4>2
    <3>5. \A q \in Procs \ {p} : Making(q)' # i
      BY <1>3, <1>10, <2>4, MakingSame DEF IInv, Private
    <3>6. Private(p, i)'
      BY <1>10, <2>4, <3>3, <3>4, <3>5 DEF Private, NoEnts
    <3> QED
      BY <1>3, <2>1, <2>2, <3>2, <3>6, PrivatesStep DEF IInv
  <2> QED
    BY <2>3, <2>4
<1>12. Copies'
  <2>1. \A t : Freeing(t)' <=> Freeing(t)
    <3>1. \A q \in Procs : (pc'[q] = "freed" <=> pc[q] = "freed") /\ (pc[q] = "freed" => put'[q] = put[q])
      BY FrameSame
    <3> QED
      BY <3>1 DEF Freeing
  <2>2. \A t \in Slots : ref'[t] > 0 /\ valid'[t] => ref[t] > 0 /\ valid[t] /\ inum'[t] = inum[t]
    BY <1>1 DEF Gets
  <2> QED
    BY <2>1, <2>2 DEF IInv, Copies
<1>13. Freers'
  <2>1. ASSUME NEW q \in Procs, pc[q] \in {"free", "freed"} PROVE At("put", q) = put[q] /\ "put" \in Kinds /\ put[q] # None
    BY <2>1 DEF IInv, Shape, Putting, At, Kinds
  <2>2. ASSUME NEW q \in Procs \ {p}, pc[q] = "free" PROVE inum[put[q]] # i
    <3>1. ~Dead("put", q)
      BY <2>2 DEF Dead
    <3> QED
      BY <1>10, <2>1, <2>2, <3>1 DEF Known, Private, Inode
  <2>3. ASSUME NEW q \in Procs \ {p}, pc[q] \in {"free", "freed"} PROVE valid'[put[q]] = valid[put[q]]
    BY <1>2, <2>1, <2>3
  <2>4. ASSUME NEW q \in Procs \ {p}, pc[q] = "free" PROVE ref'[put[q]] = ref[put[q]]
    BY <2>1, <2>2, <2>4, Pointed DEF Gets, Inode
  <2> QED
    BY <2>3, <2>4, FreersStep DEF IInv
<1>14. Counted'
  BY <1>3, CountedSame DEF IInv
<1>15. Entries' /\ RootStays'
  BY DEF IInv, Entries, RootStays
<1> QED
  BY <1>4, <1>5, <1>6, <1>7, <1>9, <1>11, <1>12, <1>13, <1>14, <1>15 DEF IInv

\* What a lookup finds.
LEMMA ChildKnown ==
  ASSUME IInv, NoneAstray, NEW p \in Procs, cur[p] \in Slots, Stage(p) = pc[p], Elems(p) # <<>>,
         dtype[inum[cur[p]]] = "dir", Child(p) # 0,
         GoesUp(p) \/ Head(Elems(p)) # ".."
  PROVE  Child(p) \in Inums /\ Known(Child(p))
<1>1. inum[cur[p]] \in Inums
  <2>1. At("cur", p) = cur[p] /\ "cur" \in Kinds
    BY DEF At, Kinds
  <2> QED
    BY <2>1, Pointed, ProcsAssumption DEF Inode
<1>2. CASE Head(Elems(p)) = ".."
  BY <1>1, <1>2, UpKnown DEF NoneAstray, Child
<1>3. CASE Head(Elems(p)) # ".."
  <2>1. Head(Elems(p)) \in Names
    BY <1>3, FirstElement DEF Elements
  <2> QED
    BY <1>1, <1>3, <2>1, NamedKnown DEF Child
<1> QED
  BY <1>2, <1>3

\* The directory gives way to the inode found in it.
Turn2 == [k \in Kinds |-> IF k = "cur" THEN "put" ELSE IF k = "put" THEN "ip" ELSE IF k = "ip" THEN "cur" ELSE k]

LEMMA NamexStartStep ==
  ASSUME IInv, NEW p \in Procs, NamexStart(p)
  PROVE  IInv'
<1> USE DEF PutThen, Goto, Unlocked
<1>1. Shape(p) /\ Stays(p) /\ CallOK(p) /\ Typed /\ Owners
  BY DEF IInv, Typed
<1>2. Frame(p)
  BY Domains DEF Frame, At, NamexStart
<1>3. Stage(p) = "start" /\ pc[p] = "start" /\ put[p] = None /\ cur[p] = None
  BY <1>1, Domains, ProcsAssumption DEF Shape, Stage, Putting, AtEnd, WithCur, WithIp, Renaming, Looking, NamexStart
<1>3a. Len(Elems(p)) = 1 => Elems(p) # <<>>
  OBVIOUS
<1>4. PICK s \in Slots : /\ IF call[p].path.abs THEN Iget(Root, s) ELSE s = cwd[p] /\ Idup(s)
                         /\ cur' = [cur EXCEPT ![p] = s]
  BY DEF NamexStart
<1>5. PICK i \in Inums : Known(i) /\ Gets(i, s)
  <2>1. CASE call[p].path.abs
    BY <1>4, <2>1, RootKnown, IgetGets
  <2>2. CASE ~call[p].path.abs
    BY <1>4, <2>2, HeldKnown, IdupGets
  <2> QED
    BY <2>1, <2>2
<1>6. cur' = [cur EXCEPT ![p] = s] /\ UNCHANGED <<disk, owner, type, nlink, call, ip, put, ret, scan, cwd, fd>>
      /\ pc' = [pc EXCEPT ![p] = "namei"]
  BY <1>4 DEF NamexStart
<1>5a. inum' \in [Slots -> 0..NInodes] /\ ref' \in [Slots -> Nat] /\ valid' \in [Slots -> BOOLEAN]
  BY <1>5 DEF Gets
<1>6a. /\ cur[p] # None => inum'[cur[p]] = inum[cur[p]]
       /\ ip[p] # None => inum'[ip[p]] = inum[ip[p]]
  <2>1. At("cur", p) = cur[p] /\ At("ip", p) = ip[p] /\ {"cur", "ip"} \subseteq Kinds
    BY DEF At, Kinds
  <2> QED
    BY <1>5, <2>1, Pointed DEF Gets
<1>7. pc'[p] = "namei" /\ Stage(p)' = "namei" /\ Op(p)' = Op(p) /\ Elems(p)' = Elems(p) /\ cur'[p] = s
  BY <1>1, <1>3, <1>5, <1>6, Domains DEF Stage, Putting, Op, Elems
<1>8. Takes(p, Swap("cur", "cur"), "cur", s)
  BY <1>1, <1>3, <1>6, <1>7, Domains, SwapMoves DEF Takes, Permutes, Swap, At, Kinds
<1>9. SameDebt(p)
  BY <1>1, <1>3, <1>6, <1>6a, <1>7 DEF SameDebt, Owes, Shape, Renaming
<1>10. Typed'
  <2>1. CallOK(p)'
    BY <1>1, <1>3, <1>6, <1>7 DEF CallOK, Op
  <2>2. TypeOK'
    <3>1. /\ cur' \in [Procs -> Slots \cup {None}] /\ ip' \in [Procs -> Slots \cup {None}]
          /\ put' \in [Procs -> Slots \cup {None}] /\ fd' \in [Procs -> Slots \cup {None}]
      BY <1>3, <1>6, Domains
    <3>2. cwd' \in [Procs -> Slots] /\ scan' \in [Procs -> 0..(NInodes + 1)]
      BY <1>6, Domains, SizeAssumption
    <3>3. owner' \in [Slots -> Procs \cup {None}]
      BY <1>6, Domains
    <3> QED
      BY <1>5a, <1>6, <3>1, <3>2, <3>3, Domains DEF TypeOK, disk, table
  <2>3. DOMAIN pc' = Procs /\ DOMAIN ret' = Procs /\ DOMAIN call' = Procs
    BY <1>6, Domains
  <2> QED
    BY <1>1, <1>2, <2>1, <2>2, <2>3, TypedStep
<1>11. Shape(p)'
  BY <1>1, <1>3, <1>6, <1>7, Domains, ProcsAssumption DEF Shape, Putting, Rets, WithCur, WithIp, Renaming, Looking, AtEnd, Gets
<1>12. Stays(p)'
  BY <1>1, <1>3, <1>6, <1>6a, <1>7 DEF Stays, Shape, AtEnd, disk, table
<1>13. \A t \in Slots : Locks(p, t)' <=> Locks(p, t)
  BY <1>1, <1>3, <1>6, <1>7, Domains DEF Locks, LockCur, LockIp
<1>15. Owners'
  BY <1>1, <1>2, <1>3, <1>6, <1>7, <1>13, Domains, OwnersStep, ProcsAssumption DEF Owners, table
<1>16. UNCHANGED <<disk, type, nlink>>
  BY <1>6 DEF table
<1> QED
  BY <1>2, <1>3, <1>5, <1>6, <1>7, <1>8, <1>9, <1>10, <1>11, <1>12, <1>13, <1>15, <1>16, StepTakes DEF Unlocks, Opens

LEMMA WalkOnStep ==
  ASSUME IInv, NEW p \in Procs, NoneAstray, WalkOn(p)
  PROVE  IInv'
<1> USE DEF PutThen, Goto, Unlocked
<1>1. Shape(p) /\ Stays(p) /\ CallOK(p) /\ Typed /\ Owners
  BY DEF IInv, Typed
<1>2. Frame(p)
  BY Domains DEF Frame, At, WalkOn
<1>3. type[cur[p]] = "dir" /\ ~AtParent(p) /\ Stage(p) = "walk" /\ pc[p] = "walk" /\ put[p] = None /\ cur[p] \in Slots /\ Elems(p) # <<>> /\ Child(p) # 0
      /\ (Op(p) \in {"create", "mkdir", "unlink", "newname"} => Len(Elems(p)) # 1)
  BY <1>1, Domains, ProcsAssumption DEF Shape, Stage, Putting, AtEnd, WithCur, WithIp, Renaming, Looking, WalkOn, AtParent
<1>3a. Len(Elems(p)) = 1 => Elems(p) # <<>>
  OBVIOUS
<1>4. PICK s \in Slots : Iget(Child(p), s) /\ cur' = [cur EXCEPT ![p] = s]
  BY DEF WalkOn
<1>5. Child(p) \in Inums /\ Known(Child(p)) /\ Gets(Child(p), s)
  <2>1. type[cur[p]] = dtype[inum[cur[p]]] /\ owner[cur[p]] = p
    BY <1>1, <1>3, LockedCopy DEF Locks, LockCur
  <2>2. dtype[inum[cur[p]]] = "dir"
    BY <1>1, <1>3, <2>1 DEF Stays, AtEnd
  <2>3. GoesUp(p) \/ Head(Elems(p)) # ".."
    BY <1>3 DEF GoesUp, Wanted, Op
  <2>4. Child(p) \in Inums /\ Known(Child(p))
    BY <1>3, <1>3a, <2>2, <2>3, ChildKnown
  <2> QED
    BY <1>4, <2>4, IgetGets
<1>6. cur' = [cur EXCEPT ![p] = s] /\ owner' = [owner EXCEPT ![cur[p]] = None]
      /\ PutThen(p, cur[p], IF Len(Elems(p)) = 1 THEN "found" ELSE "namei")
      /\ UNCHANGED <<disk, type, nlink, ip, scan, cwd, fd>> /\ call' = [call EXCEPT ![p].path.elems = Tail(@)]
  BY <1>4 DEF WalkOn
<1>5a. inum' \in [Slots -> 0..NInodes] /\ ref' \in [Slots -> Nat] /\ valid' \in [Slots -> BOOLEAN]
  BY <1>5 DEF Gets
<1>6a. /\ cur[p] # None => inum'[cur[p]] = inum[cur[p]]
       /\ ip[p] # None => inum'[ip[p]] = inum[ip[p]]
  <2>1. At("cur", p) = cur[p] /\ At("ip", p) = ip[p] /\ {"cur", "ip"} \subseteq Kinds
    BY DEF At, Kinds
  <2> QED
    BY <1>5, <2>1, Pointed DEF Gets
<1>6b. /\ call'[p] \in [op : Ops, path : AnyPath, new : AnyPath]
       /\ call'[p].new = call[p].new /\ call'[p].op = call[p].op
       /\ call'[p].path.elems = Tail(Elems(p)) /\ (Len(Elems(p)) # 1 => Tail(Elems(p)) # <<>>)
  <2>1. call[p] \in [op : Ops, path : AnyPath, new : AnyPath] /\ Tail(call[p].path.elems) \in Seq(Elements)
    BY <1>1, <1>3, <1>3a, FirstElement DEF CallOK, Elems
  <2>2. call'[p] = [call[p] EXCEPT !.path.elems = Tail(call[p].path.elems)]
    BY <1>6, Domains
  <2>3. ASSUME NEW e \in Seq(Elements), e # <<>>, Len(e) # 1 PROVE Tail(e) # <<>>
    <3>1. Len(Tail(e)) = Len(e) - 1 /\ Len(e) \in Nat
      BY <2>3
    <3>2. Len(<<>>) = 0
      OBVIOUS
    <3>3. Tail(e) = <<>> => Len(Tail(e)) = 0
      BY <3>2, Zenon
    <3> QED
      BY <2>3, <3>1, <3>3
  <2>4. Elems(p) \in Seq(Elements) /\ Elems(p) # <<>>
    BY <1>3, <2>1 DEF Elems, AnyPath
  <2>5. Len(Elems(p)) # 1 => Tail(Elems(p)) # <<>>
    BY <2>3, <2>4
  <2> QED
    BY <2>1, <2>2, <2>5 DEF AnyPath, Elems
<1>7. pc'[p] = "iput" /\ put'[p] = cur[p] /\ cur'[p] = s /\ Stage(p)' = ret'[p]
      /\ ret'[p] = (IF Len(Elems(p)) = 1 THEN "found" ELSE "namei")
      /\ Op(p)' = Op(p) /\ Elems(p)' = Tail(Elems(p)) /\ (ret'[p] = "namei" => Elems(p)' # <<>>)
  BY <1>1, <1>3, <1>5, <1>6, <1>6b, Domains DEF Stage, Putting, Op, Elems
<1>8. Takes(p, Swap("cur", "put"), "cur", s)
  BY <1>1, <1>3, <1>6, <1>7, Domains, SwapMoves DEF Takes, Permutes, Swap, At, Kinds
<1>9. SameDebt(p)
  BY <1>1, <1>3, <1>6, <1>6a, <1>7 DEF SameDebt, Owes, Shape, Renaming
<1>10. Typed'
  <2>1. CallOK(p)'
    BY <1>1, <1>6b DEF CallOK, Op
  <2>2. TypeOK'
    <3>1. /\ cur' \in [Procs -> Slots \cup {None}] /\ ip' \in [Procs -> Slots \cup {None}]
          /\ put' \in [Procs -> Slots \cup {None}] /\ fd' \in [Procs -> Slots \cup {None}]
      BY <1>3, <1>6, Domains
    <3>2. cwd' \in [Procs -> Slots] /\ scan' \in [Procs -> 0..(NInodes + 1)]
      BY <1>6, Domains, SizeAssumption
    <3>3. owner' \in [Slots -> Procs \cup {None}]
      BY <1>6, Domains
    <3> QED
      BY <1>5a, <1>6, <3>1, <3>2, <3>3, Domains DEF TypeOK, disk, table
  <2>3. DOMAIN pc' = Procs /\ DOMAIN ret' = Procs /\ DOMAIN call' = Procs
    BY <1>6, Domains
  <2> QED
    BY <1>1, <1>2, <2>1, <2>2, <2>3, TypedStep
<1>11. Shape(p)'
  BY <1>1, <1>3, <1>6, <1>7, Domains, ProcsAssumption DEF Shape, Putting, Rets, WithCur, WithIp, Renaming, Looking, AtEnd, Gets
<1>12. Stays(p)'
  BY <1>1, <1>3, <1>6, <1>6a, <1>7 DEF Stays, Shape, AtEnd, disk, table
<1>13. \A t \in Slots : Locks(p, t)' <=> Locks(p, t) /\ t # cur[p]
  BY <1>1, <1>3, <1>6, <1>7, Domains DEF Locks, LockCur, LockIp
<1>14. owner[cur[p]] = p
  BY <1>1, <1>3 DEF Owners, Locks, LockCur
<1>15. Owners'
  BY <1>1, <1>2, <1>3, <1>6, <1>7, <1>13, <1>14, Domains, OwnersStep, ProcsAssumption DEF Owners
<1>16. UNCHANGED <<disk, type, nlink>>
  BY <1>6 DEF table
<1> QED
  BY <1>2, <1>3, <1>5, <1>6, <1>7, <1>8, <1>9, <1>10, <1>11, <1>12, <1>13, <1>15, <1>16, StepTakes DEF Unlocks, Opens

LEMMA CreateFindsStep ==
  ASSUME IInv, NEW p \in Procs, NoneAstray, CreateFinds(p)
  PROVE  IInv'
<1> USE DEF PutThen, Goto, Unlocked
<1>1. Shape(p) /\ Stays(p) /\ CallOK(p) /\ Typed /\ Owners
  BY DEF IInv, Typed
<1>2. Frame(p)
  BY Domains DEF Frame, At, CreateFinds
<1>3. Stage(p) = "change" /\ pc[p] = "change" /\ put[p] = None /\ ip[p] = None /\ cur[p] \in Slots /\ Len(Elems(p)) = 1
      /\ Child(p) # 0 /\ Op(p) \in {"create", "mkdir"}
  BY <1>1, Domains, ProcsAssumption DEF Shape, Stage, Putting, AtEnd, WithCur, WithIp, Renaming, Looking, CreateFinds, Creates
<1>3a. Len(Elems(p)) = 1 => Elems(p) # <<>>
  OBVIOUS
<1>4. PICK s \in Slots : Iget(Child(p), s) /\ ip' = [ip EXCEPT ![p] = s]
  BY DEF CreateFinds
<1>5. Child(p) \in Inums /\ Known(Child(p)) /\ Gets(Child(p), s)
  <2>1. type[cur[p]] = dtype[inum[cur[p]]] /\ owner[cur[p]] = p
    BY <1>1, <1>3, LockedCopy DEF Locks, LockCur
  <2>2. dtype[inum[cur[p]]] = "dir"
    BY <1>1, <1>3, <2>1 DEF Stays, AtEnd
  <2>3. GoesUp(p) \/ Head(Elems(p)) # ".."
    BY <1>3 DEF GoesUp, Wanted, Op
  <2>4. Child(p) \in Inums /\ Known(Child(p))
    BY <1>3, <1>3a, <2>2, <2>3, ChildKnown
  <2> QED
    BY <1>4, <2>4, IgetGets
<1>6. ip' = [ip EXCEPT ![p] = s] /\ owner' = [owner EXCEPT ![cur[p]] = None]
      /\ PutThen(p, cur[p], "exists") /\ cur' = [cur EXCEPT ![p] = None]
      /\ UNCHANGED <<disk, type, nlink, call, scan, cwd, fd>>
  BY <1>4 DEF CreateFinds
<1>5a. inum' \in [Slots -> 0..NInodes] /\ ref' \in [Slots -> Nat] /\ valid' \in [Slots -> BOOLEAN]
  BY <1>5 DEF Gets
<1>6a. /\ cur[p] # None => inum'[cur[p]] = inum[cur[p]]
       /\ ip[p] # None => inum'[ip[p]] = inum[ip[p]]
  <2>1. At("cur", p) = cur[p] /\ At("ip", p) = ip[p] /\ {"cur", "ip"} \subseteq Kinds
    BY DEF At, Kinds
  <2> QED
    BY <1>5, <2>1, Pointed DEF Gets
<1>7. pc'[p] = "iput" /\ put'[p] = cur[p] /\ ip'[p] = s /\ cur'[p] = None /\ Stage(p)' = ret'[p]
      /\ ret'[p] = "exists" /\ Op(p)' = Op(p) /\ Elems(p)' = Elems(p)
  BY <1>1, <1>3, <1>5, <1>6, Domains DEF Stage, Putting, Op, Elems
<1>8. Takes(p, Turn2, "ip", s)
  <2>1. Permutes(Turn2)
    BY DEF Permutes, Turn2, Kinds
  <2>2. \A k \in Kinds : IF Turn2[k] = "ip" THEN At(k, p) = None /\ At("ip", p)' = s
                         ELSE At(Turn2[k], p)' = At(k, p)
    BY <1>3, <1>6, <1>7, Domains DEF Turn2, At, Kinds
  <2> QED
    BY <2>1, <2>2 DEF Takes, Kinds
<1>9. SameDebt(p)
  BY <1>1, <1>3, <1>6, <1>6a, <1>7 DEF SameDebt, Owes, Shape, Renaming
<1>10. Typed'
  <2>1. CallOK(p)'
    BY <1>1, <1>3, <1>6, <1>7 DEF CallOK, Op
  <2>2. TypeOK'
    <3>1. /\ cur' \in [Procs -> Slots \cup {None}] /\ ip' \in [Procs -> Slots \cup {None}]
          /\ put' \in [Procs -> Slots \cup {None}] /\ fd' \in [Procs -> Slots \cup {None}]
      BY <1>3, <1>6, Domains
    <3>2. cwd' \in [Procs -> Slots] /\ scan' \in [Procs -> 0..(NInodes + 1)]
      BY <1>6, Domains, SizeAssumption
    <3>3. owner' \in [Slots -> Procs \cup {None}]
      BY <1>6, Domains
    <3> QED
      BY <1>5a, <1>6, <3>1, <3>2, <3>3, Domains DEF TypeOK, disk, table
  <2>3. DOMAIN pc' = Procs /\ DOMAIN ret' = Procs /\ DOMAIN call' = Procs
    BY <1>6, Domains
  <2> QED
    BY <1>1, <1>2, <2>1, <2>2, <2>3, TypedStep
<1>11. Shape(p)'
  BY <1>1, <1>3, <1>6, <1>7, Domains, ProcsAssumption DEF Shape, Putting, Rets, WithCur, WithIp, Renaming, Looking, AtEnd, Gets
<1>12. Stays(p)'
  BY <1>1, <1>3, <1>6, <1>6a, <1>7 DEF Stays, Shape, AtEnd, disk, table
<1>13. \A t \in Slots : Locks(p, t)' <=> Locks(p, t) /\ t # cur[p]
  BY <1>1, <1>3, <1>6, <1>7, Domains DEF Locks, LockCur, LockIp
<1>14. owner[cur[p]] = p
  BY <1>1, <1>3 DEF Owners, Locks, LockCur
<1>15. Owners'
  BY <1>1, <1>2, <1>3, <1>6, <1>7, <1>13, <1>14, Domains, OwnersStep, ProcsAssumption DEF Owners
<1>16. UNCHANGED <<disk, type, nlink>>
  BY <1>6 DEF table
<1> QED
  BY <1>2, <1>3, <1>5, <1>6, <1>7, <1>8, <1>9, <1>10, <1>11, <1>12, <1>13, <1>15, <1>16, StepTakes DEF Unlocks, Opens

LEMMA UnlinkFindsStep ==
  ASSUME IInv, NEW p \in Procs, NoneAstray, UnlinkFinds(p)
  PROVE  IInv'
<1> USE DEF PutThen, Goto, Unlocked
<1>1. Shape(p) /\ Stays(p) /\ CallOK(p) /\ Typed /\ Owners
  BY DEF IInv, Typed
<1>2. Frame(p)
  BY Domains DEF Frame, At, UnlinkFinds
<1>3. Stage(p) = "change" /\ pc[p] = "change" /\ put[p] = None /\ ip[p] = None /\ cur[p] \in Slots /\ Len(Elems(p)) = 1
      /\ Child(p) # 0 /\ Op(p) = "unlink" /\ Head(Elems(p)) # ".."
  BY <1>1, Domains, ProcsAssumption DEF Shape, Stage, Putting, AtEnd, WithCur, WithIp, Renaming, Looking, UnlinkFinds
<1>3a. Len(Elems(p)) = 1 => Elems(p) # <<>>
  OBVIOUS
<1>4. PICK s \in Slots : Iget(Child(p), s) /\ ip' = [ip EXCEPT ![p] = s]
  BY DEF UnlinkFinds
<1>5. Child(p) \in Inums /\ Known(Child(p)) /\ Gets(Child(p), s)
  <2>1. type[cur[p]] = dtype[inum[cur[p]]] /\ owner[cur[p]] = p
    BY <1>1, <1>3, LockedCopy DEF Locks, LockCur
  <2>2. dtype[inum[cur[p]]] = "dir"
    BY <1>1, <1>3, <2>1 DEF Stays, AtEnd
  <2>3. GoesUp(p) \/ Head(Elems(p)) # ".."
    BY <1>3 DEF GoesUp, Wanted, Op
  <2>4. Child(p) \in Inums /\ Known(Child(p))
    BY <1>3, <1>3a, <2>2, <2>3, ChildKnown
  <2> QED
    BY <1>4, <2>4, IgetGets
<1>6. ip' = [ip EXCEPT ![p] = s] /\ pc' = [pc EXCEPT ![p] = "victim"]
      /\ UNCHANGED <<disk, owner, type, nlink, call, cur, put, ret, scan, cwd, fd>>
  BY <1>4 DEF UnlinkFinds
<1>5a. inum' \in [Slots -> 0..NInodes] /\ ref' \in [Slots -> Nat] /\ valid' \in [Slots -> BOOLEAN]
  BY <1>5 DEF Gets
<1>6a. /\ cur[p] # None => inum'[cur[p]] = inum[cur[p]]
       /\ ip[p] # None => inum'[ip[p]] = inum[ip[p]]
  <2>1. At("cur", p) = cur[p] /\ At("ip", p) = ip[p] /\ {"cur", "ip"} \subseteq Kinds
    BY DEF At, Kinds
  <2> QED
    BY <1>5, <2>1, Pointed DEF Gets
<1>7. pc'[p] = "victim" /\ ip'[p] = s /\ Stage(p)' = "victim" /\ Op(p)' = Op(p) /\ Elems(p)' = Elems(p)
  BY <1>1, <1>3, <1>5, <1>6, Domains DEF Stage, Putting, Op, Elems
<1>8. Takes(p, Swap("ip", "ip"), "ip", s)
  BY <1>1, <1>3, <1>6, <1>7, Domains, SwapMoves DEF Takes, Permutes, Swap, At, Kinds
<1>9. SameDebt(p)
  BY <1>1, <1>3, <1>6, <1>6a, <1>7 DEF SameDebt, Owes, Shape, Renaming
<1>10. Typed'
  <2>1. CallOK(p)'
    BY <1>1, <1>3, <1>6, <1>7 DEF CallOK, Op
  <2>2. TypeOK'
    <3>1. /\ cur' \in [Procs -> Slots \cup {None}] /\ ip' \in [Procs -> Slots \cup {None}]
          /\ put' \in [Procs -> Slots \cup {None}] /\ fd' \in [Procs -> Slots \cup {None}]
      BY <1>3, <1>6, Domains
    <3>2. cwd' \in [Procs -> Slots] /\ scan' \in [Procs -> 0..(NInodes + 1)]
      BY <1>6, Domains, SizeAssumption
    <3>3. owner' \in [Slots -> Procs \cup {None}]
      BY <1>6, Domains
    <3> QED
      BY <1>5a, <1>6, <3>1, <3>2, <3>3, Domains DEF TypeOK, disk, table
  <2>3. DOMAIN pc' = Procs /\ DOMAIN ret' = Procs /\ DOMAIN call' = Procs
    BY <1>6, Domains
  <2> QED
    BY <1>1, <1>2, <2>1, <2>2, <2>3, TypedStep
<1>11. Shape(p)'
  BY <1>1, <1>3, <1>6, <1>7, Domains, ProcsAssumption DEF Shape, Putting, Rets, WithCur, WithIp, Renaming, Looking, AtEnd, Gets
<1>12. Stays(p)'
  <2>1. inum'[cur[p]] = inum[cur[p]]
    BY <1>3, <1>6a, ProcsAssumption
  <2>2. Child(p)' = Child(p)
    BY <1>3, <1>6, <1>7, <2>1 DEF Child, disk
  <2> QED
    BY <1>1, <1>3, <1>5, <1>6, <1>7, <2>1, <2>2 DEF Stays, AtEnd, disk, Gets
<1>13. \A t \in Slots : Locks(p, t)' <=> Locks(p, t)
  BY <1>1, <1>3, <1>6, <1>7, Domains DEF Locks, LockCur, LockIp
<1>15. Owners'
  BY <1>1, <1>2, <1>3, <1>6, <1>7, <1>13, Domains, OwnersStep, ProcsAssumption DEF Owners, table
<1>16. UNCHANGED <<disk, type, nlink>>
  BY <1>6 DEF table
<1> QED
  BY <1>2, <1>3, <1>5, <1>6, <1>7, <1>8, <1>9, <1>10, <1>11, <1>12, <1>13, <1>15, <1>16, StepTakes DEF Unlocks, Opens

LEMMA LinkExistsStep ==
  ASSUME IInv, NEW p \in Procs, NoneAstray, LinkExists(p)
  PROVE  IInv'
<1> USE DEF PutThen, Goto, Unlocked
<1>1. Shape(p) /\ Stays(p) /\ CallOK(p) /\ Typed /\ Owners
  BY DEF IInv, Typed
<1>2. Frame(p)
  BY Domains DEF Frame, At, LinkExists
<1>3. Stage(p) = "change" /\ pc[p] = "change" /\ put[p] = None /\ cur[p] \in Slots /\ Len(Elems(p)) = 1
      /\ Child(p) # 0 /\ Op(p) = "newname" /\ ip[p] \in Slots
  BY <1>1, Domains, ProcsAssumption DEF Shape, Stage, Putting, AtEnd, WithCur, WithIp, Renaming, Looking, LinkExists
<1>3a. Len(Elems(p)) = 1 => Elems(p) # <<>>
  OBVIOUS
<1>4. PICK s \in Slots : Iget(Child(p), s) /\ PutThen(p, s, "bad")
  BY DEF LinkExists
<1>5. Child(p) \in Inums /\ Known(Child(p)) /\ Gets(Child(p), s)
  <2>1. type[cur[p]] = dtype[inum[cur[p]]] /\ owner[cur[p]] = p
    BY <1>1, <1>3, LockedCopy DEF Locks, LockCur
  <2>2. dtype[inum[cur[p]]] = "dir"
    BY <1>1, <1>3, <2>1 DEF Stays, AtEnd
  <2>3. GoesUp(p) \/ Head(Elems(p)) # ".."
    BY <1>3 DEF GoesUp, Wanted, Op
  <2>4. Child(p) \in Inums /\ Known(Child(p))
    BY <1>3, <1>3a, <2>2, <2>3, ChildKnown
  <2> QED
    BY <1>4, <2>4, IgetGets
<1>6. put' = [put EXCEPT ![p] = s] /\ pc' = [pc EXCEPT ![p] = "iput"] /\ ret' = [ret EXCEPT ![p] = "bad"]
      /\ UNCHANGED <<disk, owner, type, nlink, call, cur, ip, scan, cwd, fd>>
  BY <1>4 DEF LinkExists
<1>5a. inum' \in [Slots -> 0..NInodes] /\ ref' \in [Slots -> Nat] /\ valid' \in [Slots -> BOOLEAN]
  BY <1>5 DEF Gets
<1>6a. /\ cur[p] # None => inum'[cur[p]] = inum[cur[p]]
       /\ ip[p] # None => inum'[ip[p]] = inum[ip[p]]
  <2>1. At("cur", p) = cur[p] /\ At("ip", p) = ip[p] /\ {"cur", "ip"} \subseteq Kinds
    BY DEF At, Kinds
  <2> QED
    BY <1>5, <2>1, Pointed DEF Gets
<1>7. pc'[p] = "iput" /\ put'[p] = s /\ Stage(p)' = ret'[p] /\ ret'[p] = "bad" /\ Op(p)' = Op(p) /\ Elems(p)' = Elems(p)
  BY <1>1, <1>3, <1>5, <1>6, Domains DEF Stage, Putting, Op, Elems
<1>8. Takes(p, Swap("put", "put"), "put", s)
  BY <1>1, <1>3, <1>6, <1>7, Domains, SwapMoves DEF Takes, Permutes, Swap, At, Kinds
<1>9. SameDebt(p)
  BY <1>1, <1>3, <1>6, <1>6a, <1>7 DEF SameDebt, Owes, Shape, Renaming
<1>10. Typed'
  <2>1. CallOK(p)'
    BY <1>1, <1>3, <1>6, <1>7 DEF CallOK, Op
  <2>2. TypeOK'
    <3>1. /\ cur' \in [Procs -> Slots \cup {None}] /\ ip' \in [Procs -> Slots \cup {None}]
          /\ put' \in [Procs -> Slots \cup {None}] /\ fd' \in [Procs -> Slots \cup {None}]
      BY <1>3, <1>6, Domains
    <3>2. cwd' \in [Procs -> Slots] /\ scan' \in [Procs -> 0..(NInodes + 1)]
      BY <1>6, Domains, SizeAssumption
    <3>3. owner' \in [Slots -> Procs \cup {None}]
      BY <1>6, Domains
    <3> QED
      BY <1>5a, <1>6, <3>1, <3>2, <3>3, Domains DEF TypeOK, disk, table
  <2>3. DOMAIN pc' = Procs /\ DOMAIN ret' = Procs /\ DOMAIN call' = Procs
    BY <1>6, Domains
  <2> QED
    BY <1>1, <1>2, <2>1, <2>2, <2>3, TypedStep
<1>11. Shape(p)'
  BY <1>1, <1>3, <1>6, <1>7, Domains, ProcsAssumption DEF Shape, Putting, Rets, WithCur, WithIp, Renaming, Looking, AtEnd, Gets
<1>12. Stays(p)'
  <2>1. inum'[ip[p]] = inum[ip[p]]
    BY <1>3, <1>6a, ProcsAssumption
  <2> QED
    BY <1>1, <1>3, <1>5, <1>6, <1>7, <2>1 DEF Stays, AtEnd, disk
<1>13. \A t \in Slots : Locks(p, t)' <=> Locks(p, t)
  BY <1>1, <1>3, <1>6, <1>7, Domains DEF Locks, LockCur, LockIp
<1>15. Owners'
  BY <1>1, <1>2, <1>3, <1>6, <1>7, <1>13, Domains, OwnersStep, ProcsAssumption DEF Owners, table
<1>16. UNCHANGED <<disk, type, nlink>>
  BY <1>6 DEF table
<1> QED
  BY <1>2, <1>3, <1>5, <1>6, <1>7, <1>8, <1>9, <1>10, <1>11, <1>12, <1>13, <1>15, <1>16, StepTakes DEF Unlocks, Opens

LEMMA IallocIgetStep ==
  ASSUME IInv, NEW p \in Procs, IallocIget(p)
  PROVE  IInv'
<1> USE DEF PutThen, Goto, Unlocked
<1>1. Shape(p) /\ Stays(p) /\ CallOK(p) /\ Typed /\ Owners
  BY DEF IInv, Typed
<1>2. Frame(p)
  BY Domains DEF Frame, At, IallocIget
<1>3. Stage(p) = "alloced" /\ pc[p] = "alloced" /\ put[p] = None /\ ip[p] = None /\ cur[p] \in Slots /\ scan[p] \in Inums
      /\ Op(p) # "newname"
  BY <1>1, Domains, ProcsAssumption DEF Shape, Stage, Putting, AtEnd, WithCur, WithIp, Renaming, Looking, IallocIget
<1>3a. Len(Elems(p)) = 1 => Elems(p) # <<>>
  OBVIOUS
<1>4. PICK s \in Slots : Iget(scan[p], s) /\ ip' = [ip EXCEPT ![p] = s]
  BY DEF IallocIget
<1>5. Gets(scan[p], s)
  BY <1>3, <1>4, IgetGets
<1>6. ip' = [ip EXCEPT ![p] = s] /\ pc' = [pc EXCEPT ![p] = "fresh"] /\ scan' = [scan EXCEPT ![p] = 0]
      /\ UNCHANGED <<disk, owner, type, nlink, call, cur, put, ret, cwd, fd>>
  BY <1>4 DEF IallocIget
<1>5a. inum' \in [Slots -> 0..NInodes] /\ ref' \in [Slots -> Nat] /\ valid' \in [Slots -> BOOLEAN]
  BY <1>5 DEF Gets
<1>6a. /\ cur[p] # None => inum'[cur[p]] = inum[cur[p]]
       /\ ip[p] # None => inum'[ip[p]] = inum[ip[p]]
  <2>1. At("cur", p) = cur[p] /\ At("ip", p) = ip[p] /\ {"cur", "ip"} \subseteq Kinds
    BY DEF At, Kinds
  <2> QED
    BY <1>5, <2>1, Pointed DEF Gets
<1>7. pc'[p] = "fresh" /\ ip'[p] = s /\ Stage(p)' = "fresh" /\ Op(p)' = Op(p) /\ Elems(p)' = Elems(p)
  BY <1>1, <1>3, <1>5, <1>6, Domains DEF Stage, Putting, Op, Elems
<1>8. Takes(p, Swap("ip", "ip"), "ip", s)
  BY <1>1, <1>3, <1>6, <1>7, Domains, SwapMoves DEF Takes, Permutes, Swap, At, Kinds
<1>9. SameDebt(p)
  BY <1>1, <1>3, <1>6, <1>6a, <1>7 DEF SameDebt, Owes, Shape, Renaming
<1>10. Typed'
  <2>1. CallOK(p)'
    BY <1>1, <1>3, <1>6, <1>7 DEF CallOK, Op
  <2>2. TypeOK'
    <3>1. /\ cur' \in [Procs -> Slots \cup {None}] /\ ip' \in [Procs -> Slots \cup {None}]
          /\ put' \in [Procs -> Slots \cup {None}] /\ fd' \in [Procs -> Slots \cup {None}]
      BY <1>3, <1>6, Domains
    <3>2. cwd' \in [Procs -> Slots] /\ scan' \in [Procs -> 0..(NInodes + 1)]
      BY <1>6, Domains, SizeAssumption
    <3>3. owner' \in [Slots -> Procs \cup {None}]
      BY <1>6, Domains
    <3> QED
      BY <1>5a, <1>6, <3>1, <3>2, <3>3, Domains DEF TypeOK, disk, table
  <2>3. DOMAIN pc' = Procs /\ DOMAIN ret' = Procs /\ DOMAIN call' = Procs
    BY <1>6, Domains
  <2> QED
    BY <1>1, <1>2, <2>1, <2>2, <2>3, TypedStep
<1>11. Shape(p)'
  BY <1>1, <1>3, <1>6, <1>7, Domains, ProcsAssumption DEF Shape, Putting, Rets, WithCur, WithIp, Renaming, Looking, AtEnd, Gets
<1>12. Stays(p)'
  <2>1. inum'[cur[p]] = inum[cur[p]]
    BY <1>3, <1>6a, ProcsAssumption
  <2>2. Child(p)' = Child(p)
    BY <1>3, <1>6, <1>7, <2>1 DEF Child, disk
  <2> QED
    BY <1>1, <1>3, <1>6, <1>7, <2>1, <2>2 DEF Stays, AtEnd, disk
<1>13. \A t \in Slots : Locks(p, t)' <=> Locks(p, t)
  BY <1>1, <1>3, <1>6, <1>7, Domains DEF Locks, LockCur, LockIp
<1>15. Owners'
  BY <1>1, <1>2, <1>3, <1>6, <1>7, <1>13, Domains, OwnersStep, ProcsAssumption DEF Owners, table
<1>16. UNCHANGED <<disk, type, nlink>>
  BY <1>6 DEF table
<1> QED
  BY <1>2, <1>3, <1>5, <1>6, <1>7, <1>8, <1>9, <1>10, <1>11, <1>12, <1>13, <1>15, <1>16, StepTakes DEF Unlocks, Opens
-----------------------------------------------------------------------------
(* Steps that take or give up a lock, read an inode into the table or out  *)
(* of it, but change nothing else.                                         *)

LEMMA StepLock ==
  ASSUME IInv, NEW p \in Procs, NEW s \in Slots, Frame(p), UNCHANGED <<disk, inum, ref>>,
         \A k \in Kinds : /\ At(k, p)' = At(k, p)
                          /\ (Dead(k, p)' <=> Dead(k, p)) /\ (Fresh(k, p)' <=> Fresh(k, p)),
         Making(p)' = Making(p), Op(p)' = Op(p), Owes(p)' <=> Owes(p),
         \A q \in Procs \ {p} : ~Locks(q, s),
         \A t \in Slots \ {s} : /\ valid'[t] = valid[t] /\ type'[t] = type[t] /\ nlink'[t] = nlink[t]
                                /\ (Freeing(t)' <=> Freeing(t)),
         ref[s] > 0 /\ valid'[s] => /\ nlink'[s] = dlink[inum[s]]
                                    /\ Freeing(s)' \/ (type'[s] = dtype[inum[s]] /\ type'[s] # "free"),
         \A t \in Slots : Locks(p, t)' => valid'[t],
         pc'[p] = "free" => ref[put'[p]] = 1 /\ valid'[put'[p]] /\ nlink'[put'[p]] = 0,
         pc'[p] # "freed",
         Typed', Shape(p)', Stays(p)', Owners'
  PROVE  IInv'
<1> USE DEF disk
<1>1. KeepsNodes(p)
  BY DEF KeepsNodes
<1>2. (\A q \in Procs : Shape(q)') /\ (\A q \in Procs : Stays(q)')
  BY <1>1, ShapeStep, StaysStep DEF IInv
<1>3. RefExact' /\ InTable' /\ OneEntryPerInode'
  <2>1. Moves(p, Swap("cur", "cur"))
    BY SwapMoves DEF Kinds
  <2> QED
    BY <2>1, RefsKept DEF IInv, InTable, OneEntryPerInode
<1>4. Loaded'
  <2>1. ASSUME NEW q \in Procs \ {p}, NEW t \in Slots, Locks(q, t) PROVE valid'[t]
    <3>1. t # s
      BY <2>1
    <3> QED
      BY <2>1, <3>1 DEF IInv, Loaded
  <2> QED
    BY <2>1, LoadedStep DEF IInv
<1>5. Alive'
  <2>1. \A i : Settled(i) => Settled(i)'
    BY DEF Settled
  <2>2. ASSUME NEW k \in Kinds, At(k, p)' # None, ~Dead(k, p)', ~Fresh(k, p)' PROVE Settled(Inode(k, p))'
    <3>1. Settled(Inode(k, p))
      BY <2>2 DEF IInv, Alive
    <3> QED
      BY <2>1, <3>1 DEF Inode, Settled
  <2> QED
    BY <1>1, <2>1, <2>2, AliveStep DEF IInv
<1>6. Privates'
  <2>1. ASSUME NEW q \in Procs \ {p}, Making(q) # 0, NEW k \in Kinds, At(k, p)' # None, Inode(k, p)' = Making(q)
        PROVE  Dead(k, p)'
    <3>1. Private(q, Making(q))
      BY <2>1 DEF IInv, Privates
    <3>2. Inode(k, p) = Making(q)
      BY <2>1 DEF Inode
    <3> QED
      BY <2>1, <3>1, <3>2 DEF Private
  <2>2. ASSUME NEW q \in Procs \ {p}, Making(q) # 0 PROVE Making(p)' # Making(q)
    BY <2>2 DEF IInv, Privates, Private
  <2>3. ASSUME NEW i, i = Making(p)', i # 0 PROVE Private(p, i)'
    <3>1. Private(p, i)
      BY <2>3 DEF IInv, Privates
    <3>2. ASSUME NEW k \in Kinds, NEW q \in Procs, At(k, q)' # None, Inode(k, q)' = i
          PROVE  Dead(k, q)' \/ (k = "ip" /\ q = p)
      <4>1. At(k, q)' = At(k, q) /\ (Dead(k, q)' <=> Dead(k, q))
        BY FrameSame
      <4> QED
        BY <3>1, <3>2, <4>1 DEF Private, Inode
    <3>3. \A q \in Procs \ {p} : Making(q)' # i
      BY <1>1, <3>1, MakingSame DEF IInv, Private
    <3> QED
      BY <3>1, <3>2, <3>3 DEF Private, NoEnts
  <2> QED
    BY <1>1, <2>1, <2>2, <2>3, PrivatesStep DEF IInv
<1>7. Copies'
  BY DEF IInv, Copies
<1>8. Freers'
  <2>1. ASSUME NEW q \in Procs \ {p}, pc[q] \in {"free", "freed"} PROVE put[q] # s /\ put[q] \in Slots
    BY <2>1, Domains DEF IInv, Locks, Shape, Putting
  <2> QED
    BY <2>1, FreersStep DEF IInv
<1>9. Counted'
  <2>1. SameDebt(p)
    <3>1. At("ip", p) = ip[p] /\ At("ip", p)' = ip'[p] /\ "ip" \in Kinds
      BY DEF At, Kinds
    <3> QED
      BY <3>1 DEF SameDebt
  <2> QED
    BY <1>1, <2>1, CountedSame DEF IInv
<1>10. Entries' /\ RootStays'
  BY DEF IInv, Entries, RootStays
<1> QED
  BY <1>2, <1>3, <1>4, <1>5, <1>6, <1>7, <1>8, <1>9, <1>10 DEF IInv

\* The inode behind what a process is about to lock has been made.
LEMMA LockTarget ==
  ASSUME IInv, NEW p \in Procs, pc[p] \in DOMAIN AfterLock
  PROVE  /\ LockOf(p) \in Slots /\ ref[LockOf(p)] > 0 /\ inum[LockOf(p)] \in Inums
         /\ dtype[inum[LockOf(p)]] # "free" /\ Stage(p) = pc[p] /\ put[p] = None
<1> USE DEF AfterLock
<1>1. Shape(p)
  BY DEF IInv
<1>2. Stage(p) = pc[p] /\ put[p] = None
  BY <1>1, Domains DEF Shape, Stage, Putting
<1>3. At("cur", p) = cur[p] /\ At("ip", p) = ip[p] /\ {"cur", "ip"} \subseteq Kinds
  BY DEF At, Kinds
<1>4. CASE pc[p] \in {"namei", "found", "parent"}
  <2>1. LockOf(p) = cur[p] /\ cur[p] # None
    BY <1>1, <1>2, <1>4 DEF LockOf, Shape, WithCur, AtEnd
  <2>2. ~Dead("cur", p) /\ ~Fresh("cur", p)
    BY DEF Dead, Fresh
  <2> QED
    BY <1>2, <1>3, <2>1, <2>2, Pointed DEF Settled, Inode
<1>5. CASE pc[p] \in {"exists", "fresh", "victim", "undo"}
  <2>1. LockOf(p) = ip[p] /\ ip[p] # None
    BY <1>1, <1>2, <1>5 DEF LockOf, Shape, WithIp
  <2>2. ip[p] \in Slots /\ ref[ip[p]] > 0 /\ inum[ip[p]] \in Inums
    BY <1>3, <2>1, Pointed DEF Inode
  <2>3. CASE pc[p] = "fresh"
    <3>1. Making(p) = inum[ip[p]] /\ Making(p) # 0
      BY <2>2, <2>3, SizeAssumption DEF Making, Inums
    <3>2. dtype[inum[ip[p]]] # "free"
      BY <3>1 DEF IInv, Privates, Private
    <3> QED
      BY <1>2, <2>1, <2>2, <3>2
  <2>4. CASE pc[p] # "fresh"
    <3>1. ~Dead("ip", p) /\ ~Fresh("ip", p)
      BY <1>5, <2>4 DEF Dead, Fresh
    <3> QED
      BY <1>2, <1>3, <2>1, <2>2, <3>1, Pointed DEF Settled, Inode
  <2> QED
    BY <2>3, <2>4
<1> QED
  BY <1>4, <1>5

LEMMA IlockStep ==
  ASSUME IInv, NEW p \in Procs, Ilock(p)
  PROVE  IInv'
<1> DEFINE s == LockOf(p)
<1>1. Shape(p) /\ Stays(p) /\ CallOK(p) /\ Typed /\ Owners
  BY DEF IInv, Typed
<1>2. Frame(p)
  BY Domains DEF Frame, At, Ilock, Goto
<1>3. pc[p] \in DOMAIN AfterLock
  BY DEF Ilock
<1>4. s \in Slots /\ ref[s] > 0 /\ inum[s] \in Inums /\ dtype[inum[s]] # "free" /\ Stage(p) = pc[p] /\ put[p] = None
  BY <1>3, LockTarget
<1>5. /\ owner[s] = None /\ owner' = [owner EXCEPT ![s] = p] /\ pc' = [pc EXCEPT ![p] = AfterLock[pc[p]]]
      /\ UNCHANGED <<disk, inum, ref, call, cur, ip, put, ret, scan, cwd, fd>>
      /\ valid' = [valid EXCEPT ![s] = TRUE]
      /\ type' = [type EXCEPT ![s] = IF valid[s] THEN type[s] ELSE dtype[inum[s]]]
      /\ nlink' = [nlink EXCEPT ![s] = IF valid[s] THEN nlink[s] ELSE dlink[inum[s]]]
  BY <1>4, Domains DEF Ilock, Goto
<1> HIDE DEF s
<1>6. /\ Stage(p)' = pc'[p] /\ pc'[p] = AfterLock[pc[p]] /\ Op(p)' = Op(p) /\ Elems(p)' = Elems(p)
      /\ cur'[p] = cur[p] /\ ip'[p] = ip[p] /\ put'[p] = put[p]
  BY <1>3, <1>5, Domains DEF Stage, Putting, Op, Elems, AfterLock
<1>7. \A k \in Kinds : /\ At(k, p)' = At(k, p)
                       /\ (Dead(k, p)' <=> Dead(k, p)) /\ (Fresh(k, p)' <=> Fresh(k, p))
  BY <1>3, <1>5, <1>6 DEF At, Dead, Fresh, AfterLock
<1>8. Making(p)' = Making(p)
  BY <1>3, <1>5, <1>6 DEF Making, AfterLock
<1>9. Owes(p)' <=> Owes(p)
  BY <1>1, <1>3, <1>4, <1>6 DEF Owes, AfterLock, Shape, Renaming
<1>10. \A q \in Procs : ~Locks(q, s)
  BY <1>1, <1>4, <1>5, ProcsAssumption DEF Owners
<1>11. \A t : Freeing(t)' <=> Freeing(t)
  <2>1. \A q \in Procs : (pc'[q] = "freed" <=> pc[q] = "freed") /\ put'[q] = put[q]
    BY <1>3, <1>5, Domains DEF AfterLock
  <2> QED
    BY <2>1 DEF Freeing
<1>12. ~Freeing(s)
  BY <1>10 DEF Freeing, Locks
<1>13. nlink'[s] = dlink[inum[s]] /\ type'[s] = dtype[inum[s]]
  BY <1>4, <1>5, <1>12, Domains DEF IInv, Copies
<1>14. Typed'
  <2>1. CallOK(p)'
    BY <1>1, <1>5 DEF CallOK, Op
  <2>2. TypeOK'
    <3>1. dtype[inum[s]] \in Types /\ dlink[inum[s]] \in Nat
      BY <1>4, Domains
    <3>2. valid' \in [Slots -> BOOLEAN] /\ type' \in [Slots -> Types] /\ nlink' \in [Slots -> Nat]
      BY <3>1, <1>4, <1>5, Domains
    <3> QED
      BY <1>4, <1>5, <3>2, Domains DEF TypeOK, disk
  <2>3. DOMAIN pc' = Procs /\ DOMAIN ret' = Procs /\ DOMAIN call' = Procs
    BY <1>5, Domains
  <2> QED
    BY <1>1, <1>2, <2>1, <2>2, <2>3, TypedStep
<1>15. Shape(p)'
  BY <1>1, <1>3, <1>4, <1>5, <1>6 DEF Shape, Putting, Rets, WithCur, WithIp, Renaming, Looking, AtEnd, AfterLock
<1>16. Stays(p)'
  <2>1. Child(p)' = Child(p)
    BY <1>5, <1>6 DEF Child, disk
  <2> QED
    BY <1>1, <1>3, <1>4, <1>5, <1>6, <2>1 DEF Stays, AtEnd, AfterLock, disk
<1>17. \A t \in Slots : Locks(p, t)' <=> Locks(p, t) \/ t = s
  <2>1. s = IF pc[p] \in {"namei", "found", "parent"} THEN cur[p] ELSE ip[p]
    BY DEF s, LockOf
  <2> QED
    BY <1>1, <1>3, <1>4, <1>6, <2>1 DEF Locks, LockCur, LockIp, AfterLock
<1>18. Owners'
  <2>1. pc[p] # "igetPanic"
    BY <1>3 DEF AfterLock
  <2>2. \A t \in Slots : owner'[t] = IF t = s THEN p ELSE owner[t]
    BY <1>5, Domains
  <2>3. \A t \in Slots : owner'[t] = owner[t] \/ {owner[t], owner'[t]} \subseteq {p, None}
    BY <1>5, <2>2
  <2>4. \A t \in Slots : (Locks(p, t)' => owner'[t] = p) /\ (owner'[t] = p => Locks(p, t)')
    BY <1>1, <1>17, <2>1, <2>2 DEF Owners
  <2> QED
    BY <1>1, <1>2, <2>3, <2>4, OwnersStep, ProcsAssumption
<1>19. \A t \in Slots : Locks(p, t)' => valid'[t]
  BY <1>4, <1>5, <1>17, Domains DEF IInv, Loaded
<1>20. pc'[p] # "free" /\ pc'[p] # "freed"
  BY <1>3, <1>6 DEF AfterLock
<1>21. \A t \in Slots \ {s} : valid'[t] = valid[t] /\ type'[t] = type[t] /\ nlink'[t] = nlink[t]
  BY <1>5, Domains
<1> QED
  BY <1>2, <1>4, <1>5, <1>6, <1>7, <1>8, <1>9, <1>10, <1>11, <1>13, <1>14, <1>15, <1>16, <1>18, <1>19, <1>20, <1>21, StepLock

\* What iput() is to drop.
LEMMA PutTarget ==
  ASSUME IInv, NEW p \in Procs, pc[p] \in Putting
  PROVE  /\ put[p] \in Slots /\ ref[put[p]] > 0 /\ inum[put[p]] \in Inums /\ Stage(p) = ret[p] /\ ret[p] \in Rets
         /\ At("put", p) = put[p] /\ "put" \in Kinds
<1>1. At("put", p) = put[p] /\ "put" \in Kinds
  BY DEF At, Kinds
<1>2. put[p] # None /\ ret[p] \in Rets
  BY DEF IInv, Shape
<1> QED
  BY <1>1, <1>2, Pointed DEF Inode, Stage

LEMMA IputLastStep ==
  ASSUME IInv, NEW p \in Procs, IputLast(p)
  PROVE  IInv'
<1> DEFINE s == put[p]
<1>1. Shape(p) /\ Stays(p) /\ CallOK(p) /\ Typed /\ Owners
  BY DEF IInv, Typed
<1>2. Frame(p)
  BY Domains DEF Frame, At, IputLast, Goto
<1>3. /\ pc[p] = "iput" /\ ref[s] = 1 /\ valid[s] /\ nlink[s] = 0 /\ owner[s] = None
      /\ owner' = [owner EXCEPT ![s] = p] /\ pc' = [pc EXCEPT ![p] = "free"]
      /\ UNCHANGED <<disk, inum, ref, valid, type, nlink, call, cur, ip, put, ret, scan, cwd, fd>>
  BY DEF IputLast, LastPut, Goto
<1>4. s \in Slots /\ Stage(p) = ret[p] /\ ret[p] \in Rets
  BY <1>3, PutTarget DEF Putting
<1> HIDE DEF s
<1>5. /\ Stage(p)' = Stage(p) /\ pc'[p] = "free" /\ Op(p)' = Op(p) /\ Elems(p)' = Elems(p)
      /\ cur'[p] = cur[p] /\ ip'[p] = ip[p] /\ put'[p] = put[p]
  BY <1>3, <1>4, Domains DEF Stage, Putting, Op, Elems
<1>6. \A k \in Kinds : /\ At(k, p)' = At(k, p)
                       /\ (Dead(k, p)' <=> Dead(k, p)) /\ (Fresh(k, p)' <=> Fresh(k, p))
  BY <1>3, <1>5 DEF At, Dead, Fresh
<1>7. Making(p)' = Making(p) /\ (Owes(p)' <=> Owes(p))
  BY <1>3, <1>5 DEF Making, Owes
<1>8. \A q \in Procs : ~Locks(q, s)
  BY <1>1, <1>3, <1>4, ProcsAssumption DEF Owners
<1>9. \A t : Freeing(t)' <=> Freeing(t)
  <2>1. \A q \in Procs : (pc'[q] = "freed" <=> pc[q] = "freed") /\ put'[q] = put[q]
    BY <1>3, Domains
  <2> QED
    BY <2>1 DEF Freeing
<1>10. Typed'
  <2>1. CallOK(p)'
    BY <1>1, <1>3 DEF CallOK, Op
  <2>2. TypeOK'
    BY <1>3, <1>4, Domains DEF TypeOK, disk
  <2>3. DOMAIN pc' = Procs /\ DOMAIN ret' = Procs /\ DOMAIN call' = Procs
    BY <1>3, Domains
  <2> QED
    BY <1>1, <1>2, <2>1, <2>2, <2>3, TypedStep
<1>11. Shape(p)'
  BY <1>1, <1>3, <1>4, <1>5 DEF Shape, Putting
<1>12. Stays(p)'
  BY <1>1, <1>3, <1>5 DEF Stays, disk
<1>13. \A t \in Slots : Locks(p, t)' <=> Locks(p, t) \/ t = s
  BY <1>3, <1>5 DEF Locks, s
<1>14. Owners'
  BY <1>1, <1>2, <1>3, <1>4, <1>5, <1>13, Domains, OwnersStep, ProcsAssumption DEF Owners
<1>15. \A t \in Slots : Locks(p, t)' => valid'[t]
  BY <1>3, <1>13 DEF IInv, Loaded
<1>16. ref[s] > 0 /\ valid[s] => /\ nlink[s] = dlink[inum[s]]
                                 /\ Freeing(s) \/ (type[s] = dtype[inum[s]] /\ type[s] # "free")
  BY <1>4 DEF IInv, Copies
<1> QED
  BY <1>2, <1>3, <1>4, <1>5, <1>6, <1>7, <1>8, <1>9, <1>10, <1>11, <1>12, <1>14, <1>15, <1>16, StepLock DEF s

LEMMA IputUnlockStep ==
  ASSUME IInv, NEW p \in Procs, IputUnlock(p)
  PROVE  IInv'
<1> DEFINE s == put[p]
<1>1. Shape(p) /\ Stays(p) /\ CallOK(p) /\ Typed /\ Owners
  BY DEF IInv, Typed
<1>2. Frame(p)
  BY Domains DEF Frame, At, IputUnlock, Goto
<1>3. /\ pc[p] = "freed" /\ valid' = [valid EXCEPT ![s] = FALSE]
      /\ owner' = [owner EXCEPT ![s] = None] /\ pc' = [pc EXCEPT ![p] = "drop"]
      /\ UNCHANGED <<disk, inum, ref, type, nlink, call, cur, ip, put, ret, scan, cwd, fd>>
  BY DEF IputUnlock, Unlocked, Goto
<1>4. s \in Slots /\ Stage(p) = ret[p] /\ ret[p] \in Rets
  BY <1>3, PutTarget DEF Putting
<1>5. Locks(p, s) /\ owner[s] = p
  BY <1>1, <1>3, <1>4 DEF Owners, Locks
<1> HIDE DEF s
<1>6. /\ Stage(p)' = Stage(p) /\ pc'[p] = "drop" /\ Op(p)' = Op(p) /\ Elems(p)' = Elems(p)
      /\ cur'[p] = cur[p] /\ ip'[p] = ip[p] /\ put'[p] = put[p]
  BY <1>3, <1>4, Domains DEF Stage, Putting, Op, Elems
<1>7. \A k \in Kinds : /\ At(k, p)' = At(k, p)
                       /\ (Dead(k, p)' <=> Dead(k, p)) /\ (Fresh(k, p)' <=> Fresh(k, p))
  BY <1>3, <1>6 DEF At, Dead, Fresh
<1>8. Making(p)' = Making(p) /\ (Owes(p)' <=> Owes(p))
  BY <1>3, <1>6 DEF Making, Owes
<1>9. \A q \in Procs \ {p} : ~Locks(q, s)
  BY <1>1, <1>4, <1>5 DEF Owners
<1>10. \A t \in Slots \ {s} : Freeing(t)' <=> Freeing(t)
  <2>1. \A q \in Procs \ {p} : (pc'[q] = "freed" <=> pc[q] = "freed") /\ put'[q] = put[q]
    BY <1>3, Domains
  <2> QED
    BY <2>1, <1>6 DEF Freeing, s
<1>11. Typed'
  <2>1. CallOK(p)'
    BY <1>1, <1>3 DEF CallOK, Op
  <2>2. TypeOK'
    BY <1>3, <1>4, Domains DEF TypeOK, disk
  <2>3. DOMAIN pc' = Procs /\ DOMAIN ret' = Procs /\ DOMAIN call' = Procs
    BY <1>3, Domains
  <2> QED
    BY <1>1, <1>2, <2>1, <2>2, <2>3, TypedStep
<1>12. Shape(p)'
  BY <1>1, <1>3, <1>4, <1>6 DEF Shape, Putting
<1>13. Stays(p)'
  BY <1>1, <1>3, <1>6 DEF Stays, disk
<1>15. \A t \in Slots : Locks(p, t)' <=> Locks(p, t) /\ t # s
  <2>1. (cur[p] = s => Stage(p) \notin LockCur) /\ (ip[p] = s => Stage(p) \notin LockIp)
    BY <1>3 DEF IInv, Freers, s
  <2> QED
    BY <2>1, <1>3, <1>6 DEF Locks, s
<1>16. Owners'
  BY <1>1, <1>2, <1>3, <1>4, <1>5, <1>6, <1>15, Domains, OwnersStep, ProcsAssumption DEF Owners
<1>17. \A t \in Slots : Locks(p, t)' => valid'[t]
  BY <1>3, <1>4, <1>15, Domains DEF IInv, Loaded
<1>18. \A t \in Slots \ {s} : valid'[t] = valid[t]
  BY <1>3, Domains
<1>19. ~valid'[s]
  BY <1>3, <1>4, Domains
<1> QED
  BY <1>2, <1>3, <1>4, <1>6, <1>7, <1>8, <1>9, <1>10, <1>11, <1>12, <1>13, <1>16, <1>17, <1>18, <1>19, StepLock

LEMMA IputDropStep ==
  ASSUME IInv, NEW p \in Procs, IputDrop(p)
  PROVE  IInv'
<1> DEFINE s == put[p]
<1>1. Shape(p) /\ Stays(p) /\ CallOK(p) /\ Typed /\ Owners
  BY DEF IInv, Typed
<1>2. Frame(p)
  BY Domains DEF Frame, At, IputDrop, PutReturn, Goto
<1>3. /\ pc[p] \in {"drop", "iput"}
      /\ ref' = [ref EXCEPT ![s] = @ - 1]
      /\ IF ref'[s] = 0 THEN Forget(s) ELSE UNCHANGED <<inum, type, nlink>>
      /\ pc' = [pc EXCEPT ![p] = ret[p]] /\ put' = [put EXCEPT ![p] = None] /\ ret' = [ret EXCEPT ![p] = "idle"]
      /\ UNCHANGED <<disk, owner, valid, call, cur, ip, scan, cwd, fd>>
  BY DEF IputDrop, PutReturn, Goto
<1>4. s \in Slots /\ ref[s] > 0 /\ Stage(p) = ret[p] /\ ret[p] \in Rets /\ At("put", p) = s /\ "put" \in Kinds
  BY <1>3, PutTarget DEF Putting
<1> HIDE DEF s
<1>5. /\ Stage(p)' = Stage(p) /\ pc'[p] = ret[p] /\ Op(p)' = Op(p) /\ Elems(p)' = Elems(p)
      /\ cur'[p] = cur[p] /\ ip'[p] = ip[p] /\ put'[p] = None /\ (Owes(p)' <=> Owes(p))
  BY <1>3, <1>4, Domains DEF Stage, Putting, Op, Elems, Rets, Owes
\* Only an entry without references is forgotten.
<1>6. \A t \in Slots : /\ ref'[t] = ref[t] - (IF t = s THEN 1 ELSE 0) /\ ref'[t] \in Nat
                       /\ (ref[t] = 1 /\ t = s) \/ (inum'[t] = inum[t] /\ type'[t] = type[t] /\ nlink'[t] = nlink[t])
  BY <1>3, <1>4, Domains DEF Forget
<1>7. ASSUME NEW k \in Kinds, NEW q \in Procs, At(k, q) # None, k # "put" \/ q # p
      PROVE  inum'[At(k, q)] = inum[At(k, q)] /\ At(k, q) \in Slots /\ (At(k, q) = s => ref[s] # 1)
  <2>1. At(k, q) \in Slots
    BY <1>7, Pointed
  <2>2. At(k, q) = s => ref[s] # 1
    BY <1>4, <1>7, HeldTwice DEF IInv
  <2> QED
    BY <1>6, <2>1, <2>2
<1>8. KeepsNodes(p)
  BY <1>7 DEF KeepsNodes
<1>9. \A k \in Kinds : At(k, p)' = IF k = "put" THEN None ELSE At(k, p)
  BY <1>3, <1>5 DEF At, Kinds
<1>10. At("cur", p) = cur[p] /\ At("ip", p) = ip[p] /\ {"cur", "ip"} \subseteq Kinds
  BY DEF At, Kinds
<1>11. (cur[p] # None => inum'[cur[p]] = inum[cur[p]]) /\ (ip[p] # None => inum'[ip[p]] = inum[ip[p]])
  BY <1>7, <1>10
<1>12. Typed'
  <2>1. CallOK(p)'
    BY <1>1, <1>3 DEF CallOK, Op
  <2>2. TypeOK'
    <3>1. 0 \in 0..NInodes /\ 0 \in Nat /\ "free" \in Types
      BY SizeAssumption DEF Types
    <3>2. /\ inum' \in [Slots -> 0..NInodes] /\ ref' \in [Slots -> Nat]
          /\ type' \in [Slots -> Types] /\ nlink' \in [Slots -> Nat]
      <4>1. CASE ref'[s] = 0
        <5>1. Forget(s)
          BY <1>3, <4>1
        <5>2. ref' \in [Slots -> Nat]
          BY <1>3, <1>6, Domains
        <5> QED
          BY <5>1, <5>2, <1>4, <3>1, Domains DEF Forget
      <4>2. CASE ref'[s] # 0
        BY <1>3, <1>4, <1>6, <4>2, Domains
      <4> QED
        BY <4>1, <4>2
    <3>3. put' \in [Procs -> Slots \cup {None}]
      BY <1>3, Domains
    <3> QED
      BY <1>3, <3>2, <3>3, Domains DEF TypeOK, disk
  <2>3. DOMAIN pc' = Procs /\ DOMAIN ret' = Procs /\ DOMAIN call' = Procs
    BY <1>3, Domains
  <2> QED
    BY <1>1, <1>2, <2>1, <2>2, <2>3, TypedStep
<1>13. Shape(p)'
  BY <1>1, <1>3, <1>4, <1>5 DEF Shape, Putting, Rets
<1>14. Stays(p)'
  <2>1. Stage(p) \in AtEnd => cur[p] # None
    BY <1>1 DEF Shape, AtEnd, WithCur
  <2>2. Op(p) = "newname" => ip[p] # None
    BY <1>1 DEF Shape
  <2> QED
    BY <1>1, <1>3, <1>4, <1>5, <1>11, <2>1, <2>2 DEF Stays, disk, Rets
<1>15. Owners'
  <2>1. \A t \in Slots : Locks(p, t)' <=> Locks(p, t)
    BY <1>3, <1>4, <1>5, ProcsAssumption DEF Locks, Rets
  <2> QED
    BY <1>1, <1>2, <1>3, <2>1, OwnersStep, ProcsAssumption DEF Owners
<1>16. (\A q \in Procs : Shape(q)') /\ (\A q \in Procs : Stays(q)')
  BY <1>2, <1>3, <1>8, <1>13, <1>14, ShapeStep, StaysStep DEF IInv, disk
<1>17. RefExact'
  <2> SUFFICES ASSUME NEW t \in Slots PROVE ref'[t] = Cardinality(RefsTo(t))'
    BY DEF RefExact
  <2>1. Cardinality(RefsTo(t))' = Cardinality(RefsTo(t)) - (IF t = put[p] THEN 1 ELSE 0)
    BY <1>2, <1>4, <1>9, DropCount, ProcsAssumption
  <2> QED
    BY <1>6, <2>1 DEF IInv, RefExact, s
<1>18. \A t \in Slots : ref'[t] > 0 => ref[t] > 0 /\ inum'[t] = inum[t] /\ type'[t] = type[t] /\ nlink'[t] = nlink[t]
  BY <1>6, Domains
<1>19. InTable' /\ OneEntryPerInode'
  BY <1>18 DEF IInv, InTable, OneEntryPerInode
<1>20. Loaded'
  <2>1. \A t \in Slots : Locks(p, t)' => Locks(p, t)
    BY <1>3, <1>4, <1>5, ProcsAssumption DEF Locks, Rets
  <2> QED
    BY <1>2, <1>3, <2>1, LoadedStep DEF IInv, Loaded
<1>21. ~Dead("cwd", p)' /\ \A k \in Kinds : ~Dead(k, p)' /\ ~Fresh(k, p)' /\ ~Fresh(k, p)
  BY <1>3, <1>4, <1>5 DEF Dead, Fresh, Rets
<1>22. Alive'
  <2>1. \A i : Settled(i) => Settled(i)'
    BY <1>3 DEF Settled, disk
  <2>2. ASSUME NEW k \in Kinds, At(k, p)' # None PROVE Settled(Inode(k, p))'
    <3>1. k # "put" /\ At(k, p)' = At(k, p)
      BY <1>9, <2>2
    <3>2. Settled(Inode(k, p))
      BY <1>21, <2>2, <3>1 DEF IInv, Alive, Dead
    <3>3. Inode(k, p)' = Inode(k, p)
      BY <1>7, <2>2, <3>1 DEF Inode
    <3> QED
      BY <2>1, <3>2, <3>3 DEF Settled
  <2> QED
    BY <1>2, <1>8, <2>1, <2>2, AliveStep DEF IInv
<1>23. Privates'
  <2>1. Making(p)' = 0
    BY <1>4, <1>5 DEF Making, Rets
  <2>2. ASSUME NEW q \in Procs \ {p}, NEW k \in Kinds, Making(q) # 0, At(k, p)' # None
        PROVE  Inode(k, p)' # Making(q)
    <3>1. k # "put" /\ At(k, p)' = At(k, p)
      BY <1>9, <2>2
    <3>2. Inode(k, p)' = Inode(k, p)
      BY <1>7, <2>2, <3>1 DEF Inode
    <3>3. Private(q, Making(q))
      BY <2>2 DEF IInv, Privates
    <3> QED
      BY <2>2, <3>1, <3>2, <3>3 DEF Private, Dead
  <2> QED
    BY <1>2, <1>3, <1>8, <2>1, <2>2, PrivatesStep DEF IInv, disk
<1>24. Copies'
  <2>1. \A t : Freeing(t) => Freeing(t)'
    <3>1. \A q \in Procs : pc[q] = "freed" => pc'[q] = "freed" /\ put'[q] = put[q]
      BY <1>3, Domains
    <3> QED
      BY <3>1 DEF Freeing
  <2> QED
    BY <1>3, <1>18, <2>1 DEF IInv, Copies, disk
<1>25. Freers'
  <2>1. ASSUME NEW q \in Procs \ {p}, pc[q] \in {"free", "freed"}
        PROVE  put[q] \in Slots /\ (put[q] = s => ref[s] # 1)
    <3>1. At("put", q) = put[q] /\ put[q] # None
      BY <2>1 DEF At, IInv, Shape, Putting
    <3> QED
      BY <1>4, <1>7, <3>1
  <2>2. ASSUME NEW q \in Procs \ {p}, pc[q] \in {"free", "freed"} PROVE nlink'[put[q]] = nlink[put[q]]
    BY <1>6, <2>1, <2>2
  <2>3. ASSUME NEW q \in Procs \ {p}, pc[q] = "free" PROVE ref'[put[q]] = ref[put[q]]
    <3>1. ref[put[q]] = 1
      BY <2>3 DEF IInv, Freers
    <3> QED
      BY <1>6, <2>1, <2>3, <3>1
  <2> QED
    BY <1>2, <1>3, <1>4, <1>5, <2>2, <2>3, FreersStep DEF IInv, Rets
<1>26. Counted'
  <2>1. SameDebt(p)
    <3>1. Owes(p) => ip[p] # None
      BY <1>1 DEF Owes, Shape, WithIp
    <3> QED
      BY <1>5, <1>11, <3>1 DEF SameDebt
  <2> QED
    BY <1>2, <1>3, <1>8, <2>1, CountedSame DEF IInv
<1>27. Entries' /\ RootStays'
  BY <1>3 DEF IInv, Entries, RootStays, disk
<1> QED
  BY <1>12, <1>15, <1>16, <1>17, <1>19, <1>20, <1>22, <1>23, <1>24, <1>25, <1>26, <1>27 DEF IInv

\* Nothing leads to a free inode but what is left of freeing it.
LEMMA FreeUnused ==
  ASSUME IInv, NEW i \in Inums, dtype[i] = "free"
  PROVE  /\ i # Root /\ NamesOf(i) = {} /\ Subdirs(i) = {} /\ Pending(i) = {}
         /\ \A q \in Procs : Making(q) # i
         /\ \A k \in Kinds, q \in Procs : At(k, q) # None /\ Inode(k, q) = i => Dead(k, q)
<1>1. i # Root
  BY DEF IInv, RootStays
<1>2. NamesOf(i) = {}
  BY SizeAssumption DEF IInv, Entries, NamesOf, Inums
<1>3. Subdirs(i) = {}
  BY DEF IInv, Entries, Subdirs
<1>4. ASSUME NEW q \in Procs PROVE Making(q) # i
  BY SizeAssumption DEF IInv, Privates, Private, Inums
<1>5. ASSUME NEW k \in Kinds, NEW q \in Procs, At(k, q) # None, Inode(k, q) = i, ~Dead(k, q) PROVE FALSE
  <2>1. CASE Fresh(k, q)
    <3>1. Making(q) = i
      BY <1>5, <2>1 DEF Fresh, Making, Inode, At
    <3> QED
      BY <1>4, <3>1
  <2>2. CASE ~Fresh(k, q)
    BY <1>5, <2>2 DEF IInv, Alive, Settled
  <2> QED
    BY <2>1, <2>2
<1>6. ASSUME NEW q \in Pending(i) PROVE FALSE
  <2>1. q \in Procs /\ Owes(q) /\ inum[ip[q]] = i
    BY DEF Pending
  <2>2. ip[q] # None
    BY <2>1 DEF IInv, Shape, Owes, WithIp
  <2>3. At("ip", q) = ip[q] /\ "ip" \in Kinds /\ ~Dead("ip", q)
    BY DEF At, Kinds, Dead
  <2> QED
    BY <1>5, <2>1, <2>2, <2>3 DEF Inode
<1> QED
  BY <1>1, <1>2, <1>3, <1>4, <1>5, <1>6

LEMMA IallocFoundStep ==
  ASSUME IInv, NEW p \in Procs, IallocFound(p)
  PROVE  IInv'
<1>0. PICK i \in Inums : i = scan[p]
  BY DEF IallocFound
<1>1. Shape(p) /\ Stays(p) /\ CallOK(p) /\ Typed /\ Owners
  BY DEF IInv, Typed
<1>2. Frame(p)
  BY Domains DEF Frame, At, IallocFound, Goto
<1>3. /\ pc[p] = "ialloc" /\ i \in Inums /\ dtype[i] = "free" /\ pc' = [pc EXCEPT ![p] = "alloced"]
      /\ dtype' = [dtype EXCEPT ![i] = IF Op(p) = "mkdir" THEN "dir" ELSE "file"]
      /\ dlink' = [dlink EXCEPT ![i] = 0] /\ ents' = [ents EXCEPT ![i] = NoEnts] /\ up' = [up EXCEPT ![i] = 0]
      /\ UNCHANGED <<table, call, cur, ip, put, ret, scan, cwd, fd>>
  BY <1>0 DEF IallocFound, Goto
<1>4. /\ i # Root /\ NamesOf(i) = {} /\ Subdirs(i) = {} /\ Pending(i) = {} /\ \A q \in Procs : Making(q) # i
      /\ \A k \in Kinds, q \in Procs : At(k, q) # None /\ Inode(k, q) = i => Dead(k, q)
  BY <1>3, FreeUnused
<1>5. /\ Stage(p) = "ialloc" /\ Stage(p)' = "alloced" /\ pc'[p] = "alloced" /\ Op(p)' = Op(p) /\ Elems(p)' = Elems(p)
      /\ cur'[p] = cur[p] /\ ip'[p] = ip[p] /\ put'[p] = put[p] /\ put[p] = None /\ ip[p] = None /\ Making(p)' = i
      /\ cur[p] \in Slots /\ scan'[p] = i
  BY <1>0, <1>1, <1>3, Domains, ProcsAssumption DEF Stage, Putting, Op, Elems, Shape, AtEnd, WithCur, WithIp, Renaming, Making
<1>6. /\ \A k \in Kinds : At(k, p)' = At(k, p) /\ ~Dead(k, p) /\ ~Dead(k, p)' /\ ~Fresh(k, p)
      /\ inum' = inum /\ ref' = ref /\ valid' = valid /\ type' = type /\ nlink' = nlink /\ owner' = owner
      /\ KeepsNodes(p)
  BY <1>3, <1>5 DEF At, Dead, Fresh, table, KeepsNodes
<1>7. \A j \in Inums \ {i} : dtype'[j] = dtype[j] /\ dlink'[j] = dlink[j] /\ ents'[j] = ents[j] /\ up'[j] = up[j]
  BY <1>3, Domains
<1>8. /\ dtype'[i] = (IF Op(p) = "mkdir" THEN "dir" ELSE "file") /\ dlink'[i] = 0 /\ ents'[i] = NoEnts
  BY <1>3, Domains
<1>9. ASSUME NEW k \in Kinds, NEW q \in Procs, At(k, q) # None, ~Dead(k, q)
      PROVE  Inode(k, q) \in Inums \ {i}
  BY <1>4, <1>9, Pointed
<1>10. Typed'
  <2>1. CallOK(p)'
    BY <1>1, <1>3 DEF CallOK, Op
  <2>2. TypeOK'
    <3>1. 0 \in 0..NInodes /\ 0 \in Nat /\ {"dir", "file"} \subseteq Types /\ NoEnts \in [Names -> 0..NInodes]
      BY SizeAssumption DEF Types, NoEnts
    <3>2. /\ dtype' \in [Inums -> Types] /\ dlink' \in [Inums -> Nat]
          /\ ents' \in [Inums -> [Names -> 0..NInodes]] /\ up' \in [Inums -> 0..NInodes]
      BY <1>3, <3>1, Domains
    <3> QED
      BY <1>3, <3>2, Domains DEF TypeOK, table
  <2>3. DOMAIN pc' = Procs /\ DOMAIN ret' = Procs /\ DOMAIN call' = Procs
    BY <1>3, Domains
  <2> QED
    BY <1>1, <1>2, <2>1, <2>2, <2>3, TypedStep
<1>11. Shape(p)'
  BY <1>1, <1>3, <1>5 DEF Shape, Putting, WithCur, WithIp, Renaming, Looking, AtEnd
<1>12. At("cur", p) = cur[p] /\ "cur" \in Kinds /\ inum[cur[p]] \in Inums \ {i}
  <2>1. At("cur", p) = cur[p] /\ "cur" \in Kinds
    BY DEF At, Kinds
  <2> QED
    BY <1>5, <1>6, <1>9, <2>1, ProcsAssumption DEF Inode
<1>13. Stays(p)'
  <2>1. Child(p)' = Child(p)
    BY <1>5, <1>6, <1>7, <1>12 DEF Child
  <2> QED
    BY <1>1, <1>3, <1>5, <1>6, <1>7, <1>12, <2>1 DEF Stays, AtEnd, Shape, Renaming
<1>14. Owners' /\ Unlocks(p)
  <2>1. \A t \in Slots : Locks(p, t)' <=> Locks(p, t)
    BY <1>5, <1>3 DEF Locks, LockCur, LockIp
  <2> QED
    BY <1>1, <1>2, <1>3, <1>6, <2>1, OwnersStep, ProcsAssumption DEF Owners, Unlocks
<1>15. (\A q \in Procs : Shape(q)') /\ (\A q \in Procs : Stays(q)')
  <2>1. ASSUME NEW q \in Procs, cur[q] # None PROVE inum[cur[q]] \in Inums \ {i}
    <3>1. At("cur", q) = cur[q] /\ "cur" \in Kinds /\ ~Dead("cur", q)
      BY DEF At, Kinds, Dead
    <3> QED
      BY <1>9, <2>1, <3>1 DEF Inode
  <2>2. ASSUME NEW q \in Procs, ip[q] # None PROVE inum[ip[q]] \in Inums \ {i}
    <3>1. At("ip", q) = ip[q] /\ "ip" \in Kinds /\ ~Dead("ip", q)
      BY DEF At, Kinds, Dead
    <3> QED
      BY <1>9, <2>2, <3>1 DEF Inode
  <2>3. ASSUME NEW q \in Procs
        PROVE  /\ Stage(q) \in AtEnd => cur[q] # None
               /\ pc[q] \in {"ialloc", "alloced", "fresh", "fill", "victim", "remove"} => cur[q] # None
               /\ Op(q) = "newname" => ip[q] # None
    BY DEF IInv, Shape, Stage, Putting, AtEnd, WithCur
  <2> QED
    BY <1>2, <1>6, <1>7, <1>11, <1>13, <2>1, <2>2, <2>3, ShapeStep, StaysStep DEF IInv
<1>16. RefExact' /\ InTable' /\ OneEntryPerInode' /\ Loaded'
  <2>1. Moves(p, Swap("cur", "cur"))
    BY <1>6, SwapMoves DEF Kinds
  <2>2. Loaded'
    BY <1>2, <1>6, <1>14, LoadedStep DEF IInv, Loaded, Unlocks
  <2> QED
    BY <1>2, <1>6, <2>1, <2>2, RefsKept DEF IInv, InTable, OneEntryPerInode
<1>17. Alive'
  <2>1. ASSUME NEW k \in Kinds, NEW q \in Procs, At(k, q) # None, ~Dead(k, q), Settled(Inode(k, q))
        PROVE  Settled(Inode(k, q))' /\ \A j \in {Inode(k, q)} : Settled(j)'
    BY <1>6, <1>7, <1>9, <2>1, FrameSame, <1>2 DEF Settled, Inode
  <2>2. ASSUME NEW k \in Kinds, At(k, p)' # None PROVE Settled(Inode(k, p))'
    <3>1. Settled(Inode(k, p))
      BY <1>6, <2>2 DEF IInv, Alive
    <3> QED
      BY <1>6, <2>1, <2>2, <3>1
  <2> QED
    BY <1>2, <1>6, <2>1, <2>2, AliveStep DEF IInv
<1>18. Privates'
  <2>1. ASSUME NEW q \in Procs \ {p}, Making(q) # 0
        PROVE  Making(q) \in Inums \ {i} /\ \A k \in Kinds : At(k, p)' # None => Inode(k, p)' # Making(q)
    <3>1. Private(q, Making(q))
      BY <2>1 DEF IInv, Privates
    <3>2. Making(q) \in Inums
      <4>1. pc[q] \in {"fresh", "fill"} => At("ip", q) = ip[q] /\ "ip" \in Kinds /\ ip[q] # None
        BY DEF At, Kinds, IInv, Shape, Stage, Putting, WithIp
      <4> QED
        BY <2>1, <4>1, Pointed DEF Making, Inode, IInv, Shape, Stage, Putting
    <3>3. ASSUME NEW k \in Kinds, At(k, p)' # None, Inode(k, p)' = Making(q) PROVE FALSE
      <4>1. Inode(k, p) = Making(q)
        BY <1>6, <3>3 DEF Inode
      <4> QED
        BY <1>6, <3>1, <3>3, <4>1 DEF Private
    <3> QED
      BY <1>4, <3>2, <3>3
  <2>2. Private(p, i)'
    <3>1. ASSUME NEW k \in Kinds, NEW q \in Procs, At(k, q)' # None, Inode(k, q)' = i PROVE Dead(k, q)'
      <4>1. At(k, q)' = At(k, q) /\ (Dead(k, q) => Dead(k, q)')
        BY <1>2, <1>6, FrameSame
      <4> QED
        BY <1>4, <1>6, <3>1, <4>1 DEF Inode
    <3>2. \A q \in Procs \ {p} : Making(q)' # i
      BY <1>2, <1>4, <1>6, MakingSame DEF IInv
    <3>3. ents'[i] = NoEnts' /\ dlink'[i] = 0 /\ dtype'[i] = (IF Op(p)' = "mkdir" THEN "dir" ELSE "file")
      BY <1>5, <1>8 DEF NoEnts
    <3> QED
      BY <3>1, <3>2, <3>3 DEF Private
  <2>3. ASSUME NEW q \in Procs \ {p}, Making(q) # 0
        PROVE  /\ dtype'[Making(q)] = dtype[Making(q)] /\ dlink'[Making(q)] = dlink[Making(q)]
               /\ ents'[Making(q)] = ents[Making(q)] /\ Making(p)' # Making(q)
    BY <1>5, <1>7, <2>1, <2>3
  <2> QED
    BY <1>2, <1>5, <1>6, <2>1, <2>2, <2>3, PrivatesStep DEF IInv
<1>19. Copies'
  <2>1. \A t : Freeing(t)' <=> Freeing(t)
    <3>1. \A q \in Procs : (pc'[q] = "freed" <=> pc[q] = "freed") /\ put'[q] = put[q]
      BY <1>3, Domains
    <3> QED
      BY <3>1 DEF Freeing
  <2> SUFFICES ASSUME NEW t \in Slots, ref[t] > 0, valid[t]
               PROVE  /\ nlink[t] = dlink'[inum[t]]
                      /\ Freeing(t) \/ (type[t] = dtype'[inum[t]] /\ type[t] # "free")
    BY <1>6, <2>1 DEF Copies
  <2>2. CASE inum[t] # i
    BY <1>7, <2>2 DEF IInv, Copies, InTable
  <2>3. CASE inum[t] = i
    <3>1. Freeing(t)
      BY <1>3, <2>3 DEF IInv, Copies
    <3>2. nlink[t] = 0
      BY <3>1 DEF Freeing, IInv, Freers
    <3> QED
      BY <1>8, <2>3, <3>1, <3>2
  <2> QED
    BY <2>2, <2>3
<1>20. Freers'
  BY <1>2, <1>5, <1>6, FreersStep DEF IInv
<1>21. Counted'
  <2> SUFFICES ASSUME NEW j \in Inums PROVE dlink'[j] >= Least(j)'
    BY DEF Counted
  <2>1. Pending(j)' = Pending(j)
    <3>1. Owes(p)' = FALSE /\ Owes(p) = FALSE
      BY <1>1, <1>5 DEF Owes, Shape, Renaming
    <3> QED
      BY <1>2, <1>6, <3>1, PendingSame DEF IInv, Pending
  <2>2. NamesOf(j)' \subseteq NamesOf(j)
    BY <1>7, <1>8, SizeAssumption DEF NamesOf, NoEnts, Inums
  <2>3. CASE j = i
    <3>1. NamesOf(i)' = {} /\ Pending(i)' = {}
      BY <1>4, <2>1, <2>2, <2>3
    <3>2. Subdirs(i)' = {}
      BY <1>8 DEF Subdirs, NoEnts
    <3>3. Cardinality({}) = 0
      BY FS_EmptySet
    <3>4. Least(i)' = 0
      BY <1>4, <3>1, <3>2, <3>3 DEF Least
    <3> QED
      BY <1>8, <2>3, <3>4
  <2>4. CASE j # i
    <3>1. Subdirs(j)' \subseteq Subdirs(j)
      <4> SUFFICES ASSUME NEW n \in Names, ents[j][n] # 0, dtype'[ents[j][n]] = "dir" PROVE dtype[ents[j][n]] = "dir"
        BY <1>7, <2>4 DEF Subdirs
      <4>1. ents[j][n] \in Inums
        BY Domains, SizeAssumption DEF Inums
      <4>2. ents[j][n] # i
        <5>1. ents[j][n] = i => <<j, n>> \in NamesOf(i)
          BY DEF NamesOf
        <5> QED
          BY <1>4, <5>1
      <4> QED
        BY <1>7, <4>1, <4>2
    <3>2. Least(j)' <= Least(j)
      BY <2>1, <2>2, <3>1, LeastShrinks
    <3>3. dlink[j] >= Least(j) /\ dlink[j] \in Nat
      BY Domains DEF IInv, Counted
    <3> QED
      BY <1>7, <2>4, <3>2, <3>3, LinksFinite
  <2> QED
    BY <2>3, <2>4
<1>22. Entries'
  <2> SUFFICES ASSUME NEW d \in Inums, NEW n \in Names, ents'[d][n] # 0
               PROVE  /\ dtype'[d] = "dir" /\ up'[d] \in Inums /\ dtype'[ents'[d][n]] # "free"
                      /\ dtype'[ents'[d][n]] = "dir" => up'[ents'[d][n]] = d /\ \A m \in Names : ents'[ents'[d][n]][m] # d
    BY DEF Entries
  <2>1. d # i
    BY <1>8 DEF NoEnts
  <2>2. ents'[d] = ents[d]
    BY <1>7, <2>1
  <2>3. ents[d][n] \in Inums \ {i}
    <3>1. ents[d][n] = i => <<d, n>> \in NamesOf(i)
      BY DEF NamesOf
    <3>2. ents[d][n] # 0
      BY <2>2
    <3>3. ents[d][n] \in Inums
      BY <3>2, Domains, SizeAssumption DEF Inums
    <3> QED
      BY <1>4, <3>1, <3>3
  <2> QED
    BY <1>7, <2>1, <2>2, <2>3 DEF IInv, Entries
<1>23. RootStays'
  BY <1>4, <1>7, SizeAssumption DEF IInv, RootStays, Inums, Root
<1> QED
  BY <1>10, <1>14, <1>15, <1>16, <1>17, <1>18, <1>19, <1>20, <1>21, <1>22, <1>23 DEF IInv
-----------------------------------------------------------------------------
(* Steps that write to inodes their process has locked.                    *)

LEMMA StepWrites ==
  ASSUME IInv, NEW p \in Procs, NEW f, Frame(p), Moves(p, f), Unlocks(p), UNCHANGED <<inum, ref, valid>>,
         pc[p] \notin {"freed", "drop"}, pc'[p] \notin {"alloced", "fresh", "fill", "free", "drop"},
         \A s \in Slots : ~Locks(p, s) => type'[s] = type[s] /\ nlink'[s] = nlink[s],
         \A i \in Inums : (\A s \in Slots : Locks(p, s) => inum[s] # i) =>
           dtype'[i] = dtype[i] /\ dlink'[i] = dlink[i] /\ ents'[i] = ents[i] /\ up'[i] = up[i],
         \A q \in Procs \ {p}, k \in Kinds : At(k, q) # None /\ ~Dead(k, q) =>
           dtype'[Inode(k, q)] = dtype[Inode(k, q)] /\ up'[Inode(k, q)] = up[Inode(k, q)],
         \A k \in Kinds : At(k, p)' # None /\ ~Dead(k, p)' => Settled(Inode(k, p))',
         \A s \in Slots : Locks(p, s) =>
           /\ nlink'[s] = dlink'[inum[s]]
           /\ Freeing(s)' \/ (type'[s] = dtype'[inum[s]] /\ type'[s] # "free"),
         pc'[p] = "freed" => valid[put'[p]] /\ nlink'[put'[p]] = 0 /\ put'[p] \notin {cur'[p], ip'[p]},
         Typed', Shape(p)', Stays(p)', Owners', Counted', Entries', RootStays'
  PROVE  IInv'
<1>1. KeepsNodes(p)
  BY DEF KeepsNodes
\* No other process has locked the same inodes.
<1>2. ASSUME NEW q \in Procs \ {p}, NEW t \in Slots, Locks(q, t)
      PROVE  ~Locks(p, t) /\ inum[t] \in Inums /\ \A s \in Slots : Locks(p, s) => inum[s] # inum[t]
  <2>1. owner[t] = q /\ ref[t] > 0 /\ inum[t] \in Inums
    BY <1>2, LockedCopy
  <2>2. ASSUME NEW s \in Slots, Locks(p, s), inum[s] = inum[t] PROVE FALSE
    <3>1. owner[s] = p /\ ref[s] > 0
      BY <2>2, LockedCopy
    <3>2. s = t
      BY <2>1, <2>2, <3>1 DEF IInv, OneEntryPerInode
    <3> QED
      BY <2>1, <3>1, <3>2
  <2>3. ~Locks(p, t)
    BY <2>2
  <2> QED
    BY <2>1, <2>2, <2>3
<1>3. \A q \in Procs : Shape(q)'
  BY ShapeStep DEF IInv
<1>4. \A q \in Procs : Stays(q)'
  <2>1. At("cwd", p) = cwd[p] /\ {"cur", "ip"} \subseteq Kinds /\ \A q \in Procs : At("cur", q) = cur[q] /\ At("ip", q) = ip[q]
    BY DEF At, Kinds
  <2>2. \A q \in Procs : ~Dead("cur", q) /\ ~Dead("ip", q)
    BY DEF Dead
  <2>3. ASSUME NEW q \in Procs \ {p}
        PROVE  /\ cur[q] # None => dtype'[inum[cur[q]]] = dtype[inum[cur[q]]]
               /\ ip[q] # None => dtype'[inum[ip[q]]] = dtype[inum[ip[q]]]
    BY <2>1, <2>2 DEF Inode
  <2>4. ASSUME NEW q \in Procs \ {p}
        PROVE  /\ Stage(q) \in AtEnd => cur[q] # None
               /\ Op(q) = "newname" => ip[q] # None
    BY DEF IInv, Shape, AtEnd, WithCur
  <2>5. ASSUME NEW q \in Procs \ {p}, pc[q] \in {"ialloc", "alloced", "fresh", "fill", "victim", "remove"}
        PROVE  ents'[inum[cur[q]]] = ents[inum[cur[q]]]
    <3>1. Stage(q) = pc[q]
      BY <2>5 DEF Stage, Putting
    <3>2. cur[q] \in Slots /\ Locks(q, cur[q])
      BY <2>4, <2>5, <3>1, Domains DEF Locks, LockCur, AtEnd
    <3> QED
      BY <1>2, <3>2
  <2> QED
    BY <1>1, <2>3, <2>4, <2>5, StaysStep DEF IInv
<1>5. RefExact' /\ InTable' /\ OneEntryPerInode' /\ Loaded'
  <2>1. Loaded'
    BY LoadedStep DEF IInv, Loaded, Unlocks
  <2> QED
    BY <2>1, RefsKept DEF IInv, InTable, OneEntryPerInode
<1>6. Alive'
  <2>1. ASSUME NEW q \in Procs \ {p}, NEW k \in Kinds, At(k, q) # None, ~Dead(k, q), Settled(Inode(k, q))
        PROVE  \A i \in {Inode(k, q)} : Settled(i)'
    BY <2>1 DEF Settled
  <2> QED
    BY <1>1, <2>1, AliveStep DEF IInv
<1>7. Privates'
  <2>1. Making(p)' = 0
    BY DEF Making
  <2>2. ASSUME NEW q \in Procs \ {p}, Making(q) # 0, NEW k \in Kinds, At(k, p) # None PROVE Inode(k, p) # Making(q)
    <3>1. Private(q, Making(q))
      BY <2>2 DEF IInv, Privates
    <3> QED
      BY <2>2, <3>1 DEF Private, Dead
  <2>3. ASSUME NEW q \in Procs \ {p}, Making(q) # 0, NEW k \in Kinds, At(k, p)' # None PROVE Inode(k, p)' # Making(q)
    <3>1. PICK l \in Kinds : f[l] = k
      BY DEF Moves, Permutes
    <3>2. At(k, p)' = At(l, p)
      BY <3>1 DEF Moves
    <3> QED
      BY <2>2, <2>3, <3>2 DEF Inode
  <2>4. ASSUME NEW q \in Procs \ {p}, Making(q) # 0
        PROVE  /\ dtype'[Making(q)] = dtype[Making(q)] /\ dlink'[Making(q)] = dlink[Making(q)]
               /\ ents'[Making(q)] = ents[Making(q)]
    <3>1. Making(q) \in Inums
      <4>1. pc[q] \in {"fresh", "fill"} => At("ip", q) = ip[q] /\ "ip" \in Kinds /\ ip[q] # None
        BY DEF At, Kinds, IInv, Shape, Stage, Putting, WithIp
      <4> QED
        BY <2>4, <4>1, Pointed DEF Making, Inode, IInv, Shape, Stage, Putting
    <3>2. ASSUME NEW s \in Slots, Locks(p, s) PROVE inum[s] # Making(q)
      <4>1. PICK k \in Kinds : At(k, p) = s
        BY <3>2 DEF Locks, At, Kinds
      <4>2. s # None
        BY ProcsAssumption
      <4> QED
        BY <2>2, <2>4, <4>1, <4>2 DEF Inode
    <3> QED
      BY <3>1, <3>2
  <2> QED
    BY <1>1, <2>1, <2>3, <2>4, PrivatesStep DEF IInv
<1>8. Copies'
  <2>1. \A t : Freeing(t) => Freeing(t)'
    <3>1. \A q \in Procs : pc[q] = "freed" => pc'[q] = "freed" /\ put'[q] = put[q]
      BY FrameSame
    <3> QED
      BY <3>1 DEF Freeing
  <2> SUFFICES ASSUME NEW t \in Slots, ref[t] > 0, valid[t]
               PROVE  /\ nlink'[t] = dlink'[inum[t]]
                      /\ Freeing(t)' \/ (type'[t] = dtype'[inum[t]] /\ type'[t] # "free")
    BY DEF Copies
  <2>2. CASE Locks(p, t)
    BY <2>2
  <2>3. CASE ~Locks(p, t)
    <3>1. inum[t] \in Inums
      BY DEF IInv, InTable
    <3>2. ASSUME NEW s \in Slots, Locks(p, s) PROVE inum[s] # inum[t]
      <4>1. ref[s] > 0
        BY <3>2, LockedCopy
      <4> QED
        BY <2>3, <3>2, <4>1 DEF IInv, OneEntryPerInode
    <3>3. dlink'[inum[t]] = dlink[inum[t]] /\ dtype'[inum[t]] = dtype[inum[t]]
      BY <3>1, <3>2
    <3> QED
      BY <2>1, <2>3, <3>3 DEF IInv, Copies
  <2> QED
    BY <2>2, <2>3
<1>9. Freers'
  <2>1. ASSUME NEW q \in Procs \ {p}, pc[q] \in {"free", "freed"} PROVE nlink'[put[q]] = nlink[put[q]]
    <3>1. put[q] \in Slots /\ Locks(q, put[q])
      BY <2>1, PutTarget DEF Putting, Locks
    <3> QED
      BY <1>2, <3>1
  <2> QED
    BY <2>1, FreersStep DEF IInv
<1> QED
  BY <1>3, <1>4, <1>5, <1>6, <1>7, <1>8, <1>9 DEF IInv

\* Where the disk keeps the types and parents of inodes, they stay settled.
LEMMA MovesSettled ==
  ASSUME IInv, NEW p \in Procs, NEW f, Moves(p, f), inum' = inum, dtype' = dtype, up' = up,
         pc[p] \notin {"fresh", "fill", "freed", "drop"}
  PROVE  \A k \in Kinds : At(k, p)' # None => Settled(Inode(k, p))'
<1> SUFFICES ASSUME NEW k \in Kinds, At(k, p)' # None PROVE Settled(Inode(k, p))'
  OBVIOUS
<1>1. PICK l \in Kinds : f[l] = k
  BY DEF Moves, Permutes
<1>2. At(k, p)' = At(l, p)
  BY <1>1 DEF Moves
<1>3. Settled(Inode(l, p))
  BY <1>2 DEF IInv, Alive, Dead, Fresh
<1> QED
  BY <1>2, <1>3 DEF Inode, Settled

\* p gives up one lock.
LEMMA OwnersGiven ==
  ASSUME IInv, NEW p \in Procs, NEW s \in Slots, Frame(p), owner[s] = p, owner' = [owner EXCEPT ![s] = None],
         pc[p] # "igetPanic", \A t \in Slots : Locks(p, t)' <=> Locks(p, t) /\ t # s
  PROVE  Owners'
<1>1. \A t \in Slots : owner'[t] = IF t = s THEN None ELSE owner[t]
  BY Domains
<1>2. \A t \in Slots : owner'[t] = owner[t] \/ {owner[t], owner'[t]} \subseteq {p, None}
  BY <1>1
<1>3. \A t \in Slots : Locks(p, t)' => owner'[t] = p
  BY <1>1 DEF IInv, Owners
<1>4. \A t \in Slots : owner'[t] = p => Locks(p, t)'
  BY <1>1, ProcsAssumption DEF IInv, Owners
<1> QED
  BY <1>2, <1>3, <1>4, OwnersStep, ProcsAssumption DEF IInv

LEMMA DropLinkStep ==
  ASSUME IInv, NEW p \in Procs, DropLink(p)
  PROVE  IInv'
<1>1. Shape(p) /\ Stays(p) /\ CallOK(p) /\ Typed /\ Owners
  BY DEF IInv, Typed
<1>2. Frame(p)
  BY Domains DEF Frame, At, DropLink, PutThen, Goto, EndCall
<1>3. pc[p] \in {"unlinked", "undoing"} /\ Stage(p) = pc[p] /\ put[p] = None /\ cur[p] = None /\ ip[p] \in Slots
  BY <1>1, Domains DEF DropLink, Shape, Stage, Putting, WithCur, WithIp, AtEnd
<1>4. PICK s \in Slots : s = ip[p]
  BY <1>3
<1>5. Locks(p, s)
  BY <1>3, <1>4 DEF Locks, LockIp
<1>6. PICK i \in Inums : i = inum[s]
  BY <1>5, LockedCopy
<1>7. owner[s] = p /\ valid[s] /\ ref[s] > 0 /\ nlink[s] = dlink[i] /\ type[s] = dtype[i] /\ type[s] # "free"
  BY <1>3, <1>5, <1>6, LockedCopy
<1>8. p \in Pending(i)
  BY <1>3, <1>4, <1>6 DEF Pending, Owes
<1>9. Cardinality(Pending(i)) # 0 /\ dlink[i] >= Least(i) /\ dlink[i] \in Nat /\ dlink[i] - 1 \in Nat
  <2>1. dlink[i] # 0
    BY <1>8, Unlinked DEF IInv
  <2>2. dlink[i] \in Nat
    BY Domains
  <2>3. Cardinality(Pending(i)) # 0
    BY <1>8, LinksFinite, FS_EmptySet
  <2>4. dlink[i] >= Least(i)
    BY DEF IInv, Counted
  <2> QED
    BY <2>1, <2>2, <2>3, <2>4
<1>10. /\ nlink' = [nlink EXCEPT ![s] = dlink[i] - 1] /\ dlink' = [dlink EXCEPT ![i] = dlink[i] - 1]
       /\ owner' = [owner EXCEPT ![s] = None]
       /\ put' = [put EXCEPT ![p] = s] /\ ret' = [ret EXCEPT ![p] = "idle"] /\ pc' = [pc EXCEPT ![p] = "iput"]
       /\ ip' = [ip EXCEPT ![p] = None] /\ call' = [call EXCEPT ![p] = NoCall]
       /\ UNCHANGED <<dtype, ents, up, inum, ref, valid, type, cur, scan, cwd, fd>>
  BY <1>4, <1>6, <1>7, Domains DEF DropLink, PutThen, EndCall, Goto, Unlocked, Iupdate
<1>11. /\ pc'[p] = "iput" /\ put'[p] = s /\ ip'[p] = None /\ cur'[p] = None /\ Stage(p)' = "idle" /\ Op(p)' = "none"
       /\ ret'[p] = "idle" /\ call'[p] = NoCall
  BY <1>3, <1>10, Domains, NoCallOK DEF Stage, Putting, Op
<1>12. Moves(p, Swap("ip", "put"))
  BY <1>3, <1>4, <1>10, <1>11, Domains, SwapMoves DEF At, Kinds
<1>13. Typed'
  <2>1. CallOK(p)'
    BY <1>11, NoCallOK DEF CallOK, Op
  <2>2. TypeOK'
    BY <1>3, <1>9, <1>10, Domains DEF TypeOK
  <2>3. DOMAIN pc' = Procs /\ DOMAIN ret' = Procs /\ DOMAIN call' = Procs
    BY <1>10, Domains
  <2> QED
    BY <1>1, <1>2, <2>1, <2>2, <2>3, TypedStep
<1>14. Shape(p)'
  BY <1>11, ProcsAssumption DEF Shape, Putting, Rets, WithCur, WithIp, Renaming, Looking, AtEnd
<1>15. Stays(p)'
  BY <1>11 DEF Stays, AtEnd
<1>16. \A t \in Slots : Locks(p, t) <=> t = s
  BY <1>3, <1>4, ProcsAssumption DEF Locks, LockIp
<1>17. \A t \in Slots : ~Locks(p, t)'
  BY <1>11 DEF Locks, LockCur, LockIp
<1>18. Owners'
  BY <1>2, <1>3, <1>7, <1>10, <1>16, <1>17, OwnersGiven
<1>19. Counted'
  <2> SUFFICES ASSUME NEW j \in Inums PROVE dlink'[j] >= Least(j)'
    BY DEF Counted
  <2>1. KeepsNodes(p)
    BY <1>10 DEF KeepsNodes
  <2>2. ~Owes(p)'
    BY <1>11 DEF Owes
  <2>3. NamesOf(j)' = NamesOf(j) /\ Subdirs(j)' = Subdirs(j)
    BY <1>10 DEF NamesOf, Subdirs
  <2>4. \A q \in Procs \ {p} : q \in Pending(j)' <=> q \in Pending(j)
    BY <1>2, <2>1, OwesOthers DEF IInv
  <2>5. p \notin Pending(j)' /\ (p \in Pending(j) => j = i) /\ Pending(j) \subseteq Procs /\ Pending(j)' \subseteq Procs
    BY <1>4, <1>6, <2>2 DEF Pending
  <2>6. Pending(j)' = IF j = i THEN Pending(j) \ {p} ELSE Pending(j)
    BY <1>8, <2>4, <2>5
  <2>7. j = i => Cardinality(Pending(j)') = Cardinality(Pending(j)) - 1
    BY <1>8, <2>6, LinksFinite, OneLess
  <2>8. Least(j)' = IF j = i THEN Least(j) - 1 ELSE Least(j)
    BY <2>3, <2>6, <2>7, LinksFinite DEF Least
  <2>9. dlink'[j] = IF j = i THEN dlink[j] - 1 ELSE dlink[j]
    BY <1>10, Domains
  <2>10. dlink[j] >= Least(j) /\ dlink[j] \in Nat /\ Least(j) \in Nat
    BY Domains, LinksFinite DEF IInv, Counted
  <2> QED
    BY <2>8, <2>9, <2>10
<1>20. Entries' /\ RootStays'
  BY <1>10 DEF IInv, Entries, RootStays
<1>21. \A k \in Kinds : At(k, p)' # None => Settled(Inode(k, p))'
  BY <1>3, <1>10, <1>12, MovesSettled
<1>22. \A t \in Slots : ~Locks(p, t) => type'[t] = type[t] /\ nlink'[t] = nlink[t]
  BY <1>10, <1>16, Domains
<1>23. \A j \in Inums : (\A t \in Slots : Locks(p, t) => inum[t] # j) =>
         dtype'[j] = dtype[j] /\ dlink'[j] = dlink[j] /\ ents'[j] = ents[j] /\ up'[j] = up[j]
  BY <1>5, <1>6, <1>10, Domains
<1>24. \A t \in Slots : Locks(p, t) => /\ nlink'[t] = dlink'[inum[t]]
                                       /\ type'[t] = dtype'[inum[t]] /\ type'[t] # "free"
  BY <1>6, <1>7, <1>10, <1>16, Domains
<1> QED
  BY <1>2, <1>3, <1>10, <1>11, <1>12, <1>13, <1>14, <1>15, <1>17, <1>18, <1>19, <1>20, <1>21, <1>22, <1>23, <1>24,
     StepWrites DEF Unlocks

LEMMA LinkCountStep ==
  ASSUME IInv, NEW p \in Procs, LinkCount(p)
  PROVE  IInv'
<1>1. Shape(p) /\ Stays(p) /\ CallOK(p) /\ Typed /\ Owners
  BY DEF IInv, Typed
<1>2. Frame(p)
  BY Domains DEF Frame, At, LinkCount, Goto
<1>3. pc[p] = "check" /\ Op(p) = "link" /\ Stage(p) = pc[p] /\ put[p] = None /\ cur[p] \in Slots /\ ip[p] = None
  BY <1>1, Domains, ProcsAssumption DEF LinkCount, Shape, Stage, Putting, WithCur, WithIp, AtEnd
<1>4. PICK s \in Slots : s = cur[p]
  BY <1>3
<1>5. Locks(p, s)
  BY <1>3, <1>4 DEF Locks, LockCur
<1>6. PICK i \in Inums : i = inum[s]
  BY <1>5, LockedCopy
<1>7. owner[s] = p /\ valid[s] /\ ref[s] > 0 /\ nlink[s] = dlink[i] /\ type[s] = dtype[i] /\ type[s] # "free"
  BY <1>3, <1>5, <1>6, LockedCopy
<1>8. dtype[i] = "file" /\ dlink[i] \in Nat
  BY <1>4, <1>7, Domains DEF LinkCount, Types
<1>9. call[p].new \in AnyPath /\ call[p].new.elems # <<>> /\ NoPath \in AnyPath
  BY <1>1, <1>3, NoCallOK DEF CallOK
<1>10. /\ nlink' = [nlink EXCEPT ![s] = dlink[i] + 1] /\ dlink' = [dlink EXCEPT ![i] = dlink[i] + 1]
       /\ owner' = [owner EXCEPT ![s] = None] /\ pc' = [pc EXCEPT ![p] = "start"]
       /\ ip' = [ip EXCEPT ![p] = s] /\ cur' = [cur EXCEPT ![p] = None]
       /\ call' = [call EXCEPT ![p] = [op |-> "newname", path |-> call[p].new, new |-> NoPath]]
       /\ UNCHANGED <<dtype, ents, up, inum, ref, valid, type, put, ret, scan, cwd, fd>>
  BY <1>4, <1>6, <1>7, Domains DEF LinkCount, AfterCount, Goto, Unlocked, Iupdate
<1>11. /\ pc'[p] = "start" /\ put'[p] = None /\ ip'[p] = s /\ cur'[p] = None /\ Stage(p)' = "start" /\ Op(p)' = "newname"
       /\ Elems(p)' # <<>> /\ call'[p] \in [op : Ops, path : AnyPath, new : AnyPath]
  BY <1>3, <1>9, <1>10, Domains DEF Stage, Putting, Op, Elems, Ops
<1>12. Moves(p, Swap("cur", "ip"))
  BY <1>3, <1>4, <1>10, <1>11, Domains, SwapMoves DEF At, Kinds
<1>13. Typed'
  <2>1. CallOK(p)'
    BY <1>11 DEF CallOK
  <2>2. TypeOK'
    BY <1>3, <1>8, <1>10, Domains DEF TypeOK
  <2>3. DOMAIN pc' = Procs /\ DOMAIN ret' = Procs /\ DOMAIN call' = Procs
    BY <1>10, Domains
  <2> QED
    BY <1>1, <1>2, <2>1, <2>2, <2>3, TypedStep
<1>14. Shape(p)'
  BY <1>11, ProcsAssumption DEF Shape, Putting, Rets, WithCur, WithIp, Renaming, Looking, AtEnd
<1>15. Stays(p)'
  BY <1>6, <1>8, <1>10, <1>11 DEF Stays, AtEnd
<1>16. \A t \in Slots : Locks(p, t) <=> t = s
  BY <1>3, <1>4, ProcsAssumption DEF Locks, LockIp, LockCur
<1>17. \A t \in Slots : ~Locks(p, t)'
  BY <1>11 DEF Locks, LockCur, LockIp
<1>18. Owners'
  BY <1>2, <1>3, <1>7, <1>10, <1>16, <1>17, OwnersGiven
<1>19. Counted'
  <2> SUFFICES ASSUME NEW j \in Inums PROVE dlink'[j] >= Least(j)'
    BY DEF Counted
  <2>1. KeepsNodes(p)
    BY <1>10 DEF KeepsNodes
  <2>2. Owes(p)' /\ ~Owes(p)
    BY <1>3, <1>11 DEF Owes
  <2>3. NamesOf(j)' = NamesOf(j) /\ Subdirs(j)' = Subdirs(j)
    BY <1>10 DEF NamesOf, Subdirs
  <2>4. \A q \in Procs \ {p} : q \in Pending(j)' <=> q \in Pending(j)
    BY <1>2, <2>1, OwesOthers DEF IInv
  <2>5. p \notin Pending(j) /\ (p \in Pending(j)' <=> j = i) /\ Pending(j) \subseteq Procs /\ Pending(j)' \subseteq Procs
    BY <1>6, <1>10, <1>11, <2>2 DEF Pending
  <2>6. Pending(j)' = IF j = i THEN Pending(j) \cup {p} ELSE Pending(j)
    BY <2>4, <2>5
  <2>7. j = i => Cardinality(Pending(j)') = Cardinality(Pending(j)) + 1
    BY <2>5, <2>6, LinksFinite, OneMore
  <2>8. Least(j)' = IF j = i THEN Least(j) + 1 ELSE Least(j)
    BY <2>3, <2>6, <2>7, LinksFinite DEF Least
  <2>9. dlink'[j] = IF j = i THEN dlink[j] + 1 ELSE dlink[j]
    BY <1>10, Domains
  <2>10. dlink[j] >= Least(j) /\ dlink[j] \in Nat /\ Least(j) \in Nat
    BY Domains, LinksFinite DEF IInv, Counted
  <2> QED
    BY <2>8, <2>9, <2>10
<1>20. Entries' /\ RootStays'
  BY <1>10 DEF IInv, Entries, RootStays
<1>21. \A k \in Kinds : At(k, p)' # None => Settled(Inode(k, p))'
  BY <1>3, <1>10, <1>12, MovesSettled
<1>22. \A t \in Slots : ~Locks(p, t) => type'[t] = type[t] /\ nlink'[t] = nlink[t]
  BY <1>10, <1>16, Domains
<1>23. \A j \in Inums : (\A t \in Slots : Locks(p, t) => inum[t] # j) =>
         dtype'[j] = dtype[j] /\ dlink'[j] = dlink[j] /\ ents'[j] = ents[j] /\ up'[j] = up[j]
  BY <1>5, <1>6, <1>10, Domains
<1>24. \A t \in Slots : Locks(p, t) => /\ nlink'[t] = dlink'[inum[t]]
                                       /\ type'[t] = dtype'[inum[t]] /\ type'[t] # "free"
  BY <1>6, <1>7, <1>10, <1>16, Domains
<1> QED
  BY <1>2, <1>3, <1>10, <1>11, <1>12, <1>13, <1>14, <1>15, <1>17, <1>18, <1>19, <1>20, <1>21, <1>22, <1>23, <1>24,
     StepWrites DEF Unlocks

\* The entry of d for n becomes v, and no other one changes.
Entered(d, n, v) == \A e \in Inums, m \in Names : ents'[e][m] = IF e = d /\ m = n THEN v ELSE ents[e][m]

\* What a change to one entry does to the names of inodes.
LEMMA NameChanged ==
  ASSUME NEW d \in Inums, NEW n \in Names, NEW v \in 0..NInodes, NEW j \in Inums,
         Entered(d, n, v)
  PROVE  NamesOf(j)' = (IF ents[d][n] = j /\ v # j THEN NamesOf(j) \ {<<d, n>>}
                        ELSE IF v = j THEN NamesOf(j) \cup {<<d, n>>} ELSE NamesOf(j))
<1>2. \A x : x \in NamesOf(j)' <=> x \in Inums \X Names /\ ents'[x[1]][x[2]] = j
  BY DEF NamesOf
<1>3. \A x : x \in NamesOf(j) <=> x \in Inums \X Names /\ ents[x[1]][x[2]] = j
  BY DEF NamesOf
<1>4. \A x \in Inums \X Names : x[1] \in Inums /\ x[2] \in Names /\ (x = <<d, n>> <=> x[1] = d /\ x[2] = n)
  OBVIOUS
<1>5. <<d, n>> \in Inums \X Names /\ <<d, n>>[1] = d /\ <<d, n>>[2] = n
  OBVIOUS
<1>6. \A x \in Inums \X Names : ents'[x[1]][x[2]] = IF x = <<d, n>> THEN v ELSE ents[x[1]][x[2]]
  BY <1>4 DEF Entered
<1>7. CASE ents[d][n] = j /\ v # j
  BY <1>2, <1>3, <1>5, <1>6, <1>7
<1>8. CASE v = j
  BY <1>2, <1>3, <1>5, <1>6, <1>8
<1>9. CASE ents[d][n] # j /\ v # j
  <2>1. \A x \in Inums \X Names : ents'[x[1]][x[2]] = j <=> ents[x[1]][x[2]] = j
    BY <1>5, <1>6, <1>9
  <2>2. \A x : x \in NamesOf(j)' <=> x \in NamesOf(j)
    BY <1>2, <1>3, <2>1
  <2> QED
    BY <1>9, <2>2
<1> QED
  BY <1>7, <1>8, <1>9

LEMMA LinkAddStep ==
  ASSUME IInv, NEW p \in Procs, LinkAdd(p)
  PROVE  IInv'
<1>1. Shape(p) /\ Stays(p) /\ CallOK(p) /\ Typed /\ Owners
  BY DEF IInv, Typed
<1>2. Frame(p)
  BY Domains DEF Frame, At, LinkAdd, PutThen, Goto
<1>3. /\ pc[p] = "change" /\ Op(p) = "newname" /\ Child(p) = 0 /\ Stage(p) = pc[p] /\ put[p] = None
      /\ cur[p] \in Slots /\ ip[p] \in Slots /\ Len(Elems(p)) = 1
  BY <1>1, Domains, ProcsAssumption DEF LinkAdd, Shape, Stage, Putting, WithCur, WithIp, AtEnd
<1>4. PICK s \in Slots, t \in Slots : s = cur[p] /\ t = ip[p]
  BY <1>3
<1>5. Locks(p, s)
  BY <1>3, <1>4 DEF Locks, LockCur
<1>6. PICK d \in Inums, i \in Inums : d = inum[s] /\ i = inum[t]
  <2>1. At("ip", p) = ip[p] /\ "ip" \in Kinds
    BY DEF At, Kinds
  <2> QED
    BY <1>3, <1>4, <1>5, <2>1, LockedCopy, Pointed, ProcsAssumption DEF Inode
<1>7. owner[s] = p /\ valid[s] /\ ref[s] > 0 /\ nlink[s] = dlink[d] /\ type[s] = dtype[d] /\ type[s] # "free"
  BY <1>3, <1>5, <1>6, LockedCopy
<1>8. dtype[d] = "dir" /\ dtype[i] = "file" /\ d # i /\ up[d] \in Inums
  <2>1. dtype[d] = "dir" /\ dtype[i] = "file"
    BY <1>1, <1>3, <1>4, <1>6 DEF Stays, AtEnd
  <2>2. At("cur", p) = cur[p] /\ "cur" \in Kinds /\ ~Dead("cur", p) /\ ~Fresh("cur", p)
    BY DEF At, Kinds, Dead, Fresh
  <2>3. Settled(d)
    BY <1>3, <1>4, <1>6, <2>2, Pointed, ProcsAssumption DEF Inode
  <2> QED
    BY <2>1, <2>3 DEF Settled
<1>9. PICK n \in Names : n = Head(Elems(p)) /\ ents[d][n] = 0
  <2>1. \A e : e = <<>> => Len(e) # 1
    OBVIOUS
  <2>2. Head(Elems(p)) \in Elements
    BY <1>3, <2>1, FirstElement
  <2>3. Head(Elems(p)) # ".."
    BY <1>3, <1>4, <1>6, <1>8, SizeAssumption DEF Child, Inums
  <2> QED
    BY <1>3, <1>4, <1>6, <2>2, <2>3 DEF Elements, Child
<1>10. /\ ents' = [ents EXCEPT ![d][n] = i]
       /\ owner' = [owner EXCEPT ![s] = None] /\ pc' = [pc EXCEPT ![p] = "iput"]
       /\ put' = [put EXCEPT ![p] = s] /\ ret' = [ret EXCEPT ![p] = "linked"] /\ cur' = [cur EXCEPT ![p] = None]
       /\ UNCHANGED <<dtype, dlink, up, inum, ref, valid, type, nlink, call, ip, scan, cwd, fd>>
  BY <1>4, <1>6, <1>9 DEF LinkAdd, PutThen, Goto, Unlocked
<1>11. /\ pc'[p] = "iput" /\ put'[p] = s /\ ip'[p] = t /\ cur'[p] = None /\ Stage(p)' = "linked" /\ ret'[p] = "linked"
       /\ Op(p)' = "newname"
  BY <1>3, <1>4, <1>10, Domains DEF Stage, Putting, Op
<1>12. Moves(p, Swap("cur", "put"))
  BY <1>3, <1>4, <1>10, <1>11, Domains, SwapMoves DEF At, Kinds
<1>13. Typed'
  <2>1. CallOK(p)'
    BY <1>1, <1>10 DEF CallOK, Op
  <2>2. TypeOK'
    <3>1. ents' \in [Inums -> [Names -> 0..NInodes]]
      BY <1>10, Domains DEF Inums
    <3> QED
      BY <1>3, <1>10, <3>1, Domains DEF TypeOK
  <2>3. DOMAIN pc' = Procs /\ DOMAIN ret' = Procs /\ DOMAIN call' = Procs
    BY <1>10, Domains
  <2> QED
    BY <1>1, <1>2, <2>1, <2>2, <2>3, TypedStep
<1>14. Shape(p)'
  BY <1>11, ProcsAssumption DEF Shape, Putting, Rets, WithCur, WithIp, Renaming, Looking, AtEnd
<1>15. Stays(p)'
  BY <1>6, <1>8, <1>10, <1>11 DEF Stays, AtEnd
<1>16. \A r \in Slots : Locks(p, r) <=> r = s
  BY <1>3, <1>4, ProcsAssumption DEF Locks, LockIp, LockCur
<1>17. \A r \in Slots : ~Locks(p, r)'
  BY <1>11 DEF Locks, LockCur, LockIp
<1>18. Owners'
  BY <1>2, <1>3, <1>7, <1>10, <1>16, <1>17, OwnersGiven
<1>19. \A e \in Inums, m \in Names : ents'[e][m] = IF e = d /\ m = n THEN i ELSE ents[e][m]
  BY <1>10, Domains
<1>20. Counted'
  <2> SUFFICES ASSUME NEW j \in Inums PROVE dlink'[j] >= Least(j)'
    BY DEF Counted
  <2>1. KeepsNodes(p)
    BY <1>10 DEF KeepsNodes
  <2>2. ~Owes(p)' /\ Owes(p)
    BY <1>3, <1>11 DEF Owes
  <2>3. Subdirs(j)' = Subdirs(j)
    BY <1>8, <1>9, <1>10, <1>19 DEF Subdirs
  <2>4. \A q \in Procs \ {p} : q \in Pending(j)' <=> q \in Pending(j)
    BY <1>2, <2>1, OwesOthers DEF IInv
  <2>5. p \notin Pending(j)' /\ (p \in Pending(j) <=> j = i) /\ Pending(j) \subseteq Procs /\ Pending(j)' \subseteq Procs
    BY <1>4, <1>6, <2>2 DEF Pending
  <2>6. Pending(j)' = IF j = i THEN Pending(j) \ {p} ELSE Pending(j)
    BY <2>4, <2>5
  <2>7. j = i => Cardinality(Pending(j)') = Cardinality(Pending(j)) - 1
    BY <2>5, <2>6, LinksFinite, OneLess
  <2>8. NamesOf(j)' = IF j = i THEN NamesOf(j) \cup {<<d, n>>} ELSE NamesOf(j)
    <3>1. ents[d][n] # j
      BY <1>9, SizeAssumption DEF Inums
    <3>2. NamesOf(j)' = (IF ents[d][n] = j /\ i # j THEN NamesOf(j) \ {<<d, n>>}
                         ELSE IF i = j THEN NamesOf(j) \cup {<<d, n>>} ELSE NamesOf(j))
      <4>1. i \in 0..NInodes
        BY DEF Inums
      <4>2. Entered(d, n, i)
        BY <1>19 DEF Entered
      <4> QED
        BY <4>1, <4>2, NameChanged
    <3> QED
      BY <3>1, <3>2
  <2>9. <<d, n>> \notin NamesOf(i)
    BY <1>9, SizeAssumption DEF NamesOf, Inums
  <2>10. j = i => Cardinality(NamesOf(j)') = Cardinality(NamesOf(j)) + 1
    BY <2>8, <2>9, LinksFinite, OneMore
  <2>11. Least(j)' = Least(j)
    BY <2>3, <2>6, <2>7, <2>8, <2>10, LinksFinite DEF Least
  <2> QED
    BY <1>10, <2>11 DEF IInv, Counted
<1>21. Entries' /\ RootStays'
  <2>1. Entries'
    <3> SUFFICES ASSUME NEW e \in Inums, NEW m \in Names, ents'[e][m] # 0
                 PROVE  /\ dtype[e] = "dir" /\ up[e] \in Inums /\ dtype[ents'[e][m]] # "free"
                        /\ dtype[ents'[e][m]] = "dir" =>
                             up[ents'[e][m]] = e /\ \A l \in Names : ents'[ents'[e][m]][l] # e
      BY <1>10 DEF Entries
    <3>1. CASE e = d /\ m = n
      BY <1>8, <1>19, <3>1
    <3>2. CASE ~(e = d /\ m = n)
      <4>1. ents'[e][m] = ents[e][m] /\ ents[e][m] \in Inums
        <5>1. ents'[e][m] = ents[e][m] /\ ents[e][m] # 0
          BY <1>19, <3>2
        <5>2. ents[e][m] \in 0..NInodes
          BY Domains
        <5> QED
          BY <5>1, <5>2, SizeAssumption DEF Inums
      <4>2. dtype[e] = "dir"
        BY <4>1 DEF IInv, Entries
      <4>3. \A l \in Names : ents'[ents[e][m]][l] \in {i, ents[ents[e][m]][l]}
        BY <1>19, <4>1
      <4> QED
        BY <1>8, <4>1, <4>2, <4>3 DEF IInv, Entries
    <3> QED
      BY <3>1, <3>2
  <2> QED
    BY <1>10, <2>1 DEF IInv, RootStays
<1>22. \A k \in Kinds : At(k, p)' # None => Settled(Inode(k, p))'
  BY <1>3, <1>10, <1>12, MovesSettled
<1>23. \A j \in Inums : (\A r \in Slots : Locks(p, r) => inum[r] # j) =>
         dtype'[j] = dtype[j] /\ dlink'[j] = dlink[j] /\ ents'[j] = ents[j] /\ up'[j] = up[j]
  BY <1>5, <1>6, <1>10, Domains
<1>24. \A r \in Slots : Locks(p, r) => /\ nlink'[r] = dlink'[inum[r]]
                                       /\ type'[r] = dtype'[inum[r]] /\ type'[r] # "free"
  BY <1>6, <1>7, <1>10, <1>16
<1> QED
  BY <1>2, <1>3, <1>10, <1>11, <1>12, <1>13, <1>14, <1>15, <1>17, <1>18, <1>20, <1>21, <1>22, <1>23, <1>24,
     StepWrites DEF Unlocks

LEMMA UnlinkStep ==
  ASSUME IInv, NEW p \in Procs, Unlink(p)
  PROVE  IInv'
<1>1. Shape(p) /\ Stays(p) /\ CallOK(p) /\ Typed /\ Owners
  BY DEF IInv, Typed
<1>2. Frame(p)
  BY Domains DEF Frame, At, Unlink, PutThen, Goto
<1>3. /\ pc[p] = "remove" /\ Stage(p) = pc[p] /\ put[p] = None /\ Op(p) \notin {"newname", "none"}
      /\ cur[p] \in Slots /\ ip[p] \in Slots /\ Len(Elems(p)) = 1
  BY <1>1, Domains, ProcsAssumption DEF Unlink, Shape, Stage, Putting, WithCur, WithIp, AtEnd, Renaming
<1>4. PICK s \in Slots, t \in Slots : s = cur[p] /\ t = ip[p]
  BY <1>3
<1>5. Locks(p, s) /\ Locks(p, t)
  BY <1>3, <1>4 DEF Locks, LockCur, LockIp
<1>6. PICK d \in Inums, v \in Inums : d = inum[s] /\ v = inum[t]
  BY <1>5, LockedCopy
<1>7. d # v /\ s # t
  BY <1>3, <1>4, <1>6, Apart
<1>8. /\ owner[s] = p /\ nlink[s] = dlink[d] /\ type[s] = dtype[d] /\ type[s] # "free"
      /\ owner[t] = p /\ nlink[t] = dlink[v] /\ type[t] = dtype[v] /\ type[t] # "free"
  BY <1>3, <1>5, <1>6, LockedCopy
<1>9. PICK n \in Names : n = Head(Elems(p)) /\ ents[d][n] = v
  <2>1. \A e : e = <<>> => Len(e) # 1
    OBVIOUS
  <2>2. Head(Elems(p)) \in Elements
    BY <1>3, <2>1, FirstElement
  <2>3. Head(Elems(p)) # ".." /\ Child(p) = v
    BY <1>1, <1>3, <1>4, <1>6 DEF Stays
  <2> QED
    BY <1>4, <1>6, <2>2, <2>3 DEF Elements, Child
<1>10. PICK less \in {0, 1} : less = IF dtype[v] = "dir" THEN 1 ELSE 0
  OBVIOUS
<1>11. dlink[d] \in Nat /\ dlink[d] - less \in Nat
  <2>1. dlink[d] \in Nat
    BY Domains
  <2>2. ASSUME less = 1 PROVE dlink[d] # 0
    <3>1. n \in Subdirs(d)
      BY <1>9, <1>10, <2>2, SizeAssumption DEF Subdirs, Inums
    <3> QED
      BY <3>1, Unlinked DEF IInv
  <2> QED
    BY <2>1, <2>2
<1>12. /\ ents' = [ents EXCEPT ![d][n] = 0]
       /\ nlink' = [nlink EXCEPT ![s] = dlink[d] - less] /\ dlink' = [dlink EXCEPT ![d] = dlink[d] - less]
       /\ owner' = [owner EXCEPT ![s] = None] /\ pc' = [pc EXCEPT ![p] = "iput"]
       /\ put' = [put EXCEPT ![p] = s] /\ ret' = [ret EXCEPT ![p] = "unlinked"] /\ cur' = [cur EXCEPT ![p] = None]
       /\ UNCHANGED <<dtype, up, inum, ref, valid, type, call, ip, scan, cwd, fd>>
  BY <1>4, <1>6, <1>8, <1>9, <1>10, Domains DEF Unlink, Erase, PutThen, Goto, Unlocked, Iupdate
<1>13. /\ pc'[p] = "iput" /\ put'[p] = s /\ ip'[p] = t /\ cur'[p] = None /\ Stage(p)' = "unlinked"
       /\ ret'[p] = "unlinked" /\ Op(p)' = Op(p) /\ fd'[p] = fd[p]
  BY <1>3, <1>4, <1>12, Domains DEF Stage, Putting, Op
<1>14. Moves(p, Swap("cur", "put"))
  BY <1>3, <1>4, <1>12, <1>13, Domains, SwapMoves DEF At, Kinds
<1>15. Typed'
  <2>1. CallOK(p)'
    BY <1>1, <1>12 DEF CallOK, Op
  <2>2. TypeOK'
    <3>1. ents' \in [Inums -> [Names -> 0..NInodes]]
      <4>1. 0 \in 0..NInodes
        BY SizeAssumption
      <4> QED
        BY <1>12, <4>1, Domains
    <3> QED
      BY <1>3, <1>11, <1>12, <3>1, Domains DEF TypeOK
  <2>3. DOMAIN pc' = Procs /\ DOMAIN ret' = Procs /\ DOMAIN call' = Procs
    BY <1>12, Domains
  <2> QED
    BY <1>1, <1>2, <2>1, <2>2, <2>3, TypedStep
<1>16. Shape(p)'
  BY <1>1, <1>3, <1>13, ProcsAssumption DEF Shape, Putting, Rets, WithCur, WithIp, Renaming, Looking, AtEnd
<1>17. Stays(p)'
  BY <1>3, <1>13 DEF Stays, AtEnd
<1>18. \A r \in Slots : Locks(p, r) <=> r \in {s, t}
  BY <1>3, <1>4, ProcsAssumption DEF Locks, LockIp, LockCur
<1>19. \A r \in Slots : Locks(p, r)' <=> r = t
  BY <1>13, ProcsAssumption DEF Locks, LockCur, LockIp
<1>20. Owners'
  BY <1>2, <1>3, <1>7, <1>8, <1>12, <1>18, <1>19, OwnersGiven
<1>21. \A e \in Inums, m \in Names : ents'[e][m] = IF e = d /\ m = n THEN 0 ELSE ents[e][m]
  BY <1>12, Domains
<1>22. Counted'
  <2> SUFFICES ASSUME NEW j \in Inums PROVE dlink'[j] >= Least(j)'
    BY DEF Counted
  <2>1. KeepsNodes(p)
    BY <1>12 DEF KeepsNodes
  <2>2. Owes(p)' /\ ~Owes(p)
    BY <1>3, <1>13 DEF Owes
  <2>3. \A q \in Procs \ {p} : q \in Pending(j)' <=> q \in Pending(j)
    BY <1>2, <2>1, OwesOthers DEF IInv
  <2>4. p \notin Pending(j) /\ (p \in Pending(j)' <=> j = v) /\ Pending(j) \subseteq Procs /\ Pending(j)' \subseteq Procs
    BY <1>6, <1>12, <1>13, <2>2 DEF Pending
  <2>5. Pending(j)' = IF j = v THEN Pending(j) \cup {p} ELSE Pending(j)
    BY <2>3, <2>4
  <2>6. j = v => Cardinality(Pending(j)') = Cardinality(Pending(j)) + 1
    BY <2>4, <2>5, LinksFinite, OneMore
  <2>7. NamesOf(j)' = IF j = v THEN NamesOf(j) \ {<<d, n>>} ELSE NamesOf(j)
    <3>1. 0 \in 0..NInodes /\ j # 0
      BY SizeAssumption DEF Inums
    <3>2. NamesOf(j)' = (IF ents[d][n] = j /\ 0 # j THEN NamesOf(j) \ {<<d, n>>}
                         ELSE IF 0 = j THEN NamesOf(j) \cup {<<d, n>>} ELSE NamesOf(j))
      <4>1. Entered(d, n, 0)
        BY <1>21 DEF Entered
      <4> QED
        BY <3>1, <4>1, NameChanged
    <3> QED
      BY <1>9, <3>1, <3>2
  <2>8. <<d, n>> \in NamesOf(v)
    BY <1>9 DEF NamesOf
  <2>9. j = v => Cardinality(NamesOf(j)') = Cardinality(NamesOf(j)) - 1
    BY <2>7, <2>8, LinksFinite, OneLess
  <2>10. CASE j = d
    <3>1. dtype' = dtype /\ v # 0
      BY <1>12, SizeAssumption DEF Inums
    <3>2. \A m : m \in Subdirs(d)' <=> m \in Names /\ ents'[d][m] # 0 /\ dtype[ents'[d][m]] = "dir"
      BY <3>1 DEF Subdirs
    <3>3. \A m : m \in Subdirs(d) <=> m \in Names /\ ents[d][m] # 0 /\ dtype[ents[d][m]] = "dir"
      BY DEF Subdirs
    <3>4. \A m \in Names : ents'[d][m] = IF m = n THEN 0 ELSE ents[d][m]
      BY <1>21
    <3>5. Subdirs(d)' = Subdirs(d) \ {n}
      BY <3>2, <3>3, <3>4
    <3>6. n \in Subdirs(d) <=> less = 1
      BY <1>9, <1>10, <3>1, <3>3
    <3>7. Cardinality(Subdirs(d)') = Cardinality(Subdirs(d)) - less
      <4>1. CASE less = 1
        BY <3>5, <3>6, <4>1, LinksFinite, OneLess
      <4>2. CASE less = 0
        <5>1. Subdirs(d)' = Subdirs(d)
          BY <3>5, <3>6, <4>2
        <5> QED
          BY <5>1, <4>2, LinksFinite
      <4> QED
        BY <4>1, <4>2
    <3>8. NamesOf(d)' = NamesOf(d) /\ Pending(d)' = Pending(d)
      BY <1>7, <2>5, <2>7, <2>10
    <3>9. Least(d)' = Least(d) - less
      BY <3>7, <3>8, LinksFinite DEF Least
    <3>10. dlink'[d] = dlink[d] - less
      BY <1>12, Domains
    <3>11. dlink[d] >= Least(d) /\ Least(d) \in Nat
      BY LinksFinite DEF IInv, Counted
    <3> QED
      BY <1>11, <2>10, <3>9, <3>10, <3>11
  <2>11. CASE j # d
    <3>1. dtype' = dtype
      BY <1>12
    <3>2. \A m \in Names : ents'[j][m] = ents[j][m]
      BY <1>21, <2>11
    <3>3. Subdirs(j)' = Subdirs(j)
      BY <3>1, <3>2 DEF Subdirs
    <3>4. dlink'[j] = dlink[j]
      BY <1>12, <2>11, Domains
    <3>5. Least(j)' = Least(j)
      BY <2>5, <2>6, <2>7, <2>9, <3>3, LinksFinite DEF Least
    <3> QED
      BY <3>4, <3>5 DEF IInv, Counted
  <2> QED
    BY <2>10, <2>11
<1>23. Entries' /\ RootStays'
  <2>1. Entries'
    <3> SUFFICES ASSUME NEW e \in Inums, NEW m \in Names, ents'[e][m] # 0
                 PROVE  /\ dtype[e] = "dir" /\ up[e] \in Inums /\ dtype[ents'[e][m]] # "free"
                        /\ dtype[ents'[e][m]] = "dir" =>
                             up[ents'[e][m]] = e /\ \A l \in Names : ents'[ents'[e][m]][l] # e
      BY <1>12 DEF Entries
    <3>1. ents'[e][m] = ents[e][m] /\ ents[e][m] # 0
      BY <1>21
    <3>2. ents[e][m] \in 0..NInodes
      BY Domains
    <3>3. ents[e][m] \in Inums /\ e # 0
      BY <3>1, <3>2, SizeAssumption DEF Inums
    <3>4. \A l \in Names : ents'[ents[e][m]][l] \in {0, ents[ents[e][m]][l]}
      BY <1>21, <3>3
    <3> QED
      BY <3>1, <3>3, <3>4 DEF IInv, Entries
  <2> QED
    BY <1>12, <2>1 DEF IInv, RootStays
<1>24. \A k \in Kinds : At(k, p)' # None => Settled(Inode(k, p))'
  BY <1>3, <1>12, <1>14, MovesSettled
<1>25. \A r \in Slots : ~Locks(p, r) => type'[r] = type[r] /\ nlink'[r] = nlink[r]
  BY <1>12, <1>18, Domains
<1>26. \A j \in Inums : (\A r \in Slots : Locks(p, r) => inum[r] # j) =>
         dtype'[j] = dtype[j] /\ dlink'[j] = dlink[j] /\ ents'[j] = ents[j] /\ up'[j] = up[j]
  BY <1>5, <1>6, <1>12, Domains
<1>27. \A r \in Slots : Locks(p, r) => /\ nlink'[r] = dlink'[inum[r]]
                                       /\ type'[r] = dtype'[inum[r]] /\ type'[r] # "free"
  <2>1. nlink'[s] = dlink'[d] /\ nlink'[t] = dlink'[v] /\ UNCHANGED <<type, dtype>>
    BY <1>7, <1>8, <1>12, Domains
  <2> QED
    BY <1>6, <1>8, <1>18, <2>1
<1>28. Unlocks(p)
  BY <1>18, <1>19 DEF Unlocks
<1> QED
  BY <1>2, <1>3, <1>12, <1>13, <1>14, <1>15, <1>16, <1>17, <1>20, <1>22, <1>23, <1>24, <1>25, <1>26, <1>27, <1>28,
     StepWrites

LEMMA IputFreeStep ==
  ASSUME IInv, NEW p \in Procs, IputFree(p)
  PROVE  IInv'
<1>1. Shape(p) /\ Stays(p) /\ CallOK(p) /\ Typed /\ Owners
  BY DEF IInv, Typed
<1>2. Frame(p)
  BY Domains DEF Frame, At, IputFree, Goto
<1>3. pc[p] = "free" /\ Stage(p) = ret[p] /\ ret[p] \in Rets /\ put[p] \in Slots
  BY <1>1, Domains DEF IputFree, Shape, Stage, Putting
<1>4. PICK s \in Slots : s = put[p]
  BY <1>3
<1>5. Locks(p, s)
  BY <1>3, <1>4 DEF Locks
<1>6. PICK i \in Inums : i = inum[s]
  BY <1>5, LockedCopy
<1>7. ref[s] = 1 /\ valid[s] /\ nlink[s] = 0 /\ dlink[i] = 0
  <2>1. ref[s] = 1 /\ valid[s] /\ nlink[s] = 0
    BY <1>3, <1>4 DEF IInv, Freers
  <2> QED
    BY <1>5, <1>6, <2>1, LockedCopy
<1>8. NamesOf(i) = {} /\ Subdirs(i) = {} /\ Pending(i) = {} /\ i # Root
  BY <1>7, Unlinked DEF IInv
<1>9. dlink \in [Inums -> Nat]
  BY Domains
<1>10. /\ ents' = [ents EXCEPT ![i] = NoEnts] /\ up' = [up EXCEPT ![i] = 0]
       /\ type' = [type EXCEPT ![s] = "free"] /\ dtype' = [dtype EXCEPT ![i] = "free"]
       /\ dlink' = dlink /\ pc' = [pc EXCEPT ![p] = "freed"]
       /\ UNCHANGED <<inum, ref, owner, valid, nlink, call, cur, ip, put, ret, scan, cwd, fd>>
  BY <1>4, <1>6, <1>7, <1>9 DEF IputFree, Goto, Iupdate
<1>11. /\ pc'[p] = "freed" /\ put'[p] = s /\ ip'[p] = ip[p] /\ cur'[p] = cur[p] /\ Stage(p)' = Stage(p)
       /\ ret'[p] = ret[p] /\ Op(p)' = Op(p) /\ Elems(p)' = Elems(p) /\ scan'[p] = scan[p] /\ fd'[p] = fd[p]
  BY <1>3, <1>4, <1>10, Domains DEF Stage, Putting, Op, Elems
\* The reference that is left is this one.
<1>12. ASSUME NEW q \in Procs, NEW k \in Kinds, At(k, q) # None, q # p \/ k # "put"
       PROVE  At(k, q) # s /\ Inode(k, q) \in Inums /\ Inode(k, q) # i
  <2>1. At(k, q) \in Slots /\ ref[At(k, q)] > 0 /\ Inode(k, q) \in Inums
    BY <1>12, Pointed
  <2>2. At("put", p) = s /\ "put" \in Kinds
    BY <1>4 DEF At, Kinds
  <2>3. At(k, q) # s
    BY <1>7, <1>12, <2>2, HeldTwice DEF IInv
  <2> QED
    BY <1>6, <1>7, <2>1, <2>3 DEF IInv, OneEntryPerInode, Inode
<1>13. Moves(p, Swap("put", "put"))
  <2>1. \A k \in Kinds : At(k, p)' = At(k, p)
    BY <1>10 DEF At
  <2> QED
    BY <2>1, SwapMoves DEF Kinds
<1>14. \A k \in Kinds : At(k, p)' = At(k, p) /\ Inode(k, p)' = Inode(k, p)
  BY <1>10 DEF At, Inode
<1>15. Typed'
  <2>1. CallOK(p)'
    BY <1>1, <1>10 DEF CallOK, Op
  <2>2. TypeOK'
    <3>1. ents' \in [Inums -> [Names -> 0..NInodes]] /\ up' \in [Inums -> 0..NInodes]
      BY <1>10, Domains, SizeAssumption DEF NoEnts
    <3>2. dtype' \in [Inums -> Types] /\ type' \in [Slots -> Types]
      BY <1>10, Domains DEF Types
    <3> QED
      BY <1>1, <1>10, <3>1, <3>2 DEF Typed, TypeOK
  <2>3. DOMAIN pc' = Procs /\ DOMAIN ret' = Procs /\ DOMAIN call' = Procs
    BY <1>10, Domains
  <2> QED
    BY <1>1, <1>2, <2>1, <2>2, <2>3, TypedStep
<1>16. Shape(p)'
  BY <1>1, <1>3, <1>4, <1>11, ProcsAssumption DEF Shape, Putting, Rets
<1>17. Stays(p)'
  <2>1. Op(p) = "newname" => dtype'[inum[ip[p]]] = dtype[inum[ip[p]]]
    <3>1. At("ip", p) = ip[p] /\ "ip" \in Kinds /\ (Op(p) = "newname" => ip[p] # None)
      BY <1>1 DEF At, Kinds, Shape
    <3> QED
      BY <1>10, <1>12, <3>1 DEF Inode
  <2> QED
    BY <1>1, <1>3, <1>10, <1>11, <2>1 DEF Stays, AtEnd, Rets
<1>18. \A r \in Slots : Locks(p, r)' <=> Locks(p, r)
  BY <1>3, <1>4, <1>11 DEF Locks
<1>19. Owners'
  <2>1. \A r \in Slots : owner'[r] = owner[r]
    BY <1>10
  <2>2. \A r \in Slots : Locks(p, r)' => owner'[r] = p
    BY <1>1, <1>18, <2>1 DEF Owners
  <2>3. \A r \in Slots : owner'[r] = p => Locks(p, r)'
    BY <1>1, <1>3, <1>18, <2>1 DEF Owners
  <2> QED
    BY <1>1, <1>2, <2>1, <2>2, <2>3, OwnersStep, ProcsAssumption
<1>20. \A j \in Inums : j # i => dtype'[j] = dtype[j] /\ ents'[j] = ents[j] /\ up'[j] = up[j]
  BY <1>10, Domains
<1>21. dtype'[i] = "free" /\ \A m \in Names : ents'[i][m] = 0
  BY <1>10, Domains DEF NoEnts
<1>22. Counted'
  <2> SUFFICES ASSUME NEW j \in Inums PROVE dlink'[j] >= Least(j)'
    BY DEF Counted
  <2>1. KeepsNodes(p)
    BY <1>10 DEF KeepsNodes
  <2>2. Owes(p)' <=> Owes(p)
    BY <1>11 DEF Owes
  <2>3. p \in Pending(j)' <=> p \in Pending(j)
    BY <1>10, <1>11, <2>2 DEF Pending
  <2>4. Pending(j)' \subseteq Pending(j)
    BY <1>2, <2>1, <2>3, PendingSame DEF IInv
  <2>5. \A e \in Inums, m \in Names : ents'[e][m] \in {0, ents[e][m]}
    BY <1>20, <1>21
  <2>6. j # 0
    BY SizeAssumption DEF Inums
  <2>7. NamesOf(j)' \subseteq NamesOf(j)
    <3>1. \A e \in Inums \X Names : e[1] \in Inums /\ e[2] \in Names
      OBVIOUS
    <3> QED
      BY <2>5, <2>6, <3>1 DEF NamesOf
  <2>8. Subdirs(j)' \subseteq Subdirs(j)
    <3> SUFFICES ASSUME NEW m \in Names, ents'[j][m] # 0, dtype'[ents'[j][m]] = "dir"
                 PROVE  ents[j][m] # 0 /\ dtype[ents[j][m]] = "dir"
      BY DEF Subdirs
    <3>1. ents'[j][m] = ents[j][m] /\ ents[j][m] # 0
      BY <2>5
    <3>2. ents[j][m] \in 0..NInodes
      BY Domains
    <3>3. ents[j][m] \in Inums
      BY <3>1, <3>2, SizeAssumption DEF Inums
    <3> QED
      BY <1>20, <1>21, <3>1, <3>3
  <2>9. Least(j)' <= Least(j)
    BY <2>4, <2>7, <2>8, LeastShrinks
  <2>10. dlink'[j] \in Nat /\ dlink'[j] >= Least(j)
    BY <1>9, <1>10 DEF IInv, Counted
  <2> QED
    BY <2>9, <2>10, LinksFinite
<1>23. Entries' /\ RootStays'
  <2>1. Entries'
    <3> SUFFICES ASSUME NEW e \in Inums, NEW m \in Names, ents'[e][m] # 0
                 PROVE  /\ dtype'[e] = "dir" /\ up'[e] \in Inums /\ dtype'[ents'[e][m]] # "free"
                        /\ dtype'[ents'[e][m]] = "dir" =>
                             up'[ents'[e][m]] = e /\ \A l \in Names : ents'[ents'[e][m]][l] # e
      BY DEF Entries, Inums
    <3>1. e # i /\ ents'[e][m] = ents[e][m] /\ ents[e][m] # 0
      BY <1>20, <1>21
    <3>2. ents[e][m] \in 0..NInodes
      BY Domains
    <3>3. ents[e][m] \in Inums
      BY <3>1, <3>2, SizeAssumption DEF Inums
    <3>4. ents[e][m] # i
      <4>1. <<e, m>> \in Inums \X Names
        OBVIOUS
      <4> QED
        BY <1>8, <4>1 DEF NamesOf
    <3> QED
      BY <1>20, <3>1, <3>3, <3>4 DEF IInv, Entries
  <2>2. Root \in Inums
    BY SizeAssumption DEF Root, Inums
  <2> QED
    BY <1>8, <1>20, <2>1, <2>2 DEF IInv, RootStays
<1>24. ASSUME NEW k \in Kinds, At(k, p)' # None, ~Dead(k, p)' PROVE Settled(Inode(k, p))'
  <2>1. k # "put"
    BY <1>11, <1>24 DEF Dead
  <2>2. Inode(k, p) \in Inums /\ Inode(k, p) # i
    BY <1>12, <1>14, <1>24, <2>1
  <2>3. Settled(Inode(k, p))
    BY <1>3, <1>14, <1>24, <2>1, Pointed DEF Dead, Fresh
  <2> QED
    BY <1>14, <1>20, <2>2, <2>3 DEF Settled
<1>25. \A q \in Procs \ {p}, k \in Kinds : At(k, q) # None /\ ~Dead(k, q) =>
         dtype'[Inode(k, q)] = dtype[Inode(k, q)] /\ up'[Inode(k, q)] = up[Inode(k, q)]
  BY <1>12, <1>20
<1>26. \A r \in Slots : ~Locks(p, r) => type'[r] = type[r] /\ nlink'[r] = nlink[r]
  BY <1>5, <1>10, Domains
<1>27. \A j \in Inums : (\A r \in Slots : Locks(p, r) => inum[r] # j) =>
         dtype'[j] = dtype[j] /\ dlink'[j] = dlink[j] /\ ents'[j] = ents[j] /\ up'[j] = up[j]
  BY <1>5, <1>6, <1>10, <1>20
<1>28. ASSUME NEW r \in Slots, Locks(p, r)
       PROVE  /\ nlink'[r] = dlink'[inum[r]]
              /\ Freeing(r)' \/ (type'[r] = dtype'[inum[r]] /\ type'[r] # "free")
  <2>1. nlink[r] = dlink[inum[r]] /\ type[r] = dtype[inum[r]] /\ type[r] # "free" /\ inum[r] \in Inums /\ ref[r] > 0
    BY <1>3, <1>28, LockedCopy
  <2>2. nlink'[r] = dlink'[inum[r]]
    BY <1>10, <2>1
  <2>3. CASE r = s
    <3>1. Freeing(s)'
      BY <1>11 DEF Freeing
    <3> QED
      BY <2>2, <2>3, <3>1
  <2>4. CASE r # s
    <3>1. inum[r] # i
      BY <1>6, <1>7, <2>1, <2>4 DEF IInv, OneEntryPerInode
    <3>2. type'[r] = type[r]
      BY <1>10, <2>4, Domains
    <3> QED
      BY <1>20, <2>1, <2>2, <3>1, <3>2
  <2> QED
    BY <2>3, <2>4
<1>29. valid[s] /\ nlink'[s] = 0 /\ s \notin {cur'[p], ip'[p]}
  <2>1. At("cur", p) = cur[p] /\ At("ip", p) = ip[p] /\ {"cur", "ip"} \subseteq Kinds /\ s # None
    BY ProcsAssumption DEF At, Kinds
  <2> QED
    BY <1>7, <1>10, <1>11, <1>12, <2>1
<1>30. Unlocks(p)
  BY <1>18 DEF Unlocks
<1> QED
  BY <1>2, <1>3, <1>10, <1>11, <1>13, <1>15, <1>16, <1>17, <1>19, <1>22, <1>23, <1>24, <1>25, <1>26, <1>27, <1>28,
     <1>29, <1>30, StepWrites

LEMMA FillStep ==
  ASSUME IInv, NEW p \in Procs, Fill(p)
  PROVE  IInv'
<1>1. Shape(p) /\ Stays(p) /\ CallOK(p) /\ Typed /\ Owners
  BY DEF IInv, Typed
<1>2. Frame(p)
  BY Domains DEF Frame, At, Fill, PutThen, Goto
<1>3. /\ pc[p] = "fill" /\ Stage(p) = pc[p] /\ put[p] = None /\ Op(p) \notin {"newname", "none"}
      /\ cur[p] \in Slots /\ ip[p] \in Slots /\ Len(Elems(p)) = 1
  BY <1>1, Domains, ProcsAssumption DEF Fill, Shape, Stage, Putting, WithCur, WithIp, AtEnd, Renaming
<1>4. PICK s \in Slots, t \in Slots : s = cur[p] /\ t = ip[p]
  BY <1>3
<1>5. Locks(p, s) /\ Locks(p, t)
  BY <1>3, <1>4 DEF Locks, LockCur, LockIp
<1>6. PICK d \in Inums, v \in Inums : d = inum[s] /\ v = inum[t]
  BY <1>5, LockedCopy
<1>7. d # v /\ s # t
  BY <1>3, <1>4, <1>6, Apart
<1>8. /\ owner[s] = p /\ nlink[s] = dlink[d] /\ type[s] = dtype[d] /\ type[s] # "free"
      /\ owner[t] = p /\ nlink[t] = dlink[v] /\ type[t] = dtype[v] /\ type[t] # "free"
  BY <1>3, <1>5, <1>6, LockedCopy
<1>9. dtype[d] = "dir" /\ up[d] \in Inums
  <2>1. dtype[d] = "dir"
    BY <1>1, <1>3, <1>4, <1>6 DEF Stays, AtEnd
  <2>2. At("cur", p) = cur[p] /\ "cur" \in Kinds /\ ~Dead("cur", p) /\ ~Fresh("cur", p)
    BY DEF At, Kinds, Dead, Fresh
  <2>3. Settled(d)
    BY <1>3, <1>4, <1>6, <2>2, Pointed, ProcsAssumption DEF Inode
  <2> QED
    BY <2>1, <2>3 DEF Settled
<1>10. PICK n \in Names : n = Head(Elems(p)) /\ ents[d][n] = 0
  <2>1. \A e : e = <<>> => Len(e) # 1
    OBVIOUS
  <2>2. Head(Elems(p)) \in Elements
    BY <1>3, <2>1, FirstElement
  <2>3. Head(Elems(p)) # ".." /\ Child(p) = 0
    BY <1>1, <1>3 DEF Stays
  <2> QED
    BY <1>4, <1>6, <2>2, <2>3 DEF Elements, Child
<1>11. PICK more \in {0, 1} : more = IF Op(p) = "mkdir" THEN 1 ELSE 0
  OBVIOUS
\* The new inode is known here only.
<1>12. Private(p, v) /\ v # 0
  BY <1>3, <1>4, <1>6, SizeAssumption DEF IInv, Privates, Making, Inums
<1>13. /\ dtype[v] = (IF more = 1 THEN "dir" ELSE "file") /\ dlink[v] = 0 /\ \A m \in Names : ents[v][m] = 0
       /\ NamesOf(v) = {} /\ Subdirs(v) = {} /\ Pending(v) = {} /\ v # Root
  <2>1. dlink[v] = 0 /\ ents[v] = NoEnts /\ dtype[v] = (IF more = 1 THEN "dir" ELSE "file")
    BY <1>11, <1>12 DEF Private
  <2> QED
    BY <2>1, Unlinked DEF IInv, NoEnts
<1>14. dlink[d] \in Nat
  BY Domains
<1>15. /\ ents' = [ents EXCEPT ![d][n] = v] /\ up' = [up EXCEPT ![v] = IF more = 1 THEN d ELSE 0]
       /\ nlink' = [nlink EXCEPT ![t] = 1, ![s] = @ + more]
       /\ dlink' = [[dlink EXCEPT ![v] = 1] EXCEPT ![d] = dlink[d] + more]
       /\ owner' = [owner EXCEPT ![s] = None] /\ pc' = [pc EXCEPT ![p] = "iput"]
       /\ put' = [put EXCEPT ![p] = s] /\ ret' = [ret EXCEPT ![p] = "check"]
       /\ cur' = [cur EXCEPT ![p] = t] /\ ip' = [ip EXCEPT ![p] = None]
       /\ UNCHANGED <<dtype, inum, ref, valid, type, call, scan, cwd, fd>>
  <2>1. ents' = [ents EXCEPT ![d][n] = v]
    BY <1>4, <1>6, <1>10 DEF Fill
  <2>2. up' = [up EXCEPT ![v] = IF more = 1 THEN d ELSE 0]
    <3>1. up' = [up EXCEPT ![v] = IF Op(p) = "mkdir" THEN d ELSE 0]
      BY <1>4, <1>6 DEF Fill
    <3>2. (IF more = 1 THEN d ELSE 0) = (IF Op(p) = "mkdir" THEN d ELSE 0)
      BY <1>11
    <3> QED
      BY <3>1, <3>2, Zenon
  <2>3. nlink' = [nlink EXCEPT ![t] = 1, ![s] = @ + more]
    BY <1>4, <1>11 DEF Fill, FirstLinks
  <2>4. dlink' = [[dlink EXCEPT ![v] = 1] EXCEPT ![d] = dlink[d] + more]
    BY <1>4, <1>6, <1>8, <1>11 DEF Fill, FirstLinks, Iupdate
  <2>5. /\ owner' = [owner EXCEPT ![s] = None] /\ pc' = [pc EXCEPT ![p] = "iput"]
        /\ put' = [put EXCEPT ![p] = s] /\ ret' = [ret EXCEPT ![p] = "check"]
        /\ cur' = [cur EXCEPT ![p] = t] /\ ip' = [ip EXCEPT ![p] = None]
        /\ UNCHANGED <<dtype, inum, ref, valid, type, call, scan, cwd, fd>>
    BY <1>4 DEF Fill, PutThen, Goto, Unlocked
  <2> QED
    BY <2>1, <2>2, <2>3, <2>4, <2>5
<1>16. /\ pc'[p] = "iput" /\ put'[p] = s /\ ip'[p] = None /\ cur'[p] = t /\ Stage(p)' = "check"
       /\ ret'[p] = "check" /\ Op(p)' = Op(p) /\ fd'[p] = fd[p]
  BY <1>3, <1>4, <1>15, Domains DEF Stage, Putting, Op
<1>17. Moves(p, Turn2)
  <2>1. Permutes(Turn2)
    BY DEF Permutes, Turn2, Kinds
  <2>2. \A k \in Kinds : At(Turn2[k], p)' = At(k, p)
    BY <1>3, <1>4, <1>15, <1>16, Domains DEF Turn2, At, Kinds
  <2> QED
    BY <2>1, <2>2 DEF Moves
<1>18. nlink'[s] = dlink[d] + more /\ nlink'[t] = 1 /\ \A r \in Slots \ {s, t} : nlink'[r] = nlink[r]
  BY <1>7, <1>8, <1>15, Domains
<1>19. dlink'[d] = dlink[d] + more /\ dlink'[v] = 1 /\ \A j \in Inums \ {d, v} : dlink'[j] = dlink[j]
  BY <1>7, <1>15, Domains
<1>20. \A j \in Inums : up'[j] = IF j = v THEN (IF more = 1 THEN d ELSE 0) ELSE up[j]
  BY <1>15, Domains
<1>21. \A e \in Inums, m \in Names : ents'[e][m] = IF e = d /\ m = n THEN v ELSE ents[e][m]
  BY <1>15, Domains
<1>22. Typed'
  <2>1. CallOK(p)'
    BY <1>1, <1>15 DEF CallOK, Op
  <2>2. TypeOK'
    <3>1. ents' \in [Inums -> [Names -> 0..NInodes]] /\ up' \in [Inums -> 0..NInodes]
      <4>1. {0, d, v} \subseteq 0..NInodes
        BY SizeAssumption DEF Inums
      <4> QED
        BY <1>15, <4>1, Domains
    <3>2. nlink' \in [Slots -> Nat] /\ dlink' \in [Inums -> Nat]
      <4>1. nlink \in [Slots -> Nat] /\ dlink \in [Inums -> Nat] /\ nlink[s] + more \in Nat /\ dlink[d] + more \in Nat
        BY <1>8, <1>14, Domains
      <4> QED
        BY <1>7, <1>15, <4>1
    <3>3. /\ cur' \in [Procs -> Slots \cup {None}] /\ ip' \in [Procs -> Slots \cup {None}]
          /\ put' \in [Procs -> Slots \cup {None}] /\ owner' \in [Slots -> Procs \cup {None}]
      BY <1>15, Domains
    <3>4. UNCHANGED <<dtype, inum, ref, valid, type, scan, cwd, fd>>
      BY <1>15
    <3> QED
      BY <1>1, <3>1, <3>2, <3>3, <3>4 DEF Typed, TypeOK
  <2>3. DOMAIN pc' = Procs /\ DOMAIN ret' = Procs /\ DOMAIN call' = Procs
    BY <1>15, Domains
  <2> QED
    BY <1>1, <1>2, <2>1, <2>2, <2>3, TypedStep
<1>23. Shape(p)'
  BY <1>1, <1>3, <1>16, ProcsAssumption DEF Shape, Putting, Rets, WithCur, WithIp, Renaming, Looking, AtEnd
<1>24. Stays(p)'
  BY <1>3, <1>16 DEF Stays, AtEnd
<1>25. \A r \in Slots : Locks(p, r) <=> r \in {s, t}
  BY <1>3, <1>4, ProcsAssumption DEF Locks, LockIp, LockCur
<1>26. \A r \in Slots : Locks(p, r)' <=> r = t
  BY <1>16, ProcsAssumption DEF Locks, LockCur, LockIp
<1>27. Owners'
  BY <1>2, <1>3, <1>7, <1>8, <1>15, <1>25, <1>26, OwnersGiven
<1>28. Counted'
  <2> SUFFICES ASSUME NEW j \in Inums PROVE dlink'[j] >= Least(j)'
    BY DEF Counted
  <2>1. KeepsNodes(p)
    BY <1>15 DEF KeepsNodes
  <2>2. ~Owes(p)' /\ ~Owes(p)
    BY <1>3, <1>16 DEF Owes
  <2>3. Pending(j)' = Pending(j)
    <3>1. p \notin Pending(j)' /\ p \notin Pending(j)
      BY <2>2 DEF Pending
    <3> QED
      BY <1>2, <2>1, <3>1, PendingSame DEF IInv
  <2>4. NamesOf(j)' = IF j = v THEN NamesOf(j) \cup {<<d, n>>} ELSE NamesOf(j)
    <3>1. v \in 0..NInodes /\ j # 0
      BY SizeAssumption DEF Inums
    <3>2. NamesOf(j)' = (IF ents[d][n] = j /\ v # j THEN NamesOf(j) \ {<<d, n>>}
                         ELSE IF v = j THEN NamesOf(j) \cup {<<d, n>>} ELSE NamesOf(j))
      <4>1. Entered(d, n, v)
        BY <1>21 DEF Entered
      <4> QED
        BY <3>1, <4>1, NameChanged
    <3> QED
      BY <1>10, <3>1, <3>2
  <2>5. dtype' = dtype
    BY <1>15
  <2>6. CASE j = v
    <3>1. Cardinality(NamesOf(v)') = Cardinality(NamesOf(v)) + 1
      BY <1>13, <2>4, <2>6, LinksFinite, OneMore
    <3>2. Subdirs(v)' = Subdirs(v)
      <4>1. \A m \in Names : ents'[v][m] = 0
        BY <1>7, <1>13, <1>21
      <4> QED
        BY <1>13, <4>1 DEF Subdirs
    <3>3. Cardinality({}) = 0
      BY FS_EmptySet
    <3>4. Least(v)' = 1
      BY <1>13, <2>3, <2>6, <3>1, <3>2, <3>3 DEF Least
    <3> QED
      BY <1>19, <2>6, <3>4
  <2>7. CASE j = d
    <3>1. \A m : m \in Subdirs(d)' <=> m \in Names /\ ents'[d][m] # 0 /\ dtype[ents'[d][m]] = "dir"
      BY <2>5 DEF Subdirs
    <3>2. \A m : m \in Subdirs(d) <=> m \in Names /\ ents[d][m] # 0 /\ dtype[ents[d][m]] = "dir"
      BY DEF Subdirs
    <3>3. \A m \in Names : ents'[d][m] = IF m = n THEN v ELSE ents[d][m]
      BY <1>21
    <3>4. n \notin Subdirs(d)
      BY <1>10, <3>2
    <3>5. Cardinality(Subdirs(d)') = Cardinality(Subdirs(d)) + more
      <4>1. CASE more = 1
        <5>1. dtype[v] = "dir"
          BY <1>13, <4>1
        <5>2. Subdirs(d)' = Subdirs(d) \cup {n}
          BY <1>12, <3>1, <3>2, <3>3, <5>1
        <5> QED
          BY <3>4, <4>1, <5>2, LinksFinite, OneMore
      <4>2. CASE more = 0
        <5>1. dtype[v] # "dir"
          BY <1>13, <4>2
        <5>2. \A m : m \in Subdirs(d)' <=> m \in Subdirs(d)
          BY <3>1, <3>2, <3>3, <3>4, <5>1
        <5>3. Subdirs(d)' = Subdirs(d)
          BY <5>2
        <5> QED
          BY <4>2, <5>3, LinksFinite
      <4> QED
        BY <4>1, <4>2
    <3>6. NamesOf(d)' = NamesOf(d) /\ Pending(d)' = Pending(d)
      BY <1>7, <2>3, <2>4, <2>7
    <3>7. Least(d)' = Least(d) + more
      BY <3>5, <3>6, LinksFinite DEF Least
    <3>8. dlink[d] >= Least(d) /\ Least(d) \in Nat
      BY LinksFinite DEF IInv, Counted
    <3> QED
      BY <1>14, <1>19, <2>7, <3>7, <3>8
  <2>8. CASE j \notin {d, v}
    <3>1. \A m \in Names : ents'[j][m] = ents[j][m]
      BY <1>21, <2>8
    <3>2. Subdirs(j)' = Subdirs(j)
      BY <2>5, <3>1 DEF Subdirs
    <3>3. Least(j)' = Least(j)
      BY <2>3, <2>4, <2>8, <3>2 DEF Least
    <3> QED
      BY <1>19, <2>8, <3>3 DEF IInv, Counted
  <2> QED
    BY <2>6, <2>7, <2>8
<1>29. Entries' /\ RootStays'
  <2>1. Entries'
    <3> SUFFICES ASSUME NEW e \in Inums, NEW m \in Names, ents'[e][m] # 0
                 PROVE  /\ dtype[e] = "dir" /\ up'[e] \in Inums /\ dtype[ents'[e][m]] # "free"
                        /\ dtype[ents'[e][m]] = "dir" =>
                             up'[ents'[e][m]] = e /\ \A l \in Names : ents'[ents'[e][m]][l] # e
      BY <1>15 DEF Entries, Inums
    <3>1. CASE e = d /\ m = n
      <4>1. ents'[e][m] = v /\ up'[e] = up[d]
        BY <1>7, <1>20, <1>21, <3>1
      <4>2. \A l \in Names : ents'[v][l] = 0
        BY <1>7, <1>13, <1>21
      <4>3. dtype[v] = "dir" => up'[v] = d
        BY <1>11, <1>13, <1>20
      <4>4. dtype[v] # "free" /\ d # 0
        BY <1>8, SizeAssumption DEF Inums
      <4> QED
        BY <1>9, <3>1, <4>1, <4>2, <4>3, <4>4
    <3>2. CASE ~(e = d /\ m = n)
      <4>1. ents'[e][m] = ents[e][m] /\ ents[e][m] # 0 /\ e # v
        BY <1>13, <1>21, <3>2
      <4>2. ents[e][m] \in 0..NInodes
        BY Domains
      <4>3. ents[e][m] \in Inums
        BY <4>1, <4>2, SizeAssumption DEF Inums
      <4>4. ents[e][m] # v
        <5>1. <<e, m>> \in Inums \X Names
          OBVIOUS
        <5> QED
          BY <1>13, <5>1 DEF NamesOf
      <4>5. \A l \in Names : ents'[ents[e][m]][l] \in {v, ents[ents[e][m]][l]}
        BY <1>21, <4>3
      <4>6. up'[e] = up[e] /\ up'[ents[e][m]] = up[ents[e][m]]
        BY <1>20, <4>1, <4>3, <4>4
      <4> QED
        BY <4>1, <4>3, <4>5, <4>6 DEF IInv, Entries
    <3> QED
      BY <3>1, <3>2
  <2>2. Root \in Inums
    BY SizeAssumption DEF Root, Inums
  <2> QED
    BY <1>13, <1>15, <1>20, <2>1, <2>2 DEF IInv, RootStays
<1>30. ASSUME NEW k \in Kinds, At(k, p)' # None, ~Dead(k, p)' PROVE Settled(Inode(k, p))'
  <2>1. PICK l \in Kinds : Turn2[l] = k
    BY <1>17 DEF Moves, Permutes
  <2>2. At(k, p)' = At(l, p) /\ Inode(k, p)' = Inode(l, p)
    BY <1>15, <1>17, <2>1 DEF Moves, Inode
  <2>3. CASE Inode(l, p) = v
    BY <1>8, <1>11, <1>13, <1>15, <1>20, <2>2, <2>3 DEF Settled
  <2>4. CASE Inode(l, p) # v
    <3>1. ~Fresh(l, p) /\ ~Dead(l, p)
      BY <1>3, <1>4, <1>6, <2>4 DEF Fresh, Dead, Inode, At
    <3>2. Settled(Inode(l, p)) /\ Inode(l, p) \in Inums
      BY <1>30, <2>2, <3>1, Pointed
    <3> QED
      BY <1>15, <1>20, <2>2, <2>4, <3>2 DEF Settled
  <2> QED
    BY <2>3, <2>4
<1>31. ASSUME NEW q \in Procs \ {p}, NEW k \in Kinds, At(k, q) # None, ~Dead(k, q)
       PROVE  dtype'[Inode(k, q)] = dtype[Inode(k, q)] /\ up'[Inode(k, q)] = up[Inode(k, q)]
  <2>1. Inode(k, q) # v
    BY <1>12, <1>31 DEF Private
  <2>2. Inode(k, q) \in Inums
    BY <1>31, Pointed
  <2> QED
    BY <1>15, <1>20, <2>1, <2>2
<1>32. \A r \in Slots : ~Locks(p, r) => type'[r] = type[r] /\ nlink'[r] = nlink[r]
  BY <1>15, <1>18, <1>25
<1>33. \A j \in Inums : (\A r \in Slots : Locks(p, r) => inum[r] # j) =>
         dtype'[j] = dtype[j] /\ dlink'[j] = dlink[j] /\ ents'[j] = ents[j] /\ up'[j] = up[j]
  <2>1. \A j \in Inums : j # d => ents'[j] = ents[j]
    BY <1>15, Domains
  <2> QED
    BY <1>5, <1>6, <1>15, <1>19, <1>20, <2>1
<1>34. \A r \in Slots : Locks(p, r) => /\ nlink'[r] = dlink'[inum[r]]
                                       /\ type'[r] = dtype'[inum[r]] /\ type'[r] # "free"
  BY <1>6, <1>8, <1>15, <1>18, <1>19, <1>25
<1>35. Unlocks(p)
  BY <1>25, <1>26 DEF Unlocks
<1>36. UNCHANGED <<inum, ref, valid>>
  BY <1>15
<1> QED
  BY <1>2, <1>3, <1>36, <1>16, <1>17, <1>22, <1>23, <1>24, <1>27, <1>28, <1>29, <1>30, <1>31, <1>32, <1>33, <1>34,
     <1>35, StepWrites
-----------------------------------------------------------------------------
(* The invariant.                                                          *)

LEMMA InitIInv == Init => IInv
<1> SUFFICES ASSUME Init PROVE IInv
  OBVIOUS
<1>1. PICK r \in Slots : /\ inum = [s \in Slots |-> IF s = r THEN Root ELSE 0]
                         /\ ref = [s \in Slots |-> IF s = r THEN Cardinality(Procs) ELSE 0]
                         /\ cwd = [p \in Procs |-> r]
  BY DEF Init
<1>2. Root \in Inums /\ Root # 0 /\ Cardinality(Procs) \in Nat /\ r # None
  BY SizeAssumption, ProcsAssumption, FS_CardinalityType DEF Root, Inums
<1>3. ASSUME NEW p \in Procs
      PROVE  /\ pc[p] = "idle" /\ ret[p] = "idle" /\ call[p] = NoCall /\ Stage(p) = "idle" /\ Op(p) = "none"
             /\ cur[p] = None /\ ip[p] = None /\ put[p] = None /\ fd[p] = None /\ cwd[p] = r
             /\ Making(p) = 0 /\ ~Owes(p) /\ \A s : ~Locks(p, s)
             /\ \A k \in Kinds : At(k, p) = IF k = "cwd" THEN r ELSE None
  <2>1. /\ pc[p] = "idle" /\ ret[p] = "idle" /\ call[p] = NoCall
        /\ cur[p] = None /\ ip[p] = None /\ put[p] = None /\ fd[p] = None /\ cwd[p] = r
    BY <1>1 DEF Init
  <2>2. Stage(p) = "idle" /\ Op(p) = "none" /\ Making(p) = 0
    BY <2>1, NoCallOK DEF Stage, Putting, Op, Making
  <2>3. ~Owes(p) /\ \A s : ~Locks(p, s)
    BY <2>1, <2>2 DEF Owes, Locks, LockCur, LockIp
  <2>4. \A k \in Kinds : At(k, p) = IF k = "cwd" THEN r ELSE None
    BY <2>1 DEF At, Kinds
  <2> QED
    BY <2>1, <2>2, <2>3, <2>4
<1>4. /\ \A i \in Inums : /\ dtype[i] = (IF i = Root THEN "dir" ELSE "free") /\ dlink[i] = (IF i = Root THEN 1 ELSE 0)
                          /\ up[i] = (IF i = Root THEN Root ELSE 0)
      /\ \A i \in Inums, n \in Names : ents[i][n] = 0
  BY DEF Init, NoEnts
<1>5. Typed
  <2>1. TypeOK
    <3>1. dtype \in [Inums -> Types] /\ dlink \in [Inums -> Nat] /\ type \in [Slots -> Types]
      BY DEF Init, Types
    <3>2. ents \in [Inums -> [Names -> 0..NInodes]] /\ up \in [Inums -> 0..NInodes]
      BY <1>2, SizeAssumption DEF Init, NoEnts, Inums
    <3>3. /\ inum \in [Slots -> 0..NInodes] /\ ref \in [Slots -> Nat] /\ cwd \in [Procs -> Slots]
      BY <1>1, <1>2, SizeAssumption DEF Inums
    <3>4. /\ owner \in [Slots -> Procs \cup {None}] /\ valid \in [Slots -> BOOLEAN] /\ nlink \in [Slots -> Nat]
          /\ scan \in [Procs -> 0..(NInodes + 1)]
      BY SizeAssumption DEF Init
    <3>5. \A v \in {cur, ip, put, fd} : v \in [Procs -> Slots \cup {None}]
      BY DEF Init
    <3> QED
      BY <3>1, <3>2, <3>3, <3>4, <3>5 DEF TypeOK
  <2>2. \A p \in Procs : CallOK(p)
    BY <1>3, NoCallOK DEF CallOK
  <2>3. DOMAIN pc = Procs /\ DOMAIN ret = Procs /\ DOMAIN call = Procs
    BY DEF Init
  <2> QED
    BY <2>1, <2>2, <2>3 DEF Typed
<1>6. \A p \in Procs : Shape(p)
  BY <1>3 DEF Shape, Putting, WithCur, WithIp, AtEnd, Looking
<1>7. Owners /\ Loaded
  <2>1. \A s \in Slots : owner[s] = None
    BY DEF Init
  <2> QED
    BY <1>3, <2>1, ProcsAssumption DEF Owners, Loaded
<1>8. RefExact
  <2> SUFFICES ASSUME NEW s \in Slots PROVE ref[s] = Cardinality(Uses(Ptrs, s))
    BY RefsAreUses DEF RefExact
  <2>1. s # None
    BY ProcsAssumption
  <2>2. \A x \in Places : x[1] \in Kinds /\ x[2] \in Procs /\ Ptrs[x] = IF x[1] = "cwd" THEN r ELSE None
    BY <1>3 DEF Places, Ptrs
  <2>3. CASE s = r
    <3>1. Uses(Ptrs, s) = {"cwd"} \X Procs
      BY <2>1, <2>2, <2>3 DEF Uses, Places, Kinds
    <3>2. IsFiniteSet({"cwd"}) /\ Cardinality({"cwd"}) = 1
      BY FS_Singleton
    <3>3. Cardinality({"cwd"} \X Procs) = Cardinality({"cwd"}) * Cardinality(Procs)
      BY <3>2, ProcsAssumption, FS_Product
    <3>4. Cardinality({"cwd"} \X Procs) = Cardinality(Procs)
      BY <1>2, <3>2, <3>3
    <3> QED
      BY <1>1, <2>3, <3>1, <3>4
  <2>4. CASE s # r
    <3>1. Uses(Ptrs, s) = {}
      BY <2>1, <2>2, <2>4 DEF Uses
    <3> QED
      BY <1>1, <2>4, <3>1, FS_EmptySet
  <2> QED
    BY <2>3, <2>4
<1>9. InTable /\ OneEntryPerInode
  BY <1>1, <1>2 DEF InTable, OneEntryPerInode
<1>10. Alive
  <2> SUFFICES ASSUME NEW k \in Kinds, NEW p \in Procs, At(k, p) # None PROVE Settled(Inode(k, p))
    BY DEF Alive
  <2>1. Inode(k, p) = Root
    BY <1>1, <1>3 DEF Inode
  <2> QED
    BY <1>2, <1>4, <2>1 DEF Settled
<1>11. Privates /\ Copies /\ Freers
  <2>1. \A s \in Slots : ~valid[s]
    BY DEF Init
  <2> QED
    BY <1>3, <2>1 DEF Privates, Copies, Freers
<1>12. Counted
  <2> SUFFICES ASSUME NEW i \in Inums PROVE dlink[i] >= Least(i)
    BY DEF Counted
  <2>1. i # 0
    BY SizeAssumption DEF Inums
  <2>2. NamesOf(i) = {} /\ Subdirs(i) = {} /\ Pending(i) = {}
    BY <1>3, <1>4, <2>1 DEF NamesOf, Subdirs, Pending
  <2>3. Least(i) = IF i = Root THEN 1 ELSE 0
    BY <2>2, FS_EmptySet DEF Least
  <2> QED
    BY <1>4, <2>3
<1>13. Entries /\ RootStays
  BY <1>2, <1>4 DEF Entries, RootStays
<1>14. \A p \in Procs : Stays(p)
  BY <1>3 DEF Stays, AtEnd
<1> QED
  BY <1>5, <1>6, <1>7, <1>8, <1>9, <1>10, <1>11, <1>12, <1>13, <1>14 DEF IInv

LEMMA Stuttering == IInv /\ UNCHANGED vars => IInv'
<1> SUFFICES ASSUME IInv, UNCHANGED vars PROVE IInv'
  OBVIOUS
<1>1. UNCHANGED <<dtype, dlink, ents, up, inum, ref, owner, valid, type, nlink,
                  pc, call, cur, ip, put, ret, scan, cwd, fd>>
  BY DEF vars, disk, table, procs
<1>2. \A p : /\ Stage(p)' = Stage(p) /\ Op(p)' = Op(p) /\ Elems(p)' = Elems(p) /\ Making(p)' = Making(p)
             /\ Child(p)' = Child(p) /\ (CallOK(p)' <=> CallOK(p))
  BY <1>1 DEF Stage, Op, Elems, Making, Child, CallOK
<1>3. \A p : /\ (Owes(p)' <=> Owes(p)) /\ (Shape(p)' <=> Shape(p)) /\ (Stays(p)' <=> Stays(p))
             /\ \A s : Locks(p, s)' <=> Locks(p, s)
  BY <1>1, <1>2 DEF Owes, Shape, Stays, Locks
<1>4. /\ \A k, p : /\ At(k, p)' = At(k, p) /\ Inode(k, p)' = Inode(k, p)
                   /\ (Dead(k, p)' <=> Dead(k, p)) /\ (Fresh(k, p)' <=> Fresh(k, p))
      /\ \A i : Settled(i)' <=> Settled(i)
      /\ \A s : Freeing(s)' <=> Freeing(s)
  BY <1>1 DEF At, Inode, Dead, Fresh, Settled, Freeing
<1>5. \A i : NamesOf(i)' = NamesOf(i) /\ Subdirs(i)' = Subdirs(i) /\ Pending(i)' = Pending(i)
  BY <1>1, <1>3 DEF NamesOf, Subdirs, Pending
<1>6. \A s : RefsTo(s)' = RefsTo(s)
  BY <1>1 DEF RefsTo, Pointers
<1>7. Typed' /\ \A p \in Procs : Shape(p)' /\ Stays(p)'
  BY <1>1, <1>2, <1>3 DEF IInv, Typed, TypeOK
<1>8. Owners' /\ Loaded' /\ RefExact' /\ InTable' /\ OneEntryPerInode'
  BY <1>1, <1>3, <1>6 DEF IInv, Owners, Loaded, RefExact, InTable, OneEntryPerInode
<1>9. Alive' /\ Copies' /\ Freers'
  BY <1>1, <1>4 DEF IInv, Alive, Copies, Freers
<1>10. Privates'
  BY <1>1, <1>2, <1>4 DEF IInv, Privates, Private, NoEnts
<1>11. Counted'
  BY <1>1, <1>5 DEF IInv, Counted, Least
<1>12. Entries' /\ RootStays'
  BY <1>1 DEF IInv, Entries, RootStays
<1> QED
  BY <1>7, <1>8, <1>9, <1>10, <1>11, <1>12 DEF IInv

LEMMA NextIInv == IInv /\ NoneAstray /\ [Next]_vars => IInv'
<1> SUFFICES ASSUME IInv, NoneAstray, [Next]_vars PROVE IInv'
  OBVIOUS
<1>1. CASE UNCHANGED vars
  BY <1>1, Stuttering
<1>2. ASSUME NEW p \in Procs, \E c \in Calls[p] : Call(p, c) PROVE IInv'
  BY <1>2, CallStep
<1>3. ASSUME NEW p \in Procs, Ilock(p) \/ Iput(p) PROVE IInv'
  BY <1>3, IlockStep, IputDropStep, IputLastStep, IputFreeStep, IputUnlockStep DEF Iput
<1>4. ASSUME NEW p \in Procs, Namex(p) PROVE IInv'
  BY <1>4, NamexStartStep, WalkFailsStep, WalkStopsStep, WalkOnStep DEF Namex
<1>5. ASSUME NEW p \in Procs, Open(p) PROVE IInv'
  BY <1>5, OpenDoneStep, IunlockPutStep, ChdirStep, CloseStep DEF Open
<1>6. ASSUME NEW p \in Procs, Create(p) PROVE IInv'
  BY <1>6, CreateFindsStep, ReuseStep, ReuseFailsStep, CreateStartStep, IallocNextStep, IallocFoundStep,
     IallocPanicStep, IallocIgetStep, FillStep DEF Create
<1>7. ASSUME NEW p \in Procs, LinkUnlink(p) PROVE IInv'
  BY <1>7, BadDirStep, UnlinkFindsStep, UnlinkFailsStep, UnlinkStep, DropLinkStep, LinkCountStep, LinkExistsStep,
     LinkAddStep, LinkDoneStep DEF LinkUnlink
<1>8. ASSUME NEW p \in Procs, IgetPanic(p) PROVE IInv'
  BY <1>8, IgetPanicStep
<1> QED
  BY <1>1, <1>2, <1>3, <1>4, <1>5, <1>6, <1>7, <1>8 DEF Next

\* Whatever processes, names, entries and system calls there are, the table, the
\* disk and the pointers agree after every step, as long as no lookup goes up from
\* a directory that has been removed.
THEOREM Agreement == Spec /\ []NoneAstray => []IInv
<1>1. Init => IInv
  BY InitIInv
<1>2. IInv /\ NoneAstray /\ [Next]_vars => IInv'
  BY NextIInv
<1> QED
  BY <1>1, <1>2, PTL DEF Spec
-----------------------------------------------------------------------------
(* What follows from it.                                                   *)

\* The types, one entry for an inode, exact reference counts, copies that are the
\* disk's, names that are counted, and no inode behind a pointer or a name that
\* has been freed.
LEMMA IInvSound == IInv => FsSound
<1> SUFFICES ASSUME IInv PROVE FsSound
  OBVIOUS
<1>1. TypeOK /\ OneEntryPerInode /\ RefExact
  BY DEF IInv, Typed
<1>2. WriteThrough
  <2> SUFFICES ASSUME NEW s \in Slots, ref[s] > 0, valid[s], owner[s] = None
               PROVE  type[s] = dtype[inum[s]] /\ nlink[s] = dlink[inum[s]]
    BY DEF WriteThrough
  <2>1. ASSUME NEW p \in Procs, pc[p] = "freed", put[p] = s PROVE FALSE
    <3>1. owner[s] = p
      BY <2>1 DEF IInv, Owners, Locks
    <3> QED
      BY <3>1, ProcsAssumption
  <2> QED
    BY <2>1 DEF IInv, Copies, Freeing
<1>3. NamesCounted
  <2> SUFFICES ASSUME NEW i \in Inums, NamesOf(i) # {}
               PROVE  dtype[i] # "free" /\ Cardinality(NamesOf(i)) <= dlink[i]
    BY DEF NamesCounted
  <2>1. PICK e \in Inums \X Names : ents[e[1]][e[2]] = i
    BY DEF NamesOf
  <2>2. i # 0 /\ e[1] \in Inums /\ e[2] \in Names
    BY SizeAssumption DEF Inums
  <2>3. dtype[i] # "free"
    BY <2>1, <2>2 DEF IInv, Entries
  <2>4. Cardinality(NamesOf(i)) <= Least(i)
    BY LinksFinite DEF Least
  <2>5. dlink[i] >= Least(i) /\ dlink[i] \in Nat
    BY Domains DEF IInv, Counted
  <2> QED
    BY <2>3, <2>4, <2>5, LinksFinite
<1>4. NoStaleInode
  <2> SUFFICES ASSUME NEW p \in Procs
               PROVE  /\ pc[p] \in DOMAIN AfterLock => dtype[inum[LockOf(p)]] # "free"
                      /\ pc[p] = "remove" => nlink[ip[p]] >= 1
    BY DEF NoStaleInode
  <2>1. pc[p] \in DOMAIN AfterLock => dtype[inum[LockOf(p)]] # "free"
    BY LockTarget
  <2>2. ASSUME pc[p] = "remove" PROVE nlink[ip[p]] >= 1
    <3>1. Shape(p) /\ Stays(p) /\ Stage(p) = pc[p]
      BY <2>2 DEF IInv, Stage, Putting
    <3>2. cur[p] \in Slots /\ ip[p] \in Slots
      BY <2>2, Apart
    <3>3. Locks(p, cur[p]) /\ Locks(p, ip[p])
      BY <2>2, <3>1 DEF Locks, LockCur, LockIp
    <3>4. inum[cur[p]] \in Inums /\ inum[ip[p]] \in Inums /\ nlink[ip[p]] = dlink[inum[ip[p]]]
      BY <3>2, <3>3, LockedCopy
    <3>5. \A e : e = <<>> => Len(e) # 1
      OBVIOUS
    <3>6. Head(Elems(p)) \in Names /\ ents[inum[cur[p]]][Head(Elems(p))] = inum[ip[p]]
      <4>1. Head(Elems(p)) \in Elements
        BY <2>2, <3>1, <3>5, FirstElement DEF Shape, AtEnd
      <4> QED
        BY <2>2, <3>1, <4>1 DEF Stays, Child, Elements
    <3>7. <<inum[cur[p]], Head(Elems(p))>> \in NamesOf(inum[ip[p]])
      BY <3>4, <3>6 DEF NamesOf
    <3>8. dlink[inum[ip[p]]] # 0
      BY <3>4, <3>7, Unlinked DEF IInv
    <3> QED
      BY <3>4, <3>8, Domains
  <2> QED
    BY <2>1, <2>2
<1> QED
  BY <1>1, <1>2, <1>3, <1>4 DEF FsSound

\* iput() with the last reference finds the lock free, for whoever had it would
\* have a reference, too; and nobody waits for a process that waits for it: only
\* create() and unlink() wait with a lock, for an inode below the one they have.
LEMMA IInvOrdered == IInv => LocksOrdered
<1> SUFFICES ASSUME IInv PROVE LocksOrdered
  OBVIOUS
<1>1. IputNeverWaits
  <2> SUFFICES ASSUME NEW p \in Procs, pc[p] = "iput", LastPut(put[p]), owner[put[p]] # None PROVE FALSE
    BY DEF IputNeverWaits
  <2>1. put[p] \in Slots /\ At("put", p) = put[p] /\ "put" \in Kinds
    BY PutTarget DEF Putting
  <2>2. PICK q \in Procs : owner[put[p]] = q
    BY <2>1, Domains
  <2>3. Locks(q, put[p]) \/ cur[q] = put[p]
    BY <2>1, <2>2 DEF IInv, Owners
  <2>4. At("cur", q) = cur[q] /\ At("ip", q) = ip[q] /\ At("put", q) = put[q] /\ {"cur", "ip"} \subseteq Kinds
    BY DEF At, Kinds
  <2>5. PICK k \in Kinds : At(k, q) = put[p] /\ (k # "put" \/ q # p)
    BY <2>1, <2>3, <2>4 DEF Locks
  <2>6. ref[put[p]] # 1
    BY <2>1, <2>5, HeldTwice DEF IInv
  <2> QED
    BY <2>6 DEF LastPut
<1>2. NoWaitCycle
  <2> SUFFICES ASSUME NEW p \in Procs, NEW q \in Procs, Waits(p, q), Waits(q, p) PROVE FALSE
    BY DEF NoWaitCycle
  \* Who waits with a lock does so in create() or unlink().
  <2>1. ASSUME NEW a \in Procs, NEW b \in Procs, Waits(a, b), Waits(b, a)
        PROVE  pc[b] \in {"fresh", "victim"} /\ LockOf(a) = cur[b] /\ LockOf(b) = ip[b]
    <3>1. LockOf(a) \in Slots /\ owner[LockOf(a)] = b /\ pc[b] \in DOMAIN AfterLock
      BY <2>1, LockTarget DEF Waits
    <3>2. Stage(b) = pc[b] /\ pc[b] \in {"namei", "found", "parent", "exists", "fresh", "victim", "undo"}
      BY <3>1, LockTarget DEF AfterLock
    <3>3. Locks(b, LockOf(a))
      BY <3>1, <3>2 DEF IInv, Owners
    <3> QED
      BY <3>2, <3>3 DEF Locks, LockCur, LockIp, LockOf
  <2>2. pc[p] \in {"fresh", "victim"} /\ pc[q] \in {"fresh", "victim"} /\ ip[p] = cur[q] /\ ip[q] = cur[p]
    BY <2>1
  \* What is being made nobody else has.
  <2>3. ASSUME NEW a \in Procs, NEW b \in Procs, pc[a] = "fresh", pc[b] \in {"fresh", "victim"}, cur[b] = ip[a]
        PROVE  FALSE
    <3>1. At("ip", a) = ip[a] /\ At("cur", b) = cur[b] /\ {"ip", "cur"} \subseteq Kinds
      BY DEF At, Kinds
    <3>2. cur[b] \in Slots /\ cur[b] # None
      BY <2>3, Apart, ProcsAssumption
    <3>3. inum[cur[b]] \in Inums /\ Inode("cur", b) = inum[cur[b]]
      BY <3>1, <3>2, Pointed DEF Inode
    <3>4. Private(a, inum[ip[a]])
      BY <2>3, <3>3, SizeAssumption DEF IInv, Privates, Making, Inums
    <3> QED
      BY <2>3, <3>1, <3>2, <3>3, <3>4 DEF Private, Dead
  <2>4. pc[p] = "victim" /\ pc[q] = "victim"
    BY <2>2, <2>3
  \* A directory is not in what it has an entry for.
  <2>5. ASSUME NEW a \in Procs, pc[a] = "victim"
        PROVE  /\ inum[cur[a]] \in Inums /\ inum[ip[a]] # 0 /\ dtype[inum[cur[a]]] = "dir"
               /\ \E n \in Names : ents[inum[cur[a]]][n] = inum[ip[a]]
    <3>1. Shape(a) /\ Stays(a) /\ Stage(a) = pc[a]
      BY <2>5 DEF IInv, Stage, Putting
    <3>2. At("ip", a) = ip[a] /\ At("cur", a) = cur[a] /\ {"ip", "cur"} \subseteq Kinds
      BY DEF At, Kinds
    <3>3. inum[cur[a]] \in Inums /\ inum[ip[a]] \in Inums
      BY <2>5, <3>2, Apart, Pointed, ProcsAssumption DEF Inode
    <3>4. \A e : e = <<>> => Len(e) # 1
      OBVIOUS
    <3>5. Head(Elems(a)) \in Elements
      BY <2>5, <3>1, <3>4, FirstElement DEF Shape, AtEnd
    <3>6. Head(Elems(a)) # ".." /\ Child(a) = inum[ip[a]] /\ dtype[inum[cur[a]]] = "dir"
      BY <2>5, <3>1 DEF Stays, AtEnd
    <3> QED
      BY <3>3, <3>5, <3>6, SizeAssumption DEF Child, Elements, Inums
  <2>6. PICK n \in Names : ents[inum[cur[p]]][n] = inum[cur[q]]
    BY <2>2, <2>4, <2>5
  <2>7. PICK m \in Names : ents[inum[cur[q]]][m] = inum[cur[p]]
    BY <2>2, <2>4, <2>5
  <2> QED
    BY <2>2, <2>4, <2>5, <2>6, <2>7 DEF IInv, Entries
<1> QED
  BY <1>1, <1>2 DEF LocksOrdered

\* iput() frees an inode that has no name, with the only reference to it; and
\* unlink() takes away a file, or a directory it has found empty under its lock.
LEMMA StepRemoves ==
  ASSUME IInv, Next
  PROVE  /\ \A i \in Inums : dtype[i] # "free" /\ dtype'[i] = "free" =>
              NamesOf(i) = {} /\ \E s \in Holders(i) : ref[s] = 1
         /\ \A d \in Inums, n \in Names : ents'[d][n] # ents[d][n] /\ ents[d][n] # 0 /\ dlink[d] > 0 =>
              dtype[ents[d][n]] = "file" \/ ents[ents[d][n]] = NoEnts
<1> DEFINE Freed(i) == dtype[i] # "free" /\ dtype'[i] = "free"
           Gone(d, n) == ents'[d][n] # ents[d][n] /\ ents[d][n] # 0 /\ dlink[d] > 0
           Good == /\ \A i \in Inums : Freed(i) => NamesOf(i) = {} /\ \E s \in Holders(i) : ref[s] = 1
                   /\ \A d \in Inums, n \in Names :
                        Gone(d, n) => dtype[ents[d][n]] = "file" \/ ents[ents[d][n]] = NoEnts
<1>1. ASSUME dtype' = dtype, ents' = ents PROVE Good
  BY <1>1
<1>2. ASSUME NEW p \in Procs, IputFree(p) PROVE Good
  <2>1. pc[p] = "free" /\ put[p] \in Slots /\ Locks(p, put[p])
    BY <1>2, PutTarget DEF IputFree, Locks, Putting
  <2>2. PICK s \in Slots : s = put[p]
    BY <2>1
  <2>3. PICK i \in Inums : i = inum[s]
    BY <2>1, <2>2, LockedCopy
  <2>4. ref[s] = 1 /\ nlink[s] = 0 /\ dlink[i] = 0
    BY <2>1, <2>2, <2>3, LockedCopy DEF IInv, Freers
  <2>5. NamesOf(i) = {}
    BY <2>4, Unlinked DEF IInv
  <2>6. dtype' = [dtype EXCEPT ![i] = "free"] /\ ents' = [ents EXCEPT ![i] = NoEnts]
    BY <1>2, <2>2, <2>3 DEF IputFree
  <2>7. \A j \in Inums : j # i => dtype'[j] = dtype[j] /\ ents'[j] = ents[j]
    BY <2>6
  <2>8. s \in Holders(i)
    BY <2>3, <2>4 DEF Holders
  <2> QED
    BY <2>4, <2>5, <2>7, <2>8
<1>3. ASSUME NEW p \in Procs, IallocFound(p) PROVE Good
  <2>1. PICK i \in Inums : i = scan[p] /\ dtype[i] = "free"
    BY <1>3 DEF IallocFound
  <2>2. \A n \in Names : ents[i][n] = 0
    BY <2>1 DEF IInv, Entries
  <2>3. \A j \in Inums : j # i => dtype'[j] = dtype[j] /\ ents'[j] = ents[j]
    BY <1>3, <2>1 DEF IallocFound
  <2> QED
    BY <2>1, <2>2, <2>3
<1>4. ASSUME NEW p \in Procs, Fill(p) \/ LinkAdd(p) PROVE Good
  <2>1. pc[p] \in {"fill", "change"} /\ Stage(p) = pc[p] /\ Shape(p) /\ Stays(p) /\ Elems(p) # <<>>
    <3>1. pc[p] \in {"fill", "change"} /\ Shape(p) /\ Stays(p)
      BY <1>4 DEF Fill, LinkAdd, IInv
    <3>2. Stage(p) = pc[p]
      BY <3>1 DEF Stage, Putting
    <3>3. \A e : e = <<>> => Len(e) # 1
      OBVIOUS
    <3> QED
      BY <3>1, <3>2, <3>3 DEF Shape, AtEnd
  <2>2. cur[p] \in Slots
    BY <2>1, Domains DEF Shape, AtEnd, WithCur
  <2>3. PICK d \in Inums : d = inum[cur[p]]
    <3>1. At("cur", p) = cur[p] /\ "cur" \in Kinds
      BY DEF At, Kinds
    <3> QED
      BY <2>2, <3>1, Pointed, ProcsAssumption DEF Inode
  <2>4. up[d] \in Inums \/ Head(Elems(p)) # ".."
    <3>1. At("cur", p) = cur[p] /\ "cur" \in Kinds /\ ~Dead("cur", p) /\ ~Fresh("cur", p)
      BY DEF At, Kinds, Dead, Fresh
    <3>2. Settled(d)
      BY <2>2, <2>3, <3>1, Pointed, ProcsAssumption DEF Inode
    <3> QED
      BY <2>1, <2>3, <3>2 DEF Settled, Stays, AtEnd
  <2>5. Child(p) = 0
    BY <1>4, <2>1 DEF Fill, LinkAdd, Stays
  <2>6. PICK n \in Names : n = Head(Elems(p)) /\ ents[d][n] = 0
    <3>1. Head(Elems(p)) \in Elements
      BY <2>1, FirstElement
    <3>2. Head(Elems(p)) # ".."
      BY <2>3, <2>4, <2>5, SizeAssumption DEF Child, Inums
    <3> QED
      BY <2>3, <2>5, <3>1, <3>2 DEF Child, Elements
  <2>7. dtype' = dtype /\ \E v : ents' = [ents EXCEPT ![d][n] = v]
    BY <1>4, <2>3, <2>6 DEF Fill, LinkAdd
  <2>8. \A e \in Inums, m \in Names : ents[e][m] # 0 => ents'[e][m] = ents[e][m]
    BY <2>6, <2>7, Domains
  <2> QED
    BY <2>7, <2>8
<1>5. ASSUME NEW p \in Procs, Unlink(p) PROVE Good
  <2>1. pc[p] = "remove" /\ Stage(p) = pc[p] /\ Stays(p)
    BY <1>5 DEF Unlink, IInv, Stage, Putting
  <2>2. cur[p] \in Slots /\ ip[p] \in Slots
    BY <2>1, Apart
  <2>3. Locks(p, cur[p]) /\ Locks(p, ip[p])
    BY <2>1 DEF Locks, LockCur, LockIp
  <2>4. PICK d \in Inums, v \in Inums : d = inum[cur[p]] /\ v = inum[ip[p]]
    BY <2>2, <2>3, LockedCopy
  <2>5. type[ip[p]] = dtype[v] /\ dtype[v] # "free"
    BY <2>1, <2>2, <2>3, <2>4, LockedCopy
  <2>6. dtype[v] = "file" \/ ents[v] = NoEnts
    BY <1>5, <2>4, <2>5, Domains DEF Unlink, InUse, Types
  <2>7. dtype' = dtype /\ ents' = [ents EXCEPT ![d][Head(Elems(p))] = 0]
    BY <1>5, <2>4 DEF Unlink, Erase
  <2>8. Head(Elems(p)) # ".." => ents[d][Head(Elems(p))] = v
    BY <2>1, <2>4 DEF Stays, Child
  <2>9. \A e \in Inums, m \in Names : ents'[e][m] # ents[e][m] => ents[e][m] = v
    BY <2>1, <2>7, <2>8, Domains DEF Stays
  <2> QED
    BY <2>6, <2>7, <2>9
<1>6. ASSUME NEW p \in Procs,
             \/ \E c \in Calls[p] : Call(p, c)
             \/ Ilock(p) \/ Iput(p) \/ Namex(p) \/ Open(p) \/ IgetPanic(p)
      PROVE  Good
  <2>1. IputFree(p) \/ (dtype' = dtype /\ ents' = ents)
    BY <1>6 DEF Call, Ilock, Iput, IputDrop, IputLast, IputUnlock, Namex, NamexStart, WalkFails, WalkStops, WalkOn,
       Open, OpenDone, IunlockPut, Chdir, Close, IgetPanic, disk
  <2> QED
    BY <1>1, <1>2, <2>1
<1>7. ASSUME NEW p \in Procs, Create(p) \/ LinkUnlink(p) PROVE Good
  <2>1. \/ IallocFound(p) \/ Fill(p) \/ Unlink(p) \/ LinkAdd(p)
        \/ dtype' = dtype /\ ents' = ents
    BY <1>7 DEF Create, CreateFinds, Reuse, ReuseFails, CreateStart, IallocNext, IallocPanic, IallocIget,
       LinkUnlink, BadDir, UnlinkFinds, UnlinkFails, DropLink, LinkCount, LinkExists, LinkDone, disk
  <2> QED
    BY <1>1, <1>3, <1>4, <1>5, <2>1
<1> QED
  BY <1>6, <1>7 DEF Next

\* Whatever calls are under way, the table, the disk and the pointers of all
\* processes agree (iget, iput, ialloc, dirlink and their callers), in behaviours
\* in which no lookup goes up from a directory that has been removed.
THEOREM SoundUnlessAstray == Spec /\ []NoneAstray => []FsSound
<1>1. IInv => FsSound
  BY IInvSound
<1> QED
  BY <1>1, Agreement, PTL

\* There, iput() never waits for the sleep lock it takes with icache.lock held, and
\* no two processes wait for each other's inodes.
THEOREM OrderedUnlessAstray == Spec /\ []NoneAstray => []LocksOrdered
<1>1. IInv => LocksOrdered
  BY IInvOrdered
<1> QED
  BY <1>1, Agreement, PTL

\* There, iput() frees an inode only when it has neither a name nor another
\* reference, and unlink() removes no directory that has entries.
THEOREM RemovedUnlessAstray == Spec /\ []NoneAstray => RemovedRight
<1>1. IInv /\ [Next]_vars =>
        /\ [\A i \in Inums : dtype[i] # "free" /\ dtype'[i] = "free" =>
              NamesOf(i) = {} /\ \E s \in Holders(i) : ref[s] = 1]_vars
        /\ [\A d \in Inums, n \in Names :
              ents'[d][n] # ents[d][n] /\ ents[d][n] # 0 /\ dlink[d] > 0 =>
                dtype[ents[d][n]] = "file" \/ ents[ents[d][n]] = NoEnts]_vars
  BY StepRemoves
<1>2. Spec => [][Next]_vars
  BY DEF Spec
<1> QED
  BY <1>1, <1>2, Agreement, PTL DEF RemovedRight, FreedLast, RemovedEmpty
-----------------------------------------------------------------------------
(* Paths without "..".                                                     *)

\* Calls whose paths only go down.
DownOnly == \A p \in Procs : \A c \in Calls[p] :
  c.path.elems \in Seq(Names) /\ c.new.elems \in Seq(Names)
GoingDown == \A p \in Procs : Elems(p) \in Seq(Names) /\ call[p].new.elems \in Seq(Names)

LEMMA NeverUp == IInv /\ GoingDown => NoneAstray
<1> SUFFICES ASSUME IInv, GoingDown, NEW p \in Procs, GoesUp(p) PROVE FALSE
  BY DEF NoneAstray
<1>1. pc[p] \in {"walk", "change"} /\ Stage(p) = pc[p] /\ Shape(p)
  BY DEF GoesUp, IInv, Stage, Putting
<1>2. \A e : e = <<>> => Len(e) # 1
  OBVIOUS
<1>3. Elems(p) # <<>>
  BY <1>1, <1>2 DEF Shape, Looking, AtEnd
<1>4. \A e \in Seq(Names) : e # <<>> => Head(e) \in Names
  OBVIOUS
<1>5. Head(Elems(p)) \in Names
  BY <1>3, <1>4 DEF GoingDown
<1> QED
  BY <1>5, NamesAssumption DEF GoesUp

LEMMA StepDown ==
  ASSUME DownOnly, IInv, GoingDown, [Next]_vars
  PROVE  GoingDown'
<1>1. <<>> \in Seq(Names)
  OBVIOUS
<1>2. \A p \in Procs : Elems(p) \in Seq(Names) /\ call[p].new.elems \in Seq(Names)
  BY DEF GoingDown
<1>3. DOMAIN call = Procs
  BY Domains
<1>4. ASSUME call' = call PROVE GoingDown'
  BY <1>2, <1>4 DEF GoingDown, Elems
<1>5. ASSUME NEW p \in Procs, NEW c, call' = [call EXCEPT ![p] = c],
             c.path.elems \in Seq(Names), c.new.elems \in Seq(Names)
      PROVE  GoingDown'
  BY <1>2, <1>3, <1>5 DEF GoingDown, Elems
<1>6. NoCall.path.elems \in Seq(Names) /\ NoCall.new.elems \in Seq(Names) /\ NoPath.elems \in Seq(Names)
  BY <1>1 DEF NoCall, NoPath
<1>7. ASSUME NEW p \in Procs, EndCall(p) PROVE GoingDown'
  BY <1>5, <1>6, <1>7 DEF EndCall
<1>8. ASSUME NEW p \in Procs, WalkOn(p) PROVE GoingDown'
  <2>1. Elems(p) # <<>> /\ call[p] \in [op : Ops, path : AnyPath, new : AnyPath]
    <3>1. pc[p] = "walk" /\ Stage(p) = pc[p] /\ Shape(p) /\ CallOK(p)
      BY <1>8 DEF WalkOn, IInv, Typed, Stage, Putting
    <3> QED
      BY <3>1 DEF Shape, Looking, CallOK
  <2>2. Tail(Elems(p)) \in Seq(Names)
    <3>1. \A e \in Seq(Names) : e # <<>> => Tail(e) \in Seq(Names)
      OBVIOUS
    <3> QED
      BY <1>2, <2>1, <3>1
  <2>3. PICK c : call' = [call EXCEPT ![p] = c] /\ c = [call[p] EXCEPT !.path.elems = Tail(@)]
    BY <1>8 DEF WalkOn
  <2>4. c.path.elems = Tail(Elems(p)) /\ c.new = call[p].new
    BY <2>1, <2>3 DEF Elems, AnyPath
  <2> QED
    BY <1>2, <1>5, <2>2, <2>3, <2>4
<1>9. ASSUME NEW p \in Procs, LinkCount(p) PROVE GoingDown'
  BY <1>2, <1>5, <1>6, <1>9 DEF LinkCount
<1>10. ASSUME NEW p \in Procs, NEW c \in Calls[p], Call(p, c) PROVE GoingDown'
  <2>1. c.path.elems \in Seq(Names) /\ c.new.elems \in Seq(Names)
    BY DEF DownOnly
  <2>2. call' = [call EXCEPT ![p] = c]
    BY <1>10 DEF Call
  <2> QED
    BY <1>5, <2>1, <2>2
<1>11. CASE UNCHANGED vars
  BY <1>4, <1>11 DEF vars, procs
<1>12. ASSUME NEW p \in Procs, Ilock(p) \/ Iput(p) \/ Namex(p) \/ Open(p) \/ IgetPanic(p) PROVE GoingDown'
  <2>1. call' = call \/ EndCall(p) \/ WalkOn(p)
    BY <1>12 DEF Ilock, Iput, IputDrop, IputLast, IputFree, IputUnlock, Namex, NamexStart, WalkFails, WalkStops,
       Open, OpenDone, IunlockPut, Chdir, Close, IgetPanic
  <2> QED
    BY <1>4, <1>7, <1>8, <2>1
<1>13. ASSUME NEW p \in Procs, Create(p) \/ LinkUnlink(p) PROVE GoingDown'
  <2>1. call' = call \/ EndCall(p) \/ LinkCount(p)
    BY <1>13 DEF Create, CreateFinds, Reuse, ReuseFails, CreateStart, IallocNext, IallocFound, IallocPanic, IallocIget,
       Fill, LinkUnlink, BadDir, UnlinkFinds, UnlinkFails, Unlink, DropLink, LinkExists, LinkAdd, LinkDone
  <2> QED
    BY <1>4, <1>7, <1>9, <2>1
<1> QED
  BY <1>10, <1>11, <1>12, <1>13 DEF Next

\* With calls whose paths have no "..", every behaviour is one of those above.
THEOREM DownIsSafe == ASSUME DownOnly PROVE Spec => [](IInv /\ NoneAstray)
<1>1. Init => IInv /\ GoingDown
  <2> SUFFICES ASSUME Init PROVE GoingDown
    BY InitIInv
  <2>1. <<>> \in Seq(Names)
    OBVIOUS
  <2>2. \A p \in Procs : call[p] = NoCall
    BY DEF Init
  <2>3. NoCall.path.elems = <<>> /\ NoCall.new.elems = <<>>
    BY DEF NoCall, NoPath
  <2> QED
    BY <2>1, <2>2, <2>3 DEF GoingDown, Elems
<1>2. IInv /\ GoingDown /\ [Next]_vars => (IInv /\ GoingDown)'
  <2> SUFFICES ASSUME IInv, GoingDown, [Next]_vars PROVE IInv' /\ GoingDown'
    OBVIOUS
  <2>1. GoingDown'
    BY StepDown
  <2>2. IInv'
    BY NeverUp, NextIInv
  <2> QED
    BY <2>1, <2>2
<1>3. IInv /\ GoingDown => NoneAstray
  BY NeverUp
<1> QED
  BY <1>1, <1>2, <1>3, PTL DEF Spec

\* The table, the disk and the pointers agree whatever processes, names and calls
\* there are, when the paths only go down.
THEOREM Soundness == ASSUME DownOnly PROVE Spec => []FsSound
<1>1. IInv => FsSound
  BY IInvSound
<1> QED
  BY <1>1, DownIsSafe, PTL

\* Nobody waits in a circle for inodes, nor with icache.lock held, then.
THEOREM Ordering == ASSUME DownOnly PROVE Spec => []LocksOrdered
<1>1. IInv => LocksOrdered
  BY IInvOrdered
<1> QED
  BY <1>1, DownIsSafe, PTL

\* Inodes are freed, and directories removed, only when nobody needs them, then.
THEOREM Removal == ASSUME DownOnly PROVE Spec => RemovedRight
<1>1. Spec => []NoneAstray
  BY DownIsSafe, PTL
<1> QED
  BY <1>1, RemovedUnlessAstray, PTL
=============================================================================
