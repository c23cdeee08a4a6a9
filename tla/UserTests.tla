------------------------------ MODULE UserTests ------------------------------
(***************************************************************************)
(* The tests of user/usertests.c, and programs that test the same calls,   *)
(* as scripts for SysCalls: the calls in their order, and what each test   *)
(* takes for a good result (Ok, Fail, Is, None); with any other it exits   *)
(* with 1.  Loops are shorter, buffers smaller, a sleep takes any time;    *)
(* what is printed is left out, and a check that only prints is one too.   *)
(***************************************************************************)
EXTENDS SysCalls

(* Statements.                                                             *)
v := s == [s EXCEPT !.to = v]
Keep(s) == [s EXCEPT !.keep = "add"]
exit(n) == Stmt("exit", <<n>>)
exitvar(v) == Stmt("exitvar", <<v>>)
Check(s, want, n) == [s EXCEPT !.want = want, !.n = n, !.else = <<exit(1)>>]
Ok(s) == Check(s, "ok", 0)
Fail(s) == Check(s, "fails", 0)
None(s) == Check(s, "none", 0)
Is(s, n) == Check(s, "is", n)
If(s, want, yes, no) == [s EXCEPT !.want = want, !.then = yes, !.else = no]
While(s, want, body) == [s EXCEPT !.want = want, !.then = body, !.again = TRUE]
For(n, Body(_)) == FlattenSeq([i \in 1 .. n |-> Body(i - 1)])
Times(n, body) == For(n, LAMBDA i : body)
Rep(n, x) == [i \in 1 .. n |-> x]

\* Addresses, paths, modes.
At(v, n) == [at |-> v, plus |-> n]
Mem == At("buf", 0)
Bad == At("KERNBASE", 0)
Addrs == <<Bad, At("top", 0)>>
Path(isabs, names) == [abs |-> isabs, elems |-> names, at |-> Mem, long |-> FALSE]
P(names) == Path(FALSE, names)
N(name) == P(<<name>>)
Abs(names) == Path(TRUE, names)
StrAt(a) == [N("x") EXCEPT !.at = a]
Long == [N("x") EXCEPT !.long = TRUE]
Num(name, i) == N(name \o ToString(i))
RD == {}
WR == {"WRONLY"}
RW == {"RDWR"}
C == {"CREATE"}
CW == {"CREATE", "WRONLY"}
CRW == {"CREATE", "RDWR"}
TW == {"WRONLY", "TRUNC"}
CTW == {"CREATE", "WRONLY", "TRUNC"}

open(path, mode) == Stmt("open", <<path, mode>>)
close(v) == Stmt("close", <<v>>)
dup(v) == Stmt("dup", <<v>>)
fstat(v) == Stmt("fstat", <<v>>)
readat(v, a, n) == Stmt("read", <<v, a, n>>)
read(v, n) == readat(v, Mem, n)
writeat(v, a, chars) == Stmt("write", <<v, a, chars>>)
write(v, chars) == writeat(v, Mem, chars)
link(old, new) == Stmt("link", <<old, new>>)
unlink(path) == Stmt("unlink", <<path>>)
mkdir(path) == Stmt("mkdir", <<path>>)
chdir(path) == Stmt("chdir", <<path>>)
pipeat(a) == Stmt("pipe", <<"r", "w", a>>)
pipe(r, w) == Stmt("pipe", <<r, w, Mem>>)
fork(child) == [Stmt("fork", <<>>) EXCEPT !.child = child]
fork2 == [Stmt("fork", <<>>) EXCEPT !.both = TRUE]
wait == Stmt("wait", <<>>)
kill(v) == Stmt("kill", <<v>>)
getpid == Stmt("getpid", <<>>)
sbrk(n) == Stmt("sbrk", <<"by", n>>)
sbrkto(sz) == Stmt("sbrk", <<"to", sz>>)
sbrkback(v) == Stmt("sbrk", <<"back", v>>)
exec(path, arguments) == Stmt("exec", <<path, arguments>>)
load(a) == Stmt("load", <<a>>)
pause == Stmt("pause", <<>>)
pick(ways) == Stmt("pick", <<ways>>)
count(v) == Stmt("count", <<v>>)
equal(v, n) == Stmt("equal", <<v, n>>)
same(v, w) == Stmt("same", <<v, w>>)
atleast(v, w) == Stmt("atleast", <<v, w>>)
expect(good) == Stmt("expect", <<good>>)
\* An argument of exec: what echo prints, its length.
Word(chars) == [at |-> Mem, size |-> 0, text |-> chars]
Sized(n) == [Word(<<>>) EXCEPT !.size = n]

X == <<"x">>
openclose(path, mode) == <<"fd" := open(path, mode), close("fd")>>
forever == <<While(pause, "any", <<pause>>)>>
\* wait(&xstatus); if(xstatus != 0) exit(xstatus);
waitgood == <<wait, If(equal("xstatus", 0), "ok", <<>>, <<exitvar("xstatus")>>)>>
(***************************************************************************)
(* Addresses and strings that a program does not have.                     *)
(***************************************************************************)
copyin == For(2, LAMBDA i :
  << "fd" := Ok(open(N("copyin1"), CW)), Fail(writeat("fd", Addrs[i + 1], X)),
     close("fd"), unlink(N("copyin1")), None(writeat("stdout", Addrs[i + 1], X)),
     Ok(pipe("r", "w")), None(writeat("w", Addrs[i + 1], X)), close("r"), close("w") >>)
copyout == For(2, LAMBDA i :
  << "fd" := Ok(open(N("README"), RD)), None(readat("fd", Addrs[i + 1], 2)), close("fd"),
     Ok(pipe("r", "w")), Is(write("w", X), 1), None(readat("r", Addrs[i + 1], 2)), close("r"), close("w") >>)
copyinstr1 == For(2, LAMBDA i : <<Fail(open(StrAt(Addrs[i + 1]), CW))>>)
nostring(s) == <<Fail(unlink(s)), Fail(open(s, CW)), Fail(link(s, s)), Fail(exec(s, <<Word(X)>>))>>
copyinstr2 ==
  nostring(Long) \o
  << Ok(fork(<<Fail(exec(N("echo"), Rep(3, Sized(PGSIZE + 1)))), exit(747)>>)), wait, Ok(equal("xstatus", 747)) >>
\* The program's size is a multiple of a page; the string runs into what follows.
copyinstr3 == <<sbrk(2 * PGSIZE), "top" := sbrk(0)>> \o nostring(StrAt(At("top", 0)))
rwsbrk ==
  << "a" := Ok(sbrk(2 * PGSIZE)), Ok(sbrk(-2 * PGSIZE)),
     "fd" := Ok(open(N("rwsbrk"), CW)), Fail(writeat("fd", At("a", PGSIZE), X)), close("fd"), unlink(N("rwsbrk")),
     "fd" := Ok(open(N("README"), RD)), Fail(readat("fd", At("a", PGSIZE), 2)), close("fd"), exit(0) >>
argptest == << "fd" := Ok(open(N("init"), RD)), "top" := sbrk(0), readat("fd", At("top", 0), 99), close("fd") >>
pgbug == <<exec(StrAt(Bad), <<>>), pipeat(Bad), exit(0)>>
validatetest == For(5, LAMBDA i : <<Fail(link(N("nosuchfile"), StrAt(At("buf", i * PGSIZE))))>>)
kernmem == Times(2, <<Ok(fork(<<load(Bad), exit(1)>>)), wait, Ok(equal("xstatus", -1))>>)
stacktest ==
  << Ok(fork(<<load(At("guard", 0)), exit(1)>>)), wait,
     If(equal("xstatus", -1), "ok", <<exit(0)>>, <<exitvar("xstatus")>>) >>
(***************************************************************************)
(* Files: contents, offsets, truncation.                                   *)
(***************************************************************************)
trunc == N("truncfile")
truncate1 ==
  << unlink(trunc), "fd1" := open(trunc, CTW), write("fd1", Rep(4, "a")), close("fd1"),
     "fd2" := open(trunc, RD), Is(read("fd2", 32), 4),
     "fd1" := open(trunc, TW), "fd3" := open(trunc, RD), Is(read("fd3", 32), 0), Is(read("fd2", 32), 0),
     write("fd1", Rep(6, "b")), Is(read("fd3", 32), 6), Is(read("fd2", 32), 2),
     unlink(trunc), close("fd1"), close("fd2"), close("fd3") >>
truncate2 ==
  << unlink(trunc), "fd1" := open(trunc, CTW), write("fd1", Rep(4, "a")), "fd2" := open(trunc, TW),
     Is(write("fd1", X), -1), unlink(trunc), close("fd1"), close("fd2") >>
truncate3 ==
  openclose(trunc, CTW) \o
  << Ok(fork(Times(2, << "fd" := Ok(open(trunc, WR)), Is(write("fd", Rep(2, "1")), 2), close("fd"),
                         "fd" := open(trunc, RD), read("fd", 32), close("fd") >>) \o <<exit(0)>>)) >> \o
  Times(3, << "fd" := Ok(open(trunc, CTW)), Is(write("fd", X), 1), close("fd") >>) \o
  <<wait, unlink(trunc), exitvar("xstatus")>>
opentest == <<"fd" := Ok(open(N("echo"), RD)), close("fd"), Fail(open(N("doesnotexist"), RD))>>
writetest ==
  <<"fd" := Ok(open(N("small"), CRW))>> \o
  Times(2, <<Is(write("fd", <<"a">>), 1), Is(write("fd", <<"b">>), 1)>>) \o
  << close("fd"), "fd" := Ok(open(N("small"), RD)), Is(read("fd", 4), 4), close("fd"), Ok(unlink(N("small"))) >>
\* It does not notice a file that is too short, but for the last block.
MAXFILE == NDIRECT + NINDIRECT
big == For(MAXFILE, LAMBDA i : Rep(BSIZE, i))
writebig ==
  <<"fd" := Ok(open(N("big"), CRW))>> \o
  For(MAXFILE, LAMBDA i : <<Is(write("fd", Rep(BSIZE, i)), BSIZE)>>) \o
  << close("fd"), "fd" := Ok(open(N("big"), RD)), While(Keep(read("fd", BSIZE)), "positive", <<>>),
     Ok(expect({SubSeq(big, 1, n * BSIZE) : n \in (0 .. MAXFILE) \ {MAXFILE - 1}})),
     close("fd"), Ok(unlink(N("big"))) >>
createtest == For(3, LAMBDA i : openclose(Num("a", i), CRW)) \o For(3, LAMBDA i : <<unlink(Num("a", i))>>)
unlinkread ==
  LET f == N("unlinkread") IN
  << "fd" := Ok(open(f, CRW)), write("fd", <<"h", "e">>), close("fd"), "fd" := Ok(open(f, RW)), Is(unlink(f), 0),
     "fd1" := open(f, CRW), write("fd1", <<"y">>), close("fd1"),
     Is(Keep(read("fd", 9)), 2), Ok(expect({<<"h", "e">>})), Is(write("fd", Rep(4, "h")), 4), close("fd"), unlink(f) >>
\* Sizes up to more than the log takes at once.
bigwrite ==
  LET f == N("bigwrite") IN
  <<unlink(f)>> \o For(2, LAMBDA i :
    <<"fd" := Ok(open(f, CRW))>> \o Times(2, <<Is(write("fd", Rep(2 + 3 * i, "x")), 2 + 3 * i)>>) \o
    <<close("fd"), unlink(f)>>)
manywrites ==
  LET child(ci) == <<unlink(Num("b", ci))>> \o
        Times(2, Times(ci + 1, << "fd" := Ok(open(Num("b", ci), CRW)), Is(write("fd", Rep(5, "x")), 5),
                                  close("fd") >>) \o <<unlink(Num("b", ci))>>) \o <<unlink(Num("b", ci)), exit(0)>>
  IN For(2, LAMBDA ci : <<Ok(fork(child(ci)))>>) \o Times(2, waitgood) \o <<exit(0)>>
bigfile ==
  LET f == N("bigfile.dat")
      n == 3
      all == For(n, LAMBDA i : Rep(2, i))
  IN <<unlink(f), "fd" := Ok(open(f, CRW))>> \o For(n, LAMBDA i : <<Is(write("fd", Rep(2, i)), 2)>>) \o
     << close("fd"), "fd" := Ok(open(f, RD)), While(Keep(read("fd", 1)), "positive", <<>>), close("fd"),
        Ok(expect({all})), unlink(f) >>
badwrite ==
  LET junk == N("junk") IN
  Times(NBlocks + 1, <<"fd" := Ok(open(junk, CW)), writeat("fd", Bad, X), close("fd"), unlink(junk)>>) \o
  <<"fd" := Ok(open(junk, CW)), Is(write("fd", X), 1), close("fd"), unlink(junk), exit(0)>>
\* The child and the parent share the offset.
sharedfd ==
  LET f == N("sharedfd")
      mix == {s \in [1 .. 4 -> {"c", "p"}] : Cardinality({i \in 1 .. 4 : s[i] = "c"}) = 2}
  IN << unlink(f), "fd" := Ok(open(f, CRW)), fork(Times(2, <<Is(write("fd", <<"c">>), 1)>>) \o <<exit(0)>>) >> \o
     Times(2, <<Is(write("fd", <<"p">>), 1)>>) \o waitgood \o
     << close("fd"), "fd" := Ok(open(f, RD)), While(Keep(read("fd", 1)), "positive", <<>>), close("fd"), unlink(f),
        Ok(expect(mix)), exit(0) >>
fourfiles ==
  LET f(i) == Num("f", i) IN
  For(2, LAMBDA i :
    << unlink(f(i)), Ok(fork(<<"fd" := Ok(open(f(i), CRW))>> \o Times(2, <<Is(write("fd", <<i>>), 1)>>) \o <<exit(0)>>)) >>) \o
  Times(2, waitgood) \o
  For(2, LAMBDA i : << "fd" := open(f(i), RD), While(Keep(read("fd", 5)), "positive", <<>>),
                       Ok(expect({<<i, i>>})), close("fd"), unlink(f(i)) >>)
(***************************************************************************)
(* Names, links and directories.                                           *)
(***************************************************************************)
Done(s) == Is(s, 0)
Not(s) == Fail(s)
goin(name) == <<Ok(mkdir(N(name))), Ok(chdir(N(name)))>>
root == chdir(Abs(<<>>))
iputtest == goin("iputdir") \o <<Ok(unlink(P(<<"..", "iputdir">>))), Ok(root)>>
exitiputtest ==
  << Ok(fork(goin("iputdir") \o <<Ok(unlink(P(<<"..", "iputdir">>))), exit(0)>>)), wait, exitvar("xstatus") >>
openiputtest ==
  << Ok(mkdir(N("oidir"))), Ok(fork(<<Fail(open(N("oidir"), RW)), exit(0)>>)),
     pause, Done(unlink(N("oidir"))), wait, exitvar("xstatus") >>
dirtest == goin("dir0") \o <<Ok(chdir(N(".."))), Ok(unlink(N("dir0")))>>
\* Descriptor 1 of the child is the file, by the time echo runs.
exectest ==
  LET f == N("echo-ok") IN
  << unlink(f), "pid" := Ok(fork(<<close("stdout"), "fd" := Ok(open(f, CW)), Ok(equal("fd", 1)),
                                   Ok(exec(N("echo"), <<Word(<<"echo">>), Word(<<"O", "K">>)>>))>>)),
     "w" := wait, Ok(same("w", "pid")), If(equal("xstatus", 0), "ok", <<>>, <<exitvar("xstatus")>>),
     "fd" := Ok(open(f, RD)), Is(Keep(read("fd", 2)), 2), unlink(f), Ok(expect({<<"O", "K">>})), exit(0) >>
createdelete ==
  LET n == 4
      nchild == 1
      f(pi, i) == N(<<"p", "q", "r", "s">>[pi + 1] \o ToString(i))
      child(pi) == For(n, LAMBDA i : <<"fd" := Ok(open(f(pi, i), CRW)), close("fd")>> \o
                                     (IF i > 0 /\ i % 2 = 0 THEN <<Ok(unlink(f(pi, i \div 2)))>> ELSE <<>>))
  IN For(nchild, LAMBDA pi : <<Ok(fork(child(pi) \o <<exit(0)>>))>>) \o
     Times(nchild, <<wait, Ok(equal("xstatus", 0))>>) \o
     For(n, LAMBDA i : For(nchild, LAMBDA pi :
       IF i = 0 \/ i >= n \div 2 THEN <<"fd" := Ok(open(f(pi, i), RD)), close("fd")>>
       ELSE <<Not(open(f(pi, i), RD))>>)) \o
     \* the names that it removes are others
     For(n, LAMBDA i : For(nchild, LAMBDA pi : <<unlink(f(i, i))>>))
linktest ==
  LET lf1 == N("lf1")
      lf2 == N("lf2")
      hello == <<"h", "e", "l">>
  IN << unlink(lf1), unlink(lf2), "fd" := Ok(open(lf1, CRW)), Is(write("fd", hello), 3), close("fd"),
        Ok(link(lf1, lf2)), unlink(lf1), Not(open(lf1, RD)),
        "fd" := Ok(open(lf2, RD)), Is(read("fd", 9), 3), close("fd"), Not(link(lf2, lf2)),
        unlink(lf2), Not(link(lf2, lf1)), Not(link(N("."), lf1)) >>
\* The parent and a child create, link and unlink the same file.
concreate ==
  LET n == 6
      file(i) == Num("C", i)
      create(i) == <<"fd" := Ok(open(file(i), CRW)), close("fd")>>
      opens(i) == Times(2, <<"fd" := open(file(i), RD), close("fd")>>)
      unlinks(i) == Times(2, <<unlink(file(i))>>)
      listing == Listing(DOMAIN Image[Root].ents \cup {"C" \o ToString(i) : i \in 0 .. n - 1})
  IN For(n, LAMBDA i :
       << unlink(file(i)),
          fork((IF i % 5 = 1 THEN <<link(file(0), file(i))>> ELSE create(i)) \o <<exit(0)>>) >> \o
       (IF i % 3 = 1 THEN <<link(file(0), file(i))>> ELSE create(i)) \o
       <<wait, Ok(equal("xstatus", 0))>>) \o
     << "fd" := open(N("."), RD), While(Keep(read("fd", 1)), "positive", <<>>), close("fd"), Ok(expect({listing})) >> \o
     For(n, LAMBDA i :
       <<Ok(fork((IF i % 3 = 0 THEN opens(i) ELSE unlinks(i)) \o <<exit(0)>>))>> \o
       (IF i % 3 = 1 THEN opens(i) ELSE unlinks(i)) \o <<wait>>)
linkunlink ==
  LET x == N("x")
      ways == {<<"fd" := open(x, CRW), close("fd")>>, <<link(N("cat"), x)>>, <<unlink(x)>>}
      some == Times(3, <<pick(ways)>>)
  IN <<unlink(x), Ok(fork(some \o <<exit(0)>>))>> \o some \o <<wait>>
bigdir ==
  LET bd == N("bd")
      n == 3
  IN <<unlink(bd), "fd" := Ok(open(bd, C)), close("fd")>> \o
     For(n, LAMBDA i : <<Done(link(bd, Num("x", i)))>>) \o <<unlink(bd)>> \o
     For(n, LAMBDA i : <<Done(unlink(Num("x", i)))>>)
dd == <<"dd">>
dddd == <<"dd", "dd">>
subdir1 ==
  LET Put(path, chars) == <<"fd" := Ok(open(path, CRW)), write("fd", chars), close("fd")>> IN
  <<unlink(N("ff")), Done(mkdir(P(dd)))>> \o Put(P(dd \o <<"ff">>), <<"f", "f">>) \o
  <<Not(unlink(P(dd))), Done(mkdir(Abs(dddd)))>> \o Put(P(dddd \o <<"ff">>), <<"F", "F">>) \o
  << "fd" := Ok(open(P(<<"dd", "dd", "..", "ff">>), RD)), Is(Keep(read("fd", 9)), 2), Ok(expect({<<"f", "f">>})), close("fd"),
     Done(link(P(dddd \o <<"ff">>), P(dddd \o <<"ffff">>))), Done(unlink(P(dddd \o <<"ff">>))),
     Not(open(P(dddd \o <<"ff">>), RD)),
     Done(chdir(P(dd))), Done(chdir(P(<<"dd", "..", "..", "dd">>))), Done(chdir(P(<<"dd", "..", "..", "..", "dd">>))),
     Done(chdir(P(<<".", "..">>))),
     "fd" := Ok(open(P(dddd \o <<"ffff">>), RD)), Is(read("fd", 9), 2), close("fd"), Not(open(P(dddd \o <<"ff">>), RD)) >>
\* A file on the way, a name that is not there, a directory that is not empty.
subdir2 ==
  LET ffff == P(dddd \o <<"ffff">>)
      wrong == <<P(<<"dd", "ff", "ff">>), P(<<"dd", "xx", "ff">>)>>
      Both(Test(_)) == For(2, LAMBDA i : <<Not(Test(wrong[i + 1]))>>)
  IN Both(LAMBDA w : open(w, CRW)) \o <<Not(open(P(dd), C)), Not(open(P(dd), RW)), Not(open(P(dd), WR))>> \o
     Both(LAMBDA w : link(w, P(dddd \o <<"xx">>))) \o <<Not(link(P(<<"dd", "ff">>), ffff))>> \o
     Both(mkdir) \o <<Not(mkdir(ffff))>> \o Both(unlink) \o
     << Not(chdir(P(<<"dd", "ff">>))), Not(chdir(P(<<"dd", "xx">>))),
        Done(unlink(ffff)), Done(unlink(P(<<"dd", "ff">>))), Not(unlink(P(dd))), Ok(unlink(P(dddd))), Ok(unlink(P(dd))) >>
subdir == subdir1 \o subdir2
fourteen ==
  LET a == "12345678901234"
      b == "123456789012345"
  IN << Done(mkdir(N(a))), Done(mkdir(P(<<a, b>>))), "fd" := Ok(open(P(<<b, b, b>>), C)), close("fd"),
        "fd" := Ok(open(P(<<a, a, a>>), RD)), close("fd"), Not(mkdir(P(<<a, a>>))), Not(mkdir(P(<<b, a>>))),
        unlink(P(<<b, a>>)), unlink(P(<<a, a>>)), unlink(P(<<a, a, a>>)), unlink(P(<<b, b, b>>)),
        unlink(P(<<a, b>>)), unlink(N(a)) >>
rmdot ==
  goin("dots") \o
  << Not(unlink(N("."))), Not(unlink(N(".."))), Done(root),
     Not(unlink(P(<<"dots", ".">>))), Not(unlink(P(<<"dots", "..">>))), Done(unlink(N("dots"))) >>
dirfile ==
  LET f == N("dirfile")
      xx == P(<<"dirfile", "xx">>)
  IN << "fd" := Ok(open(f, C)), close("fd"), Not(chdir(f)), Not(open(xx, RD)), Not(open(xx, C)), Not(mkdir(xx)),
        Not(unlink(xx)), Not(link(N("README"), xx)), Done(unlink(f)),
        Not(open(N("."), RW)), "fd" := open(N("."), RD), None(write("fd", X)), close("fd") >>
\* More directories than the inode table has entries, if they all stayed there.
iref ==
  LET n == 3
      f == N("xx")
  IN Times(n, goin("irefd") \o
              << mkdir(P(<<>>)), link(N("README"), P(<<>>)),
                 If("fd" := open(P(<<>>), C), "ok", <<close("fd")>>, <<>>),
                 If("fd" := open(f, C), "ok", <<close("fd")>>, <<>>), unlink(f) >>) \o
     Times(n, <<chdir(N("..")), unlink(N("irefd"))>>) \o <<root>>
(***************************************************************************)
(* Processes and pipes.                                                    *)
(***************************************************************************)
pipe1 ==
  LET seq(n) == For(3, LAMBDA i : <<3 * n + i>>) IN
  << Done(pipe("r", "w")),
     Ok(fork(<<close("r")>> \o For(2, LAMBDA n : <<Is(write("w", seq(n)), 3)>>) \o <<exit(0)>>)), close("w"),
     \* cc doubles
     If(Keep(read("r", 1)), "positive", <<If(Keep(read("r", 2)), "positive",
       <<While(Keep(read("r", 4)), "positive", <<>>)>>, <<>>)>>, <<>>),
     Ok(expect({seq(0) \o seq(1)})), close("r"), wait, exitvar("xstatus") >>
killstatus ==
  Times(2, <<"pid1" := Ok(fork(<<While(getpid, "any", <<getpid>>)>>)), pause, kill("pid1"), wait, Ok(equal("xstatus", -1))>>) \o
  <<exit(0)>>
preempt ==
  << "pid1" := Ok(fork(forever)), "pid2" := Ok(fork(forever)), pipe("r", "w"),
     "pid3" := Ok(fork(<<close("r"), Is(write("w", X), 1), close("w")>> \o forever)), close("w"),
     Is(read("r", 9), 1), close("r"), kill("pid1"), kill("pid2"), kill("pid3"), wait, wait, wait >>
exitwait ==
  For(3, LAMBDA i : <<"pid" := Ok(fork(<<exit(i)>>)), "w" := wait, Ok(same("w", "pid")), Ok(equal("xstatus", i))>>)
reparent ==
  <<"master" := getpid>> \o
  Times(2, << "pid" := Ok(fork(<<If(fork2, "ok", <<>>, <<kill("master"), exit(1)>>), exit(0)>>)),
              "w" := wait, Ok(same("w", "pid")) >>) \o <<exit(0)>>
twochildren == Times(2, <<Ok(fork(<<exit(0)>>)), Ok(fork(<<exit(0)>>)), wait, wait>>)
forkfork ==
  Times(2, <<Ok(fork(Times(2, <<Ok(fork(<<exit(0)>>)), wait>>) \o <<exit(0)>>))>>) \o
  Times(2, <<wait, Ok(equal("xstatus", 0))>>)
\* The programs are so big that there is memory for three of them, the test included.
forkforkfork ==
  LET stop == N("stopforking")
      create == <<"fd" := open(stop, CRW), close("fd")>>
      forks == [While(open(stop, RD), "fails", <<If(fork2, "ok", <<>>, create)>>) EXCEPT !.else = <<exit(0)>>]
  IN <<sbrk(4 * PGSIZE), unlink(stop), Ok(fork(<<forks>>)), pause>> \o create \o <<wait, pause>>
reparent2 == <<Ok(fork(<<fork2, fork2, exit(0)>>)), wait, exit(0)>>
\* n children; then no more, for want of a process or of memory.
forktest ==
  LET waits(n) == IF n = 0 THEN <<exit(1)>> ELSE Times(n, <<Ok(wait)>>) \o <<Is(wait, -1)>>
      forks[i \in 0 .. NPROC] ==
        LET n == NPROC - i IN
        IF i = 0 THEN <<exit(1)>> ELSE <<If(fork(<<exit(0)>>), "ok", forks[i - 1], waits(n))>>
  IN forks[NPROC]
(***************************************************************************)
(* Memory.                                                                 *)
(***************************************************************************)
\* malloc takes memory until there is none; free leaves it to the program.
mem ==
  << If(fork(<<While(sbrk(3 * PGSIZE), "ok", <<>>), exit(0)>>), "ok", <<>>, <<>>), wait,
     If(equal("xstatus", -1), "ok", <<exit(0)>>, <<exitvar("xstatus")>>) >>
TOOMUCH == NPages * PGSIZE
sbrkbasic ==
  << Ok(fork(<<"a" := If(sbrk(TOOMUCH), "ok", <<>>, <<exit(0)>>), load(At("a", TOOMUCH - 1)), exit(1)>>)),
     wait, Fail(equal("xstatus", 1)), "a" := sbrk(0) >> \o
  Times(5, <<"b" := sbrk(1), Ok(same("b", "a")), load(At("b", 0)), count("a")>>) \o
  << "pid" := Ok(fork2), sbrk(1), count("a"), "c" := sbrk(1), Ok(same("c", "a")),
     If(equal("pid", 0), "ok", <<exit(0)>>, <<>>), wait, exitvar("xstatus") >>
BIG == 8 * PGSIZE
sbrkmuch ==
  << "oldbrk" := sbrk(0), "a" := sbrk(0), "p" := sbrkto(BIG), Ok(same("p", "a")) >> \o
  For(BIG \div PGSIZE - PagesOf(ImageSize), LAMBDA i : <<load(At("a", i * PGSIZE))>>) \o
  << load(At("buf", BIG - 1)), Ok(sbrk(-PGSIZE)), "c" := sbrk(0), Ok(equal("c", BIG - PGSIZE)),
     "a" := sbrk(0), "c" := sbrk(PGSIZE), Ok(same("c", "a")), "c" := sbrk(0), Ok(equal("c", BIG)),
     "a" := sbrk(0), "c" := sbrkback("oldbrk"), Ok(same("c", "a")) >>
\* The second child finds too little memory, and is left with what it had.
sbrkfail ==
  LET hog == 11 * PGSIZE
      pids == <<"pid0", "pid1", "pid2">>
      child == <<sbrkto(hog), write("w", X)>> \o forever
  IN <<Done(pipe("r", "w"))>> \o
     For(3, LAMBDA i : <<If(pids[i + 1] := fork(child), "ok", <<read("r", 1)>>, <<>>)>>) \o
     <<"c" := sbrk(PGSIZE)>> \o
     For(3, LAMBDA i : <<If(equal(pids[i + 1], -1), "ok", <<>>, <<kill(pids[i + 1]), wait>>)>>) \o
     << Fail(equal("c", -1)),
        Ok(fork(<<"a" := sbrk(0), sbrk(10 * hog), load(At("a", 10 * hog - PGSIZE)), exit(1)>>)), wait, Ok(equal("xstatus", -1)) >>
sbrkarg ==
  << "a" := sbrk(PGSIZE), "fd" := open(N("sbrk"), CW), unlink(N("sbrk")), Fail(equal("fd", -1)),
     Ok(writeat("fd", At("a", 0), Rep(PGSIZE, "0"))), close("fd"),
     "a" := sbrk(PGSIZE), Done(pipeat(At("a", 0))) >>
bigargtest ==
  LET f == N("bigarg-ok") IN
  << unlink(f), Ok(fork(<<exec(N("echo"), Rep(MAXARG - 1, Sized(2))), "fd" := open(f, C), close("fd"), exit(0)>>)), wait,
     If(equal("xstatus", 0), "ok", <<>>, <<exitvar("xstatus")>>), "fd" := Ok(open(f, RD)), close("fd") >>
\* No memory at all; less than the first page; an end in the middle of one.
sbrkbugs ==
  << Ok(fork(<<sbrkto(0), exit(0)>>)), wait, Ok(fork(<<sbrkto(PGSIZE - 1), exit(0)>>)), wait,
     Ok(fork(<<sbrkto(10 * PGSIZE + 2), sbrk(-1), exit(0)>>)), wait, exit(0) >>
badarg == Times(3, <<exec(N("echo"), <<[Word(<<>>) EXCEPT !.at = Bad]>>)>>) \o <<exit(0)>>
takeall(each) == While("a" := sbrk(PGSIZE), "ok", <<load(At("a", PGSIZE - 1))>> \o each)
execout ==
  For(7, LAMBDA avail :
    << Ok(fork(<<takeall(<<>>)>> \o Times(avail, <<sbrk(-PGSIZE)>>) \o
               <<close("stdout"), exec(N("echo"), <<Word(<<"echo">>), Word(X)>>), exit(0)>>)), wait >>) \o
  <<exit(0)>>
(***************************************************************************)
(* The runner.                                                             *)
(***************************************************************************)
countfree(v) ==
  << Ok(pipe("r", "w")), Ok(fork(<<close("r"), takeall(<<Is(write("w", X), 1)>>), exit(0)>>)), close("w"),
     v := pause, While(read("r", 1), "positive", <<count(v)>>), close("r"), wait >>
run(f) == <<Ok(fork(f \o <<exit(0)>>)), wait, Ok(equal("xstatus", 0))>>
tests == [
  copyin |-> copyin, copyout |-> copyout, copyinstr1 |-> copyinstr1, copyinstr2 |-> copyinstr2,
  copyinstr3 |-> copyinstr3, rwsbrk |-> rwsbrk, truncate1 |-> truncate1, truncate2 |-> truncate2,
  truncate3 |-> truncate3, reparent2 |-> reparent2, pgbug |-> pgbug, sbrkbugs |-> sbrkbugs, badwrite |-> badwrite,
  badarg |-> badarg, reparent |-> reparent, twochildren |-> twochildren, forkfork |-> forkfork,
  forkforkfork |-> forkforkfork, argptest |-> argptest, createdelete |-> createdelete, linkunlink |-> linkunlink,
  linktest |-> linktest, unlinkread |-> unlinkread, concreate |-> concreate, subdir |-> subdir,
  fourfiles |-> fourfiles, sharedfd |-> sharedfd, dirtest |-> dirtest, exectest |-> exectest,
  bigargtest |-> bigargtest, bigwrite |-> bigwrite, sbrkbasic |-> sbrkbasic, sbrkmuch |-> sbrkmuch,
  kernmem |-> kernmem, sbrkfail |-> sbrkfail, sbrkarg |-> sbrkarg, validatetest |-> validatetest,
  stacktest |-> stacktest, opentest |-> opentest, writetest |-> writetest, writebig |-> writebig,
  createtest |-> createtest, openiput |-> openiputtest, exitiput |-> exitiputtest, iput |-> iputtest, mem |-> mem,
  pipe1 |-> pipe1, killstatus |-> killstatus, preempt |-> preempt, exitwait |-> exitwait, rmdot |-> rmdot,
  fourteen |-> fourteen, bigfile |-> bigfile, dirfile |-> dirfile, iref |-> iref, forktest |-> forktest,
  bigdir |-> bigdir, manywrites |-> manywrites, execout |-> execout ]
\* It runs one of the tests.
main ==
  countfree("free0") \o <<pick({run(tests[t]) : t \in DOMAIN tests}), Stmt("settle", <<>>)>> \o countfree("free1") \o
  <<Ok(atleast("free1", "free0")), exit(0)>>
(***************************************************************************)
(* grind.c: two processes that each make a few of many moves, in a         *)
(* directory they share.  The paths go astray through grindir and back.    *)
(***************************************************************************)
up(names) == P(<<"..">> \o names)
via(names) == P(<<"grindir", "..">> \o names)
forkwait(child) == <<Ok(fork(child \o <<exit(0)>>)), wait>>
filemoves == <<
  <<"t" := open(via(<<"a">>), CRW), close("t")>>,
  <<"t" := open(via(<<"grindir", "..", "b">>), CRW), close("t")>>,
  <<unlink(via(<<"a">>))>>,
  <<Done(chdir(N("grindir"))), unlink(up(<<"b">>)), root>>,
  <<close("fd"), "fd" := open(Abs(<<"grindir", "..", "a">>), CRW)>>,
  <<close("fd"), "fd" := open(Abs(<<".", "grindir", ".", "..", "b">>), CRW)>>,
  <<write("fd", Rep(4, "x"))>>,
  <<read("fd", 4)>>,
  <<mkdir(via(<<"a">>)), "t" := open(P(<<"a", "..", "a", ".", "a">>), CRW), close("t"), unlink(P(<<"a", "a">>))>>,
  <<mkdir(Abs(<<"..", "b">>)), "t" := open(via(<<"b", "b">>), CRW), close("t"), unlink(P(<<"b", "b">>))>>,
  <<unlink(N("b")), link(up(<<"grindir", ".", "..", "a">>), up(<<"b">>))>>,
  <<unlink(up(<<"grindir", "..", "a">>)), link(up(<<".", "b">>), Abs(<<"grindir", "..", "a">>))>> >>
othermoves == <<
  forkwait(<<>>),
  forkwait(<<fork2>>),
  <<sbrk(6)>>,
  <<"n" := sbrk(0), If(atleast("n", "break0"), "ok", <<sbrkback("break0")>>, <<>>)>>,
  << "pid" := Ok(fork(<<"t" := open(N("a"), CRW), close("t"), exit(0)>>)),
     Done(chdir(up(<<"grindir", "..">>))), kill("pid"), wait >>,
  forkwait(<<"me" := getpid, kill("me")>>),
  << Ok(pipe("r", "w")), Ok(fork(<<fork2, Is(write("w", X), 1), Is(read("r", 1), 1), exit(0)>>)),
     close("r"), close("w"), wait >>,
  forkwait(<< unlink(N("a")), mkdir(N("a")), chdir(N("a")), unlink(up(<<"a">>)),
              "fd" := open(N("x"), CRW), unlink(N("x")) >>),
  << unlink(N("c")), "fd1" := Ok(open(N("c"), CRW)), Is(write("fd1", X), 1), Is(fstat("fd1"), 1),
     close("fd1"), unlink(N("c")) >> >>
\* echo hi | cat.  Of the test behind it (grind.c:287) only what was read is
\* here: the exit statuses need not be 0, for cat fails with 1 when it has
\* the newline still to write as grind closes the pipe (lines 281-283).
pipeline ==
  << Ok(pipe("a0", "a1")), Ok(pipe("b0", "b1")),
     Ok(fork(<<close("b0"), close("b1"), close("a0"), close("stdout"), Is(dup("a1"), 1), close("a1"),
               exec(via(<<"echo">>), <<Word(<<"echo">>), Word(<<"h", "i">>)>>), exit(2)>>)),
     Ok(fork(<<close("a1"), close("b0"), close("stdin"), Is(dup("a0"), 0), close("a0"), close("stdout"),
               Is(dup("b1"), 1), close("b1"), exec(Abs(<<"cat">>), <<Word(<<"cat">>)>>), exit(6)>>)),
     close("a0"), close("a1"), close("b1"), Keep(read("b0", 1)), Keep(read("b0", 1)), close("b0"),
     wait, wait, Ok(expect({<<"h", "i">>})) >>
moves == {filemoves[i] : i \in DOMAIN filemoves} \cup {othermoves[i] : i \in DOMAIN othermoves} \cup
         {pipeline}
go(n, some) ==
  <<"break0" := sbrk(0), mkdir(N("grindir")), Done(chdir(N("grindir"))), root>> \o Times(n, <<pick(some)>>)
\* Moves that meet in the same names.
Some(file, other) == {filemoves[i] : i \in file} \cup {othermoves[i] : i \in other}
iter(children) ==
  <<unlink(N("a")), unlink(N("b"))>> \o For(Len(children), LAMBDA i : <<Ok(fork(children[i + 1] \o <<exit(0)>>))>>) \o
  Times(Len(children), <<wait, Ok(equal("xstatus", 0))>>)
grind == [alone |-> iter(<<go(1, moves)>>),
          together |-> iter(<<go(1, Some({4, 5, 9, 11, 12}, {5, 8})), go(1, Some({9}, {8}))>>)]
(***************************************************************************)
(* Calls that fail in the middle and that no test of xv6 makes: without a  *)
(* descriptor, a file or a page for what is left to be done.               *)
(***************************************************************************)
nofiles ==
  LET f == N("x")
      opens(n) == Times(n, <<Ok(open(f, CRW))>>)
      filesleft == NFILE - 1 - (NOFILE - 3)
  IN opens(NOFILE - 4) \o <<Fail(pipe("r", "w")), Ok(open(f, RD)), Fail(pipe("r", "w")), Fail(open(f, RD)), Fail(dup("stdin"))>> \o
     << Ok(fork(Times(3, <<count("fd")>>) \o Times(NOFILE - 3, <<count("fd"), close("fd")>>) \o opens(filesleft - 1) \o
                << Fail(pipe("r", "w")), Ok(open(f, RD)), Fail(pipe("r", "w")), Fail(open(f, RD)), exit(0) >>)),
        wait, Ok(equal("xstatus", 0)), unlink(f) >>
nopages ==
  << Ok(fork(<<takeall(<<>>), Fail(pipe("r", "w"))>> \o
             Times(6, <<Fail(fork(<<>>)), Fail(exec(N("cat"), <<Word(X), Word(X)>>)), sbrk(-PGSIZE)>>) \o
             <<Fail(sbrk(8 * PGSIZE)), exit(0)>>)), wait, Ok(equal("xstatus", 0)) >>
undone ==
  << Fail(link(N("README"), N("echo"))), Fail(link(N("README"), P(<<"nodir", "x">>))), Fail(link(N("."), N("x"))),
     Fail(exec(N("README"), <<Word(X)>>)), Fail(exec(N("nofile"), <<Word(X)>>)), Fail(exec(N("echo"), Rep(MAXARG, Word(X)))),
     Fail(exec(N("echo"), <<Sized(3), Sized(3)>>)), Fail(chdir(N("README"))), Fail(unlink(N("nofile"))) >>
scripts == {main} \cup {run(t) \o <<exit(0)>> : t \in {grind[g] : g \in DOMAIN grind} \cup {nofiles, nopages, undone}}
=============================================================================
