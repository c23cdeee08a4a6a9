-------------------------------- MODULE Shell --------------------------------
(***************************************************************************)
(* xv6's shell, user/sh.c, with user/init.c that starts it again and the   *)
(* programs echo, cat and wc that it runs: parsing, descriptors, fork,     *)
(* wait, pipes and redirection.                                            *)
(*                                                                         *)
(* A step is a system call, or calls of one process that touch nothing but *)
(* its own descriptors.  Words stand for names and for what a program      *)
(* prints, and a read takes all there is.  The kernel is as other modules  *)
(* have it (Proc, Pipe): the lowest free slot, descriptor or table entry   *)
(* is taken; a pipe is a queue with two ends.  Messages are left out.      *)
(***************************************************************************)
EXTENDS SequencesExt

CONSTANTS
  Slots,      \* process table: 1 is init
  NOFILE,     \* bound: descriptors of a process
  NFILE,      \* bound: open files
  Pipes,      \* bound: pipes at once
  PipeCap,    \* words a pipe holds
  FileNames,  \* names of files
  Trees,      \* Trees[k]: commands the user may mean to type as line k
  Typos,      \* lines that are no command
  MaxLines,   \* bound: lines typed
  Others      \* <<n, k>>: other programs may hold n slots and k open files

VARIABLES
  proc,       \* the process table
  ftable,     \* open files, shared by descriptors
  pipes,      \* bytes in each pipe
  files,      \* contents of the files and of the screen, "console"
  meant,      \* history: what the lines typed should have made of files
  typed,      \* lines typed
  full        \* history: a call has failed for want of room

shVars == <<proc, ftable, pipes, files, meant, typed, full>>

Lowest(S) == CHOOSE x \in S : \A y \in S : x <= y
Absent == <<"absent">>      \* contents of a file that does not exist
-----------------------------------------------------------------------------
(* Commands: parsecmd() over tokens                                        *)

Exec(argv) == [t |-> "EXEC", argv |-> argv]
Redir(c, mode, file) == [t |-> "REDIR", cmd |-> c, mode |-> mode, file |-> file]
Both(t, l, r) == [t |-> t, left |-> l, right |-> r]
Back(c) == [t |-> "BACK", cmd |-> c]

Symbols == {"<", ">", ">>", "|", "&", ";", "(", ")"}
peek(s, toks) == s # <<>> /\ Head(s) \in toks
Parsed(c, s) == [cmd |-> c, s |-> s]
\* panic(): a token that nothing takes is left over.
SyntaxError == Parsed(Exec(<<>>), <<"!">>)
IsWord(s) == s # <<>> /\ Head(s) \notin Symbols \cup {"!"}

RECURSIVE parseredirs(_, _), Words(_, _, _), parseexec(_), parsepipe(_), Backs(_, _), parseline(_)

parseredirs(c, s) ==
  IF ~peek(s, {"<", ">", ">>"}) THEN Parsed(c, s)
  ELSE IF ~IsWord(Tail(s)) THEN SyntaxError
  ELSE parseredirs(Redir(c, Head(s), s[2]), Tail(Tail(s)))

\* Fill in the argv of the innermost command of c.
RECURSIVE Argv(_, _)
Argv(c, argv) == IF c.t = "REDIR" THEN [c EXCEPT !.cmd = Argv(@, argv)] ELSE Exec(argv)

\* The loop of parseexec: c is the command with its redirections so far.
Words(c, argv, s) ==
  IF s = <<>> \/ peek(s, {"|", ")", "&", ";"}) THEN Parsed(Argv(c, argv), s)
  ELSE IF ~IsWord(s) \/ Len(argv) = 9 THEN SyntaxError      \* MAXARGS - 1
  ELSE LET r == parseredirs(c, Tail(s)) IN Words(r.cmd, Append(argv, Head(s)), r.s)

parseblock(s) ==
  LET line == parseline(Tail(s)) IN
  IF peek(line.s, {")"}) THEN parseredirs(line.cmd, Tail(line.s)) ELSE SyntaxError

parseexec(s) ==
  IF peek(s, {"("}) THEN parseblock(s)
  ELSE LET r == parseredirs(Exec(<<>>), s) IN Words(r.cmd, <<>>, r.s)

parsepipe(s) ==
  LET l == parseexec(s) IN
  IF ~peek(l.s, {"|"}) THEN l
  ELSE LET r == parsepipe(Tail(l.s)) IN Parsed(Both("PIPE", l.cmd, r.cmd), r.s)

Backs(c, s) == IF peek(s, {"&"}) THEN Backs(Back(c), Tail(s)) ELSE Parsed(c, s)

parseline(s) ==
  LET p == parsepipe(s)
      l == Backs(p.cmd, p.s) IN
  IF ~peek(l.s, {";"}) THEN l
  ELSE LET r == parseline(Tail(l.s)) IN Parsed(Both("LIST", l.cmd, r.cmd), r.s)

NoCommand == [t |-> "none"]
parsecmd(s) == LET l == parseline(s) IN IF l.s = <<>> THEN l.cmd ELSE NoCommand

\* How a user writes a command down.
RECURSIVE Written(_)
Bracketed(c) == <<"(">> \o Written(c) \o <<")">>
Written(c) ==
  CASE c.t = "EXEC" -> c.argv
    [] c.t = "REDIR" -> (IF c.cmd.t \in {"EXEC", "REDIR"} THEN Written(c.cmd) ELSE Bracketed(c.cmd))
                          \o <<c.mode, c.file>>
    [] c.t = "PIPE" -> (IF c.left.t \in {"EXEC", "REDIR"} THEN Written(c.left) ELSE Bracketed(c.left))
                         \o <<"|">>
                         \o (IF c.right.t \in {"LIST", "BACK"} THEN Bracketed(c.right) ELSE Written(c.right))
    [] c.t = "LIST" -> (IF c.left.t = "LIST" THEN Bracketed(c.left) ELSE Written(c.left))
                         \o <<";">> \o Written(c.right)
    [] c.t = "BACK" -> (IF c.cmd.t = "LIST" THEN Bracketed(c.cmd) ELSE Written(c.cmd)) \o <<"&">>
-----------------------------------------------------------------------------
(* What a command means, run to its end with words `in` for it to read:    *)
(* the words it prints, those it leaves unread, and the files.             *)

\* Words written at offset k over what a file has.
Over(old, k, words) == [j \in 1 .. (IF Len(old) > k + Len(words) THEN Len(old) ELSE k + Len(words)) |->
                          IF j > k /\ j <= k + Len(words) THEN words[j - k] ELSE old[j]]
Contents(fs, f) == IF fs[f] = Absent THEN <<>> ELSE fs[f]
Outcome(out, left, fs) == [out |-> out, left |-> left, files |-> fs]

\* cat stops at the first file that it cannot open.
RECURSIVE Concatenated(_, _)
Concatenated(names, fs) ==
  IF names = <<>> \/ fs[Head(names)] = Absent THEN <<>>
  ELSE fs[Head(names)] \o Concatenated(Tail(names), fs)

RECURSIVE Meaning(_, _, _)
Meaning(c, in, fs) ==
  CASE c.t = "EXEC" ->
         (CASE c.argv = <<>> \/ Head(c.argv) \notin {"echo", "cat", "wc"} -> Outcome(<<>>, in, fs)
            [] c.argv # <<>> /\ Head(c.argv) = "echo" -> Outcome(Tail(c.argv), in, fs)
            [] c.argv # <<>> /\ Head(c.argv) = "wc" -> Outcome(<<ToString(Len(in))>>, <<>>, fs)
            [] c.argv # <<>> /\ Head(c.argv) = "cat" ->
                 IF Len(c.argv) = 1 THEN Outcome(in, <<>>, fs)
                 ELSE Outcome(Concatenated(Tail(c.argv), fs), in, fs))
    [] c.t = "REDIR" /\ c.mode = "<" ->
         IF fs[c.file] = Absent THEN Outcome(<<>>, in, fs)
         ELSE LET r == Meaning(c.cmd, fs[c.file], fs) IN Outcome(r.out, in, r.files)
    [] c.t = "REDIR" /\ c.mode # "<" ->
         LET start == IF c.mode = ">" THEN <<>> ELSE Contents(fs, c.file)
             r == Meaning(c.cmd, in, [fs EXCEPT ![c.file] = start])
         IN Outcome(<<>>, r.left, [r.files EXCEPT ![c.file] = Over(@, 0, r.out)])
    [] c.t = "LIST" -> LET l == Meaning(c.left, in, fs)
                           r == Meaning(c.right, l.left, l.files)
                       IN Outcome(l.out \o r.out, r.left, r.files)
    [] c.t = "PIPE" -> LET l == Meaning(c.left, in, fs)
                           r == Meaning(c.right, l.out, l.files)
                       IN Outcome(r.out, l.left, r.files)
    [] c.t = "BACK" -> Meaning(c.cmd, in, fs)

\* A line typed at the prompt reads from and prints on the console, where the
\* user answers a read with ^D.
Done(c, fs) == LET r == Meaning(c, <<>>, fs) IN [r.files EXCEPT !["console"] = @ \o r.out]
-----------------------------------------------------------------------------
(* Descriptors and processes                                               *)

NoFile == [kind |-> "free"]
InUse(f) ==
  \/ ftable[f].kind = "other"
  \/ \E s \in Slots : \E d \in DOMAIN proc[s].ofile : proc[s].ofile[d] = f
FreeEntries == {f \in 1..NFILE : ~InUse(f)}
End(kind, k) == \E f \in 1..NFILE : ftable[f] = [kind |-> kind, pipe |-> k] /\ InUse(f)
FreePipes == {k \in Pipes : ~End("r", k) /\ ~End("w", k)}
\* Room for n more open files of a process with descriptors o.
Room(o, n) ==
  /\ Cardinality(FreeEntries) >= n
  /\ Cardinality({d \in DOMAIN o : o[d] = 0}) >= n

fdalloc(o, f) == [o EXCEPT ![Lowest({d \in DOMAIN o : o[d] = 0})] = f]
closed(o, d) == [o EXCEPT ![d] = 0]
dup(o, d) == fdalloc(o, o[d])

NoFds == <<>>
Idle(state) == [state |-> state, parent |-> 0, ofile |-> NoFds, at |-> "-", cmd |-> NoCommand, fds |-> <<>>, todo |-> <<>>]
FreeSlots == {s \in Slots : proc[s].state = "UNUSED"}
At(s, l) == proc[s].state = "RUNNABLE" /\ proc[s].at = l
Step(s, r) == proc' = [proc EXCEPT ![s] = r]
Goes(s, l) == [proc[s] EXCEPT !.at = l]

\* fork(): the child goes on at `at` with command c, the parent as r.  When
\* the table is full fork1() panics, and so the caller exits.
Fork(s, at, c, r) ==
  /\ FreeSlots # {}
  /\ proc' = [proc EXCEPT ![Lowest(FreeSlots)] =
                            [proc[s] EXCEPT !.parent = s, !.at = at, !.cmd = c, !.fds = proc[s].fds],
                          ![s] = r]
  /\ full' = full
ForkFails(s) ==
  /\ FreeSlots = {}
  /\ Step(s, Goes(s, "exit"))
  /\ full' = TRUE

\* exit(): descriptors closed, children given to init, whose own exit panics.
Exit(s) ==
  /\ At(s, "exit") /\ s # 1
  /\ proc' = [x \in Slots |->
                IF x = s THEN [Idle("ZOMBIE") EXCEPT !.parent = proc[s].parent]
                ELSE IF proc[x].parent = s THEN [proc[x] EXCEPT !.parent = 1] ELSE proc[x]]
  /\ UNCHANGED <<ftable, pipes, files, meant, typed, full>>

\* wait(0): a zombie child is freed and s goes on as r; -1 without children.
Children(s) == {c \in Slots : proc[c].parent = s /\ proc[c].state # "UNUSED"}
Wait(s, r) ==
  \/ \E c \in Children(s) : /\ proc[c].state = "ZOMBIE"
                            /\ proc' = [proc EXCEPT ![c] = Idle("UNUSED"), ![s] = r]
  \/ Children(s) = {} /\ Step(s, r)
-----------------------------------------------------------------------------
(* init and the shell's main loop                                          *)

\* main() of init.c: start sh, which is what the last sh left behind.
StartShell ==
  /\ At(1, "start")
  /\ \/ Fork(1, "prompt", NoCommand, [Goes(1, "wait") EXCEPT !.fds = <<Lowest(FreeSlots)>>])
     \/ ForkFails(1)
  /\ UNCHANGED <<ftable, pipes, files, meant, typed>>
\* Every orphan is waited for; when it is sh, another one is started.
InitWaits ==
  /\ At(1, "wait")
  /\ \E c \in Children(1) :
       /\ proc[c].state = "ZOMBIE"
       /\ proc' = [proc EXCEPT ![c] = Idle("UNUSED"),
                               ![1] = IF <<c>> = proc[1].fds THEN Goes(1, "start") ELSE @]
  /\ UNCHANGED <<ftable, pipes, files, meant, typed, full>>

IsShell(s) == proc[1].fds = <<s>>

\* A line is typed: a child parses its copy of it, and runs the command.
TypeLine(s, tokens, after) ==
  /\ At(s, "prompt") /\ IsShell(s) /\ typed < MaxLines
  /\ typed' = typed + 1
  /\ \/ \E c \in {parsecmd(tokens)} :
          Fork(s, IF c = NoCommand THEN "exit" ELSE "runcmd", c, Goes(s, "main.wait")) /\ meant' = after
     \/ ForkFails(s) /\ meant' = meant
  /\ UNCHANGED <<ftable, pipes, files>>
\* ^D at the prompt: sh exits.
TypeEof(s) ==
  /\ At(s, "prompt") /\ IsShell(s) /\ typed < MaxLines
  /\ typed' = typed + 1
  /\ Step(s, Goes(s, "exit"))
  /\ UNCHANGED <<ftable, pipes, files, meant, full>>
MainWaits(s) ==
  /\ At(s, "main.wait") /\ Wait(s, Goes(s, "prompt"))
  /\ UNCHANGED <<ftable, pipes, files, meant, typed, full>>
-----------------------------------------------------------------------------
(* runcmd()                                                                *)

Runs(s, t) == At(s, "runcmd") /\ proc[s].cmd.t = t

\* What echo and wc print.
Echoed(argv) == Tail(argv)
Counted(words) == <<ToString(Len(words))>>

\* exec(), which fails for a name that is no program.
RunExec(s) ==
  /\ Runs(s, "EXEC")
  /\ LET argv == proc[s].cmd.argv IN
     Step(s, CASE argv = <<>> -> Goes(s, "exit")
               [] argv # <<>> /\ argv[1] = "echo" -> [Goes(s, "write") EXCEPT !.todo = Echoed(argv)]
               [] argv # <<>> /\ argv[1] = "wc" -> [Goes(s, "read") EXCEPT !.fds = <<0>>]
               [] argv # <<>> /\ argv[1] = "cat" ->
                    IF Len(argv) = 1 THEN [Goes(s, "read") EXCEPT !.fds = <<0>>]
                    ELSE Goes(s, "open")
               [] OTHER -> Goes(s, "exit"))
  /\ UNCHANGED <<ftable, pipes, files, meant, typed, full>>

Opened(f, name) == ftable' = [ftable EXCEPT ![f] = [kind |-> "file", name |-> name, off |-> 0]]

\* Mutant of Contained: a > starts from what the file already has.
NeverTruncated(name, mode) == IF mode = "<" THEN files[name] ELSE Contents(files, name)
\* What open() with the flags of parseredirs() makes of a file.
Contained(name, mode) ==
  CASE mode = ">" -> <<>> [] mode = ">>" -> Contents(files, name) [] mode = "<" -> files[name]

\* close(fd), then open(), which takes the lowest free descriptor.  Without
\* room it fails, but a file that O_CREATE has made is there.
RunRedir(s) ==
  /\ Runs(s, "REDIR")
  /\ LET c == proc[s].cmd
         o == closed(proc[s].ofile, IF c.mode = "<" THEN 0 ELSE 1)
         missing == c.mode = "<" /\ files[c.file] = Absent IN
     IF missing \/ ~Room(o, 1)
     THEN /\ Step(s, [Goes(s, "exit") EXCEPT !.ofile = o])
          /\ files' = IF c.mode = "<" THEN files ELSE [files EXCEPT ![c.file] = Contents(files, c.file)]
          /\ full' = (full \/ ~missing)
          /\ ftable' = ftable
     ELSE \E f \in {Lowest(FreeEntries)} :
          /\ Step(s, [proc[s] EXCEPT !.ofile = fdalloc(o, f), !.cmd = c.cmd])
          /\ Opened(f, c.file)
          /\ files' = [files EXCEPT ![c.file] = Contained(c.file, c.mode)]
          /\ full' = full
  /\ UNCHANGED <<pipes, meant, typed>>

RunList(s) ==
  /\ Runs(s, "LIST")
  /\ Fork(s, "runcmd", proc[s].cmd.left, Goes(s, "list")) \/ ForkFails(s)
  /\ UNCHANGED <<ftable, pipes, files, meant, typed>>
ListWaits(s) ==
  /\ At(s, "list")
  /\ Wait(s, [Goes(s, "runcmd") EXCEPT !.cmd = proc[s].cmd.right])
  /\ UNCHANGED <<ftable, pipes, files, meant, typed, full>>

PipeFits(s) == Room(proc[s].ofile, 2) /\ FreePipes # {}
RunPipe(s) ==
  /\ Runs(s, "PIPE") /\ PipeFits(s)
  /\ LET k == Lowest(FreePipes)
         r == Lowest(FreeEntries)
         w == Lowest(FreeEntries \ {r})
         o == fdalloc(proc[s].ofile, r)
         p0 == CHOOSE d \in DOMAIN o : o[d] = r
         o2 == fdalloc(o, w)
         p1 == CHOOSE d \in DOMAIN o2 : o2[d] = w
     IN /\ Step(s, [Goes(s, "fork left") EXCEPT !.ofile = o2, !.fds = <<p0, p1>>])
        /\ ftable' = [ftable EXCEPT ![r] = [kind |-> "r", pipe |-> k], ![w] = [kind |-> "w", pipe |-> k]]
        /\ pipes' = [pipes EXCEPT ![k] = <<>>]
  /\ UNCHANGED <<files, meant, typed, full>>
\* panic("pipe")
PipeFails(s) ==
  /\ Runs(s, "PIPE") /\ ~PipeFits(s)
  /\ Step(s, Goes(s, "exit"))
  /\ full' = TRUE
  /\ UNCHANGED <<ftable, pipes, files, meant, typed>>
PipeForks(s) ==
  /\ \/ At(s, "fork left") /\ Fork(s, "left", proc[s].cmd.left, Goes(s, "fork right"))
     \/ At(s, "fork right") /\ Fork(s, "right", proc[s].cmd.right, Goes(s, "close"))
     \/ (At(s, "fork left") \/ At(s, "fork right")) /\ ForkFails(s)
  /\ UNCHANGED <<ftable, pipes, files, meant, typed>>
\* Mutant of WithoutPipe: p[1] is left open.
KeepsWriteEnd(o, fds) == closed(o, fds[1])
WithoutPipe(o, fds) == closed(closed(o, fds[1]), fds[2])
\* close(fd); dup(p[end]); close(p[0]); close(p[1]) of the two children.
Attached(s, fd, end) ==
  LET fds == proc[s].fds
      o == dup(closed(proc[s].ofile, fd), fds[end])
  IN [Goes(s, "runcmd") EXCEPT !.ofile = WithoutPipe(o, fds), !.fds = <<>>]
PipeChild(s) ==
  /\ \/ At(s, "left") /\ Step(s, Attached(s, 1, 2))
     \/ At(s, "right") /\ Step(s, Attached(s, 0, 1))
  /\ UNCHANGED <<ftable, pipes, files, meant, typed, full>>
PipeCloses(s) ==
  /\ At(s, "close")
  /\ Step(s, [Goes(s, "wait 1") EXCEPT !.ofile = WithoutPipe(@, proc[s].fds), !.fds = <<>>])
  /\ UNCHANGED <<ftable, pipes, files, meant, typed, full>>
PipeWaits(s) ==
  /\ \/ At(s, "wait 1") /\ Wait(s, Goes(s, "wait 2"))
     \/ At(s, "wait 2") /\ Wait(s, Goes(s, "exit"))
  /\ UNCHANGED <<ftable, pipes, files, meant, typed, full>>

RunBack(s) ==
  /\ Runs(s, "BACK")
  /\ Fork(s, "runcmd", proc[s].cmd.cmd, Goes(s, "exit")) \/ ForkFails(s)
  /\ UNCHANGED <<ftable, pipes, files, meant, typed>>
-----------------------------------------------------------------------------
(* The programs: proc[s].fds is the descriptor read, todo words to print   *)

Program(s) == proc[s].cmd.argv[1]
Read(s) ==
  /\ At(s, "read")
  /\ LET f == proc[s].ofile[proc[s].fds[1]]
         e == ftable[f]
         got == CASE e.kind = "console" -> <<>>
                  [] e.kind = "file" -> SubSeq(files[e.name], e.off + 1, Len(files[e.name]))
                  [] e.kind = "r" -> pipes[e.pipe]
         all == proc[s].todo \o got
     IN /\ e.kind = "r" => got # <<>> \/ ~End("w", e.pipe)
        /\ Step(s, IF got # <<>>
                   THEN [Goes(s, IF Program(s) = "cat" THEN "write" ELSE "read") EXCEPT !.todo = all]
                   ELSE IF Program(s) = "wc" THEN [Goes(s, "write") EXCEPT !.todo = Counted(all)]
                   ELSE IF Len(proc[s].cmd.argv) = 1 THEN Goes(s, "exit")
                   ELSE [Goes(s, "open") EXCEPT !.ofile = closed(@, proc[s].fds[1])])
        /\ ftable' = IF e.kind = "file" THEN [ftable EXCEPT ![f].off = @ + Len(got)] ELSE ftable
        /\ pipes' = IF e.kind = "r" THEN [pipes EXCEPT ![e.pipe] = <<>>] ELSE pipes
  /\ UNCHANGED <<files, meant, typed, full>>

\* cat's loop over its arguments.
Open(s) ==
  /\ At(s, "open")
  /\ LET names == Tail(proc[s].cmd.argv)
         opens == names # <<>> /\ files[Head(names)] # Absent
         room == Room(proc[s].ofile, 1) IN
     /\ full' = (full \/ (opens /\ ~room))
     /\ IF opens /\ room
        THEN LET f == Lowest(FreeEntries)
                 o == fdalloc(proc[s].ofile, f) IN
             /\ Step(s, [Goes(s, "read") EXCEPT !.ofile = o, !.cmd.argv = <<"cat">> \o Tail(names),
                                                !.fds = <<CHOOSE d \in DOMAIN o : o[d] = f>>])
             /\ Opened(f, Head(names))
        ELSE Step(s, Goes(s, "exit")) /\ ftable' = ftable
  /\ UNCHANGED <<pipes, files, meant, typed>>

\* A word is written, unless nobody can read it or the file has been cut off
\* before it; echo and wc do not look at what write() returns.
Write(s) ==
  /\ At(s, "write")
  /\ LET todo == proc[s].todo
         f == proc[s].ofile[1]
         e == ftable[f]
         gone == \/ e.kind = "w" /\ ~End("r", e.pipe)
                 \/ e.kind = "file" /\ e.off > Len(files[e.name])
     IN IF todo = <<>>
        THEN /\ Step(s, Goes(s, IF Program(s) = "cat" THEN "read" ELSE "exit"))
             /\ UNCHANGED <<ftable, pipes, files>>
        ELSE /\ e.kind = "w" => gone \/ Len(pipes[e.pipe]) < PipeCap
             /\ Step(s, IF gone /\ Program(s) = "cat" THEN Goes(s, "exit")
                        ELSE [proc[s] EXCEPT !.todo = Tail(@)])
             /\ pipes' = IF e.kind = "w" /\ ~gone THEN [pipes EXCEPT ![e.pipe] = Append(@, Head(todo))]
                         ELSE pipes
             /\ files' = CASE e.kind = "console" -> [files EXCEPT !["console"] = Append(@, Head(todo))]
                           [] e.kind = "file" /\ ~gone -> [files EXCEPT ![e.name] = Over(@, e.off, <<Head(todo)>>)]
                           [] OTHER -> files
             /\ ftable' = IF e.kind = "file" /\ ~gone THEN [ftable EXCEPT ![f].off = @ + 1] ELSE ftable
  /\ UNCHANGED <<meant, typed, full>>
-----------------------------------------------------------------------------
Terminal == [d \in 0..(NOFILE - 1) |-> IF d < 3 THEN 1 ELSE 0]

\* init and sh run, with the console as their descriptors 0, 1 and 2.
ShInit ==
  /\ \E others \in Others :
       /\ proc = [s \in Slots |->
            CASE s = 1 -> [Idle("RUNNABLE") EXCEPT !.ofile = Terminal, !.at = "start"]
              [] s \in 2..(1 + others[1]) -> Idle("OTHER")
              [] OTHER -> Idle("UNUSED")]
       /\ ftable = [f \in 1..NFILE |->
            CASE f = 1 -> [kind |-> "console"]
              [] f \in 2..(1 + others[2]) -> [kind |-> "other"]
              [] OTHER -> NoFile]
  /\ pipes = [k \in Pipes |-> <<>>]
  /\ files = [f \in FileNames \cup {"console"} |-> IF f = "console" THEN <<>> ELSE Absent]
  /\ meant = files
  /\ typed = 0
  /\ full = FALSE

User(s) ==
  \/ typed < MaxLines /\ \E c \in Trees[typed + 1] : TypeLine(s, Written(c), Done(c, meant))
  \/ \E tokens \in Typos : TypeLine(s, tokens, meant)
  \/ TypeEof(s)
Process(s) ==
  \/ s = 1 /\ (StartShell \/ InitWaits)
  \/ MainWaits(s) \/ Exit(s)
  \/ RunExec(s) \/ RunRedir(s) \/ RunList(s) \/ ListWaits(s) \/ RunBack(s)
  \/ RunPipe(s) \/ PipeFails(s) \/ PipeForks(s) \/ PipeChild(s) \/ PipeCloses(s) \/ PipeWaits(s)
  \/ Read(s) \/ Open(s) \/ Write(s)

ShNext == \E s \in Slots : User(s) \/ Process(s)

\* The scheduler runs some process as long as one can run (fairness among
\* them is not needed: none runs for ever); nobody has to type.
ShFair == WF_shVars(\E s \in Slots : Process(s))
ShSpec == ShInit /\ [][ShNext]_shVars /\ ShFair
-----------------------------------------------------------------------------
(***************************************************************************)
(* When the prompt is back and nothing runs in the background, files and   *)
(* screen are as the lines typed say, whatever order the processes ran in  *)
(* (runcmd, parsecmd in sh.c): the pieces of a line are parsed as written, *)
(* joined by the right descriptors and waited for.                         *)
(***************************************************************************)
Quiet == \A s \in Slots : \/ proc[s].state \in {"UNUSED", "OTHER"}
                          \/ s = 1 /\ proc[s].at = "wait"
                          \/ IsShell(s) /\ proc[s].at = "prompt"
LinesMean == Quiet /\ ~full => files = meant

\* Every line comes to its end and the prompt back, also when fork(), pipe() or
\* open() fails in the middle of it: no process reads from a pipe that can have no writer any
\* more, or waits for a child it has not (the closes and waits in runcmd).
PromptReturns ==
  (\E s \in Slots : At(s, "main.wait")) ~> (\E s \in Slots : IsShell(s) /\ At(s, "prompt"))
=============================================================================
