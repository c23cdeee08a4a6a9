------------------------------- MODULE MCPipe -------------------------------
(***************************************************************************)
(* A pipe with its readers and writers, the shell that plumbs programs     *)
(* with pipes, or grep, one of these programs: in every behaviour one of   *)
(* them runs.                                                              *)
(***************************************************************************)
EXTENDS Pipe, Shell, Grep

VARIABLE which

all == <<which, vars, shVars, grepVars>>

echo(words) == Exec(<<"echo">> \o words)
cat == Exec(<<"cat">>)
To(c, f) == Redir(c, ">", f)
From(c, f) == Redir(c, "<", f)
Then(c, d) == Both("LIST", c, d)
Into(c, d) == Both("PIPE", c, d)

\* Pipelines nested both ways and of three stages, a list that shares the end
\* of a pipe or the offset of a file, a command in the background beside
\* another, redirections of both kinds, one twice, of a file that is not there.
MCTrees ==
  << { Into(echo(<<"a", "b">>), Into(cat, Exec(<<"wc">>))),
       To(Into(Then(echo(<<"a">>), echo(<<"b">>)), cat), "f"),
       Then(To(echo(<<"a", "b">>), "f"), Then(Redir(echo(<<"c">>), ">>", "f"), Exec(<<"cat", "f", "g">>))),
       Then(Back(To(Into(echo(<<"a">>), cat), "h")), echo(<<"b">>)),
       To(Redir(echo(<<"a">>), ">>", "f"), "g"),
       Then(To(echo(<<"a", "b">>), "f"), Then(To(echo(<<"c">>), "f"), From(cat, "f"))),
       Into(From(cat, "f"), echo(<<"b", "c">>)),
       Into(Into(echo(<<"a">>), cat), Then(Exec(<<"nosuch">>), echo(<<"b">>))) },
     { Into(echo(<<"c">>), cat) } >>
\* A bracket missing or left over, a command behind &, a file missing.
MCTypos == { <<"(", "echo", "a">>, <<"echo", "a", "&", "echo", "b">>, <<"cat", ">">>, <<")">> }

\* A full process table, or all but two open files held by other programs.
MCOthers == {<<0, 0>>, <<3, 0>>, <<0, 6>>}

\* Every operator of the matcher, alone and together, and as a character.
MCPatterns == { <<>>, <<"a">>, <<"^", "a">>, <<"a", "$">>, <<"a", "*", "b">>, <<"^", ".", "*", "b", "$">>,
                <<"b", ".">>, <<"^", "a", "*", "$">>, <<"*">>, <<"$", "a">> }
\* No newline at the end, lines as long as the buffer, longer, and a Nul.
MCInputs == { <<"a", "\n", "b", "b", "\n", "\n", "a", "b">>,
              <<"b", "a", "b", "\n", "a", "b", "\n">>,
              <<"a", "a", "b", "\n", "b", "b", "b", "b", "\n", "a", "\n">>,
              <<"a", "\n", "b", Nul, "\n", "a", "\n">>,
              <<"*", "\n", "$", "a", "\n", "^", "\n">> }
MCNames == UNION {[1 .. len -> {"a", "b"}] : len \in 1 .. DIRSIZ + 1}

MCInit ==
  /\ which \in {"pipe", "shell", "grep"}
  /\ Init /\ ShInit /\ grepmain
  /\ which # "pipe" => data = [k \in 0..(PipeSize - 1) |-> CHOOSE d \in Data : TRUE]
  /\ which # "shell" => proc[2].state = "UNUSED" /\ ftable[2].kind = "free"
  /\ which # "grep" => pattern = <<>> /\ input = CHOOSE chars \in Inputs : TRUE
MCNext ==
  \/ which = "pipe" /\ Next /\ UNCHANGED <<which, shVars, grepVars>>
  \/ which = "shell" /\ ShNext /\ UNCHANGED <<which, vars, grepVars>>
  \/ which = "grep" /\ grepNext /\ UNCHANGED <<which, vars, shVars>>
MCSpec == MCInit /\ [][MCNext]_all /\ ShFair

\* What grep prints, and the functions on characters in memory, tried on
\* whatever its buffer holds; it says nothing where grep does not run.
GrepRight == which = "grep" => GrepPrints /\ StringsRight
=============================================================================
