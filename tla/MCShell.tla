------------------------------ MODULE MCShell ------------------------------
(***************************************************************************)
(* Shell commands to look at: for ShellRead one file of at most three      *)
(* lines that changes and one that does not, and every command the parser  *)
(* looks at, with its number written in each way and the file before and   *)
(* after it; for ShellDumps four files, some of whose paths are part of    *)
(* others, of verbs or of the wrapper, in every command that prints one or *)
(* several of them.                                                        *)
(***************************************************************************)
EXTENDS ShellCommands

F == <<"f">>
G == <<"g">>

ReadFixed == [p \in {G} |-> <<"x", "">>]

ReadTexts ==
  {<<Final>>, <<"x", "y">>, <<"x", Final>>, <<Final, Final>>,
   <<"x", "y", Final>>, <<"y", "x", Final>>, <<"x", Final, Final>>,
   <<"x", "x", "y", Final>>, <<"x", "y", "x", Final>>, <<"x", "y", "y">>}

Numbers == {1, 2, 3}

Plain ==
  {Command(v, args, "none") :
     v \in {"cat", "nl", "head", "tail"},
     args \in {<<Word(F)>>, <<Word(F), Word(G)>>, <<Flag("-n"), Word(F)>>,
               <<Flag("-q"), Word(F)>>, <<>>}}

Counting ==
  {Command(v, args, "none") :
     v \in {"head", "tail"},
     args \in UNION {{<<Flag("-n"), Count(n), Word(F)>>, <<Joined(n), Word(F)>>,
                      <<Word(F), Flag("-n"), Count(n)>>, <<Word(F), Joined(n)>>,
                      <<Flag("--lines"), Count(n), Word(F)>>,
                      <<Flag("-n"), Count(1), Joined(n), Word(F)>>,
                      <<Flag("-c"), Count(n), Word(F)>>} : n \in Numbers}
              \cup {<<Joined(0), Word(F)>>}}

Slices ==
  {Command("sed", <<Flag("-n"), Span(i, j), Word(F)>>, "none") :
     i \in Numbers, j \in Numbers}

Piped == {Command("cat", <<Word(F)>>, "filter")}

\* What cat -n does to two files, and tail to a number with a plus sign.
TwoNumbered == {Command("cat", <<Flag("-n"), Word(F), Word(G)>>, "none")}
FromALine   == {Command("tail", <<Flag("-n"), From(n), Word(F)>>, "none") :
                  n \in Numbers}

ReadCommands == Plain \cup Counting \cup Slices \cup Piped \cup TwoNumbered
              \cup FromALine

-----------------------------------------------------------------------------
\* a stands in "cat", "head" and "bash"; r in "printf", "xargs" and the others.
A  == <<"a">>
R  == <<"r">>
DR == <<"d", "/", "r">>
ER == <<"e", "/", "d", "/", "r">>

DumpFiles == {A, R, DR, ER}

Several == {<<p, q>> : p \in DumpFiles, q \in DumpFiles} \cup {<<R, DR, A>>, <<A, R, DR>>}
Single  == {<<p>> : p \in DumpFiles}

Arguments(files) == [i \in DOMAIN files |-> Word(files[i])]

DumpCommands ==
  {Command(v, Arguments(files), pipe) :
     v \in {"cat", "nl", "head"}, files \in Several \cup Single,
     pipe \in {"none", "filter"}}
  \cup {InBash(Command("cat", Arguments(files), "none")) : files \in Several \cup Single}
  \cup {Command("cat", <<Flag("-n")>> \o Arguments(files), "none") :
          files \in Several \cup Single}
  \cup {Command("python", <<Flag("-c"), Script(own)>> \o Arguments(files), "none") :
          own \in DumpFiles \cup {<<>>}, files \in Several \cup Single \cup {<<>>}}
  \cup {Command("printf", <<Format>> \o Arguments(files), "xargs cat") :
          files \in Several \cup Single}
=============================================================================
