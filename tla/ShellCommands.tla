---------------------------- MODULE ShellCommands ----------------------------
(***************************************************************************)
(* Shell commands as adapters/shell-read.mjs recognises them, and what the *)
(* same commands print when a shell runs them.  A command is its tokens:   *)
(* the verb, the arguments of the first part of the pipe, what the output  *)
(* is piped into ("none", "filter" or "xargs cat"), and whether `bash -c'  *)
(* is written before it.  Quotes are left out.                             *)
(*                                                                         *)
(* A text is what splitting at the line ends gives: a final newline is an  *)
(* empty last line.  A path is the sequence of its characters.             *)
(***************************************************************************)
EXTENDS Integers, Sequences, FiniteSets, SequencesExt

Word(p)     == [kind |-> "word", path |-> p]
Flag(f)     == [kind |-> "flag", name |-> f]          \* -n, --lines, -c, -q
Joined(n)   == [kind |-> "joined", n |-> n]           \* -n2, -2, --lines=2
Count(n)    == [kind |-> "count", n |-> n]            \* 2
From(n)     == [kind |-> "from", n |-> n]             \* +2
Span(i, j)  == [kind |-> "span", from |-> i, to |-> j] \* 2,3p
Script(p)   == [kind |-> "script", path |-> p]        \* reads its arguments and p
Format      == [kind |-> "format"]

Command(verb, args, pipe) ==
  [verb |-> verb, args |-> args, pipe |-> pipe, wrapped |-> FALSE]

InBash(c) == [c EXCEPT !.wrapped = TRUE]

IsFlag(token)  == token.kind \in {"flag", "joined"}
PathOf(token)  == IF token.kind = "word" THEN token.path ELSE <<token>>
Final          == ""

Body(text) == IF Last(text) = Final THEN Front(text) ELSE text

-----------------------------------------------------------------------------
(* What a shell prints. *)

\* The arguments a flag of this verb takes for itself.
ValueOf(verb, args) ==
  LET takes == CASE verb = "cat" -> {}
                 [] verb = "nl"  -> {"-n"}
                 [] OTHER        -> {"-n", "--lines", "-c"}
      taken[i \in DOMAIN args] ==
        /\ i > 1 /\ args[i - 1].kind = "flag" /\ args[i - 1].name \in takes
        /\ ~taken[i - 1]
  IN  {i \in DOMAIN args : taken[i]}

\* The files whose text is in the output.
FilesRead(c) ==
  {c.args[i].path : i \in {k \in DOMAIN c.args : \/ c.args[k].kind = "script"
                                                \/ /\ c.args[k].kind = "word"
                                                   /\ k \notin ValueOf(c.verb, c.args)}}
    \ {<<>>}

\* The lines from..to with the line end of the last one.
Lines(text, from, to) ==
  IF from > Len(Body(text)) THEN <<Final>>
  ELSE IF to >= Len(Body(text)) THEN SubSeq(text, from, Len(text))
  ELSE Append(SubSeq(text, from, to), Final)

\* The number the verb is given, ten lines without one.
Asked(c) ==
  LET given == {i \in DOMAIN c.args : \/ c.args[i].kind = "joined"
                                      \/ i \in ValueOf(c.verb, c.args)}
  IN  IF given = {} THEN Count(10) ELSE c.args[Max(given)]

\* The text a command prints that reads one file.
Printed(c, text) ==
  LET size == Len(Body(text))
      n    == Asked(c).n
  IN  CASE c.verb = "head" -> Lines(text, 1, n)
        [] c.verb = "tail" ->
             IF Asked(c).kind = "from" THEN Lines(text, n, size)
             ELSE Lines(text, IF n > size THEN 1 ELSE size - n + 1, size)
        [] c.verb = "sed"  -> Lines(text, c.args[2].from, c.args[2].to)
        [] OTHER           -> text

-----------------------------------------------------------------------------
(* What the adapters take a command for. *)

NoRead == [scope |-> "none"]

Wholly(p)            == [scope |-> "file", path |-> p]
Region(p, from, to)  == [scope |-> "region", path |-> p, from |-> from, to |-> to]
TailOf(p, n)         == [scope |-> "tail", path |-> p, n |-> n]

\* positionalArgs: whatever the verb, -n takes the argument behind it.
Positional(args) ==
  LET skipped[i \in DOMAIN args] ==
        /\ i > 1 /\ args[i - 1] = Flag("-n") /\ ~skipped[i - 1]
      at == SelectSeq([i \in DOMAIN args |-> i],
                      LAMBDA i : ~skipped[i] /\ ~IsFlag(args[i]))
  IN  [k \in DOMAIN at |-> PathOf(args[at[k]])]

\* A plausible bug: a number joined to its flag is passed over.
LineCountApart(args) ==
  LET flags == {i \in 1..(Len(args) - 1) :
                  args[i] \in {Flag("-n"), Flag("--lines")}}
  IN  IF flags = {} THEN 10
      ELSE LET next == args[Max(flags) + 1]
           IN  IF next.kind \in {"count", "from"} THEN next.n ELSE 0

(***************************************************************************)
(* lineCountFlag: ten, or what the last flag says; 0 for none.  The last   *)
(* argument is not looked at, and +2 counts as 2.                          *)
(***************************************************************************)
LineCount(args) ==
  LET skipped[i \in DOMAIN args] ==
        /\ i > 1 /\ args[i - 1] \in {Flag("-n"), Flag("--lines")}
        /\ ~skipped[i - 1]
      said(i) == CASE skipped[i] -> {}
                   [] args[i].kind = "joined" -> {args[i].n}
                   [] args[i] \in {Flag("-n"), Flag("--lines")} ->
                        {IF args[i + 1].kind \in {"count", "from"}
                         THEN args[i + 1].n ELSE 0}
                   [] OTHER -> {}
      flags == {i \in DOMAIN args \ {Len(args)} : said(i) # {}}
  IN  IF flags = {} THEN 10
      ELSE IF \E i \in flags : 0 \in said(i) THEN 0
      ELSE CHOOSE n \in said(Max(flags)) : TRUE

\* parseShellFileRead
Parsed(c) ==
  LET files == Positional(c.args)
      lines == LineCount(c.args)
  IN  IF c.pipe # "none" \/ c.args = <<>> THEN NoRead
      ELSE IF c.verb = "sed"
      THEN IF /\ Len(c.args) = 3 /\ c.args[1] = Flag("-n")
              /\ c.args[2].kind = "span" /\ ~IsFlag(c.args[3])
              /\ c.args[2].to >= c.args[2].from /\ c.args[2].from >= 1
           THEN Region(PathOf(c.args[3]), c.args[2].from, c.args[2].to)
           ELSE NoRead
      ELSE IF Len(files) # 1 THEN NoRead
      ELSE IF c.verb \in {"cat", "nl"} THEN Wholly(files[1])
      ELSE IF c.verb \notin {"head", "tail"} \/ lines = 0 THEN NoRead
      ELSE IF c.verb = "head" THEN Region(files[1], 1, lines)
      ELSE TailOf(files[1], lines)

\* shellDumpPathsFromCommand: the files of a command that names several.
DumpPaths(c) ==
  LET words(from) == [k \in 1..(Len(c.args) - from + 1) |->
                        PathOf(c.args[k + from - 1])]
      names == CASE c.verb \in {"cat", "nl"} -> Positional(c.args)
                 [] c.verb = "python" -> words(3)
                 [] c.verb = "printf" /\ c.pipe = "xargs cat" -> words(2)
                 [] OTHER -> <<>>
  IN  IF Len(names) >= 2 THEN ToSet(names) ELSE {}

-----------------------------------------------------------------------------
(* Tracked paths that the text of a command contains. *)

Letters(name) ==
  CASE name = "cat" -> <<"c", "a", "t">>
    [] name = "nl" -> <<"n", "l">>
    [] name = "head" -> <<"h", "e", "a", "d">>
    [] name = "python" -> <<"p", "y", "t", "h", "o", "n">>
    [] name = "printf" -> <<"p", "r", "i", "n", "t", "f">>
    [] name = "filter" -> <<" ", "|", " ", "w", "c">>
    [] name = "xargs cat" ->
         <<" ", "|", " ", "x", "a", "r", "g", "s", " ", "c", "a", "t">>
    [] name = "-n" -> <<"-", "n">>
    [] name = "-c" -> <<"-", "c">>
    [] OTHER -> <<>>

\* An argument with the blank before it.
Spelled(token) ==
  <<" ">> \o CASE token.kind = "word" -> token.path
               [] token.kind = "script" ->
                    <<"o", "p", "e", "n", "(">> \o token.path \o <<")">>
               [] token.kind = "format" -> <<"%", "s">>
               [] OTHER -> Letters(token.name)

\* The command as it was written, wrapper, verb, flags and script included.
TextOf(c) ==
  (IF c.wrapped THEN <<"b", "a", "s", "h", " ", "-", "c", " ">> ELSE <<>>)
    \o Letters(c.verb) \o FlattenSeq([i \in DOMAIN c.args |-> Spelled(c.args[i])])
    \o Letters(c.pipe)

Hole == "hole"

Places(text, p) ==
  {k \in 1..(Len(text) - Len(p) + 1) : SubSeq(text, k, k + Len(p) - 1) = p}

Inside(text, p) == Places(text, p) # {}

\* Places are taken from the left, and none that overlaps one before it.
Without(text, p) ==
  LET places == Places(text, p)
      taken[k \in places] ==
        \A j \in places : j < k /\ taken[j] => k - j >= Len(p)
  IN  [i \in DOMAIN text |->
         IF \E k \in places : k <= i /\ taken[k] /\ i - k < Len(p) THEN Hole
         ELSE text[i]]

\* A plausible bug: what a path matched is left in the text.
HitsOverlapping(text, paths) == {p \in ToSet(paths) : Inside(text, p)}

\* Longer paths come first, then those tracked earlier; what one matches is
\* taken out of the text.
Hits(text, paths) ==
  LET unique == SetToSortSeq(DOMAIN paths,
                  LAMBDA i, j : \/ Len(paths[i]) > Len(paths[j])
                                \/ Len(paths[i]) = Len(paths[j]) /\ i < j)
      path(k) == paths[unique[k]]
      left[k \in 0..Len(unique)] ==
        IF k = 0 THEN text ELSE Without(left[k - 1], path(k))
  IN  {path(k) : k \in {j \in DOMAIN unique : Inside(left[j - 1], path(j))}}

\* trackedPathsMentionedInCommand; paths in the order they were tracked.
Mentions(c, paths) == Hits(TextOf(c), paths)
=============================================================================
