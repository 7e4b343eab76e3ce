----------------------------- MODULE SourceText -----------------------------
(***************************************************************************)
(* Source text as the resolvers see it.  A text is a non-empty sequence of *)
(* lines, a line is a sequence of characters, and splitting a string at    *)
(* its line ends and joining the lines again are inverse, so one value     *)
(* stands for both forms.  CRLF is folded to LF before any comparison in   *)
(* the code and does not appear here.                                      *)
(***************************************************************************)
EXTENDS Integers, Sequences, FiniteSets, SequencesExt

Space == " "
NewLine == "\n"

\* The lines from..to of a text, cut at its end as Array.slice does.
LinesOf(text, from, to) == SubSeq(text, from, IF to > Len(text) THEN Len(text) ELSE to)

\* lines.join("\n")
Join(text) ==
  FlattenSeq([i \in DOMAIN text |-> IF i = 1 THEN text[i]
                                             ELSE <<NewLine>> \o text[i]])

\* normalizedLine: trimmed, with every run of spaces folded to one.
Normalized(line) ==
  LET ink(i)  == line[i] # Space
      kept(i) == \/ ink(i)
                 \/ /\ i + 1 \in DOMAIN line /\ ink(i + 1)
                    /\ \E j \in 1..(i - 1) : ink(j)
      at == SelectSeq([i \in DOMAIN line |-> i], kept)
  IN  [k \in DOMAIN at |-> line[at[k]]]

SameLine(a, b) == Normalized(a) = Normalized(b)

\* meaningfulLines: the indexes of the lines that are not blank.
Meaningful(text) == {i \in DOMAIN text : Normalized(text[i]) # <<>>}

\* Where one character sequence occurs in another, overlaps included.
Occurrences(needle, hay) ==
  {k \in 1..(Len(hay) - Len(needle) + 1) :
     SubSeq(hay, k, k + Len(needle) - 1) = needle}

(***************************************************************************)
(* allSubstringIndexes(hay, needle).length === 1.  The scan resumes after  *)
(* each match, so occurrences that overlap the first one are not counted.  *)
(***************************************************************************)
FoundOnce(needle, hay) ==
  /\ needle # <<>>
  /\ Occurrences(needle, hay) # {}
  /\ \A k \in Occurrences(needle, hay) :
       k < Min(Occurrences(needle, hay)) + Len(needle)

\* A plausible bug: a line end at the offset itself is counted.
LineThrough(chars, k) == 1 + Cardinality({i \in 1..k : chars[i] = NewLine})

\* lineForOffset: the line on which the character at an offset stands.
LineAt(chars, k) == 1 + Cardinality({i \in 1..(k - 1) : chars[i] = NewLine})
=============================================================================
