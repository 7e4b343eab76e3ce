------------------------------ MODULE LabText ------------------------------
(***************************************************************************)
(* Text as the benchmark edits it: replace-exact looks for a string that   *)
(* may begin and end inside a line, so an edit works on the characters and *)
(* the file is split into lines again.  A string that ends with a line end *)
(* is a text whose last line is empty.                                     *)
(***************************************************************************)
EXTENDS SourceText

\* The string of no characters, as a text.
Nothing == << <<>> >>

\* string.split("\n")
Split(chars) ==
  LET ends == SelectSeq([i \in DOMAIN chars |-> i], LAMBDA i : chars[i] = NewLine)
      cuts == <<0>> \o ends \o <<Len(chars) + 1>>
  IN  [k \in 1..(Len(cuts) - 1) |-> SubSeq(chars, cuts[k] + 1, cuts[k + 1] - 1)]

\* The lines from..to as the benchmark cuts them: a string, if an empty one.
Region(text, from, to) ==
  LET cut == LinesOf(text, from, to) IN IF cut = <<>> THEN Nothing ELSE cut

\* lines.indexOf(line), counted from 1; 0 when there is none.
FirstLine(text, line) ==
  IF line \in ToSet(text) THEN Min({i \in DOMAIN text : text[i] = line}) ELSE 0

\* text.includes(part)
Includes(text, part) == Occurrences(Join(part), Join(text)) # {}

(***************************************************************************)
(* replaceExact: the first occurrence only.  The caller has made sure that *)
(* there is one (a miss throws).                                           *)
(***************************************************************************)
ReplaceExact(text, expected, replacement) ==
  LET chars == Join(text)
      at == Min(Occurrences(Join(expected), chars))
  IN  Split(SubSeq(chars, 1, at - 1) \o Join(replacement)
              \o SubSeq(chars, at + Len(Join(expected)), Len(chars)))

(***************************************************************************)
(* countOccurrences: how often a string is found when the search resumes   *)
(* behind each match; never for the empty string.                          *)
(***************************************************************************)
CountOccurrences(chars, part) ==
  LET at == Occurrences(part, chars)
      from[k \in 1..(Len(chars) + Len(part) + 1)] ==
        LET ahead == {i \in at : i >= k}
        IN  IF ahead = {} THEN 0 ELSE 1 + from[Min(ahead) + Len(part)]
  IN  IF part = <<>> THEN 0 ELSE from[1]
=============================================================================
