----------------------------- MODULE Resolution -----------------------------
(***************************************************************************)
(* The outcome of looking for a unit in the current text, as the resolvers *)
(* of src/ return it, and the one resolver that needs only line numbers.   *)
(***************************************************************************)
EXTENDS SourceText

\* Every refusal, whatever its reason.
Unresolved == [state |-> "unresolved"]

\* A plausible bug: an exclusive end taken for the last line.
AtOpenEnd(method, text, from, to) ==
  [state |-> "resolved", method |-> method, content |-> LinesOf(text, from, to),
   startLine |-> from, endLine |-> to + 1]

At(method, text, from, to) ==
  [state |-> "resolved", method |-> method, content |-> LinesOf(text, from, to),
   startLine |-> from, endLine |-> to]

(***************************************************************************)
(* resolveStoredLineSpan: the line a one-line unit was last on, when the   *)
(* file has as many lines as when it was read (0: not reported).           *)
(***************************************************************************)
StoredLineSpan(u, cur) ==
  IF /\ u.startLine = u.endLine
     /\ u.observedFileLineCount = Len(cur)
     /\ u.endLine =< Len(cur)
  THEN At("stored-line-span", cur, u.startLine, u.endLine)
  ELSE Unresolved

\* resolveStoredLineSpan rescues a region that nothing else resolved.
Rescued(u, text, outcome) ==
  IF outcome = Unresolved /\ u.scope = "region" THEN StoredLineSpan(u, text)
                                                ELSE outcome
=============================================================================
