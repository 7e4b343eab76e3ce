----------------------------- MODULE Projection -----------------------------
(***************************************************************************)
(* How units are framed in a projection and read back                      *)
(* (src/src/projector.mjs): attributes are escaped, the content is not, so *)
(* its end is found by its length.                                         *)
(*                                                                         *)
(* Text is a sequence of tokens.  A token stands for characters that the   *)
(* code writes or looks for as a whole; for the count of bytes each token  *)
(* of a content is one.                                                    *)
(***************************************************************************)
EXTENDS Naturals, Sequences, SequencesExt, TLC

CONSTANTS
  Values,        \* what an attribute (an id, a path) may be
  Contents,      \* what a unit may contain
  Preambles,        \* words that may stand before the projection
  MaxUnits,
  Cut            \* whether the text may have lost its end

\* Assumed of the constants.
ProjectionAssumption ==
  /\ Values \subseteq Seq(STRING) /\ Contents \subseteq Seq(STRING)
  /\ Preambles \subseteq Seq(STRING)
  /\ MaxUnits \in Nat /\ Cut \in BOOLEAN

Opening == "<freshctx-unit "
Closing == "\n</freshctx-unit>"
Bytes == "content-bytes="
Quote == "\""

\* The entities, in the order in which unescapeAttribute replaces them.
Entities == <<"quot;", "lt;", "gt;", "amp;">>
Meaning == [e \in {"quot;", "lt;", "gt;", "amp;"} |->
              CASE e = "quot;" -> Quote [] e = "lt;" -> "<"
                [] e = "gt;" -> ">" [] e = "amp;" -> "&"]

escapeAttribute(value) ==
  FlattenSeq([i \in DOMAIN value |->
    IF \E e \in DOMAIN Meaning : Meaning[e] = value[i]
    THEN <<"&", CHOOSE e \in DOMAIN Meaning : Meaning[e] = value[i]>>
    ELSE <<value[i]>>])

\* replaceAll of one entity
Resolve(value, e) ==
  LET starts(i) == i + 1 \in DOMAIN value /\ value[i] = "&" /\ value[i + 1] = e
  IN  FlattenSeq([i \in DOMAIN value |->
        IF starts(i) THEN <<Meaning[e]>>
        ELSE IF i > 1 /\ starts(i - 1) THEN <<>>
        ELSE <<value[i]>>])

\* A plausible bug: the ampersand is replaced first.
unescapeAmpersandFirst(value) ==
  FoldLeft(Resolve, value, <<"amp;", "quot;", "lt;", "gt;">>)

unescapeAttribute(value) == FoldLeft(Resolve, value, Entities)

Attribute(name, value) == <<name, Quote>> \o escapeAttribute(value) \o <<Quote>>

\* A plausible bug: what is counted is the content without its last line end.
renderUnitTrimmed(u) ==
  <<Opening>> \o Attribute("id=", u.id) \o
  Attribute(Bytes, <<ToString(Len(SelectSeq(u.content, LAMBDA t : t # "\n")))>>)
  \o <<">", "\n">> \o u.content \o <<Closing>>

renderUnit(u) ==
  <<Opening>> \o Attribute("id=", u.id) \o
  Attribute(Bytes, <<ToString(Len(u.content))>>)
  \o <<">", "\n">> \o u.content \o <<Closing>>

\* projectContext: units that changed stand behind the others.
RenderOrder(units) ==
  SelectSeq(units, LAMBDA u : ~u.changed)
  \o SelectSeq(units, LAMBDA u : u.changed)

ProjectionText(units) ==
  LET order == RenderOrder(units)
  IN  <<"envelope", "\n">>
      \o FlattenSeq([i \in DOMAIN order |-> renderUnit(order[i]) \o <<"\n">>])
      \o <<"</freshctx>">>

\* parseAttributes of a header in which every quoted value has its name: the
\* quotes pair from the left, and of two values of a name the last one counts.
AttributeOf(header, name) ==
  LET quotes == SelectSeq([i \in DOMAIN header |-> i],
                          LAMBDA i : header[i] = Quote)
      named == {j \in DOMAIN quotes :
                  /\ j % 2 = 1 /\ j + 1 \in DOMAIN quotes
                  /\ quotes[j] > 1 /\ header[quotes[j] - 1] = name}
      last == CHOOSE j \in named : \A k \in named : k =< j
  IN  IF named = {} THEN <<>>
      ELSE unescapeAttribute(
             SubSeq(header, quotes[last] + 1, quotes[last + 1] - 1))

-----------------------------------------------------------------------------
VARIABLES
  units,      \* history: what the text was rendered from
  text,
  cursor,     \* tokens read
  decoded,
  status      \* "reading", "done", or the error that was thrown

vars == <<units, text, cursor, decoded, status>>

Unit == [id : Values, content : Contents, changed : BOOLEAN]

Errors == {"unterminated", "invalid", "truncated", "misaligned"}

TypeOK ==
  /\ cursor \in 0..Len(text)
  /\ \A i \in DOMAIN decoded : decoded[i].content \in Seq(STRING)
  /\ status \in {"reading", "done"} \cup Errors

Init ==
  /\ \E n \in 0..MaxUnits : units \in [1..n -> Unit]
  /\ \E words \in Preambles :
       LET whole == words \o ProjectionText(units)
       IN  \E n \in (IF Cut THEN 1..Len(whole) ELSE {Len(whole)}) :
             text = SubSeq(whole, 1, n)
  /\ cursor = 0
  /\ decoded = <<>>
  /\ status = "reading"

\* The first of the positions after n at which pattern stands, or none.
Ends(pattern, n) ==
  {i \in n + 1..Len(text) - Len(pattern) + 1 :
     SubSeq(text, i, i + Len(pattern) - 1) = pattern}
First(S) == CHOOSE i \in S : \A j \in S : i =< j

Starts == Ends(<<Opening>>, cursor)
Headers == Ends(<<">", "\n">>, First(Starts))
Header == SubSeq(text, First(Starts) + 1, First(Headers))
Sizes ==
  LET value == AttributeOf(Header, Bytes)
  IN  {n \in 0..Len(text) : <<ToString(n)>> = value}
ContentStart == First(Headers) + 2
ContentEnd == ContentStart + First(Sizes)     \* where the closing frame begins

Fail(error) ==
  /\ status' = error
  /\ UNCHANGED <<units, text, cursor, decoded>>

\* A plausible bug: the content ends at the first closing frame.
ReadToClosing ==
  /\ status = "reading" /\ Starts # {} /\ Headers # {} /\ Sizes # {}
  /\ Ends(<<Closing>>, ContentStart - 1) # {}
  /\ LET end == First(Ends(<<Closing>>, ContentStart - 1))
     IN  /\ decoded' = Append(decoded,
                [id |-> AttributeOf(Header, "id="),
                 content |-> SubSeq(text, ContentStart, end - 1)])
         /\ cursor' = end
  /\ UNCHANGED <<units, text, status>>

\* A plausible bug: the cursor is left one past the frame.
ReadUnitPast ==
  /\ status = "reading" /\ Starts # {} /\ Headers # {} /\ Sizes # {}
  /\ ContentEnd \in DOMAIN text
  /\ text[ContentEnd] = Closing
  /\ decoded' = Append(decoded,
         [id |-> AttributeOf(Header, "id="),
          content |-> SubSeq(text, ContentStart, ContentEnd - 1)])
  /\ cursor' = ContentEnd + 1
  /\ UNCHANGED <<units, text, status>>

ReadUnit ==
  /\ status = "reading" /\ Starts # {} /\ Headers # {} /\ Sizes # {}
  /\ ContentEnd \in DOMAIN text
  /\ text[ContentEnd] = Closing
  /\ decoded' = Append(decoded,
         [id |-> AttributeOf(Header, "id="),
          content |-> SubSeq(text, ContentStart, ContentEnd - 1)])
  /\ cursor' = ContentEnd
  /\ UNCHANGED <<units, text, status>>

\* The errors; a content that is all there but for its frame is misaligned.
NoUnit ==
  /\ status = "reading"
  /\ \/ Starts # {} /\ Headers = {} /\ Fail("unterminated")
     \/ /\ Starts # {} /\ Headers # {}
        /\ \/ Sizes = {} /\ Fail("invalid")
           \/ Sizes # {} /\ ContentEnd > Len(text) + 1 /\ Fail("truncated")
           \/ /\ Sizes # {} /\ ContentEnd =< Len(text) + 1
              /\ ContentEnd \in DOMAIN text => text[ContentEnd] # Closing
              /\ Fail("misaligned")

NoMore ==
  /\ status = "reading" /\ Starts = {}
  /\ status' = "done"
  /\ UNCHANGED <<units, text, cursor, decoded>>

Next == ReadUnit \/ NoUnit \/ NoMore

Spec == Init /\ [][Next]_vars

-----------------------------------------------------------------------------
(* Properties *)

Rendered ==
  LET order == RenderOrder(units)
  IN  [i \in DOMAIN order |->
         [id |-> order[i].id, content |-> order[i].content]]

(***************************************************************************)
(* Whatever a file or its name contain, frames and entities included, and  *)
(* wherever the text was cut, what is read back are units of the text,     *)
(* whole, in their order (projector.mjs:27-83).                            *)
(***************************************************************************)
NothingElseIsRead == IsPrefix(decoded, Rendered)

(***************************************************************************)
(* A text that has its end is read to the last unit and with no error      *)
(* (projector.mjs:46-83).                                                  *)
(***************************************************************************)
WholeTextIsRead ==
  status # "reading" => status = "done" /\ decoded = Rendered

(***************************************************************************)
(* However a text was written and wherever it was cut, reading it gives    *)
(* back what was written: units of it, whole and in their order, and all   *)
(* of them when the text has its end (projector.mjs:27-83).                *)
(***************************************************************************)
ReadBack == TypeOK /\ NothingElseIsRead /\ (~Cut => WholeTextIsRead)
=============================================================================
