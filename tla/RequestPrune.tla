---------------------------- MODULE RequestPrune ----------------------------
(***************************************************************************)
(* How an adapter rewrites the copy of the transcript that goes to the     *)
(* provider (src/adapters/request-prune.mjs): results of tracked reads     *)
(* become markers or current bytes, reads that are not served leave with   *)
(* their results, and older projections become one line.                   *)
(*                                                                         *)
(* A message is a user's, an assistant's (with the calls it makes) or the  *)
(* result of one call.  Units are whole files and have the file's name.    *)
(* A body is the text of a file at a version, the output of another tool,  *)
(* a marker, a projection, or a person's words.                            *)
(***************************************************************************)
EXTENDS Naturals, Sequences, FiniteSets

CONSTANTS
  Paths,        \* files of the workspace, numbered in the order of their ids
  UnitOrder,    \* the same, as a sequence
  Structural,   \* units the isolated semantic engine resolves
  Versions,     \* contents a file can have
  Gone,         \* a file that does not exist
  Length,       \* characters of each content
  Calls,        \* ids of tool calls
  Tool,         \* "read", "shell" or "other", for each call
  NoPath,       \* no file
  ReadOf,       \* the one file a call reads, or NoPath
  Named,        \* the files a dump command names; at least two, or none
  Mentioned     \* the files whose names stand anywhere in a command

ASSUME RequestPruneAssumption ==
  /\ Paths \subseteq Nat
  /\ UnitOrder \in Seq(Paths)
  /\ \A p \in Paths : \E i \in DOMAIN UnitOrder : UnitOrder[i] = p
  /\ IsFiniteSet(Calls)
  /\ Gone \notin Versions
  /\ Length \in [Versions -> Nat]
  /\ NoPath \notin Paths
  /\ Tool \in [Calls -> {"read", "shell", "other"}]
  /\ ReadOf \in [Calls -> Paths \cup {NoPath}]
  /\ Named \in [Calls -> SUBSET Paths]
  /\ Mentioned \in [Calls -> SUBSET Paths]

\* Assumed where every tool of the host is known.
OnlyReadersRead == \A c \in Calls : Tool[c] = "other" => ReadOf[c] = NoPath

Content == Versions \cup {Gone}

Words == [kind |-> "words"]
Output(c) == [kind |-> "output", call |-> c]
Text(p, v) == [kind |-> "text", path |-> p, at |-> v]

User(body) == [role |-> "user", body |-> body]
Assistant(says, calls) ==
  [role |-> "assistant", says |-> says, calls |-> calls]
Result(c, body) == [role |-> "tool", call |-> c, body |-> body]

\* What stands at some places of a sequence, in its order.  (SelectSeq takes
\* an operator, about which no lemma can be cited.)
Nth(places, k) ==
  CHOOSE i \in places : Cardinality({j \in places : j =< i}) = k

At(s, places) == [k \in 1..Cardinality(places) |-> s[Nth(places, k)]]
Among(s, set) == At(s, {i \in DOMAIN s : s[i] \in set})

\* The messages themselves, without the reasons to look at them.
Bodies(messages) ==
  {messages[i].body : i \in {j \in DOMAIN messages :
                               messages[j].role # "assistant"}}

CallsIn(messages) ==
  UNION {messages[i].calls : i \in {j \in DOMAIN messages :
                                      messages[j].role = "assistant"}}

ResultsIn(messages) ==
  {messages[i].call : i \in {j \in DOMAIN messages :
                               messages[j].role = "tool"}}

ReadCalls(messages) == {c \in CallsIn(messages) : Tool[c] # "other"}

\* The message that makes a call.
Makers(c, messages) ==
  {i \in DOMAIN messages :
     messages[i].role = "assistant" /\ c \in messages[i].calls}

MadeAt(c, messages) == CHOOSE i \in Makers(c, messages) : TRUE

OfficialReads(messages, tracked) ==
  {c \in CallsIn(messages) \cap tracked : Tool[c] = "read"}

\* Call d stands before call c; those of one reply in the order of their
\* numbers, as they run.
CalledEarlier(d, c, messages) ==
  \/ MadeAt(d, messages) < MadeAt(c, messages)
  \/ MadeAt(d, messages) = MadeAt(c, messages) /\ d < c

\* Of several official reads of a file only the latest counts.
LatestReads(messages, tracked) ==
  {c \in OfficialReads(messages, tracked) :
     \A d \in OfficialReads(messages, tracked) \ {c} :
       ReadOf[d] = ReadOf[c] => CalledEarlier(d, c, messages)}

-----------------------------------------------------------------------------
(* The projection: what the policy selected and left out, the bytes of     *)
(* each unit now, and the units that changed.                              *)

Projections ==
  [selected : SUBSET Paths, budget : SUBSET Paths, unresolved : SUBSET Paths,
   content : [Paths -> Content], changed : SUBSET Paths]

Tracked(P) == P.selected \cup P.budget \cup P.unresolved

Disposition(p, P) ==
  CASE p \in P.selected -> "selected"
    [] p \in P.budget -> "budget"
    [] p \in P.unresolved -> "unresolved"
    [] OTHER -> "absent"

EmptyText == [kind |-> "empty"]

Rendered(P) ==
  LET order == Among(UnitOrder, P.selected \ P.changed)
                 \o Among(UnitOrder, P.selected \cap P.changed)
  IN  [kind |-> "projection",
       frames |-> [i \in DOMAIN order |-> Text(order[i], P.content[order[i]])],
       unresolved |-> Cardinality(P.unresolved),
       budget |-> Cardinality(P.budget)]

Frames(text) ==
  IF text.kind = "projection" THEN {text.frames[i] : i \in DOMAIN text.frames}
  ELSE {}

Quotes(body) == Length[body.at] > 0

\* projectionCarriesQuoteableUnits
CarriesQuoteable(text) == \E f \in Frames(text) : Quotes(f)

IsProjection(m) == m.role = "user" /\ m.body.kind = "projection"

UserCount(messages) ==
  Cardinality({i \in DOMAIN messages : messages[i].role = "user"})

SkipEligible(P, injected) ==
  Cardinality({p \in P.selected : injected[p] = P.content[p]})

\* shouldCollapseCurrentProjection
Collapses(messages, P, injected) ==
  /\ ~\E i \in DOMAIN messages : IsProjection(messages[i])
  /\ UserCount(messages) > 1
  /\ P.selected # {}
  /\ P.selected \cap Structural = {}
  /\ Cardinality(P.selected) = SkipEligible(P, injected)

ResolveProjectionText(messages, P, injected) ==
  IF Collapses(messages, P, injected) THEN EmptyText ELSE Rendered(P)

-----------------------------------------------------------------------------
(* Results of tracked reads.  unitOf maps the active calls to their files. *)

RepliedBetweenUsers(messages) ==
  \E i, j, k \in DOMAIN messages :
    /\ i < j /\ j < k
    /\ messages[i].role = "user" /\ messages[k].role = "user"
    /\ messages[j].role = "assistant" /\ messages[j].says
    /\ \A n \in 1..(k - 1) : messages[n].role = "user" => n = i

\* shouldInlineServedReadAtToolResult
SecondTurnGate(messages, P, text, injected) ==
  /\ UserCount(messages) = 2
  /\ RepliedBetweenUsers(messages)
  /\ \E p \in Paths : injected[p] # Gone
  /\ Frames(text) # {}
  /\ SkipEligible(P, injected) = 0
  /\ P.budget \cup P.unresolved = {}

Current(p, P) == Text(p, P.content[p])

\* A plausible bug: the read is inlined when the tail can be quoted, not when
\* it cannot.
InlinesWithTail(p, body, P, text, gate) ==
  /\ p \in P.selected
  /\ Quotes(Current(p, P))
  /\ IF gate THEN body # Current(p, P) ELSE CarriesQuoteable(text)

\* shouldInlineSelectedReadAtToolResult
Inlines(p, body, P, text, gate) ==
  /\ p \in P.selected
  /\ Quotes(Current(p, P))
  /\ IF gate THEN body # Current(p, P) ELSE ~CarriesQuoteable(text)

StableMarker(p) == [kind |-> "stable", path |-> p]

\* replaceTrackedReadToolResults
ReplaceTracked(messages, unitOf, P, text, injected) ==
  LET gate == SecondTurnGate(messages, P, text, injected)
      body(m) == IF Inlines(unitOf[m.call], m.body, P, text, gate)
                 THEN Current(unitOf[m.call], P)
                 ELSE StableMarker(unitOf[m.call])
  IN  [i \in DOMAIN messages |->
         LET m == messages[i]
         IN  IF m.role = "tool" /\ m.call \in DOMAIN unitOf
             THEN Result(m.call, body(m)) ELSE m]

\* A plausible bug: older projections are left as they are.
HistoricalLeft(messages) == messages

\* replaceHistoricalProjectionMessages
ReplaceHistorical(messages) ==
  [i \in DOMAIN messages |->
     IF IsProjection(messages[i])
     THEN User([kind |-> "served", units |-> Len(messages[i].body.frames)])
     ELSE messages[i]]

-----------------------------------------------------------------------------
(* Pairs that leave, and markers for those that stay.                      *)

\* servedReadCallIds...: an unresolved unit's reads count as served.
Served(unitOf, P) ==
  {c \in DOMAIN unitOf : unitOf[c] \in P.selected \cup P.unresolved}

\* trackedDumpPathsForCommand: the tracked files whose contents the output of
\* a shell command is taken to hold.
DumpedFiles(c, P) ==
  IF Named[c] # {} THEN Named[c] \cap Tracked(P)
  ELSE LET hits == Mentioned[c] \cap Tracked(P)
       IN  IF Cardinality(hits) = 1 THEN hits ELSE {}

\* staleShellDumpPathByCallId
StaleDumps(messages, unitOf, P) ==
  {c \in CallsIn(messages) :
     /\ Tool[c] = "shell"
     /\ DumpedFiles(c, P) # {}
     /\ ~ /\ Named[c] \subseteq DumpedFiles(c, P)
          /\ Cardinality(DumpedFiles(c, P)) = 1
          /\ c \in Served(unitOf, P)
          /\ DumpedFiles(c, P) \cap P.unresolved = {}}

DumpMarker(c, P) ==
  [kind |-> "dump",
   status |-> [p \in DumpedFiles(c, P) |-> Disposition(p, P)],
   others |-> Named[c] \ DumpedFiles(c, P)]

OmittedMarker(p, why) == [kind |-> "omitted", path |-> p, why |-> why]

Omissions == {"budget", "unresolved"}

\* history maps every call to the disposition it was last sent with.
\* A plausible bug: reads that are not served stay in the request.
DroppedNever(messages, unitOf, P, history) == {}

Dropped(messages, unitOf, P, history) ==
  {c \in ReadCalls(messages) \ Served(unitOf, P) :
     /\ ~(c \in DOMAIN unitOf /\ unitOf[c] \in P.budget)
     /\ history[c] \notin Omissions
     /\ c \notin StaleDumps(messages, unitOf, P)}

KeptBody(m, messages, unitOf, P, history) ==
  IF m.call \in StaleDumps(messages, unitOf, P) THEN DumpMarker(m.call, P)
  ELSE IF m.call \in DOMAIN unitOf /\ unitOf[m.call] \in P.budget
       THEN OmittedMarker(unitOf[m.call], "budget")
  ELSE IF history[m.call] \in Omissions
       THEN OmittedMarker(ReadOf[m.call], history[m.call])
  ELSE m.body

\* A message without the calls that leave.
WithoutCalls(m, gone, messages, unitOf, P, history) ==
  CASE m.role = "assistant" -> Assistant(m.says, m.calls \ gone)
    [] m.role = "tool" ->
         Result(m.call, KeptBody(m, messages, unitOf, P, history))
    [] OTHER -> m

\* A plausible bug: the results of the calls that leave stay.
DropCallsOnly(messages, unitOf, P, history) ==
  LET gone == Dropped(messages, unitOf, P, history)
      stays(m) == m.role = "assistant" => m.says \/ m.calls \ gone # {}
      kept == At(messages, {i \in DOMAIN messages : stays(messages[i])})
  IN  [i \in DOMAIN kept |->
         WithoutCalls(kept[i], gone, messages, unitOf, P, history)]

\* dropUnservedReadToolPairs
DropPairs(messages, unitOf, P, history) ==
  LET gone == Dropped(messages, unitOf, P, history)
      stays(m) == /\ m.role = "tool" => m.call \notin gone
                  /\ m.role = "assistant" => m.says \/ m.calls \ gone # {}
      kept == At(messages, {i \in DOMAIN messages : stays(messages[i])})
  IN  [i \in DOMAIN kept |->
         WithoutCalls(kept[i], gone, messages, unitOf, P, history)]

\* replaceBudgetOmittedReadQuoteability; latest are the reads that count.
QuoteOmitted(assembled, messages, unitOf, P, text, history, latest) ==
  LET quoted(m) ==
        /\ m.role = "tool"
        /\ m.call \in latest \cap DOMAIN unitOf
        /\ history[m.call] = "budget"
        /\ UserCount(messages) > 1
        /\ unitOf[m.call] \notin P.unresolved
        /\ Quotes(Current(unitOf[m.call], P))
        /\ ~CarriesQuoteable(text)
  IN  [i \in DOMAIN assembled |->
         LET m == assembled[i]
         IN  IF quoted(m) THEN Result(m.call, Current(unitOf[m.call], P))
             ELSE m]

\* A plausible bug: no projection is sent after a user's message.
WithTailAfterReply(messages, text) ==
  IF text = EmptyText \/ messages[Len(messages)].role = "user" THEN messages
  ELSE Append(messages, User(text))

WithTail(messages, text) ==
  IF text = EmptyText THEN messages ELSE Append(messages, User(text))

-----------------------------------------------------------------------------
(* What a request carries *)

\* The files, with their versions, whose bytes stand in a request.
Carried(messages) ==
  {b \in Bodies(messages) : b.kind = "text" /\ b.at # Gone}
  \cup UNION {Frames(b) : b \in Bodies(messages)}

\* Every result follows its call, and no call lost the result it had.
Paired(messages, native) ==
  /\ \A i \in DOMAIN messages :
       messages[i].role = "tool" =>
         \E j \in 1..(i - 1) : /\ messages[j].role = "assistant"
                               /\ messages[i].call \in messages[j].calls
  /\ CallsIn(messages) \cap ResultsIn(native) \subseteq ResultsIn(messages)
=============================================================================
