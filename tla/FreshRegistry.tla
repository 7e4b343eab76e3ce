---------------------------- MODULE FreshRegistry ----------------------------
(***************************************************************************)
(* The engine of src/engine.mjs with its registry of observed units        *)
(* (src/registry.mjs): reads are tracked, and for each request all units   *)
(* are refreshed, one after the other, from a workspace that tools and     *)
(* people go on editing, until the selection of the policy is projected.   *)
(*                                                                         *)
(* A refresh waits for the source of each unit and, where a semantic       *)
(* engine is injected, for its answer; edits happen in between.  A host    *)
(* tracks reads between requests, not during one: tool results are         *)
(* complete before the next provider call is prepared.                     *)
(***************************************************************************)
EXTENDS Resolution, Selection

CONSTANTS
  Paths,            \* files of the workspace
  Texts,            \* what may stand in a file
  Missing,          \* a deleted file
  Reads,            \* the reads a host makes, see ReadType
  Identities,       \* every identity a unit can have, in the order of its hash
  NoSelector,
  EngineInjected,   \* whether a semanticEngineRunner is given
  EngineServed,     \* the paths with an extension in FILE_REGION_ISE_EXTENSIONS
  Answers(_),       \* the answers the semantic engine may give for a text
  Locate(_, _, _),  \* resolveRegion(content, current text, stored start line)
  Overlaps,         \* how many task terms a unit may contain
  MaxTurn, MaxEdits, MaxReads     \* bounds

ReadType == [path : Paths, scope : {"file", "region", "symbol"},
             selector : STRING, from : Nat \ {0}, to : Nat \ {0},
             pinned : BOOLEAN, counted : BOOLEAN]

ASSUME RegistryAssumption ==
  /\ EngineServed \subseteq Paths
  /\ Missing \notin Texts
  /\ \A t \in Texts : t \in Seq(Seq(STRING)) /\ t # <<>>
  /\ EngineInjected \in BOOLEAN
  /\ Reads \subseteq ReadType
  /\ Overlaps \subseteq Nat
  /\ MaxTurn \in Nat /\ MaxEdits \in Nat /\ MaxReads \in Nat

VARIABLES
  workspace,   \* the text of each file now
  turn,
  units,       \* the registered units, by the place of their id in Identities
  phase,       \* idle, refreshing, engine (awaiting an answer), or built
  todo,        \* the units the refresh has not visited yet
  awaited,     \* the source the semantic engine was given
  request,     \* the units the built request carries
  reads,       \* how many reads were tracked
  version,     \* history: how often each file was written
  asOf,        \* history: the version of its file each unit was taken from
  began,       \* history: the versions when the request began
  changed      \* history: the units whose bytes this refresh changed

history == <<version, asOf, began, changed>>
vars == <<workspace, turn, units, phase, todo, awaited, request, reads, history>>

Nothing == [text |-> <<>>, version |-> 0]

Init ==
  /\ workspace \in [Paths -> Texts]
  /\ turn = 0
  /\ units = <<>>
  /\ phase = "idle" /\ todo = {} /\ awaited = Nothing /\ request = {}
  /\ reads = 0
  /\ version = [p \in Paths |-> 0] /\ began = version
  /\ asOf = <<>> /\ changed = {}

\* f with the value x at k, whether or not k was in its domain.
With(f, k, x) == [n \in DOMAIN f \cup {k} |-> IF n = k THEN x ELSE f[n]]

-----------------------------------------------------------------------------
(* Tools and people write and delete files at any time.                    *)

Edit(p, text) ==
  /\ text # workspace[p]
  /\ MapThenSumSet(LAMBDA q : version[q], Paths) < MaxEdits
  /\ workspace' = [workspace EXCEPT ![p] = text]
  /\ version' = [version EXCEPT ![p] = @ + 1]
  /\ UNCHANGED <<turn, units, phase, todo, awaited, request, reads, asOf,
                 began, changed>>

-----------------------------------------------------------------------------
(* trackRead.                                                              *)

\* A host cannot report lines that a file does not have.
Readable(r, text) ==
  /\ text # Missing
  /\ r.scope # "file" => r.from =< r.to /\ r.to =< Len(text)

ObservedContent(r, text) ==
  IF r.scope = "file" THEN text ELSE LinesOf(text, r.from, r.to)

ObservedStart(r) == IF r.scope = "region" THEN r.from ELSE 1

ObservedEnd(r, text) == ObservedStart(r) + Len(ObservedContent(r, text)) - 1

\* What stableUnitId hashes: the selector if there is one, else the lines.
Identity(r, text) ==
  <<r.path, r.scope, IF r.selector # NoSelector THEN r.selector
                     ELSE <<ObservedStart(r), ObservedEnd(r, text)>> >>

ASSUME IdentitiesAssumption ==
  /\ DOMAIN Identities \subseteq Nat
  /\ \A r \in Reads, text \in Texts :
       Readable(r, text) =>
         \E n \in DOMAIN Identities : Identities[n] = Identity(r, text)

StableUnitId(r, text) ==
  CHOOSE n \in DOMAIN Identities : Identities[n] = Identity(r, text)

Lines(start, end) == [startLine |-> start, endLine |-> end]

NewUnit(r, text) ==
  [path |-> r.path, scope |-> r.scope, selector |-> r.selector,
   content |-> ObservedContent(r, text),
   startLine |-> ObservedStart(r), endLine |-> ObservedEnd(r, text),
   lastUsedAt |-> turn, changedAt |-> turn, changeCount |-> 0,
   pinned |-> r.pinned,
   observedFileLineCount |-> IF r.counted THEN Len(text) ELSE 0,
   state |-> "resolved",
   versions |-> With(<<>>, ObservedContent(r, text),
                     Lines(ObservedStart(r), ObservedEnd(r, text)))]

\* Plausible bugs: a change dated to the next turn, a change that is not
\* counted, one that is counted once only, and an archive that is written
\* only when the bytes differ.
RewrittenNextTurn(u, content, start, end) ==
  LET differs == content # u.content
  IN  [u EXCEPT !.content = content, !.startLine = start, !.endLine = end,
                !.state = "resolved",
                !.changedAt = IF differs THEN turn + 1 ELSE @,
                !.changeCount = IF differs THEN @ + 1 ELSE @,
                !.versions = With(@, content, Lines(start, end))]

RewrittenUncounted(u, content, start, end) ==
  LET differs == content # u.content
  IN  [u EXCEPT !.content = content, !.startLine = start, !.endLine = end,
                !.state = "resolved",
                !.changedAt = IF differs THEN turn ELSE @,
                !.versions = With(@, content, Lines(start, end))]

RewrittenCountedOnce(u, content, start, end) ==
  LET differs == content # u.content
  IN  [u EXCEPT !.content = content, !.startLine = start, !.endLine = end,
                !.state = "resolved",
                !.changedAt = IF differs THEN turn ELSE @,
                !.changeCount = IF differs THEN 1 ELSE @,
                !.versions = With(@, content, Lines(start, end))]

RewrittenArchivingChanges(u, content, start, end) ==
  LET differs == content # u.content
  IN  [u EXCEPT !.content = content, !.startLine = start, !.endLine = end,
                !.state = "resolved",
                !.changedAt = IF differs THEN turn ELSE @,
                !.changeCount = IF differs THEN @ + 1 ELSE @,
                !.versions = IF differs
                             THEN With(@, content, Lines(start, end)) ELSE @]

\* The bytes a unit has from now on, with the archive and change bookkeeping.
Rewritten(u, content, start, end) ==
  LET differs == content # u.content
  IN  [u EXCEPT !.content = content,
                !.startLine = start, !.endLine = end,
                !.state = "resolved",
                !.changedAt = IF differs THEN turn ELSE @,
                !.changeCount = IF differs THEN @ + 1 ELSE @,
                !.versions = With(@, content, Lines(start, end))]

\* A plausible bug: a second read registers the unit afresh.
ReadAfresh(u, r, text) == NewUnit(r, text)

ReadAgain(u, r, text) ==
  [Rewritten(u, ObservedContent(r, text), ObservedStart(r), ObservedEnd(r, text))
     EXCEPT !.lastUsedAt = turn,
            !.pinned = @ \/ r.pinned,
            !.observedFileLineCount = IF r.counted THEN Len(text) ELSE @]

Track(r, id, unit) ==
  /\ units' = With(units, id, unit)
  /\ asOf' = With(asOf, id, version[r.path])
  /\ reads' = reads + 1
  /\ UNCHANGED <<workspace, turn, phase, todo, awaited, request, version,
                 began, changed>>

TrackNew(r) ==
  LET text == workspace[r.path]
      id   == StableUnitId(r, text)
  IN  /\ phase = "idle" /\ reads < MaxReads /\ Readable(r, text)
      /\ id \notin DOMAIN units
      /\ Track(r, id, NewUnit(r, text))

TrackAgain(r) ==
  LET text == workspace[r.path]
      id   == StableUnitId(r, text)
  IN  /\ phase = "idle" /\ reads < MaxReads /\ Readable(r, text)
      /\ id \in DOMAIN units
      /\ Track(r, id, ReadAgain(units[id], r, text))

-----------------------------------------------------------------------------
(* refresh: the snapshot of the ids, and then one unit after the other.    *)

BeginRequest ==
  /\ phase = "idle"
  /\ phase' = "refreshing"
  /\ todo' = DOMAIN units
  /\ request' = {} /\ changed' = {} /\ began' = version
  /\ UNCHANGED <<workspace, turn, units, awaited, reads, version, asOf>>

\* The loop is at this unit: the smallest id of those it has yet to visit.
Visits(id) ==
  phase = "refreshing" /\ id \in todo /\ \A other \in todo : id =< other

WholeFile(text) == At("whole-file", text, 1, Len(text))

NeedsEngine(u) ==
  EngineInjected /\ (u.scope = "symbol" \/ u.path \in EngineServed)

ResolveLocally(u, text) ==
  IF u.scope = "symbol" THEN Unresolved
  ELSE IF u.scope = "file" THEN WholeFile(text)
  ELSE Rescued(u, text, Locate(u.content, text, u.startLine))

(***************************************************************************)
(* An answer is a failure (no engine output, a rejection), "broken" for a  *)
(* text that does not parse, or the outline: named spans, perhaps none.    *)
(***************************************************************************)
Named(u, answer) == {o \in answer.outline : u.selector \in o.names}

SpanOf(matches, text) ==
  LET o == CHOOSE m \in matches : TRUE
  IN  At("isolated-semantic-engine", text, o.from, o.to)

ResolveByAnswer(u, text, answer) ==
  LET matches == Named(u, answer)
  IN  IF answer.kind = "broken" THEN Unresolved
      ELSE IF answer.kind = "failed" THEN Rescued(u, text, Unresolved)
      ELSE IF u.scope = "file" THEN WholeFile(text)
      ELSE IF Cardinality(matches) = 1 THEN SpanOf(matches, text)
      ELSE IF u.scope = "region" /\ matches = {}
      THEN Rescued(u, text, Locate(u.content, text, u.startLine))
      ELSE Rescued(u, text, Unresolved)

\* A plausible bug: the loop does not leave the unit it has handled.
GoOnAgain(id) == phase' = "refreshing" /\ awaited' = Nothing /\ UNCHANGED todo

GoOn(id) == phase' = "refreshing" /\ todo' = todo \ {id} /\ awaited' = Nothing

\* Plausible bugs: a failed refresh that leaves the unit as it was, and one
\* that forgets the bytes an earlier refresh resolved.
UnresolveNot(id) == UNCHANGED <<units, asOf, changed>>

UnresolveAndClear(id) ==
  /\ units' = [units EXCEPT ![id].state = "unresolved",
                            ![id].content = <<<<>>>>]
  /\ UNCHANGED <<asOf, changed>>

Unresolve(id) ==
  /\ units' = [units EXCEPT ![id].state = "unresolved"]
  /\ UNCHANGED <<asOf, changed>>

Apply(id, outcome, taken) ==
  IF outcome = Unresolved THEN Unresolve(id)
  ELSE /\ units' = [units EXCEPT ![id] =
                      Rewritten(@, outcome.content, outcome.startLine,
                                outcome.endLine)]
       /\ asOf' = [asOf EXCEPT ![id] = taken]
       /\ changed' = IF outcome.content # units[id].content
                     THEN changed \cup {id} ELSE changed

InRefresh == UNCHANGED <<workspace, turn, request, reads, version, began>>

\* The provider throws, or has no text for the path.
SourceUnavailable(id) ==
  /\ Visits(id)
  /\ Unresolve(id)
  /\ GoOn(id)
  /\ InRefresh

ReadAndResolve(id) ==
  /\ Visits(id)
  /\ LET path == units[id].path
     IN  /\ workspace[path] # Missing
         /\ ~NeedsEngine(units[id])
         /\ Apply(id, ResolveLocally(units[id], workspace[path]), version[path])
  /\ GoOn(id)
  /\ InRefresh

ReadAndAskEngine(id) ==
  /\ Visits(id)
  /\ LET path == units[id].path
     IN  /\ workspace[path] # Missing
         /\ NeedsEngine(units[id])
         /\ awaited' = [text |-> workspace[path], version |-> version[path]]
  /\ phase' = "engine"
  /\ UNCHANGED <<units, todo, asOf, changed>>
  /\ InRefresh

EngineAnswers(id, answer) ==
  /\ phase = "engine"
  /\ id \in todo /\ \A other \in todo : id =< other
  /\ Apply(id, ResolveByAnswer(units[id], awaited.text, answer), awaited.version)
  /\ GoOn(id)
  /\ InRefresh

-----------------------------------------------------------------------------
(* project and markUsed, then the host sends the request; and the turns.   *)

Hand ==
  [id \in DOMAIN units |->
     [state |-> units[id].state, pinned |-> units[id].pinned,
      lastUsedAt |-> units[id].lastUsedAt, changedAt |-> units[id].changedAt,
      changeCount |-> units[id].changeCount,
      size |-> Len(Join(units[id].content))]]

Project ==
  /\ phase = "refreshing" /\ todo = {}
  /\ \E overlap \in [DOMAIN units -> Overlaps] :
       \E chosen \in SUBSET DOMAIN units :
         /\ IsWorkingSet(chosen, Hand, turn, overlap)
         /\ request' = chosen
         /\ units' = [id \in DOMAIN units |->
                       IF id \in chosen
                       THEN [units[id] EXCEPT !.lastUsedAt = turn]
                       ELSE units[id]]
  /\ phase' = "built"
  /\ UNCHANGED <<workspace, turn, todo, awaited, reads, history>>

Send ==
  /\ phase = "built"
  /\ phase' = "idle"
  /\ UNCHANGED <<workspace, turn, units, todo, awaited, request, reads, history>>

AdvanceTurn ==
  /\ phase = "idle" /\ turn < MaxTurn
  /\ turn' = turn + 1
  /\ UNCHANGED <<workspace, units, phase, todo, awaited, request, reads, history>>

-----------------------------------------------------------------------------

Refresh ==
  \/ \E id \in todo : \/ SourceUnavailable(id)
                      \/ ReadAndResolve(id)
                      \/ ReadAndAskEngine(id)
  \/ Project

Answered ==
  \E id \in todo, answer \in Answers(awaited.text) : EngineAnswers(id, answer)

Next ==
  \/ \E p \in Paths, text \in Texts \cup {Missing} : Edit(p, text)
  \/ \E r \in Reads : TrackNew(r) \/ TrackAgain(r)
  \/ BeginRequest \/ Refresh \/ Answered \/ Send \/ AdvanceTurn

Spec == Init /\ [][Next]_vars

(***************************************************************************)
(* A refresh is a loop of the host's event loop, and the engine's client   *)
(* settles every question: by an answer, an exit or its 10 s timer         *)
(* (ise/treesitter/client.mjs:17-65).  Nothing is assumed of edits, reads  *)
(* and turns.                                                              *)
(***************************************************************************)
FairSpec == Spec /\ WF_vars(Refresh) /\ WF_vars(Answered)

-----------------------------------------------------------------------------

UnitFields ==
  {"path", "scope", "selector", "content", "startLine", "endLine",
   "lastUsedAt", "changedAt", "changeCount", "pinned",
   "observedFileLineCount", "state", "versions"}

IsUnit(u, now) ==
  /\ DOMAIN u = UnitFields
  /\ u.path \in Paths /\ u.scope \in {"file", "region", "symbol"}
  /\ u.state \in {"resolved", "unresolved"}
  /\ u.pinned \in BOOLEAN
  /\ u.changeCount \in Nat
  /\ u.changedAt \in 0..now /\ u.lastUsedAt \in 0..now

\* The registry holds units, and a refresh visits registered ones.
TypeOK ==
  /\ workspace \in [Paths -> Texts \cup {Missing}]
  /\ turn \in Nat /\ reads \in Nat
  /\ phase \in {"idle", "refreshing", "engine", "built"}
  /\ DOMAIN units \subseteq DOMAIN Identities
  /\ \A id \in DOMAIN units : IsUnit(units[id], turn)
  /\ todo \subseteq DOMAIN units /\ request \subseteq DOMAIN units
  /\ awaited.version \in Nat
  /\ version \in [Paths -> Nat] /\ began \in [Paths -> Nat]
  /\ DOMAIN asOf = DOMAIN units
  /\ \A id \in DOMAIN asOf : asOf[id] \in Nat

(***************************************************************************)
(* No stale injection: whatever was edited, deleted or unreadable while    *)
(* the units were refreshed, a built request carries only units that are   *)
(* resolved and whose bytes were read after the request began              *)
(* (SOUL.md invariants 1 and 6; registry.mjs:258-358).                     *)
(***************************************************************************)
NoStaleInjection ==
  phase = "built" =>
    \A id \in request : /\ units[id].state = "resolved"
                         /\ asOf[id] >= began[units[id].path]

(***************************************************************************)
(* A unit whose bytes a refresh changed is in the request that refresh was *)
(* made for, whatever the budget (docs/ARCHITECTURE.md:140, PCR 0080).     *)
(***************************************************************************)
ChangedIsCarried == phase = "built" => changed \subseteq request

(***************************************************************************)
(* recover(id) finds the bytes the unit has, at the lines it has, also     *)
(* when it moved without changing, and after it became unresolved          *)
(* (registry.mjs:236-241, 352-357, 377-381).                               *)
(***************************************************************************)
ArchiveHoldsCurrent ==
  \A id \in DOMAIN units :
    LET u == units[id]
    IN  /\ u.content \in DOMAIN u.versions
        /\ u.versions[u.content] = Lines(u.startLine, u.endLine)

(***************************************************************************)
(* The archive of a unit has at most one revision per counted change, and  *)
(* the first.                                                              *)
(***************************************************************************)
ArchiveBounded ==
  \A id \in DOMAIN units :
    Cardinality(DOMAIN units[id].versions) =< units[id].changeCount + 1

(***************************************************************************)
(* The archive of a unit holds what recovery and the bound on memory need: *)
(* its present bytes, and no revision that was not counted as a change     *)
(* (registry.mjs:236-241, 352-381).                                        *)
(***************************************************************************)
ArchiveSound == ArchiveHoldsCurrent /\ ArchiveBounded

(***************************************************************************)
(* Exact recovery: what was observed or resolved once can always be        *)
(* recovered (SOUL.md invariant 3).                                        *)
(***************************************************************************)
ExactRecovery ==
  [][\A id \in DOMAIN units :
       /\ id \in DOMAIN units'
       /\ DOMAIN units[id].versions \subseteq DOMAIN units'[id].versions]_vars

(***************************************************************************)
(* Only a resolution or a read moves a unit: a unit that could not be      *)
(* refreshed keeps its last bytes and lines for a later attempt            *)
(* (registry.mjs:329-334; docs/GLOSSARY.md:33-35).                         *)
(***************************************************************************)
UnresolvedKeepsItsBytes ==
  [][\A id \in DOMAIN units :
       units'[id].state = "unresolved" =>
         /\ units'[id].content = units[id].content
         /\ units'[id].startLine = units[id].startLine
         /\ units'[id].changeCount = units[id].changeCount]_vars

(***************************************************************************)
(* A request that was begun is built: no edit, missing file or engine      *)
(* failure stops the refresh.                                              *)
(***************************************************************************)
RequestCompletes == phase \in {"refreshing", "engine"} ~> phase = "built"

(***************************************************************************)
(* One request carries one revision of a file. (docs/ARCHITECTURE.md,      *)
(* Workspace consistency.) The code does not keep it: each unit is read on *)
(* its own, and a file may be edited between two of its reads              *)
(* (registry.mjs:264).                                                     *)
(***************************************************************************)
CoherentRequest ==
  phase = "built" =>
    \A a, b \in request :
      units[a].path = units[b].path => asOf[a] = asOf[b]

(***************************************************************************)
(* One current copy: a file that was read as a whole is carried once.      *)
(***************************************************************************)
OneCurrentCopy ==
  phase = "built" =>
    \A a, b \in request :
      /\ units[a].path = units[b].path
      /\ units[a].scope = "file" /\ units[b].scope = "file"
        => a = b
=============================================================================
