---------------------------- MODULE PiExtension ----------------------------
(***************************************************************************)
(* The Pi extension (src/adapters/pi/extension.ts): one engine per process *)
(* that the handlers of four events share.  tool_result tracks what a tool *)
(* read, context rewrites the transcript of the active branch before each  *)
(* provider request, before_provider_request looks for the projection in   *)
(* the outgoing payload and then records it as injected.                   *)
(*                                                                         *)
(* The host is Pi as the extension uses it: its session is a tree, of      *)
(* which the user can leave the branch and come back; its process may end  *)
(* and start again with the session only.                                  *)
(***************************************************************************)
EXTENDS RequestPrune, Selection

CONSTANTS
  Questions,     \* sets of calls a reply may make together
  Overlaps,      \* task terms a unit may contain
  Deletes,       \* whether files may disappear
  Forks,         \* whether the user may leave the branch
  Races,         \* whether a file may change between a tool and its event
  Restarts,      \* whether the process may start again
  MaxMessages, MaxEdits, MaxTurn     \* bounds

ASSUME PiAssumption ==
  /\ OnlyReadersRead
  /\ Calls \subseteq Nat
  /\ Questions \subseteq SUBSET Calls
  /\ Overlaps \subseteq Nat
  /\ {Deletes, Forks, Races, Restarts} \subseteq BOOLEAN
  /\ MaxMessages \in Nat /\ MaxEdits \in Nat /\ MaxTurn \in Nat

VARIABLES
  disk,        \* the content of each file
  edits,       \* how often a file was written
  messages,    \* the active branch
  aside,       \* the branch that was left
  stage,       \* "user", "context", "payload", "tools" or "event"
  turn,        \* engine.turn
  units,       \* the registry: the card of each tracked file
  callToUnit,  \* calls that have a unit
  callMeta,    \* official reads that ever had one
  last, history,                  \* lastInjectedRevision, appliedRead...
  pending, pendingHistory, text,  \* what the next payload is looked up for
  working,     \* the projection of the last context event
  request,     \* the messages of the next provider request
  applied,     \* they are the extension's, not the host's own
  sent         \* history: file contents that were in a payload

host == <<disk, edits, messages, aside>>
delivery == <<last, history, pending, pendingHistory, text>>
outgoing == <<working, request, applied, sent>>
tracking == <<turn, units, callToUnit, callMeta>>
vars == <<host, stage, tracking, delivery, outgoing>>

None == [p \in Paths |-> Gone]
NoHistory == [c \in Calls |-> "none"]
NothingTracked ==
  [selected |-> {}, budget |-> {}, unresolved |-> {},
   content |-> None, changed |-> {}]

Unit == [content : Versions, state : {"resolved", "unresolved"},
         lastUsedAt : 0..MaxTurn, changedAt : 0..MaxTurn, changeCount : 0..1,
         versions : SUBSET Versions]

TypeOK ==
  /\ disk \in [Paths -> Content]
  /\ edits \in 0..MaxEdits
  /\ Len(messages) =< MaxMessages
  /\ stage \in {"user", "context", "payload", "tools", "event"}
  /\ turn \in 0..MaxTurn
  /\ \A p \in DOMAIN units : p \in Paths /\ units[p] \in Unit
  /\ \A c \in callToUnit : ReadOf[c] \in DOMAIN units
  /\ \A c \in callMeta : Tool[c] = "read" /\ ReadOf[c] # NoPath
  /\ {last, pending} \subseteq [Paths -> Content]
  /\ {history, pendingHistory} \subseteq [Calls -> {"none"} \cup Omissions]
  /\ working \in Projections
  /\ applied \in BOOLEAN

Init ==
  /\ disk \in [Paths -> Versions]
  /\ edits = 0 /\ messages = <<>> /\ aside = <<>>
  /\ stage = "user"
  /\ turn = 0 /\ units = <<>> /\ callToUnit = {} /\ callMeta = {}
  /\ last = None /\ history = NoHistory
  /\ pending = None /\ pendingHistory = NoHistory /\ text = EmptyText
  /\ working = NothingTracked /\ request = <<>> /\ applied = FALSE
  /\ sent = {}

-----------------------------------------------------------------------------
(* tool_result *)

\* A change is counted once; the policy asks only whether there was one.
Observed(p, v) ==
  IF p \in DOMAIN units
  THEN LET u == units[p]
       IN  [u EXCEPT !.content = v, !.state = "resolved",
                     !.lastUsedAt = turn,
                     !.changedAt = IF v = u.content THEN @ ELSE turn,
                     !.changeCount = IF v = u.content THEN @ ELSE 1,
                     !.versions = @ \cup {v}]
  ELSE [content |-> v, state |-> "resolved", lastUsedAt |-> turn,
        changedAt |-> turn, changeCount |-> 0, versions |-> {v}]

\* The tool has run; its result stands in the session.
Pending == CallsIn(messages) \ ResultsIn(messages)

ShownBy(c) ==
  IF ReadOf[c] = NoPath THEN Output(c)
  ELSE Text(ReadOf[c], disk[ReadOf[c]])

RunTool ==
  /\ stage = "tools"
  /\ \E c \in Pending :
       /\ \A d \in Pending : c =< d
       /\ messages' = Append(messages, Result(c, ShownBy(c)))
  /\ stage' = "event"
  /\ UNCHANGED <<disk, edits, aside, tracking, delivery,
                 outgoing>>

\* The event of the last result: the file is read again, and tracked.
ToolResult ==
  /\ stage = "event"
  /\ LET m == messages[Len(messages)]
         p == ReadOf[m.call]
         tracks == /\ Tool[m.call] # "other" /\ p # NoPath
                   /\ m.body.at # Gone /\ disk[p] # Gone
     IN  \/ /\ tracks
            /\ units' = [q \in DOMAIN units \cup {p} |->
                           IF q = p THEN Observed(p, disk[p]) ELSE units[q]]
            /\ callToUnit' = callToUnit \cup {m.call}
            /\ callMeta' = IF Tool[m.call] = "read" THEN callMeta \cup {m.call}
                           ELSE callMeta
         \/ /\ ~tracks
            /\ UNCHANGED <<units, callToUnit, callMeta>>
  /\ stage' = IF Pending = {} THEN "context" ELSE "tools"
  /\ UNCHANGED <<host, turn, delivery, outgoing>>

-----------------------------------------------------------------------------
(* context *)

\* A plausible bug: the calls of a branch that was left stay active.
ActiveAnywhere == callToUnit

\* Official reads count when they are the latest of their file on the branch,
\* shell reads always; a call that lost its unit does not get it back.
Active ==
  callToUnit \cap ({c \in Calls : Tool[c] = "shell"}
                  \cup LatestReads(messages, callMeta))

\* A plausible bug: the archive keeps the current version only.
RefreshedAlone(u, p) ==
  IF disk[p] = Gone THEN [u EXCEPT !.state = "unresolved"]
  ELSE [u EXCEPT !.content = disk[p], !.state = "resolved",
                 !.changedAt = IF disk[p] = u.content THEN @ ELSE turn,
                 !.changeCount = IF disk[p] = u.content THEN @ ELSE 1,
                 !.versions = {disk[p]}]

Refreshed(u, p) ==
  IF disk[p] = Gone THEN [u EXCEPT !.state = "unresolved"]
  ELSE [u EXCEPT !.content = disk[p], !.state = "resolved",
                 !.changedAt = IF disk[p] = u.content THEN @ ELSE turn,
                 !.changeCount = IF disk[p] = u.content THEN @ ELSE 1,
                 !.versions = @ \cup {disk[p]}]

\* A plausible bug: units of missing files are forgotten, their calls not.
SynchronisedThere ==
  [p \in {ReadOf[c] : c \in Active} \ {q \in Paths : disk[q] = Gone} |->
     Refreshed(units[p], p)]

\* syncRegistryToActiveCalls and the refresh
Synchronised ==
  [p \in {ReadOf[c] : c \in Active} |-> Refreshed(units[p], p)]

HandOf(known) ==
  [p \in DOMAIN known |->
     [state |-> known[p].state, pinned |-> FALSE,
      lastUsedAt |-> known[p].lastUsedAt, changedAt |-> known[p].changedAt,
      changeCount |-> known[p].changeCount,
      size |-> Length[known[p].content]]]

ProjectionOf(known, chosen) ==
  LET unresolved == {p \in DOMAIN known : known[p].state = "unresolved"}
  IN  [selected |-> chosen,
       unresolved |-> unresolved,
       budget |-> DOMAIN known \ (chosen \cup unresolved),
       content |-> [p \in Paths |->
                      IF p \in DOMAIN known \ unresolved
                      THEN known[p].content ELSE Gone],
       changed |-> {p \in DOMAIN known : known[p].changeCount > 0}]

UnitOf == [c \in Active |-> ReadOf[c]]

Assembled(P, tail) ==
  LET rewritten ==
        ReplaceHistorical(ReplaceTracked(messages, UnitOf, P, tail, last))
      pruned == DropPairs(rewritten, UnitOf, P, history)
      latest == LatestReads(messages, callMeta)
  IN  WithTail(QuoteOmitted(pruned, messages, UnitOf, P, tail, history,
                            latest), tail)

OmittedNow(P) ==
  [c \in Calls |->
     IF c \in Active /\ ReadOf[c] \notin P.selected
     THEN Disposition(ReadOf[c], P) ELSE "none"]

Revisions(P) ==
  [p \in Paths |-> IF p \in P.selected THEN P.content[p] ELSE Gone]

Context ==
  /\ stage = "context"
  /\ units # <<>>
  /\ \E overlap \in [DOMAIN Synchronised -> Overlaps],
        chosen \in SUBSET DOMAIN Synchronised :
       /\ IsWorkingSet(chosen, HandOf(Synchronised), turn, overlap)
       /\ LET P == ProjectionOf(Synchronised, chosen)
              tail == ResolveProjectionText(messages, P, last)
          IN  /\ units' = [p \in DOMAIN Synchronised |->
                             IF p \in chosen
                             THEN [Synchronised[p] EXCEPT !.lastUsedAt = turn]
                             ELSE Synchronised[p]]
              /\ pending' = Revisions(P)
              /\ pendingHistory' = OmittedNow(P)
              /\ text' = tail
              /\ working' = P
              /\ request' = Assembled(P, tail)
  /\ callToUnit' = Active
  /\ applied' = TRUE
  /\ stage' = "payload"
  /\ UNCHANGED <<host, turn, callMeta, last, history, sent>>

ContextOfNothing ==
  /\ stage = "context"
  /\ units = <<>>
  /\ request' = messages
  /\ applied' = FALSE
  /\ working' = NothingTracked
  /\ stage' = "payload"
  /\ UNCHANGED <<host, tracking, delivery, sent>>

-----------------------------------------------------------------------------
(* before_provider_request, and the reply *)

\* The dispositions of a request replace those of earlier ones, call by call.
Overlaid(new, old) ==
  [c \in Calls |-> IF new[c] # "none" THEN new[c] ELSE old[c]]

\* A plausible bug: what is pending counts as injected without evidence.
FoundAnyway(payload) == TRUE

Found(payload) ==
  /\ text # EmptyText
  /\ \E i \in DOMAIN payload : payload[i] = User(text)

\* The payload may have another shape than the messages, as providers differ:
\* then it shows no projection, although it is there.
BeforeProviderRequest ==
  /\ stage = "payload"
  /\ \E payload \in {request, messages} :
       /\ IF Found(payload)
          THEN /\ last' = pending
               /\ history' = Overlaid(pendingHistory, history)
          ELSE UNCHANGED <<last, history>>
       /\ sent' = sent \cup Carried(payload)
  /\ pending' = None /\ pendingHistory' = NoHistory /\ text' = EmptyText
  /\ \E calls \in Questions \cup {{}} :
       /\ calls \cap (CallsIn(messages) \cup CallsIn(aside)) = {}
       /\ Len(messages) + 1 + Cardinality(calls) =< MaxMessages
       /\ messages' = Append(messages, Assistant(calls = {}, calls))
       /\ stage' = IF calls = {} THEN "user" ELSE "tools"
  /\ working' = NothingTracked /\ request' = <<>> /\ applied' = FALSE
  /\ UNCHANGED <<disk, edits, aside, tracking>>

-----------------------------------------------------------------------------
(* The host *)

UserSpeaks ==
  /\ stage = "user"
  /\ Len(messages) < MaxMessages
  /\ messages' = Append(messages, User(Words))
  /\ stage' = "context"
  /\ UNCHANGED <<disk, edits, aside, tracking, delivery,
                 outgoing>>

\* turn_start: Pi counts the provider calls of one prompt.
TurnStart ==
  /\ stage \in {"context"}
  /\ turn' \in {0, turn + 1} \ {turn}
  /\ turn' =< MaxTurn
  /\ UNCHANGED <<host, stage, units, callToUnit, callMeta, delivery, outgoing>>

Edit ==
  /\ stage \in {"user", "context"} \cup (IF Races THEN {"event"} ELSE {})
  /\ edits < MaxEdits
  /\ edits' = edits + 1
  /\ \E p \in Paths, v \in Content :
       /\ v # disk[p]
       /\ v = Gone => Deletes
       /\ disk' = [disk EXCEPT ![p] = v]
  /\ UNCHANGED <<messages, aside, stage, tracking, delivery,
                 outgoing>>

\* Back to the state before some message of the user.
Fork ==
  /\ Forks /\ stage = "user" /\ aside = <<>>
  /\ \E i \in DOMAIN messages :
       /\ messages[i].role = "user"
       /\ messages' = SubSeq(messages, 1, i - 1)
  /\ aside' = messages
  /\ UNCHANGED <<disk, edits, stage, tracking, delivery,
                 outgoing>>

Return ==
  /\ stage = "user" /\ aside # <<>>
  /\ messages' = aside
  /\ aside' = messages
  /\ UNCHANGED <<disk, edits, stage, tracking, delivery,
                 outgoing>>

Restart ==
  /\ Restarts /\ stage = "user"
  /\ turn' = 0 /\ units' = <<>> /\ callToUnit' = {} /\ callMeta' = {}
  /\ last' = None /\ history' = NoHistory
  /\ pending' = None /\ pendingHistory' = NoHistory /\ text' = EmptyText
  /\ UNCHANGED <<host, stage, outgoing>>

Next ==
  \/ RunTool \/ ToolResult
  \/ Context \/ ContextOfNothing \/ BeforeProviderRequest
  \/ UserSpeaks \/ TurnStart \/ Edit \/ Fork \/ Return \/ Restart

Spec == Init /\ [][Next]_vars

-----------------------------------------------------------------------------
(* Properties *)

Ready == stage = "payload" /\ applied

(***************************************************************************)
(* Whatever leaves a request, no call stays without the result it had and  *)
(* no result without its call, on whichever branch the request is made     *)
(* (request-prune.mjs:662-752).                                            *)
(***************************************************************************)
PairsStay == Ready => Paired(request, messages)

(***************************************************************************)
(* A request shows a file only as it was when the request was made: reads  *)
(* from before the last edit, from a branch that was left, or from before  *)
(* a restart have gone or are markers (extension.ts:312-411).              *)
(***************************************************************************)
NoStaleBody ==
  Ready => \A b \in Carried(request) : b.at = working.content[b.path]

(***************************************************************************)
(* A request that goes out is one the provider accepts and the model may   *)
(* believe: pairs are whole and no body is older than the request          *)
(* (request-prune.mjs:662-752, extension.ts:338-411).                      *)
(***************************************************************************)
RequestIsSound == TypeOK /\ PairsStay /\ NoStaleBody

(***************************************************************************)
(* Every selected file that is not empty stands in the request with its    *)
(* bytes, in the projection or at the read itself, also when it was over   *)
(* budget before (extension.ts:338-411). The code keeps it on one branch:  *)
(* the projection of a file that only a shell command of a branch that was *)
(* left read is left out as injected before, and no read is left to carry  *)
(* the bytes (extension.ts:316-325).                                       *)
(***************************************************************************)
SelectedIsCarried ==
  Ready => \A p \in working.selected :
             Quotes(Current(p, working)) => Current(p, working) \in Carried(request)

(***************************************************************************)
(* A marker that says the file's current content is supplied stands in a   *)
(* request that supplies it, also when the unit is over budget or its      *)
(* branch was left in between (transcript.mjs:2, extension.ts:338-411).    *)
(* The code keeps it while no file goes missing.                           *)
(***************************************************************************)
MarkersAreTrue ==
  Ready => \A p \in Paths :
             StableMarker(p) \in Bodies(request) =>
               /\ p \in working.selected
               /\ \/ Current(p, working) \in Carried(request)
                  \/ ~Quotes(Current(p, working))

(***************************************************************************)
(* What counts as injected was in a payload (extension.ts:202-213).        *)
(***************************************************************************)
InjectedWasSent ==
  \A p \in Paths : last[p] # Gone => Text(p, last[p]) \in sent

(***************************************************************************)
(* A request carries a file that no call of its branch read only when a    *)
(* shell command read it, however often the user moved between branches:   *)
(* those calls never become inactive (extension.ts:74-92, 316-325).        *)
(***************************************************************************)
OnlyThisBranch ==
  Ready => \A b \in Carried(request) :
             \E c \in Calls :
               /\ ReadOf[c] = b.path
               /\ \/ c \in CallsIn(messages)
                  \/ Tool[c] = "shell" /\ c \in callToUnit

(***************************************************************************)
(* What a read showed and a request no longer does can be recovered from   *)
(* the archive of its file's unit (SOUL.md:34-35, extension.ts:296-300).   *)
(* The code keeps it while the user stays on a branch: to leave one        *)
(* deletes its units with their archives (extension.ts:90).                *)
(***************************************************************************)
MaskedIsRecoverable ==
  Ready => \A i \in DOMAIN messages :
    LET m == messages[i]
    IN  (m.role = "tool" /\ m.body.kind = "text"
         /\ m.body \notin Bodies(request)) =>
          m.body.path \in DOMAIN units /\ m.body.at \in units[m.body.path].versions

(***************************************************************************)
(* A result that the extension does not track stays what it was            *)
(* (extension.ts:307-308, docs/ARCHITECTURE.md:185). The code does not     *)
(* keep it: the output of a command whose text mentions a tracked file is  *)
(* replaced, whatever it is (request-prune.mjs:555).                       *)
(***************************************************************************)
UntrackedIsPreserved ==
  Ready => \A i \in DOMAIN messages :
    messages[i].role = "tool" /\ messages[i].call \notin callToUnit =>
      \E j \in DOMAIN request : request[j] = messages[i]
=============================================================================
