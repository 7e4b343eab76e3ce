---------------------------- MODULE HermesBridge ----------------------------
(***************************************************************************)
(* The bridge between Hermes and the engine (src/adapters/hermes): before  *)
(* each provider request the plugin starts a process that rewrites the     *)
(* transcript (select), and after each turn one that records it (observe). *)
(* Between the processes everything is in a state file: what was selected  *)
(* last (pending) and, once a later call finds evidence that the provider  *)
(* got it, what was injected.  A process that fails or runs out of time is *)
(* killed and the host goes on with its own messages.                      *)
(*                                                                         *)
(* The host is Hermes as the bridge uses it: it appends to a transcript,   *)
(* runs the tools a reply calls and may be interrupted by its user.        *)
(***************************************************************************)
EXTENDS RequestPrune, Selection

CONSTANTS
  Questions,     \* sets of calls a reply may make together
  Overlaps,      \* task terms a unit may contain
  Persists,      \* whether the host keeps the projection in its transcript
  Kills,         \* whether a bridge process may be killed
  Interrupts,    \* whether a user may interrupt a request
  Deletes,       \* whether files may disappear
  OldState,      \* the revisions in a state file of an earlier release
  MaxMessages, MaxEdits     \* bounds

ASSUME HermesAssumption ==
  /\ OnlyReadersRead
  /\ Calls \subseteq Nat
  /\ Questions \subseteq SUBSET Calls
  /\ Overlaps \subseteq Nat
  /\ {Persists, Kills, Interrupts, Deletes} \subseteq BOOLEAN
  /\ OldState \in [Paths -> Content]
  /\ MaxMessages \in Nat /\ MaxEdits \in Nat

VARIABLES
  disk,        \* the content of each file
  edits,       \* how often a file was written
  messages,    \* the host's transcript
  stage,       \* "user", "select", "send", "tools" or "observe"
  saved,       \* the state file
  working,     \* the projection of the last select that ended
  request,     \* the messages of the next provider request
  applied,     \* it is the bridge's, not the host's own
  received,    \* history: file contents the provider was sent
  lost         \* history: those of requests that were made and never sent,
               \* each with the user's message it was made for

vars == <<disk, edits, messages, stage, saved, working, request, applied,
          received, lost>>

None == [p \in Paths |-> Gone]
NoHistory == [c \in Calls |-> "none"]
NothingTracked ==
  [selected |-> {}, budget |-> {}, unresolved |-> {},
   content |-> None, changed |-> {}]

\* projectionStateVersion = 1, lastInjectedRevision, pendingInjectedRevision,
\* pendingProjectionText, pendingAckAfterUserIndex,
\* appliedReadDispositionByCallId and pendingReadDispositionByCallId.
State ==
  [versioned : BOOLEAN, last : [Paths -> Content],
   pending : [Paths -> Content], text : {EmptyText} \cup
     [kind : {"projection"}, frames : Seq([kind : {"text"}, path : Paths,
                                           at : Versions]),
      unresolved : Nat, budget : Nat],
   ackAfter : 0..MaxMessages,
   history : [Calls -> {"none"} \cup Omissions],
   pendingHistory : [Calls -> {"none"} \cup Omissions]]

TypeOK ==
  /\ disk \in [Paths -> Content]
  /\ edits \in 0..MaxEdits
  /\ Len(messages) =< MaxMessages
  /\ stage \in {"user", "select", "send", "tools", "observe"}
  /\ saved \in State
  /\ working \in Projections
  /\ applied \in BOOLEAN
  /\ \A b \in received \cup {l.body : l \in lost} :
       b.path \in Paths /\ b.at \in Versions

FreshState ==
  [versioned |-> FALSE, last |-> None, pending |-> None, text |-> EmptyText,
   ackAfter |-> 0, history |-> NoHistory, pendingHistory |-> NoHistory]

Init ==
  /\ disk \in [Paths -> Versions]
  /\ edits = 0
  /\ messages = <<>>
  /\ stage = "user"
  /\ saved \in {FreshState, [FreshState EXCEPT !.last = OldState]}
  /\ working = NothingTracked
  /\ request = <<>>
  /\ applied = FALSE
  /\ received = {} /\ lost = {}

-----------------------------------------------------------------------------
(* The delivery state *)

\* A plausible bug: the revisions of an earlier release are believed.
LoadedAsIs(s) == s

\* loadState: without its version the file holds no revisions.
Loaded(s) ==
  IF s.versioned THEN s ELSE [FreshState EXCEPT !.history = s.history]

Holds(f) == \E p \in Paths : f[p] # Gone
Omitted(h) == \E c \in Calls : h[c] # "none"

\* clearPendingInjectedRevision and clearPendingReadDisposition
Cleared(s) ==
  [s EXCEPT !.pending = None, !.text = EmptyText, !.ackAfter = 0,
            !.pendingHistory = NoHistory, !.versioned = Holds(s.last)]

\* commitPendingInjectedRevision
Committed(s) ==
  LET last == IF Holds(s.pending) THEN s.pending ELSE s.last
  IN  [Cleared([s EXCEPT !.last = last]) EXCEPT
         !.history = [c \in Calls |->
            IF s.pendingHistory[c] # "none" THEN s.pendingHistory[c]
            ELSE s.history[c]]]

Applied(s, transcript) ==
  /\ s.text # EmptyText
  /\ \E i \in DOMAIN transcript : transcript[i] = User(s.text)

\* assistantCompletesUserTurn: the user's message is followed by a reply before
\* the next user speaks.
Replied(transcript, user) ==
  /\ user \in DOMAIN transcript
  /\ transcript[user].role = "user"
  /\ \E i \in DOMAIN transcript :
       /\ i > user
       /\ transcript[i].role = "assistant"
       /\ \A j \in user + 1..i : transcript[j].role # "user"

\* A plausible bug: any later message counts as the answer.
AnsweredByAny(s, transcript) == s.ackAfter < Len(transcript)

\* requestOnlyProjectionDelivered, by the message the projection was made for.
Answered(s, transcript) == Replied(transcript, s.ackAfter)

\* promotePendingInjectedRevision
Promoted(s, transcript) ==
  CASE ~s.versioned -> s
    [] s.versioned /\ (\/ Applied(s, transcript)
                       \/ Holds(s.pending) /\ Answered(s, transcript)) ->
         Committed(s)
    [] OTHER -> IF Holds(s.pending) \/ Omitted(s.pendingHistory)
                THEN Cleared(s) ELSE s

-----------------------------------------------------------------------------
(* Select *)

Completed == CallsIn(messages) \cap ResultsIn(messages)

ResultOf(c) ==
  messages[CHOOSE i \in DOMAIN messages :
             messages[i].role = "tool" /\ messages[i].call = c].body

\* The active calls whose observation could be tracked: the latest official
\* read of each file and every recognised shell read of a file that is there.
UnitOf ==
  LET readable == {c \in Completed : ReadOf[c] # NoPath}
      tracked == LatestReads(messages, readable) \cup
                   {c \in readable : Tool[c] = "shell"
                                     /\ disk[ReadOf[c]] # Gone}
  IN  [c \in tracked |-> ReadOf[c]]

Units == {UnitOf[c] : c \in DOMAIN UnitOf}

\* An official read is tracked with what the transcript shows, a shell read
\* with the file; the refresh then reads the file.
Changed(p) ==
  \E c \in DOMAIN UnitOf :
    /\ UnitOf[c] = p
    /\ Tool[c] = "read"
    /\ ResultOf(c) # Text(p, disk[p])

\* lastUserMessageIndex
LastUser ==
  CHOOSE i \in DOMAIN messages :
    /\ messages[i].role = "user"
    /\ \A j \in DOMAIN messages : messages[j].role = "user" => j =< i

\* What the policy sees of a new engine's units, in turn 0.
Hand ==
  [p \in Units |->
     [state |-> IF disk[p] = Gone THEN "unresolved" ELSE "resolved",
      pinned |-> FALSE, lastUsedAt |-> 0, changedAt |-> 0,
      changeCount |-> IF Changed(p) THEN 1 ELSE 0,
      size |-> IF disk[p] = Gone THEN 0 ELSE Length[disk[p]]]]

ProjectionOf(chosen) ==
  LET unresolved == {p \in Units : disk[p] = Gone}
  IN  [selected |-> chosen,
       unresolved |-> unresolved,
       budget |-> Units \ (chosen \cup unresolved),
       content |-> [p \in Paths |-> IF p \in Units THEN disk[p] ELSE Gone],
       changed |-> {p \in Units : Changed(p)}]

\* The state that is saved before the request is assembled.  A plausible bug:
\* what was selected is recorded as injected at once.
PendingAtOnce(s, P, text) ==
  [s EXCEPT !.versioned = TRUE,
            !.last = [p \in Paths |-> IF p \in P.selected THEN P.content[p]
                                      ELSE Gone]]

Pending(s, P, text) ==
  LET revisions ==
        [p \in Paths |-> IF p \in P.selected THEN P.content[p] ELSE Gone]
      omissions ==
        [c \in Calls |->
           IF c \in DOMAIN UnitOf /\ UnitOf[c] \notin P.selected
           THEN Disposition(UnitOf[c], P) ELSE "none"]
  IN  IF text # EmptyText /\ (Holds(revisions) \/ Omitted(omissions))
      THEN [s EXCEPT !.versioned = TRUE,
                     !.pending = revisions,
                     !.text = text,
                     !.ackAfter = LastUser,
                     !.pendingHistory = omissions]
      ELSE Cleared(s)

Assembled(s, P, text) ==
  LET rewritten == ReplaceTracked(messages, UnitOf, P, text, s.last)
  IN  WithTail(DropPairs(ReplaceHistorical(rewritten), UnitOf, P, s.history),
               text)

\* The plugin got no answer, or one that applies nothing.
FallOpen ==
  /\ request' = messages
  /\ applied' = FALSE
  /\ working' = NothingTracked

Keep == UNCHANGED <<disk, edits, messages, received>>

SelectNothing ==
  /\ stage = "select"
  /\ Units = {}
  /\ LET s == Promoted(Loaded(saved), messages)
     IN  saved' = IF \E c \in Completed : ReadOf[c] # NoPath
                  THEN Cleared(s) ELSE s
  /\ FallOpen
  /\ stage' = "send"
  /\ UNCHANGED lost
  /\ Keep

\* What is lost when a request is not sent.
Losses(req) == {[body |-> b, user |-> LastUser] : b \in Carried(req)}

\* The process comes to its end, or is killed after it saved its state.
Select ==
  /\ stage = "select"
  /\ Units # {}
  /\ \E overlap \in [Units -> Overlaps], chosen \in SUBSET Units :
       /\ IsWorkingSet(chosen, Hand, 0, overlap)
       /\ LET s == Promoted(Loaded(saved), messages)
              P == ProjectionOf(chosen)
              text == ResolveProjectionText(messages, P, s.last)
          IN  /\ saved' = Pending(s, P, text)
              /\ \/ /\ request' = Assembled(s, P, text)
                    /\ applied' = TRUE
                    /\ working' = P
                    /\ lost' = lost
                 \/ /\ Kills
                    /\ FallOpen
                    /\ lost' = lost \cup Losses(Assembled(s, P, text))
  /\ stage' = "send"
  /\ Keep

\* It is killed before, or fails.
SelectKilled ==
  /\ stage = "select"
  /\ Kills
  /\ FallOpen
  /\ stage' = "send"
  /\ UNCHANGED <<saved, lost>>
  /\ Keep

-----------------------------------------------------------------------------
(* Observe *)

Observe ==
  /\ stage = "observe"
  /\ stage' = "user"
  /\ \/ saved' = Promoted(Loaded(saved), messages)
     \/ Kills /\ UNCHANGED saved
  /\ UNCHANGED <<request, applied, working, lost>>
  /\ Keep

-----------------------------------------------------------------------------
(* The host *)

UserSpeaks ==
  /\ stage = "user"
  /\ Len(messages) < MaxMessages
  /\ messages' = Append(messages, User(Words))
  /\ stage' = "select"
  /\ UNCHANGED <<disk, edits, saved, working, request, applied, received,
                 lost>>

\* The provider is sent the request and replies, in words or with calls.
Answer ==
  /\ stage = "send"
  /\ \E calls \in Questions \cup {{}} :
       /\ calls \cap CallsIn(messages) = {}
       /\ LET tail == request[Len(request)]
              shown == IF Persists /\ applied /\ IsProjection(tail)
                       THEN Append(messages, tail) ELSE messages
          IN  messages' = Append(shown, Assistant(calls = {}, calls))
       /\ Len(messages') + Cardinality(calls) =< MaxMessages
       /\ stage' = IF calls = {} THEN "observe" ELSE "tools"
  /\ received' = received \cup Carried(request)
  /\ UNCHANGED <<disk, edits, saved, working, request, applied, lost>>

Interrupted ==
  /\ Interrupts
  /\ stage = "send"
  /\ stage' \in {"user", "observe"}
  /\ lost' = IF applied THEN lost \cup Losses(request) ELSE lost
  /\ UNCHANGED <<saved, working, request, applied>>
  /\ Keep

ShownBy(c) ==
  IF ReadOf[c] = NoPath THEN Output(c)
  ELSE Text(ReadOf[c], disk[ReadOf[c]])

RunTools ==
  /\ stage = "tools"
  /\ \E c \in CallsIn(messages) \ ResultsIn(messages) :
       /\ messages' = Append(messages, Result(c, ShownBy(c)))
       /\ \A d \in CallsIn(messages) \ ResultsIn(messages) : c =< d
       /\ stage' = IF CallsIn(messages) \subseteq ResultsIn(messages) \cup {c}
                   THEN "select" ELSE "tools"
  /\ UNCHANGED <<disk, edits, saved, working, request, applied, received,
                 lost>>

Edit ==
  /\ stage \in {"user", "select"}
  /\ edits < MaxEdits
  /\ edits' = edits + 1
  /\ \E p \in Paths, v \in Content :
       /\ v # disk[p]
       /\ v = Gone => Deletes
       /\ disk' = [disk EXCEPT ![p] = v]
  /\ UNCHANGED <<messages, stage, saved, working, request, applied, received,
                 lost>>

Next ==
  \/ SelectNothing \/ Select \/ SelectKilled \/ Observe
  \/ UserSpeaks \/ Answer \/ Interrupted \/ RunTools \/ Edit

Spec == Init /\ [][Next]_vars

-----------------------------------------------------------------------------
(* Properties *)

Ready == stage = "send" /\ applied

(***************************************************************************)
(* Whatever leaves a request, no call stays without the result it had and  *)
(* no result without its call: providers refuse such a request             *)
(* (request-prune.mjs:662-752).                                            *)
(***************************************************************************)
PairsStay == Ready => Paired(request, messages)

(***************************************************************************)
(* A request of the bridge shows a file only as it was when the request    *)
(* was made: earlier reads, shell dumps and projections of it have left or *)
(* are markers (request-prune.mjs, bridge.mjs:804-822).                    *)
(***************************************************************************)
NoStaleBody ==
  Ready => \A b \in Carried(request) : b.at = working.content[b.path]

(***************************************************************************)
(* A file that was selected and is not empty is missing from a request     *)
(* only where a marker stands for its read, of an omitted file or of a     *)
(* dump: also when the projection collapses because the file was injected  *)
(* before, and whatever became of that request                             *)
(* (request-prune.mjs:529-752, bridge.mjs:804-822).                        *)
(***************************************************************************)
NothingVanishes ==
  Ready => \A p \in working.selected :
             Quotes(Current(p, working)) =>
               \/ Current(p, working) \in Carried(request)
               \/ \E why \in Omissions : OmittedMarker(p, why) \in Bodies(request)
               \/ \E c \in Calls : /\ ReadOf[c] = p
                                  /\ DumpMarker(c, working) \in Bodies(request)

(***************************************************************************)
(* A request that goes out is one the provider accepts and the model may   *)
(* believe: pairs are whole, no body is older than the request, and no     *)
(* selected file is left out in silence (request-prune.mjs:662-752,        *)
(* bridge.mjs:804-822).                                                    *)
(***************************************************************************)
RequestIsSound == TypeOK /\ PairsStay /\ NoStaleBody /\ NothingVanishes

(***************************************************************************)
(* Every selected file that is not empty stands in the request with its    *)
(* bytes, in the projection or, where that is left out because it was      *)
(* injected before, at the read itself: also when the provider never got   *)
(* what the state file says was injected (adapters/hermes/README.md:66).   *)
(***************************************************************************)
SelectedIsCarried ==
  Ready => \A p \in working.selected :
             Quotes(Current(p, working)) => Current(p, working) \in Carried(request)

(***************************************************************************)
(* What the state file says was injected was sent to the provider, or was  *)
(* in a request that was lost, by a kill or an interrupt, in a turn that   *)
(* has a reply: the reply to another request of the turn is taken for the  *)
(* one to this (bridge.mjs:201-245). Without a reply a request that was    *)
(* not sent commits nothing, nor does what an earlier release noted.       *)
(***************************************************************************)
InjectedHasEvidence ==
  \A p \in Paths : Loaded(saved).last[p] # Gone =>
    LET body == Text(p, Loaded(saved).last[p])
    IN  \/ body \in received
        \/ \E l \in lost : l.body = body /\ Replied(messages, l.user)

(***************************************************************************)
(* What the state file says was injected has been in a request that the    *)
(* provider answered (bridge.mjs:203-245). The code keeps it when no       *)
(* request is lost: the reply that made the last tool call counts as       *)
(* evidence for a request after it (bridge.mjs:213).                       *)
(***************************************************************************)
InjectedWasReceived ==
  \A p \in Paths : Loaded(saved).last[p] # Gone =>
                     Text(p, Loaded(saved).last[p]) \in received

(***************************************************************************)
(* A marker that says the file's current content is supplied stands in a   *)
(* request that supplies it (transcript.mjs:2, bridge.mjs:804-822). The    *)
(* code keeps it while no file goes missing: the read of a unit that is    *)
(* unresolved counts as served and gets this marker.                       *)
(***************************************************************************)
MarkersAreTrue ==
  Ready => \A p \in Paths :
             StableMarker(p) \in Bodies(request) =>
               /\ p \in working.selected
               /\ \/ Current(p, working) \in Carried(request)
                  \/ ~Quotes(Current(p, working))

(***************************************************************************)
(* Making a request changes nothing that the next request depends on       *)
(* (adapters/hermes/README.md:77, docs/ARCHITECTURE.md:231). The code does *)
(* not keep it: select saves the state with what is pending                *)
(* (bridge.mjs:803).                                                       *)
(***************************************************************************)
SelectOnlyReads ==
  [][stage = "select" /\ stage' = "send" => saved' = saved]_vars
=============================================================================
