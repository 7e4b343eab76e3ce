----------------------------- MODULE MCEndings -----------------------------
(***************************************************************************)
(* What must come to an end, each looked at by itself while the others     *)
(* stay in their first state: a question to the semantic engine, the       *)
(* handlers of the capture provider, and the requests of the registry (the *)
(* engine's world of MCFreshRegistry).                                     *)
(***************************************************************************)
EXTENDS EngineClient, CaptureProvider

\* Of the registry.
CONSTANTS
  NoSelector, Missing, Paths, Texts, Reads, Identities,
  EngineInjected, EngineServed, Answers(_), Locate(_, _, _), Overlaps, Budget,
  MaxEdits, MaxReads, MaxTurn

VARIABLES
  part,        \* the one looked at
  workspace, turn, units, stage, todo, awaited, request, reads, version,
  asOf, began, changed

Registry == INSTANCE FreshRegistry WITH phase <- stage

registryVars ==
  <<workspace, turn, units, stage, todo, awaited, request, reads, version,
    asOf, began, changed>>

\* The texts, reads and answers of the engine's world; its registry is not used.
NoAnswer(text) == {}
Nowhere(content, text, start) == {}

World == INSTANCE MCFreshRegistry WITH
  Worlds <- {}, Texts <- {}, Reads <- {}, Identities <- <<>>,
  Answers <- NoAnswer, Locate <- Nowhere, phase <- stage, world <- part

EngineTexts == World!EngineTexts
EngineReads == World!EngineReads
EngineIdentities == World!EngineIdentities
EngineAnswers(text) == World!MCAnswers(text)

\* Where a region that stays in place is: the anchors return at once, so how
\* well they look does not matter to whether a request completes.
StayPut(content, text, start) ==
  IF start =< Len(text) THEN World!At("exact", text, start, start)
  ELSE World!Unresolved

\* A limit of three bytes (in the .cfg) and children that write up to five:
\* outputs below, at and beyond the limit, whole and cut off.
MCChunkSizes == {1, 2}

\* Four requests, one of which asks for a stream; three are expected.
MCRequests == 1..4
MCStreaming == {4}

ASSUME PartsAssumption == EngineClientAssumption /\ CaptureAssumption

EndInit ==
  /\ part \in {"registry", "client", "capture"}
  /\ Registry!Init /\ Init /\ CaptureInit
  /\ part # "registry" =>
       workspace = [p \in Paths |-> CHOOSE text \in EngineTexts : TRUE]

EndNext ==
  /\ UNCHANGED part
  /\ \/ part = "registry" /\ Registry!Next /\ UNCHANGED <<vars, captureVars>>
     \/ part = "client" /\ Next /\ UNCHANGED <<registryVars, captureVars>>
     \/ part = "capture" /\ CaptureNext /\ UNCHANGED <<registryVars, vars>>

\* The fairness that each of the three specifications states.
EndFairness ==
  /\ WF_registryVars(Registry!Refresh) /\ WF_registryVars(Registry!Answered)
  /\ WF_vars(OnTimer)
  /\ WF_captureVars(AppendFile)
  /\ \A r \in Requests :
       /\ WF_captureVars(Record(r) \/ BadBody(r))
       /\ WF_captureVars(Respond(r))

EndSpec ==
  EndInit /\ [][EndNext]_<<part, registryVars, vars, captureVars>>
          /\ EndFairness

-----------------------------------------------------------------------------
(* Every request that was begun is built, whatever is edited meanwhile, as
   the engine's client answers in the end (registry.mjs:76, 256-350). *)
RequestCompletes == Registry!RequestCompletes
=============================================================================
