---------------------------- MODULE TraceRunner ----------------------------
(***************************************************************************)
(* One trace against one baseline: the generator builds it, the runner of  *)
(* bench/trace-runner.mjs plays its events on a workspace, and each        *)
(* capture is measured (LabPacks has the labs' own copies of the runner).  *)
(* Payloads are what a request carries besides the task and the            *)
(* framing: at most one text, since a trace reads one unit.                *)
(***************************************************************************)
EXTENDS LabTraces, Resolution

CONSTANTS
  Locate(_, _, _),   \* resolveRegion(content, current text, stored start line)
  Cells              \* the cells that are run

ASSUME TraceRunnerAssumption == \A c \in Cells : c.path \in DOMAIN c.files

VARIABLES
  cell,       \* the cell whose trace is run
  baseline,   \* which baseline builds the requests
  trace,      \* the events; none before the generator wrote them
  at,         \* the next event
  files,      \* the workspace: path -> text
  read,       \* the bytes of the tracked read, as an option
  unit,       \* the baseline's unit: last resolved content and start line
  result,     \* the measures of the last capture
  failed      \* whether the runner threw

run  == <<cell, baseline>>
vars == <<run, trace, at, files, read, unit, result, failed>>

Baselines == {"append-only", "observation-mask", "corvus-file", "freshctx-file",
              "freshctx-region"}

IsFreshCtx == baseline \in {"freshctx-file", "freshctx-region"}

NoResult == [required |-> {}, served |-> {}, method |-> "none", recall |-> 0, exact |-> 0,
             stale |-> 0, duplicates |-> 0]

(***************************************************************************)
(* The smoke pack is run against every baseline, a lab and an on-disk pack *)
(* against freshctx-region only.                                           *)
(***************************************************************************)
Init ==
  /\ cell \in Cells
  /\ baseline \in IF cell.lab = "smoke" THEN Baselines ELSE {"freshctx-region"}
  /\ trace = <<>> /\ at = 1
  /\ files = cell.files
  /\ read = {} /\ unit = {}
  /\ result = NoResult
  /\ failed = FALSE

Generate ==
  /\ trace = <<>> /\ IsBuilt(cell)
  /\ trace' = TraceOf(cell)
  /\ UNCHANGED <<run, at, files, read, unit, result, failed>>

\* The event at hand, of one type.
AtEvent(type) == ~failed /\ at \in DOMAIN trace /\ trace[at].type = type

\* A plausible bug: the event behind the one at hand is skipped.
SkipOne == at + 2

Done == at + 1

ReadEvent ==
  /\ AtEvent("read")
  /\ read' = {InitialContent([cell EXCEPT !.files = files])}
  /\ unit' = {[content |-> c, startLine |-> cell.from] : c \in read'}
  /\ at' = Done
  /\ UNCHANGED <<run, trace, files, result, failed>>

ReplaceExactEvent ==
  /\ AtEvent("replace-exact")
  /\ IF Missed(files, trace[at])
     THEN failed' = TRUE /\ UNCHANGED <<files, at>>
     ELSE files' = Edited(files, trace[at]) /\ at' = Done /\ UNCHANGED failed
  /\ UNCHANGED <<run, trace, read, unit, result>>

DeleteFileEvent ==
  /\ AtEvent("delete-file")
  /\ files' = Edited(files, trace[at])
  /\ at' = Done
  /\ UNCHANGED <<run, trace, read, unit, result, failed>>

-----------------------------------------------------------------------------
(* The requests.                                                           *)

Current == IF cell.path \in DOMAIN files THEN {files[cell.path]} ELSE {}

\* A plausible bug: an unresolved unit is served as it was last known.
LocatedOrLast ==
  LET found(u, text) == Locate(u.content, text, u.startLine)
      last(u) == [state |-> "resolved", method |-> "last", content |-> u.content,
                  startLine |-> u.startLine]
  IN  {IF found(u, text) = Unresolved THEN last(u) ELSE found(u, text) :
         u \in unit, text \in Current}

\* FreshRegistry.refresh of the one tracked region.
Located ==
  {f \in {Locate(u.content, text, u.startLine) : u \in unit, text \in Current} :
     f # Unresolved}

WholeFile(method) ==
  {[state |-> "resolved", method |-> method, content |-> text, startLine |-> cell.from] :
     text \in Current}

\* A plausible bug: synced files are served as they were first synced.
CorvusFirstSynced ==
  {[state |-> "resolved", method |-> "synced", content |-> cell.files[cell.path],
    startLine |-> cell.from]}

\* CorvusSyncedFileSet.syncContext: the current text of every synced file.
CorvusSynced == WholeFile("synced")

\* A plausible bug: a unit is served as it was read, without a refresh.
FreshCtxUnrefreshed ==
  {[state |-> "resolved", method |-> "observed", content |-> u.content,
    startLine |-> u.startLine] : u \in unit}

FreshCtxRegion == IF cell.scope = "file" THEN WholeFile("exact") ELSE Located

\* What the baseline's request carries of the unit, nothing when it is lost.
Carried ==
  CASE baseline = "append-only" ->
         {[state |-> "resolved", method |-> "none", content |-> c, startLine |-> cell.from] :
            c \in read}
    [] baseline = "observation-mask" -> {}
    [] baseline = "corvus-file"      -> CorvusSynced
    [] baseline = "freshctx-file"    -> WholeFile("exact")
    [] baseline = "freshctx-region"  -> FreshCtxRegion

-----------------------------------------------------------------------------
(* analyzeCapture, with one tracked read and at most one required unit.    *)

Copies(served, bytes) ==
  FoldSet(LAMBDA s, n : n + CountOccurrences(Join(s), Join(bytes)), 0, served)

\* Blank lines and spaces at the end of a text, as trimEnd drops them.
TrimmedEnd(text) ==
  LET solid == Meaningful(text)
  IN  IF solid = {} THEN Nothing ELSE Region(text, 1, Max(solid))

\* extractCodeUnits: what a decoder finds in the payload.
ProjectedUnits(served) ==
  CASE baseline \in {"append-only", "observation-mask"} -> {}
    [] baseline = "corvus-file" -> {TrimmedEnd(s) : s \in served}
    [] OTHER -> served

Flag(condition) == IF condition THEN 1 ELSE 0

\* A plausible bug: only what a decoder finds counts as stale.
StaleAmongUnits(served, gold) ==
  Flag(\E initial \in read \ {gold} : initial \in ProjectedUnits(served))

StaleUnits(served, gold) ==
  Flag(\E initial \in read \ {gold} : Copies(served, initial) > 0)

Measures(required, gold, carried) ==
  LET served == {f.content : f \in carried}
      units  == ProjectedUnits(served)
  IN  [required |-> required, served |-> served,
       method |-> IF \/ ~IsFreshCtx \/ carried = {} THEN "unresolved"
                  ELSE (CHOOSE f \in carried : TRUE).method,
       recall |-> Flag(\A g \in required : g \in units \/ Copies(served, g) > 0),
       exact  |-> Flag(units # {} /\ units = required),
       stale  |-> StaleUnits(served, gold),
       duplicates |-> IF required = {} THEN 0
                      ELSE Max({0, Copies(served, gold) - 1})]

-----------------------------------------------------------------------------
(* A capture.                                                              *)

Oracle == GoldBytes(files, cell.path, cell.scope, cell.from, cell.to,
                    CHOOSE initial \in read : TRUE)
EventGold == trace[at].required


\* resolveRequiredUnit: the runner's bytes are there and are the declared ones.
Agrees(gold) ==
  /\ gold # {}
  /\ EventGold # {} => gold = EventGold /\ gold # {Nothing}

Capture(gold) ==
  /\ AtEvent("capture-request")
  /\ IF Agrees(gold)
     THEN LET carried == Carried
          IN  /\ result' = Measures(EventGold, CHOOSE g \in gold : TRUE, carried)
              /\ unit' = IF carried = {} THEN unit
                         ELSE {[content |-> f.content, startLine |-> f.startLine] :
                                 f \in carried}
              /\ at' = Done
              /\ UNCHANGED failed
     ELSE failed' = TRUE /\ UNCHANGED <<result, unit, at>>
  /\ UNCHANGED <<run, trace, files, read>>

GenericCapture == Capture({Oracle})

Next ==
  \/ Generate \/ ReadEvent \/ ReplaceExactEvent \/ DeleteFileEvent
  \/ GenericCapture

Spec == Init /\ [][Next]_vars

-----------------------------------------------------------------------------

Finished == trace # <<>> /\ at = Len(trace) + 1

\* Of a trace that is run there is one read, and what was read is known.
TypeOK ==
  /\ cell \in Cells /\ baseline \in Baselines
  /\ at \in 1..(Len(trace) + 1)
  /\ Cardinality(read) = Flag(at > 1) /\ Cardinality(unit) = Flag(at > 1)
  /\ result.recall \in 0..1 /\ result.exact \in 0..1 /\ result.stale \in 0..1
  /\ result.duplicates \in Nat
  /\ failed \in BOOLEAN

(***************************************************************************)
(* The gates of the packs (gates.staleBytesMax and duplicateUnitsMax of    *)
(* the manifests; hardGateFailures of smoke.mjs:137-150): no request built *)
(* by FreshCtx carries bytes that are no longer current, or the required   *)
(* bytes twice; in the smoke pack it carries them once.                    *)
(***************************************************************************)
GatesHold ==
  IsFreshCtx =>
    /\ result.stale = 0 /\ result.duplicates = 0
    /\ cell.lab = "smoke" /\ Finished => result.recall = 1

(***************************************************************************)
(* Whatever the edits, what a request of a projecting baseline carries     *)
(* stands in the file as it is at the capture, character by character: no  *)
(* last-known bytes of a unit that was lost, and none of a deleted file.   *)
(***************************************************************************)
CarriedIsInTheFile ==
  [][result' # result /\ baseline \notin {"append-only", "observation-mask"} =>
       \A s \in result'.served : \E text \in Current : Includes(text, s)]_vars
=============================================================================
