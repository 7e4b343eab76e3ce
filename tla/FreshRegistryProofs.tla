------------------------- MODULE FreshRegistryProofs -------------------------
(***************************************************************************)
(* Theorems about FreshRegistry for any workspace, any reads, any          *)
(* resolver and any semantic engine: Locate and Answers are arbitrary.     *)
(*                                                                         *)
(* A request is fresh because of what holds while it is prepared: a unit   *)
(* the loop has left behind is unresolved or was read after the request    *)
(* began, and the text the engine was given was, too.  IndInv says so      *)
(* (Recent), together with the bookkeeping each unit carries (Sound) and   *)
(* the units this refresh changed (Moved).                                 *)
(***************************************************************************)
EXTENDS FreshRegistry, FiniteSetTheorems, TLAPS

Archived(u) ==
  /\ u.content \in DOMAIN u.versions
  /\ u.versions[u.content] = Lines(u.startLine, u.endLine)

Counted(u) ==
  /\ IsFiniteSet(DOMAIN u.versions)
  /\ Cardinality(DOMAIN u.versions) =< u.changeCount + 1

Sound(u, now) == IsUnit(u, now) /\ Archived(u) /\ Counted(u)

\* TypeOK, with Sound for IsUnit.
Typed ==
  /\ workspace \in [Paths -> Texts \cup {Missing}]
  /\ turn \in Nat /\ reads \in Nat
  /\ phase \in {"idle", "refreshing", "engine", "built"}
  /\ DOMAIN units \subseteq DOMAIN Identities
  /\ \A id \in DOMAIN units : Sound(units[id], turn)
  /\ todo \subseteq DOMAIN units /\ request \subseteq DOMAIN units
  /\ awaited.version \in Nat
  /\ version \in [Paths -> Nat] /\ began \in [Paths -> Nat]
  /\ DOMAIN asOf = DOMAIN units
  /\ \A id \in DOMAIN asOf : asOf[id] \in Nat

IsNext(id) == id \in todo /\ \A other \in todo : id =< other

Recent ==
  /\ \A p \in Paths : version[p] >= began[p]
  /\ phase # "idle" =>
       \A id \in DOMAIN units \ todo :
         units[id].state = "resolved" => asOf[id] >= began[units[id].path]
  /\ phase = "engine" =>
       \A id \in todo : IsNext(id) => awaited.version >= began[units[id].path]
  /\ phase = "built" =>
       todo = {} /\ \A id \in request : units[id].state = "resolved"

Moved ==
  /\ phase # "idle" =>
       /\ changed \subseteq DOMAIN units \ todo
       /\ \A id \in changed : /\ units[id].state = "resolved"
                               /\ units[id].changeCount >= 1
                               /\ units[id].changedAt = turn
  /\ phase = "built" => changed \subseteq request

IndInv == Typed /\ Recent /\ Moved

-----------------------------------------------------------------------------
(* One unit.                                                               *)

\* The fields of a unit with new bytes (registry.mjs:334-355).
LEMMA RewrittenFields ==
  ASSUME NEW u, NEW content, NEW start, NEW end, DOMAIN u = UnitFields
  PROVE  LET w == Rewritten(u, content, start, end)
         IN  /\ DOMAIN w = UnitFields
             /\ w.path = u.path /\ w.scope = u.scope
             /\ w.pinned = u.pinned /\ w.lastUsedAt = u.lastUsedAt
             /\ w.content = content
             /\ w.startLine = start /\ w.endLine = end
             /\ w.state = "resolved"
             /\ w.changedAt = IF content # u.content THEN turn ELSE u.changedAt
             /\ w.changeCount = IF content # u.content THEN u.changeCount + 1
                                                       ELSE u.changeCount
             /\ w.versions = With(u.versions, content, Lines(start, end))
BY DEF Rewritten, UnitFields

\* What With adds to an archive.
LEMMA WithFacts ==
  ASSUME NEW f, NEW k, NEW x
  PROVE  /\ DOMAIN With(f, k, x) = DOMAIN f \cup {k}
         /\ With(f, k, x)[k] = x
         /\ \A n \in DOMAIN f : n # k => With(f, k, x)[n] = f[n]
BY DEF With

\* An archive grows by at most one revision, and not by one it holds.
LEMMA WithCounted ==
  ASSUME NEW f, NEW k, NEW x, IsFiniteSet(DOMAIN f)
  PROVE  /\ IsFiniteSet(DOMAIN With(f, k, x))
         /\ Cardinality(DOMAIN With(f, k, x)) =< Cardinality(DOMAIN f) + 1
         /\ k \in DOMAIN f => DOMAIN With(f, k, x) = DOMAIN f
<1>1. DOMAIN With(f, k, x) = DOMAIN f \cup {k}
  BY WithFacts
<1>2. Cardinality(DOMAIN f) \in Nat
  BY FS_CardinalityType
<1>3. /\ IsFiniteSet(DOMAIN f \cup {k})
      /\ Cardinality(DOMAIN f \cup {k}) =
           IF k \in DOMAIN f THEN Cardinality(DOMAIN f)
                             ELSE Cardinality(DOMAIN f) + 1
  BY FS_AddElement
<1> QED
  BY <1>1, <1>2, <1>3

\* Rewriting keeps a unit sound, whatever the bytes (registry.mjs:334-355).
LEMMA RewrittenSound ==
  ASSUME NEW u, NEW content, NEW start, NEW end, turn \in Nat, Sound(u, turn)
  PROVE  Sound(Rewritten(u, content, start, end), turn)
<1> DEFINE w == Rewritten(u, content, start, end)
<1>1. DOMAIN u = UnitFields
  BY DEF Sound, IsUnit
<1>2. IsUnit(w, turn)
  BY <1>1, RewrittenFields DEF Sound, IsUnit
<1>3. Archived(w)
  <2>1. /\ w.versions = With(u.versions, content, Lines(start, end))
        /\ w.content = content /\ w.startLine = start /\ w.endLine = end
    BY <1>1, RewrittenFields
  <2>2. /\ content \in DOMAIN With(u.versions, content, Lines(start, end))
        /\ With(u.versions, content, Lines(start, end))[content] = Lines(start, end)
    BY DEF With
  <2> QED
    BY <2>1, <2>2 DEF Archived
<1>4. Counted(w)
  <2>1. IsFiniteSet(DOMAIN u.versions) /\ u.changeCount \in Nat
        /\ Cardinality(DOMAIN u.versions) =< u.changeCount + 1
        /\ u.content \in DOMAIN u.versions
    BY DEF Sound, Counted, IsUnit, Archived
  <2>2. Cardinality(DOMAIN u.versions) \in Nat
    BY <2>1, FS_CardinalityType
  <2>3. w.versions = With(u.versions, content, Lines(start, end))
    BY <1>1, RewrittenFields
  <2>4. IsFiniteSet(DOMAIN w.versions)
    BY <2>1, <2>3, WithCounted
  <2>5. Cardinality(DOMAIN w.versions) \in Nat
    BY <2>4, FS_CardinalityType
  <2>6. CASE content = u.content
    <3>1. w.changeCount = u.changeCount
      BY <1>1, <2>6, RewrittenFields
    <3>2. DOMAIN w.versions = DOMAIN u.versions
      BY <2>1, <2>3, <2>6, WithCounted
    <3> QED
      BY <2>1, <2>4, <3>1, <3>2 DEF Counted
  <2>7. CASE content # u.content
    <3>1. w.changeCount = u.changeCount + 1
      BY <1>1, <2>7, RewrittenFields
    <3>2. Cardinality(DOMAIN w.versions) =< Cardinality(DOMAIN u.versions) + 1
      BY <2>1, <2>3, WithCounted
    <3> QED
      BY <2>1, <2>2, <2>4, <2>5, <3>1, <3>2 DEF Counted
  <2> QED
    BY <2>6, <2>7
<1> QED
  BY <1>2, <1>3, <1>4 DEF Sound

\* The fields of a unit that is read again (registry.mjs:198-222).
LEMMA ReadAgainFields ==
  ASSUME NEW u, NEW r, NEW text, DOMAIN u = UnitFields
  PROVE  LET w == ReadAgain(u, r, text)
             v == Rewritten(u, ObservedContent(r, text), ObservedStart(r),
                            ObservedEnd(r, text))
         IN  /\ DOMAIN w = UnitFields
             /\ w.path = v.path /\ w.scope = v.scope /\ w.state = v.state
             /\ w.content = v.content
             /\ w.startLine = v.startLine /\ w.endLine = v.endLine
             /\ w.changedAt = v.changedAt /\ w.changeCount = v.changeCount
             /\ w.versions = v.versions
             /\ w.lastUsedAt = turn
             /\ w.pinned = (v.pinned \/ r.pinned)
BY RewrittenFields DEF ReadAgain, UnitFields

\* A read of a known unit keeps it sound (registry.mjs:198-224).
LEMMA ReadAgainSound ==
  ASSUME NEW u, NEW r \in Reads, NEW text, turn \in Nat, Sound(u, turn)
  PROVE  Sound(ReadAgain(u, r, text), turn)
<1> DEFINE w == ReadAgain(u, r, text)
           v == Rewritten(u, ObservedContent(r, text), ObservedStart(r),
                          ObservedEnd(r, text))
<1>1. Sound(v, turn)
  BY RewrittenSound
<1>2. DOMAIN u = UnitFields
  BY DEF Sound, IsUnit
<1>3. /\ DOMAIN w = UnitFields
      /\ w.path = v.path /\ w.scope = v.scope /\ w.state = v.state
      /\ w.content = v.content
      /\ w.startLine = v.startLine /\ w.endLine = v.endLine
      /\ w.changedAt = v.changedAt /\ w.changeCount = v.changeCount
      /\ w.versions = v.versions
      /\ w.lastUsedAt = turn
      /\ w.pinned = (v.pinned \/ r.pinned)
  BY <1>2, ReadAgainFields
<1> HIDE DEF w, v
<1>4. IsUnit(w, turn)
  BY <1>1, <1>3 DEF Sound, IsUnit
<1>5. Archived(w) /\ Counted(w)
  BY <1>1, <1>3 DEF Sound, Archived, Counted
<1> QED
  BY <1>4, <1>5 DEF Sound, w

\* A first read gives a sound unit (registry.mjs:226-253).
LEMMA NewUnitSound ==
  ASSUME NEW r \in Reads, NEW text, turn \in Nat
  PROVE  /\ Sound(NewUnit(r, text), turn)
         /\ NewUnit(r, text).path = r.path
<1> DEFINE w == NewUnit(r, text)
           c == ObservedContent(r, text)
<1>1. /\ DOMAIN w = UnitFields
      /\ w.path = r.path /\ w.scope = r.scope /\ w.state = "resolved"
      /\ w.pinned = r.pinned /\ w.changeCount = 0
      /\ w.changedAt = turn /\ w.lastUsedAt = turn
      /\ w.content = c /\ w.startLine = ObservedStart(r)
      /\ w.endLine = ObservedEnd(r, text)
      /\ w.versions = With(<<>>, c, Lines(w.startLine, w.endLine))
  BY DEF NewUnit, UnitFields
<1> HIDE DEF w, c
<1>2. r.path \in Paths /\ r.scope \in {"file", "region", "symbol"}
      /\ r.pinned \in BOOLEAN
  BY RegistryAssumption DEF ReadType
<1>3. IsUnit(w, turn)
  BY <1>1, <1>2 DEF IsUnit
<1>4. DOMAIN w.versions = {c}
  BY <1>1 DEF With
<1>5. w.versions[c] = Lines(w.startLine, w.endLine)
  BY <1>1 DEF With
<1>6. Archived(w)
  BY <1>1, <1>4, <1>5 DEF Archived
<1>7. IsFiniteSet({c}) /\ Cardinality({c}) = 1
  BY FS_Singleton
<1>8. Counted(w)
  BY <1>1, <1>4, <1>7 DEF Counted
<1> QED
  BY <1>1, <1>3, <1>6, <1>8 DEF Sound, w

\* The identity of what can be read is an identity (hash.mjs:26-34).
LEMMA StableUnitIdType ==
  ASSUME NEW r \in Reads, NEW text \in Texts, Readable(r, text)
  PROVE  StableUnitId(r, text) \in DOMAIN Identities
BY IdentitiesAssumption DEF StableUnitId

-----------------------------------------------------------------------------
(* The inductive invariant.                                                *)

\* A new engine has no units and every claim about them holds.
LEMMA InitIndInv == Init => IndInv
<1> SUFFICES ASSUME Init PROVE IndInv
  OBVIOUS
<1>1. Typed
  BY DEF Init, Typed, Nothing
<1>2. Recent
  BY DEF Init, Recent
<1>3. Moved
  BY DEF Init, Moved
<1> QED
  BY <1>1, <1>2, <1>3 DEF IndInv

\* Edits only move the versions on.
LEMMA EditStep ==
  ASSUME IndInv, NEW p \in Paths, NEW text \in Texts \cup {Missing},
         Edit(p, text)
  PROVE  IndInv'
<1> USE DEF Edit
<1>1. /\ version' \in [Paths -> Nat]
      /\ \A q \in Paths : version'[q] >= version[q]
  BY DEF IndInv, Typed
<1>2. Typed'
  BY <1>1 DEF IndInv, Typed
<1>3. Recent'
  <2>1. \A q \in Paths : version'[q] >= began'[q]
    BY <1>1 DEF IndInv, Typed, Recent
  <2> QED
    BY <2>1 DEF IndInv, Recent, IsNext
<1>4. Moved'
  BY DEF IndInv, Moved
<1> QED
  BY <1>2, <1>3, <1>4 DEF IndInv

\* A read, first or not, puts one sound unit into the registry.
LEMMA TrackStep ==
  ASSUME IndInv, NEW r \in Reads, NEW id \in DOMAIN Identities, NEW unit,
         phase = "idle", Sound(unit, turn), Track(r, id, unit)
  PROVE  IndInv'
<1> USE DEF Track
<1>1. r.path \in Paths
  BY RegistryAssumption DEF ReadType
<1>2. /\ DOMAIN units' = DOMAIN units \cup {id}
      /\ \A n \in DOMAIN units' :
           units'[n] = IF n = id THEN unit ELSE units[n]
  BY DEF With
<1>3. /\ DOMAIN asOf' = DOMAIN asOf \cup {id}
      /\ \A n \in DOMAIN asOf' :
           asOf'[n] = IF n = id THEN version[r.path] ELSE asOf[n]
  BY DEF With
<1>4. Typed'
  BY <1>1, <1>2, <1>3 DEF IndInv, Typed
<1>5. Recent' /\ Moved'
  BY DEF IndInv, Recent, Moved
<1> QED
  BY <1>4, <1>5 DEF IndInv

\* A first read (registry.mjs:226-255).
LEMMA TrackNewStep ==
  ASSUME IndInv, NEW r \in Reads, TrackNew(r)
  PROVE  IndInv'
<1> DEFINE text == workspace[r.path]
           id == StableUnitId(r, text)
<1>1. r.path \in Paths
  BY RegistryAssumption DEF ReadType
<1>2. text \in Texts /\ Readable(r, text)
  BY <1>1 DEF TrackNew, Readable, IndInv, Typed
<1>3. id \in DOMAIN Identities
  BY <1>2, StableUnitIdType
<1>4. Sound(NewUnit(r, text), turn)
  BY NewUnitSound DEF IndInv, Typed
<1>5. phase = "idle" /\ Track(r, id, NewUnit(r, text))
  BY DEF TrackNew
<1> HIDE DEF id, text
<1> QED
  BY <1>3, <1>4, <1>5, TrackStep

\* A read of a unit that is registered (registry.mjs:198-224).
LEMMA TrackAgainStep ==
  ASSUME IndInv, NEW r \in Reads, TrackAgain(r)
  PROVE  IndInv'
<1> DEFINE text == workspace[r.path]
           id == StableUnitId(r, text)
<1>1. phase = "idle" /\ id \in DOMAIN units
      /\ Track(r, id, ReadAgain(units[id], r, text))
  BY DEF TrackAgain
<1>2. id \in DOMAIN Identities /\ turn \in Nat /\ Sound(units[id], turn)
  BY <1>1 DEF IndInv, Typed
<1> HIDE DEF id, text
<1>3. Sound(ReadAgain(units[id], r, text), turn)
  BY <1>2, ReadAgainSound
<1> QED
  BY <1>1, <1>2, <1>3, TrackStep

\* A request begins with every unit still to be visited.
LEMMA BeginRequestStep ==
  ASSUME IndInv, BeginRequest
  PROVE  IndInv'
<1> USE DEF BeginRequest
<1>1. Typed'
  BY DEF IndInv, Typed
<1>2. Recent'
  BY DEF IndInv, Typed, Recent
<1>3. Moved'
  BY DEF IndInv, Moved
<1> QED
  BY <1>1, <1>2, <1>3 DEF IndInv

\* The next unit of the loop is unique.
LEMMA NextIsUnique ==
  ASSUME Typed, NEW a, NEW b, IsNext(a), IsNext(b)
  PROVE  a = b
BY IdentitiesAssumption DEF Typed, IsNext

(***************************************************************************)
(* What the refresh of one unit does to it (registry.mjs:327-357): others  *)
(* stay as they are; it is resolved, with the version its bytes were taken *)
(* from, or unresolved as it was.                                          *)
(***************************************************************************)
LEMMA ApplyFacts ==
  ASSUME IndInv, NEW id \in DOMAIN units, NEW outcome, NEW taken,
         Apply(id, outcome, taken)
  PROVE  /\ DOMAIN units' = DOMAIN units /\ DOMAIN asOf' = DOMAIN asOf
         /\ \A n \in DOMAIN units :
              n # id => units'[n] = units[n] /\ asOf'[n] = asOf[n]
         /\ Sound(units'[id], turn) /\ units'[id].path = units[id].path
         /\ DOMAIN units[id].versions \subseteq DOMAIN units'[id].versions
         /\ \/ /\ units'[id].state = "unresolved"
               /\ units'[id].content = units[id].content
               /\ units'[id].startLine = units[id].startLine
               /\ units'[id].changeCount = units[id].changeCount
               /\ asOf' = asOf /\ changed' = changed
            \/ /\ units'[id].state = "resolved"
               /\ asOf'[id] = taken
               /\ \/ changed' = changed
                  \/ /\ changed' = changed \cup {id}
                     /\ units'[id].changeCount >= 1
                     /\ units'[id].changedAt = turn
<1> DEFINE u == units[id]
           w == units'[id]
<1>1. DOMAIN units = DOMAIN asOf /\ turn \in Nat /\ Sound(u, turn)
  BY DEF IndInv, Typed
<1>2. DOMAIN u = UnitFields /\ u.changeCount \in Nat
  BY <1>1 DEF Sound, IsUnit
<1>3. CASE outcome = Unresolved
  <2>1. /\ units' = [units EXCEPT ![id].state = "unresolved"]
        /\ asOf' = asOf /\ changed' = changed
    BY <1>3 DEF Apply, Unresolve
  <2>2. w = [u EXCEPT !.state = "unresolved"]
    BY <2>1
  <2>3. /\ DOMAIN w = UnitFields /\ w.state = "unresolved"
        /\ w.path = u.path /\ w.scope = u.scope /\ w.pinned = u.pinned
        /\ w.content = u.content /\ w.startLine = u.startLine
        /\ w.endLine = u.endLine /\ w.versions = u.versions
        /\ w.changeCount = u.changeCount /\ w.changedAt = u.changedAt
        /\ w.lastUsedAt = u.lastUsedAt
    BY <1>2, <2>2 DEF UnitFields
  <2>4. DOMAIN units' = DOMAIN units /\ \A n \in DOMAIN units :
          n # id => units'[n] = units[n]
    BY <2>1
  <2> HIDE DEF u, w
  <2>5. Sound(w, turn)
    BY <1>1, <2>3 DEF Sound, IsUnit, Archived, Counted
  <2> QED
    BY <2>1, <2>3, <2>4, <2>5 DEF u, w
<1>4. CASE outcome # Unresolved
  <2> DEFINE v == Rewritten(u, outcome.content, outcome.startLine, outcome.endLine)
  <2>1. /\ units' = [units EXCEPT ![id] = v]
        /\ asOf' = [asOf EXCEPT ![id] = taken]
        /\ changed' = IF outcome.content # u.content
                      THEN changed \cup {id} ELSE changed
    BY <1>4 DEF Apply
  <2>2. Sound(v, turn)
    BY <1>1, RewrittenSound
  <2>3. /\ v.path = u.path /\ v.state = "resolved"
        /\ v.changedAt = IF outcome.content # u.content THEN turn
                                                        ELSE u.changedAt
        /\ v.changeCount = IF outcome.content # u.content
                           THEN u.changeCount + 1 ELSE u.changeCount
        /\ v.versions = With(u.versions, outcome.content,
                             Lines(outcome.startLine, outcome.endLine))
    BY <1>2, RewrittenFields
  <2>4. DOMAIN u.versions \subseteq DOMAIN v.versions
    BY <2>3 DEF With
  <2> HIDE DEF v
  <2>5. w = v /\ asOf'[id] = taken
    BY <1>1, <2>1
  <2>6. /\ DOMAIN units' = DOMAIN units /\ DOMAIN asOf' = DOMAIN asOf
        /\ \A n \in DOMAIN units :
             n # id => units'[n] = units[n] /\ asOf'[n] = asOf[n]
    BY <1>1, <2>1
  <2>7. \/ changed' = changed
        \/ /\ changed' = changed \cup {id}
           /\ w.changeCount >= 1 /\ w.changedAt = turn
    BY <1>2, <2>1, <2>3, <2>5
  <2> QED
    BY <2>2, <2>3, <2>4, <2>5, <2>6, <2>7
<1> QED
  BY <1>3, <1>4

(***************************************************************************)
(* The refresh leaves a unit behind with bytes that are recent enough, or  *)
(* unresolved.                                                             *)
(***************************************************************************)
LEMMA VisitStep ==
  ASSUME IndInv, NEW id, IsNext(id), phase \in {"refreshing", "engine"},
         NEW outcome, NEW taken \in Nat, taken >= began[units[id].path],
         Apply(id, outcome, taken), GoOn(id), InRefresh
  PROVE  IndInv'
<1>1. id \in DOMAIN units
  BY DEF IndInv, Typed, IsNext
<1>2. /\ DOMAIN units' = DOMAIN units /\ DOMAIN asOf' = DOMAIN asOf
      /\ \A n \in DOMAIN units :
           n # id => units'[n] = units[n] /\ asOf'[n] = asOf[n]
      /\ Sound(units'[id], turn) /\ units'[id].path = units[id].path
  BY <1>1, ApplyFacts
<1>3. \/ /\ units'[id].state = "unresolved"
         /\ asOf' = asOf /\ changed' = changed
      \/ /\ units'[id].state = "resolved"
         /\ asOf'[id] = taken
         /\ \/ changed' = changed
            \/ /\ changed' = changed \cup {id}
               /\ units'[id].changeCount >= 1
               /\ units'[id].changedAt = turn
  BY <1>1, ApplyFacts
<1>4. /\ phase' = "refreshing" /\ todo' = todo \ {id}
      /\ awaited'.version = 0
      /\ UNCHANGED <<workspace, turn, request, reads, version, began>>
  BY DEF GoOn, InRefresh, Nothing
<1>5. Typed'
  BY <1>1, <1>2, <1>3, <1>4 DEF IndInv, Typed
<1>6. Recent'
  BY <1>1, <1>2, <1>3, <1>4 DEF IndInv, Typed, Recent
<1>7. Moved'
  BY <1>1, <1>2, <1>3, <1>4 DEF IndInv, Moved, IsNext
<1> QED
  BY <1>5, <1>6, <1>7 DEF IndInv

\* The three ways a unit is left behind are such visits.
LEMMA LeaveStep ==
  ASSUME IndInv, NEW id,
         \/ SourceUnavailable(id) \/ ReadAndResolve(id)
         \/ \E answer : EngineAnswers(id, answer)
  PROVE  IndInv' /\ IsNext(id)
         /\ \E outcome, taken : Apply(id, outcome, taken)
<1> DEFINE path == units[id].path
<1>1. CASE SourceUnavailable(id)
  <2>1. IsNext(id) /\ phase = "refreshing" /\ GoOn(id) /\ InRefresh
    BY <1>1 DEF SourceUnavailable, Visits, IsNext
  <2>2. Apply(id, Unresolved, version[path])
    BY <1>1 DEF SourceUnavailable, Apply
  <2>3. path \in Paths
    BY <2>1 DEF IndInv, Typed, Sound, IsUnit, IsNext
  <2>4. version[path] \in Nat /\ version[path] >= began[path]
    BY <2>3 DEF IndInv, Typed, Recent
  <2> QED
    BY <2>1, <2>2, <2>4, VisitStep
<1>2. CASE ReadAndResolve(id)
  <2>1. IsNext(id) /\ phase = "refreshing" /\ GoOn(id) /\ InRefresh
    BY <1>2 DEF ReadAndResolve, Visits, IsNext
  <2>2. Apply(id, ResolveLocally(units[id], workspace[path]), version[path])
    BY <1>2 DEF ReadAndResolve
  <2>3. path \in Paths
    BY <2>1 DEF IndInv, Typed, Sound, IsUnit, IsNext
  <2>4. version[path] \in Nat /\ version[path] >= began[path]
    BY <2>3 DEF IndInv, Typed, Recent
  <2> QED
    BY <2>1, <2>2, <2>4, VisitStep
<1>3. ASSUME NEW answer, EngineAnswers(id, answer)
      PROVE  IndInv' /\ IsNext(id)
             /\ \E outcome, taken : Apply(id, outcome, taken)
  <2>1. IsNext(id) /\ phase = "engine" /\ GoOn(id) /\ InRefresh
    BY <1>3 DEF EngineAnswers, IsNext
  <2>2. Apply(id, ResolveByAnswer(units[id], awaited.text, answer), awaited.version)
    BY <1>3 DEF EngineAnswers
  <2>3. awaited.version \in Nat /\ awaited.version >= began[path]
    BY <2>1 DEF IndInv, Typed, Recent, IsNext
  <2> QED
    BY <2>1, <2>2, <2>3, VisitStep
<1> QED
  BY <1>1, <1>2, <1>3

\* The engine is given a text that is recent enough.
LEMMA AskEngineStep ==
  ASSUME IndInv, NEW id, ReadAndAskEngine(id)
  PROVE  IndInv'
<1> USE DEF ReadAndAskEngine, InRefresh
<1>1. IsNext(id) /\ phase = "refreshing"
  BY DEF Visits, IsNext
<1>2. units[id].path \in Paths
  BY <1>1 DEF IndInv, Typed, Sound, IsUnit, IsNext
<1>3. awaited'.version = version[units[id].path]
  BY <1>2
<1>4. Typed'
  BY <1>2, <1>3 DEF IndInv, Typed
<1>5. Recent'
  <2>1. \A n \in todo' : IsNext(n)' => awaited'.version >= began'[units'[n].path]
    <3> SUFFICES ASSUME NEW n \in todo', IsNext(n)'
                 PROVE  awaited'.version >= began'[units'[n].path]
      OBVIOUS
    <3>1. IsNext(n)
      BY DEF IsNext
    <3>2. n = id
      BY <1>1, <3>1, NextIsUnique DEF IndInv
    <3> QED
      BY <1>2, <1>3, <3>2 DEF IndInv, Recent
  <2> QED
    BY <1>1, <2>1 DEF IndInv, Recent
<1>6. Moved'
  BY <1>1 DEF IndInv, Moved
<1> QED
  BY <1>4, <1>5, <1>6 DEF IndInv

(***************************************************************************)
(* A working set has only resolved units, and all that were refreshed in   *)
(* this turn (policy.mjs:75-99).                                           *)
(***************************************************************************)
LEMMA WorkingSetFacts ==
  ASSUME NEW chosen, NEW hand, NEW now, NEW overlap,
         IsWorkingSet(chosen, hand, now, overlap)
  PROVE  /\ chosen \subseteq DOMAIN hand
         /\ \A u \in chosen : hand[u].state = "resolved"
         /\ \A u \in DOMAIN hand :
              /\ hand[u].state = "resolved"
              /\ hand[u].changeCount >= 1 /\ hand[u].changedAt = now
              => u \in chosen
BY DEF IsWorkingSet, Resolved, RefreshedThisTurn

\* The projection chooses, and touches nothing but lastUsedAt (engine.mjs:21-30).
LEMMA ProjectStep ==
  ASSUME IndInv, Project
  PROVE  /\ IndInv' /\ DOMAIN units' = DOMAIN units
         /\ \A id \in DOMAIN units :
              /\ DOMAIN units'[id].versions = DOMAIN units[id].versions
              /\ units'[id].state = units[id].state
              /\ units'[id].content = units[id].content
              /\ units'[id].startLine = units[id].startLine
              /\ units'[id].changeCount = units[id].changeCount
<1>1. PICK overlap \in [DOMAIN units -> Overlaps], chosen \in SUBSET DOMAIN units :
        /\ IsWorkingSet(chosen, Hand, turn, overlap)
        /\ request' = chosen
        /\ units' = [id \in DOMAIN units |->
                      IF id \in chosen
                      THEN [units[id] EXCEPT !.lastUsedAt = turn]
                      ELSE units[id]]
  BY DEF Project
<1>2. /\ phase = "refreshing" /\ todo = {} /\ phase' = "built"
      /\ UNCHANGED <<workspace, turn, todo, awaited, reads, version, asOf,
                     began, changed>>
  BY DEF Project, history
<1>3. /\ DOMAIN Hand = DOMAIN units
      /\ \A id \in DOMAIN units :
           /\ Hand[id].state = units[id].state
           /\ Hand[id].changeCount = units[id].changeCount
           /\ Hand[id].changedAt = units[id].changedAt
  BY DEF Hand
<1>4. /\ \A id \in chosen : units[id].state = "resolved"
      /\ \A id \in DOMAIN units :
           /\ units[id].state = "resolved"
           /\ units[id].changeCount >= 1 /\ units[id].changedAt = turn
           => id \in chosen
  <2> HIDE DEF Hand
  <2> QED
    BY <1>1, <1>3, WorkingSetFacts
<1>5. ASSUME NEW id \in DOMAIN units
      PROVE  /\ Sound(units'[id], turn)
             /\ units'[id].path = units[id].path
             /\ units'[id].state = units[id].state
             /\ units'[id].content = units[id].content
             /\ units'[id].startLine = units[id].startLine
             /\ units'[id].versions = units[id].versions
             /\ units'[id].changeCount = units[id].changeCount
             /\ units'[id].changedAt = units[id].changedAt
  <2> DEFINE u == units[id]
             w == [u EXCEPT !.lastUsedAt = turn]
  <2>1. Sound(u, turn) /\ turn \in Nat
    BY DEF IndInv, Typed
  <2>2. DOMAIN u = UnitFields
    BY <2>1 DEF Sound, IsUnit
  <2>3. /\ DOMAIN w = UnitFields /\ w.lastUsedAt = turn
        /\ w.path = u.path /\ w.scope = u.scope /\ w.pinned = u.pinned
        /\ w.state = u.state /\ w.content = u.content
        /\ w.startLine = u.startLine /\ w.endLine = u.endLine
        /\ w.versions = u.versions /\ w.changeCount = u.changeCount
        /\ w.changedAt = u.changedAt
    BY <2>2 DEF UnitFields
  <2>4. units'[id] = w \/ units'[id] = u
    BY <1>1
  <2> HIDE DEF u, w
  <2>5. Sound(w, turn)
    BY <2>1, <2>3 DEF Sound, IsUnit, Archived, Counted
  <2> QED
    BY <2>1, <2>3, <2>4, <2>5 DEF u
<1>6. DOMAIN units' = DOMAIN units
  BY <1>1
<1>7. Typed'
  BY <1>1, <1>2, <1>5, <1>6 DEF IndInv, Typed
<1>8. Recent'
  BY <1>1, <1>2, <1>4, <1>5, <1>6 DEF IndInv, Typed, Recent
<1>9. Moved'
  BY <1>1, <1>2, <1>4, <1>5, <1>6 DEF IndInv, Moved
<1> QED
  BY <1>5, <1>6, <1>7, <1>8, <1>9 DEF IndInv

\* Sending a request changes no unit.
LEMMA SendStep ==
  ASSUME IndInv, Send
  PROVE  IndInv'
BY DEF Send, history, IndInv, Typed, Recent, Moved

\* Units of an earlier turn are units of a later one.
LEMMA AdvanceTurnStep ==
  ASSUME IndInv, AdvanceTurn
  PROVE  IndInv'
<1> USE DEF AdvanceTurn, history
<1>1. turn \in Nat /\ turn' = turn + 1
  BY DEF IndInv, Typed
<1>2. \A id \in DOMAIN units : Sound(units[id], turn')
  BY <1>1 DEF IndInv, Typed, Sound, IsUnit
<1>3. Typed'
  BY <1>1, <1>2 DEF IndInv, Typed
<1>4. Recent' /\ Moved'
  BY DEF IndInv, Recent, Moved
<1> QED
  BY <1>3, <1>4 DEF IndInv

\* The invariant speaks of the variables only.
LEMMA StutterStep ==
  ASSUME IndInv, UNCHANGED vars
  PROVE  IndInv'
BY DEF vars, history, IndInv, Typed, Recent, Moved, IsNext

\* Every step keeps the invariant.
LEMMA NextIndInv ==
  ASSUME IndInv, [Next]_vars
  PROVE  IndInv'
<1>1. CASE \E p \in Paths, text \in Texts \cup {Missing} : Edit(p, text)
  BY <1>1, EditStep
<1>2. CASE \E r \in Reads : TrackNew(r) \/ TrackAgain(r)
  BY <1>2, TrackNewStep, TrackAgainStep
<1>3. CASE BeginRequest
  BY <1>3, BeginRequestStep
<1>4. CASE Refresh
  BY <1>4, LeaveStep, AskEngineStep, ProjectStep DEF Refresh
<1>5. CASE Answered
  BY <1>5, LeaveStep DEF Answered
<1>6. CASE Send
  BY <1>6, SendStep
<1>7. CASE AdvanceTurn
  BY <1>7, AdvanceTurnStep
<1>8. CASE UNCHANGED vars
  BY <1>8, StutterStep
<1> QED
  BY <1>1, <1>2, <1>3, <1>4, <1>5, <1>6, <1>7, <1>8 DEF Next

\* The invariant holds in every reachable state.
LEMMA SpecIndInv == Spec => []IndInv
BY InitIndInv, NextIndInv, PTL DEF Spec

(***************************************************************************)
(* What a step may never do to a unit: take a revision out of its archive, *)
(* or leave it unresolved with other bytes, lines or changes.              *)
(***************************************************************************)
Kept(id) ==
  /\ id \in DOMAIN units'
  /\ DOMAIN units[id].versions \subseteq DOMAIN units'[id].versions
  /\ units'[id].state = "unresolved" =>
       /\ units'[id].content = units[id].content
       /\ units'[id].startLine = units[id].startLine
       /\ units'[id].changeCount = units[id].changeCount

\* Reads keep what the units had.
LEMMA TrackKeeps ==
  ASSUME IndInv, NEW r \in Reads, TrackNew(r) \/ TrackAgain(r),
         NEW id \in DOMAIN units
  PROVE  Kept(id)
<1> DEFINE text == workspace[r.path]
           here == StableUnitId(r, text)
<1>1. CASE TrackNew(r)
  <2>1. here # id /\ units' = With(units, here, NewUnit(r, text))
    BY <1>1 DEF TrackNew, Track
  <2> HIDE DEF here, text
  <2>2. id \in DOMAIN units' /\ units'[id] = units[id]
    BY <2>1 DEF With
  <2> QED
    BY <2>2 DEF Kept
<1>2. CASE TrackAgain(r)
  <2> DEFINE u == units[here]
             w == ReadAgain(u, r, text)
  <2>1. here \in DOMAIN units /\ units' = With(units, here, w)
    BY <1>2 DEF TrackAgain, Track
  <2>2. DOMAIN u = UnitFields
    BY <2>1 DEF IndInv, Typed, Sound, IsUnit
  <2>3. /\ w.state = "resolved"
        /\ w.versions = With(u.versions, ObservedContent(r, text),
                             Lines(ObservedStart(r), ObservedEnd(r, text)))
    BY <2>2, ReadAgainFields, RewrittenFields
  <2>4. DOMAIN u.versions \subseteq DOMAIN w.versions
    BY <2>3 DEF With
  <2> HIDE DEF w, here
  <2>5. id \in DOMAIN units' /\ units'[id] = IF id = here THEN w ELSE units[id]
    BY <2>1 DEF With
  <2> QED
    BY <2>3, <2>4, <2>5 DEF Kept
<1> QED
  BY <1>1, <1>2

\* The refresh of a unit keeps what the units had.
LEMMA LeaveKeeps ==
  ASSUME IndInv, NEW here, NEW id \in DOMAIN units,
         \/ SourceUnavailable(here) \/ ReadAndResolve(here)
         \/ \E answer : EngineAnswers(here, answer)
  PROVE  Kept(id)
<1>1. IsNext(here) /\ \E outcome, taken : Apply(here, outcome, taken)
  BY LeaveStep
<1>2. PICK outcome, taken : Apply(here, outcome, taken)
  BY <1>1
<1>3. here \in DOMAIN units
  BY <1>1 DEF IndInv, Typed, IsNext
<1>4. CASE id = here
  BY <1>2, <1>3, <1>4, ApplyFacts DEF Kept
<1>5. CASE id # here
  <2>1. id \in DOMAIN units' /\ units'[id] = units[id]
    BY <1>2, <1>3, <1>5, ApplyFacts
  <2> QED
    BY <2>1 DEF Kept
<1> QED
  BY <1>4, <1>5

\* No step takes anything from a unit.
LEMMA NextKeeps ==
  ASSUME IndInv, [Next]_vars, NEW id \in DOMAIN units
  PROVE  Kept(id)
<1>1. CASE \E r \in Reads : TrackNew(r) \/ TrackAgain(r)
  BY <1>1, TrackKeeps
<1>2. CASE Project
  BY <1>2, ProjectStep DEF Kept
<1>3. CASE \/ \E here : SourceUnavailable(here) \/ ReadAndResolve(here)
           \/ Answered
  BY <1>3, LeaveKeeps DEF Answered
<1>4. CASE units' = units
  BY <1>4 DEF Kept
<1>5. \/ \E r \in Reads : TrackNew(r) \/ TrackAgain(r)
      \/ Project
      \/ \E here : SourceUnavailable(here) \/ ReadAndResolve(here)
      \/ Answered
      \/ units' = units
  BY DEF Next, Edit, BeginRequest, Refresh, ReadAndAskEngine, Send,
         AdvanceTurn, vars
<1> QED
  BY <1>1, <1>2, <1>3, <1>4, <1>5

-----------------------------------------------------------------------------
(* The theorems.                                                           *)

\* The registry is well typed and the loop visits registered units only.
THEOREM TypeCorrect == Spec => []TypeOK
<1>1. IndInv => TypeOK
  BY DEF IndInv, Typed, TypeOK, Sound
<1> QED
  BY <1>1, SpecIndInv, PTL

(***************************************************************************)
(* No stale injection, for any workspace, resolver and engine: what a      *)
(* built request carries is resolved and was read after the request began  *)
(* (registry.mjs:258-358, SOUL.md invariants 1 and 6).                     *)
(***************************************************************************)
THEOREM FreshnessTheorem == Spec => []NoStaleInjection
<1>1. IndInv => NoStaleInjection
  BY DEF IndInv, Typed, Recent, NoStaleInjection
<1> QED
  BY <1>1, SpecIndInv, PTL

(***************************************************************************)
(* What a refresh changed is in its request, whatever the budget           *)
(* (policy.mjs:75-84, registry.mjs:345-348).                               *)
(***************************************************************************)
THEOREM CarriedTheorem == Spec => []ChangedIsCarried
<1>1. IndInv => ChangedIsCarried
  BY DEF IndInv, Moved, ChangedIsCarried
<1> QED
  BY <1>1, SpecIndInv, PTL

\* recover(id) always finds the bytes and lines a unit has (registry.mjs:377-381).
THEOREM ArchiveTheorem == Spec => []ArchiveHoldsCurrent
<1>1. IndInv => ArchiveHoldsCurrent
  BY DEF IndInv, Typed, Sound, Archived, ArchiveHoldsCurrent
<1> QED
  BY <1>1, SpecIndInv, PTL

\* An archive has at most one revision per counted change, and the first.
THEOREM ArchiveBoundTheorem == Spec => []ArchiveBounded
<1>1. IndInv => ArchiveBounded
  BY DEF IndInv, Typed, Sound, Counted, ArchiveBounded
<1> QED
  BY <1>1, SpecIndInv, PTL

\* Both, as the run checks them.
THEOREM ArchiveSoundTheorem == Spec => []ArchiveSound
<1>1. ArchiveHoldsCurrent /\ ArchiveBounded => ArchiveSound
  BY DEF ArchiveSound
<1> QED
  BY <1>1, ArchiveTheorem, ArchiveBoundTheorem, PTL

\* Every revision observed or resolved stays recoverable (SOUL.md invariant 3).
THEOREM RecoveryTheorem == Spec => ExactRecovery
<1>1. IndInv /\ [Next]_vars =>
        [\A id \in DOMAIN units :
           /\ id \in DOMAIN units'
           /\ DOMAIN units[id].versions \subseteq DOMAIN units'[id].versions]_vars
  BY NextKeeps DEF Kept
<1> QED
  BY <1>1, SpecIndInv, PTL DEF Spec, ExactRecovery

\* A failed refresh leaves a unit what a later one needs (registry.mjs:327-332).
THEOREM UnresolvedTheorem == Spec => UnresolvedKeepsItsBytes
<1>1. IndInv /\ [Next]_vars =>
        [\A id \in DOMAIN units :
           units'[id].state = "unresolved" =>
             /\ units'[id].content = units[id].content
             /\ units'[id].startLine = units[id].startLine
             /\ units'[id].changeCount = units[id].changeCount]_vars
  BY NextKeeps DEF Kept
<1> QED
  BY <1>1, SpecIndInv, PTL DEF Spec, UnresolvedKeepsItsBytes

=============================================================================
