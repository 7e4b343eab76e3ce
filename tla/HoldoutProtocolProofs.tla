------------------------- MODULE HoldoutProtocolProofs -------------------------
(***************************************************************************)
(* Proofs about HoldoutProtocol, for every number of drafts, versions,     *)
(* commits and freezes.  The inductive invariant comes in layers, each     *)
(* proved with those before it: the shapes of trees and records; manifests *)
(* carry the freeze they came from; every record, wherever it lies, was    *)
(* made of a frozen manifest and its code; sealed states are those the     *)
(* workflow wrote.  Where artifacts are not changed by hand, the records   *)
(* of a later phase lie on those of the earlier ones, and what a state     *)
(* records and a run leaves is what the manifest promises.                 *)
(***************************************************************************)
EXTENDS HoldoutProtocol, FiniteSetTheorems, SequenceTheorems,
        NaturalsInduction, TLAPS

-----------------------------------------------------------------------------
(* Shapes                                                                  *)

Single(S) == \A x, y \in S : x = y

IsBody(b) ==
  b = [draft |-> b.draft, stamp |-> b.stamp, head |-> b.head,
       lock |-> b.lock, pins |-> b.pins]

IsManifest(m) ==
  /\ m = [body |-> m.body, digest |-> m.digest]
  /\ IsBody(m.body)

IsState(s) ==
  /\ s = [class |-> s.class, digest |-> s.digest, traces |-> s.traces,
          results |-> s.results, report |-> s.report]
  /\ s.class \in Classes

IsTree(tree) ==
  /\ tree = [f \in Files |-> tree[f]]
  /\ \A f \in Files : Single(tree[f])
  /\ \A m \in tree["manifest"] : IsManifest(m)
  /\ \A s \in tree["state"] : IsState(s)

IsHistory(h) ==
  /\ Len(h) \in Nat \ {0}
  /\ h = [c \in 1..Len(h) |-> h[c]]

IsCommand(k) ==
  /\ k = [phase |-> k.phase, step |-> k.step, body |-> k.body,
          freeze |-> k.freeze, class |-> k.class, code |-> k.code,
          head |-> k.head]
  /\ k.phase \in {"idle", "freeze", "generate", "run", "report"}
  /\ k.step \in 0..3
  /\ k.class \in {"candidate", "locally-frozen"}
  /\ k.freeze \in 0..HEAD /\ k.head \in 0..HEAD

Typed ==
  /\ \A tree \in Trees : IsTree(tree)
  /\ IsHistory(history) /\ HEAD <= MaxCommits
  /\ frozen \in 0..MaxFreezes
  /\ IsCommand(command)

-----------------------------------------------------------------------------
(* The invariant                                                           *)

\* What lies under one name in any tree.
Held(f) == UNION {tree[f] : tree \in Trees}

\* A manifest keeps the stamp of its freeze, and two of one freeze its digest.
Dated ==
  /\ \A m \in Held("manifest") :
       /\ m.body.stamp = m.digest.stamp /\ m.digest.stamp \in 1..frozen
       /\ m.digest.head \in 1..HEAD
       /\ (m.digest.pins = {}) <=> ~BindExisting
       /\ \A n \in Held("manifest") :
            n.digest.stamp = m.digest.stamp => n.digest = m.digest
  /\ \A c \in 1..HEAD : \A m \in history[c]["manifest"] : m.digest.head < c

\* FrozenAt, of a history.
FrozenIn(h, body, c) ==
  /\ c \in 1..Len(h) /\ body.head \in 1..Len(h) /\ body.head < c
  /\ \E m \in h[c]["manifest"] : m.digest = body /\ m.body = body
  /\ body.pins = {} => \A f \in Artifacts : h[c][f] = {}

SameCode(h, c, d) ==
  /\ c \in 1..Len(h) /\ d \in 1..Len(h)
  /\ h[c]["implementation"] = h[d]["implementation"]

ReportIn(h, r) ==
  /\ FrozenIn(h, r.digest, r.freeze)
  /\ \A run \in r.run : /\ run.digest = r.digest /\ run.head >= r.freeze
                        /\ SameCode(h, run.head, r.digest.head)

Checked == command.phase \in {"generate", "run", "report"}

\* Records are of frozen manifests and their code,
RecordsFounded ==
  /\ \A run \in Held("run") : SameCode(history, run.head, run.digest.head)
  /\ \A r \in Held("report") : ReportIn(history, r)

\* and so is the running phase.
CommandFounded ==
  Checked =>
    /\ command.body = {Body}
    /\ FrozenIn(history, Body, command.freeze)
    /\ command.freeze <= command.head
    /\ SameCode(history, command.head, Body.head)
    /\ command.code = history[Body.head]["implementation"]
    /\ (command.phase = "report") =>
         \A run \in work["run"] :
            run.digest = Body /\ run.head >= command.freeze

Founded == RecordsFounded /\ CommandFounded

\* A phase that is about to produce has no record of its own yet.
Unrecorded ==
  /\ command.phase = "generate" /\ command.step = 1 => work["generate"] = {}
  /\ command.phase = "run" /\ command.step = 1 => work["run"] = {}

\* The records of a later phase lie on those of the earlier ones.
StagedTree(tree) ==
  /\ tree["generate"] # {} => tree["traces"] # {}
  /\ tree["run"] # {} => tree["generate"] # {} /\ tree["results"] # {}
  /\ tree["report"] # {} => tree["run"] # {}

Staged ==
  /\ \A tree \in Trees : StagedTree(tree)
  /\ Checked => \E m \in work["manifest"] : m.digest = Body /\ m.body = Body
  /\ command.phase = "generate" =>
       ((BindExisting \/ command.step >= 2) => work["traces"] # {})
  /\ command.phase = "run" =>
       /\ work["generate"] # {}
       /\ (BindExisting \/ command.step >= 2) => work["results"] # {}
  /\ command.phase = "report" => work["run"] # {}

PromisedIn(h, body, traces, results) ==
  IF body.pins # {}
  THEN <<traces, results>> \in body.pins
  ELSE /\ traces = {Traces("generated", body.draft)}
       /\ results = {Results(h[body.head]["implementation"], traces)}

SealedState(h, s) ==
  s.class = "sealed" =>
    \E body \in s.digest :
      /\ s.digest = {body} /\ body.head \in 1..Len(h)
      /\ s.traces # {} /\ s.results # {} /\ s.report # {}
      /\ PromisedIn(h, body, s.traces, s.results)
      /\ \A r \in s.report : r.class = "sealed" /\ r.digest = body

\* Only the workflow seals, and what it attests was frozen.
Sealed ==
  /\ \A a \in Held("attestation") : FrozenIn(history, a.digest, a.freeze)
  /\ \A s \in Held("state") : SealedState(history, s)

-----------------------------------------------------------------------------
(* Where artifacts are not changed by hand                                 *)

Whole(s) == s.digest # {} /\ s.traces # {} /\ s.results # {}
Partial(tree) == \A s \in tree["state"] : ~Whole(s)

\* What a state records of the tree's own manifest is what that promises.
RecordsPromised(h, tree) ==
  \A m \in tree["manifest"] : \A s \in tree["state"] :
    s.digest = {m.digest} =>
      \E traces, results :
        /\ PromisedIn(h, m.digest, traces, results)
        /\ s.traces \in {{}, traces} /\ s.results \in {{}, results}

TreePromised(h, tree) ==
  \A m \in tree["manifest"] :
     PromisedIn(h, m.digest, tree["traces"], tree["results"])

\* A freeze pins one pair of traces and results.
PinnedOnce == \A m \in Held("manifest") : Single(m.digest.pins)

Recorded ==
  /\ \A tree \in Trees : RecordsPromised(history, tree)
  /\ \A s \in Held("state") : \A b \in s.digest : b.stamp \in 1..frozen

ArchivesWhole ==
  \A tree \in archive :
    /\ \E s \in tree["state"] : Whole(s)
    /\ tree["generate"] # {} /\ tree["run"] # {}
    /\ TreePromised(history, tree)

\* A commit of the manifest and the state alone may leave an older report.
CommitsWhole ==
  \A c \in 1..HEAD : \A s \in history[c]["state"] :
    (history[c]["report"] # {} /\ ~Whole(s) /\ s.class # "candidate")
      => TreePromised(history, history[c])

\* The last commit has no report, or one over the artifacts of the work tree.
Linked ==
  history[HEAD]["report"] # {} =>
    /\ work["traces"] = history[HEAD]["traces"]
    /\ work["results"] = history[HEAD]["results"]
    /\ work["run"] # {}

SeedTraces(tree) ==
  \A m \in tree["manifest"] :
     tree["traces"] = {Traces("generated", m.digest.draft)}

WorkWhole ==
  /\ work["run"] # {} => TreePromised(history, work)
  /\ work["generate"] # {} /\ Partial(work) => Linked
  /\ work["generate"] # {} /\ ~BindExisting => SeedTraces(work)
  /\ \A s \in work["state"] :
       /\ s.class # "candidate" => work["generate"] # {}
       /\ s.results # {} /\ ~BindExisting => work["run"] # {}

CommandKept ==
  /\ command.phase = "freeze" =>
       /\ work["manifest"] # {}
       /\ \A m \in work["manifest"] : command.body = {m.digest}
       /\ IF BindExisting
          THEN /\ work["traces"] # {} /\ work["results"] # {}
               /\ TreePromised(history, work)
          ELSE work["generate"] = {}
  /\ command.phase = "generate" =>
       /\ history[HEAD]["report"] = {} /\ work["run"] = {}
       /\ BindExisting => TreePromised(history, work)
       /\ command.step >= 2 /\ ~BindExisting => SeedTraces(work)
       /\ command.step >= 3 => work["generate"] # {}
  /\ command.phase = "run" =>
       /\ BindExisting \/ command.step >= 2 => TreePromised(history, work)
       /\ command.step >= 3 => work["run"] # {}

Kept ==
  PinnedOnce /\ Recorded /\ ArchivesWhole /\ CommitsWhole /\ WorkWhole
  /\ CommandKept

-----------------------------------------------------------------------------
(* Facts about sets, trees and histories                                   *)

\* A file has one content or none, so what a tree holds of it is finite.
LEMMA SingleIsFinite ==
  ASSUME NEW S, Single(S)
  PROVE  IsFiniteSet(S) /\ Cardinality(S) <= 1
<1>1. CASE S = {}
  BY <1>1, FS_EmptySet
<1>2. CASE S # {}
  <2>1. PICK x \in S : TRUE
    BY <1>2
  <2>2. S = {x}
    BY <2>1 DEF Single
  <2>3. IsFiniteSet({x}) /\ Cardinality({x}) = 1
    BY FS_Singleton
  <2>4. Cardinality({x}) <= 1
    BY <2>3
  <2> QED
    BY <2>2, <2>3, <2>4
<1> QED
  BY <1>1, <1>2

\* FreezeCommit is one of the freeze commits: a bounded set that is not empty
\* has its maximum among its members.
LEMMA MaxIsMember ==
  ASSUME NEW n \in Nat, NEW S \in SUBSET (1..n), S # {}
  PROVE  Max(S) \in S
<1> DEFINE Bounds == {k \in Nat : \A y \in S : k >= y}
<1>1. Bounds # {}
  BY n \in Bounds
<1>2. PICK k \in Bounds : \A j \in Bounds : ~(j < k)
  <2>1. PICK k \in Bounds : \A j \in Bounds : ~(<<j, k>> \in OpToRel(<, Nat))
    BY <1>1, NatLessThanWellFounded, WFMin
  <2>2. \A j \in Bounds : j < k => <<j, k>> \in OpToRel(<, Nat)
    BY <2>1 DEF OpToRel
  <2> QED
    BY <2>1, <2>2
<1>3. k \in S
  <2> SUFFICES ASSUME k \notin S
               PROVE  FALSE
    OBVIOUS
  <2>1. k \in Nat /\ \A y \in S : y \in Nat /\ y >= 1 /\ k >= y /\ k # y
    BY <1>2
  <2>2. \E y \in S : TRUE
    OBVIOUS
  <2>3. k - 1 \in Nat /\ \A y \in S : k - 1 >= y
    BY <2>1, <2>2
  <2>4. k - 1 \in Bounds
    BY <2>3
  <2> QED
    BY <1>2, <2>1, <2>4
<1>4. \E x \in S : \A y \in S : x >= y
  BY <1>2, <1>3
<1> QED
  BY <1>4 DEF Max

\* A commit is added at the end of the history.
LEMMA CommitAdds ==
  ASSUME NEW h, IsHistory(h), NEW tree
  PROVE  /\ IsHistory(Append(h, tree))
         /\ Len(Append(h, tree)) = Len(h) + 1
         /\ \A c \in 1..Len(h) : Append(h, tree)[c] = h[c]
         /\ Append(h, tree)[Len(Append(h, tree))] = tree
<1> DEFINE g == Append(h, tree)
           S == {h[c] : c \in 1..Len(h)} \cup {tree}
<1>1. h \in [1..Len(h) -> S] /\ Len(h) \in Nat
  BY DEF IsHistory
<1>2. h \in Seq(S)
  BY <1>1, SeqDef
<1>3. /\ g \in Seq(S)
      /\ Len(g) = Len(h) + 1
      /\ \A c \in 1..Len(h) : g[c] = h[c]
      /\ g[Len(h) + 1] = tree
  <2> HIDE DEF S
  <2>1. tree \in S
    BY DEF S
  <2> QED
    BY <1>2, <2>1, AppendProperties
<1>4. g = [c \in 1..Len(g) |-> g[c]]
  BY <1>3, LenProperties
<1> QED
  BY <1>1, <1>3, <1>4 DEF IsHistory

\* A history that grew keeps its commits.
Extends(h, g) ==
  /\ Len(h) \in Nat /\ Len(g) \in Nat /\ Len(h) <= Len(g)
  /\ \A c \in 1..Len(h) : g[c] = h[c]

\* What was frozen stays frozen, and what a record promised stays so.
LEMMA FrozenStays ==
  ASSUME NEW h, NEW g, Extends(h, g), NEW body, NEW c, FrozenIn(h, body, c)
  PROVE  FrozenIn(g, body, c)
  BY DEF Extends, FrozenIn

\* Two commits have the same code for good.
LEMMA SameCodeStays ==
  ASSUME NEW h, NEW g, Extends(h, g), NEW c, NEW d, SameCode(h, c, d)
  PROVE  SameCode(g, c, d)
  BY DEF Extends, SameCode

\* A report of what was frozen is one whatever is committed later.
LEMMA ReportStays ==
  ASSUME NEW h, NEW g, Extends(h, g), NEW r, ReportIn(h, r)
  PROVE  ReportIn(g, r)
  BY FrozenStays, SameCodeStays DEF ReportIn

\* So is a promise of what a recorded commit held.
LEMMA PromiseStays ==
  ASSUME NEW h, NEW g, Extends(h, g), NEW body, body.head \in 1..Len(h),
         NEW traces, NEW results
  PROVE  PromisedIn(g, body, traces, results)
           <=> PromisedIn(h, body, traces, results)
  BY DEF Extends, PromisedIn

\* A file of a tree is replaced by content of the shape of that file.
LEMMA WriteFile ==
  ASSUME NEW tree, IsTree(tree), NEW f \in Files, NEW S, Single(S),
         f = "manifest" => \A m \in S : IsManifest(m),
         f = "state" => \A s \in S : IsState(s)
  PROVE  /\ IsTree([tree EXCEPT ![f] = S])
         /\ [tree EXCEPT ![f] = S][f] = S
         /\ \A e \in Files \ {f} : [tree EXCEPT ![f] = S][e] = tree[e]
<1> DEFINE next == [tree EXCEPT ![f] = S]
<1>1. next = [e \in Files |-> IF e = f THEN S ELSE tree[e]]
  BY DEF IsTree
<1>2. next[f] = S /\ \A e \in Files \ {f} : next[e] = tree[e]
  BY <1>1
<1>3. "manifest" \in Files /\ "state" \in Files
  BY DEF Files, Watched
<1> QED
  BY <1>1, <1>2, <1>3 DEF IsTree

\* The manifest of a tree that has one is the one its digest is asked of.
LEMMA FrozenIs ==
  ASSUME NEW tree, IsTree(tree), NEW m \in tree["manifest"]
  PROVE  Frozen(tree) = m.digest /\ tree["manifest"] = {m}
<1>1. Single(tree["manifest"])
  BY DEF IsTree, Files, Watched
<1>2. tree["manifest"] = {m}
  BY <1>1 DEF Single
<1> QED
  BY <1>2 DEF Frozen

\* The state of a tree is the one in its file, or that of a new pack.
LEMMA StateIs ==
  ASSUME NEW tree, IsTree(tree)
  PROVE  /\ IsState(State(tree))
         /\ tree["state"] = {} => State(tree) = NoState
         /\ \A s \in tree["state"] : State(tree) = s /\ tree["state"] = {s}
<1>1. Single(tree["state"]) /\ \A s \in tree["state"] : IsState(s)
  BY DEF IsTree, Files, Watched
<1>2. IsState(NoState)
  BY DEF IsState, NoState, Classes
<1>3. \A s \in tree["state"] : tree["state"] = {s}
  BY <1>1 DEF Single
<1>4. \A s \in tree["state"] : State(tree) = s
  BY <1>3 DEF State
<1> QED
  BY <1>1, <1>2, <1>3, <1>4 DEF State

-----------------------------------------------------------------------------
(* The steps of the phases, by name                                        *)

BeginGenerate == Begin("generate", MayGenerate(work))
BeginRun == Begin("run", MayRun(work))
BeginReport == Begin("report", MayReport(work))
Beginning == BeginGenerate \/ BeginRun \/ BeginReport

GenerateTraces ==
  Step("generate", 1, IF BindExisting THEN work ELSE WithTraces(work), Onward)
GenerateRecord ==
  Step("generate", 2, WithGenerate(work, Body, command.freeze), Onward)
GenerateState ==
  Step("generate", 3, WithGenerateState(work, Body, command.class), Idle)

RunResults ==
  Step("run", 1, IF BindExisting THEN work
                 ELSE WithResults(work, command.code), Onward)
RunRecord ==
  Step("run", 2, WithRun(work, Body, command.freeze, command.head), Onward)
RunState == Step("run", 3, WithRunState(work, command.class), Idle)

ReportRecord ==
  Step("report", 1, WithReport(work, Body, command.freeze,
                               ClassOfReport(command.class)), Onward)
ReportState ==
  Step("report", 2, WithReportState(work, Body,
                                    ClassOfReport(command.class)), Idle)

\* A step is one of these.
LEMMA NextIs ==
  ASSUME Next
  PROVE  \/ \E d \in Drafts : Freeze(d)
         \/ FreezeState
         \/ Beginning
         \/ GenerateTraces \/ GenerateRecord \/ GenerateState
         \/ RunResults \/ RunRecord \/ RunState
         \/ ReportRecord \/ ReportState
         \/ Killed
         \/ EditCode \/ EditManifest \/ EditArtifacts
         \/ StartOver \/ Unpack \/ Commit
         \/ Attest \/ Pipeline
<1>1. Generate => BeginGenerate \/ GenerateTraces \/ GenerateRecord
                    \/ GenerateState
  BY DEF Generate, BeginGenerate, GenerateTraces, GenerateRecord, GenerateState
<1>2. Run => BeginRun \/ RunResults \/ RunRecord \/ RunState
  BY DEF Run, BeginRun, RunResults, RunRecord, RunState
<1>3. Report => BeginReport \/ ReportRecord \/ ReportState
  BY DEF Report, BeginReport, ReportRecord, ReportState
<1> QED
  BY <1>1, <1>2, <1>3 DEF Next, Beginning

\* The working tree, an archive and a commit are trees.
LEMMA TreesAre ==
  ASSUME Typed
  PROVE  /\ IsTree(work) /\ work \in Trees
         /\ \A tree \in archive : IsTree(tree) /\ tree \in Trees
         /\ \A c \in 1..HEAD : IsTree(history[c]) /\ history[c] \in Trees
         /\ HEAD \in 1..HEAD /\ HEAD \in Nat
         /\ DOMAIN history = 1..HEAD
<1>1. DOMAIN history = 1..HEAD /\ HEAD \in Nat \ {0}
  BY DEF Typed, IsHistory, HEAD
<1> QED
  BY <1>1 DEF Typed, Trees

\* A write of one file of the working tree makes no other new tree.
LEMMA WriteMoves ==
  ASSUME Typed, NEW f \in Files, NEW S, Single(S),
         f = "manifest" => \A m \in S : IsManifest(m),
         f = "state" => \A s \in S : IsState(s),
         work' = [work EXCEPT ![f] = S],
         history' = history, archive' = archive
  PROVE  /\ IsTree(work') /\ work'[f] = S
         /\ \A e \in Files \ {f} : work'[e] = work[e]
         /\ Trees' \subseteq Trees \cup {work'}
         /\ \A tree \in Trees' : IsTree(tree)
         /\ Held(f)' \subseteq Held(f) \cup S
         /\ \A e \in Files \ {f} : Held(e)' \subseteq Held(e)
<1>1. IsTree(work) /\ work \in Trees
  BY TreesAre
<1>2. /\ IsTree(work') /\ work'[f] = S
      /\ \A e \in Files \ {f} : work'[e] = work[e]
  <2>1. /\ IsTree([work EXCEPT ![f] = S])
        /\ [work EXCEPT ![f] = S][f] = S
        /\ \A e \in Files \ {f} : [work EXCEPT ![f] = S][e] = work[e]
    <3>1. /\ f = "manifest" => \A m \in S : IsManifest(m)
          /\ f = "state" => \A s \in S : IsState(s)
      OBVIOUS
    <3> QED
      BY ONLY <1>1, <3>1, f \in Files, Single(S), WriteFile
  <2> QED
    BY ONLY <2>1, work' = [work EXCEPT ![f] = S]
<1>3. Trees' \subseteq Trees \cup {work'}
  BY DEF Trees
<1>4. \A tree \in Trees' : IsTree(tree)
  BY <1>2, <1>3 DEF Typed
<1>5. \A tree \in Trees' : tree \in Trees \/ tree = work'
  BY <1>3
<1>6. Held(f)' \subseteq Held(f) \cup S
  BY <1>2, <1>5 DEF Held
<1>7. ASSUME NEW e \in Files \ {f}
      PROVE  Held(e)' \subseteq Held(e)
  BY <1>1, <1>2, <1>5 DEF Held
<1> QED
  BY <1>2, <1>3, <1>4, <1>6, <1>7

\* Nothing is written: the trees are the same.
LEMMA StillMoves ==
  ASSUME Typed, UNCHANGED <<work, history, archive>>
  PROVE  /\ Trees' = Trees
         /\ \A tree \in Trees' : IsTree(tree)
         /\ \A e \in Files : Held(e)' = Held(e)
<1>1. Trees' = Trees
  BY DEF Trees
<1> QED
  BY <1>1 DEF Typed, Held

\* What a write of one file leaves.
Wrote(f, S) ==
  /\ IsTree(work') /\ work'[f] = S
  /\ \A e \in Files \ {f} : work'[e] = work[e]
  /\ Trees' \subseteq Trees \cup {work'}
  /\ Held(f)' \subseteq Held(f) \cup S
  /\ \A e \in Files \ {f} : Held(e)' \subseteq Held(e)
  /\ history' = history /\ archive' = archive

\* Nothing was written.
Still ==
  /\ work' = work /\ history' = history /\ archive' = archive
  /\ Trees' = Trees
  /\ \A e \in Files : Held(e)' = Held(e)

\* With a command and a count of freezes that are well formed, so is the rest.
LEMMA WroteTyped ==
  ASSUME Typed, NEW f \in Files, NEW S, Single(S),
         f = "manifest" => \A m \in S : IsManifest(m),
         f = "state" => \A s \in S : IsState(s),
         work' = [work EXCEPT ![f] = S],
         history' = history, archive' = archive,
         IsCommand(command)', frozen' \in 0..MaxFreezes
  PROVE  Typed' /\ Wrote(f, S)
<1>1. /\ f = "manifest" => \A m \in S : IsManifest(m)
      /\ f = "state" => \A s \in S : IsState(s)
  OBVIOUS
<1>2. /\ IsTree(work') /\ work'[f] = S
      /\ \A e \in Files \ {f} : work'[e] = work[e]
      /\ Trees' \subseteq Trees \cup {work'}
      /\ \A tree \in Trees' : IsTree(tree)
      /\ Held(f)' \subseteq Held(f) \cup S
      /\ \A e \in Files \ {f} : Held(e)' \subseteq Held(e)
  BY ONLY Typed, f \in Files, Single(S), <1>1,
     work' = [work EXCEPT ![f] = S], history' = history, archive' = archive,
     WriteMoves
<1>3. Wrote(f, S)
  BY <1>2 DEF Wrote
<1>4. Typed'
  BY <1>2 DEF Typed, HEAD
<1> QED
  BY <1>3, <1>4

\* A step that only moves the command on.
LEMMA StillTyped ==
  ASSUME Typed, UNCHANGED <<work, history, archive>>,
         IsCommand(command)', frozen' \in 0..MaxFreezes
  PROVE  Typed' /\ Still
<1>1. Trees' = Trees /\ \A e \in Files : Held(e)' = Held(e)
  BY StillMoves
<1>2. Still
  BY <1>1 DEF Still
<1> QED
  BY <1>1, <1>2 DEF Typed, HEAD

\* The command a phase goes on with, and the idle one, are well formed.
LEMMA CommandMoves ==
  ASSUME Typed, history' = history
  PROVE  /\ command' = command => IsCommand(command)'
         /\ command' = Idle => IsCommand(command)'
         /\ (command' = Onward /\ command.step \in 0..2) =>
               /\ IsCommand(command)'
               /\ command'.phase = command.phase
               /\ command'.step = command.step + 1
               /\ command'.body = command.body
               /\ command'.freeze = command.freeze
               /\ command'.class = command.class
               /\ command'.code = command.code
               /\ command'.head = command.head
<1>1. HEAD' = HEAD /\ HEAD \in Nat
  BY DEF HEAD, Typed, IsHistory
<1>2. ASSUME command' = Idle PROVE IsCommand(command)'
  BY <1>1, <1>2 DEF Idle, IsCommand
<1>3. IsCommand(command)
  BY DEF Typed
<1>4. ASSUME command' = Onward, command.step \in 0..2
      PROVE  /\ IsCommand(command)'
             /\ command'.phase = command.phase
             /\ command'.step = command.step + 1
             /\ command'.body = command.body
             /\ command'.freeze = command.freeze
             /\ command'.class = command.class
             /\ command'.code = command.code
             /\ command'.head = command.head
  BY <1>1, <1>3, <1>4 DEF Onward, IsCommand
<1>5. ASSUME command' = command PROVE IsCommand(command)'
  BY <1>1, <1>3, <1>5 DEF IsCommand
<1> QED
  BY <1>2, <1>4, <1>5

\* What holds of a tree before a phase starts on it.
LEMMA CompleteMeans ==
  ASSUME Typed, NEW tree, IsTree(tree), NEW phase, Complete(tree, phase)
  PROVE  /\ \E m \in tree["manifest"] :
               /\ m.body = Frozen(tree) /\ m.digest = Frozen(tree)
               /\ tree["manifest"] = {m}
         /\ FreezeCommit(tree) \in 1..HEAD
         /\ \E m \in history[FreezeCommit(tree)]["manifest"] :
               m.body = Frozen(tree)
         /\ BindExisting \/ NoArtifactsAt(FreezeCommit(tree))
         /\ history[Frozen(tree).head]["implementation"]
              = history[HEAD]["implementation"]
         /\ Dirty(tree, phase) = {}
<1>1. PICK m \in tree["manifest"] :
        /\ Untampered(m)
        /\ Dirty(tree, phase) = {}
        /\ FreezeCommits(m.digest) # {}
        /\ BindExisting \/ NoArtifactsAt(Max(FreezeCommits(m.digest)))
        /\ ImplementationMatches(m.body)
  BY DEF Complete
<1>2. Frozen(tree) = m.digest /\ tree["manifest"] = {m} /\ m.body = m.digest
  BY <1>1, FrozenIs DEF Untampered
<1>3. FreezeCommits(m.digest) \in SUBSET (1..HEAD) /\ HEAD \in Nat
  BY DEF FreezeCommits, Typed, IsHistory, HEAD
<1>4. FreezeCommit(tree) \in FreezeCommits(m.digest)
  BY <1>1, <1>2, <1>3, MaxIsMember DEF FreezeCommit
<1>5. /\ FreezeCommit(tree) \in 1..HEAD
      /\ \E k \in history[FreezeCommit(tree)]["manifest"] : k.body = m.digest
  BY <1>4 DEF FreezeCommits
<1> QED
  BY <1>1, <1>2, <1>5 DEF FreezeCommit, ImplementationMatches

\* What the first step of a phase has read when it goes on.
LEMMA BeginMoves ==
  ASSUME Typed, Beginning
  PROVE  /\ Typed' /\ Still /\ command = Idle
         /\ frozen' = frozen /\ attested' = attested
         /\ command'.phase \in {"generate", "run", "report"}
         /\ command'.step = 1
         /\ Complete(work, command'.phase)
         /\ command'.body = {Frozen(work)}
         /\ command'.freeze = FreezeCommit(work)
         /\ command'.class = "locally-frozen"
         /\ command'.code = work["implementation"]
         /\ command'.head = HEAD
         /\ command'.phase = "generate" => MayGenerate(work)
         /\ command'.phase = "run" => MayRun(work)
         /\ command'.phase = "report" => MayReport(work)
<1>1. PICK phase \in {"generate", "run", "report"} :
        /\ command = Idle
        /\ phase = "generate" => MayGenerate(work)
        /\ phase = "run" => MayRun(work)
        /\ phase = "report" => MayReport(work)
        /\ command' = [phase |-> phase, step |-> 1, body |-> {Frozen(work)},
                       freeze |-> FreezeCommit(work),
                       class |-> Earned(work, FALSE),
                       code |-> work["implementation"], head |-> HEAD]
        /\ UNCHANGED <<work, history, frozen, attested, archive>>
  BY DEF Beginning, BeginGenerate, BeginRun, BeginReport, Begin
<1>2. Complete(work, phase)
  BY <1>1 DEF MayGenerate, MayRun, MayReport
<1>3. FreezeCommit(work) \in 1..HEAD /\ HEAD \in 1..HEAD /\ HEAD \in Nat
  BY <1>2, TreesAre, CompleteMeans
<1>4. Earned(work, FALSE) = "locally-frozen"
  BY DEF Earned
<1>5. IsCommand(command)'
  <2>1. HEAD' = HEAD
    BY <1>1 DEF HEAD
  <2>2. \A c, b, k, h :
          (/\ command' = [phase |-> phase, step |-> 1, body |-> b,
                          freeze |-> c, class |-> "locally-frozen",
                          code |-> k, head |-> h]
           /\ c \in 0..HEAD' /\ h \in 0..HEAD')
            => IsCommand(command)'
    BY DEF IsCommand
  <2>3. FreezeCommit(work) \in 0..HEAD' /\ HEAD \in 0..HEAD'
    BY <1>3, <2>1
  <2> QED
    BY <1>1, <1>4, <2>2, <2>3
<1>6. Typed' /\ Still
  BY <1>1, <1>5, StillTyped DEF Typed
<1> QED
  BY <1>1, <1>2, <1>4, <1>6

-----------------------------------------------------------------------------
(* What each step writes                                                   *)

\* freeze writes a manifest with a stamp of its own.
LEMMA FreezeMoves ==
  ASSUME Typed, NEW d \in Drafts, Freeze(d)
  PROVE  /\ Typed' /\ command = Idle /\ MayFreeze
         /\ frozen' = frozen + 1 /\ frozen' \in 1..MaxFreezes
         /\ attested' = attested
         /\ command'.phase = "freeze" /\ command'.step = 0
         /\ \E body : /\ body.draft = d /\ body.stamp = frozen + 1
                      /\ body.head = HEAD
                      /\ body.pins = IF BindExisting
                           THEN {<<work["traces"], work["results"]>>} ELSE {}
                      /\ Wrote("manifest", {[body |-> body, digest |-> body]})
                      /\ command'.body = {body}
<1> DEFINE body == [draft |-> d, stamp |-> frozen + 1, head |-> HEAD,
                    lock |-> work["lock"],
                    pins |-> IF BindExisting
                             THEN {<<work["traces"], work["results"]>>} ELSE {}]
           S == {[body |-> body, digest |-> body]}
<1>1. /\ command = Idle /\ MayFreeze /\ frozen < MaxFreezes
      /\ work' = [work EXCEPT !["manifest"] = S]
      /\ command' = [Idle EXCEPT !.phase = "freeze", !.body = {body}]
      /\ frozen' = frozen + 1
      /\ history' = history /\ attested' = attested /\ archive' = archive
  BY DEF Freeze
<1>2. /\ body.draft = d /\ body.stamp = frozen + 1 /\ body.head = HEAD
      /\ body.pins = IF BindExisting
                     THEN {<<work["traces"], work["results"]>>} ELSE {}
      /\ IsBody(body)
  BY DEF IsBody
<1> HIDE DEF body
<1>3. Single(S) /\ \A m \in S : IsManifest(m)
  BY <1>2 DEF Single, IsManifest
<1> HIDE DEF S
<1>4. frozen' \in 1..MaxFreezes /\ frozen' \in 0..MaxFreezes
  BY <1>1, HoldoutAssumption DEF Typed, HoldoutAssumption
<1>5. /\ IsCommand(command)' /\ command'.phase = "freeze"
      /\ command'.step = 0 /\ command'.body = {body}
  <2>1. HEAD' = HEAD /\ HEAD \in Nat
    BY <1>1 DEF HEAD, Typed, IsHistory
  <2>2. command' = [phase |-> "freeze", step |-> 0, body |-> {body},
                    freeze |-> 0, class |-> "candidate", code |-> {},
                    head |-> 0]
    BY <1>1 DEF Idle
  <2> QED
    BY <2>1, <2>2 DEF IsCommand
<1>6. Typed' /\ Wrote("manifest", S)
  <2>1. "manifest" \in Files /\ "manifest" # "state"
    BY DEF Files, Watched
  <2> QED
    BY ONLY Typed, <1>1, <1>3, <1>4, <1>5, <2>1, WroteTyped
<1> QED
  BY <1>1, <1>2, <1>4, <1>5, <1>6 DEF S

\* Then it writes the state of a candidate.
LEMMA FreezeStateMoves ==
  ASSUME Typed, FreezeState
  PROVE  /\ Typed' /\ command.phase = "freeze" /\ command' = Idle
         /\ frozen' = frozen /\ attested' = attested
         /\ \E s : /\ s.class = "candidate" /\ s.digest = command.body
                   /\ s.traces = IF BindExisting THEN work["traces"] ELSE {}
                   /\ s.results = IF BindExisting THEN work["results"] ELSE {}
                   /\ Wrote("state", {s})
<1> DEFINE traces == IF BindExisting THEN work["traces"] ELSE {}
           results == IF BindExisting THEN work["results"] ELSE {}
           s1 == [NoState EXCEPT !.digest = command.body]
           s2 == [s1 EXCEPT !.traces = traces]
           s == [s2 EXCEPT !.results = results]
<1>1. /\ command.phase = "freeze" /\ command' = Idle
      /\ work' = [work EXCEPT !["state"] = {s}]
      /\ frozen' = frozen /\ attested' = attested
      /\ history' = history /\ archive' = archive
  BY DEF FreezeState
<1>2. /\ s.class = "candidate" /\ s.digest = command.body
      /\ s.traces = traces /\ s.results = results
      /\ IsState(s)
  <2> HIDE DEF traces, results
  <2>1. s1 = [class |-> "candidate", digest |-> command.body,
              traces |-> {}, results |-> {}, report |-> {}]
    BY DEF NoState
  <2> HIDE DEF s1
  <2>2. s2 = [class |-> "candidate", digest |-> command.body,
              traces |-> traces, results |-> {}, report |-> {}]
    BY <2>1
  <2> HIDE DEF s2
  <2>3. s = [class |-> "candidate", digest |-> command.body,
             traces |-> traces, results |-> results, report |-> {}]
    BY <2>2
  <2> QED
    BY <2>3 DEF IsState, Classes
<1> HIDE DEF s
<1>3. Single({s}) /\ \A x \in {s} : IsState(x)
  BY <1>2 DEF Single
<1>4. IsCommand(command)' /\ frozen' \in 0..MaxFreezes
  BY <1>1, CommandMoves DEF Typed
<1>5. Typed' /\ Wrote("state", {s})
  <2>1. "state" \in Files /\ "manifest" # "state"
    BY DEF Files
  <2> QED
    BY ONLY Typed, <1>1, <1>3, <1>4, <2>1, WroteTyped
<1> QED
  BY <1>1, <1>2, <1>5

\* What a step of a running phase has in common with the others.
LEMMA StepMoves ==
  ASSUME Typed, NEW phase \in {"generate", "run", "report"}, NEW step \in 1..3,
         NEW tree, NEW next, next \in {Onward, Idle}, step = 3 => next = Idle,
         Step(phase, step, tree, next)
  PROVE  /\ command.phase = phase /\ command.step = step /\ work' = tree
         /\ IsCommand(command)' /\ frozen' \in 0..MaxFreezes
         /\ history' = history /\ archive' = archive
         /\ frozen' = frozen /\ attested' = attested
         /\ command' = next
         /\ next = Onward /\ step < 3 =>
              /\ command'.phase = command.phase
              /\ command'.step = command.step + 1
              /\ command'.body = command.body
              /\ command'.freeze = command.freeze
              /\ command'.class = command.class
              /\ command'.code = command.code
              /\ command'.head = command.head
<1>1. /\ command.phase = phase /\ command.step = step /\ work' = tree
      /\ history' = history /\ archive' = archive
      /\ frozen' = frozen /\ attested' = attested
      /\ command' = next
  BY DEF Step
<1>2. step < 3 => command.step \in 0..2
  BY <1>1
<1>3. step = 3 \/ step < 3
  OBVIOUS
<1> QED
  BY <1>1, <1>2, <1>3, CommandMoves DEF Typed

\* The phase goes on with what it had read.
Goes(phase, step) ==
  /\ command.phase = phase /\ command.step = step
  /\ command'.phase = phase /\ command'.step = step + 1
  /\ command'.body = command.body /\ command'.freeze = command.freeze
  /\ command'.class = command.class
  /\ command'.code = command.code /\ command'.head = command.head
  /\ frozen' = frozen /\ attested' = attested

\* The phase ends.
Ends(phase, step) ==
  /\ command.phase = phase /\ command.step = step /\ command' = Idle
  /\ frozen' = frozen /\ attested' = attested

TracesOf(tree) == {Traces("generated", m.body.draft) : m \in tree["manifest"]}

\* generate leaves the traces that are bound, or writes those of its seeds.
LEMMA GenerateTracesMoves ==
  ASSUME Typed, GenerateTraces
  PROVE  /\ Typed' /\ Goes("generate", 1)
         /\ IF BindExisting THEN Still ELSE Wrote("traces", TracesOf(work))
<1> DEFINE S == TracesOf(work)
<1>1. /\ Goes("generate", 1)
      /\ work' = IF BindExisting THEN work ELSE WithTraces(work)
      /\ IsCommand(command)' /\ frozen' \in 0..MaxFreezes
      /\ history' = history /\ archive' = archive
  BY StepMoves DEF GenerateTraces, Goes
<1>2. CASE BindExisting
  BY <1>1, <1>2, StillTyped
<1>3. CASE ~BindExisting
  <2>1. work' = [work EXCEPT !["traces"] = S]
    BY <1>1, <1>3 DEF WithTraces, TracesOf
  <2>2. Single(S)
    <3>1. Single(work["manifest"])
      BY TreesAre DEF IsTree, Files, Watched
    <3> QED
      BY <3>1 DEF Single, TracesOf
  <2> HIDE DEF S
  <2>3. "traces" \in Files /\ "traces" # "manifest" /\ "traces" # "state"
    BY DEF Files, Watched, Artifacts
  <2>4. Typed' /\ Wrote("traces", S)
    BY ONLY Typed, <1>1, <2>1, <2>2, <2>3, WroteTyped
  <2> QED
    BY <1>1, <1>3, <2>4 DEF S
<1> QED
  BY <1>2, <1>3

\* It writes its record of the freeze,
LEMMA GenerateRecordMoves ==
  ASSUME Typed, GenerateRecord
  PROVE  /\ Typed' /\ Goes("generate", 2)
         /\ Wrote("generate", {[digest |-> Body, freeze |-> command.freeze]})
<1> DEFINE S == {[digest |-> Body, freeze |-> command.freeze]}
<1>1. /\ Goes("generate", 2)
      /\ work' = [work EXCEPT !["generate"] = S]
      /\ IsCommand(command)' /\ frozen' \in 0..MaxFreezes
      /\ history' = history /\ archive' = archive
  BY StepMoves DEF GenerateRecord, Goes, WithGenerate
<1>2. Single(S)
  BY DEF Single
<1> HIDE DEF S
<1>3. "generate" \in Files /\ "generate" # "manifest" /\ "generate" # "state"
  BY DEF Files, Watched, Artifacts
<1>4. Typed' /\ Wrote("generate", S)
  BY ONLY Typed, <1>1, <1>2, <1>3, WroteTyped
<1> QED
  BY <1>1, <1>4 DEF S

\* and the state.
LEMMA GenerateStateMoves ==
  ASSUME Typed, GenerateState
  PROVE  /\ Typed' /\ Ends("generate", 3)
         /\ \E s : /\ s.class = command.class /\ s.digest = {Body}
                   /\ s.traces = work["traces"]
                   /\ s.results = IF BindExisting THEN work["results"]
                                  ELSE State(work).results
                   /\ Wrote("state", {s})
<1> DEFINE old == State(work)
           results == IF BindExisting THEN work["results"] ELSE old.results
           s1 == [old EXCEPT !.class = command.class]
           s2 == [s1 EXCEPT !.digest = {Body}]
           s3 == [s2 EXCEPT !.traces = work["traces"]]
           s == [s3 EXCEPT !.results = results]
<1>1. /\ Ends("generate", 3)
      /\ work' = [work EXCEPT !["state"] = {s}]
      /\ IsCommand(command)' /\ frozen' \in 0..MaxFreezes
      /\ history' = history /\ archive' = archive
  BY StepMoves DEF GenerateState, Ends, WithGenerateState
<1>2. IsState(old) /\ command.class \in Classes
  BY StateIs, TreesAre DEF Typed, IsCommand, Classes
<1> HIDE DEF old
<1>3. /\ s.class = command.class /\ s.digest = {Body}
      /\ s.traces = work["traces"]
      /\ s.results = results
      /\ IsState(s)
  <2> HIDE DEF results
  <2>1. s1 = [class |-> command.class, digest |-> old.digest,
              traces |-> old.traces, results |-> old.results,
              report |-> old.report]
    BY <1>2 DEF IsState
  <2> HIDE DEF s1
  <2>2. s2 = [class |-> command.class, digest |-> {Body},
              traces |-> old.traces, results |-> old.results,
              report |-> old.report]
    BY <2>1
  <2> HIDE DEF s2
  <2>3. s3 = [class |-> command.class, digest |-> {Body},
              traces |-> work["traces"], results |-> old.results,
              report |-> old.report]
    BY <2>2
  <2> HIDE DEF s3
  <2>4. s = [class |-> command.class, digest |-> {Body},
             traces |-> work["traces"], results |-> results,
             report |-> old.report]
    BY <2>3
  <2> QED
    BY <1>2, <2>4 DEF IsState
<1> HIDE DEF s
<1>4. Single({s}) /\ \A x \in {s} : IsState(x)
  BY <1>3 DEF Single
<1>5. Typed' /\ Wrote("state", {s})
  <2>1. "state" \in Files /\ "manifest" # "state"
    BY DEF Files
  <2> QED
    BY ONLY Typed, <1>1, <1>4, <2>1, WroteTyped
<1> QED
  BY <1>1, <1>3, <1>5 DEF old

\* run leaves the results that are bound, or writes those of the code it loaded.
LEMMA RunResultsMoves ==
  ASSUME Typed, RunResults
  PROVE  /\ Typed' /\ Goes("run", 1)
         /\ IF BindExisting THEN Still
            ELSE Wrote("results", {Results(command.code, work["traces"])})
<1> DEFINE S == {Results(command.code, work["traces"])}
<1>1. /\ Goes("run", 1)
      /\ work' = IF BindExisting THEN work ELSE WithResults(work, command.code)
      /\ IsCommand(command)' /\ frozen' \in 0..MaxFreezes
      /\ history' = history /\ archive' = archive
  BY StepMoves DEF RunResults, Goes
<1>2. CASE BindExisting
  BY <1>1, <1>2, StillTyped
<1>3. CASE ~BindExisting
  <2>1. work' = [work EXCEPT !["results"] = S]
    BY <1>1, <1>3 DEF WithResults
  <2>2. Single(S)
    BY DEF Single
  <2> HIDE DEF S
  <2>3. "results" \in Files /\ "results" # "manifest" /\ "results" # "state"
    BY DEF Files, Watched, Artifacts
  <2>4. Typed' /\ Wrote("results", S)
    BY ONLY Typed, <1>1, <2>1, <2>2, <2>3, WroteTyped
  <2> QED
    BY <1>1, <1>3, <2>4 DEF S
<1> QED
  BY <1>2, <1>3

\* It records the commit it ran at,
LEMMA RunRecordMoves ==
  ASSUME Typed, RunRecord
  PROVE  /\ Typed' /\ Goes("run", 2)
         /\ Wrote("run", {[digest |-> Body, freeze |-> command.freeze,
                           head |-> command.head]})
<1> DEFINE S == {[digest |-> Body, freeze |-> command.freeze,
                  head |-> command.head]}
<1>1. /\ Goes("run", 2)
      /\ work' = [work EXCEPT !["run"] = S]
      /\ IsCommand(command)' /\ frozen' \in 0..MaxFreezes
      /\ history' = history /\ archive' = archive
  BY StepMoves DEF RunRecord, Goes, WithRun
<1>2. Single(S)
  BY DEF Single
<1> HIDE DEF S
<1>3. "run" \in Files /\ "run" # "manifest" /\ "run" # "state"
  BY DEF Files, Watched, Artifacts
<1>4. Typed' /\ Wrote("run", S)
  BY ONLY Typed, <1>1, <1>2, <1>3, WroteTyped
<1> QED
  BY <1>1, <1>4 DEF S

\* and patches the state.
LEMMA RunStateMoves ==
  ASSUME Typed, RunState
  PROVE  /\ Typed' /\ Ends("run", 3)
         /\ \E s : /\ s.class = command.class
                   /\ s.digest = State(work).digest
                   /\ s.traces = State(work).traces
                   /\ s.results = work["results"]
                   /\ Wrote("state", {s})
<1> DEFINE old == State(work)
           s1 == [old EXCEPT !.class = command.class]
           s == [s1 EXCEPT !.results = work["results"]]
<1>1. /\ Ends("run", 3)
      /\ work' = [work EXCEPT !["state"] = {s}]
      /\ IsCommand(command)' /\ frozen' \in 0..MaxFreezes
      /\ history' = history /\ archive' = archive
  BY StepMoves DEF RunState, Ends, WithRunState
<1>2. IsState(old) /\ command.class \in Classes
  BY StateIs, TreesAre DEF Typed, IsCommand, Classes
<1> HIDE DEF old
<1>3. /\ s.class = command.class /\ s.digest = old.digest
      /\ s.traces = old.traces /\ s.results = work["results"]
      /\ IsState(s)
  <2>1. s1 = [class |-> command.class, digest |-> old.digest,
              traces |-> old.traces, results |-> old.results,
              report |-> old.report]
    BY <1>2 DEF IsState
  <2> HIDE DEF s1
  <2>2. s = [class |-> command.class, digest |-> old.digest,
             traces |-> old.traces, results |-> work["results"],
             report |-> old.report]
    BY <2>1
  <2> QED
    BY <1>2, <2>2 DEF IsState
<1> HIDE DEF s
<1>4. Single({s}) /\ \A x \in {s} : IsState(x)
  BY <1>3 DEF Single
<1>5. Typed' /\ Wrote("state", {s})
  <2>1. "state" \in Files /\ "manifest" # "state"
    BY DEF Files
  <2> QED
    BY ONLY Typed, <1>1, <1>4, <2>1, WroteTyped
<1> QED
  BY <1>1, <1>3, <1>5 DEF old

\* report writes the report,
LEMMA ReportRecordMoves ==
  ASSUME Typed, ReportRecord
  PROVE  /\ Typed' /\ Goes("report", 1)
         /\ Wrote("report", {[digest |-> Body, freeze |-> command.freeze,
                              run |-> work["run"], class |-> command.class]})
<1> DEFINE S == {[digest |-> Body, freeze |-> command.freeze,
                  run |-> work["run"], class |-> command.class]}
<1>1. /\ Goes("report", 1)
      /\ work' = WithReport(work, Body, command.freeze,
                            ClassOfReport(command.class))
      /\ IsCommand(command)' /\ frozen' \in 0..MaxFreezes
      /\ history' = history /\ archive' = archive
  BY StepMoves DEF ReportRecord, Goes
<1>2. ClassOfReport(command.class) = command.class
  BY DEF ClassOfReport, Typed, IsCommand
<1>3. work' = [work EXCEPT !["report"] = S]
  BY <1>1, <1>2 DEF WithReport
<1>4. Single(S)
  BY DEF Single
<1> HIDE DEF S
<1>5. "report" \in Files /\ "report" # "manifest" /\ "report" # "state"
  BY DEF Files, Watched, Artifacts
<1>6. Typed' /\ Wrote("report", S)
  BY ONLY Typed, <1>1, <1>3, <1>4, <1>5, WroteTyped
<1> QED
  BY <1>1, <1>6 DEF S

\* and the whole state; a command of the developer never seals it.
LEMMA ReportStateMoves ==
  ASSUME Typed, ReportState
  PROVE  /\ Typed' /\ Ends("report", 2)
         /\ Wrote("state", {[class |-> command.class, digest |-> {Body},
                             traces |-> work["traces"],
                             results |-> work["results"],
                             report |-> work["report"]]})
<1> DEFINE s == [class |-> command.class, digest |-> {Body},
                 traces |-> work["traces"], results |-> work["results"],
                 report |-> work["report"]]
<1>1. /\ Ends("report", 2)
      /\ work' = WithReportState(work, Body, ClassOfReport(command.class))
      /\ IsCommand(command)' /\ frozen' \in 0..MaxFreezes
      /\ history' = history /\ archive' = archive
  BY StepMoves DEF ReportState, Ends
<1>2. ClassOfReport(command.class) = command.class
  BY DEF ClassOfReport, Typed, IsCommand
<1>3. work' = [work EXCEPT !["state"] = {s}]
  BY <1>1, <1>2 DEF WithReportState
<1>4. Single({s}) /\ \A x \in {s} : IsState(x)
  BY DEF Single, IsState, Typed, IsCommand, Classes
<1> HIDE DEF s
<1>5. Typed' /\ Wrote("state", {s})
  <2>1. "state" \in Files /\ "manifest" # "state"
    BY DEF Files
  <2> QED
    BY ONLY Typed, <1>1, <1>3, <1>4, <2>1, WroteTyped
<1> QED
  BY <1>1, <1>5 DEF s

\* A killed command leaves everything where it was.
LEMMA KilledMoves ==
  ASSUME Typed, Killed
  PROVE  /\ Typed' /\ Still /\ command' = Idle
         /\ frozen' = frozen /\ attested' = attested
<1>1. /\ command' = Idle /\ frozen' = frozen /\ attested' = attested
      /\ UNCHANGED <<work, history, archive>>
  BY DEF Killed
<1>2. IsCommand(command)' /\ frozen' \in 0..MaxFreezes
  BY <1>1, CommandMoves DEF Typed
<1> QED
  BY <1>1, <1>2, StillTyped

\* So do the attestation workflow and, but for the archive, the pipeline.
LEMMA AttestMoves ==
  ASSUME Typed, Attest
  PROVE  /\ Typed' /\ Still /\ command' = command
         /\ frozen' = frozen
<1>1. /\ command' = command /\ frozen' = frozen
      /\ UNCHANGED <<work, history, archive>>
  BY DEF Attest
<1>2. IsCommand(command)' /\ frozen' \in 0..MaxFreezes
  BY <1>1, CommandMoves DEF Typed
<1> QED
  BY <1>1, <1>2, StillTyped

\* Nothing but the working tree changes in a developer's edit.
Edits ==
  /\ command' = command /\ frozen' = frozen /\ attested' = attested

\* The code and the lock may change at any time,
LEMMA EditCodeMoves ==
  ASSUME Typed, EditCode
  PROVE  /\ Typed' /\ Edits
         /\ \E f \in {"implementation", "lock"} : \E S : Wrote(f, S)
<1>1. PICK f, x :
        /\ f \in {"implementation", "lock"}
        /\ work' = [work EXCEPT ![f] = {x}]
        /\ UNCHANGED <<history, frozen, command, attested, archive>>
  BY DEF EditCode, Edit
<1>2. /\ f \in Files /\ f # "manifest" /\ f # "state"
      /\ Single({x}) /\ history' = history /\ archive' = archive
      /\ IsCommand(command)' /\ frozen' \in 0..MaxFreezes
  BY <1>1, CommandMoves DEF Files, Watched, Single, Typed
<1>3. Typed' /\ Wrote(f, {x})
  <2>1. work' = [work EXCEPT ![f] = {x}]
    BY <1>1
  <2> QED
    BY ONLY Typed, <1>2, <2>1, WroteTyped
<1> QED
  BY <1>1, <1>3 DEF Edits

\* the body of a manifest only between two commands, and not its digest,
LEMMA EditManifestMoves ==
  ASSUME Typed, EditManifest
  PROVE  /\ Typed' /\ Edits /\ command = Idle
         /\ \E m \in work["manifest"] : \E n :
              /\ n.digest = m.digest /\ n.body.stamp = m.body.stamp
              /\ Wrote("manifest", {n})
<1>1. PICK m \in work["manifest"], d \in Drafts :
        /\ work' = [work EXCEPT !["manifest"] = {[m EXCEPT !.body.draft = d]}]
        /\ UNCHANGED <<history, frozen, command, attested, archive>>
        /\ command = Idle
  BY DEF EditManifest, Edit
<1> DEFINE b == [m.body EXCEPT !.draft = d]
           n == [m EXCEPT !.body = b]
<1>2. IsManifest(m)
  BY TreesAre DEF IsTree
<1>3. work' = [work EXCEPT !["manifest"] = {n}]
  BY <1>1, <1>2 DEF IsManifest
<1>4. IsBody(b) /\ b.stamp = m.body.stamp
  BY <1>2 DEF IsManifest, IsBody
<1> HIDE DEF b
<1>5. n.digest = m.digest /\ n.body = b /\ n = [body |-> b, digest |-> m.digest]
  BY <1>2 DEF IsManifest
<1> HIDE DEF n
<1>6. Single({n}) /\ \A x \in {n} : IsManifest(x)
  BY <1>4, <1>5 DEF Single, IsManifest
<1>7. /\ history' = history /\ archive' = archive
      /\ IsCommand(command)' /\ frozen' \in 0..MaxFreezes
  BY <1>1, CommandMoves DEF Typed
<1>8. Typed' /\ Wrote("manifest", {n})
  <2>1. "manifest" \in Files /\ "manifest" # "state"
    BY DEF Files, Watched
  <2> QED
    BY ONLY Typed, <1>3, <1>6, <1>7, <2>1, WroteTyped
<1> QED
  BY <1>1, <1>4, <1>5, <1>8 DEF Edits

\* and artifacts where they may be changed or deleted, or are yet to be run.
LEMMA EditArtifactsMoves ==
  ASSUME Typed, EditArtifacts
  PROVE  /\ Typed' /\ Edits /\ command = Idle
         /\ Editable = {} => BindExisting /\ work["run"] = {}
         /\ \E f \in Artifacts : \E S :
              /\ Wrote(f, S)
              /\ S = {} \/ f \in {"traces", "results"}
              /\ Editable = {} => S # {} /\ f \in {"traces", "results"}
<1>1. PICK f, S :
        /\ f \in Artifacts /\ Single(S)
        /\ S = {} \/ f \in {"traces", "results"}
        /\ Editable = {} => /\ S # {} /\ f \in {"traces", "results"}
                            /\ BindExisting /\ work["run"] = {}
        /\ work' = [work EXCEPT ![f] = S]
        /\ UNCHANGED <<history, frozen, command, attested, archive>>
        /\ command = Idle
  <2>1. \A x : Single({x}) /\ {x} # {}
    BY DEF Single
  <2>2. Single({})
    BY DEF Single
  <2>3. "traces" \in Artifacts /\ "results" \in Artifacts
    BY DEF Artifacts
  <2>4. CASE \E d \in Drafts :
               /\ MayChange("traces") /\ Edit("traces", {Traces("edited", d)})
    BY <2>1, <2>3, <2>4 DEF EditArtifacts, MayChange, Edit
  <2>5. CASE \E d \in Drafts :
               /\ MayChange("results")
               /\ Edit("results", {Results({}, {Traces("edited", d)})})
    BY <2>1, <2>3, <2>5 DEF EditArtifacts, MayChange, Edit
  <2>6. CASE \E f \in Editable : Edit(f, {})
    BY <2>2, <2>6, HoldoutAssumption DEF HoldoutAssumption, EditArtifacts, Edit
  <2> QED
    BY <2>4, <2>5, <2>6 DEF EditArtifacts
<1>2. /\ f \in Files /\ f # "manifest" /\ f # "state"
      /\ history' = history /\ archive' = archive
      /\ IsCommand(command)' /\ frozen' \in 0..MaxFreezes
  BY <1>1, CommandMoves DEF Files, Watched, Artifacts, Typed
<1>3. work' = [work EXCEPT ![f] = S] /\ Single(S)
  BY <1>1
<1>4. Typed' /\ Wrote(f, S)
  BY ONLY Typed, <1>2, <1>3, WroteTyped
<1> QED
  BY <1>1, <1>4 DEF Edits

\* Starting over empties the pack's directory.
LEMMA StartOverMoves ==
  ASSUME Typed, StartOver
  PROVE  /\ Typed' /\ Edits /\ command = Idle
         /\ IsTree(work')
         /\ \A f \in Artifacts \cup {"state"} : work'[f] = {}
         /\ \A f \in Files \ (Artifacts \cup {"state"}) : work'[f] = work[f]
         /\ Trees' \subseteq Trees \cup {work'}
         /\ \A e \in Files : Held(e)' \subseteq Held(e)
         /\ history' = history /\ archive' = archive
<1>1. /\ command = Idle
      /\ work' = [f \in Files |-> IF f \in Artifacts \cup {"state"} THEN {}
                                  ELSE work[f]]
      /\ UNCHANGED <<history, frozen, command, attested, archive>>
  BY DEF StartOver
<1>2. IsTree(work) /\ work \in Trees
  BY TreesAre
<1>3. \A f \in Files : work'[f] = {} \/ work'[f] = work[f]
  BY <1>1
<1>4. IsTree(work')
  <2>1. work' = [f \in Files |-> work'[f]]
    BY <1>1
  <2>2. "manifest" \in Files /\ "state" \in Files
    BY DEF Files, Watched
  <2> QED
    BY <1>2, <1>3, <2>1, <2>2 DEF IsTree, Single
<1>5. Trees' \subseteq Trees \cup {work'}
  BY <1>1 DEF Trees
<1>6. \A e \in Files : Held(e)' \subseteq Held(e)
  <2>1. \A tree \in Trees' : tree \in Trees \/ tree = work'
    BY <1>5
  <2> QED
    BY <1>2, <1>3, <2>1 DEF Held
<1>7. Typed'
  <2>1. IsCommand(command)' /\ frozen' \in 0..MaxFreezes
    BY <1>1, CommandMoves DEF Typed
  <2> QED
    BY <1>1, <1>4, <1>5, <2>1 DEF Typed, HEAD
<1>8. Files \ (Artifacts \cup {"state"}) \subseteq Files
      /\ Artifacts \cup {"state"} \subseteq Files
  BY DEF Files, Watched
<1> QED
  BY <1>1, <1>4, <1>5, <1>6, <1>7, <1>8 DEF Edits

\* An archive is unpacked over everything but the code.
LEMMA UnpackMoves ==
  ASSUME Typed, Unpack
  PROVE  /\ Typed' /\ Edits /\ command = Idle
         /\ IsTree(work')
         /\ \E pack \in archive :
              \A f \in Files \ {"implementation", "lock"} : work'[f] = pack[f]
         /\ Trees' \subseteq Trees \cup {work'}
         /\ \A e \in Files : Held(e)' \subseteq Held(e)
         /\ history' = history /\ archive' = archive
<1>1. PICK pack \in archive :
        /\ command = Idle
        /\ work' = [f \in Files |-> IF f \in {"implementation", "lock"}
                                    THEN work[f] ELSE pack[f]]
        /\ UNCHANGED <<history, frozen, command, attested, archive>>
  BY DEF Unpack
<1>2. /\ IsTree(work) /\ work \in Trees
      /\ IsTree(pack) /\ pack \in Trees
  BY TreesAre
<1>3. \A f \in Files : work'[f] = pack[f] \/ work'[f] = work[f]
  BY <1>1
<1>4. IsTree(work')
  <2>1. work' = [f \in Files |-> work'[f]]
    BY <1>1
  <2>2. "manifest" \in Files /\ "state" \in Files
    BY DEF Files, Watched
  <2> QED
    BY <1>2, <1>3, <2>1, <2>2 DEF IsTree
<1>5. Trees' \subseteq Trees \cup {work'}
  BY <1>1 DEF Trees
<1>6. \A e \in Files : Held(e)' \subseteq Held(e)
  <2>1. \A tree \in Trees' : tree \in Trees \/ tree = work'
    BY <1>5
  <2> QED
    BY <1>2, <1>3, <2>1 DEF Held
<1>7. Typed'
  <2>1. IsCommand(command)' /\ frozen' \in 0..MaxFreezes
    BY <1>1, CommandMoves DEF Typed
  <2> QED
    BY <1>1, <1>4, <1>5, <2>1 DEF Typed, HEAD
<1> QED
  BY <1>1, <1>4, <1>5, <1>6, <1>7 DEF Edits

\* A commit is of the working tree, or of its manifest and state alone.
CommitOf(tree) ==
  \/ tree = work
  \/ \A f \in Files : tree[f] = IF f \in {"manifest", "state"} THEN work[f]
                                ELSE history[HEAD][f]

\* A commit adds one tree to the history.
LEMMA CommitMoves ==
  ASSUME Typed, Commit
  PROVE  /\ Typed' /\ Edits
         /\ Extends(history, history') /\ HEAD' = HEAD + 1
         /\ \A c \in 1..HEAD : history'[c] = history[c]
         /\ IsTree(history'[HEAD']) /\ CommitOf(history'[HEAD'])
         /\ Trees' \subseteq Trees \cup {history'[HEAD']}
         /\ \A e \in Files : Held(e)' \subseteq Held(e)
         /\ work' = work /\ archive' = archive
<1>1. PICK tree, whole :
        /\ whole \in BOOLEAN
        /\ HEAD < MaxCommits
        /\ tree = IF whole THEN work
                  ELSE [history[HEAD] EXCEPT !["manifest"] = work["manifest"],
                                             !["state"] = work["state"]]
        /\ history' = Append(history, tree)
        /\ UNCHANGED <<work, frozen, command, attested, archive>>
  BY DEF Commit
<1>2. /\ IsTree(work) /\ work \in Trees
      /\ IsTree(history[HEAD]) /\ history[HEAD] \in Trees
      /\ HEAD \in 1..HEAD /\ HEAD \in Nat
      /\ DOMAIN history = 1..HEAD /\ IsHistory(history)
  BY TreesAre DEF Typed
<1>3. IsTree(tree) /\ CommitOf(tree)
  <2>1. CASE whole
    BY <1>1, <1>2, <2>1 DEF CommitOf
  <2>2. CASE ~whole
    <3> DEFINE first == [history[HEAD] EXCEPT !["manifest"] = work["manifest"]]
    <3>1. tree = [first EXCEPT !["state"] = work["state"]]
      BY <1>1, <2>2
    <3>2. /\ "manifest" \in Files /\ "state" \in Files /\ "manifest" # "state"
          /\ Single(work["manifest"]) /\ Single(work["state"])
          /\ \A m \in work["manifest"] : IsManifest(m)
          /\ \A s \in work["state"] : IsState(s)
      BY <1>2 DEF IsTree, Files, Watched
    <3>3. /\ IsTree(first) /\ first["manifest"] = work["manifest"]
          /\ \A e \in Files \ {"manifest"} : first[e] = history[HEAD][e]
      BY ONLY <1>2, <3>2, WriteFile
    <3> HIDE DEF first
    <3>4. /\ IsTree(tree) /\ tree["state"] = work["state"]
          /\ \A e \in Files \ {"state"} : tree[e] = first[e]
      <4>1. /\ IsTree([first EXCEPT !["state"] = work["state"]])
            /\ [first EXCEPT !["state"] = work["state"]]["state"] = work["state"]
            /\ \A e \in Files \ {"state"} :
                 [first EXCEPT !["state"] = work["state"]][e] = first[e]
        BY ONLY <3>2, <3>3, WriteFile
      <4> QED
        BY ONLY <3>1, <4>1
    <3> QED
      BY <3>2, <3>3, <3>4 DEF CommitOf
  <2> QED
    BY <2>1, <2>2
<1>4. /\ IsHistory(history') /\ Len(history') = Len(history) + 1
      /\ \A c \in 1..Len(history) : history'[c] = history[c]
      /\ history'[Len(history')] = tree
  <2>1. /\ IsHistory(Append(history, tree))
        /\ Len(Append(history, tree)) = Len(history) + 1
        /\ \A c \in 1..Len(history) : Append(history, tree)[c] = history[c]
        /\ Append(history, tree)[Len(Append(history, tree))] = tree
    BY <1>2, CommitAdds
  <2>2. history' = Append(history, tree)
    BY <1>1
  <2> QED
    BY ONLY <2>1, <2>2
<1>5. /\ HEAD' = HEAD + 1 /\ history'[HEAD'] = tree
      /\ \A c \in 1..HEAD : history'[c] = history[c]
  BY <1>4 DEF HEAD
<1>6. Extends(history, history')
  BY <1>2, <1>4 DEF Extends, HEAD
<1>7. DOMAIN history' = 1..HEAD'
  BY <1>4 DEF IsHistory, HEAD
<1>8. \A c \in 1..HEAD' : c \in 1..HEAD \/ c = HEAD'
  BY <1>2, <1>5
<1>9. Trees' \subseteq Trees \cup {tree}
  <2>1. \A c \in 1..HEAD' : history'[c] \in Trees \cup {tree}
    BY <1>2, <1>5, <1>8 DEF Trees
  <2> QED
    BY <1>1, <1>7, <2>1 DEF Trees
<1>10. \A e \in Files : Held(e)' \subseteq Held(e)
  <2>1. \A e \in Files : tree[e] \in {work[e], history[HEAD][e]}
    BY <1>3 DEF CommitOf
  <2>2. \A t \in Trees' : t \in Trees \/ t = tree
    BY <1>9
  <2> QED
    BY <1>2, <2>1, <2>2 DEF Held
<1>11. Typed'
  <2>1. IsCommand(command)'
    BY <1>1, <1>2, <1>5 DEF Typed, IsCommand
  <2>2. \A t \in Trees' : IsTree(t)
    BY <1>3, <1>9 DEF Typed
  <2>3. HEAD' <= MaxCommits
    BY <1>1, <1>2, <1>5, HoldoutAssumption DEF HoldoutAssumption
  <2> QED
    BY <1>1, <1>4, <2>1, <2>2, <2>3 DEF Typed
<1> QED
  BY <1>1, <1>3, <1>5, <1>6, <1>9, <1>10, <1>11 DEF Edits

\* What the workflow archives: the phases ran on the last commit.
ArchivedOf(t0, body, freeze, tree) ==
  /\ IsTree(tree)
  /\ tree["manifest"] = t0["manifest"]
  /\ tree["traces"] = IF BindExisting THEN t0["traces"] ELSE TracesOf(t0)
  /\ tree["results"] = IF BindExisting THEN t0["results"]
                       ELSE {Results(t0["implementation"], tree["traces"])}
  /\ tree["generate"] = {[digest |-> body, freeze |-> freeze]}
  /\ tree["run"] = {[digest |-> body, freeze |-> freeze, head |-> HEAD]}
  /\ tree["attestation"] = attested
  /\ \E class \in {"locally-frozen", "sealed"} :
       /\ tree["report"] = {[digest |-> body, freeze |-> freeze,
                             run |-> tree["run"], class |-> class]}
       /\ tree["state"] = {[class |-> class, digest |-> {body},
                            traces |-> tree["traces"],
                            results |-> tree["results"],
                            report |-> tree["report"]]}

IsTotal(tree) == tree = [f \in Files |-> tree[f]]

\* A file of a tree is written whatever its content.
LEMMA PutFile ==
  ASSUME NEW tree, IsTotal(tree), NEW f \in Files, NEW S
  PROVE  /\ IsTotal([tree EXCEPT ![f] = S])
         /\ [tree EXCEPT ![f] = S][f] = S
         /\ \A e \in Files \ {f} : [tree EXCEPT ![f] = S][e] = tree[e]
  BY DEF IsTotal

\* The pipeline leaves an archive made of the last commit alone.
LEMMA PipelineMoves ==
  ASSUME Typed, Pipeline
  PROVE  /\ Typed' /\ Edits /\ work' = work /\ history' = history
         /\ MayGenerate(history[HEAD]) /\ Complete(history[HEAD], "generate")
         /\ \E tree :
              /\ archive' = {tree} /\ Trees' \subseteq Trees \cup {tree}
              /\ Verified(tree)
              /\ ArchivedOf(history[HEAD], Frozen(history[HEAD]),
                            FreezeCommit(history[HEAD]), tree)
<1> DEFINE t0 == history[HEAD]
           body == Frozen(t0)
           freeze == FreezeCommit(t0)
           u1 == IF BindExisting THEN t0 ELSE WithTraces(t0)
           u2 == WithGenerate(u1, body, freeze)
           c1 == Earned(t0, TRUE)
           t1 == WithGenerateState(u2, body, c1)
           u3 == IF BindExisting THEN t1 ELSE WithResults(t1, t1["implementation"])
           u4 == WithRun(u3, body, freeze, HEAD)
           c2 == Earned(t1, TRUE)
           t2 == WithRunState(u4, c2)
           t3 == [t2 EXCEPT !["attestation"] = attested]
           class == ClassOfReport(Earned(t3, TRUE))
           u5 == WithReport(t3, body, freeze, class)
           t4 == WithReportState(u5, body, class)
<1>1. /\ MayGenerate(t0) /\ Verified(t4)
      /\ attested = {Attestation(t0)}
      /\ archive' = {t4}
      /\ UNCHANGED <<work, history, frozen, command, attested>>
  BY DEF Pipeline
<1>2. Complete(t0, "generate")
  BY <1>1 DEF MayGenerate
<1>3. IsTree(t0) /\ t0 \in Trees /\ IsTotal(t0)
  BY TreesAre DEF IsTree, IsTotal
<1>4. {"manifest", "implementation", "state", "traces", "results", "generate",
       "run", "report", "attestation"} \subseteq Files
  BY DEF Files, Watched, Artifacts
<1>5. class \in {"locally-frozen", "sealed"}
  BY DEF ClassOfReport, Earned
<1> HIDE DEF t0, body, freeze, c1, c2, class
<1>6. /\ IsTotal(u1)
      /\ u1["traces"] = IF BindExisting THEN t0["traces"] ELSE TracesOf(t0)
      /\ \A e \in Files \ {"traces"} : u1[e] = t0[e]
  <2>1. CASE BindExisting
    BY <1>3, <2>1
  <2>2. CASE ~BindExisting
    <3>1. u1 = [t0 EXCEPT !["traces"] = TracesOf(t0)]
      BY <2>2 DEF WithTraces, TracesOf
    <3> QED
      BY <1>3, <1>4, <2>2, <3>1, PutFile
  <2> QED
    BY <2>1, <2>2
<1> HIDE DEF u1
<1>7. /\ IsTotal(u2) /\ u2["generate"] = {[digest |-> body, freeze |-> freeze]}
      /\ \A e \in Files \ {"generate"} : u2[e] = u1[e]
  <2> DEFINE S == {[digest |-> body, freeze |-> freeze]}
  <2>1. u2 = [u1 EXCEPT !["generate"] = S]
    BY DEF WithGenerate
  <2> HIDE DEF u2
  <2>2. u2["generate"] = S /\ IsTotal(u2)
        /\ \A e \in Files \ {"generate"} : u2[e] = u1[e]
    <3> HIDE DEF S
    <3>1. /\ IsTotal([u1 EXCEPT !["generate"] = S])
          /\ [u1 EXCEPT !["generate"] = S]["generate"] = S
          /\ \A e \in Files \ {"generate"} :
               [u1 EXCEPT !["generate"] = S][e] = u1[e]
      BY ONLY <1>4, <1>6, PutFile
    <3> QED
      BY ONLY <2>1, <3>1
  <2> QED
    BY <2>2
<1> HIDE DEF u2
<1>8. /\ IsTotal(t1)
      /\ \A e \in Files \ {"state"} : t1[e] = u2[e]
  <2>1. PICK S : t1 = [u2 EXCEPT !["state"] = S]
    BY DEF WithGenerateState
  <2>2. /\ IsTotal([u2 EXCEPT !["state"] = S])
        /\ \A e \in Files \ {"state"} :
             [u2 EXCEPT !["state"] = S][e] = u2[e]
    BY ONLY <1>4, <1>7, PutFile
  <2> HIDE DEF t1
  <2> QED
    BY ONLY <2>1, <2>2
<1> HIDE DEF t1
<1>9. /\ IsTotal(u3)
      /\ u3["results"] = IF BindExisting THEN t1["results"]
                         ELSE {Results(t1["implementation"], t1["traces"])}
      /\ \A e \in Files \ {"results"} : u3[e] = t1[e]
  <2>1. CASE BindExisting
    BY <1>8, <2>1
  <2>2. CASE ~BindExisting
    <3> DEFINE S == {Results(t1["implementation"], t1["traces"])}
    <3>1. u3 = [t1 EXCEPT !["results"] = S]
      BY <2>2 DEF WithResults
    <3> HIDE DEF S
    <3>2. IsTotal(u3) /\ u3["results"] = S
          /\ \A e \in Files \ {"results"} : u3[e] = t1[e]
      BY <1>4, <1>8, <3>1, PutFile
    <3> QED
      BY <2>2, <3>2 DEF S
  <2> QED
    BY <2>1, <2>2
<1> HIDE DEF u3
<1>10. /\ IsTotal(u4)
       /\ u4["run"] = {[digest |-> body, freeze |-> freeze, head |-> HEAD]}
       /\ \A e \in Files \ {"run"} : u4[e] = u3[e]
  <2> DEFINE S == {[digest |-> body, freeze |-> freeze, head |-> HEAD]}
  <2>1. u4 = [u3 EXCEPT !["run"] = S]
    BY DEF WithRun
  <2> HIDE DEF u4
  <2>2. u4["run"] = S /\ IsTotal(u4)
        /\ \A e \in Files \ {"run"} : u4[e] = u3[e]
    <3> HIDE DEF S
    <3>1. /\ IsTotal([u3 EXCEPT !["run"] = S])
          /\ [u3 EXCEPT !["run"] = S]["run"] = S
          /\ \A e \in Files \ {"run"} :
               [u3 EXCEPT !["run"] = S][e] = u3[e]
      BY ONLY <1>4, <1>9, PutFile
    <3> QED
      BY ONLY <2>1, <3>1
  <2> QED
    BY <2>2
<1> HIDE DEF u4
<1>11. IsTotal(t2) /\ \A e \in Files \ {"state"} : t2[e] = u4[e]
  <2>1. PICK S : t2 = [u4 EXCEPT !["state"] = S]
    BY DEF WithRunState
  <2>2. /\ IsTotal([u4 EXCEPT !["state"] = S])
        /\ \A e \in Files \ {"state"} :
             [u4 EXCEPT !["state"] = S][e] = u4[e]
    BY ONLY <1>4, <1>10, PutFile
  <2> HIDE DEF t2
  <2> QED
    BY ONLY <2>1, <2>2
<1> HIDE DEF t2
<1>12. /\ IsTotal(t3) /\ t3["attestation"] = attested
       /\ \A e \in Files \ {"attestation"} : t3[e] = t2[e]
  BY <1>4, <1>11, PutFile
<1> HIDE DEF t3
<1>13. /\ IsTotal(u5)
       /\ u5["report"] = {[digest |-> body, freeze |-> freeze,
                           run |-> t3["run"], class |-> class]}
       /\ \A e \in Files \ {"report"} : u5[e] = t3[e]
  <2> DEFINE S == {[digest |-> body, freeze |-> freeze,
                    run |-> t3["run"], class |-> class]}
  <2>1. u5 = [t3 EXCEPT !["report"] = S]
    BY DEF WithReport
  <2> HIDE DEF u5
  <2>2. u5["report"] = S /\ IsTotal(u5)
        /\ \A e \in Files \ {"report"} : u5[e] = t3[e]
    <3> HIDE DEF S
    <3>1. /\ IsTotal([t3 EXCEPT !["report"] = S])
          /\ [t3 EXCEPT !["report"] = S]["report"] = S
          /\ \A e \in Files \ {"report"} :
               [t3 EXCEPT !["report"] = S][e] = t3[e]
      BY ONLY <1>4, <1>12, PutFile
    <3> QED
      BY ONLY <2>1, <3>1
  <2> QED
    BY <2>2
<1> HIDE DEF u5
<1>14. /\ IsTotal(t4)
       /\ t4["state"] = {[class |-> class, digest |-> {body},
                          traces |-> u5["traces"], results |-> u5["results"],
                          report |-> u5["report"]]}
       /\ \A e \in Files \ {"state"} : t4[e] = u5[e]
  <2> DEFINE S == {[class |-> class, digest |-> {body},
                    traces |-> u5["traces"], results |-> u5["results"],
                    report |-> u5["report"]]}
  <2>1. t4 = [u5 EXCEPT !["state"] = S]
    BY DEF WithReportState
  <2> HIDE DEF t4
  <2>2. t4["state"] = S /\ IsTotal(t4)
        /\ \A e \in Files \ {"state"} : t4[e] = u5[e]
    <3> HIDE DEF S
    <3>1. /\ IsTotal([u5 EXCEPT !["state"] = S])
          /\ [u5 EXCEPT !["state"] = S]["state"] = S
          /\ \A e \in Files \ {"state"} :
               [u5 EXCEPT !["state"] = S][e] = u5[e]
      BY ONLY <1>4, <1>13, PutFile
    <3> QED
      BY ONLY <2>1, <3>1
  <2> QED
    BY <2>2
<1> HIDE DEF t4
<1>15. /\ \A e \in Files \ {"traces", "results", "generate", "run", "report",
                            "state", "attestation"} : t4[e] = t0[e]
       /\ t4["traces"] = IF BindExisting THEN t0["traces"] ELSE TracesOf(t0)
       /\ t4["generate"] = {[digest |-> body, freeze |-> freeze]}
       /\ t4["attestation"] = attested
  <2>1. \A e \in Files \ {"traces", "results", "generate", "run", "report",
                          "state", "attestation"} : t4[e] = t0[e]
    BY ONLY <1>6, <1>7, <1>8, <1>9, <1>10, <1>11, <1>12, <1>13, <1>14
  <2>2. t4["traces"] = u1["traces"]
    BY ONLY <1>4, <1>7, <1>8, <1>9, <1>10, <1>11, <1>12, <1>13, <1>14
  <2>3. t4["generate"] = u2["generate"]
    BY ONLY <1>4, <1>8, <1>9, <1>10, <1>11, <1>12, <1>13, <1>14
  <2>4. t4["attestation"] = t3["attestation"]
    BY ONLY <1>4, <1>13, <1>14
  <2> QED
    BY ONLY <1>6, <1>7, <1>12, <2>1, <2>2, <2>3, <2>4
<1>16. t4["results"] = IF BindExisting THEN t0["results"]
                       ELSE {Results(t0["implementation"], t4["traces"])}
  <2>1. t4["results"] = u3["results"]
    BY ONLY <1>4, <1>10, <1>11, <1>12, <1>13, <1>14
  <2>2. t1["results"] = t0["results"]
    BY ONLY <1>4, <1>6, <1>7, <1>8
  <2>3. t1["implementation"] = t0["implementation"]
    BY ONLY <1>4, <1>6, <1>7, <1>8
  <2>4. t1["traces"] = t4["traces"]
    BY ONLY <1>4, <1>9, <1>10, <1>11, <1>12, <1>13, <1>14
  <2>5. CASE BindExisting
    BY ONLY <1>9, <2>1, <2>2, <2>5
  <2>6. CASE ~BindExisting
    BY ONLY <1>9, <2>1, <2>3, <2>4, <2>6
  <2> QED
    BY <2>5, <2>6
<1>17. t4["run"] = {[digest |-> body, freeze |-> freeze, head |-> HEAD]}
       /\ t3["run"] = t4["run"]
  <2>1. t4["run"] = u4["run"] /\ t3["run"] = u4["run"]
    BY ONLY <1>4, <1>11, <1>12, <1>13, <1>14
  <2> QED
    BY ONLY <1>10, <2>1
<1>18. /\ t4["report"] = {[digest |-> body, freeze |-> freeze,
                           run |-> t4["run"], class |-> class]}
       /\ t4["state"] = {[class |-> class, digest |-> {body},
                          traces |-> t4["traces"], results |-> t4["results"],
                          report |-> t4["report"]]}
  <2>1. /\ t4["report"] = u5["report"] /\ t4["traces"] = u5["traces"]
        /\ t4["results"] = u5["results"]
    BY ONLY <1>4, <1>14
  <2>2. t4["report"] = {[digest |-> body, freeze |-> freeze,
                         run |-> t3["run"], class |-> class]}
    BY ONLY <1>13, <2>1
  <2>3. t4["state"] = {[class |-> class, digest |-> {body},
                        traces |-> u5["traces"], results |-> u5["results"],
                        report |-> u5["report"]]}
    BY ONLY <1>14
  <2>4. t4["report"] = {[digest |-> body, freeze |-> freeze,
                         run |-> t4["run"], class |-> class]}
    BY ONLY <1>17, <2>2
  <2> QED
    BY ONLY <2>1, <2>3, <2>4
<1>19. IsTree(t4)
  <2>1. \A e \in Files : Single(t0[e])
    BY <1>3 DEF IsTree
  <2>2. Single(TracesOf(t0))
    BY <1>4, <2>1 DEF Single, TracesOf
  <2>3. Single(attested)
    BY <1>1 DEF Single
  <2>4. \A x : Single({x})
    BY DEF Single
  <2>5. \A e \in Files : Single(t4[e])
    <3>1. \A e \in Files \ {"traces", "results", "generate", "run", "report",
                            "state", "attestation"} : Single(t4[e])
      BY ONLY <1>15, <2>1
    <3>2. Single(t4["traces"])
      BY ONLY <1>4, <1>15, <2>1, <2>2
    <3>3. Single(t4["results"])
      BY ONLY <1>4, <1>16, <2>1, <2>4
    <3>4. Single(t4["generate"]) /\ Single(t4["attestation"])
      BY ONLY <1>15, <2>3, <2>4
    <3>5. Single(t4["run"])
      BY ONLY <1>17, <2>4
    <3>6. Single(t4["report"]) /\ Single(t4["state"])
      BY ONLY <1>18, <2>4
    <3> QED
      BY ONLY <3>1, <3>2, <3>3, <3>4, <3>5, <3>6
  <2>6. \A m \in t4["manifest"] : IsManifest(m)
    BY <1>3, <1>4, <1>15 DEF IsTree
  <2>7. \A s \in t4["state"] : IsState(s)
    BY <1>5, <1>18 DEF IsState, Classes
  <2> QED
    BY <1>14, <2>5, <2>6, <2>7 DEF IsTree, IsTotal
<1>20. Trees' \subseteq Trees \cup {t4}
  BY <1>1 DEF Trees
<1>21. Typed'
  <2>1. IsCommand(command)' /\ frozen' \in 0..MaxFreezes
    BY <1>1, CommandMoves DEF Typed
  <2> QED
    BY <1>1, <1>19, <1>20, <2>1 DEF Typed, HEAD
<1>22. t4["manifest"] = t0["manifest"]
  BY <1>4, <1>15
<1>23. ArchivedOf(t0, body, freeze, t4)
  BY <1>5, <1>15, <1>16, <1>17, <1>18, <1>19, <1>22 DEF ArchivedOf
<1> QED
  BY <1>1, <1>2, <1>20, <1>21, <1>23 DEF Edits, t0, body, freeze

-----------------------------------------------------------------------------
(* The first layer: shapes                                                 *)

\* A repository starts with code, and what was published if that is bound.
LEMMA NewTreeIs ==
  /\ IsTree(NewTree)
  /\ \A f \in Files \ {"implementation", "lock", "traces", "results"} :
        NewTree[f] = {}
  /\ BindExisting => NewTree["traces"] # {} /\ NewTree["results"] # {}
<1> DEFINE code == {CHOOSE v \in Versions : TRUE}
           lock == {CHOOSE l \in Locks : TRUE}
           traces == {Published}
           results == {Results(code, {Published})}
<1>1. NewTree = [f \in Files |->
         CASE f = "implementation" -> code
           [] f = "lock" -> lock
           [] f = "traces" /\ BindExisting -> traces
           [] f = "results" /\ BindExisting -> results
           [] OTHER -> {}]
  BY DEF NewTree
<1>2. Single(code) /\ Single(lock) /\ Single(traces) /\ Single(results)
      /\ Single({}) /\ traces # {} /\ results # {}
  BY DEF Single
<1> HIDE DEF code, lock, traces, results
<1>3. {"implementation", "lock", "traces", "results", "manifest", "state"}
        \subseteq Files
  BY DEF Files, Watched, Artifacts
<1>4. \A f \in Files \ {"implementation", "lock", "traces", "results"} :
        NewTree[f] = {}
  BY <1>1
<1>5. /\ NewTree["implementation"] = code /\ NewTree["lock"] = lock
      /\ NewTree["traces"] = IF BindExisting THEN traces ELSE {}
      /\ NewTree["results"] = IF BindExisting THEN results ELSE {}
  BY <1>1, <1>3
<1>6. \A f \in Files : Single(NewTree[f])
  BY <1>2, <1>4, <1>5
<1>7. NewTree = [f \in Files |-> NewTree[f]]
  BY <1>1
<1> QED
  BY <1>2, <1>3, <1>4, <1>5, <1>6, <1>7 DEF IsTree

\* At the start there is that tree alone.
LEMMA InitIs ==
  ASSUME Init
  PROVE  /\ Typed /\ Trees = {NewTree} /\ HEAD = 1 /\ history[1] = NewTree
         /\ \A f \in Files : Held(f) = NewTree[f]
<1>1. /\ work = NewTree /\ history = <<NewTree>> /\ frozen = 0
      /\ command = Idle /\ archive = {}
  BY DEF Init
<1>2. IsHistory(history) /\ HEAD = 1 /\ history[1] = NewTree
  BY <1>1 DEF IsHistory, HEAD
<1>3. Trees = {NewTree}
  BY <1>1 DEF Trees
<1>4. IsTree(NewTree)
  BY NewTreeIs
<1>5. IsCommand(command)
  BY <1>1, <1>2 DEF IsCommand, Idle
<1>6. \A f \in Files : Held(f) = NewTree[f]
  BY <1>3 DEF Held
<1>7. HEAD <= MaxCommits /\ frozen \in 0..MaxFreezes
  BY <1>1, <1>2, HoldoutAssumption DEF HoldoutAssumption
<1> QED
  BY <1>2, <1>3, <1>4, <1>5, <1>6, <1>7 DEF Typed

\* Every step keeps the shapes.
LEMMA NextTyped == Typed /\ [Next]_vars => Typed'
<1> SUFFICES ASSUME Typed, [Next]_vars
             PROVE  Typed'
  OBVIOUS
<1>1. CASE Next
  <2>1. CASE \E d \in Drafts : Freeze(d)
    BY <2>1, FreezeMoves
  <2>2. CASE FreezeState
    BY <2>2, FreezeStateMoves
  <2>3. CASE Beginning
    BY <2>3, BeginMoves
  <2>4. CASE GenerateTraces \/ GenerateRecord \/ GenerateState
    BY <2>4, GenerateTracesMoves, GenerateRecordMoves, GenerateStateMoves
  <2>5. CASE RunResults \/ RunRecord \/ RunState
    BY <2>5, RunResultsMoves, RunRecordMoves, RunStateMoves
  <2>6. CASE ReportRecord \/ ReportState
    BY <2>6, ReportRecordMoves, ReportStateMoves
  <2>7. CASE Killed
    BY <2>7, KilledMoves
  <2>8. CASE EditCode \/ EditManifest \/ EditArtifacts
    BY <2>8, EditCodeMoves, EditManifestMoves, EditArtifactsMoves
  <2>9. CASE StartOver \/ Unpack
    BY <2>9, StartOverMoves, UnpackMoves
  <2>10. CASE Commit
    BY <2>10, CommitMoves
  <2>11. CASE Attest
    BY <2>11, AttestMoves
  <2>12. CASE Pipeline
    BY <2>12, PipelineMoves
  <2> QED
    BY <1>1, <2>1, <2>2, <2>3, <2>4, <2>5, <2>6, <2>7, <2>8, <2>9, <2>10,
       <2>11, <2>12, NextIs
<1>2. CASE UNCHANGED vars
  BY <1>2 DEF vars, Typed, Trees, HEAD, IsCommand
<1> QED
  BY <1>1, <1>2

\* Shapes imply the types.
LEMMA TypedIsTyped == ASSUME Typed PROVE TypeOK
<1>1. \A tree \in {work} \cup {history[c] : c \in DOMAIN history} :
        tree \in Trees
  BY DEF Trees
<1>2. ASSUME NEW tree \in {work} \cup {history[c] : c \in DOMAIN history}
      PROVE  /\ DOMAIN tree = Files
             /\ \A f \in Files : IsFiniteSet(tree[f]) /\ Cardinality(tree[f]) <= 1
             /\ \A s \in tree["state"] : s.class \in Classes
  <2>1. IsTree(tree)
    BY <1>1, <1>2 DEF Typed
  <2>2. DOMAIN tree = Files
    BY <2>1 DEF IsTree
  <2>3. \A f \in Files : IsFiniteSet(tree[f]) /\ Cardinality(tree[f]) <= 1
    BY <2>1, SingleIsFinite DEF IsTree
  <2>4. \A s \in tree["state"] : s.class \in Classes
    BY <2>1 DEF IsTree, IsState
  <2> QED
    BY <2>2, <2>3, <2>4
<1>3. /\ Len(history) \in 1..MaxCommits /\ frozen \in 0..MaxFreezes
      /\ command.phase \in {"idle", "freeze", "generate", "run", "report"}
      /\ command.freeze \in 0..Len(history) /\ command.head \in 0..Len(history)
  BY HoldoutAssumption DEF Typed, IsHistory, IsCommand, HEAD, HoldoutAssumption
<1> QED
  BY <1>2, <1>3 DEF TypeOK

\* The trees of the work, the commits and the archive hold at most one content
\* of every file; histories and freezes stay within their bounds
\* (holdout-protocol.mjs).
THEOREM TypeCorrect == Spec => []TypeOK
<1>1. Init => Typed
  BY InitIs
<1>2. Typed /\ [Next]_vars => Typed'
  BY NextTyped
<1>3. Typed => TypeOK
  BY TypedIsTyped
<1> QED
  BY <1>1, <1>2, <1>3, PTL DEF Spec

-----------------------------------------------------------------------------
(* What was recorded is kept                                               *)

\* A phase that is about to produce found no record of its own, and nobody
\* makes one for it.
LEMMA NextUnrecorded == Typed /\ Unrecorded /\ [Next]_vars => Unrecorded'
<1> SUFFICES ASSUME Typed, Unrecorded, [Next]_vars
             PROVE  Unrecorded'
  OBVIOUS
<1> USE DEF Unrecorded
<1>1. {"generate", "run", "state", "traces", "results", "report",
       "manifest", "implementation", "lock"} \subseteq Files
  BY DEF Files, Watched, Artifacts
<1>2. command = Idle => command.phase = "idle"
  BY DEF Idle
<1>3. ASSUME Next
      PROVE  Unrecorded'
  <2>1. CASE \E d \in Drafts : Freeze(d)
    BY <2>1, FreezeMoves
  <2>2. CASE FreezeState
    BY <2>2, FreezeStateMoves DEF Idle
  <2>3. CASE Beginning
    BY <2>3, BeginMoves DEF MayGenerate, MayRun, Still
  <2>4. CASE GenerateTraces \/ GenerateRecord \/ GenerateState
    BY <2>4, GenerateTracesMoves, GenerateRecordMoves, GenerateStateMoves
       DEF Goes, Ends, Idle
  <2>5. CASE RunResults \/ RunRecord \/ RunState
    BY <2>5, RunResultsMoves, RunRecordMoves, RunStateMoves
       DEF Goes, Ends, Idle
  <2>6. CASE ReportRecord \/ ReportState
    BY <2>6, ReportRecordMoves, ReportStateMoves DEF Goes, Ends, Idle
  <2>7. CASE Killed
    BY <2>7, KilledMoves DEF Idle
  <2>8. CASE EditCode
    BY <1>1, <2>8, EditCodeMoves DEF Edits, Wrote
  <2>9. CASE EditManifest \/ EditArtifacts \/ StartOver \/ Unpack
    BY <1>2, <2>9, EditManifestMoves, EditArtifactsMoves, StartOverMoves,
       UnpackMoves DEF Edits
  <2>10. CASE Commit
    BY <2>10, CommitMoves DEF Edits
  <2>11. CASE Attest
    BY <2>11, AttestMoves DEF Still
  <2>12. CASE Pipeline
    BY <2>12, PipelineMoves DEF Edits
  <2> QED
    BY <1>3, <2>1, <2>2, <2>3, <2>4, <2>5, <2>6, <2>7, <2>8, <2>9, <2>10,
       <2>11, <2>12, NextIs
<1>4. CASE UNCHANGED vars
  BY <1>4 DEF vars
<1> QED
  BY <1>3, <1>4

\* While a command runs, only generate writes traces, and then it has no record
\* yet; and only run writes results.
LEMMA StepKeepsRecorded ==
  ASSUME Typed, Unrecorded, [Next]_vars, command # Idle
  PROVE  /\ work["generate"] # {} => work'["traces"] = work["traces"]
         /\ work["run"] # {} => work'["results"] = work["results"]
<1>1. {"generate", "run", "state", "traces", "results", "report",
       "manifest", "implementation", "lock"} \subseteq Files
  BY DEF Files, Watched, Artifacts
<1>2. ASSUME Next
      PROVE  /\ work["generate"] # {} => work'["traces"] = work["traces"]
             /\ work["run"] # {} => work'["results"] = work["results"]
  <2>1. CASE \/ \E d \in Drafts : Freeze(d)
             \/ Beginning \/ EditManifest \/ EditArtifacts \/ StartOver \/ Unpack
    BY <2>1, FreezeMoves, BeginMoves, EditManifestMoves, EditArtifactsMoves,
       StartOverMoves, UnpackMoves
  <2>2. CASE FreezeState \/ GenerateState \/ RunState \/ ReportState
    BY <1>1, <2>2, FreezeStateMoves, GenerateStateMoves, RunStateMoves,
       ReportStateMoves DEF Wrote
  <2>3. CASE GenerateTraces
    BY <1>1, <2>3, GenerateTracesMoves DEF Goes, Unrecorded, Wrote, Still
  <2>4. CASE RunResults
    BY <1>1, <2>4, RunResultsMoves DEF Goes, Unrecorded, Wrote, Still
  <2>5. CASE GenerateRecord \/ RunRecord \/ ReportRecord
    BY <1>1, <2>5, GenerateRecordMoves, RunRecordMoves, ReportRecordMoves
       DEF Wrote
  <2>6. CASE Killed \/ Attest
    BY <2>6, KilledMoves, AttestMoves DEF Still
  <2>7. CASE EditCode
    BY <1>1, <2>7, EditCodeMoves DEF Wrote
  <2>8. CASE Commit \/ Pipeline
    BY <2>8, CommitMoves, PipelineMoves
  <2> QED
    BY <1>2, <2>1, <2>2, <2>3, <2>4, <2>5, <2>6, <2>7, <2>8, NextIs
<1>3. CASE UNCHANGED vars
  BY <1>3 DEF vars
<1> QED
  BY <1>2, <1>3

\* No phase writes over traces that have their generate record, or results
\* that have their run record, also after a phase was killed and started again
\* (holdout-protocol.mjs:486-489, 526-528, 594-597).
THEOREM RecordedTheorem == Spec => RecordedIsKept
<1>1. Init => Typed /\ Unrecorded
  BY InitIs DEF Init, Idle, Unrecorded
<1>2. Typed /\ Unrecorded /\ [Next]_vars => Typed' /\ Unrecorded'
  BY NextTyped, NextUnrecorded
<1>3. Typed /\ Unrecorded /\ [Next]_vars =>
        [command # Idle =>
           /\ work["generate"] # {} => work'["traces"] = work["traces"]
           /\ work["run"] # {} => work'["results"] = work["results"]]_vars
  BY StepKeepsRecorded
<1> QED
  BY <1>1, <1>2, <1>3, PTL DEF Spec, RecordedIsKept

-----------------------------------------------------------------------------
(* The second layer: manifests carry the freeze they came from             *)

\* What a tree holds is held.
LEMMA HeldOf ==
  ASSUME Typed, NEW f \in Files
  PROVE  /\ work[f] \subseteq Held(f)
         /\ \A tree \in archive : tree[f] \subseteq Held(f)
         /\ \A c \in 1..HEAD : history[c][f] \subseteq Held(f)
  BY TreesAre DEF Held

\* With the same history, manifests are dated when the new one is.
LEMMA DatedWith ==
  ASSUME Typed, Dated, history' = history, frozen' \in Nat, frozen <= frozen',
         NEW S, Held("manifest")' \subseteq Held("manifest") \cup S,
         \A m \in S :
           /\ m.body.stamp = m.digest.stamp /\ m.digest.stamp \in 1..frozen'
           /\ m.digest.head \in 1..HEAD
           /\ (m.digest.pins = {}) <=> ~BindExisting
           /\ \A n \in Held("manifest") \cup S :
                n.digest.stamp = m.digest.stamp => n.digest = m.digest
  PROVE  Dated'
<1>1. HEAD' = HEAD
  BY DEF HEAD
<1>2. frozen \in Nat
  BY HoldoutAssumption DEF Typed, HoldoutAssumption
<1>3. ASSUME NEW m \in Held("manifest")'
      PROVE  /\ m.body.stamp = m.digest.stamp /\ m.digest.stamp \in 1..frozen'
             /\ m.digest.head \in 1..HEAD'
             /\ (m.digest.pins = {}) <=> ~BindExisting
  BY <1>1, <1>2, <1>3 DEF Dated
<1>4. ASSUME NEW m \in Held("manifest")', NEW n \in Held("manifest")',
             n.digest.stamp = m.digest.stamp
      PROVE  n.digest = m.digest
  BY <1>4 DEF Dated
<1> QED
  BY <1>1, <1>3, <1>4 DEF Dated

\* A step that makes no manifest and no commit leaves them dated.
LEMMA DatedStill ==
  ASSUME Typed, Dated, history' = history, frozen' = frozen,
         Held("manifest")' \subseteq Held("manifest")
  PROVE  Dated'
<1>1. HEAD' = HEAD
  BY DEF HEAD
<1>2. ASSUME NEW m \in Held("manifest")'
      PROVE  /\ m.body.stamp = m.digest.stamp /\ m.digest.stamp \in 1..frozen'
             /\ m.digest.head \in 1..HEAD'
             /\ (m.digest.pins = {}) <=> ~BindExisting
             /\ \A n \in Held("manifest")' :
                  n.digest.stamp = m.digest.stamp => n.digest = m.digest
  BY <1>1, <1>2 DEF Dated
<1> QED
  BY <1>1, <1>2 DEF Dated

\* Every step keeps manifests dated: freeze gives each a stamp of its own, an
\* edit keeps the digest, a commit comes after what it holds.
LEMMA NextDated == Typed /\ Dated /\ [Next]_vars => Dated'
<1> SUFFICES ASSUME Typed, Dated, [Next]_vars
             PROVE  Dated'
  OBVIOUS
<1>1. {"generate", "run", "state", "traces", "results", "report",
       "manifest", "implementation", "lock"} \subseteq Files
  BY DEF Files, Watched, Artifacts
<1>2. frozen \in Nat /\ HEAD \in 1..HEAD /\ HEAD \in Nat
      /\ work["manifest"] \subseteq Held("manifest")
      /\ history[HEAD]["manifest"] \subseteq Held("manifest")
  BY <1>1, HoldoutAssumption, TreesAre, HeldOf DEF Typed, HoldoutAssumption
<1>3. ASSUME Next
      PROVE  Dated'
  <2>1. ASSUME NEW d \in Drafts, Freeze(d)
        PROVE  Dated'
    <3>1. PICK body :
            /\ body.stamp = frozen + 1 /\ body.head = HEAD
            /\ body.pins = IF BindExisting
                 THEN {<<work["traces"], work["results"]>>} ELSE {}
            /\ Wrote("manifest", {[body |-> body, digest |-> body]})
      BY <2>1, FreezeMoves
    <3> DEFINE m == [body |-> body, digest |-> body]
    <3>2. /\ m.body = body /\ m.digest = body
          /\ Held("manifest")' \subseteq Held("manifest") \cup {m}
          /\ history' = history /\ frozen' = frozen + 1
      BY <2>1, <3>1, FreezeMoves DEF Wrote
    <3> HIDE DEF m
    <3>3. \A n \in Held("manifest") : n.digest.stamp # body.stamp
      BY <1>2, <3>1 DEF Dated
    <3>4. (body.pins = {}) <=> ~BindExisting
      BY <3>1
    <3>5. \A x \in {m} :
           /\ x.body.stamp = x.digest.stamp /\ x.digest.stamp \in 1..frozen'
           /\ x.digest.head \in 1..HEAD
           /\ (x.digest.pins = {}) <=> ~BindExisting
           /\ \A n \in Held("manifest") \cup {m} :
                n.digest.stamp = x.digest.stamp => n.digest = x.digest
      BY <1>2, <3>1, <3>2, <3>3, <3>4
    <3>6. frozen' \in Nat /\ frozen <= frozen'
      BY <1>2, <3>2
    <3> QED
      BY ONLY Typed, Dated, <3>2, <3>5, <3>6, DatedWith
  <2>2. CASE FreezeState \/ GenerateRecord \/ GenerateState
             \/ RunRecord \/ RunState \/ ReportRecord \/ ReportState
    <3>1. /\ history' = history /\ frozen' = frozen
          /\ Held("manifest")' \subseteq Held("manifest")
      BY <1>1, <2>2, FreezeStateMoves, GenerateRecordMoves, GenerateStateMoves,
         RunRecordMoves, RunStateMoves, ReportRecordMoves, ReportStateMoves
         DEF Wrote, Goes, Ends
    <3> QED
      BY <3>1, DatedStill
  <2>3. CASE Beginning \/ GenerateTraces \/ RunResults \/ Killed \/ Attest
    <3>1. /\ history' = history /\ frozen' = frozen
          /\ Held("manifest")' \subseteq Held("manifest")
      BY <1>1, <2>3, BeginMoves, GenerateTracesMoves, RunResultsMoves,
         KilledMoves, AttestMoves DEF Wrote, Still, Goes, Edits
    <3> QED
      BY <3>1, DatedStill
  <2>4. CASE EditCode \/ EditArtifacts \/ StartOver \/ Unpack
    <3>1. /\ history' = history /\ frozen' = frozen
          /\ Held("manifest")' \subseteq Held("manifest")
      BY <1>1, <2>4, EditCodeMoves, EditArtifactsMoves, StartOverMoves,
         UnpackMoves DEF Wrote, Edits
    <3> QED
      BY <3>1, DatedStill
  <2>5. CASE EditManifest
    <3>1. PICK m \in work["manifest"] : \E n :
            /\ n.digest = m.digest /\ n.body.stamp = m.body.stamp
            /\ Wrote("manifest", {n})
      BY <2>5, EditManifestMoves
    <3>2. PICK n :
            /\ n.digest = m.digest /\ n.body.stamp = m.body.stamp
            /\ Wrote("manifest", {n})
      BY <3>1
    <3>3. /\ Held("manifest")' \subseteq Held("manifest") \cup {n}
          /\ history' = history /\ frozen' = frozen
      BY <2>5, <3>2, EditManifestMoves DEF Wrote, Edits
    <3>4. m \in Held("manifest")
      BY <1>2, <3>1
    <3>5. \A x \in {n} :
           /\ x.body.stamp = x.digest.stamp /\ x.digest.stamp \in 1..frozen'
           /\ x.digest.head \in 1..HEAD
           /\ (x.digest.pins = {}) <=> ~BindExisting
           /\ \A k \in Held("manifest") \cup {n} :
                k.digest.stamp = x.digest.stamp => k.digest = x.digest
      BY <3>2, <3>3, <3>4 DEF Dated
    <3>6. frozen' \in Nat /\ frozen <= frozen'
      BY <1>2, <3>3
    <3> QED
      BY ONLY Typed, Dated, <3>3, <3>5, <3>6, DatedWith
  <2>6. CASE Commit
    <3>1. /\ HEAD' = HEAD + 1 /\ frozen' = frozen
          /\ \A c \in 1..HEAD : history'[c] = history[c]
          /\ CommitOf(history'[HEAD'])
          /\ Held("manifest")' \subseteq Held("manifest")
      BY <1>1, <2>6, CommitMoves DEF Edits
    <3>2. history'[HEAD']["manifest"] \subseteq Held("manifest")
      BY <1>1, <1>2, <3>1 DEF CommitOf
    <3>3. \A c \in 1..HEAD' : c \in 1..HEAD \/ c = HEAD'
      BY <1>2, <3>1
    <3>4. \A m \in Held("manifest") : m.digest.head \in 1..HEAD' /\ m.digest.head < HEAD'
      BY <1>2, <3>1 DEF Dated
    <3>5. ASSUME NEW c \in 1..HEAD', NEW m \in history'[c]["manifest"]
          PROVE  m.digest.head < c
      BY <3>1, <3>2, <3>3, <3>4 DEF Dated
    <3> QED
      BY <3>1, <3>4, <3>5 DEF Dated
  <2>7. CASE Pipeline
    <3>1. PICK tree :
            /\ Trees' \subseteq Trees \cup {tree}
            /\ tree["manifest"] = history[HEAD]["manifest"]
      BY <2>7, PipelineMoves DEF ArchivedOf
    <3>2. Held("manifest")' \subseteq Held("manifest")
      <4>1. \A t \in Trees' : t \in Trees \/ t["manifest"] \subseteq Held("manifest")
        BY <1>2, <3>1
      <4> QED
        BY <4>1 DEF Held
    <3> QED
      BY <2>7, <3>2, PipelineMoves, DatedStill DEF Edits
  <2> QED
    BY <1>3, <2>1, <2>2, <2>3, <2>4, <2>5, <2>6, <2>7, NextIs
<1>4. CASE UNCHANGED vars
  <2>1. /\ history' = history /\ frozen' = frozen
        /\ Held("manifest")' = Held("manifest")
    BY <1>1, <1>4, StillMoves DEF vars
  <2> QED
    BY <2>1, DatedStill
<1> QED
  BY <1>3, <1>4

\* What a phase checks before it starts: the manifest was committed alone, the
\* code is that of its freeze.
LEMMA CompleteIsFrozen ==
  ASSUME Typed, Dated, NEW tree, IsTree(tree),
         tree["manifest"] \subseteq Held("manifest"),
         NEW phase, Complete(tree, phase)
  PROVE  /\ FrozenIn(history, Frozen(tree), FreezeCommit(tree))
         /\ SameCode(history, HEAD, Frozen(tree).head)
         /\ FreezeCommit(tree) \in 1..HEAD
<1>1. PICK m \in tree["manifest"] :
        m.body = Frozen(tree) /\ m.digest = Frozen(tree)
  BY CompleteMeans
<1>2. /\ FreezeCommit(tree) \in 1..HEAD
      /\ BindExisting \/ NoArtifactsAt(FreezeCommit(tree))
      /\ history[Frozen(tree).head]["implementation"]
           = history[HEAD]["implementation"]
  BY CompleteMeans
<1>3. PICK k \in history[FreezeCommit(tree)]["manifest"] : k.body = Frozen(tree)
  BY CompleteMeans
<1>4. k \in Held("manifest") /\ m \in Held("manifest")
  BY <1>1, <1>2, <1>3, HeldOf DEF Files, Watched
<1>5. k.digest = Frozen(tree)
  BY <1>1, <1>3, <1>4 DEF Dated
<1>6. /\ Frozen(tree).head \in 1..HEAD
      /\ Frozen(tree).head < FreezeCommit(tree)
      /\ Frozen(tree).pins = {} => ~BindExisting
  BY <1>1, <1>2, <1>3, <1>4, <1>5 DEF Dated
<1>7. Frozen(tree).pins = {} =>
        \A f \in Artifacts : history[FreezeCommit(tree)][f] = {}
  BY <1>2, <1>6 DEF NoArtifactsAt
<1>8. FrozenIn(history, Frozen(tree), FreezeCommit(tree))
  BY <1>2, <1>3, <1>5, <1>6, <1>7 DEF FrozenIn, HEAD
<1>9. HEAD \in 1..HEAD
  BY TreesAre
<1> QED
  BY <1>2, <1>6, <1>8, <1>9 DEF SameCode, HEAD

-----------------------------------------------------------------------------
(* The third layer: records are of what was frozen                         *)

\* A history extends itself, and after a commit the one before it.
LEMMA HistoryExtends ==
  ASSUME Typed, [Next]_vars
  PROVE  Extends(history, history')
<1>1. history' = history => Extends(history, history')
  BY DEF Extends, Typed, IsHistory
<1>2. Next => history' = history \/ Commit
  BY FreezeMoves, FreezeStateMoves, BeginMoves, GenerateTracesMoves,
     GenerateRecordMoves, GenerateStateMoves, RunResultsMoves, RunRecordMoves,
     RunStateMoves, ReportRecordMoves, ReportStateMoves, KilledMoves,
     EditCodeMoves, EditManifestMoves, EditArtifactsMoves, StartOverMoves,
     UnpackMoves, AttestMoves, PipelineMoves, NextIs DEF Wrote, Still
<1> QED
  BY <1>1, <1>2, CommitMoves DEF vars

\* New records are founded: then all are.
LEMMA RecordsWith ==
  ASSUME RecordsFounded, Extends(history, history'),
         NEW R, Held("run")' \subseteq Held("run") \cup R,
         \A run \in R : SameCode(history, run.head, run.digest.head),
         NEW P, Held("report")' \subseteq Held("report") \cup P,
         \A r \in P : ReportIn(history, r)
  PROVE  RecordsFounded'
<1>1. ASSUME NEW run \in Held("run")'
      PROVE  SameCode(history', run.head, run.digest.head)
  BY <1>1, SameCodeStays DEF RecordsFounded
<1>2. ASSUME NEW r \in Held("report")'
      PROVE  ReportIn(history', r)
  BY <1>2, ReportStays DEF RecordsFounded
<1> QED
  BY <1>1, <1>2 DEF RecordsFounded

\* A step that makes no record leaves them founded.
LEMMA RecordsStill ==
  ASSUME RecordsFounded, Extends(history, history'),
         Held("run")' \subseteq Held("run"),
         Held("report")' \subseteq Held("report")
  PROVE  RecordsFounded'
<1>1. ASSUME NEW run \in Held("run")'
      PROVE  SameCode(history', run.head, run.digest.head)
  BY <1>1, SameCodeStays DEF RecordsFounded
<1>2. ASSUME NEW r \in Held("report")'
      PROVE  ReportIn(history', r)
  BY <1>2, ReportStays DEF RecordsFounded
<1> QED
  BY <1>1, <1>2 DEF RecordsFounded

\* A phase that goes on, whatever is committed, stays founded.
LEMMA CommandStays ==
  ASSUME CommandFounded, Extends(history, history'),
         Checked' => /\ command'.phase = command.phase
                     /\ command'.body = command.body
                     /\ command'.freeze = command.freeze
                     /\ command'.code = command.code
                     /\ command'.head = command.head,
         Checked' => work'["run"] = work["run"] \/ command.phase # "report"
  PROVE  CommandFounded'
<1> SUFFICES ASSUME Checked'
             PROVE  CommandFounded'
  BY DEF CommandFounded
<1>1. /\ Checked /\ command'.body = command.body
      /\ command'.phase = command.phase /\ command'.freeze = command.freeze
      /\ command'.code = command.code /\ command'.head = command.head
  BY DEF Checked
<1>2. Body' = Body
  BY <1>1 DEF Body
<1>3. /\ command.body = {Body} /\ command.freeze <= command.head
      /\ FrozenIn(history, Body, command.freeze)
      /\ SameCode(history, command.head, Body.head)
      /\ command.code = history[Body.head]["implementation"]
  BY <1>1 DEF CommandFounded
<1>4. /\ FrozenIn(history', Body, command.freeze)
      /\ SameCode(history', command.head, Body.head)
  BY <1>3, FrozenStays, SameCodeStays
<1>5. history'[Body.head] = history[Body.head]
  BY <1>3 DEF SameCode, Extends
<1>6. command'.phase = "report" =>
        \A run \in work'["run"] : run.digest = Body /\ run.head >= command.freeze
  BY <1>1 DEF CommandFounded
<1> QED
  BY <1>1, <1>2, <1>3, <1>4, <1>5, <1>6 DEF CommandFounded

\* A phase starts on what it checked.
LEMMA BeginFounded ==
  ASSUME Typed, Dated, Beginning
  PROVE  CommandFounded'
<1>1. /\ Complete(work, command'.phase)
      /\ command'.body = {Frozen(work)} /\ command'.freeze = FreezeCommit(work)
      /\ command'.code = work["implementation"] /\ command'.head = HEAD
      /\ command'.phase = "report" => MayReport(work)
      /\ work' = work /\ history' = history
  BY BeginMoves DEF Still
<1>2. Body' = Frozen(work)
  BY <1>1 DEF Body
<1>3. /\ FrozenIn(history, Frozen(work), FreezeCommit(work))
      /\ SameCode(history, HEAD, Frozen(work).head)
      /\ FreezeCommit(work) \in 1..HEAD /\ HEAD \in Nat
  <2>1. IsTree(work) /\ work["manifest"] \subseteq Held("manifest")
    BY TreesAre, HeldOf DEF Files, Watched
  <2>2. HEAD \in Nat
    BY TreesAre
  <2> QED
    BY <1>1, <2>1, <2>2, CompleteIsFrozen
<1>4. work["implementation"] = history[HEAD]["implementation"]
  <2>1. Dirty(work, command'.phase) = {}
    BY <1>1, TreesAre, CompleteMeans
  <2>2. "implementation" \in Watched /\ "implementation" \notin Artifacts
    BY DEF Watched, Artifacts
  <2> QED
    BY <2>1, <2>2 DEF Dirty, AllowedUntracked
<1>5. ASSUME command'.phase = "report", NEW run \in work["run"]
      PROVE  run.digest = Frozen(work) /\ run.head = HEAD
  <2>1. PICK r \in work["run"] : r.digest = Frozen(work) /\ r.head = HEAD
    BY <1>1, <1>5 DEF MayReport
  <2>2. Single(work["run"])
    BY TreesAre DEF IsTree, Files, Watched, Artifacts
  <2> QED
    BY <1>5, <2>1, <2>2 DEF Single
<1>6. work["implementation"] = history[Frozen(work).head]["implementation"]
  BY <1>3, <1>4 DEF SameCode
<1> QED
  BY <1>1, <1>2, <1>3, <1>5, <1>6 DEF CommandFounded

\* Every step keeps the running phase founded.
LEMMA NextCommandFounded ==
  Typed /\ Dated /\ CommandFounded /\ [Next]_vars => CommandFounded'
<1> SUFFICES ASSUME Typed, Dated, CommandFounded, [Next]_vars
             PROVE  CommandFounded'
  OBVIOUS
<1>1. {"generate", "run", "state", "traces", "results", "report",
       "manifest", "implementation", "lock"} \subseteq Files
  BY DEF Files, Watched, Artifacts
<1>2. Extends(history, history')
  BY HistoryExtends
<1>3. ~(Checked') => CommandFounded'
  BY DEF CommandFounded
<1>4. command' = Idle => ~(Checked')
  BY DEF Idle, Checked
<1>5. ASSUME Next
      PROVE  CommandFounded'
  <2>1. CASE \E d \in Drafts : Freeze(d)
    BY <1>3, <2>1, FreezeMoves DEF Checked
  <2>2. CASE FreezeState \/ GenerateState \/ RunState \/ ReportState \/ Killed
    BY <1>3, <1>4, <2>2, FreezeStateMoves, GenerateStateMoves, RunStateMoves,
       ReportStateMoves, KilledMoves DEF Ends
  <2>3. CASE Beginning
    BY <2>3, BeginFounded
  <2>4. CASE GenerateTraces \/ GenerateRecord \/ RunResults \/ RunRecord
    <3>1. Goes("generate", 1) \/ Goes("generate", 2)
            \/ Goes("run", 1) \/ Goes("run", 2)
      BY <2>4, GenerateTracesMoves, GenerateRecordMoves, RunResultsMoves,
         RunRecordMoves
    <3>2. /\ command'.phase = command.phase /\ command.phase # "report"
          /\ command'.body = command.body
          /\ command'.freeze = command.freeze
          /\ command'.code = command.code
          /\ command'.head = command.head
      BY <3>1 DEF Goes
    <3> QED
      BY <1>2, <3>2, CommandStays
  <2>5. CASE ReportRecord
    <3>1. /\ command'.phase = command.phase
          /\ command'.body = command.body
          /\ command'.freeze = command.freeze
          /\ command'.code = command.code
          /\ command'.head = command.head
          /\ work'["run"] = work["run"]
      BY <1>1, <2>5, ReportRecordMoves DEF Goes, Wrote
    <3> QED
      BY <1>2, <3>1, CommandStays
  <2>6. CASE EditCode
    <3>1. command' = command /\ work'["run"] = work["run"]
      BY <1>1, <2>6, EditCodeMoves DEF Edits, Wrote
    <3> QED
      BY <1>2, <3>1, CommandStays
  <2>7. CASE EditManifest \/ EditArtifacts \/ StartOver \/ Unpack
    BY <1>3, <1>4, <2>7, EditManifestMoves, EditArtifactsMoves, StartOverMoves,
       UnpackMoves DEF Edits
  <2>8. CASE Commit \/ Attest \/ Pipeline
    <3>1. command' = command /\ work' = work
      BY <2>8, CommitMoves, AttestMoves, PipelineMoves DEF Edits, Still
    <3> QED
      BY <1>2, <3>1, CommandStays
  <2> QED
    BY <1>5, <2>1, <2>2, <2>3, <2>4, <2>5, <2>6, <2>7, <2>8, NextIs
<1>6. CASE UNCHANGED vars
  <2>1. command' = command /\ work' = work
    BY <1>6 DEF vars
  <2> QED
    BY <1>2, <2>1, CommandStays
<1> QED
  BY <1>5, <1>6

\* The workflow's tree holds what the last commit does, or what it wrote.
LEMMA ArchiveHeld ==
  ASSUME Typed, NEW tree, NEW f \in Files, Trees' \subseteq Trees \cup {tree}
  PROVE  Held(f)' \subseteq Held(f) \cup tree[f]
<1>1. \A t \in Trees' : t \in Trees \/ t = tree
  OBVIOUS
<1> QED
  BY <1>1 DEF Held

\* What the workflow records is founded.
LEMMA PipelineFounded ==
  ASSUME Typed, Dated, RecordsFounded, Pipeline
  PROVE  RecordsFounded'
<1> DEFINE t0 == history[HEAD]
           body == Frozen(t0)
           freeze == FreezeCommit(t0)
<1>1. PICK tree : /\ Trees' \subseteq Trees \cup {tree}
                  /\ ArchivedOf(t0, body, freeze, tree)
  BY PipelineMoves
<1>2. /\ FrozenIn(history, body, freeze) /\ SameCode(history, HEAD, body.head)
      /\ freeze \in 1..HEAD /\ HEAD \in Nat
  <2>1. /\ IsTree(t0) /\ t0["manifest"] \subseteq Held("manifest")
        /\ Complete(t0, "generate") /\ HEAD \in Nat
    BY TreesAre, HeldOf, PipelineMoves DEF Files, Watched
  <2> QED
    BY <2>1, CompleteIsFrozen
<1> HIDE DEF t0, body, freeze
<1>3. \A run \in tree["run"] :
        /\ run.digest = body /\ run.head = HEAD
        /\ SameCode(history, run.head, run.digest.head)
  BY <1>1, <1>2 DEF ArchivedOf
<1>4. \A r \in tree["report"] : ReportIn(history, r)
  <2>1. \A r \in tree["report"] :
          r.digest = body /\ r.freeze = freeze /\ r.run = tree["run"]
    BY <1>1 DEF ArchivedOf
  <2> QED
    BY <1>2, <1>3, <2>1 DEF ReportIn
<1>5. /\ Held("run")' \subseteq Held("run") \cup tree["run"]
      /\ Held("report")' \subseteq Held("report") \cup tree["report"]
  BY <1>1, ArchiveHeld DEF Files, Watched, Artifacts
<1>6. Extends(history, history') 
  BY HistoryExtends DEF Next
<1>7. \A run \in tree["run"] : SameCode(history, run.head, run.digest.head)
  BY <1>3
<1> QED
  BY ONLY RecordsFounded, <1>4, <1>5, <1>6, <1>7, RecordsWith

\* Every step keeps the records founded.
LEMMA NextRecordsFounded ==
  Typed /\ Dated /\ Founded /\ [Next]_vars => RecordsFounded'
<1> SUFFICES ASSUME Typed, Dated, Founded, [Next]_vars
             PROVE  RecordsFounded'
  OBVIOUS
<1>1. {"generate", "run", "state", "traces", "results", "report",
       "manifest", "implementation", "lock"} \subseteq Files
  BY DEF Files, Watched, Artifacts
<1>2. Extends(history, history') /\ RecordsFounded /\ CommandFounded
  BY HistoryExtends DEF Founded
<1>3. ASSUME Held("run")' \subseteq Held("run"),
             Held("report")' \subseteq Held("report")
      PROVE  RecordsFounded'
  BY <1>2, <1>3, RecordsStill
<1>4. ASSUME Next
      PROVE  RecordsFounded'
  <2>1. CASE \E d \in Drafts : Freeze(d)
    BY <1>1, <1>3, <2>1, FreezeMoves DEF Wrote
  <2>2. CASE FreezeState \/ GenerateState \/ RunState \/ ReportState
             \/ GenerateRecord
    <3>1. \E f \in {"state", "generate"} : \E S : Wrote(f, S)
      BY <2>2, FreezeStateMoves, GenerateStateMoves, RunStateMoves,
         ReportStateMoves, GenerateRecordMoves
    <3> QED
      BY <1>1, <1>3, <3>1 DEF Wrote
  <2>3. CASE Beginning \/ Killed \/ Attest
    BY <1>1, <1>3, <2>3, BeginMoves, KilledMoves, AttestMoves DEF Still
  <2>4. CASE GenerateTraces \/ RunResults
    <3>1. Still \/ \E f \in {"traces", "results"} : \E S : Wrote(f, S)
      BY <2>4, GenerateTracesMoves, RunResultsMoves
    <3> QED
      BY <1>1, <1>3, <3>1 DEF Wrote, Still
  <2>5. CASE RunRecord
    <3> DEFINE run == [digest |-> Body, freeze |-> command.freeze,
                       head |-> command.head]
    <3>1. Goes("run", 2) /\ Wrote("run", {run})
      BY <2>5, RunRecordMoves
    <3>2. run.digest = Body /\ run.head = command.head
      OBVIOUS
    <3> HIDE DEF run
    <3>3. SameCode(history, command.head, Body.head)
      BY <1>2, <3>1 DEF Goes, Checked, CommandFounded
    <3>4. \A x \in {run} : SameCode(history, x.head, x.digest.head)
      BY <3>2, <3>3
    <3>5. /\ Held("run")' \subseteq Held("run") \cup {run}
          /\ Held("report")' \subseteq Held("report") \cup Held("report")
      BY <1>1, <3>1 DEF Wrote
    <3>6. \A r \in Held("report") : ReportIn(history, r)
      BY <1>2 DEF RecordsFounded
    <3> QED
      BY ONLY <1>2, <3>4, <3>5, <3>6, RecordsWith
  <2>6. CASE ReportRecord
    <3> DEFINE r == [digest |-> Body, freeze |-> command.freeze,
                     run |-> work["run"], class |-> command.class]
    <3>1. Goes("report", 1) /\ Wrote("report", {r})
      BY <2>6, ReportRecordMoves
    <3>2. r.digest = Body /\ r.freeze = command.freeze /\ r.run = work["run"]
      OBVIOUS
    <3> HIDE DEF r
    <3>3. /\ FrozenIn(history, Body, command.freeze)
          /\ \A run \in work["run"] :
               run.digest = Body /\ run.head >= command.freeze
      BY <1>2, <3>1 DEF Goes, Checked, CommandFounded
    <3>4. \A run \in work["run"] : SameCode(history, run.head, run.digest.head)
      BY <1>1, <1>2, HeldOf DEF RecordsFounded
    <3>5. \A x \in {r} : ReportIn(history, x)
      BY <3>2, <3>3, <3>4 DEF ReportIn
    <3>6. ASSUME NEW run \in Held("run")'
          PROVE  SameCode(history', run.head, run.digest.head)
      <4>1. run \in Held("run")
        BY <1>1, <3>1, <3>6 DEF Wrote
      <4> QED
        BY <1>2, <4>1, SameCodeStays DEF RecordsFounded
    <3>7. ASSUME NEW x \in Held("report")'
          PROVE  ReportIn(history', x)
      <4>1. x \in Held("report") \/ x = r
        BY <3>1, <3>7 DEF Wrote
      <4>2. ReportIn(history, x)
        BY <1>2, <3>5, <4>1 DEF RecordsFounded
      <4> QED
        BY <1>2, <4>2, ReportStays
    <3> QED
      BY <3>6, <3>7 DEF RecordsFounded
  <2>7. CASE EditCode \/ EditManifest \/ EditArtifacts
    <3>1. \E f \in Artifacts \cup {"implementation", "lock", "manifest"} :
            \E S : /\ Wrote(f, S)
                   /\ S = {} \/ f \notin {"run", "report"}
      <4>1. CASE EditCode
        BY <4>1, EditCodeMoves
      <4>2. CASE EditManifest
        <5>1. \E S : Wrote("manifest", S)
          BY <4>2, EditManifestMoves
        <5> QED
          BY <5>1
      <4>3. CASE EditArtifacts
        <5>1. \E f \in Artifacts : \E S :
                Wrote(f, S) /\ (S = {} \/ f \in {"traces", "results"})
          BY <4>3, EditArtifactsMoves
        <5> QED
          BY <5>1
      <4> QED
        BY <2>7, <4>1, <4>2, <4>3
    <3>2. PICK f, S :
            /\ f \in Artifacts \cup {"implementation", "lock", "manifest"}
            /\ Wrote(f, S) /\ (S = {} \/ f \notin {"run", "report"})
      BY <3>1
    <3>3. f # "run" => Held("run")' \subseteq Held("run")
      BY <1>1, <3>2 DEF Wrote
    <3>4. f # "report" => Held("report")' \subseteq Held("report")
      BY <1>1, <3>2 DEF Wrote
    <3>5. S = {} => Held(f)' \subseteq Held(f)
      BY <3>2 DEF Wrote
    <3> QED
      BY <1>3, <3>2, <3>3, <3>4, <3>5
  <2>8. CASE StartOver \/ Unpack \/ Commit
    BY <1>1, <1>3, <2>8, StartOverMoves, UnpackMoves, CommitMoves
  <2>9. CASE Pipeline
    BY <1>2, <2>9, PipelineFounded
  <2> QED
    BY <1>4, <2>1, <2>2, <2>3, <2>4, <2>5, <2>6, <2>7, <2>8, <2>9, NextIs
<1>5. CASE UNCHANGED vars
  BY <1>1, <1>3, <1>5, StillMoves DEF vars
<1> QED
  BY <1>4, <1>5

\* What was frozen in a history was frozen at its commit.
LEMMA FrozenInIsFrozenAt ==
  ASSUME NEW body, NEW c, FrozenIn(history, body, c)
  PROVE  FrozenAt(body, c)
  BY DEF FrozenIn, FrozenAt

\* Founded records are of frozen manifests.
LEMMA FoundedIsFrozenFirst ==
  ASSUME RecordsFounded
  PROVE  FrozenFirst
<1> SUFFICES ASSUME NEW tree \in Trees, NEW r \in tree["report"]
             PROVE  /\ FrozenAt(r.digest, r.freeze)
                    /\ \A run \in r.run :
                         /\ run.digest = r.digest /\ run.head >= r.freeze
                         /\ history[run.head]["implementation"]
                              = history[r.digest.head]["implementation"]
  BY DEF FrozenFirst
<1>1. ReportIn(history, r)
  BY DEF RecordsFounded, Held
<1> QED
  BY <1>1, FrozenInIsFrozenAt DEF ReportIn, SameCode

\* At the start nothing is recorded.
LEMMA InitFounded ==
  ASSUME Init
  PROVE  Typed /\ Dated /\ Founded
<1>1. /\ Typed /\ HEAD = 1 /\ history[1] = NewTree
      /\ Held("manifest") = {} /\ Held("run") = {} /\ Held("report") = {}
      /\ NewTree["manifest"] = {}
  BY InitIs, NewTreeIs DEF Files, Watched, Artifacts
<1>2. Dated
  BY <1>1 DEF Dated
<1>3. ~Checked
  BY DEF Init, Checked, Idle
<1> QED
  BY <1>1, <1>2, <1>3 DEF Founded, RecordsFounded, CommandFounded

\* Every report, of the working tree, a commit or an archive, is of a manifest
\* that had been committed before it, and its run of the implementation that
\* was recorded at the freeze, however the developer froze, edited, committed,
\* started over or killed a phase in between (holdout-protocol.mjs:339-375,
\* 578-703).
THEOREM FrozenFirstTheorem == Spec => []FrozenFirst
<1>1. Init => Typed /\ Dated /\ Founded
  BY InitFounded
<1>2. Typed /\ Dated /\ Founded /\ [Next]_vars => Typed' /\ Dated' /\ Founded'
  BY NextTyped, NextDated, NextRecordsFounded, NextCommandFounded DEF Founded
<1>3. Typed /\ Dated /\ Founded => FrozenFirst
  BY FoundedIsFrozenFirst DEF Founded
<1> QED
  BY <1>1, <1>2, <1>3, PTL DEF Spec

-----------------------------------------------------------------------------
(* The fourth layer: records of a later phase lie on the earlier ones'     *)

\* A write of a file keeps the stages when it puts something there and what it
\* lies on is there.
LEMMA StagedWrote ==
  ASSUME Typed, Staged, NEW f \in Files, NEW S, Wrote(f, S),
         f \in Artifacts => S # {},
         f = "generate" => work["traces"] # {},
         f = "run" => work["generate"] # {} /\ work["results"] # {},
         f = "report" => work["run"] # {}
  PROVE  \A t \in Trees' : StagedTree(t)
<1>1. {"traces", "generate", "results", "run", "report"} \subseteq Artifacts
  BY DEF Artifacts
<1>2. Artifacts \subseteq Files
  BY DEF Files, Watched
<1>3. StagedTree(work)
  BY TreesAre DEF Staged
<1>4. \A e \in Artifacts : work'[e] = work[e] \/ (e = f /\ work'[e] # {})
  BY <1>2 DEF Wrote
<1>5. StagedTree(work')
  BY <1>1, <1>3, <1>4 DEF StagedTree
<1>6. Trees' \subseteq Trees \cup {work'}
  BY DEF Wrote
<1>7. \A t \in Trees' : t \in Trees \/ t = work'
  BY <1>6
<1> QED
  BY <1>5, <1>7 DEF Staged

\* A command that is not a later phase is staged.
LEMMA StagedIdle ==
  ASSUME \A t \in Trees' : StagedTree(t), ~Checked'
  PROVE  Staged'
  BY DEF Staged, Checked

\* A step that leaves the command and the artifacts it reads.
LEMMA StagedStill ==
  ASSUME Staged, \A t \in Trees' : StagedTree(t), command' = command,
         \A f \in {"manifest", "traces", "generate", "results", "run"} :
            work'[f] = work[f]
  PROVE  Staged'
<1>1. Body' = Body /\ (Checked' <=> Checked)
  BY DEF Body, Checked
<1> QED
  BY <1>1 DEF Staged

\* A phase starts over what it found.
LEMMA BeginStaged ==
  ASSUME Typed, Staged, Beginning
  PROVE  Staged'
<1>1. /\ Still /\ command'.phase \in {"generate", "run", "report"}
      /\ Complete(work, command'.phase)
      /\ command'.body = {Frozen(work)} /\ command'.step = 1
      /\ command'.phase = "generate" => MayGenerate(work)
      /\ command'.phase = "run" => MayRun(work)
      /\ command'.phase = "report" => MayReport(work)
  BY BeginMoves
<1>2. Body' = Frozen(work) /\ work' = work /\ Trees' = Trees
  BY <1>1 DEF Body, Still
<1>3. \E m \in work["manifest"] : m.digest = Frozen(work) /\ m.body = Frozen(work)
  BY <1>1, TreesAre, CompleteMeans
<1>4. command'.phase = "generate" => (BindExisting => work["traces"] # {})
  BY <1>1 DEF MayGenerate, PinsMatch, BoundExists
<1>5. command'.phase = "run" =>
        /\ work["generate"] # {}
        /\ BindExisting => work["results"] # {}
  BY <1>1 DEF MayRun, PinsMatch, BoundExists, GeneratedFor
<1>6. command'.phase = "report" => work["run"] # {}
  BY <1>1 DEF MayReport
<1>7. ~(command'.step >= 2)
  BY <1>1
<1> QED
  BY <1>2, <1>3, <1>4, <1>5, <1>6, <1>7 DEF Staged

\* What the workflow archives has traces and results.
LEMMA ArchivedIsWritten ==
  ASSUME Typed, NEW t0, IsTree(t0), MayGenerate(t0), NEW tree,
         ArchivedOf(t0, Frozen(t0), FreezeCommit(t0), tree)
  PROVE  tree["traces"] # {} /\ tree["results"] # {}
<1>1. CASE BindExisting
  BY <1>1 DEF MayGenerate, PinsMatch, BoundExists, ArchivedOf
<1>2. CASE ~BindExisting
  <2>1. TracesOf(t0) # {}
    BY DEF MayGenerate, Complete, TracesOf
  <2> QED
    BY <1>2, <2>1 DEF ArchivedOf
<1> QED
  BY <1>1, <1>2

\* Every step keeps the stages, where nobody deletes artifacts.
LEMMA NextStaged == Editable = {} /\ Typed /\ Staged /\ [Next]_vars => Staged'
<1> SUFFICES ASSUME Editable = {}, Typed, Staged, [Next]_vars
             PROVE  Staged'
  OBVIOUS
<1>1. /\ {"generate", "run", "state", "traces", "results", "report",
          "manifest", "implementation", "lock"} \subseteq Files
      /\ {"generate", "run", "traces", "results", "report"} \subseteq Artifacts
      /\ {"state", "manifest", "implementation", "lock"} \cap Artifacts = {}
  BY DEF Files, Watched, Artifacts
<1>2. /\ \A t \in Trees : StagedTree(t)
      /\ work \in Trees /\ history[HEAD] \in Trees
      /\ \A pack \in archive : pack \in Trees
  BY TreesAre DEF Staged
<1>3. command' = Idle => ~Checked'
  BY DEF Idle, Checked
<1>4. ASSUME Next
      PROVE  Staged'
  <2>1. CASE \E d \in Drafts : Freeze(d)
    <3>1. command'.phase = "freeze" /\ \E S : Wrote("manifest", S)
      BY <2>1, FreezeMoves
    <3>2. \A t \in Trees' : StagedTree(t)
      BY <1>1, <3>1, StagedWrote
    <3> QED
      BY <3>1, <3>2, StagedIdle DEF Checked
  <2>2. CASE FreezeState \/ GenerateState \/ RunState \/ ReportState
    <3>1. command' = Idle /\ \E S : Wrote("state", S)
      BY <2>2, FreezeStateMoves, GenerateStateMoves, RunStateMoves,
         ReportStateMoves DEF Ends
    <3>2. \A t \in Trees' : StagedTree(t)
      BY <1>1, <3>1, StagedWrote
    <3> QED
      BY <1>3, <3>1, <3>2, StagedIdle
  <2>3. CASE Beginning
    BY <2>3, BeginStaged
  <2>4. CASE GenerateTraces
    <3>1. /\ Goes("generate", 1)
          /\ IF BindExisting THEN Still ELSE Wrote("traces", TracesOf(work))
      BY <2>4, GenerateTracesMoves
    <3>2. PICK m \in work["manifest"] : m.digest = Body /\ m.body = Body
      BY <3>1 DEF Goes, Staged, Checked
    <3>3. TracesOf(work) # {}
      BY <3>2 DEF TracesOf
    <3>4. BindExisting => work["traces"] # {}
      BY <3>1 DEF Goes, Staged
    <3>5. \A t \in Trees' : StagedTree(t)
      <4>1. CASE BindExisting
        BY <1>2, <3>1, <4>1 DEF Still
      <4>2. CASE ~BindExisting
        BY <1>1, <3>1, <3>3, <4>2, StagedWrote
      <4> QED
        BY <4>1, <4>2
    <3>6. work'["manifest"] = work["manifest"] /\ work'["traces"] # {}
      BY <1>1, <3>1, <3>3, <3>4 DEF Wrote, Still
    <3>7. Body' = Body /\ command'.phase = "generate"
      BY <3>1 DEF Goes, Body
    <3> QED
      BY <3>2, <3>5, <3>6, <3>7 DEF Staged
  <2>5. CASE GenerateRecord
    <3>1. Goes("generate", 2) /\ \E x : Wrote("generate", {x})
      BY <2>5, GenerateRecordMoves
    <3>2. work["traces"] # {}
      BY <3>1 DEF Goes, Staged
    <3>3. \A t \in Trees' : StagedTree(t)
      BY <1>1, <3>1, <3>2, StagedWrote
    <3>4. work'["manifest"] = work["manifest"] /\ work'["traces"] # {}
      BY <1>1, <3>1, <3>2 DEF Wrote
    <3>5. Body' = Body /\ command'.phase = "generate" /\ Checked
      BY <3>1 DEF Goes, Body, Checked
    <3> QED
      BY <3>3, <3>4, <3>5 DEF Staged
  <2>6. CASE RunResults
    <3>1. /\ Goes("run", 1)
          /\ Still \/ \E x : Wrote("results", {x})
      BY <2>6, RunResultsMoves
    <3>2. work["generate"] # {} /\ (BindExisting => work["results"] # {})
      BY <3>1 DEF Goes, Staged
    <3>3. \A t \in Trees' : StagedTree(t)
      <4>1. CASE Still
        BY <1>2, <4>1 DEF Still
      <4>2. CASE \E x : Wrote("results", {x})
        BY <1>1, <4>2, StagedWrote
      <4> QED
        BY <3>1, <4>1, <4>2
    <3>4. /\ work'["manifest"] = work["manifest"] /\ work'["results"] # {}
          /\ work'["generate"] = work["generate"]
      <4>1. CASE BindExisting
        BY <2>6, <3>2, <4>1, RunResultsMoves DEF Still
      <4>2. CASE ~BindExisting
        <5>1. \E x : Wrote("results", {x})
          BY <2>6, <4>2, RunResultsMoves
        <5> QED
          BY <1>1, <5>1 DEF Wrote
      <4> QED
        BY <4>1, <4>2
    <3>5. Body' = Body /\ command'.phase = "run" /\ Checked
      BY <3>1 DEF Goes, Body, Checked
    <3> QED
      BY <3>2, <3>3, <3>4, <3>5 DEF Staged
  <2>7. CASE RunRecord
    <3>1. Goes("run", 2) /\ \E x : Wrote("run", {x})
      BY <2>7, RunRecordMoves
    <3>2. work["generate"] # {} /\ work["results"] # {}
      BY <3>1 DEF Goes, Staged
    <3>3. \A t \in Trees' : StagedTree(t)
      BY <1>1, <3>1, <3>2, StagedWrote
    <3>4. /\ work'["manifest"] = work["manifest"] /\ work'["results"] # {}
          /\ work'["generate"] # {}
      BY <1>1, <3>1, <3>2 DEF Wrote
    <3>5. Body' = Body /\ command'.phase = "run" /\ Checked
      BY <3>1 DEF Goes, Body, Checked
    <3> QED
      BY <3>3, <3>4, <3>5 DEF Staged
  <2>8. CASE ReportRecord
    <3>1. Goes("report", 1) /\ \E x : Wrote("report", {x})
      BY <2>8, ReportRecordMoves
    <3>2. work["run"] # {}
      BY <3>1 DEF Goes, Staged
    <3>3. \A t \in Trees' : StagedTree(t)
      BY <1>1, <3>1, <3>2, StagedWrote
    <3>4. work'["manifest"] = work["manifest"] /\ work'["run"] # {}
      BY <1>1, <3>1, <3>2 DEF Wrote
    <3>5. Body' = Body /\ command'.phase = "report" /\ Checked
      BY <3>1 DEF Goes, Body, Checked
    <3> QED
      BY <3>3, <3>4, <3>5 DEF Staged
  <2>9. CASE Killed
    <3>1. Still /\ command' = Idle
      BY <2>9, KilledMoves
    <3> QED
      BY <1>2, <1>3, <3>1, StagedIdle DEF Still
  <2>10. CASE EditCode
    <3>1. /\ command' = command
          /\ \E f \in {"implementation", "lock"} : \E S : Wrote(f, S)
      BY <2>10, EditCodeMoves DEF Edits
    <3>2. \A t \in Trees' : StagedTree(t)
      BY <1>1, <3>1, StagedWrote
    <3>3. \A f \in {"manifest", "traces", "generate", "results", "run"} :
             work'[f] = work[f]
      BY <1>1, <3>1 DEF Wrote
    <3> QED
      BY <3>1, <3>2, <3>3, StagedStill
  <2>11. CASE EditManifest \/ EditArtifacts
    <3>1. /\ command' = Idle
          /\ \E f \in {"manifest", "traces", "results"} : \E S : /\ S # {}
                                                               /\ Wrote(f, S)
      BY <2>11, EditManifestMoves, EditArtifactsMoves DEF Edits
    <3>2. \A t \in Trees' : StagedTree(t)
      BY <1>1, <3>1, StagedWrote
    <3> QED
      BY <1>3, <3>1, <3>2, StagedIdle
  <2>12. CASE StartOver
    <3>1. /\ command' = Idle /\ Trees' \subseteq Trees \cup {work'}
          /\ \A f \in Artifacts : work'[f] = {}
      BY <2>12, StartOverMoves DEF Edits
    <3>2. StagedTree(work')
      BY <1>1, <3>1 DEF StagedTree
    <3>3. \A t \in Trees' : StagedTree(t)
      BY <1>2, <3>1, <3>2
    <3> QED
      BY <1>3, <3>1, <3>3, StagedIdle
  <2>13. CASE Unpack
    <3>1. /\ command' = Idle /\ Trees' \subseteq Trees \cup {work'}
          /\ \E pack \in archive :
               \A f \in Files \ {"implementation", "lock"} : work'[f] = pack[f]
      BY <2>13, UnpackMoves DEF Edits
    <3>2. StagedTree(work')
      BY <1>1, <1>2, <3>1 DEF StagedTree
    <3>3. \A t \in Trees' : StagedTree(t)
      BY <1>2, <3>1, <3>2
    <3> QED
      BY <1>3, <3>1, <3>3, StagedIdle
  <2>14. CASE Commit
    <3> DEFINE tree == history'[HEAD']
    <3>1. /\ command' = command /\ work' = work
          /\ Trees' \subseteq Trees \cup {tree} /\ CommitOf(tree)
      BY <2>14, CommitMoves DEF Edits
    <3> HIDE DEF tree
    <3>2. StagedTree(tree)
      BY <1>1, <1>2, <3>1 DEF CommitOf, StagedTree
    <3>3. \A t \in Trees' : StagedTree(t)
      BY <1>2, <3>1, <3>2
    <3> QED
      BY <3>1, <3>3, StagedStill
  <2>15. CASE Attest
    <3>1. Still /\ command' = command
      BY <2>15, AttestMoves
    <3> QED
      BY <1>2, <3>1, StagedStill DEF Still
  <2>16. CASE Pipeline
    <3>1. PICK tree : /\ Trees' \subseteq Trees \cup {tree}
                      /\ ArchivedOf(history[HEAD], Frozen(history[HEAD]),
                                    FreezeCommit(history[HEAD]), tree)
      BY <2>16, PipelineMoves
    <3>2. MayGenerate(history[HEAD]) /\ command' = command /\ work' = work
      BY <2>16, PipelineMoves DEF Edits
    <3>3. tree["traces"] # {} /\ tree["results"] # {}
      BY <3>1, <3>2, TreesAre, ArchivedIsWritten
    <3>4. StagedTree(tree)
      BY <3>1, <3>3 DEF StagedTree, ArchivedOf
    <3>5. \A t \in Trees' : StagedTree(t)
      BY <1>2, <3>1, <3>4
    <3> QED
      BY <3>2, <3>5, StagedStill
  <2> QED
    BY <1>4, <2>1, <2>2, <2>3, <2>4, <2>5, <2>6, <2>7, <2>8, <2>9, <2>10,
       <2>11, <2>12, <2>13, <2>14, <2>15, <2>16, NextIs
<1>5. CASE UNCHANGED vars
  <2>1. Trees' = Trees /\ command' = command /\ work' = work
    BY <1>5, StillMoves DEF vars
  <2> QED
    BY <1>2, <2>1, StagedStill
<1> QED
  BY <1>4, <1>5

-----------------------------------------------------------------------------
(* The fifth layer: only the workflow seals                                *)

\* What a sealed state promised stays promised.
LEMMA SealedStateStays ==
  ASSUME NEW h, NEW g, Extends(h, g), NEW s, SealedState(h, s)
  PROVE  SealedState(g, s)
<1> SUFFICES ASSUME s.class = "sealed"
             PROVE  SealedState(g, s)
  BY DEF SealedState
<1>1. PICK body \in s.digest :
        /\ s.digest = {body} /\ body.head \in 1..Len(h)
        /\ s.traces # {} /\ s.results # {} /\ s.report # {}
        /\ PromisedIn(h, body, s.traces, s.results)
        /\ \A r \in s.report : r.class = "sealed" /\ r.digest = body
  BY DEF SealedState
<1>2. PromisedIn(g, body, s.traces, s.results)
  BY <1>1, PromiseStays
<1>3. body.head \in 1..Len(g)
  BY <1>1 DEF Extends
<1> QED
  BY <1>1, <1>2, <1>3 DEF SealedState

\* A step that writes no attestation, and no state that is sealed, keeps the
\* seals.
LEMMA SealedWith ==
  ASSUME Sealed, Extends(history, history'),
         Held("attestation")' \subseteq Held("attestation"),
         \A s \in Held("state")' : s \in Held("state") \/ s.class # "sealed"
  PROVE  Sealed'
<1>1. ASSUME NEW a \in Held("attestation")'
      PROVE  FrozenIn(history', a.digest, a.freeze)
  BY <1>1, FrozenStays DEF Sealed
<1>2. ASSUME NEW s \in Held("state")'
      PROVE  SealedState(history', s)
  <2>1. CASE s \in Held("state")
    BY <2>1, SealedStateStays DEF Sealed
  <2>2. CASE s.class # "sealed"
    BY <2>2 DEF SealedState
  <2> QED
    BY <1>2, <2>1, <2>2
<1> QED
  BY <1>1, <1>2 DEF Sealed

\* What a complete tree has when it was bound, or was generated of its seeds,
\* is what its manifest promises.
LEMMA ArchivedIsPromised ==
  ASSUME Typed, Dated, NEW t0, IsTree(t0),
         t0["manifest"] \subseteq Held("manifest"),
         MayGenerate(t0), t0["implementation"] = history[HEAD]["implementation"],
         NEW tree, ArchivedOf(t0, Frozen(t0), FreezeCommit(t0), tree)
  PROVE  PromisedIn(history, Frozen(t0), tree["traces"], tree["results"])
<1>1. Complete(t0, "generate")
  BY DEF MayGenerate
<1>2. PICK m \in t0["manifest"] :
        m.body = Frozen(t0) /\ m.digest = Frozen(t0) /\ t0["manifest"] = {m}
  BY <1>1, CompleteMeans
<1>3. (Frozen(t0).pins = {}) <=> ~BindExisting
  BY <1>2 DEF Dated
<1>4. CASE BindExisting
  <2>1. Frozen(t0).pins = {<<t0["traces"], t0["results"]>>}
    BY <1>4 DEF MayGenerate, PinsMatch
  <2> QED
    BY <1>4, <2>1 DEF ArchivedOf, PromisedIn
<1>5. CASE ~BindExisting
  <2>1. tree["traces"] = {Traces("generated", Frozen(t0).draft)}
    BY <1>2, <1>5 DEF ArchivedOf, TracesOf
  <2>2. tree["results"] = {Results(t0["implementation"], tree["traces"])}
    BY <1>5 DEF ArchivedOf
  <2>3. history[Frozen(t0).head]["implementation"] = t0["implementation"]
    BY <1>1, CompleteMeans
  <2> QED
    BY <1>3, <1>5, <2>1, <2>2, <2>3 DEF PromisedIn
<1> QED
  BY <1>4, <1>5

\* A file the workflow's tree has comes from another tree or is its own.
LEMMA PipelineSeals ==
  ASSUME Typed, Dated, Sealed, Pipeline
  PROVE  Sealed'
<1> DEFINE t0 == history[HEAD]
<1>1. PICK tree : /\ Trees' \subseteq Trees \cup {tree} /\ Verified(tree)
                  /\ ArchivedOf(t0, Frozen(t0), FreezeCommit(t0), tree)
  BY PipelineMoves
<1>2. /\ MayGenerate(t0) /\ Complete(t0, "generate") /\ history' = history
      /\ IsTree(t0) /\ t0["manifest"] \subseteq Held("manifest")
  BY PipelineMoves, TreesAre, HeldOf DEF Files, Watched
<1>3. FrozenIn(history, Frozen(t0), FreezeCommit(t0))
  BY <1>2, CompleteIsFrozen
<1>4. /\ PromisedIn(history, Frozen(t0), tree["traces"], tree["results"])
      /\ tree["traces"] # {} /\ tree["results"] # {}
  BY <1>1, <1>2, ArchivedIsPromised, ArchivedIsWritten
<1> HIDE DEF t0
<1>5. Frozen(tree) = Frozen(t0) /\ FreezeCommit(tree) = FreezeCommit(t0)
  BY <1>1 DEF ArchivedOf, Frozen, FreezeCommit
<1>6. ASSUME NEW a \in tree["attestation"]
      PROVE  FrozenIn(history, a.digest, a.freeze)
  <2>1. a.digest = Frozen(tree) /\ a.freeze = FreezeCommit(tree)
    BY <1>1, <1>6 DEF Verified
  <2> QED
    BY <1>3, <1>5, <2>1
<1>7. ASSUME NEW s \in tree["state"]
      PROVE  SealedState(history, s)
  <2>1. /\ s.digest = {Frozen(t0)} /\ s.traces = tree["traces"]
        /\ s.results = tree["results"] /\ s.report = tree["report"]
    BY <1>1, <1>7 DEF ArchivedOf
  <2>2. s.report # {}
        /\ \A r \in s.report : r.class = s.class /\ r.digest = Frozen(t0)
    BY <1>1, <1>7, <2>1 DEF ArchivedOf
  <2>3. Frozen(t0).head \in 1..Len(history)
    BY <1>3 DEF FrozenIn
  <2> QED
    BY <1>4, <2>1, <2>2, <2>3 DEF SealedState
<1>8. \A t \in Trees' : t \in Trees \/ t = tree
  BY <1>1
<1>9. ASSUME NEW a \in Held("attestation")'
      PROVE  FrozenIn(history, a.digest, a.freeze)
  <2>1. a \in Held("attestation") \/ a \in tree["attestation"]
    BY <1>8, <1>9 DEF Held
  <2> QED
    BY <1>6, <2>1 DEF Sealed
<1>10. ASSUME NEW s \in Held("state")'
       PROVE  SealedState(history, s)
  <2>1. s \in Held("state") \/ s \in tree["state"]
    BY <1>8, <1>10 DEF Held
  <2> QED
    BY <1>7, <2>1 DEF Sealed
<1> QED
  BY <1>2, <1>9, <1>10 DEF Sealed

\* Every step keeps the seals: no command of the developer writes one, whatever
\* attestation its tree carries.
LEMMA NextSealed == Typed /\ Dated /\ Sealed /\ [Next]_vars => Sealed'
<1> SUFFICES ASSUME Typed, Dated, Sealed, [Next]_vars
             PROVE  Sealed'
  OBVIOUS
<1>1. /\ {"generate", "run", "state", "traces", "results", "report",
          "manifest", "implementation", "lock", "attestation"} \subseteq Files
  BY DEF Files, Watched, Artifacts
<1>2. Extends(history, history')
  BY HistoryExtends
<1>3. command.class # "sealed"
  BY DEF Typed, IsCommand
<1>4. ASSUME Held("attestation")' \subseteq Held("attestation"),
             Held("state")' \subseteq Held("state")
      PROVE  Sealed'
  <2>1. \A s \in Held("state")' : s \in Held("state") \/ s.class # "sealed"
    BY <1>4
  <2> QED
    BY ONLY Sealed, <1>2, <1>4, <2>1, SealedWith
<1>5. ASSUME NEW s, s.class # "sealed", Wrote("state", {s})
      PROVE  Sealed'
  <2>1. Held("attestation")' \subseteq Held("attestation")
    BY <1>1, <1>5 DEF Wrote
  <2>2. \A x \in Held("state")' : x \in Held("state") \/ x = s
    BY <1>5 DEF Wrote
  <2>3. \A x \in Held("state")' : x \in Held("state") \/ x.class # "sealed"
    BY <1>5, <2>2
  <2> QED
    BY ONLY Sealed, <1>2, <2>1, <2>3, SealedWith
<1>6. ASSUME NEW f \in {"generate", "run", "traces", "results", "report",
                        "manifest", "implementation", "lock"},
             NEW S, Wrote(f, S)
      PROVE  Sealed'
  <2>1. /\ Held("attestation")' \subseteq Held("attestation")
        /\ Held("state")' \subseteq Held("state")
    BY <1>1, <1>6 DEF Wrote
  <2> QED
    BY <1>4, <2>1
<1>7. Still => Sealed'
  BY <1>1, <1>4 DEF Still
<1>8. ASSUME Next
      PROVE  Sealed'
  <2>1. CASE \E d \in Drafts : Freeze(d)
    BY <1>6, <2>1, FreezeMoves
  <2>2. CASE FreezeState
    <3>1. PICK s : s.class = "candidate" /\ Wrote("state", {s})
      BY <2>2, FreezeStateMoves
    <3> QED
      BY <1>5, <3>1
  <2>3. CASE GenerateState \/ RunState
    <3>1. PICK s : s.class = command.class /\ Wrote("state", {s})
      BY <2>3, GenerateStateMoves, RunStateMoves
    <3> QED
      BY <1>3, <1>5, <3>1
  <2>4. CASE ReportState
    <3>1. PICK s : s.class = command.class /\ Wrote("state", {s})
      BY <2>4, ReportStateMoves
    <3> QED
      BY <1>3, <1>5, <3>1
  <2>5. CASE Beginning \/ Killed \/ Attest
    BY <1>7, <2>5, BeginMoves, KilledMoves, AttestMoves
  <2>6. CASE GenerateTraces \/ RunResults
    <3>1. Still \/ \E f \in {"traces", "results"} : \E S : Wrote(f, S)
      BY <2>6, GenerateTracesMoves, RunResultsMoves
    <3> QED
      BY <1>6, <1>7, <3>1
  <2>7. CASE GenerateRecord \/ RunRecord \/ ReportRecord
    <3>1. \E f \in {"generate", "run", "report"} : \E S : Wrote(f, S)
      BY <2>7, GenerateRecordMoves, RunRecordMoves, ReportRecordMoves
    <3> QED
      BY <1>6, <3>1
  <2>8. CASE EditCode \/ EditManifest
    <3>1. \E f \in {"implementation", "lock", "manifest"} : \E S : Wrote(f, S)
      BY <2>8, EditCodeMoves, EditManifestMoves
    <3> QED
      BY <1>6, <3>1
  <2>11. CASE EditArtifacts
    <3>1. PICK f, S : /\ f \in Artifacts /\ Wrote(f, S)
                      /\ S = {} \/ f \in {"traces", "results"}
      BY <2>11, EditArtifactsMoves
    <3>2. CASE f = "attestation"
      <4>1. /\ Held("attestation")' \subseteq Held("attestation")
            /\ Held("state")' \subseteq Held("state")
        BY <1>1, <3>1, <3>2 DEF Wrote
      <4> QED
        BY <1>4, <4>1
    <3>3. CASE f # "attestation"
      BY <1>6, <3>1, <3>3 DEF Artifacts
    <3> QED
      BY <3>2, <3>3
  <2>9. CASE StartOver \/ Unpack \/ Commit
    BY <1>1, <1>4, <2>9, StartOverMoves, UnpackMoves, CommitMoves
  <2>10. CASE Pipeline
    BY <2>10, PipelineSeals
  <2> QED
    BY <1>8, <2>1, <2>2, <2>3, <2>4, <2>5, <2>6, <2>7, <2>8, <2>9, <2>10, <2>11,
       NextIs
<1>9. CASE UNCHANGED vars
  BY <1>1, <1>4, <1>9, StillMoves DEF vars
<1> QED
  BY <1>8, <1>9

\* A tree that verifies as sealed has the state the workflow wrote, and what
\* that records.
LEMMA SealedIsEarnedBy ==
  ASSUME Typed, Sealed
  PROVE  SealedIsEarned
<1> SUFFICES ASSUME NEW tree \in Trees, Verified(tree), Claimed(tree) = "sealed"
             PROVE  /\ \E a \in tree["attestation"] :
                         /\ a.digest = Frozen(tree)
                         /\ FrozenAt(Frozen(tree), a.freeze)
                    /\ tree["results"] \in PromisedResults(Frozen(tree))
                    /\ tree["traces"] # {} => Promised(Frozen(tree), tree)
                    /\ \E r \in tree["report"] :
                         r.class = "sealed" /\ r.digest = Frozen(tree)
  BY DEF SealedIsEarned
<1> DEFINE s == State(tree)
<1>1. IsTree(tree)
  BY DEF Typed
<1>2. tree["state"] # {} /\ s \in tree["state"] /\ s.class = "sealed"
  <2>1. s.class = "sealed" /\ NoState.class # "sealed"
    BY DEF Claimed, NoState
  <2>2. tree["state"] # {}
    BY <1>1, <2>1, StateIs
  <2> QED
    BY <1>1, <2>1, <2>2, StateIs
<1> HIDE DEF s
<1>3. PICK body \in s.digest :
        /\ s.digest = {body}
        /\ s.traces # {} /\ s.results # {} /\ s.report # {}
        /\ PromisedIn(history, body, s.traces, s.results)
        /\ \A r \in s.report : r.class = "sealed" /\ r.digest = body
  BY <1>2 DEF Sealed, Held, SealedState
<1>4. /\ tree["attestation"] # {}
      /\ \A a \in tree["attestation"] : a.digest = Frozen(tree)
      /\ \A f \in {"results", "report"} : tree[f] # {}
      /\ Agree(s.traces, tree["traces"]) /\ Agree(s.results, tree["results"])
      /\ Agree(s.report, tree["report"]) /\ Agree(s.digest, {Frozen(tree)})
  BY DEF Verified, Consistent, s
<1>5. /\ s.digest = {Frozen(tree)} /\ s.results = tree["results"]
      /\ s.report = tree["report"]
      /\ tree["traces"] # {} => s.traces = tree["traces"]
  BY <1>3, <1>4 DEF Agree
<1>6. body = Frozen(tree)
  BY <1>3, <1>5
<1>7. tree["results"] \in PromisedResults(Frozen(tree))
  <2>1. PromisedIn(history, body, s.traces, tree["results"])
    BY <1>3, <1>5
  <2>2. CASE body.pins # {}
    <3>1. <<s.traces, tree["results"]>> \in body.pins
      BY <2>1, <2>2 DEF PromisedIn
    <3> QED
      BY <1>6, <2>2, <3>1 DEF PromisedResults
  <2>3. CASE body.pins = {}
    BY <1>6, <2>1, <2>3 DEF PromisedIn, PromisedResults
  <2> QED
    BY <2>2, <2>3
<1>8. tree["traces"] # {} => Promised(Frozen(tree), tree)
  BY <1>3, <1>5, <1>6 DEF Promised, PromisedIn
<1>9. ASSUME NEW a \in tree["attestation"]
      PROVE  a.digest = Frozen(tree) /\ FrozenAt(Frozen(tree), a.freeze)
  <2>1. a.digest = Frozen(tree)
    BY <1>4, <1>9
  <2>2. FrozenIn(history, a.digest, a.freeze)
    BY <1>9 DEF Sealed, Held
  <2> QED
    BY <2>1, <2>2, FrozenInIsFrozenAt
<1>10. \E r \in tree["report"] : r.class = "sealed" /\ r.digest = Frozen(tree)
  BY <1>3, <1>4, <1>5, <1>6
<1> QED
  BY <1>4, <1>7, <1>8, <1>9, <1>10

\* At the start there are no records, and no seals.
LEMMA InitSealed ==
  ASSUME Init
  PROVE  Staged /\ Sealed
<1>1. /\ Trees = {NewTree} /\ Held("attestation") = {} /\ Held("state") = {}
      /\ NewTree["generate"] = {} /\ NewTree["run"] = {}
      /\ NewTree["report"] = {}
  BY InitIs, NewTreeIs DEF Files, Watched, Artifacts
<1>2. StagedTree(NewTree)
  BY <1>1 DEF StagedTree
<1>3. command.phase = "idle"
  BY DEF Init, Idle
<1> QED
  BY <1>1, <1>2, <1>3 DEF Staged, Sealed, Checked

\* A tree that verifies as sealed carries an attestation of the commit its
\* manifest was frozen at, a report sealed for it, the results it promises and
\* no other traces than it promises; whatever attestation a developer's tree
\* carries, however artifacts are changed and whichever are deleted by hand, and
\* for bound packs as for generated ones (holdout-protocol.mjs:354-369, 692-703;
\* holdout-verify.mjs:113-286; holdout-generate.yml).
THEOREM SealedTheorem == Spec => []SealedIsEarned
<1>1. Init => Typed /\ Dated /\ Sealed
  BY InitFounded, InitSealed
<1>2. Typed /\ Dated /\ Sealed /\ [Next]_vars => Typed' /\ Dated' /\ Sealed'
  BY NextTyped, NextDated, NextSealed
<1>3. Typed /\ Dated /\ Sealed => SealedIsEarned
  BY SealedIsEarnedBy
<1> QED
  BY <1>1, <1>2, <1>3, PTL DEF Spec

-----------------------------------------------------------------------------
(* The last layer: what is promised is kept                                *)

\* The layers it rests on.
Earlier == Typed /\ Dated /\ Founded /\ Unrecorded /\ Staged

\* A manifest promises one pair.
LEMMA PromisedOnce ==
  ASSUME NEW h, NEW body, Single(body.pins),
         NEW t, NEW r, PromisedIn(h, body, t, r),
         NEW u, NEW q, PromisedIn(h, body, u, q)
  PROVE  t = u /\ r = q
<1>1. CASE body.pins # {}
  <2>1. <<t, r>> = <<u, q>>
    BY <1>1 DEF PromisedIn, Single
  <2> QED
    BY <2>1
<1>2. CASE body.pins = {}
  BY <1>2 DEF PromisedIn
<1> QED
  BY <1>1, <1>2

\* The manifest of a tree was frozen by now, at a commit there is.
LEMMA ManifestOf ==
  ASSUME Typed, Dated, NEW tree \in Trees, NEW m \in tree["manifest"]
  PROVE  /\ m.digest.head \in 1..HEAD /\ m.digest.stamp \in 1..frozen
         /\ (m.digest.pins = {}) <=> ~BindExisting
         /\ m \in Held("manifest")
<1>1. m \in Held("manifest")
  BY DEF Held
<1> QED
  BY <1>1 DEF Dated

\* What records promised, of whatever tree has that manifest and that state.
LEMMA RecordsStay ==
  ASSUME Typed, Dated, Extends(history, history'), NEW tree \in Trees,
         RecordsPromised(history, tree), NEW next,
         next["manifest"] = tree["manifest"], next["state"] = tree["state"]
  PROVE  RecordsPromised(history', next)
<1> SUFFICES ASSUME NEW m \in tree["manifest"], NEW s \in tree["state"],
                    s.digest = {m.digest}
             PROVE  \E traces, results :
                      /\ PromisedIn(history', m.digest, traces, results)
                      /\ s.traces \in {{}, traces} /\ s.results \in {{}, results}
  BY DEF RecordsPromised
<1>1. PICK traces, results :
        /\ PromisedIn(history, m.digest, traces, results)
        /\ s.traces \in {{}, traces} /\ s.results \in {{}, results}
  BY DEF RecordsPromised
<1>2. m.digest.head \in 1..Len(history)
  BY ManifestOf DEF HEAD
<1>3. PromisedIn(history', m.digest, traces, results)
  BY <1>1, <1>2, PromiseStays
<1> QED
  BY <1>1, <1>3

\* What was promised of a tree, of whatever tree has its manifest, its traces
\* and its results.
LEMMA TreeStays ==
  ASSUME Typed, Dated, Extends(history, history'), NEW tree \in Trees,
         TreePromised(history, tree), NEW next,
         next["manifest"] = tree["manifest"], next["traces"] = tree["traces"],
         next["results"] = tree["results"]
  PROVE  TreePromised(history', next)
<1> SUFFICES ASSUME NEW m \in tree["manifest"]
             PROVE  PromisedIn(history', m.digest, tree["traces"], tree["results"])
  BY DEF TreePromised
<1>1. m.digest.head \in 1..Len(history)
  BY ManifestOf DEF HEAD
<1> QED
  BY <1>1, PromiseStays DEF TreePromised

\* The manifest a later phase checked.
LEMMA CheckedManifest ==
  ASSUME Typed, Dated, Staged, Checked
  PROVE  /\ work["manifest"] # {}
         /\ \A m \in work["manifest"] : m.digest = Body /\ m.body = Body
         /\ Body.stamp \in 1..frozen
         /\ (Body.pins = {}) <=> ~BindExisting
<1>1. PICK m \in work["manifest"] : m.digest = Body /\ m.body = Body
  BY DEF Staged
<1>2. work["manifest"] = {m}
  BY TreesAre, FrozenIs
<1>3. /\ m.digest.stamp \in 1..frozen
      /\ (m.digest.pins = {}) <=> ~BindExisting
  BY TreesAre, ManifestOf
<1> QED
  BY <1>1, <1>2, <1>3

\* Traces of the seeds and results of them by the frozen code are promised.
LEMMA SeedsArePromised ==
  ASSUME NEW h, NEW tree, SeedTraces(tree),
         \A m \in tree["manifest"] :
           /\ m.digest.pins = {}
           /\ tree["results"] = {Results(h[m.digest.head]["implementation"],
                                         tree["traces"])}
  PROVE  TreePromised(h, tree)
  BY DEF SeedTraces, TreePromised, PromisedIn

\* Every step keeps pins single.
LEMMA NextPinned == Typed /\ PinnedOnce /\ [Next]_vars => PinnedOnce'
<1> SUFFICES ASSUME Typed, PinnedOnce, [Next]_vars
             PROVE  PinnedOnce'
  OBVIOUS
<1>1. {"generate", "run", "state", "traces", "results", "report",
       "manifest", "implementation", "lock"} \subseteq Files
  BY DEF Files, Watched, Artifacts
<1>2. Held("manifest")' \subseteq Held("manifest") => PinnedOnce'
  BY DEF PinnedOnce
<1>3. ASSUME NEW n, Wrote("manifest", {n}), Single(n.digest.pins)
      PROVE  PinnedOnce'
  <2>1. \A m \in Held("manifest")' : m \in Held("manifest") \/ m = n
    BY <1>3 DEF Wrote
  <2> QED
    BY <1>3, <2>1 DEF PinnedOnce
<1>4. ASSUME NEW f \in Artifacts \cup {"state", "implementation", "lock"},
             NEW S, Wrote(f, S)
      PROVE  PinnedOnce'
  <2>1. f \in Files /\ f # "manifest"
    BY DEF Files, Watched, Artifacts
  <2> QED
    BY <1>1, <1>2, <1>4, <2>1 DEF Wrote
<1>5. Still => PinnedOnce'
  BY <1>1, <1>2 DEF Still
<1>6. ASSUME Next
      PROVE  PinnedOnce'
  <2>1. CASE \E d \in Drafts : Freeze(d)
    <3>1. PICK body :
            /\ body.pins = IF BindExisting
                           THEN {<<work["traces"], work["results"]>>} ELSE {}
            /\ Wrote("manifest", {[body |-> body, digest |-> body]})
      BY <2>1, FreezeMoves
    <3>2. Single(body.pins)
      BY <3>1 DEF Single
    <3> DEFINE n == [body |-> body, digest |-> body]
    <3>3. Wrote("manifest", {n}) /\ Single(n.digest.pins)
      BY <3>1, <3>2
    <3> HIDE DEF n
    <3> QED
      BY <1>3, <3>3
  <2>2. CASE FreezeState \/ GenerateState \/ RunState \/ ReportState
             \/ GenerateRecord \/ RunRecord \/ ReportRecord
    <3>1. \E f \in {"state", "generate", "run", "report"} : \E S : Wrote(f, S)
      BY <2>2, FreezeStateMoves, GenerateStateMoves, RunStateMoves,
         ReportStateMoves, GenerateRecordMoves, RunRecordMoves,
         ReportRecordMoves
    <3> QED
      BY <1>4, <3>1 DEF Artifacts
  <2>3. CASE Beginning \/ Killed \/ Attest
    BY <1>5, <2>3, BeginMoves, KilledMoves, AttestMoves
  <2>4. CASE GenerateTraces \/ RunResults
    <3>1. Still \/ \E f \in {"traces", "results"} : \E S : Wrote(f, S)
      BY <2>4, GenerateTracesMoves, RunResultsMoves
    <3> QED
      BY <1>4, <1>5, <3>1 DEF Artifacts
  <2>5. CASE EditCode \/ EditArtifacts
    <3>1. \E f \in Artifacts \cup {"implementation", "lock"} : \E S : Wrote(f, S)
      BY <2>5, EditCodeMoves, EditArtifactsMoves
    <3> QED
      BY <1>4, <3>1
  <2>6. CASE EditManifest
    <3>1. PICK m \in work["manifest"] : \E n : /\ n.digest = m.digest
                                               /\ Wrote("manifest", {n})
      BY <2>6, EditManifestMoves
    <3>2. Single(m.digest.pins)
      BY <1>1, HeldOf DEF PinnedOnce
    <3> QED
      BY <1>3, <3>1, <3>2
  <2>7. CASE StartOver \/ Unpack \/ Commit
    BY <1>1, <1>2, <2>7, StartOverMoves, UnpackMoves, CommitMoves
  <2>8. CASE Pipeline
    <3>1. PICK tree : /\ Trees' \subseteq Trees \cup {tree}
                      /\ tree["manifest"] = history[HEAD]["manifest"]
      BY <2>8, PipelineMoves DEF ArchivedOf
    <3>2. tree["manifest"] \subseteq Held("manifest")
      BY <1>1, <3>1, TreesAre, HeldOf
    <3>3. Held("manifest")' \subseteq Held("manifest")
      <4>1. \A t \in Trees' : t \in Trees \/ t["manifest"] \subseteq Held("manifest")
        BY <3>1, <3>2
      <4> QED
        BY <4>1 DEF Held
    <3> QED
      BY <1>2, <3>3
  <2> QED
    BY <1>6, <2>1, <2>2, <2>3, <2>4, <2>5, <2>6, <2>7, <2>8, NextIs
<1>7. CASE UNCHANGED vars
  BY <1>1, <1>2, <1>7, StillMoves DEF vars
<1> QED
  BY <1>6, <1>7

\* Records are promised when those of the tree that is new are.
LEMMA RecordedWith ==
  ASSUME Typed, Dated, Recorded, Extends(history, history'),
         frozen' \in Nat, frozen <= frozen',
         NEW tree, Trees' \subseteq Trees \cup {tree},
         RecordsPromised(history', tree),
         \A s \in tree["state"] : \A b \in s.digest : b.stamp \in 1..frozen'
  PROVE  Recorded'
<1>1. \A t \in Trees' : t \in Trees \/ t = tree
  OBVIOUS
<1>2. ASSUME NEW t \in Trees'
      PROVE  RecordsPromised(history', t)
  <2>1. CASE t \in Trees
    <3>1. RecordsPromised(history, t)
      BY <2>1 DEF Recorded
    <3> QED
      BY ONLY Typed, Dated, Extends(history, history'), <2>1, <3>1, RecordsStay
  <2>2. CASE t = tree
    BY <2>2
  <2> QED
    BY <1>1, <2>1, <2>2
<1>3. frozen \in Nat
  BY DEF Typed
<1>4. ASSUME NEW s \in Held("state")', NEW b \in s.digest
      PROVE  b.stamp \in 1..frozen'
  <2>1. s \in Held("state") \/ s \in tree["state"]
    BY <1>1, <1>4 DEF Held
  <2>2. CASE s \in Held("state")
    <3>1. b.stamp \in 1..frozen
      BY <1>4, <2>2 DEF Recorded
    <3> QED
      BY <1>3, <3>1
  <2>3. CASE s \in tree["state"]
    BY <1>4, <2>3
  <2> QED
    BY <2>1, <2>2, <2>3
<1> QED
  BY <1>2, <1>4 DEF Recorded

\* So they are when the new tree has the manifest and the state of another.
LEMMA RecordedSame ==
  ASSUME Typed, Dated, Recorded, Extends(history, history'), frozen' = frozen,
         NEW tree, Trees' \subseteq Trees \cup {tree},
         NEW old \in Trees, tree["manifest"] = old["manifest"],
         tree["state"] = old["state"]
  PROVE  Recorded'
<1>1. RecordsPromised(history, old)
  BY DEF Recorded
<1>2. RecordsPromised(history', tree)
  BY <1>1, RecordsStay
<1>3. \A s \in tree["state"] : \A b \in s.digest : b.stamp \in 1..frozen'
  BY DEF Recorded, Held
<1>4. frozen' \in Nat /\ frozen <= frozen'
  BY DEF Typed
<1> QED
  BY ONLY Typed, Dated, Recorded, Extends(history, history'), <1>2, <1>3, <1>4,
     Trees' \subseteq Trees \cup {tree}, RecordedWith

\* And when the state that is written records what the manifest promises.
LEMMA RecordedState ==
  ASSUME Typed, Dated, Recorded, history' = history, frozen' = frozen, NEW s,
         Wrote("state", {s}),
         \A b \in s.digest : b.stamp \in 1..frozen,
         \A m \in work["manifest"] : s.digest = {m.digest} =>
           \E traces, results :
             /\ PromisedIn(history, m.digest, traces, results)
             /\ s.traces \in {{}, traces} /\ s.results \in {{}, results}
  PROVE  Recorded'
<1>1. /\ work'["manifest"] = work["manifest"] /\ work'["state"] = {s}
      /\ Trees' \subseteq Trees \cup {work'}
  BY DEF Wrote, Files, Watched
<1>2. RecordsPromised(history', work')
  BY <1>1 DEF RecordsPromised
<1>3. \A x \in work'["state"] : \A b \in x.digest : b.stamp \in 1..frozen'
  BY <1>1
<1>4. frozen' \in Nat /\ frozen <= frozen' /\ Extends(history, history')
  BY DEF Typed, Extends, IsHistory
<1> QED
  BY ONLY Typed, Dated, Recorded, <1>1, <1>2, <1>3, <1>4, RecordedWith

\* Every step keeps what states record promised.
LEMMA NextRecorded ==
  Earlier /\ Kept /\ [Next]_vars => Recorded'
<1> SUFFICES ASSUME Earlier, Kept, [Next]_vars
             PROVE  Recorded'
  OBVIOUS
<1>1. /\ {"generate", "run", "state", "traces", "results", "report",
          "manifest", "implementation", "lock"} \subseteq Files
      /\ {"generate", "run", "traces", "results", "report"} \subseteq Artifacts
      /\ {"state", "manifest", "implementation", "lock"} \cap Artifacts = {}
  BY DEF Files, Watched, Artifacts
<1>2. /\ Typed /\ Dated /\ Founded /\ Unrecorded /\ Staged
      /\ PinnedOnce /\ Recorded /\ ArchivesWhole /\ WorkWhole /\ CommandKept
  BY DEF Earlier, Kept
<1>3. Extends(history, history')
  BY <1>2, HistoryExtends
<1>4. ASSUME NEW tree, Trees' \subseteq Trees \cup {tree}, frozen' = frozen,
             NEW old \in Trees, tree["manifest"] = old["manifest"],
             tree["state"] = old["state"]
      PROVE  Recorded'
  BY ONLY <1>2, <1>3, <1>4, RecordedSame
<1>5. work \in Trees /\ frozen \in Nat /\ IsTree(work)
  BY <1>2, TreesAre DEF Typed
<1>6. ASSUME NEW f \in Artifacts \cup {"implementation", "lock"},
             NEW S, Wrote(f, S), frozen' = frozen
      PROVE  Recorded'
  <2>0. f # "manifest" /\ f # "state"
    BY DEF Artifacts
  <2>1. /\ Trees' \subseteq Trees \cup {work'}
        /\ work'["manifest"] = work["manifest"] /\ work'["state"] = work["state"]
    BY <1>1, <1>6, <2>0 DEF Wrote
  <2> QED
    BY <1>4, <1>5, <1>6, <2>1
<1>7. ASSUME Still, frozen' = frozen
      PROVE  Recorded'
  <2>1. Trees' \subseteq Trees \cup {work}
    BY <1>7 DEF Still
  <2> QED
    BY <1>4, <1>5, <1>7, <2>1
<1>8. ASSUME NEW s, Wrote("state", {s}), frozen' = frozen,
             \A b \in s.digest : b.stamp \in 1..frozen,
             \A m \in work["manifest"] : s.digest = {m.digest} =>
               \E traces, results :
                 /\ PromisedIn(history, m.digest, traces, results)
                 /\ s.traces \in {{}, traces} /\ s.results \in {{}, results}
      PROVE  Recorded'
  <2>1. history' = history
    BY <1>8 DEF Wrote
  <2> QED
    BY ONLY <1>2, <1>8, <2>1, RecordedState
<1>9. State(work).digest # {} => State(work) \in work["state"]
  BY <1>5, StateIs DEF NoState
<1>10. ASSUME Next
       PROVE  Recorded'
  <2>1. CASE \E d \in Drafts : Freeze(d)
    <3>1. PICK body :
            /\ body.stamp = frozen + 1 /\ frozen' = frozen + 1
            /\ Wrote("manifest", {[body |-> body, digest |-> body]})
      BY <1>2, <2>1, FreezeMoves
    <3> DEFINE n == [body |-> body, digest |-> body]
    <3>2. n.digest = body /\ Wrote("manifest", {n})
      BY <3>1
    <3> HIDE DEF n
    <3>3. /\ work'["manifest"] = {n} /\ work'["state"] = work["state"]
          /\ Trees' \subseteq Trees \cup {work'}
      BY <1>1, <3>2 DEF Wrote
    <3>4. \A s \in work["state"] : \A b \in s.digest : b.stamp \in 1..frozen
      BY <1>1, <1>2, HeldOf DEF Recorded
    <3>5. \A s \in work'["state"] : s.digest # {n.digest}
      BY <1>5, <3>1, <3>2, <3>3, <3>4
    <3>6. RecordsPromised(history', work')
      BY <3>3, <3>5 DEF RecordsPromised
    <3>7. \A s \in work'["state"] : \A b \in s.digest : b.stamp \in 1..frozen'
      BY <1>5, <3>1, <3>3, <3>4
    <3>8. frozen' \in Nat /\ frozen <= frozen'
      BY <1>5, <3>1
    <3> QED
      BY ONLY <1>2, <1>3, <3>3, <3>6, <3>7, <3>8, RecordedWith
  <2>2. CASE FreezeState
    <3>1. PICK s : /\ s.digest = command.body
                   /\ s.traces = IF BindExisting THEN work["traces"] ELSE {}
                   /\ s.results = IF BindExisting THEN work["results"] ELSE {}
                   /\ Wrote("state", {s})
      BY <1>2, <2>2, FreezeStateMoves
    <3>2. frozen' = frozen /\ command.phase = "freeze"
      BY <1>2, <2>2, FreezeStateMoves
    <3>3. /\ \A m \in work["manifest"] : command.body = {m.digest}
          /\ work["manifest"] # {}
          /\ BindExisting => TreePromised(history, work)
      BY <1>2, <3>2 DEF CommandKept
    <3>4. \A m \in work["manifest"] : /\ m.digest.stamp \in 1..frozen
                                      /\ (m.digest.pins = {}) <=> ~BindExisting
      BY <1>2, <1>5, ManifestOf
    <3>5. \A b \in s.digest : b.stamp \in 1..frozen
      <4>1. PICK m \in work["manifest"] : s.digest = {m.digest}
        BY <3>1, <3>3
      <4> QED
        BY <3>4, <4>1
    <3>6. ASSUME NEW m \in work["manifest"]
          PROVE  \E traces, results :
                   /\ PromisedIn(history, m.digest, traces, results)
                   /\ s.traces \in {{}, traces} /\ s.results \in {{}, results}
      <4>1. CASE BindExisting
        BY <3>1, <3>3, <3>6, <4>1 DEF TreePromised
      <4>2. CASE ~BindExisting
        <5> DEFINE t == {Traces("generated", m.digest.draft)}
                   r == {Results(history[m.digest.head]["implementation"], t)}
        <5>1. PromisedIn(history, m.digest, t, r)
          BY <3>4, <3>6, <4>2 DEF PromisedIn
        <5> QED
          BY <3>1, <4>2, <5>1
      <4> QED
        BY <4>1, <4>2
    <3> QED
      BY <1>8, <3>1, <3>2, <3>5, <3>6
  <2>3. CASE GenerateState
    <3>1. PICK s : /\ s.digest = {Body} /\ s.traces = work["traces"]
                   /\ s.results = IF BindExisting THEN work["results"]
                                  ELSE State(work).results
                   /\ Wrote("state", {s})
      BY <1>2, <2>3, GenerateStateMoves
    <3>2. frozen' = frozen /\ command.phase = "generate" /\ command.step = 3
      BY <1>2, <2>3, GenerateStateMoves DEF Ends
    <3>3. /\ \A m \in work["manifest"] : m.digest = Body
          /\ Body.stamp \in 1..frozen
          /\ (Body.pins = {}) <=> ~BindExisting
      BY <1>2, <3>2, CheckedManifest DEF Checked
    <3>4. /\ work["run"] = {}
          /\ IF BindExisting THEN TreePromised(history, work) ELSE SeedTraces(work)
      BY <1>2, <3>2 DEF CommandKept
    <3>5. ASSUME NEW m \in work["manifest"]
          PROVE  \E traces, results :
                   /\ PromisedIn(history, m.digest, traces, results)
                   /\ s.traces \in {{}, traces} /\ s.results \in {{}, results}
      <4>1. CASE BindExisting
        BY <3>1, <3>4, <3>5, <4>1 DEF TreePromised
      <4>2. CASE ~BindExisting
        <5> DEFINE t == {Traces("generated", m.digest.draft)}
                   r == {Results(history[m.digest.head]["implementation"], t)}
        <5>1. PromisedIn(history, m.digest, t, r)
          BY <3>3, <3>5, <4>2 DEF PromisedIn
        <5>2. s.traces = t
          BY <3>1, <3>4, <3>5, <4>2 DEF SeedTraces
        <5>3. State(work).results = {}
          <6>1. CASE work["state"] = {}
            BY <1>5, <6>1, StateIs DEF NoState
          <6>2. CASE work["state"] # {}
            <7>1. State(work) \in work["state"]
              BY <1>5, <6>2, StateIs
            <7> QED
              BY <1>2, <3>4, <4>2, <7>1 DEF WorkWhole
          <6> QED
            BY <6>1, <6>2
        <5> QED
          BY <3>1, <4>2, <5>1, <5>2, <5>3
      <4> QED
        BY <4>1, <4>2
    <3>6. \A b \in s.digest : b.stamp \in 1..frozen
      BY <3>1, <3>3
    <3> QED
      BY <1>8, <3>1, <3>2, <3>5, <3>6
  <2>4. CASE RunState
    <3>1. PICK s : /\ s.digest = State(work).digest
                   /\ s.traces = State(work).traces
                   /\ s.results = work["results"]
                   /\ Wrote("state", {s})
      BY <1>2, <2>4, RunStateMoves
    <3>2. frozen' = frozen /\ command.phase = "run" /\ command.step = 3
      BY <1>2, <2>4, RunStateMoves DEF Ends
    <3>3. TreePromised(history, work)
      BY <1>2, <3>2 DEF CommandKept
    <3>4. ASSUME NEW m \in work["manifest"], s.digest = {m.digest}
          PROVE  \E traces, results :
                   /\ PromisedIn(history, m.digest, traces, results)
                   /\ s.traces \in {{}, traces} /\ s.results \in {{}, results}
      <4>1. State(work) \in work["state"] /\ State(work).digest = {m.digest}
        BY <1>9, <3>1, <3>4
      <4>2. RecordsPromised(history, work)
        BY <1>2, <1>5 DEF Recorded
      <4>3. PICK traces, results :
              /\ PromisedIn(history, m.digest, traces, results)
              /\ s.traces \in {{}, traces}
        BY <3>1, <3>4, <4>1, <4>2 DEF RecordsPromised
      <4>4. PromisedIn(history, m.digest, work["traces"], work["results"])
        BY <3>3, <3>4 DEF TreePromised
      <4>5. Single(m.digest.pins)
        BY <1>2, <1>5, <3>4, ManifestOf DEF PinnedOnce
      <4>6. traces = work["traces"]
        BY <4>3, <4>4, <4>5, PromisedOnce
      <4> QED
        BY <3>1, <4>3, <4>4, <4>6
    <3>5. \A b \in s.digest : b.stamp \in 1..frozen
      <4>1. ASSUME NEW b \in s.digest
            PROVE  b.stamp \in 1..frozen
        <5>1. State(work) \in Held("state") /\ b \in State(work).digest
          BY <1>1, <1>2, <1>9, <3>1, <4>1, HeldOf
        <5> QED
          BY <1>2, <5>1 DEF Recorded
      <4> QED
        BY <4>1
    <3> QED
      BY <1>8, <3>1, <3>2, <3>4, <3>5
  <2>5. CASE ReportState
    <3>1. PICK s : /\ s.digest = {Body} /\ s.traces = work["traces"]
                   /\ s.results = work["results"] /\ Wrote("state", {s})
      BY <1>2, <2>5, ReportStateMoves
    <3>2. frozen' = frozen /\ command.phase = "report"
      BY <1>2, <2>5, ReportStateMoves DEF Ends
    <3>3. TreePromised(history, work)
      BY <1>2, <3>2 DEF WorkWhole, Staged
    <3>4. Body.stamp \in 1..frozen
      BY <1>2, <3>2, CheckedManifest DEF Checked
    <3>5. \A m \in work["manifest"] : s.digest = {m.digest} =>
            \E traces, results :
              /\ PromisedIn(history, m.digest, traces, results)
              /\ s.traces \in {{}, traces} /\ s.results \in {{}, results}
      BY <3>1, <3>3 DEF TreePromised
    <3>6. \A b \in s.digest : b.stamp \in 1..frozen
      BY <3>1, <3>4
    <3> QED
      BY <1>8, <3>1, <3>2, <3>5, <3>6
  <2>6. CASE Beginning \/ Killed \/ Attest
    BY <1>2, <1>7, <2>6, BeginMoves, KilledMoves, AttestMoves
  <2>7. CASE GenerateTraces \/ RunResults
    <3>1. Still \/ \E f \in {"traces", "results"} : \E S : Wrote(f, S)
      BY <1>2, <2>7, GenerateTracesMoves, RunResultsMoves
    <3>2. frozen' = frozen
      BY <1>2, <2>7, GenerateTracesMoves, RunResultsMoves DEF Goes
    <3> QED
      BY <1>6, <1>7, <3>1, <3>2 DEF Artifacts
  <2>8. CASE GenerateRecord \/ RunRecord \/ ReportRecord
    <3>1. \E f \in {"generate", "run", "report"} : \E S : Wrote(f, S)
      BY <1>2, <2>8, GenerateRecordMoves, RunRecordMoves, ReportRecordMoves
    <3>2. frozen' = frozen
      BY <1>2, <2>8, GenerateRecordMoves, RunRecordMoves, ReportRecordMoves
         DEF Goes
    <3> QED
      BY <1>6, <3>1, <3>2 DEF Artifacts
  <2>9. CASE EditCode \/ EditArtifacts
    <3>1. \E f \in Artifacts \cup {"implementation", "lock"} : \E S : Wrote(f, S)
      BY <1>2, <2>9, EditCodeMoves, EditArtifactsMoves
    <3>2. frozen' = frozen
      BY <1>2, <2>9, EditCodeMoves, EditArtifactsMoves DEF Edits
    <3> QED
      BY <1>6, <3>1, <3>2
  <2>10. CASE EditManifest
    <3>1. PICK m \in work["manifest"] : \E n : /\ n.digest = m.digest
                                               /\ Wrote("manifest", {n})
      BY <1>2, <2>10, EditManifestMoves
    <3>2. PICK n : n.digest = m.digest /\ Wrote("manifest", {n})
      BY <3>1
    <3>3. /\ work'["manifest"] = {n} /\ work'["state"] = work["state"]
          /\ Trees' \subseteq Trees \cup {work'} /\ history' = history
      BY <1>1, <3>2 DEF Wrote
    <3>4. RecordsPromised(history, work)
      BY <1>2, <1>5 DEF Recorded
    <3>5. RecordsPromised(history', work')
      BY <3>2, <3>3, <3>4 DEF RecordsPromised
    <3>6. frozen' = frozen
      BY <1>2, <2>10, EditManifestMoves DEF Edits
    <3>7. \A s \in work'["state"] : \A b \in s.digest : b.stamp \in 1..frozen'
      BY <1>1, <1>2, <3>3, <3>6, HeldOf DEF Recorded
    <3>8. frozen' \in Nat /\ frozen <= frozen'
      BY <1>5, <3>6
    <3> QED
      BY ONLY <1>2, <1>3, <3>3, <3>5, <3>7, <3>8, RecordedWith
  <2>11. CASE StartOver
    <3>1. /\ Trees' \subseteq Trees \cup {work'} /\ work'["state"] = {}
          /\ frozen' = frozen
      BY <1>2, <2>11, StartOverMoves DEF Edits
    <3>2. /\ RecordsPromised(history', work')
          /\ \A s \in work'["state"] : \A b \in s.digest : b.stamp \in 1..frozen'
      BY <3>1 DEF RecordsPromised
    <3>3. frozen' \in Nat /\ frozen <= frozen'
      BY <1>5, <3>1
    <3> QED
      BY ONLY <1>2, <1>3, <3>1, <3>2, <3>3, RecordedWith
  <2>12. CASE Unpack
    <3>1. PICK pack \in archive :
            \A f \in Files \ {"implementation", "lock"} : work'[f] = pack[f]
      BY <1>2, <2>12, UnpackMoves
    <3>2. /\ Trees' \subseteq Trees \cup {work'} /\ frozen' = frozen
          /\ pack \in Trees
          /\ work'["manifest"] = pack["manifest"] /\ work'["state"] = pack["state"]
      BY <1>1, <1>2, <2>12, <3>1, UnpackMoves, TreesAre DEF Edits
    <3> QED
      BY <1>4, <3>2
  <2>13. CASE Commit
    <3> DEFINE tree == history'[HEAD']
    <3>1. /\ Trees' \subseteq Trees \cup {tree} /\ CommitOf(tree)
          /\ frozen' = frozen
      BY <1>2, <2>13, CommitMoves DEF Edits
    <3> HIDE DEF tree
    <3>2. tree["manifest"] = work["manifest"] /\ tree["state"] = work["state"]
      BY <1>1, <3>1 DEF CommitOf
    <3> QED
      BY <1>4, <1>5, <3>1, <3>2
  <2>14. CASE Pipeline
    <3> DEFINE t0 == history[HEAD]
    <3>1. PICK tree : /\ Trees' \subseteq Trees \cup {tree}
                      /\ ArchivedOf(t0, Frozen(t0), FreezeCommit(t0), tree)
      BY <1>2, <2>14, PipelineMoves
    <3>2. /\ MayGenerate(t0) /\ Complete(t0, "generate")
          /\ history' = history /\ frozen' = frozen
          /\ IsTree(t0) /\ t0 \in Trees /\ t0["manifest"] \subseteq Held("manifest")
      BY <1>1, <1>2, <2>14, PipelineMoves, TreesAre, HeldOf DEF Edits
    <3>3. PromisedIn(history, Frozen(t0), tree["traces"], tree["results"])
      BY <1>2, <3>1, <3>2, ArchivedIsPromised
    <3>4. PICK m \in t0["manifest"] :
            m.digest = Frozen(t0) /\ t0["manifest"] = {m}
      BY <1>2, <3>2, CompleteMeans
    <3>5. Frozen(t0).stamp \in 1..frozen
      BY <1>2, <3>2, <3>4, ManifestOf
    <3> HIDE DEF t0
    <3>6. /\ tree["manifest"] = {m}
          /\ \A s \in tree["state"] : /\ s.digest = {Frozen(t0)}
                                      /\ s.traces = tree["traces"]
                                      /\ s.results = tree["results"]
      BY <3>1, <3>4 DEF ArchivedOf
    <3>7. RecordsPromised(history', tree)
      BY <3>2, <3>3, <3>4, <3>6 DEF RecordsPromised
    <3>8. \A s \in tree["state"] : \A b \in s.digest : b.stamp \in 1..frozen'
      BY <3>2, <3>5, <3>6
    <3>9. frozen' \in Nat /\ frozen <= frozen'
      BY <1>5, <3>2
    <3> QED
      BY ONLY <1>2, <1>3, <3>1, <3>7, <3>8, <3>9, RecordedWith
  <2> QED
    BY <1>10, <2>1, <2>2, <2>3, <2>4, <2>5, <2>6, <2>7, <2>8, <2>9, <2>10,
       <2>11, <2>12, <2>13, <2>14, NextIs
<1>11. CASE UNCHANGED vars
  <2>1. Trees' \subseteq Trees \cup {work} /\ frozen' = frozen
    BY <1>2, <1>11, StillMoves DEF vars
  <2> QED
    BY <1>4, <1>5, <2>1
<1> QED
  BY <1>10, <1>11

\* Only the workflow archives, and what it archives is whole.
LEMMA NextArchives ==
  Earlier /\ Kept /\ [Next]_vars => ArchivesWhole'
<1> SUFFICES ASSUME Earlier, Kept, [Next]_vars
             PROVE  ArchivesWhole'
  OBVIOUS
<1>1. Typed /\ Dated /\ Staged /\ ArchivesWhole
  BY DEF Earlier, Kept
<1>2. Extends(history, history')
  BY <1>1, HistoryExtends
<1>3. ASSUME archive' = archive
      PROVE  ArchivesWhole'
  <2> SUFFICES ASSUME NEW tree \in archive
               PROVE  /\ \E s \in tree["state"] : Whole(s)
                      /\ tree["generate"] # {} /\ tree["run"] # {}
                      /\ TreePromised(history', tree)
    BY <1>3 DEF ArchivesWhole
  <2>1. /\ \E s \in tree["state"] : Whole(s)
        /\ tree["generate"] # {} /\ tree["run"] # {}
        /\ TreePromised(history, tree) /\ tree \in Trees
    BY <1>1, TreesAre DEF ArchivesWhole
  <2>2. TreePromised(history', tree)
    BY <1>1, <1>2, <2>1, TreeStays
  <2> QED
    BY <2>1, <2>2
<1>4. ASSUME Pipeline
      PROVE  ArchivesWhole'
  <2> DEFINE t0 == history[HEAD]
  <2>1. PICK tree : /\ archive' = {tree} /\ history' = history
                    /\ ArchivedOf(t0, Frozen(t0), FreezeCommit(t0), tree)
    BY <1>1, <1>4, PipelineMoves
  <2>2. /\ MayGenerate(t0) /\ Complete(t0, "generate")
        /\ IsTree(t0) /\ t0["manifest"] \subseteq Held("manifest")
    BY <1>1, <1>4, PipelineMoves, TreesAre, HeldOf DEF Files, Watched
  <2>3. PromisedIn(history, Frozen(t0), tree["traces"], tree["results"])
    BY <1>1, <2>1, <2>2, ArchivedIsPromised
  <2>4. PICK m \in t0["manifest"] : m.digest = Frozen(t0) /\ t0["manifest"] = {m}
    BY <1>1, <2>2, CompleteMeans
  <2>5. tree["traces"] # {} /\ tree["results"] # {}
    BY <1>1, <2>1, <2>2, ArchivedIsWritten
  <2> HIDE DEF t0
  <2>6. TreePromised(history', tree)
    BY <2>1, <2>3, <2>4 DEF TreePromised, ArchivedOf
  <2>7. PICK s \in tree["state"] :
          /\ s.digest = {Frozen(t0)} /\ s.traces = tree["traces"]
          /\ s.results = tree["results"]
    BY <2>1 DEF ArchivedOf
  <2>8. tree["generate"] # {} /\ tree["run"] # {} /\ Whole(s)
    BY <2>1, <2>5, <2>7 DEF ArchivedOf, Whole
  <2> QED
    BY <2>1, <2>6, <2>8 DEF ArchivesWhole
<1>5. Next => archive' = archive \/ Pipeline
  BY <1>1, FreezeMoves, FreezeStateMoves, BeginMoves, GenerateTracesMoves,
     GenerateRecordMoves, GenerateStateMoves, RunResultsMoves, RunRecordMoves,
     RunStateMoves, ReportRecordMoves, ReportStateMoves, KilledMoves,
     EditCodeMoves, EditManifestMoves, EditArtifactsMoves, StartOverMoves,
     UnpackMoves, CommitMoves, AttestMoves, NextIs DEF Wrote, Still
<1> QED
  BY <1>3, <1>4, <1>5 DEF vars

\* A commit that leaves an older report has the artifacts that were promised.
LEMMA NextCommits ==
  Earlier /\ Kept /\ [Next]_vars => CommitsWhole'
<1> SUFFICES ASSUME Earlier, Kept, [Next]_vars
             PROVE  CommitsWhole'
  OBVIOUS
<1>1. {"generate", "run", "state", "traces", "results", "report",
       "manifest"} \subseteq Files
  BY DEF Files, Watched, Artifacts
<1>2. Typed /\ Dated /\ Staged /\ CommitsWhole /\ WorkWhole
  BY DEF Earlier, Kept
<1>3. Extends(history, history')
  BY <1>2, HistoryExtends
<1>4. \A c \in 1..HEAD : history[c] \in Trees /\ IsTree(history[c])
  BY <1>2, TreesAre
<1>5. ASSUME NEW c \in 1..HEAD, NEW s \in history[c]["state"],
             history[c]["report"] # {}, ~Whole(s), s.class # "candidate"
      PROVE  TreePromised(history', history[c])
  <2>1. TreePromised(history, history[c])
    BY <1>2, <1>5 DEF CommitsWhole
  <2> QED
    BY <1>2, <1>3, <1>4, <2>1, TreeStays
<1>6. ASSUME history' = history
      PROVE  CommitsWhole'
  <2>1. HEAD' = HEAD
    BY <1>6 DEF HEAD
  <2> QED
    BY <1>5, <1>6, <2>1 DEF CommitsWhole
<1>7. ASSUME Commit
      PROVE  CommitsWhole'
  <2> DEFINE tree == history'[HEAD']
  <2>1. /\ CommitOf(tree) /\ HEAD' = HEAD + 1
        /\ \A c \in 1..HEAD : history'[c] = history[c]
    BY <1>2, <1>7, CommitMoves
  <2> HIDE DEF tree
  <2>2. ASSUME NEW s \in tree["state"], tree["report"] # {}, ~Whole(s),
               s.class # "candidate"
        PROVE  TreePromised(history', tree)
    <3>1. /\ tree["manifest"] = work["manifest"]
          /\ tree["state"] = work["state"]
      BY <1>1, <2>1 DEF CommitOf
    <3>2. /\ work["run"] # {} /\ tree["traces"] = work["traces"]
          /\ tree["results"] = work["results"]
      <4>1. CASE tree = work
        <5>1. StagedTree(work)
          BY <1>2, TreesAre DEF Staged
        <5> QED
          BY <2>2, <4>1, <5>1 DEF StagedTree
      <4>2. CASE tree # work
        <5>1. /\ tree["report"] = history[HEAD]["report"]
              /\ tree["traces"] = history[HEAD]["traces"]
              /\ tree["results"] = history[HEAD]["results"]
          BY <1>1, <2>1, <4>2 DEF CommitOf
        <5>2. work["generate"] # {}
          BY <1>2, <2>2, <3>1 DEF WorkWhole
        <5>3. work["state"] = {s}
          BY <1>2, <2>2, <3>1, TreesAre, StateIs
        <5>4. Partial(work)
          BY <2>2, <5>3 DEF Partial
        <5>5. Linked
          BY <1>2, <5>2, <5>4 DEF WorkWhole
        <5> QED
          BY <2>2, <5>1, <5>5 DEF Linked
      <4> QED
        BY <4>1, <4>2
    <3>3. TreePromised(history, work) /\ work \in Trees
      BY <1>2, <3>2, TreesAre DEF WorkWhole
    <3> QED
      BY <1>2, <1>3, <3>1, <3>2, <3>3, TreeStays
  <2>3. HEAD \in Nat
    BY <1>2, TreesAre
  <2>4. \A c \in 1..HEAD' : c \in 1..HEAD \/ history'[c] = tree
    BY <2>1, <2>3 DEF tree
  <2>5. \A c \in 1..HEAD' : \A s \in history'[c]["state"] :
          (history'[c]["report"] # {} /\ ~Whole(s) /\ s.class # "candidate")
            => TreePromised(history', history'[c])
    <3> SUFFICES ASSUME NEW c \in 1..HEAD', NEW s \in history'[c]["state"],
                        history'[c]["report"] # {}, ~Whole(s),
                        s.class # "candidate"
                 PROVE  TreePromised(history', history'[c])
      OBVIOUS
    <3>1. CASE c \in 1..HEAD
      BY <1>5, <2>1, <3>1
    <3>2. CASE history'[c] = tree
      BY <2>2, <3>2
    <3> QED
      BY <2>4, <3>1, <3>2
  <2> QED
    BY <2>5 DEF CommitsWhole
<1>8. Next => history' = history \/ Commit
  BY <1>2, FreezeMoves, FreezeStateMoves, BeginMoves, GenerateTracesMoves,
     GenerateRecordMoves, GenerateStateMoves, RunResultsMoves, RunRecordMoves,
     RunStateMoves, ReportRecordMoves, ReportStateMoves, KilledMoves,
     EditCodeMoves, EditManifestMoves, EditArtifactsMoves, StartOverMoves,
     UnpackMoves, AttestMoves, PipelineMoves, NextIs DEF Wrote, Still
<1> QED
  BY <1>6, <1>7, <1>8 DEF vars

\* The files of the work tree that WorkWhole looks at.
Seen == {"manifest", "state", "traces", "results", "generate", "run"}

\* A step that leaves them, and the history, keeps the work tree whole.
LEMMA WorkStays ==
  ASSUME WorkWhole, history' = history, \A f \in Seen : work'[f] = work[f]
  PROVE  WorkWhole'
<1>1. /\ work'["manifest"] = work["manifest"] /\ work'["state"] = work["state"]
      /\ work'["traces"] = work["traces"] /\ work'["results"] = work["results"]
      /\ work'["generate"] = work["generate"] /\ work'["run"] = work["run"]
  BY DEF Seen
<1>2. /\ TreePromised(history', work') <=> TreePromised(history, work)
      /\ Partial(work') <=> Partial(work)
      /\ Linked' <=> Linked
      /\ SeedTraces(work') <=> SeedTraces(work)
  BY <1>1 DEF TreePromised, Partial, Linked, SeedTraces, HEAD
<1> QED
  BY <1>1, <1>2 DEF WorkWhole

\* freeze keeps it whole: there is nothing yet, or it is pinned.
LEMMA WorkFreezes ==
  ASSUME Earlier, Kept, (\E d \in Drafts : Freeze(d)) \/ FreezeState
  PROVE  WorkWhole'
<1>1. Typed /\ Staged /\ WorkWhole /\ CommandKept
  BY DEF Earlier, Kept
<1>2. {"generate", "run", "state", "traces", "results", "manifest"} \subseteq Files
      /\ {"generate", "run", "traces", "results"} \subseteq Artifacts
  BY DEF Files, Watched, Artifacts
<1>3. ASSUME NEW d \in Drafts, Freeze(d)
      PROVE  WorkWhole'
  <2>1. PICK body :
          /\ body.pins = IF BindExisting
                         THEN {<<work["traces"], work["results"]>>} ELSE {}
          /\ Wrote("manifest", {[body |-> body, digest |-> body]})
    BY <1>1, <1>3, FreezeMoves
  <2>2. IF BindExisting THEN TRUE ELSE work["run"] = {} /\ work["generate"] = {}
    BY <1>1, <1>2, <1>3, FreezeMoves DEF MayFreeze
  <2>3. /\ work'["manifest"] = {[body |-> body, digest |-> body]}
        /\ work'["state"] = work["state"]
        /\ work'["traces"] = work["traces"] /\ work'["results"] = work["results"]
        /\ work'["generate"] = work["generate"] /\ work'["run"] = work["run"]
        /\ history' = history
    BY <1>2, <2>1 DEF Wrote
  <2>4. BindExisting => TreePromised(history', work')
    BY <2>1, <2>3 DEF TreePromised, PromisedIn
  <2>5. (Partial(work') <=> Partial(work)) /\ (Linked' <=> Linked)
    BY <2>3 DEF Partial, Linked, HEAD
  <2> QED
    BY <1>1, <2>2, <2>3, <2>4, <2>5 DEF WorkWhole
<1>4. ASSUME FreezeState
      PROVE  WorkWhole'
  <2>1. PICK s : /\ s.class = "candidate" /\ s.digest = command.body
                 /\ s.traces = IF BindExisting THEN work["traces"] ELSE {}
                 /\ s.results = IF BindExisting THEN work["results"] ELSE {}
                 /\ Wrote("state", {s})
    BY <1>1, <1>4, FreezeStateMoves
  <2>2. /\ work["manifest"] # {}
        /\ \A m \in work["manifest"] : command.body = {m.digest}
        /\ IF BindExisting THEN work["traces"] # {} /\ work["results"] # {}
           ELSE work["generate"] = {}
    BY <1>1, <1>4, FreezeStateMoves DEF CommandKept
  <2>3. /\ work'["manifest"] = work["manifest"] /\ work'["state"] = {s}
        /\ work'["traces"] = work["traces"] /\ work'["results"] = work["results"]
        /\ work'["generate"] = work["generate"] /\ work'["run"] = work["run"]
        /\ history' = history
    BY <1>2, <2>1 DEF Wrote
  <2>4. BindExisting => ~Partial(work')
    BY <2>1, <2>2, <2>3 DEF Partial, Whole
  <2>5. TreePromised(history', work') <=> TreePromised(history, work)
    BY <2>3 DEF TreePromised
  <2> QED
    BY <1>1, <2>1, <2>2, <2>3, <2>4, <2>5 DEF WorkWhole
<1> QED
  BY <1>3, <1>4

\* generate keeps it whole: it found no record of its own, so no run and no
\* report, and none in the last commit.
LEMMA WorkGenerates ==
  ASSUME Earlier, Kept, GenerateTraces \/ GenerateRecord \/ GenerateState
  PROVE  WorkWhole'
<1>1. Typed /\ Unrecorded /\ Staged /\ Dated /\ WorkWhole /\ CommandKept
  BY DEF Earlier, Kept
<1>2. {"generate", "run", "state", "traces", "results", "manifest"} \subseteq Files
  BY DEF Files, Watched, Artifacts
<1>3. command.phase = "generate" /\ history' = history
  BY <1>1, GenerateTracesMoves, GenerateRecordMoves, GenerateStateMoves
     DEF Goes, Ends, Wrote, Still
<1>4. history[HEAD]["report"] = {} /\ work["run"] = {} /\ HEAD' = HEAD
  BY <1>1, <1>3 DEF CommandKept, HEAD
<1>5. Linked'
  BY <1>3, <1>4 DEF Linked
<1>6. ASSUME GenerateTraces
      PROVE  WorkWhole'
  <2>1. /\ Goes("generate", 1)
        /\ IF BindExisting THEN Still ELSE Wrote("traces", TracesOf(work))
    BY <1>1, <1>6, GenerateTracesMoves
  <2>2. work["generate"] = {}
    BY <1>1, <2>1 DEF Goes, Unrecorded
  <2>3. /\ work'["generate"] = {} /\ work'["run"] = {}
        /\ work'["state"] = work["state"]
    BY <1>2, <1>4, <2>1, <2>2 DEF Wrote, Still
  <2> QED
    BY <1>1, <1>4, <2>2, <2>3 DEF WorkWhole
<1>7. ASSUME GenerateRecord
      PROVE  WorkWhole'
  <2>1. Goes("generate", 2) /\ \E x : Wrote("generate", {x})
    BY <1>1, <1>7, GenerateRecordMoves
  <2>2. ~BindExisting => SeedTraces(work)
    BY <1>1, <2>1 DEF Goes, CommandKept
  <2>3. /\ work'["manifest"] = work["manifest"] /\ work'["state"] = work["state"]
        /\ work'["traces"] = work["traces"] /\ work'["generate"] # {}
        /\ work'["run"] = {}
    BY <1>2, <1>4, <2>1 DEF Wrote
  <2>4. ~BindExisting => SeedTraces(work')
    BY <2>2, <2>3 DEF SeedTraces
  <2> QED
    BY <1>1, <1>4, <1>5, <2>3, <2>4 DEF WorkWhole
<1>8. ASSUME GenerateState
      PROVE  WorkWhole'
  <2>1. Ends("generate", 3)
    BY <1>1, <1>8, GenerateStateMoves
  <2>2. PICK s : /\ ~BindExisting => s.results = State(work).results
                 /\ Wrote("state", {s})
    BY <1>1, <1>8, GenerateStateMoves
  <2>3. work["generate"] # {} /\ (~BindExisting => SeedTraces(work))
    BY <1>1, <2>1 DEF Ends, CommandKept
  <2>4. ~BindExisting => State(work).results = {}
    <3>1. CASE work["state"] = {}
      BY <1>1, <3>1, TreesAre, StateIs DEF NoState
    <3>2. CASE work["state"] # {}
      <4>1. State(work) \in work["state"]
        BY <1>1, <3>2, TreesAre, StateIs
      <4> QED
        BY <1>1, <1>4, <4>1 DEF WorkWhole
    <3> QED
      BY <3>1, <3>2
  <2>5. /\ work'["manifest"] = work["manifest"] /\ work'["state"] = {s}
        /\ work'["traces"] = work["traces"]
        /\ work'["generate"] = work["generate"] /\ work'["run"] = {}
    BY <1>2, <1>4, <2>2 DEF Wrote
  <2>6. ~BindExisting => SeedTraces(work')
    BY <2>3, <2>5 DEF SeedTraces
  <2> QED
    BY <1>5, <2>2, <2>3, <2>4, <2>5, <2>6 DEF WorkWhole
<1> QED
  BY <1>6, <1>7, <1>8

\* run keeps it whole: its results are of the seeds' traces by the frozen code.
LEMMA WorkRuns ==
  ASSUME Earlier, Kept, RunResults \/ RunRecord \/ RunState
  PROVE  WorkWhole'
<1>1. Typed /\ Dated /\ Unrecorded /\ Staged /\ WorkWhole /\ CommandKept
  BY DEF Earlier, Kept
<1>2. {"generate", "run", "state", "traces", "results", "manifest"} \subseteq Files
  BY DEF Files, Watched, Artifacts
<1>3. command.phase = "run" /\ history' = history
  BY <1>1, RunResultsMoves, RunRecordMoves, RunStateMoves
     DEF Goes, Ends, Wrote, Still
<1>4. work["generate"] # {} /\ HEAD' = HEAD
  BY <1>1, <1>3 DEF Staged, HEAD
<1>5. ASSUME RunResults
      PROVE  WorkWhole'
  <2>1. /\ Goes("run", 1)
        /\ IF BindExisting THEN Still
           ELSE Wrote("results", {Results(command.code, work["traces"])})
    BY <1>1, <1>5, RunResultsMoves
  <2>2. work["run"] = {}
    BY <1>1, <2>1 DEF Goes, Unrecorded
  <2>3. /\ work'["manifest"] = work["manifest"] /\ work'["state"] = work["state"]
        /\ work'["traces"] = work["traces"] /\ work'["run"] = {}
        /\ work'["generate"] = work["generate"]
    BY <1>2, <2>1, <2>2 DEF Wrote, Still
  <2>4. Partial(work') => Linked'
    <3>1. Partial(work') <=> Partial(work)
      BY <2>3 DEF Partial
    <3>2. Partial(work) => history[HEAD]["report"] = {}
      BY <1>1, <1>4, <2>2 DEF WorkWhole, Linked
    <3> QED
      BY <1>3, <1>4, <3>1, <3>2 DEF Linked
  <2>5. SeedTraces(work') <=> SeedTraces(work)
    BY <2>3 DEF SeedTraces
  <2> QED
    BY <1>1, <1>4, <2>2, <2>3, <2>4, <2>5 DEF WorkWhole
<1>6. ASSUME RunRecord
      PROVE  WorkWhole'
  <2>1. Goes("run", 2) /\ \E x : Wrote("run", {x})
    BY <1>1, <1>6, RunRecordMoves
  <2>2. TreePromised(history, work)
    BY <1>1, <2>1 DEF Goes, CommandKept
  <2>3. /\ work'["manifest"] = work["manifest"] /\ work'["state"] = work["state"]
        /\ work'["traces"] = work["traces"] /\ work'["run"] # {}
        /\ work'["generate"] = work["generate"]
        /\ work'["results"] = work["results"]
    BY <1>2, <2>1 DEF Wrote
  <2>4. TreePromised(history', work')
    BY <1>3, <2>2, <2>3 DEF TreePromised
  <2>5. Partial(work') => Linked'
    <3>1. Partial(work') => Linked
      BY <1>1, <1>4, <2>3 DEF WorkWhole, Partial
    <3> QED
      BY <1>3, <1>4, <2>3, <3>1 DEF Linked
  <2>6. SeedTraces(work') <=> SeedTraces(work)
    BY <2>3 DEF SeedTraces
  <2> QED
    BY <1>1, <1>4, <2>3, <2>4, <2>5, <2>6 DEF WorkWhole
<1>7. ASSUME RunState
      PROVE  WorkWhole'
  <2>1. Ends("run", 3)
    BY <1>1, <1>7, RunStateMoves
  <2>2. PICK s : /\ s.digest = State(work).digest
                 /\ s.traces = State(work).traces
                 /\ s.results = work["results"]
                 /\ Wrote("state", {s})
    BY <1>1, <1>7, RunStateMoves
  <2>3. /\ TreePromised(history, work) /\ work["run"] # {}
        /\ work["results"] # {}
    BY <1>1, <2>1 DEF Ends, CommandKept, Staged
  <2>4. /\ work'["manifest"] = work["manifest"] /\ work'["state"] = {s}
        /\ work'["traces"] = work["traces"] /\ work'["run"] = work["run"]
        /\ work'["generate"] = work["generate"]
        /\ work'["results"] = work["results"]
    BY <1>2, <2>2 DEF Wrote
  <2>5. TreePromised(history', work')
    BY <1>3, <2>3, <2>4 DEF TreePromised
  <2>6. Partial(work') => Linked'
    <3>1. ASSUME ~Partial(work)
          PROVE  ~Partial(work')
      <4>1. PICK x \in work["state"] : Whole(x)
        BY <3>1 DEF Partial
      <4>2. State(work) = x
        BY <1>1, TreesAre, StateIs
      <4> QED
        BY <2>2, <2>3, <2>4, <4>1, <4>2 DEF Partial, Whole
    <3>2. Partial(work) => Linked
      BY <1>1, <1>4 DEF WorkWhole
    <3> QED
      BY <1>3, <1>4, <2>4, <3>1, <3>2 DEF Linked
  <2>7. SeedTraces(work') <=> SeedTraces(work)
    BY <2>4 DEF SeedTraces
  <2> QED
    BY <1>1, <1>4, <2>3, <2>4, <2>5, <2>6, <2>7 DEF WorkWhole
<1> QED
  BY <1>5, <1>6, <1>7

\* report keeps it whole: its state is.
LEMMA WorkReports ==
  ASSUME Earlier, Kept, ReportState
  PROVE  WorkWhole'
<1>1. Typed /\ Staged /\ WorkWhole
  BY DEF Earlier, Kept
<1>2. {"generate", "run", "state", "traces", "results", "manifest"} \subseteq Files
  BY DEF Files, Watched, Artifacts
<1>3. PICK s : /\ s.digest = {Body} /\ s.traces = work["traces"]
               /\ s.results = work["results"] /\ Wrote("state", {s})
  BY <1>1, ReportStateMoves
<1>4. /\ work["run"] # {} /\ work["generate"] # {} /\ work["results"] # {}
      /\ work["traces"] # {}
  <2>1. command.phase = "report"
    BY <1>1, ReportStateMoves DEF Ends
  <2>2. StagedTree(work)
    BY <1>1, TreesAre DEF Staged
  <2> QED
    BY <1>1, <2>1, <2>2 DEF Staged, StagedTree
<1>5. /\ work'["manifest"] = work["manifest"] /\ work'["state"] = {s}
      /\ work'["traces"] = work["traces"] /\ work'["run"] = work["run"]
      /\ work'["generate"] = work["generate"]
      /\ work'["results"] = work["results"] /\ history' = history
  BY <1>2, <1>3 DEF Wrote
<1>6. ~Partial(work')
  BY <1>3, <1>4, <1>5 DEF Partial, Whole
<1>7. /\ TreePromised(history', work') <=> TreePromised(history, work)
      /\ SeedTraces(work') <=> SeedTraces(work)
  BY <1>5 DEF TreePromised, SeedTraces
<1> QED
  BY <1>1, <1>4, <1>5, <1>6, <1>7 DEF WorkWhole

\* The developer keeps it whole: a manifest keeps its digest, bound artifacts
\* are published anew before they have run, the rest goes or comes together.
LEMMA WorkEdits ==
  ASSUME Editable = {}, Earlier, Kept,
         EditManifest \/ EditArtifacts \/ StartOver \/ Unpack \/ Commit
  PROVE  WorkWhole'
<1>1. Typed /\ Dated /\ Staged /\ WorkWhole /\ ArchivesWhole
  BY DEF Earlier, Kept
<1>2. /\ {"generate", "run", "state", "traces", "results", "manifest", "report"}
           \subseteq Files
      /\ {"generate", "run", "traces", "results"} \subseteq Artifacts
  BY DEF Files, Watched, Artifacts
<1>3. ASSUME EditManifest
      PROVE  WorkWhole'
  <2>1. PICK m \in work["manifest"] : \E n : /\ n.digest = m.digest
                                             /\ Wrote("manifest", {n})
    BY <1>1, <1>3, EditManifestMoves
  <2>2. PICK n : n.digest = m.digest /\ Wrote("manifest", {n})
    BY <2>1
  <2>3. /\ work'["manifest"] = {n} /\ work'["state"] = work["state"]
        /\ work'["traces"] = work["traces"] /\ work'["run"] = work["run"]
        /\ work'["generate"] = work["generate"]
        /\ work'["results"] = work["results"] /\ history' = history
    BY <1>2, <2>2 DEF Wrote
  <2>4. /\ TreePromised(history, work) => TreePromised(history', work')
        /\ SeedTraces(work) => SeedTraces(work')
        /\ Partial(work') <=> Partial(work)
        /\ Linked' <=> Linked
    BY <2>2, <2>3 DEF TreePromised, SeedTraces, Partial, Linked, HEAD
  <2> QED
    BY <1>1, <2>3, <2>4 DEF WorkWhole
<1>4. ASSUME EditArtifacts
      PROVE  WorkWhole'
  <2>1. /\ BindExisting /\ work["run"] = {}
        /\ \E f \in {"traces", "results"} : \E S : Wrote(f, S)
    BY <1>1, <1>4, EditArtifactsMoves
  <2>2. /\ work'["state"] = work["state"] /\ work'["run"] = {}
        /\ work'["generate"] = work["generate"] /\ history' = history
    BY <1>2, <2>1 DEF Wrote
  <2>3. work["generate"] # {} /\ Partial(work) => history[HEAD]["report"] = {}
    BY <1>1, <2>1 DEF WorkWhole, Linked
  <2>4. work'["generate"] # {} /\ Partial(work') => Linked'
    BY <2>2, <2>3 DEF Partial, Linked, HEAD
  <2> QED
    BY <1>1, <2>1, <2>2, <2>4 DEF WorkWhole
<1>5. ASSUME StartOver
      PROVE  WorkWhole'
  <2>1. work'["generate"] = {} /\ work'["run"] = {} /\ work'["state"] = {}
    BY <1>1, <1>2, <1>5, StartOverMoves
  <2> QED
    BY <2>1 DEF WorkWhole
<1>6. ASSUME Unpack
      PROVE  WorkWhole'
  <2>1. PICK pack \in archive :
          \A f \in Files \ {"implementation", "lock"} : work'[f] = pack[f]
    BY <1>1, <1>6, UnpackMoves
  <2>2. /\ work'["manifest"] = pack["manifest"]
        /\ work'["state"] = pack["state"]
        /\ work'["traces"] = pack["traces"] /\ work'["run"] = pack["run"]
        /\ work'["generate"] = pack["generate"]
        /\ work'["results"] = pack["results"] /\ history' = history
    BY <1>1, <1>2, <1>6, <2>1, UnpackMoves
  <2>3. /\ \E s \in pack["state"] : Whole(s)
        /\ pack["generate"] # {} /\ pack["run"] # {}
        /\ TreePromised(history, pack) /\ pack \in Trees
    BY <1>1, TreesAre DEF ArchivesWhole
  <2>4. ~Partial(work') /\ TreePromised(history', work')
    BY <2>2, <2>3 DEF Partial, TreePromised
  <2>5. ~BindExisting => SeedTraces(work')
    <3> SUFFICES ASSUME ~BindExisting, NEW m \in pack["manifest"]
                 PROVE  pack["traces"] = {Traces("generated", m.digest.draft)}
      BY <2>2 DEF SeedTraces
    <3>1. m.digest.pins = {}
      BY <1>1, <2>3, ManifestOf
    <3> QED
      BY <2>3, <3>1 DEF TreePromised, PromisedIn
  <2> QED
    BY <2>2, <2>3, <2>4, <2>5 DEF WorkWhole
<1>7. ASSUME Commit
      PROVE  WorkWhole'
  <2> DEFINE tree == history'[HEAD']
  <2>1. CommitOf(tree) /\ work' = work /\ Extends(history, history')
    BY <1>1, <1>7, CommitMoves
  <2>2. TreePromised(history, work) => TreePromised(history', work)
    BY <1>1, <2>1, TreesAre, TreeStays
  <2>3. ASSUME work["generate"] # {}, Partial(work)
        PROVE  Linked'
    <3>1. Linked
      BY <1>1, <2>3 DEF WorkWhole
    <3>2. CASE tree = work
      <4>1. StagedTree(work)
        BY <1>1, TreesAre DEF Staged
      <4> QED
        BY <2>1, <3>2, <4>1 DEF Linked, StagedTree
    <3>3. CASE tree # work
      <4>1. /\ tree["report"] = history[HEAD]["report"]
            /\ tree["traces"] = history[HEAD]["traces"]
            /\ tree["results"] = history[HEAD]["results"]
        BY <1>2, <2>1, <3>3 DEF CommitOf
      <4> QED
        BY <2>1, <3>1, <4>1 DEF Linked
    <3> QED
      BY <3>2, <3>3
  <2> QED
    BY <1>1, <2>1, <2>2, <2>3 DEF WorkWhole
<1> QED
  BY <1>3, <1>4, <1>5, <1>6, <1>7

\* Every step keeps the work tree whole.
LEMMA NextWork ==
  Editable = {} /\ Earlier /\ Kept /\ [Next]_vars => WorkWhole'
<1> SUFFICES ASSUME Editable = {}, Earlier, Kept, [Next]_vars
             PROVE  WorkWhole'
  OBVIOUS
<1>1. Typed /\ WorkWhole
  BY DEF Earlier, Kept
<1>2. Seen \subseteq Files \ {"report", "implementation", "lock"}
  BY DEF Seen, Files, Watched, Artifacts
<1>3. ASSUME work' = work, history' = history
      PROVE  WorkWhole'
  BY <1>1, <1>3, WorkStays
<1>4. ASSUME NEW f \in {"report", "implementation", "lock"}, NEW S, Wrote(f, S)
      PROVE  WorkWhole'
  <2>1. history' = history /\ \A e \in Seen : work'[e] = work[e]
    BY <1>2, <1>4 DEF Wrote
  <2> QED
    BY <1>1, <2>1, WorkStays
<1>5. ASSUME Next
      PROVE  WorkWhole'
  <2>1. CASE (\E d \in Drafts : Freeze(d)) \/ FreezeState
    BY <2>1, WorkFreezes
  <2>2. CASE GenerateTraces \/ GenerateRecord \/ GenerateState
    BY <2>2, WorkGenerates
  <2>3. CASE RunResults \/ RunRecord \/ RunState
    BY <2>3, WorkRuns
  <2>4. CASE ReportState
    BY <2>4, WorkReports
  <2>5. CASE EditManifest \/ EditArtifacts \/ StartOver \/ Unpack \/ Commit
    BY <2>5, WorkEdits
  <2>6. CASE ReportRecord \/ EditCode
    <3>1. \E f \in {"report", "implementation", "lock"} : \E S : Wrote(f, S)
      BY <1>1, <2>6, ReportRecordMoves, EditCodeMoves
    <3> QED
      BY <1>4, <3>1
  <2>7. CASE Beginning \/ Killed \/ Attest \/ Pipeline
    <3>1. work' = work /\ history' = history
      BY <1>1, <2>7, BeginMoves, KilledMoves, AttestMoves, PipelineMoves DEF Still
    <3> QED
      BY <1>3, <3>1
  <2> QED
    BY <1>5, <2>1, <2>2, <2>3, <2>4, <2>5, <2>6, <2>7, NextIs
<1>6. CASE UNCHANGED vars
  BY <1>3, <1>6 DEF vars
<1> QED
  BY <1>5, <1>6

\* A step beside a running command leaves what it rests on.
LEMMA CommandKeptStays ==
  ASSUME CommandKept, command' = command, history' = history,
         \A f \in Seen : work'[f] = work[f]
  PROVE  CommandKept'
<1>1. /\ work'["manifest"] = work["manifest"]
      /\ work'["traces"] = work["traces"] /\ work'["results"] = work["results"]
      /\ work'["generate"] = work["generate"] /\ work'["run"] = work["run"]
  BY DEF Seen
<1>2. /\ TreePromised(history', work') <=> TreePromised(history, work)
      /\ SeedTraces(work') <=> SeedTraces(work)
      /\ HEAD' = HEAD
  BY <1>1 DEF TreePromised, SeedTraces, HEAD
<1> QED
  BY <1>1, <1>2 DEF CommandKept

\* A phase begins on what it checked.
LEMMA BeginKept ==
  ASSUME Earlier, Kept, Beginning
  PROVE  CommandKept'
<1>1. Typed /\ Staged /\ WorkWhole
  BY DEF Earlier, Kept
<1>2. /\ Still /\ command'.phase \in {"generate", "run", "report"}
      /\ command'.step = 1 /\ Complete(work, command'.phase)
      /\ command'.phase = "generate" => MayGenerate(work)
      /\ command'.phase = "run" => MayRun(work)
  BY <1>1, BeginMoves
<1>3. work' = work /\ history' = history /\ HEAD' = HEAD
  BY <1>2 DEF Still, HEAD
<1>4. ASSUME BindExisting, PinsMatch(work)
      PROVE  TreePromised(history, work)
  <2>1. PICK m \in work["manifest"] :
          m.digest = Frozen(work) /\ work["manifest"] = {m}
    BY <1>1, <1>2, TreesAre, CompleteMeans
  <2>2. Frozen(work).pins = {<<work["traces"], work["results"]>>}
    BY <1>4 DEF PinsMatch
  <2> QED
    BY <2>1, <2>2 DEF TreePromised, PromisedIn
<1>5. ASSUME command'.phase = "generate"
      PROVE  /\ history[HEAD]["report"] = {} /\ work["run"] = {}
             /\ BindExisting => TreePromised(history, work)
  <2>1. MayGenerate(work) /\ Complete(work, "generate")
    BY <1>2, <1>5 DEF MayGenerate
  <2>2. work["generate"] = {} /\ (BindExisting => PinsMatch(work))
    BY <2>1 DEF MayGenerate
  <2>3. work["run"] = {} /\ work["report"] = {}
    <3>1. StagedTree(work)
      BY <1>1, TreesAre DEF Staged
    <3> QED
      BY <2>2, <3>1 DEF StagedTree
  <2>4. Dirty(work, "generate") = {}
    BY <1>1, <2>1, TreesAre, CompleteMeans
  <2>5. "report" \in Watched
    BY DEF Watched, Artifacts
  <2>6. work["report"] = history[HEAD]["report"]
    BY <2>4, <2>5 DEF Dirty, AllowedUntracked
  <2> QED
    BY <1>4, <2>2, <2>3, <2>6
<1>6. ASSUME command'.phase = "run", BindExisting
      PROVE  TreePromised(history, work)
  BY <1>2, <1>4, <1>6 DEF MayRun
<1> QED
  BY <1>2, <1>3, <1>5, <1>6 DEF CommandKept

\* Every step keeps what the running command rests on.
LEMMA NextCommandKept ==
  Earlier /\ Kept /\ [Next]_vars => CommandKept'
<1> SUFFICES ASSUME Earlier, Kept, [Next]_vars
             PROVE  CommandKept'
  OBVIOUS
<1>1. Typed /\ Dated /\ Founded /\ Staged /\ WorkWhole /\ CommandKept
  BY DEF Earlier, Kept
<1>2. /\ {"generate", "run", "state", "traces", "results", "manifest", "report",
          "implementation", "lock"} \subseteq Files
      /\ {"generate", "run", "traces", "results"} \subseteq Artifacts
      /\ Seen \subseteq Files \ {"report", "implementation", "lock"}
  BY DEF Seen, Files, Watched, Artifacts
<1>3. command' = Idle => CommandKept'
  BY DEF Idle, CommandKept
<1>4. ASSUME command' = command, work' = work, history' = history
      PROVE  CommandKept'
  BY <1>1, <1>4, CommandKeptStays
<1>5. ASSUME Next
      PROVE  CommandKept'
  <2>1. CASE \E d \in Drafts : Freeze(d)
    <3>1. /\ command'.phase = "freeze" /\ MayFreeze
          /\ \E body :
               /\ body.pins = IF BindExisting
                              THEN {<<work["traces"], work["results"]>>} ELSE {}
               /\ Wrote("manifest", {[body |-> body, digest |-> body]})
               /\ command'.body = {body}
      BY <1>1, <2>1, FreezeMoves
    <3>2. PICK body :
            /\ body.pins = IF BindExisting
                           THEN {<<work["traces"], work["results"]>>} ELSE {}
            /\ Wrote("manifest", {[body |-> body, digest |-> body]})
            /\ command'.body = {body}
      BY <3>1
    <3>3. /\ work'["manifest"] = {[body |-> body, digest |-> body]}
          /\ work'["traces"] = work["traces"]
          /\ work'["results"] = work["results"]
          /\ work'["generate"] = work["generate"]
      BY <1>2, <3>2 DEF Wrote
    <3>4. IF BindExisting THEN work["traces"] # {} /\ work["results"] # {}
          ELSE work["generate"] = {}
      BY <1>2, <3>1 DEF MayFreeze, BoundExists
    <3>5. BindExisting => TreePromised(history', work')
      BY <3>2, <3>3 DEF TreePromised, PromisedIn
    <3>6. /\ work'["manifest"] # {}
          /\ \A m \in work'["manifest"] : command'.body = {m.digest}
      BY <3>2, <3>3
    <3> QED
      BY <3>1, <3>3, <3>4, <3>5, <3>6 DEF CommandKept
  <2>2. CASE FreezeState \/ GenerateState \/ RunState \/ ReportState \/ Killed
    BY <1>1, <1>3, <2>2, FreezeStateMoves, GenerateStateMoves, RunStateMoves,
       ReportStateMoves, KilledMoves DEF Ends
  <2>3. CASE Beginning
    BY <2>3, BeginKept
  <2>4. CASE GenerateTraces
    <3>1. /\ Goes("generate", 1)
          /\ IF BindExisting THEN Still ELSE Wrote("traces", TracesOf(work))
      BY <1>1, <2>4, GenerateTracesMoves
    <3>2. /\ command'.phase = "generate" /\ command'.step = 2
          /\ history' = history /\ HEAD' = HEAD
      BY <3>1 DEF Goes, Wrote, Still, HEAD
    <3>3. /\ history[HEAD]["report"] = {} /\ work["run"] = {}
          /\ BindExisting => TreePromised(history, work)
      BY <1>1, <3>1 DEF Goes, CommandKept
    <3>4. work'["run"] = work["run"] /\ (BindExisting => work' = work)
      BY <1>2, <3>1 DEF Wrote, Still
    <3>5. ~BindExisting => SeedTraces(work')
      <4> SUFFICES ASSUME ~BindExisting
                   PROVE  SeedTraces(work')
        OBVIOUS
      <4>1. /\ work'["traces"] = TracesOf(work)
            /\ work'["manifest"] = work["manifest"]
        BY <1>2, <3>1 DEF Wrote
      <4>2. \A m \in work["manifest"] : m.digest = Body /\ m.body = Body
        BY <1>1, <3>1, CheckedManifest DEF Goes, Checked
      <4>3. ASSUME NEW m \in work["manifest"]
            PROVE  TracesOf(work) = {Traces("generated", m.digest.draft)}
        BY <4>2, <4>3 DEF TracesOf
      <4> QED
        BY <4>1, <4>3 DEF SeedTraces
    <3> QED
      BY <3>2, <3>3, <3>4, <3>5 DEF CommandKept
  <2>5. CASE GenerateRecord
    <3>1. Goes("generate", 2) /\ \E x : Wrote("generate", {x})
      BY <1>1, <2>5, GenerateRecordMoves
    <3>2. /\ command'.phase = "generate" /\ command'.step = 3
          /\ history' = history /\ HEAD' = HEAD
      BY <3>1 DEF Goes, Wrote, HEAD
    <3>3. /\ history[HEAD]["report"] = {} /\ work["run"] = {}
          /\ BindExisting => TreePromised(history, work)
          /\ ~BindExisting => SeedTraces(work)
      BY <1>1, <3>1 DEF Goes, CommandKept
    <3>4. /\ work'["run"] = work["run"] /\ work'["generate"] # {}
          /\ work'["manifest"] = work["manifest"]
          /\ work'["traces"] = work["traces"] /\ work'["results"] = work["results"]
      BY <1>2, <3>1 DEF Wrote
    <3>5. /\ TreePromised(history', work') <=> TreePromised(history, work)
          /\ SeedTraces(work') <=> SeedTraces(work)
      BY <3>2, <3>4 DEF TreePromised, SeedTraces
    <3> QED
      BY <3>2, <3>3, <3>4, <3>5 DEF CommandKept
  <2>6. CASE RunResults
    <3>1. /\ Goes("run", 1)
          /\ IF BindExisting THEN Still
             ELSE Wrote("results", {Results(command.code, work["traces"])})
      BY <1>1, <2>6, RunResultsMoves
    <3>2. command'.phase = "run" /\ command'.step = 2 /\ history' = history
      BY <3>1 DEF Goes, Wrote, Still
    <3>3. TreePromised(history', work')
      <4>1. CASE BindExisting
        BY <1>1, <3>1, <3>2, <4>1 DEF Goes, CommandKept, Still
      <4>2. CASE ~BindExisting
        <5>1. /\ work'["manifest"] = work["manifest"]
              /\ work'["traces"] = work["traces"]
              /\ work'["results"] = {Results(command.code, work["traces"])}
          BY <1>2, <3>1, <4>2 DEF Wrote
        <5>2. SeedTraces(work)
          BY <1>1, <3>1, <4>2 DEF Goes, Staged, WorkWhole
        <5>3. /\ \A m \in work["manifest"] : m.digest = Body
              /\ (Body.pins = {}) <=> ~BindExisting
          BY <1>1, <3>1, CheckedManifest DEF Goes, Checked
        <5>4. command.code = history[Body.head]["implementation"]
          BY <1>1, <3>1 DEF Goes, Checked, Founded, CommandFounded
        <5>5. SeedTraces(work')
          BY <5>1, <5>2 DEF SeedTraces
        <5> QED
          BY <3>2, <4>2, <5>1, <5>3, <5>4, <5>5, SeedsArePromised
      <4> QED
        BY <4>1, <4>2
    <3> QED
      BY <3>2, <3>3 DEF CommandKept
  <2>7. CASE RunRecord
    <3>1. Goes("run", 2) /\ \E x : Wrote("run", {x})
      BY <1>1, <2>7, RunRecordMoves
    <3>2. command'.phase = "run" /\ command'.step = 3 /\ history' = history
      BY <3>1 DEF Goes, Wrote
    <3>3. TreePromised(history, work)
      BY <1>1, <3>1 DEF Goes, CommandKept
    <3>4. /\ work'["run"] # {} /\ work'["manifest"] = work["manifest"]
          /\ work'["traces"] = work["traces"] /\ work'["results"] = work["results"]
      BY <1>2, <3>1 DEF Wrote
    <3>5. TreePromised(history', work')
      BY <3>2, <3>3, <3>4 DEF TreePromised
    <3> QED
      BY <3>2, <3>4, <3>5 DEF CommandKept
  <2>8. CASE ReportRecord
    <3>1. command'.phase = "report"
      BY <1>1, <2>8, ReportRecordMoves DEF Goes
    <3> QED
      BY <3>1 DEF CommandKept
  <2>9. CASE EditCode
    <3>1. /\ command' = command
          /\ \E f \in {"implementation", "lock"} : \E S : Wrote(f, S)
      BY <1>1, <2>9, EditCodeMoves DEF Edits
    <3>2. history' = history /\ \A f \in Seen : work'[f] = work[f]
      BY <1>2, <3>1 DEF Wrote
    <3> QED
      BY <1>1, <3>1, <3>2, CommandKeptStays
  <2>10. CASE EditManifest \/ EditArtifacts \/ StartOver \/ Unpack
    BY <1>1, <1>3, <2>10, EditManifestMoves, EditArtifactsMoves, StartOverMoves,
       UnpackMoves DEF Edits
  <2>11. CASE Commit
    <3> DEFINE tree == history'[HEAD']
    <3>1. /\ command' = command /\ work' = work /\ CommitOf(tree)
          /\ Extends(history, history')
      BY <1>1, <2>11, CommitMoves DEF Edits
    <3>2. TreePromised(history, work) => TreePromised(history', work)
      BY <1>1, <3>1, TreesAre, TreeStays
    <3>3. ASSUME command.phase = "generate"
          PROVE  tree["report"] = {}
      <4>1. history[HEAD]["report"] = {} /\ work["run"] = {}
        BY <1>1, <3>3 DEF CommandKept
      <4>2. work["report"] = {}
        <5>1. StagedTree(work)
          BY <1>1, TreesAre DEF Staged
        <5> QED
          BY <4>1, <5>1 DEF StagedTree
      <4> QED
        BY <1>2, <3>1, <4>1, <4>2 DEF CommitOf
    <3> QED
      BY <1>1, <3>1, <3>2, <3>3 DEF CommandKept
  <2>12. CASE Attest \/ Pipeline
    <3>1. command' = command /\ work' = work /\ history' = history
      BY <1>1, <2>12, AttestMoves, PipelineMoves DEF Still, Edits
    <3> QED
      BY <1>4, <3>1
  <2> QED
    BY <1>5, <2>1, <2>2, <2>3, <2>4, <2>5, <2>6, <2>7, <2>8, <2>9, <2>10,
       <2>11, <2>12, NextIs
<1>6. CASE UNCHANGED vars
  BY <1>4, <1>6 DEF vars
<1> QED
  BY <1>5, <1>6

\* At the start nothing is promised.
LEMMA InitKept ==
  ASSUME Init
  PROVE  Earlier /\ Kept
<1>1. /\ Typed /\ Trees = {NewTree} /\ HEAD = 1 /\ history[1] = NewTree
      /\ Held("manifest") = {} /\ Held("state") = {}
      /\ NewTree["manifest"] = {} /\ NewTree["state"] = {}
      /\ NewTree["generate"] = {} /\ NewTree["run"] = {}
  BY InitIs, NewTreeIs DEF Files, Watched, Artifacts
<1>2. work = NewTree /\ archive = {} /\ command.phase = "idle"
  BY DEF Init, Idle
<1>3. PinnedOnce /\ Recorded /\ ArchivesWhole
  BY <1>1, <1>2 DEF PinnedOnce, Recorded, ArchivesWhole, RecordsPromised
<1>4. CommitsWhole
  BY <1>1 DEF CommitsWhole
<1>5. WorkWhole /\ CommandKept
  BY <1>1, <1>2 DEF WorkWhole, CommandKept
<1>6. Earlier
  BY <1>2, InitFounded, InitSealed DEF Earlier, Unrecorded
<1> QED
  BY <1>3, <1>4, <1>5, <1>6 DEF Kept

\* A tree that verifies with a report holds what its state records, or what was
\* promised of it.
LEMMA KeptIsWhole ==
  ASSUME Earlier, Kept
  PROVE  VerifiedIsWhole
<1> SUFFICES ASSUME NEW tree \in Trees, tree["report"] # {}, Verified(tree),
                    Claimed(tree) # "candidate"
             PROVE  Promised(Frozen(tree), tree)
  BY DEF VerifiedIsWhole
<1>1. Typed /\ Dated /\ Staged /\ Recorded /\ ArchivesWhole /\ CommitsWhole
      /\ WorkWhole
  BY DEF Earlier, Kept
<1>2. IsTree(tree) /\ StagedTree(tree)
  BY <1>1 DEF Typed, Staged
<1>3. /\ tree["run"] # {} /\ tree["traces"] # {} /\ tree["results"] # {}
  BY <1>2 DEF StagedTree
<1>4. PICK m \in tree["manifest"] : m.digest = Frozen(tree)
  BY <1>2, FrozenIs DEF Verified
<1> DEFINE s == State(tree)
<1>5. s \in tree["state"] /\ s.class # "candidate" /\ tree["state"] = {s}
  <2>1. s.class # "candidate" /\ NoState.class = "candidate"
    BY DEF Claimed, NoState
  <2>2. tree["state"] # {}
    BY <1>2, <2>1, StateIs
  <2> QED
    BY <1>2, <2>1, <2>2, StateIs
<1>6. /\ Agree(s.traces, tree["traces"]) /\ Agree(s.results, tree["results"])
      /\ Agree(s.digest, {Frozen(tree)})
  BY DEF Verified, Consistent
<1> HIDE DEF s
<1>7. PromisedIn(history, Frozen(tree), tree["traces"], tree["results"])
  <2>1. CASE Whole(s)
    <3>1. /\ s.digest = {Frozen(tree)} /\ s.traces = tree["traces"]
          /\ s.results = tree["results"]
      BY <1>3, <1>6, <2>1 DEF Agree, Whole
    <3>2. RecordsPromised(history, tree)
      BY <1>1 DEF Recorded
    <3>3. PICK traces, results :
            /\ PromisedIn(history, m.digest, traces, results)
            /\ s.traces \in {{}, traces} /\ s.results \in {{}, results}
      BY <1>4, <1>5, <3>1, <3>2 DEF RecordsPromised
    <3>4. traces = tree["traces"] /\ results = tree["results"]
      BY <1>3, <3>1, <3>3
    <3> QED
      BY <1>4, <3>3, <3>4
  <2>2. CASE ~Whole(s)
    <3>1. CASE tree \in archive
      BY <1>1, <1>5, <2>2, <3>1 DEF ArchivesWhole
    <3>2. CASE tree = work
      BY <1>1, <1>3, <1>4, <3>2 DEF WorkWhole, TreePromised
    <3>3. CASE \E c \in 1..HEAD : tree = history[c]
      BY <1>1, <1>4, <1>5, <2>2, <3>3 DEF CommitsWhole, TreePromised
    <3> QED
      BY <1>1, <3>1, <3>2, <3>3, TreesAre DEF Trees
  <2> QED
    BY <2>1, <2>2
<1> QED
  BY <1>7 DEF Promised, PromisedIn

\* Where nobody changes artifacts outside the protocol, a tree that verifies and
\* has a report holds what its manifest promises: the traces of its seeds, or
\* those it bound, and results of exactly these by the frozen implementation;
\* also when a phase was killed half way, or only the manifest and the state
\* were committed (holdout-protocol.mjs:479-663, holdout-verify.mjs:102-242).
THEOREM WholeTheorem ==
  ASSUME Editable = {}
  PROVE  Spec => []VerifiedIsWhole
<1>1. Init => Earlier /\ Kept
  BY InitKept
<1>2. Earlier /\ Kept /\ [Next]_vars => Earlier' /\ Kept'
  <2>1. Earlier /\ [Next]_vars => Earlier'
    BY NextTyped, NextDated, NextRecordsFounded, NextCommandFounded,
       NextUnrecorded, NextStaged DEF Earlier, Founded
  <2>2. Earlier /\ Kept /\ [Next]_vars => PinnedOnce'
    BY NextPinned DEF Earlier, Kept
  <2>3. Earlier /\ Kept /\ [Next]_vars => WorkWhole'
    BY NextWork
  <2> QED
    BY <2>1, <2>2, <2>3, NextRecorded, NextArchives, NextCommits,
       NextCommandKept DEF Kept
<1>3. Earlier /\ Kept => VerifiedIsWhole
  BY KeptIsWhole
<1> QED
  BY <1>1, <1>2, <1>3, PTL DEF Spec

=============================================================================
