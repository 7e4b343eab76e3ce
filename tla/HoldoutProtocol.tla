--------------------------- MODULE HoldoutProtocol ---------------------------
(***************************************************************************)
(* A benchmark pack is frozen, committed, generated, run and reported      *)
(* (src/bench/holdout-protocol.mjs).  Its phases are commands a developer  *)
(* starts between edits and commits, or a workflow of the hosting service  *)
(* runs on a clean checkout; a command may be killed between two of its    *)
(* writes.  A tree maps the names of the files the protocol looks at to    *)
(* the set of their contents: empty when the file is absent.  A digest is  *)
(* the content it is taken of.                                             *)
(***************************************************************************)
EXTENDS Naturals, Sequences, FiniteSets, FiniteSetsExt

CONSTANTS
  Drafts,         \* what a manifest says of seeds, metrics and gates
  Versions,       \* of the implementation files
  Locks,          \* of repos.lock.json
  Hosted,         \* there is a hosting service that runs the workflows
  BindExisting,   \* the pack's traces and results were published before
  EditsManifest,  \* the manifest may be edited after its freeze
  Editable,       \* artifacts that are changed and deleted outside the protocol
  MaxCommits,     \* bound on the history
  MaxFreezes      \* bound on the freezes: each has its own time stamp

Artifacts == {"traces", "results", "report", "generate", "run", "attestation"}

ASSUME HoldoutAssumption ==
  /\ Drafts # {} /\ Versions # {} /\ Locks # {}
  /\ {Hosted, BindExisting, EditsManifest} \subseteq BOOLEAN
  /\ Editable \subseteq Artifacts
  /\ {MaxCommits, MaxFreezes} \subseteq Nat \ {0}

Watched == Artifacts \cup {"manifest", "implementation", "lock"}
Files == Watched \cup {"state"}

VARIABLES
  work,      \* the developer's working tree
  history,   \* the trees of the commits, oldest first; the last is HEAD
  frozen,    \* how many freezes there were
  command,   \* the phase that is running, with what it has read
  attested,  \* the artifact of the last attestation workflow
  archive    \* the pack the generate workflow archived

vars == <<work, history, frozen, command, attested, archive>>

Classes == {"candidate", "locally-frozen", "remotely-attested", "sealed"}
Idle == [phase |-> "idle", step |-> 0, body |-> {}, freeze |-> 0,
         class |-> "candidate", code |-> {}, head |-> 0]

TypeOK ==
  /\ \A tree \in {work} \cup {history[c] : c \in DOMAIN history} :
        /\ DOMAIN tree = Files
        /\ \A f \in Files : IsFiniteSet(tree[f]) /\ Cardinality(tree[f]) <= 1
        /\ \A s \in tree["state"] : s.class \in Classes
  /\ Len(history) \in 1..MaxCommits /\ frozen \in 0..MaxFreezes
  /\ command.phase \in {"idle", "freeze", "generate", "run", "report"}
  /\ command.freeze \in 0..Len(history) /\ command.head \in 0..Len(history)

HEAD == Len(history)

-----------------------------------------------------------------------------
(* Traces, results and the tree a repository starts from.                  *)

Traces(origin, draft) == [origin |-> origin, draft |-> draft]
Results(code, traces) == [code |-> code, traces |-> traces]

Published == Traces("published", CHOOSE d \in Drafts : TRUE)

NewTree ==
  LET code == {CHOOSE v \in Versions : TRUE}
  IN  [f \in Files |->
         CASE f = "implementation" -> code
           [] f = "lock" -> {CHOOSE l \in Locks : TRUE}
           [] f = "traces" /\ BindExisting -> {Published}
           [] f = "results" /\ BindExisting -> {Results(code, {Published})}
           [] OTHER -> {}]

Init ==
  /\ work = NewTree
  /\ history = <<NewTree>>
  /\ frozen = 0
  /\ command = Idle
  /\ attested = {} /\ archive = {}

-----------------------------------------------------------------------------
(* What git says.  Only the later phases take a new file of the pack's own *)
(* directories for granted.                                                *)

Untracked(tree, f) == history[HEAD][f] = {} /\ tree[f] # {}

AllowedUntracked(phase) == IF phase = "generate" THEN {} ELSE Artifacts

Dirty(tree, phase) ==
  {f \in Watched : /\ tree[f] # history[HEAD][f]
                   /\ ~(Untracked(tree, f) /\ f \in AllowedUntracked(phase))}

Touches(c, f) == history[c][f] # (IF c = 1 THEN {} ELSE history[c - 1][f])

FreezeCommits(body) ==
  {c \in 1..HEAD : /\ Touches(c, "manifest")
                   /\ \E m \in history[c]["manifest"] : m.body = body}

\* A plausible bug: the freeze commit may hold artifacts.
AnyCommit(c) == TRUE

NoArtifactsAt(c) == \A f \in Artifacts : history[c][f] = {}

-----------------------------------------------------------------------------
(* assertFreezePhaseComplete: what holds before a later phase starts.      *)

\* A plausible bug: the implementation may differ from the recorded one.
ImplementationUnchecked(body) == TRUE

ImplementationMatches(body) ==
  history[body.head]["implementation"] = history[HEAD]["implementation"]

LockMatches(tree, body) == tree["lock"] = body.lock

\* A plausible bug: the manifest is not digested again.
AnyManifest(m) == TRUE

Untampered(m) == m.body = m.digest

Complete(tree, phase) ==
  \E m \in tree["manifest"] :
    /\ Untampered(m)
    /\ Dirty(tree, phase) = {}
    /\ FreezeCommits(m.digest) # {}
    /\ BindExisting \/ NoArtifactsAt(Max(FreezeCommits(m.digest)))
    /\ ImplementationMatches(m.body)
    /\ LockMatches(tree, m.body)

Frozen(tree) == (CHOOSE m \in tree["manifest"] : TRUE).digest
FreezeCommit(tree) == Max(FreezeCommits(Frozen(tree)))

\* A plausible bug: where the command runs is not asked.
EarnedAnywhere(tree, hosted) ==
  IF \E a \in tree["attestation"] :
        a.freeze = FreezeCommit(tree) /\ a.digest = Frozen(tree)
  THEN "remotely-attested"
  ELSE "locally-frozen"

Earned(tree, hosted) ==
  IF hosted /\ \E a \in tree["attestation"] :
        a.freeze = FreezeCommit(tree) /\ a.digest = Frozen(tree)
  THEN "remotely-attested"
  ELSE "locally-frozen"

BoundExists(tree) == tree["traces"] # {} /\ tree["results"] # {}

\* A plausible bug: what is bound is only asked to exist.
PinsUnchecked(tree) == BoundExists(tree)
PinsMatch(tree) ==
  /\ BoundExists(tree)
  /\ Frozen(tree).pins = {<<tree["traces"], tree["results"]>>}

MayGenerate(tree) ==
  /\ Complete(tree, "generate")
  /\ tree["generate"] = {}
  /\ IF BindExisting THEN PinsMatch(tree) ELSE tree["traces"] = {}

GeneratedFor(tree) ==
  \E g \in tree["generate"] : g.digest = Frozen(tree)

\* A plausible bug: run.json is not looked for.
MayRunAgain(tree) ==
  /\ Complete(tree, "run")
  /\ GeneratedFor(tree)
  /\ \E g \in tree["generate"] : g.freeze = FreezeCommit(tree)
  /\ tree["traces"] # {}
  /\ BindExisting => PinsMatch(tree)

MayRun(tree) ==
  /\ Complete(tree, "run")
  /\ GeneratedFor(tree)
  /\ \E g \in tree["generate"] : g.freeze = FreezeCommit(tree)
  /\ tree["traces"] # {}
  /\ tree["run"] = {}
  /\ BindExisting => PinsMatch(tree)

MayReport(tree) ==
  /\ Complete(tree, "report")
  /\ GeneratedFor(tree)
  /\ \E r \in tree["run"] : /\ r.digest = Frozen(tree)
                            /\ r.freeze = FreezeCommit(tree)
                            /\ r.head = HEAD

-----------------------------------------------------------------------------
(* What the phases write.  A phase that reads a state file keeps what its  *)
(* patch does not name.                                                    *)

NoState == [class |-> "candidate", digest |-> {}, traces |-> {},
            results |-> {}, report |-> {}]
State(tree) == IF tree["state"] = {} THEN NoState
               ELSE CHOOSE s \in tree["state"] : TRUE

WithTraces(tree) ==
  [tree EXCEPT !["traces"] =
     {Traces("generated", m.body.draft) : m \in tree["manifest"]}]

WithGenerate(tree, body, freeze) ==
  [tree EXCEPT !["generate"] = {[digest |-> body, freeze |-> freeze]}]

WithGenerateState(tree, body, class) ==
  [tree EXCEPT !["state"] =
     {[State(tree) EXCEPT !.class = class, !.digest = {body},
         !.traces = tree["traces"],
         !.results = IF BindExisting THEN tree["results"] ELSE @]}]

WithResults(tree, code) ==
  [tree EXCEPT !["results"] = {Results(code, tree["traces"])}]

WithRun(tree, body, freeze, head) ==
  [tree EXCEPT !["run"] =
     {[digest |-> body, freeze |-> freeze, head |-> head]}]

WithRunState(tree, class) ==
  [tree EXCEPT !["state"] = {[State(tree) EXCEPT
     !.class = class, !.results = tree["results"]]}]

ClassOfReport(class) ==
  IF class = "remotely-attested" THEN "sealed" ELSE class

WithReport(tree, body, freeze, class) ==
  [tree EXCEPT !["report"] = {[digest |-> body, freeze |-> freeze,
     run |-> tree["run"], class |-> class]}]

\* A plausible bug: the state is added to the file it should replace.
WithReportStateAdded(tree, body, class) ==
  [tree EXCEPT !["state"] = @ \cup
     {[class |-> class, digest |-> {body}, traces |-> tree["traces"],
       results |-> tree["results"], report |-> tree["report"]]}]

WithReportState(tree, body, class) ==
  [tree EXCEPT !["state"] =
     {[class |-> class, digest |-> {body}, traces |-> tree["traces"],
       results |-> tree["results"], report |-> tree["report"]]}]

-----------------------------------------------------------------------------
(* freeze: the manifest, then the state.                                   *)

MayFreeze ==
  IF BindExisting THEN BoundExists(work)
  ELSE \A f \in Artifacts : work[f] = {}

Freeze(draft) ==
  /\ command = Idle
  /\ frozen < MaxFreezes
  /\ MayFreeze
  /\ LET body == [draft |-> draft, stamp |-> frozen + 1, head |-> HEAD,
                  lock |-> work["lock"],
                  pins |-> IF BindExisting
                           THEN {<<work["traces"], work["results"]>>} ELSE {}]
     IN  /\ work' = [work EXCEPT !["manifest"] =
                       {[body |-> body, digest |-> body]}]
         /\ command' = [Idle EXCEPT !.phase = "freeze", !.body = {body}]
  /\ frozen' = frozen + 1
  /\ UNCHANGED <<history, attested, archive>>

FreezeState ==
  /\ command.phase = "freeze"
  /\ work' = [work EXCEPT !["state"] =
       {[NoState EXCEPT !.digest = command.body,
           !.traces = IF BindExisting THEN work["traces"] ELSE {},
           !.results = IF BindExisting THEN work["results"] ELSE {}]}]
  /\ command' = Idle
  /\ UNCHANGED <<history, frozen, attested, archive>>

-----------------------------------------------------------------------------
(* A later phase checks, produces, writes its record and then the state.   *)
(* Its code was loaded, and HEAD was read, before it produces anything.    *)

Begin(phase, may) ==
  /\ command = Idle
  /\ may
  /\ command' = [phase |-> phase, step |-> 1, body |-> {Frozen(work)},
                 freeze |-> FreezeCommit(work), class |-> Earned(work, FALSE),
                 code |-> work["implementation"], head |-> HEAD]
  /\ UNCHANGED <<work, history, frozen, attested, archive>>

Step(phase, step, tree, next) ==
  /\ command.phase = phase /\ command.step = step
  /\ work' = tree
  /\ command' = next
  /\ UNCHANGED <<history, frozen, attested, archive>>

Onward == [command EXCEPT !.step = @ + 1]
Body == CHOOSE b \in command.body : TRUE

Generate ==
  \/ Begin("generate", MayGenerate(work))
  \/ Step("generate", 1,
          IF BindExisting THEN work ELSE WithTraces(work), Onward)
  \/ Step("generate", 2, WithGenerate(work, Body, command.freeze), Onward)
  \/ Step("generate", 3, WithGenerateState(work, Body, command.class), Idle)

Run ==
  \/ Begin("run", MayRun(work))
  \/ Step("run", 1,
          IF BindExisting THEN work ELSE WithResults(work, command.code),
          Onward)
  \/ Step("run", 2, WithRun(work, Body, command.freeze, command.head), Onward)
  \/ Step("run", 3, WithRunState(work, command.class), Idle)

Report ==
  LET class == ClassOfReport(command.class)
  IN  \/ Begin("report", MayReport(work))
      \/ Step("report", 1,
              WithReport(work, Body, command.freeze, class), Onward)
      \/ Step("report", 2, WithReportState(work, Body, class), Idle)

Killed ==
  /\ command # Idle
  /\ command' = Idle
  /\ UNCHANGED <<work, history, frozen, attested, archive>>

-----------------------------------------------------------------------------
(* The developer.  A running command is not disturbed in its own files,    *)
(* but the code may change under it and commits may be made.               *)

Edit(f, contents) ==
  /\ work[f] # contents
  /\ work' = [work EXCEPT ![f] = contents]
  /\ UNCHANGED <<history, frozen, command, attested, archive>>

EditCode ==
  \/ \E v \in Versions : Edit("implementation", {v})
  \/ \E l \in Locks : Edit("lock", {l})

EditManifest ==
  /\ EditsManifest /\ command = Idle
  /\ \E m \in work["manifest"], d \in Drafts :
        Edit("manifest", {[m EXCEPT !.body.draft = d]})

\* A bound pack may be published anew, but not after it has run.
MayChange(f) == f \in Editable \/ (BindExisting /\ work["run"] = {})

EditArtifacts ==
  /\ command = Idle
  /\ \/ \E d \in Drafts :
          \/ MayChange("traces") /\ Edit("traces", {Traces("edited", d)})
          \/ /\ MayChange("results")
             /\ Edit("results", {Results({}, {Traces("edited", d)})})
     \/ \E f \in Editable : Edit(f, {})

\* The pack's directory is removed, to start over.
StartOver ==
  /\ command = Idle
  /\ \E f \in Artifacts : work[f] # {}
  /\ work' = [f \in Files |->
                IF f \in Artifacts \cup {"state"} THEN {} ELSE work[f]]
  /\ UNCHANGED <<history, frozen, command, attested, archive>>

\* What the workflow made is unpacked over the working tree.
Unpack ==
  /\ command = Idle
  /\ \E pack \in archive :
       /\ work' = [f \in Files |-> IF f \in {"implementation", "lock"}
                                   THEN work[f] ELSE pack[f]]
       /\ work' # work
  /\ UNCHANGED <<history, frozen, command, attested, archive>>

Commit ==
  /\ HEAD < MaxCommits
  /\ work # history[HEAD]
  /\ \E whole \in BOOLEAN :
       LET tree == IF whole THEN work
                   ELSE [history[HEAD] EXCEPT !["manifest"] = work["manifest"],
                                              !["state"] = work["state"]]
       IN  tree # history[HEAD] /\ history' = Append(history, tree)
  /\ UNCHANGED <<work, frozen, command, attested, archive>>

-----------------------------------------------------------------------------
(* The workflows, each on a clean checkout of HEAD.                        *)

Attestation(tree) ==
  [digest |-> Frozen(tree),
   freeze |-> Max({c \in 1..HEAD : Touches(c, "manifest")})]

Attest ==
  LET tree == history[HEAD]
  IN  /\ Hosted
      /\ \E m \in tree["manifest"] : Untampered(m)
      /\ attested # {Attestation(tree)}
      /\ attested' = {Attestation(tree)}
  /\ UNCHANGED <<work, history, frozen, command, archive>>

-----------------------------------------------------------------------------
(* holdout:verify, on any tree.                                            *)

Claimed(tree) == State(tree).class
Agree(recorded, found) == recorded = {} \/ found = {} \/ recorded = found

Consistent(tree) ==
  /\ Agree(State(tree).traces, tree["traces"])
  /\ Agree(State(tree).results, tree["results"])
  /\ Agree(State(tree).report, tree["report"])
  /\ Agree(State(tree).digest, {Frozen(tree)})

Verified(tree) ==
  /\ \E m \in tree["manifest"] :
       /\ Untampered(m)
       /\ FreezeCommits(m.digest) # {}
  /\ \A a \in tree["attestation"] :
       a.digest = Frozen(tree) /\ a.freeze = FreezeCommit(tree)
  /\ Consistent(tree)
  /\ Claimed(tree) \in {"remotely-attested", "sealed"}
       => tree["attestation"] # {}
  /\ Claimed(tree) = "sealed" =>
       /\ State(tree).results # {}
       /\ \A f \in {"results", "report", "generate", "run"} : tree[f] # {}

\* The generate workflow: all phases, the attestation, and the verification.
Pipeline ==
  LET t0 == history[HEAD]
      body == Frozen(t0)
      freeze == FreezeCommit(t0)
      t1 == WithGenerateState(WithGenerate(
              IF BindExisting THEN t0 ELSE WithTraces(t0), body, freeze),
              body, Earned(t0, TRUE))
      t2 == WithRunState(WithRun(
              IF BindExisting THEN t1
              ELSE WithResults(t1, t1["implementation"]), body, freeze, HEAD),
              Earned(t1, TRUE))
      t3 == [t2 EXCEPT !["attestation"] = attested]
      class == ClassOfReport(Earned(t3, TRUE))
      t4 == WithReportState(WithReport(t3, body, freeze, class), body, class)
  IN  /\ t0["manifest"] # {}
      /\ attested = {Attestation(t0)}
      /\ MayGenerate(t0) /\ MayRun(t1) /\ MayReport(t3)
      /\ Verified(t4)
      /\ archive # {t4}
      /\ archive' = {t4}
      /\ UNCHANGED <<work, history, frozen, command, attested>>

Next ==
  \/ \E d \in Drafts : Freeze(d)
  \/ FreezeState \/ Generate \/ Run \/ Report \/ Killed
  \/ EditCode \/ EditManifest \/ EditArtifacts \/ StartOver \/ Unpack \/ Commit
  \/ Attest \/ Pipeline

Spec == Init /\ [][Next]_vars

-----------------------------------------------------------------------------
Trees == {work} \cup archive \cup {history[c] : c \in DOMAIN history}

\* The commit at which a digest was frozen holds that manifest, and none of
\* the pack's artifacts unless it pins those that were published before.
FrozenAt(body, c) ==
  /\ \E m \in history[c]["manifest"] : m.digest = body /\ m.body = body
  /\ body.pins = {} => \A f \in Artifacts : history[c][f] = {}
  /\ body.head < c

\* The traces and results a manifest promises: those it pins, or the traces of
\* its seeds and results of exactly these by the implementation it recorded.
Promised(body, tree) ==
  IF body.pins # {}
  THEN <<tree["traces"], tree["results"]>> \in body.pins
  ELSE /\ tree["traces"] = {Traces("generated", body.draft)}
       /\ tree["results"] = {Results(history[body.head]["implementation"],
                                    tree["traces"])}

(***************************************************************************)
(* A report anywhere, of the working tree, a commit or an archive, is of a *)
(* manifest that had been committed before it, with none of the pack's     *)
(* artifacts beside it unless it pins them, and its run was made at a      *)
(* commit no older whose implementation files are those recorded at the    *)
(* freeze (holdout-protocol.mjs:339-375, 578-703), however the developer   *)
(* froze, edited, committed, started over or killed a phase in between.    *)
(***************************************************************************)
FrozenFirst ==
  \A tree \in Trees : \A r \in tree["report"] :
    /\ FrozenAt(r.digest, r.freeze)
    /\ \A run \in r.run :
         /\ run.digest = r.digest /\ run.head >= r.freeze
         /\ history[run.head]["implementation"]
              = history[r.digest.head]["implementation"]

(***************************************************************************)
(* A tree that verifies, claims more than to be a candidate and has a      *)
(* report holds what its manifest promises: the traces of its seeds, or    *)
(* those it bound, and results of exactly these traces by the frozen       *)
(* implementation (holdout-protocol.mjs:479-663, holdout-verify.mjs:       *)
(* 102-242).  It is asked where nobody changes artifacts outside the       *)
(* protocol: between two phases nothing but the pins would notice.         *)
(***************************************************************************)
VerifiedIsWhole ==
  \A tree \in Trees :
    (tree["report"] # {} /\ Verified(tree) /\ Claimed(tree) # "candidate") =>
      Promised(Frozen(tree), tree)

\* The same of what is there, where traces may be missing.
PromisedResults(body) ==
  IF body.pins # {} THEN {pin[2] : pin \in body.pins}
  ELSE {{Results(history[body.head]["implementation"],
                 {Traces("generated", body.draft)})}}

(***************************************************************************)
(* A tree that verifies as sealed, even where artifacts are changed and    *)
(* deleted by hand, carries an attestation made of the commit its manifest *)
(* was frozen at, so before any artifact was, a report that was sealed     *)
(* with it, and the results that the manifest promises; and if there are   *)
(* traces, they are the promised ones (holdout-protocol.mjs:354-369,       *)
(* 692-703; holdout-verify.mjs:113-286; holdout-generate.yml). No local    *)
(* phase seals, and of the changes made after the workflow one goes        *)
(* unnoticed: traces that are deleted, as digests are compared only where  *)
(* both are there (holdout-verify.mjs:181).                                *)
(***************************************************************************)
SealedIsEarned ==
  \A tree \in Trees :
    (Verified(tree) /\ Claimed(tree) = "sealed") =>
      LET body == Frozen(tree)
      IN  /\ \E a \in tree["attestation"] :
               a.digest = body /\ FrozenAt(body, a.freeze)
          /\ tree["results"] \in PromisedResults(body)
          /\ tree["traces"] # {} => Promised(body, tree)
          /\ \E r \in tree["report"] : r.class = "sealed" /\ r.digest = body

(***************************************************************************)
(* What one expects of a verified seal: the traces are there too. The code *)
(* does not keep it (holdout-verify.mjs:181).                              *)
(***************************************************************************)
SealedIsWhole ==
  \A tree \in Trees :
    (Verified(tree) /\ Claimed(tree) = "sealed") => Promised(Frozen(tree), tree)

(***************************************************************************)
(* No phase writes over traces that have their generate record, or results *)
(* that have their run record (holdout-protocol.mjs:486-489, 526-528,      *)
(* 594-597), also after a phase was killed and started again.              *)
(***************************************************************************)
RecordedIsKept ==
  [][command # Idle =>
       /\ work["generate"] # {} => work'["traces"] = work["traces"]
       /\ work["run"] # {} => work'["results"] = work["results"]]_vars
=============================================================================
