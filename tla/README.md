# FreshCtx: a verification project

FreshCtx keeps the code a language-model agent has read up to date in every
request the agent's host sends. It remembers what was read (units: files, line
regions, symbols), finds each unit again in the present workspace before every
request, selects as many as fit a budget, and puts their current bytes at the
end of the request, while old reads in the transcript become markers. What it
must never do is stated in `SOUL.md`: present old bytes as current, carry two
copies of a unit, or lose what was observed.

This directory holds TLA+ models of that code, the TLC configurations that
check them on small instances, and TLAPS proofs of the main results for every
instance. Line numbers below are of the repository's files.

## 1. The parts of the system

| Part | Code | State | Operations | What is hard | What makes it correct |
|---|---|---|---|---|---|
| Working-set policy | `src/policy.mjs` | none kept; two loops over one ranked list | `scoreUnit`, `refreshedThisTurn`, `selectWorkingSet` | a budget that some units may ignore; two passes that share a set; ties and minus infinity in the sort | one verdict per unit, the right one; the budget is exceeded by refreshed units only |
| Anchor resolution | `src/anchors.mjs`, `src/structural-consensus.mjs` | none kept; anchors of a unit | `makeAnchors`, `resolveRegion`, `resolveRegionByStructuralConsensus` | ties, blank lines, code that moved and changed, substrings that are not lines; each answer is the next question | what is reported is in the file where it says; no jump to unrelated code; an unedited file changes nothing |
| Registry | `src/registry.mjs`, `src/hash.mjs` | units with content, lines, state, change bookkeeping, archive of revisions | `trackRead`, `refresh`, `list`, `markUsed`, `recover` | awaits inside the refresh loop, edits meanwhile, failing sources and engine, ids that hash line numbers | nothing stale is carried; what was seen can be recovered; a failed refresh keeps what a later one needs |
| Request engine | `src/engine.mjs` | turn, registry | `trackRead`, `buildRequest` (refresh, rewrite, project, mark used), `advanceTurn` | the order of refresh, selection and bookkeeping within a turn | what a refresh changed is in its request; a request completes |
| Projector, transcript | `src/projector.mjs`, `src/transcript.mjs` | none kept | render, length framing, decode; markers for historical reads | source that contains the frame's own tags; markers for units that were not carried | decode inverts render; a marker tells the truth |
| Semantic engine | `ise/treesitter/client.mjs`, `parse.mjs`, `grammars.mjs` | one child process per question | ask, answer, time out, abort | timer, output, exit and errors race | exactly one outcome, always one |
| Hermes bridge, plugin | `adapters/hermes/bridge.mjs`, `__init__.py` | a state file per session: tracked calls, pending and committed revisions and dispositions, executed arguments; a store per process | `select`, `observe`, promote, commit, clear | one process per call, a 15 s limit, requests never sent, compaction, sessions sharing a store | what is committed was delivered; a dropped read is dropped for a reason that holds |
| Pi extension | `adapters/pi/extension.ts` | one engine, call-to-unit map, pending and last injected revisions | tool result, context, before-request, session events | branches of a conversation, deleted units | active calls and units agree |
| Request pruning | `adapters/request-prune.mjs` | none kept | which reads are served, dropped, replaced by markers | pairs of calls and results, repeated reads, shell dumps | every call keeps its result; every body is carried once |
| Shell reads | `adapters/shell-read.mjs` | none kept | recognise reads and dumps in shell commands, compare an output with its file | flags, output that was cut, files edited since, paths inside paths | the tracked lines are those the command printed; a marker names the files it stands for |
| Host codec, Pi codec | `adapters/host-codec.mjs`, `adapters/pi/codec.mjs`, `replay.mjs` | a snapshot per request | capture, transform, validate, answer | phases that throw, a host that goes on using its object, histories with broken pairs | the host's conversation survives; pairs stay |
| Capture provider | `capture/provider.mjs` | requests counted, captured, written | record, answer, wait, close | concurrent requests, a write that fails | what is answered is recorded, in order |
| Holdout protocol | `bench/holdout-protocol.mjs`, `holdout-state.mjs` | manifest, attestation, state file of a pack | freeze, generate, run, report | a crash between files, phases out of order | phases only advance over what was frozen |
| Labs and trace runner | `bench/*-lab.mjs`, `trace-runner.mjs`, `baselines.mjs`, `oracle.mjs`, `metrics.mjs` | traces, a workspace, result rows | generate, play, measure | each lab codes its gold bytes apart; a trace that throws | generator and runner agree; the recorded results are those of this code |
| Other benchmarks, scripts | `labs/`, `autoresearch/`, `scripts/`, install tools | files | measurement and installation | nothing concurrent | not part of the system |

How they interact: a host adapter observes tool results and calls `trackRead`;
before each provider call it asks the engine for `refresh` and `project` (or
`buildRequest`); the registry calls the source provider, the semantic engine
and the anchors; the projector calls the policy over `registry.list()`; the
engine reports the selection back with `markUsed`. The adapter then rewrites the
outgoing transcript with the request-pruning functions and, on a later call,
learns from the transcript whether the projection was delivered.

## 2. The modules

| Module | Models | Kind |
|---|---|---|
| `Selection` | scoring, ranking and the definition of a finished selection | operators |
| `WorkingSetSpec` | the promise of `selectWorkingSet`: one right answer, in one step | abstract specification |
| `WorkingSet` | the two loops of `selectWorkingSet`, one action per branch | state machine, refines `WorkingSetSpec` |
| `WorkingSetProofs` | theorems about `WorkingSet` | proofs |
| `Projection` | the envelope, written, cut and read back | state machine |
| `SourceText`, `Resolution` | lines, normalization, substring search; outcomes and the stored-line fallback | operators |
| `Anchors` | `resolveRegion` and the structural consensus, branch by branch | operators |
| `RegionLife` | one region under edits and refreshes | state machine |
| `FreshRegistry` | registry and engine: reads, requests, awaits, answers, turns, edits | state machine over `Selection` |
| `FreshRegistryProofs` | theorems about `FreshRegistry` | proofs |
| `OneAnswer` | a question that is settled once, and settled | abstract specification |
| `EngineClient` | the handlers of one question to the engine's child process | state machine, refines `OneAnswer` |
| `EngineClientProofs` | theorems about `EngineClient` | proofs |
| `RequestPrune` | how an adapter rewrites the outgoing transcript | operators |
| `RequestPruneProofs` | lemmas about the rewriting, for both adapters | proofs |
| `HermesBridge` | select and observe over the session state, with the host | state machine over `RequestPrune` and `Selection` |
| `ExecutedReads` | the store of executed arguments, shared by sessions | state machine |
| `HermesBridgeProofs` | theorems about `HermesBridge` and `ExecutedReads` | proofs |
| `PiExtension` | the four event handlers over one engine, with the session tree | state machine over `RequestPrune` and `Selection` |
| `PiExtensionProofs` | theorems about `PiExtension` | proofs |
| `ShellCommands` | commands, what they print and what the parser takes them for | operators |
| `ShellRead` | a shell command from its output to its unit, for Pi and Hermes | state machine |
| `ShellDumps` | which outputs a request replaces and what the marker names | state machine |
| `HostCodec` | `applyHostCodec`, phase by phase, with a host that goes on | actions, parameterised by a codec |
| `TestHost`, `PiCodec` | the two codecs, each composed with `HostCodec` | state machines |
| `CaptureProvider` | concurrent requests to the recording server | state machine |
| `CaptureProviderProofs` | theorems about `CaptureProvider` | proofs |
| `HoldoutProtocol` | freeze, generate, run, report and verify over a git work tree | state machine |
| `HoldoutProtocolProofs` | theorems about `HoldoutProtocol` | proofs |
| `LabText`, `LabCells`, `LabTraces` | texts and edits, the cells of the labs, the trace generators | operators |
| `TraceRunner` | one trace against one baseline, measured | state machine |
| `LabPacks` | a whole lab: generate, play every trace, write the rows | state machine over `TraceRunner` |
| `MCWorkingSet`, `MCRegionLife`, `MCFreshRegistry`, `MCHermesBridge`, `MCPiExtension`, `MCPiCodec`, `MCHoldoutProtocol`, `MCLabPacks` | the small worlds of a component | model checking |
| `MCEndings` | registry, engine client and capture provider, for what must end | model checking |
| `MCShell` | sample shell commands | model checking |

In the code's order: `Selection` scores what `FreshRegistry` refreshed with
`Anchors`, `Projection` writes what was selected, `RequestPrune` rewrites the
transcript around it, and `HermesBridge`, `PiExtension` and `PiCodec` (inside
`HostCodec`) are three hosts' ways to drive this. The hosts compose `RequestPrune`
and `Selection` and abstract the registry to whole files, whose resolution is a
read; `FreshRegistry` has regions, symbols and the engine, and abstracts the
transcript.

### WorkingSet

`pass` and `next` are the program counter: the running loop and the rank it
looks at. The first loop (policy.mjs:75-84) leaves out the unresolved
(`OmitUnresolved`), takes what was refreshed in this turn (`SelectRefreshed`) and
defers the rest (`Defer`); the second (86-99) skips the decided ones
(`SkipDecided`), drops what does not fit (`OmitOverBudget`) and takes what does
(`SelectFitting`). The score is the code's, multiplied by 6 * max(1, budget) to
be integral; the fraction of the code is a float, so units whose scores differ by
less than its rounding may be ranked otherwise there, which no property depends
on. A score of minus infinity is compared as in the code: two of them differ by
NaN, which `||` passes over to the id.

### Anchors and RegionLife

A text is a sequence of lines and a line a sequence of characters, because two
searches of the code differ exactly there: anchors compare normalized lines, the
exact match searches characters. Line numbers count from 1. Only the reason of a
refusal is abstracted. `RegionLife` starts with a read of any lines of a file and
lets edits (insert, delete, change a line, write the file) interleave with
refreshes; the history variable `seen` is the file the last successful resolution
or the read saw. A host may or may not report the line count of the file.
`RegionLife` takes the resolver as the constant operator `Locate`, as
`FreshRegistry` does; the run gives it `Anchors`.

### FreshRegistry

One variable holds the workspace, which `Edit` changes at any time, deletions
included. `TrackNew` and `TrackAgain` are `trackRead`; a unit is a record of the
code's fields, with its archive as a function from texts to lines (a revision is
the hash of a text). `BeginRequest` takes the snapshot of ids of the refresh
loop. Each round of the loop is `SourceUnavailable` (the provider throws or has
no text), `ReadAndResolve` (text to anchors, stored line or whole file, no await
in between), or `ReadAndAskEngine` followed later by `EngineAnswers`: between the
two the file may change. `Project` is project and markUsed, and chooses any
outcome `WorkingSet` can give (`IsWorkingSet`). `Send` and `AdvanceTurn` end the
request and the turn. Two operators are parameters: `Locate`, the anchors, which
TLC instantiates with `Anchors` and the proofs leave arbitrary; and `Answers`, the
semantic engine: nothing (missing output, an exception), "broken", or an outline
of named spans, which may be ambiguous, empty or wrong.

The history variables `version`, `asOf`, `began` and `changed` only record;
no guard but the bound on edits reads them. `Identities` lists the identities of
units in the order of their hashes, which fixes the order of the refresh; any
order is a possible order of hashes.

Reads are tracked between requests only: a host completes its tool results
before it prepares the next provider call, and the Hermes bridge builds its
engine anew within one call.

### EngineClient

One variable per piece of the runner's state (`timer`, `outcome`, `received`,
`kept`) and of the child's (`child`, `code`, `killed`, `written`, `complete`,
`pipe`, `broken`). `Ask` spawns the child and `AskInVain` finds no engine;
`OnData`, `OnError`, `OnStdinError`, `OnClose` and `OnTimer` are the handlers
(client.mjs:27-65), in any order the event loop allows; the child writes chunks,
exits, or dies of the kill signal when it likes (`ChildWrites`, `ChildExits`,
`ChildDies`). `Settle` and `Abort` are the code's. `OneAnswer` is the promise: one
step from no outcome to one, which fairness makes happen. An error of the child's
standard input rejects the question and leaves the child running, and nothing
bounds what it writes to its standard error: `ForcedOutIsKilled` claims no more
than the code.

### RequestPrune, HermesBridge and ExecutedReads

`RequestPrune` translates the functions the adapters share: the latest read of each
file, disposition of the others, replacement of results by markers or bodies
(`ReplaceTracked`), of dumps and of older projections (`ReplaceHistorical`), the
pairs that leave (`DropPairs`), and the tail message. A message is a user's, a
reply with its calls, or the result of one call; a body is the text of a file at
a version, another output, a marker, a projection or words. Bodies have the same
number of lines at every version and a unit's id is its file's name. The filters of
the code are `At` and `Among`, what stands at some places of a sequence, since
`SelectSeq` takes an operator and no lemma about it can be cited.

`HermesBridge` has the host's transcript, the state file (`saved`: version, last
injected and pending revisions, the pending text and the user message it waits
for, dispositions and pending dispositions), and the stages of a turn. `Select` is
one process: load, promote, project, save, assemble; it ends, or is killed after
its rename, or before (`SelectKilled`). `SelectNothing` is the call that finds
nothing tracked. `Observe` is the process at the end of a turn. The host speaks,
answers with or without calls, runs tools and is interrupted; files change and
disappear between. Initial states include a state file of an earlier release,
which has revisions and no version. Two history variables record the bodies the
provider was sent (`received`) and those of requests that were built and lost,
with the user message of their turn (`lost`). Left out: compaction of the
transcript, regions and symbols, the fail-closed rules of tails.

`ExecutedReads` is the plugin's store of executed arguments, which the sessions of a
process share. Every bridge call carries a copy of it to the state file of its
session, and every completed turn of any session clears it; the history `taken`
records the reads that were not in their own session's file by then.

### PiExtension

The variables are the closure's maps (`units`, `callToUnit`, `callMeta`, `last`,
`history`, `pending`, `pendingHistory`, `text`) and the session tree, of which the
user may leave the branch and come back (`Fork`, `Return`). `ToolResult`, `Context`
(and `ContextOfNothing`), `BeforeProviderRequest` and `TurnStart` are the handlers;
between a tool and its event the file may change (`Races`). `Restart` begins a
process with the session only. A unit keeps the set of versions its archive has.
Its `changeCount` is bounded by one: only whether it changed matters to the score
here. Shell reads whose branch was left stay in the projection, as in the code.
Of two official reads of one file in one reply the one called last counts, as in
`latestReads` (request-prune.mjs:357-373); the question `{1, 5}` makes such a reply.

### ShellRead and ShellDumps

`ShellCommands` has the parser after the split into words: verbs, options with and
without values, the files that are left, pipes; and what the shell prints for a
command. `ShellRead` goes from the output, which the host may cut, over an edit, to
the unit that is tracked, for Pi (`OnPi`, compared with the file) and Hermes
(`OnHermes`). `ShellDumps` is the judgement of an output at request time: the files a
command names, or the one tracked file its text contains, and the marker. The text
that is searched (`TextOf`) is the whole command letter by letter, wrapper, verb,
flags and scripts included, so that a tracked `a` is found in `cat b`; the paths are
searched the longest first and then in the order they were tracked. Left out:
quotes, expansion, a `./` before a path. `tail -n +k` counts as `k` in the code, so
the completeness half of `RegionIsTheOutput` is claimed for plain counts.

### HostCodec, TestHost and PiCodec

`HostCodec` is `applyHostCodec` (host-codec.mjs:50-82): snapshot, capture, transform,
validate, each of which may throw or wait, while the host goes on appending to the
object it passed in; `Validate` makes the answer and returns the snapshot or the
candidate. `TestHost` is the test double with its switches (`failAt`, `corrupt`), and
`PiCodec` the Pi codec: the pairing record of a history (`ReadMessage`,
`PairingRecord`), what was observed (`Decoded`), the registry seeded from it, the
context handler of the replay adapter (`OnContext`) with a registry that has sent
nothing, protected shell names, retirement of superseded reads, and the validator.
A codec built on it may break what it returns (`Corrupts`): the validator must
notice. Reads are of whole files, calls are answered in the order of their ids, and
seeded reads carry the reply's index as their turn. Failures of the serializer are
folded into capture. A failed read, a read of an image or an interrupted turn makes
the codec leave the request as it is.

### Projection

`units` are written to `text`, which may lose its end, and read back from `cursor`
into `decoded` (projector.mjs). A token is what the code writes or searches for as a
whole; contents may contain the frames, attributes the entities. A token of a
content counts as one byte.

### CaptureProvider

A handler per request with the points where it waits (`phase`): its arrival is
counted, its body ends or breaks, it is recorded, the append is chained, the answer
is written. The code's own oddities are kept: sequence numbers read after the wait
may repeat, a failed append fails all later ones, and a request with a bad body
counts toward the expected number.

### HoldoutProtocol

`work` is the work tree and `history` the trees of the commits, maps from the
files the protocol looks at to their contents; a digest is the content. `command`
is the phase that runs, with what it has read. `Freeze`, `Generate`, `Run` and
`Report` are commands: a check (`MayGenerate`, ...) and then one write after the
other (`Begin`, `Onward`), between which the process may be `Killed`. The
developer edits code, lock and manifest, changes or deletes by hand the artifacts
that the constant `Editable` names, commits, starts over and
unpacks what was published; with `Hosted`, `Pipeline` and `Attest` are the
workflows of a clean checkout. The implementation is the three watched files the
protocol compares. Writes of one file are atomic, one command runs at a time, and
a running command sees no edits of manifest and artifacts.

### Labs

`LabText` and `LabCells` have the texts and edits of the labs, cut to the lines
around their regions; `LabTraces` the generators; `TraceRunner` the runner, the
baselines, the oracle's gold bytes and the metrics of one trace; `LabPacks` a
whole lab, with the labs' own copies of the runner beside the generic one. They
use the real model of the anchors. A trace reads one unit, so a request carries at
most one text besides its framing. The labs play `freshctx-region` only, the smoke
pack all five baselines. Two of the results the repository records are of an older
implementation; the model follows the tests there
(test/delete-unit-fail-close-lab.test.mjs:93-94).

## 3. The runs

A component is looked at in several worlds: instances of its module with other
constants, chosen by a variable that never changes (`world`, or `part` in
`MCEndings` and `MCWorkingSet`). A machine that is not looked at stays in a first
state. The constants in a .cfg are those of the world the MC module extends
itself, or bounds for all worlds; the MC module says which. A property that is
claimed in some worlds only has its name there, with the world as its premise.

| Run | Question | Worlds and bounds |
|---|---|---|
| `working_set` | do the two loops give right, single verdicts within the budget and keep the promise? is a projection read back as it was written? | all hands of 3 units over 9 kinds (unresolved, pinned, empty, as large as the budget, larger, new, refreshed, old), budget 4, 3 task overlaps; texts of up to 2 units over 7 contents with frames in them, and every beginning of the text of one |
| `regions` | is what is reported in the file, does an unedited file stay put, does a region ever jump? | short: all files of at most 3 lines over "a", "ab", " a" and blank, all regions, 2 edits; long: a 6-line file, regions of at most 4 lines, 2 edits, rewrites with rival boundary pairs |
| `registry` | nothing stale, changes carried, archive right and bounded, failures recoverable? | plain: 1 file, 3 texts, a whole-file read and 2 regions, 2 reads, 3 edits, 2 turns, budget 3; engine: a file the engine serves, a symbol, a named region and the file, 3 kinds of answer, 2 edits |
| `endings` | does what was begun end, and end rightly? | registry: as its engine world, 2 reads, 1 turn; client: limit 3, up to 5 bytes in chunks of 1 or 2; capture: 4 requests, one streaming, 3 expected, appends that fail |
| `hermes` | are requests paired and current, is what was selected carried, what is believed injected received? | 2 files of 2 contents, 5 calls (reads, a repeated read, a shell read, a dump). any: budget 2, kills, interrupts, deletions, 6 messages, 1 edit; steady: one read at a time, budget 4, kills and interrupts, 7 messages, 1 edit; tight: as any, without deletions; calm: two reads, budget 3, deletions, 9 messages, 2 edits; kept: both files at once with a host that keeps projections, budget 3, kills, interrupts, deletions, 7 messages, 1 edit; plugin: 2 sessions of 2 calls each |
| `pi` | the same of Pi, with branches; do shell commands become the right units? | as `hermes`. any: races, restarts, deletions, 6 messages, 2 edits, 2 turns; steady: official reads, 9 messages, 2 edits; branches: budget 4, 7 messages, 1 edit; pi shell, hermes shell: 78 commands, 10 texts, edits; dumps: 313 commands over 4 files of which one's path is in another's, any of them tracked in any order |
| `codecs` | does a request lose anything at the codec boundary, is it rewritten when it can be? | plain: 4 calls, 5 messages, 1 edit, a file outside the workspace, interrupts, a host that changes its object; corrupt: a codec that breaks its result, 6 messages; test: the test host, 2 calls, 4 messages |
| `holdout` | are reports of frozen code, verified trees whole, seals earned? | 2 versions of code, manifest or lock, 2 to 4 commits, 1 or 2 freezes; code, manifest, hosted (traces edited, and traces, report and attestation deleted by hand); altered (the same and the results, 2 commits); bound (published artifacts) |
| `labs` | do generator, runner and anchors end as recorded? | the cells of 16 labs; the smoke pack's express traces with 5 baselines |

The bounds are small because the claims are about pairs: two units of a file and
an edit between them, a unit and its second read, a region and one rival, a
request and the next. Two edits give a change and its undoing, and a third a
change after that; two reads give two units or one that is read again; two turns
separate a change from its turn; three lines give a region with a line on either
side or a duplicate. Six messages are a user, a reply with two calls, their
results and one more reply; seven to nine a second turn that sees what the first
committed. The refused case always occurs: budgets are below the sum of the sizes,
files go missing, texts do not parse, processes are killed, appends fail. Runs
whose bounds end them are run without the deadlock check; in the registry a
request can always be begun. Where the budget is 4 everything fits: the claim
there is about what becomes of a file that was selected.

Claims that belong together are one property of a run, a conjunction of named
parts: `Bookkeeping`, `ReadBack`, `ReportIsSound`, `NoJump`, `ArchiveSound`,
`ClientInvariant`, `RecordingInvariant`, `RequestIsSound`, `PluginInvariant`,
`DumpsAreNamed` in the components' modules, and in the MC modules those that join
worlds. The type invariants are among the parts.

What is claimed of some worlds only, and why:

- `SteadyTellsTheTruth` of Hermes has `MarkersAreTrue` of the worlds steady and tight,
  which exclude deletions only: files over budget are in it, the markers of
  unresolved ones are false (below). It has `SelectedIsCarried` of steady,
  where besides any file has room: see `hermes_omitted`. Of any
  world `RequestIsSound` claims that nothing vanishes: a selected file is in
  the request, or a marker that tells of its omission or of a dump stands for it.
- `InjectedHasEvidence` is of every Hermes world, and leaves open one case, a
  request that was lost in a turn that has a reply: see "unsent" below.
- `PluginInvariant` (`BridgeKnows`) leaves out the reads that a turn of another
  session cleared before they were saved: see "two sessions" below.
- `SteadyTellsTheTruth` of Pi has `MarkersAreTrue` of steady and branches, which exclude
  deletions, races and restarts. It has `SelectedIsCarried` and `MaskedIsRecoverable`
  of steady, which excludes also forks, which like restarts drop the archive; races,
  after which the archive has
  what the event read and not what the tool showed; and shell reads: one that was
  over budget when it was sent keeps its marker after its file is selected and
  collapsed, as only official reads are quoted again (request-prune.mjs:204-213).
- `ShellReadsAreExact` has `RegionIsTheOutput` for Pi only: Hermes compares nothing.
  Its other half, `EndsAreTracked`, is of a file named behind the flags. It does not
  claim `--lines N`, where the parser takes N for a second file (shell-read.mjs:67-72
  against 169) and tracks nothing, nor an output that lost the end of a blank last
  line, which is then not counted (shell-read.mjs:285, 300).
- `DumpsAreNamed` says of every command what a marker may leave unnamed: of a list of
  files the one that `cat -n` is taken to have for a value and one a script opens by
  itself, and without a list (`head a b`) the files that are not tracked. It says of
  one file what may keep its output from being replaced: another tracked path
  elsewhere in the text of the command.
- `UntouchedIsWhole` (`VerifiedIsWhole`) excludes artifacts changed or deleted by hand,
  which the report does not compare with the records of generate and run.
  `SealedIsEarned` includes them, and says of the traces only that they are the
  promised ones if they are there.

Three runs show disagreements between the code and what the repository says of
it; each checks one property that TLC refutes:

- `region_stale` (`ResolvedBytesAreCurrent`): the exact match is a search for
  characters (anchors.mjs:211-213), so a line that grows in place ("a", edited to
  "ab") is found inside the new line and reported resolved with its old bytes,
  which are no line of the file any more ("last-known bytes are never rendered as
  current", docs/ARCHITECTURE.md:125). What does hold is
  `ReportedLinesHoldTheBytes`: the lines named contain the bytes. Nor need these
  be the lines the region stands at, even in a file nobody edited: in the file
  `ab`, `ab`, `a` the last two lines also match at the first two, ending inside the
  second; the overlapping match is not counted (anchors.mjs:26), and the region is
  reported at lines 1 to 2. `SolidRegionStays` says how far that goes: once, and
  without losing the bytes.
- `registry_twice` (`OneCurrentCopy`): the id of a whole-file unit hashes its line
  count, so a second read after the count changed registers the file again, and
  both are carried (docs/ARCHITECTURE.md:79, SOUL.md:34). Hosts that read files
  again with new content, as adapters/pi/extension.ts:296-300 does, meet this.
- `hermes_omitted` (`SelectedIsCarried`): a disposition that was committed once is
  looked at before the current selection (request-prune.mjs:720). In the trace a
  file is deleted, and its read is sent and committed as unresolved; when the file
  is there and selected again, and its projection is left out because its body is
  inlined, the marker of an omitted read replaces that body
  (adapters/hermes/README.md:66). There is room for both files throughout.

The modules also state what the repository says of the code and TLC refuted when
it was made the invariant of the component's MC module; their comments say so,
and no run repeats them:

- `RegionLife.ExactContentWins` (anchors.mjs:51): a region with a blank first line
  that occurs twice loses that line to the boundary search (anchors.mjs:264) and
  is answered with other lines of a file nobody edited. Regions with visible ends
  keep their bytes, and move at most once: `SolidRegionStays`.
- `RegionLife.ExactMoveIsUnique` (docs/ARCHITECTURE.md:112): overlapping
  occurrences are not counted (anchors.mjs:26), so the first of several is taken
  for unique.
- `FreshRegistry.CoherentRequest` (docs/ARCHITECTURE.md:275, 288): an edit between
  two units of a file puts two of its revisions in one request; the same section
  names the sequential reads as a gap of the prototype.
- `HermesBridge.MarkersAreTrue` (docs/GLOSSARY.md:86-87): the read of an
  unresolved file counts as served and gets the marker that says its content is
  supplied.
- `HermesBridge.InjectedWasReceived` ("unsent"; docs/GLOSSARY.md:71-72): a
  projection made after a tool call, whose request is interrupted, is taken for
  delivered on the evidence of the reply that made the call (bridge.mjs:213).
  `InjectedHasEvidence` says what does hold.
- `HermesBridge.SelectOnlyReads` (adapters/hermes/README.md:77-79): select saves
  the session state (bridge.mjs:803).
- `ExecutedReads.EveryReadIsKnown` ("two sessions"; adapters/hermes/README.md:87-98):
  the completed turn of one session clears the arguments of the other's reads before
  they are saved (`__init__.py`:204-205). `BridgeKnows` says what does hold.
- `PiExtension.UntrackedIsPreserved` (extension.ts:307-308): the output of a
  command whose text mentions a tracked file is replaced, whatever it is
  (request-prune.mjs:555).
- `PiExtension.MaskedIsRecoverable` over forks (SOUL.md:36-37): leaving a branch
  deletes units and archives (extension.ts:90), and its reads leave the request on
  return.
- `PiExtension.SelectedIsCarried` over branches: a file that only a shell command of
  a branch that was left has read stays selected, and once its projection collapses
  as injected before, no read is there to carry its bytes (extension.ts:316-325).
- `HoldoutProtocol.SealedIsWhole`: digests are compared only where both are there
  (holdout-verify.mjs:181), so a sealed tree whose traces were deleted verifies.
- `ShellRead.SlicesAreTracked` (adapters/pi/README.md:155-157): a `sed -n` range
  that begins later than line 1 has no span (shell-read.mjs:293).
- `ShellRead.SeveralFilesAreRejected` (adapters/pi/README.md:157-159): `cat -n a
  b` is taken for a read of b, since `-n` gets a value whatever the verb
  (shell-read.mjs:67).
- `ShellRead.RegionIsTheOutput` on Hermes (docs/ARCHITECTURE.md:312): a tail is
  tracked from line 1, the output of a head is not compared (bridge.mjs:387).
- `ShellDumps.OnlyNamedFiles` (docs/ARCHITECTURE.md:185): with `r` tracked the
  output of `d/r`, which is not, is replaced (shell-read.mjs:196). Nor does the
  marker of a dump always "explicitly" say of its other files that they "are not
  supplied" (adapters/hermes/README.md:132-134): that of `cat -n a b c` names b and
  c, and the text of a is gone (shell-read.mjs:67, 108).

## 4. Fairness

Only `endings` assumes any, in `EndFairness`:

- `WF(Refresh)` and `WF(Answered)`: the refresh loop and the projection
  run in the host's event loop without conditions of their own, and the engine's
  client settles every question (client.mjs:17-65), which the next assumption
  gives. A source provider that never returns is excluded: the providers of the
  adapters read local files. Nothing is assumed of edits, reads and turns.
  `Locate` is a resolver that stays in place there, since the anchors return at
  once and their answers do not matter to termination.
- `WF(OnTimer)`: a timer that is armed fires. Of the child nothing is assumed: it
  may never write, exit or close. That this alone settles every question is what
  `KeepsPromise` checks against the fairness of `OneAnswer`.
- `WF(AppendFile)`, `WF(Record \/ BadBody)`, `WF(Respond)`: a file operation ends,
  in success or failure; a body ends, is broken off, or is ended by the request
  timeout of the server; a handler that waits for neither goes on. That a host
  posts is not assumed.

## 5. What is proved

The theorems hold for every value of the constants under named assumptions. An
assumption gives the constants their types, with what the proofs need besides:

- `BudgetAssumption`, `WorkingSetAssumption`: the budget is a natural number, hands
  are finite and made of cards.
- `RegistryAssumption`, `IdentitiesAssumption`: the list of identities is complete.
- `EngineClientAssumption`, `CaptureAssumption`: limits are natural numbers, chunks are
  not empty; the requests of a provider are finitely many.
- `RequestPruneAssumption`: files are finitely many, as a list of them exists; calls
  are finitely many.
- `HermesAssumption`, `PiAssumption`: every tool that reads a file is one the adapter
  knows (`OnlyReadersRead`). Both adapters take the file of a call from the
  arguments of tools they know.
- `ExecutedReadsAssumption`: every call has a session.
- `HoldoutAssumption`: there are drafts, versions and locks, and room for a commit and
  a freeze. `WholeTheorem` also takes `Editable = {}`, the premise of the property.
- Of Hermes, `MarkerTheorem` also takes `~Deletes`, `CarriedTheorem` `~Deletes`,
  `FilesFit` and `ReadersNameOneFile`, which the world `steady` satisfies.
- Of Pi, `CarriedTheorem` also takes `~Deletes` and `OfficialOnly`, `ArchiveTheorem`
  `~Deletes`, `~Forks`, `~Races` and `~Restarts`: both are what sets the world
  `steady` apart.

TLC evaluates all of them in the runs. No module uses a recursive operator.

### WorkingSetProofs

`TypeCorrect`, `VerdictTheorem` (`OneVerdict`), `BudgetTheorem` (`BudgetRespected`),
`BookkeepingTheorem` (`Bookkeeping`) and `PromiseTheorem` (`KeepsPromise`), for hands
of any size. The verdicts are not inductive on their own: what is decided depends
on how far the loops have come. `IndInv` adds that each unit is ranked exactly
once and, for each rank before and after `next`, what is known of its unit in each
pass (`Untouched`, `Sorted`, `Decided`). `SelectStep`, `OmitStep` and `PassStep` say
what each kind of branch does to these, and the actions are instances of them.

Characters used are a sum over a set, which the community modules compute by a
fold, a recursive function on the subsets. That such a function exists, that it
is unique, and that one more unit adds its weight (`SumExists`, `SumsAgree`,
`SumOfOneMore`) are proved without an induction theorem: of the subsets, or the
numbers, at which a claim fails there would be a least one (`LeastSubset`,
`LeastNumber`, from the well-foundedness facts of the library). The refinement
needs more: the list is in the order of `Before` (`Ordered`), every unit that
the second loop has passed was judged by the weight of those ahead of it
(`Judged`), and what is out of budget is resolved. Then a run that returns has
selected what `WorkingSetSpec` asks for (`ReturnsWorkingSet`), and `Return` is its
`Answer`; every other step leaves the answer pending.

### FreshRegistryProofs

`TypeCorrect`; `FreshnessTheorem` (`NoStaleInjection`); `CarriedTheorem`
(`ChangedIsCarried`); `ArchiveSoundTheorem` (`ArchiveSound`, from `ArchiveTheorem` and
`ArchiveBoundTheorem`), `RecoveryTheorem` and `UnresolvedTheorem`. `Locate` and
`Answers` are arbitrary, so these hold for any resolver and any engine, however
bad: freshness comes from the order of reading and resolving alone. `IndInv`
strengthens the claims about a built request to the whole refresh: a unit the
loop has left behind is unresolved or was read after the request began, the text
the engine holds was read after it too (`Recent`), and a unit this refresh changed
is among those left behind and still marked as changed in this turn (`Moved`).
`Sound` carries the archive facts per unit; its count needs the archive to hold the
present bytes, else a re-read of them would add a revision without a change. All
ways a unit is left behind reduce to one lemma (`VisitStep`).

### EngineClientProofs

`ClientTheorem` (`ClientInvariant`) and `SettlesOnceTheorem`, the safety half of the
refinement of `OneAnswer`. `IndInv` adds what the handlers rely on without saying
so: nothing is in the pipe of a closed child, an answer comes from the close
handler alone, a kill signal is sent only with a rejection, and no more is kept
than was received. Without the first a chunk could come after the answer it
belongs to. That every question is settled needs fairness and stays with TLC.

### CaptureProviderProofs

`RecordingTheorem` (`RecordingInvariant`). The file is the beginning of the captures
because, until an append fails, the chain of pending appends is exactly the rest
of them (`ChainIsRest`), and each request waits for one append, its own
(`ChainIsWaiting`). Numbers are counts of requests that only grow
(`NumbersAreCounts`), and a request whose body is awaited came in time
(`LetInIsExpected`), so what is recorded of it did.

### RequestPruneProofs, HermesBridgeProofs, PiExtensionProofs

`RequestPruneProofs` has no theorem of its own but the lemmas both adapters rest
on, for any transcript: what `At` and `Among` pick (`Nth` is the k-th place, which is
there and unique); that replacing results keeps calls and results paired
(`Rewriting`); that leaving out the unserved keeps them paired (`PrunedIsPaired`) and
leaves no body of a tracked file but the current one (`PrunedShowsNow`); that the
quotes and the tail keep both (`Quoting`, `TailedRequest`); and how a transcript
grows by one message and what calls wait in it (`TranscriptGrows`,
`CallsOfTranscript`). Where the projection collapses because its files were injected
before, the bodies of the served reads must still be there: each file's current
bytes are inlined at its read (`InlinedAtTheRead`) and a served read is never
dropped (`ServedStays`), so that a marker of supplied content stands for a served
read of a selected file (`StableStandsForServed`). The lemmas assume of the
transcript only what a host ensures: each result stands after its call (`Transcript`).

`HermesBridgeProofs`: `RequestTheorem` (`RequestIsSound`) and `InjectedTheorem`
(`InjectedHasEvidence`), for whatever is killed, interrupted, deleted or kept. That
nothing vanishes is a relation of a request to the projection it was made from (`Accounted`,
`Supplied`, in the part `Outgoing` of the invariant). `MarkerTheorem`
(`MarkersAreTrue`) needs that no file is deleted, as then every tracked file is
present (`Present`), but nothing of the budget. `CarriedTheorem` (`SelectedIsCarried`)
needs also that any file fits beside any others (`FilesFit`, which the world `steady`
satisfies) and that no command is both the read of one file and a dump of several
(`ReadersNameOneFile`: of the two shell parsers one wants exactly one argument and
the other at least two). Then everything tracked is selected (`EverythingIsSelected`)
and no omission is ever committed (`NoneOmitted`), so the marker that
`hermes_omitted` finds cannot arise. Neither theorem forbids kills or interrupts.

`IndInv` adds that
the transcript is a host's and begins with the user (`Conversation`), and that the
bound leaves room for the results of the calls that run (`RoomForResults`; without
it the type invariant is not inductive). `Delivery` says what the state file means
between the steps. What it calls injected has its evidence (`Injected`). What it
calls pending stands in the projection that was noted, and was received, was lost
in the noted turn, or is in the request that waits to be sent in this turn
(`Promised`). What is pending is promoted because its text stands in the
transcript, and a host keeps only what it has sent (`SentIsKept`), or because the
noted user message has a reply, which is the evidence for a lost request of that
turn; without a reply nothing is promoted. `PluginTheorem` (`PluginInvariant`) is of
any number of sessions and calls: a read that was executed is in the store or in
its session's state file, or was taken by a turn of another session, and a call of
the bridge carries the whole store (`Kept`).

`PiExtensionProofs`: `RequestTheorem` (`RequestIsSound`), `InjectedTheorem`
(`InjectedWasSent`) and `BranchTheorem` (`OnlyThisBranch`), with deletions, races,
restarts and forks. `IndInv`
adds that the branch that was left can be returned to: its calls are answered and
it fits (`Resting`), which `Return` needs; that every call with a unit has its file in
the registry (`Typed`); and that whatever is pending is in the text a payload is
looked up for (`Lookup`), without which an injection could be believed on the
evidence of another text.

`CarriedTheorem` (`SelectedIsCarried`) is for replies that ask no shell command to
read a file (`OfficialOnly`, kept as `NoShellRead`) and files that are not deleted, with
any budget, forks, races and restarts. Where the projection is sent it has the
file. Where it is left out, the latest official read of the file has the current
bytes (`InlinedAtTheRead`) and stays (`ServedResult`), unless the call was last sent as
one over budget and gets that marker again; then `QuoteOmitted` puts the bytes back
(`QuotedAtTheRead`). No other omission was ever committed (`AllPresent`). With a
shell read in place of the official one it is false, as said in section 3.

`ArchiveTheorem` (`MaskedIsRecoverable`) is for one branch without restarts, races and
deletions, with any tools. What a read showed is in the archive once its event is
over (`Archived`), and until then the file is what the read showed (`JustShown`). The
archive would be lost with the last active call of its unit, so each unit has one
(`Tended`). That needs the order of the calls (`InOrder`): when the event of a read
tracks it, it must be the latest of its file, for which every tracked call has to
stand before those that still wait, which are of one reply and run by their
numbers. `Steady` joins the four; TLC checked it of a small instance before it was
proved.

### HoldoutProtocolProofs

`TypeCorrect`, `RecordedTheorem` (`RecordedIsKept`), `FrozenFirstTheorem` (`FrozenFirst`),
`SealedTheorem` (`SealedIsEarned`) and `WholeTheorem` (`VerifiedIsWhole`), for generated
packs and bound ones, with and without workflows, for any drafts, versions and
numbers of commits and freezes. The invariant comes in layers, because what a tree
holds may have been written by a command, copied by a commit, or unpacked from an
archive of any earlier state:

- `Typed` gives every tree the shape of its files and records.
- `Dated`: a manifest, edited or not, keeps the stamp of its freeze and thereby its
  digest, and lies only in commits made after that freeze. So a phase that has
  checked its tree works on a frozen manifest (`CompleteIsFrozen`).
- `Founded`: every run and report, wherever it lies, is of a frozen manifest and its
  code, and so is the command in progress while others commit. Histories only
  grow, which keeps all of this true (`HistoryExtends`, `FrozenStays`). This is
  `FrozenFirst`. `Unrecorded`, that a phase about to produce has no record yet, gives
  `RecordedIsKept`.
- `Sealed`: attestations are of frozen commits, and a sealed state is the one
  the workflow wrote, whose traces, results and report are what the manifest
  promises. A tree that verifies has the results and the report of its state, and
  its traces if it has any. No command of the developer seals, whatever
  attestation lies in the tree. `SealedTheorem` rests on `Typed`, `Dated` and this.
- `Staged`, where artifacts are not changed or deleted by hand: the records of a
  later phase lie on those of the earlier ones in every tree.
- `Kept`, under the same premise: a state records nothing else than
  what the manifest of its digest promises (`Recorded`), archives are whole, and a
  work tree that has run holds what it promises (`WorkWhole`). The hard case is a
  commit of the manifest and the state alone (`CommitsWhole`): it may set the state
  of a pack begun anew over the report of an older one. The last commit then has
  no report, or one over the very artifacts of the work tree (`Linked`), since
  generate starts only where the last commit has none.

What a step writes is one lemma per action (`FreezeMoves` to `PipelineMoves`), and
the layers are proved from these without expanding an action again.

### What is only model-checked

- Liveness (`endings`), since liveness under fairness is outside the prover, and
  with it the second half of `KeepsPromise` of `EngineClient`.
- `SteadyTellsTheTruth` as it stands in the modules of the runs: its parts are
  theorems, under the hypotheses that set its worlds apart, but for `MarkersAreTrue`
  of Pi.
- `ShellReadsAreExact` and `DumpsAreNamed`, see `ShellRead` below.
- The properties of `RegionLife`: `Anchors` computes with sums and searches over sets
  of positions, whose value is the claim.
- `Projection` and `PiCodec`, which compute by folds over texts and histories: what a
  fold returns for every input is induction over data, which the prover cannot do
  in general. `ShellRead`, `ShellDumps` and the labs, whose claims are about tables
  of sample commands and files.

## 6. What is not modelled

- Term matching of the task text (its count is an input), rendering of Markdown,
  hashing and path normalization (identities), parsing (answers of the engine),
  telemetry, and CRLF, which every entry point folds first.
- `rewriteHistoricalReads` (transcript.mjs) and the rewriting step of
  `buildRequest`: only baselines of the benchmarks call them.
- In the hosts' models: regions and symbols (offset and limit reads), compaction
  of the transcript, the Hermes options of the semantic engine, its rules for
  tails.
- In the shell models: splitting into words, quotes, expansion, `./` before a path.
- The other handlers of the Pi replay adapter, which mirror the extension; the
  Hermes replay, which runs the bridge.
- In the holdout protocol: texts of reports, the attestation service behind its
  stub, the guards in the workflow files, `registry.mjs` as an implementation file
  (the protocol does not compare it), `assertClassificationAdvancement` (nothing
  calls it) and the branch of verify for a claim above what was earned (it cannot
  be reached).
- The semantic engine's parser, the grammars, install and layout tools, repository
  scripts, statistics, autoresearch and live trials: sequential input and output,
  or outside what a model checker can tell apart.

## 7. Plan

1. Proofs over the modules that have theorems: that what a fork drops comes back
   when the user returns and reads again, and a repair of the omission that
   `hermes_omitted` finds, stated as an invariant first.
2. Regions in the hosts: units with lines in `RequestPrune`, so that two reads of
   a file make two units and the ids of `FreshRegistry` meet the calls of the
   adapters.
3. Compaction of the Hermes transcript and the tails of Hermes reads.
