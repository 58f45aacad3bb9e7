# Verification of mercurio-sysml

TLA+ models of the parts of mercurio-sysml that keep state, order steps or talk
to something that can fail; the TLC runs that check them on small instances;
and TLAPS proofs of what matters most for every instance. Paths below are
relative to the repository root; `lib` stands for `crates/mercurio-sysml/src`.

- [1. The system](#1-the-system)
- [2. The modules](#2-the-modules)
- [3. The runs](#3-the-runs)
- [4. Fairness](#4-fairness)
- [5. The proofs](#5-the-proofs)
- [6. Where code and documentation disagree](#6-where-code-and-documentation-disagree)
- [7. What is not modelled](#7-what-is-not-modelled)
- [8. Plan](#8-plan)

## 1. The system

mercurio-sysml compiles SysML and KerML text to a graph of elements (KIR) and
analyses that graph. It is a library (`crates/mercurio-sysml`), a command line
(`crates/mercurio-sysml-cli`) and maintainer tools (`crates/mercurio-tools`).
The graph, the mutation engine, local package repositories and the simulation
engine belong to `mercurio-foundation`, which is not in this repository.

| Component | State it keeps | Operations | What is hard | What makes it correct |
|---|---|---|---|---|
| State machine execution (`lib/behavior/mod.rs`) | active configuration, trace, diagnostics of one call | `execute_scenario`, `validate_structure`, `enter_state_configuration`, `select_transition` | a configuration is built by climbing to the root and descending default children, one event after another; errors show events later | configurations are legal; the trace is continuous and every step justified; failures come before the first step |
| Projection of machines, behaviour capability (`lib/behavior`) | none: graph to records | `project_state_machines`, `apply_default_initial_state`, report of findings | the start state is chosen by default rules in two places | what validation calls unreachable is never entered |
| Constraint solver (`lib/constraints.rs`) | known values, explanations, records, diagnostics | `solve_constraints`, `render_constraint_graph`, capability status | results depend on the order of sources and on a cap of rounds; inverse operations | fixpoint before the cap; nothing known is overwritten; explanations are a derivation; inferred values satisfy their equation; Passed hides nothing |
| Parse session (`lib/parse_session.rs`) | text, revision, snapshot | `open`, `apply_edits`, readers | stale clients; byte offsets of several edits; modules of older texts | a revision names one text; edits land where they say; snapshots say what they show; the outline survives typing |
| Activities (`lib/simulation/mod.rs`) | completed nodes and steps of an activity | `execute_activity_binding` | cycles, dangling flows, the order within a round | rounds are the layers of the graph; blocked is what cycles lead to; Passed is the whole activity |
| Analysis cases (`lib/analysis.rs`, `lib/simulation`) | specification, readiness and plan of a case; the reports of its run | `project_analysis_spec`, `scenario_from_analysis_case`, `run_analysis_case` | two readings of one case in two files; three kinds of reports and many statuses become one | what is simulated is what the specification says; Passed is the whole case; every run ends |
| Lowering and resolution (`lib/language_frontend/lowering`) | name, alias and import tables of one compilation | collect, resolve, elaborate, emit | nested scopes, alias chains, clashing imports, features found through types; no visited set where names lead back | names are lexically scoped; imports bind what all of them agree on; references name what is emitted; an overflow takes a cycle |
| Compilation with recovery (`lib/parser.rs`) | working module, diagnostics, attempts | `compile_sysml_text_with_context_report` | a fault is stripped or pruned, the tables are rebuilt, the next attempt finds another fault | nothing is dropped without a report; ok means complete; a bounded number of attempts |
| SysML parser (`lib/parser.rs`) | token position, recovery diagnostics | strict and recovering parse | an error inside a statement inside a body, and where the parser goes on | recovering without a diagnostic is strict; spans nest; an error costs its own statement only |
| Baseline cache (`lib/parser.rs`) | process-wide map from locator to shared document | `shared_sysml_baseline_from_locator` | unlocked while loading | all callers share one document |
| Other caches (`lib/mutation.rs`, `lib/language_frontend/lowering/indexes.rs`) | process-wide maps | rule packs, library indexes | keyed by address; overwritten on insert | a hit belongs to what was asked for |
| Package exchange (`crates/mercurio-sysml-cli/src/main.rs`) | files of an HTTP repository, local repositories, what a client has read | `package publish`, `package install` | two files and two requests; kills, lost answers, repeats, concurrent publishers | a manifest follows its package; what is installed was announced; a mismatch takes two packages; only `--force` replaces |
| Release qualification (`crates/mercurio-tools/src/bin/qualify_pilot_release.rs`) | candidate and profile directories, two registries, traces | stage, build, compare, promote | a crash between copy and registry; unlocked read-modify-write; a shared output directory; the next build embeds what is there | one latest entry; what is registered is on disk; a promotion stands and is what was compared |
| Replay and authoring (`lib/replay.rs`, `lib/mutation.rs`, `lib/authoring.rs`) | gestures, blocked constructs | derive and replay gestures | several passes over one model | every construct is replayed or reported |
| Audit and extraction tools | reports | batch comparisons | none but a polled child process | - |

The parts meet in three ways. An editor keeps a *parse session* and compiles
its text by *lowering* against the *baseline* it takes from the cache. The
graph that comes out is what *state machines*, *activities* and *constraints*
are projected from; each of these runs is one call on an immutable graph, so
they do not interleave. The *command line* compiles, runs the analyses and
exchanges packages with a *repository server*, where several processes do
interleave. The libraries all of them compile against are put into the
repository by *release qualification*, and are embedded by the build.

The hazards these components are exposed to, each at its line, are listed in
`PROJECT.json` together with the properties that would catch them.

## 2. The modules

A component's module carries, beside its actions, the faulty variants of some
definitions ("Seeded fault"): single-edit mistakes used to confirm that each
property notices one. No specification refers to them.

### State machines: MachineStructure, StateMachine, ScenarioRun

`MachineStructure` is the data: machines as records, the default initial state
(`apply_default_initial_state`), the findings of `validate_structure`,
`reachable_state_ids` as a least closed set, transition selection, and the
declarative notion of a configuration. Ids are numbers and the Vec order is
their order, so that "the first match" has a meaning.

`StateMachine` is `execute_scenario` with one action per loop iteration:
`Validate` (all of validation and the choice of the start state), `Ascend`
(`ancestor_path`), `Descend` and `Entered` (`enter_state_configuration`),
`TakeTransition`, `Block`, `Complete`. The branch for a transition whose target
cannot be entered is kept (`EntryFailed`); `FailureIsExplained` shows it is
never taken after validation.

`ScenarioRun` is the abstract specification: entering a configuration is one
step, and the configuration entered is described, not computed.
`ImplementsScenarioRun` states the refinement (`consumed <- Len(steps)`).

### Constraints: ConstraintSolver, ConstraintExpr, ConstraintAnalysis

`ConstraintSolver` is `solve_constraints`: rounds over the sources in id order,
one `Infer` or `Skip` per source, `NextRound` and `StopSolving` with the cap of
eight rounds per source, then `Finalize` per source and the status of the run.
The arithmetic is a parameter of the module.
`ConstraintExpr` is the arithmetic (`eval_number`, `solve_for`, the verdicts).
What the code computes by recursion over expression trees is a recursive
function on `Expr`, a set of expressions closed under operands, whose `Height`
is bounded by `Depth` (`ExprAssumption`); an f64 is an exact fraction and an
`Option` a set of at most one value. `ConstraintAnalysis` puts the two together and states
what is promised about the numbers. Two context entries with one bare name are
written in the order of a map: `GivenValues` lets either win.

### Parse session: TextEdits, ParseSession, VersionedText

`TextEdits` is `apply_text_edits`: the stable sort, the checks with their order
of precedence, back-to-front replacement, the running byte delta, and
`text_ranges_touch`. A text is a sequence of bytes some of which cannot begin a
character. `ParseSession` is the session with any number of clients: `Read`,
`SendEdits`, `SendNothing` (the empty batch), `Refused`. Each client remembers
the revision and text it has read, and sends batches against it; everything
`apply_edits` does to text, revision and snapshot is one action, because it
holds `&mut self`. The parser is a parameter, a module the preorder of its
declarations. `VersionedText` is what a client may rely on: only who has read
all of the text changes it.

### The SysML parser: TokenScan, DeclarationParser, EditedSource

`TokenScan` holds the functions of `parser.rs` that only move over tokens:
names, adornments, expressions, opaque statements, lookahead, the recovery from
an error. `DeclarationParser` holds those that parse declarations, each as an
operator from a place to a scan (where it ends, what it made, which diagnostics
it added), for the strict and the recovering parser at once. A declaration
keeps what something is decided by: kind, keyword, span, members. The lexer is
another crate's; a token is its kind, or its text when that matters.

`EditedSource` puts this parser under the session: a byte of the text is a
token, blanks and bytes that do not lex excepted. The properties of the parser
are about every text a session shows, edited or not.

### Compilation: CompileAttempts over ModuleResolution

`CompileAttempts` is the control of the compilation of one file. An attempt goes
through the stages of the code: `BuildTables`, `ResolveImports`, `BindAlias` for
each binding of each import, `FinishImports`, `ResolveDeclaration` for each
declaration in the order of the code, `ValidateMetadata`, `Emit`. A fault leads
to `Recover`, which strips a type, prunes a declaration or gives up, and starts
the next attempt on the module that is left. What is collected of a module, the
order it is resolved in, the check of its metadata and the elements it is
emitted as are those of the code: `ModuleCollection`, `MetadataValidation` and
`ElementEmission`, modules without RECURSIVE operators, so that proofs can be
about them. What a declaration is resolved to is a parameter (`TablesOf`,
`ImportIdOf`, `BindingsBy`, `AskedBy`): neither the recovery nor the shape of a
document depends on it, and both are proved for all of them.

`ModuleResolution` is what the code puts in the place of the parameters;
`PartialCompile` instantiates the control with it and states what the names of
a document have to be. `CompiledModule` declares what is compiled, with what is
assumed of it, the state of a compilation, and what is promised of it whatever
names come to. The lowering is written by source file: `ElementIds` (ids and qualified names), `ModuleCollection` (collect.rs,
indexes.rs: declarations, usages, features, in the order they are collected;
the recursive descents are one function, `Walk`, over what each visits),
`NameResolution` (names and types),
`FeatureResolution` (features through scopes, types, redefinitions and
subsettings, with the sets of visited usages and definitions that a failed
attempt leaves behind), `UsageResolution` (what a declaration asks for, in
order; expressions), `ModuleResolution` (the tables, the imports and the names
they bind; the place of each name in the order of texts, `Rank`, for what the
code visits in the order of a BTreeSet), `MetadataValidation` (the values in metadata), `ElementEmission`
(ids, owners and members; ids that repeat). A name is the sequence of its segments. Of two
declarations of one name the tables hold the one inserted last, and each is
resolved as itself. A module that cannot be collected is given up
(`NotCollected`): of the constructs that the parser makes, that is
`conjugatedPort def` alone, for whose rule the collection has no arm
(`Uncollectable`). The depth of the call stack is a number, `Fuel`: a call that
uses it up never returns, which is what the code's recursion without a visited
set comes to.

Two abstract specifications lie above `CompileAttempts`. `ImportAliases` is the
table of imported names alone, and is what it runs for its bindings.
`CompileRecovery` is what the recovery promises of any forest of declarations;
`CompilesAsPromised` states the refinement.

### Releases: ReleaseQualification over BaselineCache

`BaselineCache` has one action per locked section of
`shared_sysml_baseline_from_locator` and one for the load between them, for any
number of threads. Documents are numbered as they are loaded, which makes "the
same Arc" a comparison. Poisoning is left out: nothing panics while the lock is
held.

`ReleaseQualification` extends it by where the documents come from. Its state
is the part of the file system the tool writes: the candidate in each output
directory (files and registry), the profiles in the resources (files, registry,
traces), and the place every run has got to. Its actions are the writes of a
run in the order of the code (stage the candidate, build the library, compare,
gate, copy the profile file by file, write the registry, write the trace), the
failure of a promotion (`PromotionFails`), which takes back nothing of what it
has written, the end of a run by a crash at any of them, and the build that
embeds the registry and starts new processes with an empty cache. Other tools a
run calls only pass or fail and leave a file. Every file of the resources is
written in two steps, cut off and in full, since `fs::copy` and `fs::write`
truncate first: `OpenCopy` and `CopyFile`, `TruncateRegistry` and
`WriteRegistry`, `OpenTrace` and `WriteTrace`. What is in the output directory
is staged in one step: a candidate that a dead run has left half staged is staged
anew by the run that promotes it. Of two runs that write one file at a time
the later one decides what is in it: that their pieces may mix is left out, and
no property claims anything of the contents then. A directory comes into being
with its first file: a run that dies between `create_dir_all` and the first
`fs::copy` leaves an empty one, which refuses later promotions as one with a
cut-off file does.

### Activities and analysis cases: ActivityExecution, AnalysisCase, AnalysisRun

`ActivityExecution` is `execute_activity_binding`: `NoNodes`, `Collect` (flows
to edges, diagnostics for the ends that do not resolve), `Round`, `Report`.

`AnalysisCase` has the two readings of a case side by side: the specification
of `analysis.rs` (`Subjects`, `Bindings`, `Techniques`, `Readiness`, `Plan`,
`Artifacts`, `SpecValue`) and the scenario of `simulation/adapter.rs`
(`Pairs`, `ScenarioFails`, `ScenarioValue`). A case is a record of what it
declares; elements are their ids. The labels of machines and subjects, several
features of one subject, and assumptions of one segment are left out, and which
elements are calculations, constraints, requirements, views or concerns is
given: that is read off the kinds of elements, partly by another crate.

`AnalysisRun` is `run_analysis_case`, over both: project, simulate, analyse the
constraints (each of these may fail and end the run), execute the activities one
by one (each step of an execution is a step of `ActivityExecution`), make the
report of the activities, conclude. An
action's activity (`ActivityOf`) is its nodes and every flow of its own or of
another action that touches them, with ends resolved by id or by first or last
segment (`Resolve`). The simulation engine may refuse or end in any status, and
the constraints may have any; what they do is `StateMachine` and
`ConstraintSolver` in their own runs.

### Package exchange: PackageExchange

One coordinate of a repository server, publishers and installers. One action
per request or local read, in the order of the code: a publisher reads its
manifest, probes, reads and checks the package, PUTs the package, PUTs the
manifest; an installer checks its target, GETs the manifest, GETs the package
and compares digests, stages. `Fail` is a kill or a failed GET anywhere. A PUT
that the client gave up may still arrive (`late`, `Arrive`) or never. `Restage`
replaces a publisher's local package at any time. The server (a PUT replaces a
file), the late arrival and `stage_kpar` are external to the repository and
modelled from how the code uses them. The digest is any function; a manifest is
reduced to its digest, because name, version and kind are checked to be the
expected ones and the file name is derived from the coordinate.

## 3. The runs

| Run | Instance | What it shows |
|---|---|---|
| `scenarios` | every acyclic hierarchy of at most three states with every choice of initial states, orthogonal or not, two source orders, five transition lists (missing ends included); one nested hierarchy of four states under every pair of 36 transitions; four scenarios (default and given start, `max_steps` 0 and 64) | legal configurations, continuous and justified traces, explained failures, and the refinement of `ScenarioRun` |
| `unreachable` (violation) | the nested hierarchies | a state reported unreachable is entered |
| `propagation` | three of seven equations in every order, two lists of further sources, four contexts | fixpoint before the cap, stable knowledge, grounded explanations, inferred values that hold, Passed means decided |
| `isolation` (violation) | the same | an equation that gave its variable a value is reported inconsistent |
| `edits` | two clients, six texts with every batch of one edit and of an insertion with a deletion, in either order, offsets up to 4, multi-byte characters included; and sessions opened on every row of right and wrong statements of a pool, in every body | stale clients edit nothing, edits land where they say, changed declarations are the innermost ones, snapshots are honest, outlines are kept, refinement of `VersionedText`; recovering without a diagnostic is strict, spans nest, an error in a statement costs no other |
| `siblings` (violation) | the rows of statements | a declaration behind an error is lost |
| `compile` | one module of thirteen families (scopes, nested scopes, imports, aliases, metadata, expressions, features, other constructs, no package, loops, inheritance, names of the library, a definition that cannot be collected), every choice of names in it; two limits of attempts | unanimous imports, lexical scoping, references and members that exist, overflow only on cycles, unresolved first types that cost nothing, refinement of `CompileRecovery` |
| `dropped` (violation) | a package and a second declaration in it or beside it, with further types | an unresolved type loses a declaration: the one beside the package, or that of a further type |
| `release` | two runs, six command lines, two output directories, the default profile and two new ones, two threads and two loads (symmetric) | one latest entry, what is registered is on disk and in full but for a trace, promotions stand, one document per locator, cached documents are what was promoted |
| `activity` | cases of one subject with every activity of four nodes and at most four flows, loops included, or two activities whose nodes share names with at most two flows of either; cases with every list of a pool and every choice of native subjects, types and machines; scripts, values, and sets of what a case may declare | layers, blocked nodes, Passed activities and cases are whole, the simulation is of what is specified, every run ends |
| `exchange` | two publishers, one forced, one installer, two packages | manifests follow packages, installed packages were announced, a mismatch takes two packages |
| `overwrite` (violation) | the same, nobody forced | a publication is replaced without `--force` |

**Bounds, and why they are enough.** Three states are the least that give a
root, a compound child and a sibling; the fourth level comes with the nested
family, where the selection of a transition from an inner and an outer state of
one configuration needs two transitions and no more. Three equations make
chains that need one, two and three rounds depending on their order. Two edits
are what the sort, the overlap check and the byte delta can tell apart; a third
repeats the step from the first to the second. Two edited revisions let a
client fall behind, and the fallback module outlive a bad text. The rows of the
parser have two statements, one of them wrong, or a third between them: what an
error costs is its neighbours. A compiled module has up to ten declarations,
which its families combine with every name that can be written in the place of
another; `Fuel` 12 is more than any call without a cycle takes in them, and
`Limits` 2 stops a recovery that 8 lets end. Two release runs are the first and
second of a race, a retry or a sequence; two threads are one that loads and one
that comes late. In `release` the processes load promoted profiles only
(`PromotedAreLoaded`): no run can change the directory of the default one. Four
nodes hold a cycle, a node before it and one behind it. Two subjects are the
one that is listed and the one that is not, two machines the one that is meant
and the first in order. Two publishers and two
packages are what a race and a mismatch take; the client actions are unbounded
in number (every client starts again for ever), the state space is finite
without a bound. `MaxRevision`, `MaxLoads` and `Fuel` are the only caps on
counters.

`CHECK_DEADLOCK FALSE` is set where the system really stops: single calls that
return (`StateMachine`, `ConstraintSolver`, `AnalysisRun`,
`PartialCompile`) and the release runs, each of which ends. Sessions and the
exchange never stop and are checked for deadlock.

## 4. Fairness

`CaseSpec` of `AnalysisRun` has weak fairness of the whole next-state relation:
the run of a case is one synchronous call that runs to its return, with nothing
to wait for. It carries `EveryRunEnds` (whatever the activities of a case are):
the rounds of an activity go on until one finds nothing to execute, and that
one comes on every graph. Nothing of the kind is claimed of `execute_scenario`,
which is a `for` over the events, with walks along a finite path in between: it
ends on every hierarchy and hangs on every parent cycle (section 7). The cache,
the session, the releases, the exchange and the compilation are specified
without fairness too: a thread may stall, a client may stop, a run may die, and
only safety is claimed. That a compilation makes no more attempts than
the limit is safety (`OkMeansComplete`).

## 5. The proofs

Each component's theorems are in `<Component>Proofs` (those about
`BaselineCache` in `ReleaseProofs`). They hold for every value
of the constants that satisfies the named assumptions of the modules: types of
the inputs, "no value" distinct from values, that a search through a list
finds a first match (`StateIsListed`), and what a parser does with a text
(`ParseAssumption`). TLC evaluates each on the runs of its module.

- **StateMachineProofs**: `TypeCorrect`, `ConfigurationsAreLegal`,
  `FailuresAreExplained`, `TracesAreContinuous`, `RecordedStepsAreJustified`,
  `Implementation`. The invariants are not inductive:
  they say nothing of a path under construction. `IInv` adds what the two loops
  keep: while climbing, the path is a chain that begins below the cursor and
  ends in the target (`AscendInv`); while descending, it begins at a root and
  continues from the target by default children (`DescendInv`); and the
  configuration left is still legal and the transition still the one selected
  (`InFlight`). Refinement follows: only `Entered`, `Block`, `Complete` and a
  failing `Validate` are visible in `ScenarioRun`. The two trace theorems rest
  on a second invariant over the first (`TraceInv`): only `Entered` and `Block`
  append, `DescendInv` puts the target of the transition into the new
  configuration, and `InFlight` says that it was selected for this very event.
  Parent cycles are included.
- **ConstraintSolverProofs**: `TypeCorrect`, `KnowledgeStays`,
  `DerivationsAreGrounded`, `FixpointIsReached`, `PassedRunsAreDecided`, for any
  sources and any arithmetic. `IInv` adds that every finished round inferred
  something (`RoundsInfer`) and that a round without an inference has left only
  sources with nothing to infer behind it (`NothingLeftBehind`). No source
  explains twice, since its variable is known afterwards; so there are no more
  explanations than sources (pigeonhole), no more rounds than explanations and
  one, and the cap of eight per source is out of reach. `PassedRunsAreDecided`
  assumes `LegalVerdicts`: a source is given one of the verdicts of its kind
  (`CodeIsLegal`: so does the code's arithmetic). `IsolatedValuesHold` is about
  that arithmetic (`CodeArithmetic`, the parameters of the runs) for every
  finite set of expressions closed under operands (`ExprAssumption`) and all
  fractions. `ExprRecursion` and `ExprInduction` (both from the least height at
  which they would fail) give the equations of `Eval` and `SolveFor`;
  `GoalsInvert` says that each goal is what the operation takes back to the
  desired value, by products of integers alone; `SolutionSolves` carries this
  down to the variable. `InferenceInv` keeps, of every explanation, that its
  value was isolated from some of what is known now; what has a value keeps it
  when more is known (`EvalGrows`), so the verdict at the end is Satisfied. The
  theorem is of exact fractions; the rounding of f64, within which the code
  compares, is not modelled.
- **ParseSessionProofs**: `RevisionsNameTexts`, `Implementation`,
  `SnapshotsAreHonest`, `OutlinesAreKept`, for every parser and whatever the
  edit arithmetic does. The invariant adds that no client has seen a revision
  newer than the session's, without which a new revision could collide with one
  already seen. `TypeCorrect`, `ReplacementsAreInPlace` and `InnermostAreReported`
  are about that arithmetic, under two hypotheses that any text satisfies:
  `LegalBatches` (the clients send sequences of edits with ranges and texts) and
  `LegalParses` (the parser answers a text with one of its errors or a module
  that lists the declarations in preorder, as the recursive descent does). In a
  batch that is applied, every edit lies behind the last character written, so
  by induction over the edits the new text holds each replacement where the
  reported range says, and what lies between is what lay between before. For the
  declarations, preorder makes the one the update reports the smallest that
  holds the change: any other one around the change is one of its owners.
  The definitions by recursion over a list of edits or declarations are
  functions; that they unfold at every argument is itself proved
  (`SetInduction`, from the least argument at which they would not).
- **ReleaseProofs**: `TypeCorrect` and `DocumentsAreShared` of `BaselineCache`,
  for any number of threads, locators and loads (the invariant is inductive as it
  stands); `LatestIsUnique`, `RegisteredStaysComplete`,
  `SharedAcrossRestarts`, for any number of runs, profiles, command lines and
  threads. `IInv` says of every run what it has written by the place it has got
  to, of the candidates it reads that none of their files is missing, and that
  no run ever takes a file away, though it may cut it off; the registry is
  rewritten from what the run read of it. That two runs read it at the same time
  can lose an entry, but never makes two latest ones or lists what is not there.
  That what is listed is also in full (`WholeInv`) needs runs that keep apart,
  and excepts the trace: it is written after the registry, so a run that is
  writing it, or died in it, leaves a registered profile with a cut-off trace
  (`CutShort`).
  `PromotionsStand` and `CachedStaysPromoted` compare what runs read at different
  times. `PromotionInv` is what makes them comparable: what parity and promotion
  agreed on is what is registered, a promotion that was made stays in the
  registry (`Undisturbed` says which runs are apart, so that none rewrites what
  it read before the promotion), and what a process caches is on the disk.
- **CompileProofs**: `RecoveryTypes`, `DropsAreReported`, `OkIsComplete` of
  `CompileRecovery` for every forest and limit, and `AliasesUnanimous` of
  `ImportAliases` for every list of imports: a bound name is the only target
  ever bound to it, an ambiguous one had two.
- **CompileAttemptsProofs**: `NamesAreUnanimous`, the same of a whole
  compilation, whatever the imports are resolved to; `TypeCorrect`;
  `ImplementsRecovery`, that the attempts refine `CompileRecovery`; and from it,
  with the theorems of `CompileProofs` taken through the refinement mapping,
  `PromisesHold`: nothing is dropped without a report, and "ok" is complete.
  `FirstTypesAloneCostNothing` is what is left of the promise that the run
  `dropped` refutes: a module that is one package or has none, and types that
  are the first of their usage, so that stripping finds them. `ResolvesOnce` says that no
  declaration is resolved twice in an attempt, `MembersAreNamed` that every
  member an element lists is emitted and names it as its owner. All but the
  first assume `LegalDemands`: a declaration asks for a list of references, and
  for a type only where a usage names one. It is a state predicate of the
  parameters; with the resolution of the code it holds in every state of the run
  `compile` (`Compiling!LegalDemands` as one more invariant). That imports,
  declarations to be resolved and metadata usages at fault are declarations of
  the module is proved. `ImplementsRecovery`, `PromisesHold` and
  `FirstTypesAloneCostNothing` are also of modules with `OnePackageOrNone` only,
  which is where the code keeps the promise; `MembersAreNamed` assumes `RepeatsAreAlike`,
  that usages which only their ids' copy number tells apart stand side by side
  with nothing in them. It is weaker than ids that are all different, the run
  has modules with such repeats, and without it the property is false
  (section 6).

  `IInv` says that the declarations are those of the module after some
  recoveries (`Variant`) and that a fault is placed at one of them, one with a
  type when it is about a type; `Closed` adds that what is kept stands in what
  is kept. `AroundUnfolds` proves that the recursion of `Around` has its
  equations (from the least declaration at which they would fail),
  `InsideIsClosed` that what stands in a declaration is what `Prune` of the
  specification takes out, and `NothingIsLeft` that a package around the whole
  module leaves nothing beside it to be lost.

  The rest is about the lowering as a function of a forest, of any size and
  depth. `WalksExist` and `WalkUnfolds` give `Walk` its equations, because every
  visit leads to a later declaration (`CollectionIsOnward`); `WalkFacts` is what
  holds of all it meets, `WalkOnce` that it meets nothing twice where the visits
  descend in the forest and are apart (`SiblingsApart`). From these come the
  trees of definitions and usages, that the lists they are joined to have
  nothing in common (`UsageOrderOnce`, `DefinitionOrderOnce`, `OutermostApart`)
  and so `ResolutionOnce`: the order of resolution lists each declaration once,
  although definitions in packages in definitions are reached on another way
  than nested ones. For the document, `Signs` names what each element stands for
  (a package, an import, a definition, its companion or a usage) and
  `RenderedIsMap` that the elements are the image of the signs, so that what
  emission does element by element can be said of declarations:
  `MemberUsagesFacts` and `PackageMembersFacts` are the ids an element lists,
  `MembersAreOwned` that each is the id of an element with this owner.
  `DisambiguatedFacts` carries it over the renaming of repeated ids: the first
  of an id keeps it, and another one is renamed only if its kind is
  disambiguated; so every id and owner that was listed is still there.
- **ActivityExecutionProofs**: `TypeCorrect`, `EveryStepIsALayer`,
  `BlockedNodesAreStuck`, `PassedIsWhole`. `IInv` adds that a node left waited
  already for the round before the last (so no node is executed a round late)
  and that no set of nodes waiting for one another is ever entered. On top of
  it, of the run of a case: `ActivitiesOfACase`, that the same holds of every
  activity it executes, and `PassedCasesAreWhole`. `CaseInv` counts the bindings
  (left, being executed, or with a status) and says what each stage must have
  reported; since one status is Passed only if all it is made of are
  (`AggregatePassed`), nothing can be missing from a case that is. Assumed is
  that a case binds finitely many activities, names its entries and machines in
  sequences and that no machine belongs to nothing (`CasesAssumption`).
  `ReadingsOfACaseAgree`: native execution, the validation and the values read a
  case through different searches, and of every case they accept they mean the
  same entry, machine and binding (`FirstIsOne`: the first match of a list with
  one match is the match).
- **PackageExchangeProofs**: `TypeCorrect`, `ManifestsFollowPackages`,
  `InstalledAreAnnounced`, `MismatchesMeanTwoPackages`, for any number of
  clients and packages and any digest. `IInv` says of every client what its
  next request rests on (`PublisherIsSound`, `InstallerIsSound`) and of the
  server that no manifest, late ones included, overtakes its package.

The type invariants of `StateMachine`, `ConstraintSolver`, `ActivityExecution`,
`ParseSession`, `BaselineCache`, `PackageExchange`, `CompileRecovery` and
`CompileAttempts` are proved and not model-checked: a run would show nothing the
proof does not. That of `ImportAliases` says what the variables are and is
repeated by no run: the property of that module says more.

**Only model-checked.** The liveness properties (liveness is out of the
prover's reach). The properties of the parser (`CleanIsStrict`, `SpansNest`,
`ErrorsStayInTheirStatement`) and those of name resolution
(`ReferencesNameElements`, `LexicalScoping`, `OverflowNeedsACycle`): both are
mutually recursive over a bounded stack, their modules use RECURSIVE operators,
and in such a module the prover loses its main backend. For the same reason
`LegalDemands` stays a hypothesis of the theorems about the attempts: that the
resolution of the code satisfies it is not proved.

## 6. Where code and documentation disagree

Each is a run that TLC refutes, with the lines quoted in `PROJECT.json`.

- `UnreachableIsNeverEntered`: `reachable_state_ids` starts from flagged
  initial states, execution may start in an unflagged root
  (`default_root_state_id`); states its transitions enter are reported as
  unreachable.
- `IsolatedIsNotInconsistent`: the product arms of `solve_for` do not descend
  into the operand: `(a + 1) * 2 == 10` gives `a = 5`, then "inconsistent".
- `ValidSiblingsArePreserved`: a `filter` without a condition is reported behind
  its semicolon, and the recovery skips the declaration that stands there.
- `KeptDespiteUnresolvedTypes`: stripping a type inside the first package makes
  that package all there is of the module (`parser.rs:913`); declarations beside
  it are lost without a report. And an unresolved additional type
  (`resolve.rs:708`) is reported as an `unresolved type` like the first one, but
  `strip_type_in_declaration` looks at `usage.ty` alone (`parser.rs:937`): its
  declaration is pruned, in every module. `CompilesAsPromised` holds for modules
  that are one package or have none, and there `FirstTypesAloneCostNothing`
  proves what remains of the comment, for the first types of usages.
- `OnlyForceOverwrites`: probe and upload are separate requests; two unforced
  publishers can replace one another.

Not disagreements, since nothing states otherwise, but worth knowing.

*Session.* An empty batch clears `changed_ranges` and keeps the
`changed_declaration_ranges` of the batch before it (`SendNothing`). Only the
first top-level package is searched for changed declarations.

*Parser.* A missing `;` swallows the next declaration (`part a part b;` is one
declaration). An unbalanced `(` in an opaque statement swallows its siblings,
an unclosed package loses everything in it. `filter` scans past a `}` to the
next `;`. A recovery that stops at a `}` takes the brace of the enclosing body.
`connection c {...} connect a to b` joins two declarations and loses the
members of the body. `expect_identifier_named` takes the token even when it is
another one.

*Resolution.* A file without a package cannot use its own definitions as types.
Aliases in a cycle, `part p :> t { part t; }`, and a package nested in one of
its own name together with an import of it overflow the stack. The id of a
feature has the prefix `feature.` whatever its construct, even one that a
library declares; usages at the root have `root` in the ids of their elements
but not in references.

*Emission.* References of one name on one line get one id, and the second a copy
of it with a suffix. What stands in the second still names the first as its
owner, and is renamed in turn, while the second goes on listing the id it had
(`ref r { ref s; } ref r { ref s; }`). `MembersAreNamed` excludes repeats with
something in them.

*Recovery.* The attempt after the last recovery is never made. A
`conjugatedPort def` that is written out cannot be collected: the compilation
fails with a diagnostic that has no place, so nothing is recovered.

*Analysis cases.* The readiness of a case is not asked for by its run: a
blocked case runs. An activity is reported as "not implemented yet"
(`analysis.rs:1117`), which makes the case Partial, and is then executed. The
specification takes usages and finds a nameless case by its label, the adapter
only definitions and, for the nameless, by the last segment of the id. A listed
subject without a `machine` but with a type that owns one is Ready, and its run
fails ("must define `machine`"). One native subject without a type, or of a
type without a machine, fails the whole run. A native that owns a machine
itself is bound to the one of its own or its type that comes first, while that
of its type is simulated. An empty list `subjects` hides the natives from the
adapter only. A machine named in the list that is the id of an element is a
subject too, and has its activities executed. A clock or events without any
binding expect a trace that is never made: alone they fail the run, beside
constraints the case may be Passed. Assumptions that name a listed subject that
is no native reach the constraints but not the simulation, defaults of
attributes the simulation but not the constraints. A flow of another activity
counts where a segment of its end names a node (`Touches`).

*Releases.* `build_stdlib_release` writes below `out/stdlib/kir`, the candidate
looks for `out/stdlib/stdlib.full.kir.json`, and the candidate is staged before
the library is built: it carries the bundled library and never the new one. A
promoted profile is not in the lists of `resources.rs`, so the next build stops
until somebody adds it. A crash between copy and registry makes every retry
refuse (the directory exists); a crash inside the write of the registry leaves
it truncated, which no later run can read; one inside the write of the trace
leaves a registered profile with a truncated trace, and one before it the
reference that was staged, which leads to no file there. Of two runs that promote one
profile at the same time, the later one truncates and rewrites files that the
first has registered. When the digest of the promoted files fails
(`collect_files`, `digest_paths`), the stage has failed and the entry stays
registered. Runs of different releases share the default output
directory. The overall status counts a skipped stage as passed, the promotion
does not.

## 7. What is not modelled

- The KerML parser, mapping rules, semantic defaults, metamodel tables and most
  properties of emitted elements: translations of trees and tables in one pass.
- The lexer (another crate), names, values, docs and modifiers that the parser
  decides nothing by.
- Several files in one compilation, and the KerML policy beyond what becomes of
  an unresolved name.
- Recognition of states, transitions, activity nodes and constraints among
  graph elements: the projected records are the input of the models. Machines
  in the runs are acyclic; `ancestor_path` does not return on a parent cycle,
  which is listed as a hazard.
- Labels, messages, explanations, ordering of output lists, rendered views.
- Floating point: fractions are exact and `nearly_equal` is equality, so
  rounding, overflow to infinity and the tolerance are outside the model.
- Text of several lines: `span_to_text_range` is modelled for one line, where
  the clipping to the new text is the same.
- Locks, fingerprints, metrics and reports of a release run, and the tools it
  calls beyond whether they pass and what they leave.
- Local package repositories, the mutation engine and the simulation engine
  (`mercurio-foundation`).
- Assessment, requirements, replay, authoring, the maintainer tools:
  see the components of `PROJECT.json`, with the reason for each.

## 8. Plan

Modules are written so that they can be proved about: parameters as CONSTANTS
with named assumptions, one action per operation, RECURSIVE operators only in
modules that runs alone use (recursive functions elsewhere). Done, in this order: StateMachine (with ScenarioRun),
ConstraintSolver, ParseSession (with VersionedText), BaselineCache,
ActivityExecution, PackageExchange, the compilation (with ImportAliases and
CompileRecovery), the parser, ReleaseQualification, AnalysisCase and
AnalysisRun. What would come next, in order of weight:

1. *LibraryIndexCache*: the index cache keyed by address, length and hash of
   ids, with libraries that are freed and allocated anew: a hit must belong to
   the library asked for.
2. *Several files*: collection, imports and aliases over a list of modules.
3. *Emission*: the references among the properties of elements.
4. *Replay*: bookkeeping of blocked constructs over the passes.
