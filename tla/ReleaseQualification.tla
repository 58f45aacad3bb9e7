------------------------ MODULE ReleaseQualification ------------------------
(***************************************************************************)
(* qualify_pilot_release (crates/mercurio-tools): runs that stage a        *)
(* candidate bundle, compare it with the Pilot and promote it into the     *)
(* repository's metamodel resources; the build of mercurio-sysml that      *)
(* embeds the registry of these resources; and the processes built from    *)
(* it, which read a profile's standard library through the BaselineCache.  *)
(* Runs share the repository and possibly an output directory, none takes  *)
(* a lock, and any of them may die between two steps.                      *)
(***************************************************************************)
EXTENDS BaselineCache

CONSTANTS
    Run,        \* the runs of the tool, finished, dead and to come
    OutDir,     \* the values of --out
    Args,       \* the command lines: [profile, out, skipBuild, skipParity, promote, latest]
    Generated,  \* Generated[o]: <o>/stdlib/stdlib.full.kir.json
    Default,    \* DEFAULT_PROFILE_ID, the profile the repository starts with
    Library,    \* the contents a standard library can have
    Bundled,    \* the library of the default profile
    NoFile,     \* a file that is not there
    Truncated,  \* a file cut off at the start of its writing: nobody can parse it
    Reference   \* the trace file of a bundle nobody has qualified yet

\* A profile is known by its id, its release by the profile it defaults to,
\* and its library by the locator of its stdlib.full.kir.json.
Profile == Locator
File == {"profile", "stdlib", "trace"}
Absent == [f \in File |-> NoFile]
Shipped ==
    [f \in File |->
        CASE f = "profile" -> Default [] f = "stdlib" -> Bundled [] f = "trace" -> Reference]

Status == {"absent", "supported", "latest"}
Registry == [Profile -> Status]

\* Args::parse
ASSUME ArgsAssumption ==
    /\ Args \subseteq [profile : Profile, out : OutDir, skipBuild : BOOLEAN,
                       skipParity : BOOLEAN, promote : BOOLEAN, latest : BOOLEAN]
    /\ \A a \in Args : a.latest => a.promote
ASSUME DefaultAssumption == Default \in Profile
ASSUME LibraryAssumption == Bundled \in Library /\ Generated \in [OutDir -> Library \cup {NoFile}]
ASSUME TruncatedAssumption == Truncated \notin Registry \cup Profile \cup Library \cup Run \cup {Reference}
ASSUME NoFileAssumption == NoFile \notin Profile \cup Library \cup Run \cup {Reference, Truncated}

VARIABLES
    stage,      \* what each run does next
    args,       \* its command line
    bad,        \* the statuses other than "passed" of its stages so far
    compared,   \* the libraries its parity stages agreed with the Pilot on
    copied,     \* the files its promotion has copied
    open,       \* the file of the profile it has open for writing, cut off, or "none"
    rewritten,  \* the registry its promotion is about to write
    candidate,  \* candidate[o][p]: <o>/candidate/resources/metamodels/<p>
    listed,     \* the profile of the only entry of the candidate registry of o
    wrappers,   \* the profile of the wrapper package under <o>/stdlib/python
    bundles,    \* the profile directories under resources/metamodels
    registry,   \* resources/metamodels/registry.json
    wired,      \* the profiles resources.rs includes by name
    embedded,   \* the registry the running processes were built with
    text,       \* the content of each document they loaded
    contended   \* history: two runs got in each other's way

runVars == <<stage, args, bad, compared, copied, open, rewritten>>
outVars == <<candidate, listed, wrappers>>
repoVars == <<bundles, registry, wired>>
processVars == <<vars, embedded, text>>
releaseVars == <<runVars, outVars, repoVars, processVars, contended>>

Live(r) == stage[r] \notin {"idle", "done", "dead"}
Registered(p) == registry # Truncated /\ registry[p] # "absent"

ReleaseInit ==
    /\ stage = [r \in Run |-> "idle"]
    /\ args \in [Run -> Args]
    /\ bad = [r \in Run |-> {}]
    /\ compared = [r \in Run |-> {}]
    /\ copied = [r \in Run |-> {}]
    /\ open = [r \in Run |-> "none"]
    /\ rewritten = [r \in Run |-> Truncated]
    /\ candidate = [o \in OutDir |-> [p \in Profile |-> Absent]]
    /\ listed = [o \in OutDir |-> NoFile]
    /\ wrappers = [o \in OutDir |-> NoFile]
    /\ bundles = [p \in Profile |-> IF p = Default THEN Shipped ELSE Absent]
    /\ registry = [p \in Profile |-> IF p = Default THEN "latest" ELSE "absent"]
    /\ wired = {Default}
    /\ embedded = registry
    /\ text = [d \in Document |-> NoFile]
    /\ contended = FALSE
    /\ Init /\ key = [t \in Thread |-> Default]

-----------------------------------------------------------------------------
(* One run of the tool.                                                    *)

Goes(r, from, to) == stage[r] = from /\ stage' = [stage EXCEPT ![r] = to]
Mark(r, statuses) == bad' = [bad EXCEPT ![r] = @ \cup statuses]

\* main up to the first stage; the profile and the directories are the run's own
\* unless a live run has the same.
Start(r) ==
    /\ Goes(r, "idle", "staging")
    /\ contended' = (contended \/ \E o \in Run \ {r} :
           Live(o) /\ (args[o].out = args[r].out \/ args[o].profile = args[r].profile))
    /\ UNCHANGED <<args, bad, compared, copied, open, rewritten, outVars, repoVars, processVars>>

\* A new profile is staged from the default one. The library an earlier build
\* left in the output directory has priority, but build_stdlib_release writes it
\* to another place, stdlib/kir: it is there only if someone has put it there.
Source(p) == IF bundles[p] = Absent THEN bundles[Default] ELSE bundles[p]
SelectedLibrary(p, o) == IF Generated[o] # NoFile THEN Generated[o] ELSE Source(p).stdlib

\* What nobody can parse.
Unusable == {NoFile, Truncated}

\* What is missing in the source leaves what an earlier run has staged, and so does
\* a profile that cannot be parsed; a library is copied as it is.
Staged(p, o) ==
    [f \in File |->
        CASE f = "profile" -> IF Source(p).profile \in Unusable THEN candidate[o][p].profile ELSE p
          [] f = "stdlib" -> IF SelectedLibrary(p, o) = NoFile THEN candidate[o][p].stdlib
                             ELSE SelectedLibrary(p, o)
          [] f = "trace" -> Reference]

\* stage_candidate_bundle
Stage(r) ==
    LET p == args[r].profile
        o == args[r].out
    IN  /\ Goes(r, "staging", "artifacts")
        /\ candidate' = [candidate EXCEPT ![o][p] = Staged(p, o)]
        /\ listed' = [listed EXCEPT ![o] = p]
        /\ Mark(r, IF {Source(p).profile, SelectedLibrary(p, o)} \cap Unusable = {} THEN {} ELSE {"failed"})
        /\ UNCHANGED <<args, compared, copied, open, rewritten, wrappers, repoVars,
                       processVars, contended>>

\* pilot_java_artifacts_stage: without the Pilot's jar the rest is skipped.
FindArtifacts(r) ==
    /\ Goes(r, "artifacts", IF args[r].skipBuild THEN "wrappers" ELSE "build")
    /\ UNCHANGED <<args, bad, compared, copied, open, rewritten, outVars, repoVars, processVars, contended>>

MissArtifacts(r) ==
    /\ Goes(r, "artifacts", "gate")
    /\ Mark(r, {"failed", "skipped"})
    /\ UNCHANGED <<args, compared, copied, open, rewritten, outVars, repoVars, processVars, contended>>

\* build.rs: every registered profile must be included by resources.rs.
Buildable == registry # Truncated /\ \A p \in Profile : Registered(p) => p \in wired

\* The stages that run cargo (run_stage); the tools they run are external.
BuildStdlib(r, succeeds) ==
    /\ Goes(r, "build", "wrappers")
    /\ succeeds => Buildable
    /\ wrappers' = [wrappers EXCEPT ![args[r].out] = IF succeeds THEN args[r].profile ELSE @]
    /\ Mark(r, IF succeeds THEN {} ELSE {"failed"})
    /\ UNCHANGED <<args, compared, copied, open, rewritten, candidate, listed, repoVars,
                   processVars, contended>>

\* python_wrappers_stage: without a build the wrappers are generated from the
\* candidate, unless some other run has left its own; a candidate that cannot be
\* read is an error that leaves main (Die).
CheckWrappers(r, compiles) ==
    LET a == args[r]
        found == IF wrappers[a.out] = NoFile /\ a.skipBuild THEN a.profile ELSE wrappers[a.out]
        staged == candidate[a.out][a.profile]
    IN  /\ wrappers[a.out] = NoFile /\ a.skipBuild => {staged.profile, staged.stdlib} \cap Unusable = {}
        /\ Goes(r, "wrappers", IF a.skipParity THEN "gate" ELSE "syntax_parity")
        /\ wrappers' = [wrappers EXCEPT ![a.out] = found]
        /\ Mark(r, (IF compiles /\ found = a.profile THEN {} ELSE {"failed"})
                   \cup (IF a.skipParity THEN {"skipped"} ELSE {}))
        /\ UNCHANGED <<args, compared, copied, open, rewritten, candidate, listed, repoVars,
                       processVars, contended>>

AfterParity ==
    [syntax_parity |-> "semantic_parity", semantic_parity |-> "compile_diagnostics_parity",
     compile_diagnostics_parity |-> "gate"]

\* run_parity_stage, with the candidate's library as it is now.
Compare(r, agrees) ==
    LET library == candidate[args[r].out][args[r].profile].stdlib
    IN  /\ stage[r] \in DOMAIN AfterParity
        /\ stage' = [stage EXCEPT ![r] = AfterParity[@]]
        /\ agrees => Buildable /\ library \notin Unusable
        /\ compared' = [compared EXCEPT ![r] = IF agrees THEN @ \cup {library} ELSE @]
        /\ Mark(r, IF agrees THEN {} ELSE {"failed"})
        /\ UNCHANGED <<args, copied, open, rewritten, outVars, repoVars, processVars, contended>>

-----------------------------------------------------------------------------
(* The promotion.                                                          *)

\* Seeded fault: the gate asks overall_status, for which a skipped stage is fine.
GateOnFailures(r) ==
    LET passed == "failed" \notin bad[r]
    IN  /\ Goes(r, "gate", IF args[r].promote /\ passed THEN "promotion" ELSE "report")
        /\ Mark(r, IF args[r].promote /\ ~passed THEN {"skipped"} ELSE {})
        /\ UNCHANGED <<args, compared, copied, open, rewritten, outVars, repoVars, processVars, contended>>

\* append_promotion_stage
Gate(r) ==
    LET passed == bad[r] = {}
    IN  /\ Goes(r, "gate", IF args[r].promote /\ passed THEN "promotion" ELSE "report")
        /\ Mark(r, IF args[r].promote /\ ~passed THEN {"skipped"} ELSE {})
        /\ UNCHANGED <<args, compared, copied, open, rewritten, outVars, repoVars, processVars, contended>>

\* Seeded fault: the promotion relies on the check of promote_registry_entry.
PromotableLate(p, o) == candidate[o][p] # Absent

\* promote_candidate_resources before the copy, with validate_registry_promotion
Promotable(p, o) ==
    /\ candidate[o][p] # Absent
    /\ bundles[p] = Absent
    /\ listed[o] = p
    /\ registry # Truncated
    /\ registry[p] = "absent"

Validate(r) ==
    LET ok == Promotable(args[r].profile, args[r].out)
    IN  /\ Goes(r, "promotion", IF ok THEN "copy" ELSE "report")
        /\ Mark(r, IF ok THEN {} ELSE {"failed"})
        /\ UNCHANGED <<args, compared, copied, open, rewritten, outVars, repoVars, processVars, contended>>

\* Seeded fault: the registry entry is written before the last file is copied.
NextCopyEarly(done) == IF Cardinality(done) > 1 THEN "register" ELSE "copy"
NextCopy(done) == IF done = File THEN "register" ELSE "copy"

\* std::fs::copy and std::fs::write cut the file off when they open it.
Opens(r, f) ==
    /\ open[r] = "none"
    /\ open' = [open EXCEPT ![r] = f]
    /\ bundles' = [bundles EXCEPT ![args[r].profile][f] = Truncated]

Fills(r, f, content) ==
    /\ open[r] = f
    /\ open' = [open EXCEPT ![r] = "none"]
    /\ bundles' = [bundles EXCEPT ![args[r].profile][f] = content]

\* copy_dir_recursive: the files one by one, in the order of the directory.
OpenCopy(r, f) ==
    /\ stage[r] = "copy" /\ f \notin copied[r]
    /\ Opens(r, f)
    /\ UNCHANGED <<stage, args, bad, compared, copied, rewritten, outVars, registry, wired,
                   processVars, contended>>

CopyFile(r, f) ==
    LET done == copied[r] \cup {f}
    IN  /\ Goes(r, "copy", NextCopy(done))
        /\ Fills(r, f, candidate[args[r].out][args[r].profile][f])
        /\ copied' = [copied EXCEPT ![r] = done]
        /\ UNCHANGED <<args, bad, compared, rewritten, outVars, registry, wired, processVars, contended>>

\* Seeded fault: the entry that was the latest stays the latest.
WithEntryKeepingLatest(old, p, latest) ==
    [q \in Profile |-> IF q = p THEN IF latest THEN "latest" ELSE "supported" ELSE old[q]]

\* The registry with the entry of p, which demotes the latest one if p is to be it.
WithEntry(old, p, latest) ==
    [q \in Profile |->
        CASE q = p -> IF latest THEN "latest" ELSE "supported"
          [] q # p /\ latest /\ old[q] = "latest" -> "supported"
          [] OTHER -> old[q]]

\* promote_registry_entry up to write_json: the registry is read again.
ReadRegistry(r) ==
    LET p == args[r].profile
        ok == listed[args[r].out] = p /\ registry # Truncated /\ registry[p] = "absent"
    IN  /\ Goes(r, "register", IF ok THEN "truncate" ELSE "report")
        /\ rewritten' = [rewritten EXCEPT ![r] =
               IF ok THEN WithEntry(registry, p, args[r].latest) ELSE @]
        /\ Mark(r, IF ok THEN {} ELSE {"failed"})
        /\ contended' = (contended \/ \E o \in Run \ {r} : stage[o] \in {"truncate", "write"})
        /\ UNCHANGED <<args, compared, copied, open, outVars, repoVars, processVars>>

\* std::fs::write truncates the file before it writes.
TruncateRegistry(r) ==
    /\ Goes(r, "truncate", "write")
    /\ registry' = Truncated
    /\ UNCHANGED <<args, bad, compared, copied, open, rewritten, outVars, bundles, wired, processVars, contended>>

WriteRegistry(r) ==
    /\ Goes(r, "write", "trace")
    /\ registry' = rewritten[r]
    /\ UNCHANGED <<args, bad, compared, copied, open, rewritten, outVars, bundles, wired, processVars, contended>>

\* Whatever fails in promote_candidate_resources fails the stage and takes nothing
\* back: neither the files, nor the registry it has cut off, nor the entry when the
\* digest of the promoted files fails (collect_files, digest_paths).
PromotionFails(r) ==
    /\ stage[r] \in {"copy", "register", "truncate", "write", "trace"}
    /\ stage[r] = "trace" => open[r] = "none"
    /\ stage' = [stage EXCEPT ![r] = "report"]
    /\ Mark(r, {"failed"})
    /\ open' = [open EXCEPT ![r] = "none"]
    /\ UNCHANGED <<args, compared, copied, rewritten, outVars, repoVars, processVars, contended>>

\* write_promoted_conformance_trace, only after a promotion that passed
OpenTrace(r) ==
    /\ stage[r] = "trace"
    /\ Opens(r, "trace")
    /\ UNCHANGED <<stage, args, bad, compared, copied, rewritten, outVars, registry, wired,
                   processVars, contended>>

WriteTrace(r) ==
    /\ Goes(r, "trace", "report")
    /\ Fills(r, "trace", r)
    /\ UNCHANGED <<args, bad, compared, copied, rewritten, outVars, registry, wired, processVars, contended>>

\* The qualification report; the exit code is that of overall_status.
Report(r) ==
    /\ Goes(r, "report", "done")
    /\ UNCHANGED <<args, bad, compared, copied, open, rewritten, outVars, repoVars, processVars, contended>>

\* The process is killed, or an error leaves main.
Die(r) ==
    /\ Live(r)
    /\ stage' = [stage EXCEPT ![r] = "dead"]
    /\ bad' = [bad EXCEPT ![r] = {}]
    /\ copied' = [copied EXCEPT ![r] = {}]
    /\ open' = [open EXCEPT ![r] = "none"]
    /\ rewritten' = [rewritten EXCEPT ![r] = Truncated]
    /\ UNCHANGED <<args, compared, outVars, repoVars, processVars, contended>>

RunStep(r) ==
    \/ Start(r) \/ Stage(r) \/ FindArtifacts(r) \/ MissArtifacts(r)
    \/ \E succeeds \in BOOLEAN :
           BuildStdlib(r, succeeds) \/ CheckWrappers(r, succeeds) \/ Compare(r, succeeds)
    \/ Gate(r) \/ Validate(r) \/ (\E f \in File : OpenCopy(r, f) \/ CopyFile(r, f))
    \/ ReadRegistry(r) \/ TruncateRegistry(r) \/ WriteRegistry(r) \/ PromotionFails(r)
    \/ OpenTrace(r) \/ WriteTrace(r) \/ Report(r) \/ Die(r)

-----------------------------------------------------------------------------
(* The resources in use.                                                   *)

\* A registered profile is added to the lists of resources.rs by hand.
Wire(p) ==
    /\ Registered(p) /\ p \notin wired
    /\ NoFile \notin {bundles[p].profile, bundles[p].stdlib}
    /\ wired' = wired \cup {p}
    /\ UNCHANGED <<runVars, outVars, bundles, registry, processVars, contended>>

\* A new build, and the processes start again with it and an empty cache.
Rebuild ==
    /\ Buildable
    /\ embedded' = registry
    /\ text' = [d \in Document |-> NoFile]
    /\ entries' = [k \in Locator |-> NoDocument]
    /\ loads' = 0
    /\ key' = [t \in Thread |-> Default]
    /\ pc' = [t \in Thread |-> "idle"]
    /\ loaded' = [t \in Thread |-> NoDocument]
    /\ returned' = [k \in Locator |-> {}]
    /\ UNCHANGED <<runVars, outVars, repoVars, contended>>

\* load_sysml_baseline_from_locator reads the file that is in the repository now.
ReadLibrary(t) ==
    /\ Load(t)
    /\ bundles[key[t]].stdlib \notin Unusable
    /\ text' = [text EXCEPT ![loads'] = bundles[key[t]].stdlib]

\* release_bundle finds the locators of the profiles of the embedded registry.
UseLibrary(t) ==
    /\ \/ /\ \/ \E k \in Locator : embedded[k] # "absent" /\ Call(t, k)
             \/ Hit(t) \/ Miss(t) \/ LoadFails(t) \/ Enter(t)
          /\ UNCHANGED text
       \/ ReadLibrary(t)
    /\ UNCHANGED <<embedded, runVars, outVars, repoVars, contended>>

ReleaseNext ==
    \/ \E r \in Run : RunStep(r)
    \/ \E p \in Profile : Wire(p)
    \/ Rebuild
    \/ \E t \in Thread : UseLibrary(t)

ReleaseSpec == ReleaseInit /\ [][ReleaseNext]_releaseVars

-----------------------------------------------------------------------------
(* Properties.                                                             *)

OneLatest(reg) == \E p \in Profile : \A q \in Profile : reg[q] = "latest" <=> q = p

\* latest_metamodel: whatever runs overlap and wherever they die, the registry
\* has exactly one latest entry, so the next build resolves "latest".
LatestResolves == registry # Truncated => OneLatest(registry)

\* A file is there, under its own id if it can be read; it is there in full; and
\* the one gap a promotion can leave: the trace of a run that is writing it or died.
There(p, f) == bundles[p][f] # NoFile /\ (f = "profile" => bundles[p][f] \in {p, Truncated})
Whole(p, f) == There(p, f) /\ bundles[p][f] # Truncated
Interrupted(r) == stage[r] = "dead" \/ (stage[r] = "trace" /\ open[r] = "trace")
CutShort(p) == bundles[p].trace = Truncated /\ \E r \in Run : args[r].profile = p /\ Interrupted(r)

\* release_bundle_from_descriptor: whatever the registry lists, also the embedded
\* one, is on disk, wherever a run dies. Its files are in full, except for the trace
\* of a run that is writing it or died, as long as no runs get in each other's way:
\* of two that copy the same profile the later one cuts off what is registered.
RegisteredIsComplete ==
    \A p \in Profile : Registered(p) \/ embedded[p] # "absent" =>
        /\ \A f \in File : There(p, f)
        /\ ~contended => \A f \in File : Whole(p, f) \/ (f = "trace" /\ CutShort(p))

\* What the report of a run calls promoted.
Promoted(r) == stage[r] = "done" /\ bad[r] = {} /\ rewritten[r] # Truncated

\* append_promotion_stage's promise: what is registered is the very library that
\* all parity stages of one run agreed with the Pilot on; and what a run reports
\* as promoted stays registered and carries the trace of that run. Runs that get
\* in each other's way are excepted: their promotions do overwrite each other.
PromotionStands ==
    ~contended =>
        /\ \A p \in Profile : Registered(p) /\ p # Default =>
               \E r \in Run : args[r].profile = p /\ compared[r] = {bundles[p].stdlib}
        /\ \A r \in Run : Promoted(r) /\ registry # Truncated =>
               Registered(args[r].profile) /\ bundles[args[r].profile].trace = r

\* shared_sysml_baseline_from_locator never reads a file again, and need not: a
\* promotion never changes a library that some process may have cached.
CachedIsPromoted ==
    ~contended =>
        \A k \in Locator : entries[k] # NoDocument => text[entries[k]] = bundles[k].stdlib
=============================================================================
