---------------------------- MODULE ReleaseProofs ----------------------------
(***************************************************************************)
(* For every number of runs, profiles and output directories, wherever the *)
(* runs overlap, fail and die: the registry has one latest entry, and no   *)
(* file of what it lists is missing. The first needs the registry a run is *)
(* about to write in the invariant, because a run that read it earlier may *)
(* overwrite what others have written since. The second needs, from the    *)
(* staging on, that the candidate of a run without a failed stage has its  *)
(* files, that what is copied of it stays, cut off or not, and that        *)
(* nothing is registered before the last file is copied. The cache keeps   *)
(* its own invariant across the processes' restarts. As long as no run     *)
(* gets in another's way, what is listed is also in full but for a trace,  *)
(* what was compared is what is registered, what was promoted stays so,    *)
(* and what a process has read is what is on disk.                         *)
(***************************************************************************)
EXTENDS ReleaseQualification, TLAPS

-----------------------------------------------------------------------------
(* The shared cache for every set of threads and locators: its typing and  *)
(* that all callers of a locator get one document. The two are inductive   *)
(* together: a returned document is none of NoDocument, so the entry of a  *)
(* locator that was ever answered is never taken for empty again.          *)

Inv == TypeOK /\ OneDocumentPerLocator

LEMMA NoDocumentIsNoDocument == NoDocument \notin Document
  BY NoDocumentAssumption DEF Document

LEMMA InitInv == Init => Inv
  BY NoDocumentIsNoDocument, MaxLoadsAssumption
     DEF Init, Inv, TypeOK, OneDocumentPerLocator

\* Each step of a thread keeps the invariant.
LEMMA StepInv ==
    ASSUME Inv, [Next]_vars
    PROVE  Inv'
<1>. USE DEF Inv
<1>1. ASSUME NEW t \in Thread, NEW k \in Locator, Call(t, k)
      PROVE  Inv'
  BY <1>1 DEF TypeOK, OneDocumentPerLocator, Call, Goto
<1>2. ASSUME NEW t \in Thread, Hit(t)
      PROVE  Inv'
  <2>1. entries[key[t]] \in Document
    BY <1>2 DEF Hit, TypeOK
  <2>. QED
    BY <1>2, <2>1 DEF TypeOK, OneDocumentPerLocator, Hit, Return, Goto
<1>3. ASSUME NEW t \in Thread, Miss(t)
      PROVE  Inv'
  BY <1>3 DEF TypeOK, OneDocumentPerLocator, Miss, Goto
<1>4. ASSUME NEW t \in Thread, Load(t)
      PROVE  Inv'
  <2>1. loads' \in Document /\ loads' \in 0..MaxLoads
    BY <1>4, MaxLoadsAssumption DEF Load, TypeOK, Document
  <2>2. loads' # NoDocument
    BY <2>1, NoDocumentIsNoDocument
  <2>. QED
    BY <1>4, <2>1, <2>2 DEF TypeOK, OneDocumentPerLocator, Load, Goto
<1>5. ASSUME NEW t \in Thread, LoadFails(t)
      PROVE  Inv'
  BY <1>5 DEF TypeOK, OneDocumentPerLocator, LoadFails, Goto
<1>6. ASSUME NEW t \in Thread, Enter(t)
      PROVE  Inv'
  <2>. DEFINE document == IF entries[key[t]] = NoDocument THEN loaded[t] ELSE entries[key[t]]
  <2>1. document \in Document
    BY <1>6 DEF Enter, TypeOK
  <2>2. entries' = [entries EXCEPT ![key[t]] = document] /\ Return(t, document)
    BY <1>6 DEF Enter
  <2>3. TypeOK'
    BY <1>6, <2>1, <2>2 DEF TypeOK, Enter, Return, Goto
  <2>4. OneDocumentPerLocator'
    BY <2>1, <2>2, NoDocumentIsNoDocument DEF TypeOK, OneDocumentPerLocator, Return
  <2>. QED
    BY <2>3, <2>4
<1>7. CASE UNCHANGED vars
  BY <1>7 DEF TypeOK, OneDocumentPerLocator, vars
<1>. QED
  BY <1>1, <1>2, <1>3, <1>4, <1>5, <1>6, <1>7 DEF Next

THEOREM Invariance == Spec => []Inv
<1>1. Inv /\ [Next]_vars => Inv'
  BY StepInv
<1>. QED
  BY InitInv, <1>1, PTL DEF Spec

\* However many threads race, the types are right: a thread holds a document
\* of its own exactly between its load and its entry.
THEOREM TypeCorrect == Spec => []TypeOK
  BY Invariance, PTL DEF Inv

\* However many threads race over however many locators, everybody who was
\* answered for a locator holds the document that is cached for it.
THEOREM DocumentsAreShared == Spec => []OneDocumentPerLocator
  BY Invariance, PTL DEF Inv

-----------------------------------------------------------------------------
(* The release and the registry. *)

Content == Profile \cup Library \cup Run \cup {Reference, NoFile, Truncated}
Stages ==
    {"idle", "staging", "artifacts", "build", "wrappers", "syntax_parity", "semantic_parity",
     "compile_diagnostics_parity", "gate", "promotion", "copy", "register", "truncate", "write",
     "trace", "report", "done", "dead"}

ReleaseTypes ==
    /\ stage \in [Run -> Stages]
    /\ args \in [Run -> Args]
    /\ bad \in [Run -> SUBSET {"failed", "skipped"}]
    /\ copied \in [Run -> SUBSET File]
    /\ open \in [Run -> File \cup {"none"}]
    /\ rewritten \in [Run -> Registry \cup {Truncated}]
    /\ candidate \in [OutDir -> [Profile -> [File -> Content]]]
    /\ bundles \in [Profile -> [File -> Content]]
    /\ registry \in Registry \cup {Truncated}
    /\ embedded \in Registry

Writes(r) == stage[r] \in {"truncate", "write"}

Present(p) == \A f \in File : There(p, f)

LatestInv ==
    /\ LatestResolves
    /\ \A r \in Run : Writes(r) => rewritten[r] \in Registry /\ OneLatest(rewritten[r])

\* The candidate of p under o can be promoted.
Promising(o, p) ==
    \A f \in File : IF f = "profile" THEN candidate[o][p][f] = p ELSE candidate[o][p][f] # NoFile
StagedOnes ==
    {"artifacts", "build", "wrappers", "syntax_parity", "semantic_parity",
     "compile_diagnostics_parity", "gate", "promotion", "copy"}

CandidateInv ==
    \A r \in Run :
        /\ stage[r] \in StagedOnes /\ bad[r] = {} => Promising(args[r].out, args[r].profile)
        /\ stage[r] \in {"promotion", "copy"} => bad[r] = {}

CopyInv ==
    \A r \in Run :
        /\ \A f \in copied[r] : There(args[r].profile, f)
        /\ stage[r] \in {"register", "truncate", "write", "trace"} => Present(args[r].profile)

ListedInv ==
    /\ \A p \in Profile : Registered(p) \/ embedded[p] # "absent" => Present(p)
    /\ \A r \in Run : Writes(r) => \A p \in Profile : rewritten[r][p] # "absent" => Present(p)

ReleaseInv == ReleaseTypes /\ LatestInv /\ CandidateInv /\ CopyInv /\ ListedInv

-----------------------------------------------------------------------------
LEMMA ArgsTypes ==
    ASSUME ReleaseTypes, NEW r \in Run
    PROVE  /\ args[r].profile \in Profile /\ args[r].out \in OutDir
           /\ args[r].latest \in BOOLEAN
  BY ArgsAssumption DEF ReleaseTypes

\* What the registry becomes with a new entry.
LEMMA WithEntryIsRegistry ==
    ASSUME NEW reg \in Registry, NEW p \in Profile, NEW latest \in BOOLEAN
    PROVE  WithEntry(reg, p, latest) \in Registry
  BY DEF WithEntry, Registry, Status

LEMMA WithEntryOneLatest ==
    ASSUME NEW reg \in Registry, NEW p \in Profile, NEW latest \in BOOLEAN,
           reg[p] = "absent", OneLatest(reg)
    PROVE  OneLatest(WithEntry(reg, p, latest))
<1>. DEFINE new == WithEntry(reg, p, latest)
<1>1. PICK old \in Profile : \A q \in Profile : reg[q] = "latest" <=> q = old
  BY DEF OneLatest
<1>2. CASE latest
  <2>1. \A q \in Profile : new[q] = "latest" <=> q = p
    BY <1>2 DEF WithEntry, Registry, Status
  <2>. QED
    BY <2>1 DEF OneLatest
<1>3. CASE ~latest
  <2>1. \A q \in Profile : new[q] = "latest" <=> q = old
    BY <1>1, <1>3 DEF WithEntry, Registry, Status
  <2>. QED
    BY <2>1 DEF OneLatest
<1>. QED
  BY <1>2, <1>3

LEMMA InitReleaseInv == ReleaseInit => ReleaseInv
<1>. SUFFICES ASSUME ReleaseInit PROVE ReleaseInv
  OBVIOUS
<1>. USE DefaultAssumption, LibraryAssumption, NoFileAssumption, TruncatedAssumption
<1>1. Shipped \in [File -> Content] /\ Absent \in [File -> Content]
  BY DEF Shipped, Absent, File, Content
<1>2. ReleaseTypes
  BY <1>1 DEF ReleaseInit, ReleaseTypes, Stages, Registry, Status
<1>3. LatestInv
  BY DEF ReleaseInit, LatestInv, LatestResolves, OneLatest, Writes
<1>4. CandidateInv
  BY DEF ReleaseInit, CandidateInv, StagedOnes
<1>5. CopyInv
  BY DEF ReleaseInit, CopyInv
<1>6. Present(Default)
  BY DEF ReleaseInit, Present, There, Shipped, File
<1>7. ListedInv
  BY <1>6 DEF ReleaseInit, ListedInv, Registered, Writes
<1>. QED
  BY <1>2, <1>3, <1>4, <1>5, <1>7 DEF ReleaseInv

-----------------------------------------------------------------------------
(* The steps of a run. Many only move it on.                               *)

repository == <<args, copied, open, rewritten, candidate, bundles, registry, embedded>>

\* A step that leaves the shared resources alone and enters neither the staging's
\* results nor the promotion out of turn.
LEMMA MoveInv ==
    ASSUME ReleaseInv, NEW r \in Run, NEW to \in Stages, NEW statuses \in SUBSET {"failed", "skipped"},
           stage' = [stage EXCEPT ![r] = to], Mark(r, statuses), UNCHANGED repository,
           to \notin {"register", "truncate", "write", "trace"},
           to \in StagedOnes => stage[r] \in StagedOnes,
           to \in {"promotion", "copy"} => bad[r] \cup statuses = {}
    PROVE  ReleaseInv'
<1>. USE DEF ReleaseInv, repository, Mark
<1>1. ReleaseTypes'
  BY DEF ReleaseTypes
<1>2. LatestInv'
  BY DEF ReleaseTypes, LatestInv, LatestResolves, Writes, OneLatest
<1>3. CandidateInv'
  <2>1. \A q \in Run : bad'[q] = {} => bad[q] = {}
    BY DEF ReleaseTypes
  <2>2. \A q \in Run : stage'[q] \in StagedOnes => stage[q] \in StagedOnes
    BY DEF ReleaseTypes
  <2>3. \A q \in Run : stage'[q] \in {"promotion", "copy"} => bad'[q] = {}
    BY DEF ReleaseTypes, CandidateInv
  <2>4. \A o, p : Promising(o, p)' <=> Promising(o, p)
    BY DEF Promising
  <2>. QED
    BY <2>1, <2>2, <2>3, <2>4 DEF CandidateInv
<1>4. CopyInv'
  BY DEF ReleaseTypes, CopyInv, Present, There
<1>5. ListedInv'
  BY DEF ReleaseTypes, ListedInv, Registered, Writes, Present, There
<1>. QED
  BY <1>1, <1>2, <1>3, <1>4, <1>5

LEMMA ParityOrder ==
    /\ DOMAIN AfterParity = {"syntax_parity", "semantic_parity", "compile_diagnostics_parity"}
    /\ \A s \in DOMAIN AfterParity :
           AfterParity[s] \in {"semantic_parity", "compile_diagnostics_parity", "gate"}
<1>1. DOMAIN AfterParity = {"syntax_parity", "semantic_parity", "compile_diagnostics_parity"}
  BY DEF AfterParity
<1>2. /\ AfterParity["syntax_parity"] = "semantic_parity"
      /\ AfterParity["semantic_parity"] = "compile_diagnostics_parity"
      /\ AfterParity["compile_diagnostics_parity"] = "gate"
  BY DEF AfterParity
<1>. QED
  BY <1>1, <1>2

LEMMA MovesInv ==
    ASSUME ReleaseInv, NEW r \in Run,
           \/ FindArtifacts(r) \/ MissArtifacts(r) \/ Gate(r) \/ Validate(r)
           \/ Start(r) \/ Report(r)
           \/ \E ok \in BOOLEAN : BuildStdlib(r, ok) \/ CheckWrappers(r, ok) \/ Compare(r, ok)
    PROVE  ReleaseInv'
<1>. USE DEF Goes, repository, Stages, StagedOnes, outVars, repoVars, processVars, ReleaseInv
<1>0. bad \in [Run -> SUBSET {"failed", "skipped"}]
  BY DEF ReleaseTypes
<1>1. CASE FindArtifacts(r)
  <2>1. Mark(r, {})
    BY <1>0, <1>1 DEF FindArtifacts, Mark
  <2>2. CASE args[r].skipBuild
    BY <1>1, <2>1, <2>2, MoveInv DEF FindArtifacts
  <2>3. CASE ~args[r].skipBuild
    BY <1>1, <2>1, <2>3, MoveInv DEF FindArtifacts
  <2>. QED
    BY <2>2, <2>3
<1>2. CASE MissArtifacts(r)
  BY <1>2, MoveInv DEF MissArtifacts
<1>3. CASE Gate(r)
  <2>1. CASE args[r].promote /\ bad[r] = {}
    BY <1>3, <2>1, MoveInv DEF Gate
  <2>2. CASE args[r].promote /\ bad[r] # {}
    BY <1>3, <2>2, MoveInv DEF Gate
  <2>3. CASE ~args[r].promote
    BY <1>3, <2>3, MoveInv DEF Gate
  <2>. QED
    BY <2>1, <2>2, <2>3
<1>4. CASE Validate(r)
  <2>1. bad[r] = {}
    BY <1>4 DEF Validate, CandidateInv
  <2>2. CASE Promotable(args[r].profile, args[r].out)
    BY <1>4, <2>1, <2>2, MoveInv DEF Validate
  <2>3. CASE ~Promotable(args[r].profile, args[r].out)
    BY <1>4, <2>3, MoveInv DEF Validate
  <2>. QED
    BY <2>2, <2>3
<1>6. CASE Start(r)
  <2>1. Mark(r, {})
    BY <1>0, <1>6 DEF Start, Mark
  <2>. QED
    BY <1>6, <2>1, MoveInv DEF Start
<1>7. CASE Report(r)
  <2>1. Mark(r, {})
    BY <1>0, <1>7 DEF Report, Mark
  <2>. QED
    BY <1>7, <2>1, MoveInv DEF Report
<1>8. ASSUME NEW ok \in BOOLEAN, BuildStdlib(r, ok)
      PROVE  ReleaseInv'
  <2>1. CASE ok
    BY <1>8, <2>1, MoveInv DEF BuildStdlib
  <2>2. CASE ~ok
    BY <1>8, <2>2, MoveInv DEF BuildStdlib
  <2>. QED
    BY <2>1, <2>2
<1>9. ASSUME NEW ok \in BOOLEAN, CheckWrappers(r, ok)
      PROVE  ReleaseInv'
  <2>1. PICK statuses \in SUBSET {"failed", "skipped"} : Mark(r, statuses)
    BY <1>9, Zenon DEF CheckWrappers
  <2>2. CASE args[r].skipParity
    BY <1>9, <2>1, <2>2, MoveInv DEF CheckWrappers
  <2>3. CASE ~args[r].skipParity
    BY <1>9, <2>1, <2>3, MoveInv DEF CheckWrappers
  <2>. QED
    BY <2>2, <2>3
<1>10. ASSUME NEW ok \in BOOLEAN, Compare(r, ok)
       PROVE  ReleaseInv'
  <2>. DEFINE to == AfterParity[stage[r]]
  <2>1. /\ stage[r] \in {"syntax_parity", "semantic_parity", "compile_diagnostics_parity"}
        /\ to \in {"semantic_parity", "compile_diagnostics_parity", "gate"}
    BY <1>10, ParityOrder DEF Compare
  <2>2. stage' = [stage EXCEPT ![r] = to]
    BY <1>10 DEF Compare
  <2>. HIDE DEF to
  <2>3. CASE ok
    BY <1>10, <2>1, <2>2, <2>3, MoveInv DEF Compare
  <2>4. CASE ~ok
    BY <1>10, <2>1, <2>2, <2>4, MoveInv DEF Compare
  <2>. QED
    BY <2>3, <2>4
<1>. QED
  BY <1>1, <1>2, <1>3, <1>4, <1>6, <1>7, <1>8, <1>9, <1>10

\* The staging completes the candidate, or fails; no candidate loses a file.
LEMMA StageInv ==
    ASSUME ReleaseInv, NEW r \in Run, Stage(r)
    PROVE  ReleaseInv'
<1>. DEFINE p == args[r].profile
            o == args[r].out
            statuses == IF {Source(p).profile, SelectedLibrary(p, o)} \cap Unusable = {} THEN {} ELSE {"failed"}
<1>. USE DEF ReleaseInv, repoVars, processVars
<1>1. p \in Profile /\ o \in OutDir
  BY ArgsTypes
<1>2. /\ stage[r] = "staging" /\ stage' = [stage EXCEPT ![r] = "artifacts"]
      /\ candidate' = [candidate EXCEPT ![o][p] = Staged(p, o)]
      /\ bad' = [bad EXCEPT ![r] = @ \cup statuses]
      /\ UNCHANGED <<args, copied, open, rewritten, bundles, registry, embedded>>
  BY DEF Stage, Goes, Mark
<1>3. Source(p) \in [File -> Content]
  BY <1>1, DefaultAssumption DEF ReleaseTypes, Source
<1>4. SelectedLibrary(p, o) \in Content
  BY <1>1, <1>3, LibraryAssumption DEF SelectedLibrary, Content, File
<1>5. Staged(p, o) \in [File -> Content]
  <2>1. candidate[o][p] \in [File -> Content]
    BY <1>1 DEF ReleaseTypes
  <2>2. \A f \in File : Staged(p, o)[f] \in Content
    BY <1>1, <1>4, <2>1 DEF Staged, Content, File
  <2>. QED
    BY <2>2 DEF Staged
<1>6. ReleaseTypes'
  <2>1. candidate' \in [OutDir -> [Profile -> [File -> Content]]]
    BY <1>1, <1>2, <1>5 DEF ReleaseTypes
  <2>. QED
    BY <1>2, <2>1 DEF ReleaseTypes, Stages
<1>7. LatestInv'
  BY <1>2 DEF ReleaseTypes, LatestInv, LatestResolves, Writes, OneLatest
<1>8. ASSUME NEW d \in OutDir, NEW q \in Profile, Promising(d, q)
      PROVE  Promising(d, q)'
  <2>1. CASE d = o /\ q = p
    <3>1. candidate'[o][p] = Staged(p, o)
      BY <1>1, <1>2 DEF ReleaseTypes
    <3>2. candidate[o][p]["profile"] = p /\ candidate[o][p]["stdlib"] # NoFile
      BY <1>8, <2>1 DEF Promising, File
    <3>3. \A f \in File : IF f = "profile" THEN Staged(p, o)[f] = p ELSE Staged(p, o)[f] # NoFile
      BY <3>2, NoFileAssumption DEF Staged, File
    <3>. QED
      BY <2>1, <3>1, <3>3 DEF Promising
  <2>2. CASE ~(d = o /\ q = p)
    <3>1. candidate'[d][q] = candidate[d][q]
      BY <1>1, <1>2, <2>2 DEF ReleaseTypes
    <3>. QED
      BY <1>8, <3>1 DEF Promising
  <2>. QED
    BY <2>1, <2>2
<1>9. bad'[r] = {} => Promising(o, p)'
  <2>. SUFFICES ASSUME bad'[r] = {} PROVE Promising(o, p)'
    OBVIOUS
  <2>1. statuses = {}
    BY <1>2 DEF ReleaseTypes
  <2>2. Source(p).profile \notin Unusable /\ SelectedLibrary(p, o) \notin Unusable
    BY <2>1
  <2>3. candidate'[o][p] = Staged(p, o)
    BY <1>1, <1>2 DEF ReleaseTypes
  <2>4. \A f \in File : IF f = "profile" THEN Staged(p, o)[f] = p ELSE Staged(p, o)[f] # NoFile
    BY <2>2, NoFileAssumption DEF Staged, File, Unusable
  <2>. QED
    BY <1>2, <2>3, <2>4 DEF Promising
<1>10. CandidateInv'
  <2>1. \A q \in Run : args[q].profile \in Profile /\ args[q].out \in OutDir
    BY ArgsTypes
  <2>2. ASSUME NEW q \in Run, stage'[q] \in StagedOnes, bad'[q] = {}
        PROVE  Promising(args[q].out, args[q].profile)'
    <3>1. CASE q = r
      BY <1>2, <1>9, <2>2, <3>1
    <3>2. CASE q # r
      <4>1. stage[q] \in StagedOnes /\ bad[q] = {}
        BY <1>2, <2>2, <3>2 DEF ReleaseTypes
      <4>2. Promising(args[q].out, args[q].profile)
        BY <4>1 DEF CandidateInv
      <4>3. args'[q] = args[q]
        BY <1>2
      <4>. QED
        BY <1>8, <2>1, <4>2, <4>3
    <3>. QED
      BY <3>1, <3>2
  <2>3. \A q \in Run : stage'[q] \in {"promotion", "copy"} => bad'[q] = {}
    BY <1>2 DEF ReleaseTypes, CandidateInv
  <2>4. args' = args
    BY <1>2
  <2>. QED
    BY <2>2, <2>3, <2>4 DEF CandidateInv
<1>11. CopyInv'
  BY <1>2 DEF ReleaseTypes, CopyInv, Present, There
<1>12. ListedInv'
  BY <1>2 DEF ReleaseTypes, ListedInv, Registered, Writes, Present, There
<1>. QED
  BY <1>6, <1>7, <1>10, <1>11, <1>12

-----------------------------------------------------------------------------
(* The steps of the promotion.                                             *)

\* A file that is there is only ever replaced by one that will do as well.
LEMMA BundlesInv ==
    ASSUME ReleaseInv, UNCHANGED <<args, registry, embedded, rewritten, candidate>>,
           \A p \in Profile : \A f \in File : There(p, f) => There(p, f)',
           \A r \in Run : stage'[r] \in {"truncate", "write"} => stage[r] = stage'[r],
           \A r \in Run : stage'[r] = "trace" => stage[r] = "trace"
    PROVE  /\ LatestInv' /\ ListedInv'
           /\ \A p \in Profile : Present(p) => Present(p)'
<1>. USE DEF ReleaseInv
<1>1. \A p \in Profile : Present(p) => Present(p)'
  BY DEF Present
<1>2. LatestInv'
  BY DEF LatestInv, LatestResolves, Writes, OneLatest
<1>3. \A p \in Profile : Registered(p)' \/ embedded'[p] # "absent" => Present(p)'
  BY <1>1 DEF ListedInv, Registered
<1>4. \A r \in Run : Writes(r)' => \A p \in Profile : rewritten'[r][p] # "absent" => Present(p)'
  BY <1>1 DEF ListedInv, Writes
<1>. QED
  BY <1>1, <1>2, <1>3, <1>4 DEF ListedInv

\* A file that is opened is there, if cut off.
LEMMA OpensInv ==
    ASSUME ReleaseInv, NEW r \in Run, NEW f \in File, Opens(r, f),
           UNCHANGED <<stage, args, bad, copied, rewritten, candidate, registry, embedded>>
    PROVE  ReleaseInv'
<1>. DEFINE p == args[r].profile
<1>. USE DEF ReleaseInv
<1>1. p \in Profile
  BY ArgsTypes
<1>2. /\ bundles' = [bundles EXCEPT ![p][f] = Truncated]
      /\ open' = [open EXCEPT ![r] = f]
  BY DEF Opens
<1>3. ReleaseTypes'
  <2>1. bundles' \in [Profile -> [File -> Content]]
    BY <1>1, <1>2 DEF ReleaseTypes, Content
  <2>. QED
    BY <1>2, <2>1 DEF ReleaseTypes
<1>4. ASSUME NEW q \in Profile, NEW g \in File, There(q, g)
      PROVE  There(q, g)'
  <2>1. CASE q = p /\ g = f
    <3>1. bundles'[p][f] = Truncated
      BY <1>1, <1>2 DEF ReleaseTypes
    <3>. QED
      BY <2>1, <3>1, NoFileAssumption DEF There
  <2>2. CASE ~(q = p /\ g = f)
    <3>1. bundles'[q][g] = bundles[q][g]
      BY <1>1, <1>2, <2>2 DEF ReleaseTypes
    <3>. QED
      BY <1>4, <3>1 DEF There
  <2>. QED
    BY <2>1, <2>2
<1>5. LatestInv' /\ ListedInv' /\ \A q \in Profile : Present(q) => Present(q)'
  BY <1>4, BundlesInv
<1>6. CandidateInv'
  BY DEF CandidateInv, Promising
<1>7. \A q \in Run : args[q].profile \in Profile /\ \A g \in copied[q] : g \in File
  BY ArgsTypes DEF ReleaseTypes
<1>8. CopyInv'
  BY <1>4, <1>5, <1>7 DEF CopyInv
<1>. QED
  BY <1>3, <1>5, <1>6, <1>8

LEMMA CopyFileInv ==
    ASSUME ReleaseInv, NEW r \in Run, NEW f \in File, CopyFile(r, f)
    PROVE  ReleaseInv'
<1>. DEFINE p == args[r].profile
            o == args[r].out
            done == copied[r] \cup {f}
            to == NextCopy(done)
<1>. USE DEF ReleaseInv, outVars, processVars
<1>1. p \in Profile /\ o \in OutDir
  BY ArgsTypes
<1>2. /\ stage[r] = "copy" /\ stage' = [stage EXCEPT ![r] = to]
      /\ bundles' = [bundles EXCEPT ![p][f] = candidate[o][p][f]]
      /\ copied' = [copied EXCEPT ![r] = done] /\ open' = [open EXCEPT ![r] = "none"]
      /\ UNCHANGED <<args, bad, rewritten, candidate, registry, embedded>>
  BY DEF CopyFile, Fills, Goes
<1>3. to \in {"copy", "register"} /\ (to = "register" => done = File)
  BY DEF NextCopy
<1>. HIDE DEF to
<1>4. Promising(o, p) /\ bad[r] = {}
  BY <1>2 DEF CandidateInv, StagedOnes
<1>5. ReleaseTypes'
  <2>1. candidate[o][p][f] \in Content
    BY <1>1 DEF ReleaseTypes
  <2>2. bundles' \in [Profile -> [File -> Content]]
    BY <1>1, <1>2, <2>1 DEF ReleaseTypes
  <2>. QED
    BY <1>2, <1>3, <2>2 DEF ReleaseTypes, Stages
<1>6. bundles'[p][f] = candidate[o][p][f]
  BY <1>1, <1>2 DEF ReleaseTypes
<1>7. There(p, f)'
  <2>1. f = "profile" => bundles'[p][f] = p
    BY <1>4, <1>6 DEF Promising
  <2>2. bundles'[p][f] # NoFile
    BY <1>1, <1>4, <1>6, NoFileAssumption DEF Promising
  <2>3. args' = args
    BY <1>2
  <2>. QED
    BY <2>1, <2>2, <2>3 DEF There
<1>8. ASSUME NEW q \in Profile, NEW g \in File, There(q, g)
      PROVE  There(q, g)'
  <2>1. CASE q = p /\ g = f
    BY <1>2, <1>7, <2>1
  <2>2. CASE ~(q = p /\ g = f)
    <3>1. bundles'[q][g] = bundles[q][g]
      BY <1>1, <1>2, <2>2 DEF ReleaseTypes
    <3>. QED
      BY <1>8, <3>1 DEF There
  <2>. QED
    BY <2>1, <2>2
<1>9. \A q \in Run : stage'[q] \in {"truncate", "write", "trace"} => stage[q] = stage'[q]
  BY <1>2, <1>3 DEF ReleaseTypes
<1>10. LatestInv' /\ ListedInv' /\ \A q \in Profile : Present(q) => Present(q)'
  BY <1>2, <1>8, <1>9, BundlesInv
<1>11. CandidateInv'
  <2>1. \A q \in Run : stage'[q] \in StagedOnes => stage[q] \in StagedOnes
    BY <1>2, <1>3 DEF ReleaseTypes, StagedOnes
  <2>2. \A q \in Run : stage'[q] \in {"promotion", "copy"} => stage[q] \in {"promotion", "copy"}
    BY <1>2, <1>3 DEF ReleaseTypes
  <2>3. \A d, q : Promising(d, q)' <=> Promising(d, q)
    BY <1>2 DEF Promising
  <2>. QED
    BY <1>2, <2>1, <2>2, <2>3 DEF CandidateInv
<1>12. ASSUME NEW q \in Run, NEW g \in copied'[q]
       PROVE  There(args[q].profile, g)'
  <2>1. args[q].profile \in Profile
    BY ArgsTypes
  <2>2. CASE g \in copied[q]
    <3>1. g \in File
      BY <2>2 DEF ReleaseTypes
    <3>2. There(args[q].profile, g)
      BY <2>2 DEF CopyInv
    <3>. QED
      BY <1>2, <1>8, <2>1, <3>1, <3>2
  <2>3. CASE g \notin copied[q]
    <3>1. q = r /\ g = f
      BY <1>2, <2>3 DEF ReleaseTypes
    <3>. QED
      BY <1>2, <1>7, <3>1
  <2>. QED
    BY <2>2, <2>3
<1>13. ASSUME NEW q \in Run, stage'[q] \in {"register", "truncate", "write", "trace"}
       PROVE  Present(args[q].profile)'
  <2>1. args[q].profile \in Profile
    BY ArgsTypes
  <2>2. CASE q = r
    <3>1. copied'[r] = File
      BY <1>2, <1>3, <1>13, <2>2 DEF ReleaseTypes
    <3>. QED
      BY <1>2, <1>12, <2>2, <3>1 DEF Present
  <2>3. CASE q # r
    <3>1. stage[q] = stage'[q]
      BY <1>2, <2>3 DEF ReleaseTypes
    <3>2. Present(args[q].profile)
      BY <1>13, <3>1 DEF CopyInv
    <3>. QED
      BY <1>2, <1>10, <2>1, <3>2
  <2>. QED
    BY <2>2, <2>3
<1>14. CopyInv'
  BY <1>2, <1>12, <1>13 DEF CopyInv
<1>. QED
  BY <1>5, <1>10, <1>11, <1>14

\* What the run reads has one latest entry and is there, and so is what it makes
\* of it: its own profile is copied by now.
LEMMA ReadRegistryInv ==
    ASSUME ReleaseInv, NEW r \in Run, ReadRegistry(r)
    PROVE  ReleaseInv'
<1>. DEFINE p == args[r].profile
            new == WithEntry(registry, p, args[r].latest)
            ok == listed[args[r].out] = p /\ registry # Truncated /\ registry[p] = "absent"
<1>. USE DEF ReleaseInv, outVars, repoVars, processVars, repository
<1>1. CASE ~ok
  <2>1. /\ stage' = [stage EXCEPT ![r] = "report"] /\ Mark(r, {"failed"})
        /\ UNCHANGED <<args, copied, open, candidate, bundles, registry, embedded>>
        /\ rewritten' = [rewritten EXCEPT ![r] = @]
    BY <1>1 DEF ReadRegistry, Goes
  <2>2. rewritten' = rewritten
    BY <2>1 DEF ReleaseTypes
  <2>. QED
    BY <2>1, <2>2, MoveInv DEF Stages, StagedOnes
<1>2. CASE ok
  <2>1. /\ stage[r] = "register" /\ stage' = [stage EXCEPT ![r] = "truncate"]
        /\ rewritten' = [rewritten EXCEPT ![r] = new]
        /\ bad' = [bad EXCEPT ![r] = @ \cup {}]
        /\ UNCHANGED <<args, copied, open, candidate, bundles, registry, embedded>>
    BY <1>2 DEF ReadRegistry, Goes, Mark
  <2>2. /\ registry \in Registry /\ p \in Profile /\ args[r].latest \in BOOLEAN
        /\ OneLatest(registry) /\ Present(p)
    BY <1>2, <2>1, ArgsTypes DEF ReleaseTypes, LatestInv, LatestResolves, CopyInv
  <2>3. new \in Registry /\ OneLatest(new)
    BY <1>2, <2>2, WithEntryIsRegistry, WithEntryOneLatest
  <2>4. \A q \in Profile : new[q] # "absent" => Present(q)
    <3>1. \A q \in Profile : new[q] # "absent" => q = p \/ registry[q] # "absent"
      BY DEF WithEntry
    <3>. QED
      BY <1>2, <2>2, <3>1 DEF ListedInv, Registered
  <2>. HIDE DEF new
  <2>5. ReleaseTypes'
    BY <2>1, <2>3 DEF ReleaseTypes, Stages
  <2>6. \A q \in Run : q # r => stage'[q] = stage[q] /\ rewritten'[q] = rewritten[q]
    BY <2>1 DEF ReleaseTypes
  <2>7. rewritten'[r] = new
    BY <2>1 DEF ReleaseTypes
  <2>8. LatestInv'
    <3>1. \A reg : OneLatest(reg)' <=> OneLatest(reg)
      BY DEF OneLatest
    <3>. QED
      BY <2>1, <2>3, <2>6, <2>7, <3>1 DEF LatestInv, LatestResolves, Writes, OneLatest
  <2>9. \A q \in Profile : Present(q)' <=> Present(q)
    BY <2>1 DEF Present, There
  <2>10. ListedInv'
    BY <2>1, <2>4, <2>6, <2>7, <2>9 DEF ListedInv, Registered, Writes
  <2>11. CopyInv'
    BY <2>1, <2>2, <2>6, <2>9, ArgsTypes DEF CopyInv, There, Present, ReleaseTypes
  <2>12. CandidateInv'
    BY <2>1, <2>6 DEF CandidateInv, Promising, ReleaseTypes, StagedOnes
  <2>. QED
    BY <2>5, <2>8, <2>10, <2>11, <2>12
<1>. QED
  BY <1>1, <1>2

LEMMA TruncateInv ==
    ASSUME ReleaseInv, NEW r \in Run, TruncateRegistry(r)
    PROVE  ReleaseInv'
<1>. USE DEF ReleaseInv, outVars, processVars
<1>1. /\ stage[r] = "truncate" /\ stage' = [stage EXCEPT ![r] = "write"] /\ registry' = Truncated
      /\ UNCHANGED <<args, bad, copied, open, rewritten, candidate, bundles, embedded>>
  BY DEF TruncateRegistry, Goes
<1>2. ReleaseTypes'
  BY <1>1 DEF ReleaseTypes, Stages
<1>3. LatestInv'
  BY <1>1 DEF ReleaseTypes, LatestInv, LatestResolves, Writes, OneLatest
<1>4. CandidateInv'
  BY <1>1 DEF ReleaseTypes, CandidateInv, Promising, StagedOnes
<1>5. CopyInv'
  BY <1>1 DEF ReleaseTypes, CopyInv, Present, There
<1>6. ListedInv'
  BY <1>1 DEF ReleaseTypes, ListedInv, Registered, Writes, Present, There
<1>. QED
  BY <1>2, <1>3, <1>4, <1>5, <1>6

LEMMA WriteRegistryInv ==
    ASSUME ReleaseInv, NEW r \in Run, WriteRegistry(r)
    PROVE  ReleaseInv'
<1>. USE DEF ReleaseInv, outVars, processVars
<1>1. /\ stage[r] = "write" /\ stage' = [stage EXCEPT ![r] = "trace"] /\ registry' = rewritten[r]
      /\ UNCHANGED <<args, bad, copied, open, rewritten, candidate, bundles, embedded>>
  BY DEF WriteRegistry, Goes
<1>2. rewritten[r] \in Registry /\ OneLatest(rewritten[r])
  BY <1>1 DEF LatestInv, Writes
<1>3. ReleaseTypes'
  BY <1>1 DEF ReleaseTypes, Stages
<1>4. LatestInv'
  BY <1>1, <1>2 DEF ReleaseTypes, LatestInv, LatestResolves, Writes, OneLatest
<1>5. CandidateInv'
  BY <1>1 DEF ReleaseTypes, CandidateInv, Promising, StagedOnes
<1>6. CopyInv'
  BY <1>1 DEF ReleaseTypes, CopyInv, Present, There
<1>7. \A q \in Profile : rewritten[r][q] # "absent" => Present(q)
  BY <1>1 DEF ListedInv, Writes
<1>8. ListedInv'
  BY <1>1, <1>7 DEF ReleaseTypes, ListedInv, Registered, Writes, Present, There
<1>. QED
  BY <1>3, <1>4, <1>5, <1>6, <1>8

LEMMA WriteTraceInv ==
    ASSUME ReleaseInv, NEW r \in Run, WriteTrace(r)
    PROVE  ReleaseInv'
<1>. DEFINE p == args[r].profile
<1>. USE DEF ReleaseInv, outVars, processVars
<1>1. p \in Profile
  BY ArgsTypes
<1>2. /\ stage[r] = "trace" /\ stage' = [stage EXCEPT ![r] = "report"]
      /\ bundles' = [bundles EXCEPT ![p]["trace"] = r] /\ open' = [open EXCEPT ![r] = "none"]
      /\ UNCHANGED <<args, bad, copied, rewritten, candidate, registry, embedded>>
  BY DEF WriteTrace, Fills, Goes
<1>3. ReleaseTypes'
  <2>1. r \in Content /\ "trace" \in File
    BY DEF Content, File
  <2>2. bundles' \in [Profile -> [File -> Content]]
    BY <1>1, <1>2, <2>1 DEF ReleaseTypes
  <2>. QED
    BY <1>2, <2>2 DEF ReleaseTypes, Stages
<1>4. ASSUME NEW q \in Profile, NEW g \in File, There(q, g)
      PROVE  There(q, g)'
  <2>1. CASE q = p /\ g = "trace"
    <3>1. bundles'[p]["trace"] = r
      BY <1>1, <1>2 DEF ReleaseTypes, File
    <3>. QED
      BY <2>1, <3>1, NoFileAssumption DEF There
  <2>2. CASE ~(q = p /\ g = "trace")
    <3>1. bundles'[q][g] = bundles[q][g]
      BY <1>1, <1>2, <2>2 DEF ReleaseTypes
    <3>. QED
      BY <1>4, <3>1 DEF There
  <2>. QED
    BY <2>1, <2>2
<1>5. /\ \A q \in Run : stage'[q] \in {"truncate", "write"} => stage[q] = stage'[q]
      /\ \A q \in Run : stage'[q] = "trace" => stage[q] = "trace"
  BY <1>2 DEF ReleaseTypes
<1>6. LatestInv' /\ ListedInv' /\ \A q \in Profile : Present(q) => Present(q)'
  BY <1>2, <1>4, <1>5, BundlesInv
<1>7. CandidateInv'
  BY <1>2 DEF ReleaseTypes, CandidateInv, Promising, StagedOnes
<1>8. \A q \in Run : args[q].profile \in Profile /\ \A g \in copied[q] : g \in File
  BY ArgsTypes DEF ReleaseTypes
<1>9. \A q \in Run : \A g \in copied'[q] : There(args[q].profile, g)'
  BY <1>2, <1>4, <1>8 DEF CopyInv
<1>10. \A q \in Run : stage'[q] \in {"register", "truncate", "write", "trace"} => stage'[q] = stage[q]
  BY <1>2 DEF ReleaseTypes
<1>11. CopyInv'
  BY <1>2, <1>6, <1>8, <1>9, <1>10 DEF CopyInv
<1>. QED
  BY <1>3, <1>6, <1>7, <1>11

\* A failed promotion leaves its files as they are, and there.
LEMMA PromotionFailsInv ==
    ASSUME ReleaseInv, NEW r \in Run, PromotionFails(r)
    PROVE  ReleaseInv'
<1>. USE DEF ReleaseInv, outVars, repoVars, processVars
<1>1. /\ stage' = [stage EXCEPT ![r] = "report"]
      /\ bad' = [bad EXCEPT ![r] = @ \cup {"failed"}]
      /\ open' = [open EXCEPT ![r] = "none"]
      /\ UNCHANGED <<args, copied, rewritten, candidate, bundles, registry, embedded>>
  BY DEF PromotionFails, Mark
<1>2. ReleaseTypes'
  BY <1>1 DEF ReleaseTypes, Stages
<1>3. stage'[r] = "report" /\ \A q \in Run \ {r} : stage'[q] = stage[q] /\ bad'[q] = bad[q]
  BY <1>1 DEF ReleaseTypes
<1>4. LatestInv'
  BY <1>1, <1>3 DEF LatestInv, LatestResolves, Writes, OneLatest
<1>5. CandidateInv'
  BY <1>1, <1>3 DEF CandidateInv, Promising, StagedOnes
<1>6. CopyInv'
  BY <1>1, <1>3 DEF CopyInv, Present, There
<1>7. ListedInv'
  BY <1>1, <1>3 DEF ListedInv, Registered, Writes, Present, There
<1>. QED
  BY <1>2, <1>4, <1>5, <1>6, <1>7

LEMMA DieInv ==
    ASSUME ReleaseInv, NEW r \in Run, Die(r)
    PROVE  ReleaseInv'
<1>. USE DEF ReleaseInv, outVars, repoVars, processVars
<1>1. /\ stage' = [stage EXCEPT ![r] = "dead"]
      /\ bad' = [bad EXCEPT ![r] = {}]
      /\ copied' = [copied EXCEPT ![r] = {}] /\ open' = [open EXCEPT ![r] = "none"]
      /\ rewritten' = [rewritten EXCEPT ![r] = Truncated]
      /\ UNCHANGED <<args, candidate, bundles, registry, embedded>>
  BY DEF Die
<1>2. ReleaseTypes'
  BY <1>1 DEF ReleaseTypes, Stages
<1>3. stage'[r] = "dead" /\ copied'[r] = {} /\ \A q \in Run \ {r} :
          stage'[q] = stage[q] /\ bad'[q] = bad[q] /\ copied'[q] = copied[q] /\ rewritten'[q] = rewritten[q]
  BY <1>1 DEF ReleaseTypes
<1>4. LatestInv'
  BY <1>1, <1>3 DEF LatestInv, LatestResolves, Writes, OneLatest
<1>5. CandidateInv'
  BY <1>1, <1>3 DEF CandidateInv, Promising, StagedOnes
<1>6. CopyInv'
  BY <1>1, <1>3 DEF CopyInv, Present, There
<1>7. ListedInv'
  BY <1>1, <1>3 DEF ListedInv, Registered, Writes, Present, There
<1>. QED
  BY <1>2, <1>4, <1>5, <1>6, <1>7

-----------------------------------------------------------------------------
(* The theorems.                                                           *)

LEMMA RestInv ==
    ASSUME ReleaseInv,
           UNCHANGED <<stage, args, bad, copied, open, rewritten, candidate, bundles, registry>>,
           embedded' = embedded \/ (embedded' = registry /\ registry # Truncated)
    PROVE  ReleaseInv'
<1>. USE DEF ReleaseInv
<1>1. ReleaseTypes'
  BY DEF ReleaseTypes
<1>2. LatestInv'
  BY DEF LatestInv, LatestResolves, Writes, OneLatest
<1>3. CandidateInv' /\ CopyInv'
  BY DEF CandidateInv, CopyInv, Promising, Present, There, StagedOnes
<1>4. ListedInv'
  BY DEF ListedInv, Registered, Writes, Present, There
<1>. QED
  BY <1>1, <1>2, <1>3, <1>4

\* Each step of the runs, the builds and the processes keeps both invariants.
LEMMA ReleaseStepInv ==
    ASSUME ReleaseInv, [ReleaseNext]_releaseVars
    PROVE  ReleaseInv'
<1>1. ASSUME NEW r \in Run, RunStep(r)
      PROVE  ReleaseInv'
  <2>1. ASSUME NEW f \in File, OpenCopy(r, f)
        PROVE  ReleaseInv'
    BY <2>1, OpensInv DEF OpenCopy, outVars, processVars
  <2>2. CASE OpenTrace(r)
    BY <2>2, OpensInv DEF OpenTrace, outVars, processVars, File
  <2>. QED
    BY <1>1, <2>1, <2>2, MovesInv, StageInv, CopyFileInv, ReadRegistryInv, TruncateInv,
       WriteRegistryInv, WriteTraceInv, PromotionFailsInv, DieInv DEF RunStep
<1>2. ASSUME NEW p \in Profile, Wire(p)
      PROVE  ReleaseInv'
  BY <1>2, RestInv DEF Wire, runVars, outVars, processVars
<1>3. CASE Rebuild
  BY <1>3, RestInv DEF Rebuild, Buildable, runVars, outVars, repoVars
<1>4. ASSUME NEW t \in Thread, UseLibrary(t)
      PROVE  ReleaseInv'
  BY <1>4, RestInv DEF UseLibrary, runVars, outVars, repoVars
<1>5. CASE UNCHANGED releaseVars
  BY <1>5, RestInv DEF releaseVars, runVars, outVars, repoVars, processVars
<1>. QED
  BY <1>1, <1>2, <1>3, <1>4, <1>5 DEF ReleaseNext

LEMMA CacheStepInv ==
    ASSUME Inv, [ReleaseNext]_releaseVars
    PROVE  Inv'
<1>1. CASE [Next]_vars
  BY <1>1, StepInv
<1>2. CASE Rebuild
  BY <1>2, NoDocumentIsNoDocument, MaxLoadsAssumption, DefaultAssumption
     DEF Rebuild, Inv, TypeOK, OneDocumentPerLocator, Profile
<1>3. ASSUME NEW r \in Run, RunStep(r)
      PROVE  UNCHANGED vars
  BY <1>3 DEF RunStep, Start, Stage, FindArtifacts, MissArtifacts, BuildStdlib, CheckWrappers, Compare,
     Gate, Validate, OpenCopy, CopyFile, ReadRegistry, TruncateRegistry, WriteRegistry,
     PromotionFails, OpenTrace, WriteTrace, Report, Die, processVars
<1>4. ASSUME NEW p \in Profile, Wire(p)
      PROVE  UNCHANGED vars
  BY <1>4 DEF Wire, processVars
<1>5. ASSUME NEW t \in Thread, UseLibrary(t)
      PROVE  Next
  BY <1>5 DEF UseLibrary, ReadLibrary, Next
<1>6. CASE UNCHANGED releaseVars
  BY <1>1, <1>6 DEF releaseVars, processVars
<1>. QED
  BY <1>1, <1>2, <1>3, <1>4, <1>5, <1>6 DEF ReleaseNext

LEMMA ReleaseInvariance == ReleaseSpec => []ReleaseInv
<1>1. ReleaseInv /\ [ReleaseNext]_releaseVars => ReleaseInv'
  BY ReleaseStepInv
<1>. QED
  BY InitReleaseInv, <1>1, PTL DEF ReleaseSpec

\* However many promotions overlap and wherever they die, a registry that can be
\* read has exactly one latest entry.
THEOREM LatestIsUnique == ReleaseSpec => []LatestResolves
<1>1. ReleaseInv => LatestResolves
  BY DEF ReleaseInv, LatestInv
<1>. QED
  BY ReleaseInvariance, <1>1, PTL

\* The cache shares its documents whatever the runs do to the files, and again after
\* each restart.
THEOREM SharedAcrossRestarts == ReleaseSpec => []OneDocumentPerLocator
<1>1. ReleaseInit => Inv
  BY InitInv DEF ReleaseInit
<1>2. Inv /\ [ReleaseNext]_releaseVars => Inv'
  BY CacheStepInv
<1>3. Inv => OneDocumentPerLocator
  BY DEF Inv
<1>. QED
  BY <1>1, <1>2, <1>3, PTL DEF ReleaseSpec

-----------------------------------------------------------------------------
(* Runs that do not get in each other's way: what they promote stands, and *)
(* what a process has read stays what is on disk.                          *)

\* Live runs differ in their profile and output directory, and one at a time
\* rewrites the registry, as it is when it begins.
Apart(r, o) == args[r].profile # args[o].profile /\ args[r].out # args[o].out
RewriteOf(r) ==
    /\ stage[r] = "truncate" =>
           registry # Truncated /\ rewritten[r] = WithEntry(registry, args[r].profile, args[r].latest)
    /\ stage[r] = "write" => registry = Truncated /\ rewritten[r][args[r].profile] # "absent"
    /\ stage[r] \notin {"truncate", "write", "trace", "report", "done"} => rewritten[r] = Truncated
AloneInv ==
    /\ \A r, o \in Run : Live(r) /\ Live(o) /\ r # o => Apart(r, o)
    /\ \A r, o \in Run : Writes(r) /\ Writes(o) => r = o
    /\ \A r \in Run : RewriteOf(r)

\* The library a run compares and promotes.
Staging(r) == candidate[args[r].out][args[r].profile]["stdlib"]
BeforeParity == {"idle", "staging", "artifacts", "build", "wrappers", "syntax_parity"}
SinceParity == {"semantic_parity", "compile_diagnostics_parity", "gate", "promotion", "copy"}

\* What the parity stages of a run agreed on is its library, and then what it copied.
ParityOf(r) ==
    /\ stage[r] \in BeforeParity => compared[r] = {}
    /\ stage[r] \in SinceParity => compared[r] \subseteq {Staging(r)}
    /\ stage[r] \in SinceParity /\ bad[r] = {} => compared[r] = {Staging(r)}
    /\ stage[r] \in BeforeParity \cup (SinceParity \ {"copy"}) => copied[r] = {}
    /\ stage[r] = "copy" /\ "stdlib" \in copied[r] => bundles[args[r].profile]["stdlib"] = Staging(r)
    /\ stage[r] \in {"register", "truncate", "write", "trace"} =>
           compared[r] = {bundles[args[r].profile]["stdlib"]}
ParityInv == compared \in [Run -> SUBSET Content] /\ \A r \in Run : ParityOf(r)

\* The registry as it is, or as the run that is writing it will leave it.
Listing(p) == Registered(p) \/ \E r \in Run : stage[r] = "write" /\ rewritten[r][p] # "absent"
Readable == registry # Truncated \/ \E r \in Run : stage[r] = "write"

\* Nobody copies over a profile that is listed or embedded; some run vouches for
\* the library of each that is listed.
VouchInv ==
    /\ \A r \in Run : stage[r] = "copy" =>
           ~Listing(args[r].profile) /\ embedded[args[r].profile] = "absent"
    /\ \A p \in Profile : Listing(p) /\ p # Default =>
           \E r \in Run : args[r].profile = p /\ compared[r] = {bundles[p]["stdlib"]}

Publishing(r) == stage[r] \in {"copy", "register", "truncate", "write", "trace"}
Past(r) == stage[r] \in {"report", "done"} /\ bad[r] = {} /\ rewritten[r] # Truncated

\* A promotion that is over stays listed, with its trace, and nobody repeats it.
StandInv ==
    /\ \A r \in Run : (Past(r) \/ stage[r] = "trace") /\ Readable => Listing(args[r].profile)
    /\ \A r \in Run : Past(r) => bundles[args[r].profile]["trace"] = r
    /\ \A r, o \in Run : Past(r) /\ Publishing(o) => args[r].profile # args[o].profile

\* What a run can still promote is in full, and so is what it has copied and what is
\* listed or embedded, but for a trace.
Known(p) == Listing(p) \/ embedded[p] # "absent"
InFull(p) == \A f \in File : Whole(p, f) \/ (f = "trace" /\ CutShort(p))
WholeOf(r) ==
    /\ stage[r] \in StagedOnes /\ bad[r] = {} =>
           \A f \in File : candidate[args[r].out][args[r].profile][f] # Truncated
    /\ stage[r] = "copy" => \A f \in copied[r] : Whole(args[r].profile, f)
    /\ stage[r] \in {"register", "truncate"} => \A f \in File : Whole(args[r].profile, f)
WholeInv ==
    /\ \A r \in Run : WholeOf(r)
    /\ \A p \in Profile : Known(p) => InFull(p)

\* What a process has read of a profile it knows is what is on disk.
ReadInv ==
    /\ text \in [Document -> Content]
    /\ \A t \in Thread : pc[t] # "idle" => embedded[key[t]] # "absent"
    /\ \A t \in Thread : loaded[t] # NoDocument =>
           loaded[t] <= loads /\ text[loaded[t]] = bundles[key[t]]["stdlib"]
    /\ \A k \in Locator : entries[k] # NoDocument =>
           /\ embedded[k] # "absent"
           /\ entries[k] <= loads /\ text[entries[k]] = bundles[k]["stdlib"]

Undisturbed == AloneInv /\ ParityInv /\ VouchInv /\ StandInv /\ WholeInv /\ ReadInv
PromotionInv == ReleaseInv /\ Inv /\ (~contended => Undisturbed)

-----------------------------------------------------------------------------
LEMMA InitUndisturbed == ReleaseInit => Undisturbed
<1>. SUFFICES ASSUME ReleaseInit PROVE Undisturbed
  OBVIOUS
<1>. USE DEF ReleaseInit
<1>1. AloneInv
  BY DEF AloneInv, Live, Writes, RewriteOf
<1>2. ParityInv
  BY DEF ParityInv, ParityOf, SinceParity
<1>3. \A p \in Profile : Listing(p) => p = Default
  BY DEF Listing, Registered
<1>4. VouchInv
  BY <1>3 DEF VouchInv
<1>5. StandInv
  BY DEF StandInv, Past
<1>6. ReadInv
  BY DEF ReadInv, Init, Content
<1>7. WholeInv
  <2>1. \A f \in File : Whole(Default, f)
    BY DefaultAssumption, LibraryAssumption, NoFileAssumption, TruncatedAssumption
       DEF Whole, There, Shipped, File
  <2>. QED
    BY <1>3, <2>1 DEF WholeInv, WholeOf, Known, InFull, StagedOnes
<1>. QED
  BY <1>1, <1>2, <1>4, <1>5, <1>6, <1>7 DEF Undisturbed

\* A profile whose files stay is as whole as before, as long as nobody goes on who
\* was interrupted.
LEMMA FullFrame ==
    ASSUME NEW p, bundles'[p] = bundles[p], args' = args,
           \A q \in Run : Interrupted(q) => Interrupted(q)'
    PROVE  /\ InFull(p) => InFull(p)'
           /\ \A f : Whole(p, f) <=> Whole(p, f)'
<1>1. \A f : Whole(p, f) <=> Whole(p, f)'
  BY DEF Whole, There
<1>2. CutShort(p) => CutShort(p)'
  BY DEF CutShort
<1>. QED
  BY <1>1, <1>2 DEF InFull

\* A step of r that leaves the files, the registry and the processes alone, and
\* enters none of the stages that stand for something without having done it.
outside == <<repository, compared, embedded, text, vars>>

LEMMA MoveUndisturbed ==
    ASSUME ReleaseInv, Undisturbed, NEW r \in Run,
           NEW to \in Stages, NEW statuses \in SUBSET {"failed", "skipped"},
           stage' = [stage EXCEPT ![r] = to], Mark(r, statuses), UNCHANGED outside,
           stage[r] \notin {"copy", "truncate", "write", "trace", "done", "dead"},
           to \notin {"idle", "register", "truncate", "write", "trace", "dead"},
           to \in StagedOnes => stage[r] \in StagedOnes,
           Live(r) \/ to = "done" \/ \A o \in Run \ {r} :
               Live(o) => Apart(r, o),
           to \in BeforeParity => stage[r] \in BeforeParity,
           to \in SinceParity =>
               stage[r] \in SinceParity \/ (stage[r] \in BeforeParity /\ bad[r] \cup statuses # {}),
           to = "copy" =>
               /\ stage[r] = "promotion"
               /\ ~Listing(args[r].profile) /\ embedded[args[r].profile] = "absent"
               /\ \A o \in Run : Past(o) => args[o].profile # args[r].profile,
           to = "done" => stage[r] = "report"
    PROVE  Undisturbed'
<1>. USE DEF outside, repository, Undisturbed
<1>1. /\ stage'[r] = to /\ bad'[r] = bad[r] \cup statuses
      /\ \A q \in Run : q # r => stage'[q] = stage[q] /\ bad'[q] = bad[q]
  BY DEF ReleaseInv, ReleaseTypes, Mark
<1>2. UNCHANGED <<args, copied, open, rewritten, candidate, bundles, registry, embedded, compared, text,
                  entries, loads, pc, key, loaded>>
  BY DEF vars
<1>3. AloneInv'
  <2>1. ASSUME NEW q \in Run, NEW o \in Run, Live(q)', Live(o)', q # o
        PROVE  Apart(q, o)'
    <3>1. \A x \in Run : x # r => (Live(x)' <=> Live(x))
      BY <1>1 DEF Live
    <3>2. \A x, y \in Run : Live(x) /\ Live(y) /\ x # y => Apart(x, y)
      BY DEF AloneInv
    <3>3. to # "done" \/ (q # r /\ o # r)
      BY <1>1, <2>1 DEF Live
    <3>4. Apart(q, o)
      BY <2>1, <3>1, <3>2, <3>3 DEF Apart
    <3>. QED
      BY <1>2, <3>4 DEF Apart
  <2>2. \A q \in Run : Writes(q)' => Writes(q)
    BY <1>1 DEF Writes
  <2>3. \A q \in Run : stage'[q] \in {"truncate", "write"} => stage'[q] = stage[q]
    BY <1>1
  <2>4. \A q \in Run : stage'[q] \notin {"truncate", "write", "trace", "report", "done"}
                          => stage[q] \notin {"truncate", "write", "trace", "report", "done"}
    BY <1>1 DEF Stages, BeforeParity, SinceParity
  <2>5. \A q \in Run : RewriteOf(q)'
    BY <1>2, <2>3, <2>4 DEF AloneInv, RewriteOf
  <2>. QED
    BY <2>1, <2>2, <2>5 DEF AloneInv
<1>4. ParityInv'
  <2>1. \A q \in Run : Staging(q)' = Staging(q)
    BY <1>2 DEF Staging
  <2>2. ASSUME NEW q \in Run, q # r
        PROVE  ParityOf(q)'
    BY <1>1, <1>2, <2>1, <2>2 DEF ParityInv, ParityOf
  <2>3. ParityOf(r)'
    BY <1>1, <1>2, <2>1 DEF ParityInv, ParityOf, BeforeParity, SinceParity
  <2>. QED
    BY <1>2, <2>2, <2>3 DEF ParityInv
<1>5. \A p : Listing(p)' <=> Listing(p)
  BY <1>1, <1>2 DEF Listing, Registered
<1>6. VouchInv'
  BY <1>1, <1>2, <1>5 DEF VouchInv
<1>7. \A q \in Run : Past(q)' => Past(q)
  <2>1. \A q \in Run : bad'[q] = {} => bad[q] = {}
    BY <1>1
  <2>. QED
    BY <1>1, <1>2, <2>1 DEF Past, AloneInv, RewriteOf
<1>8. Readable' <=> Readable
  BY <1>1, <1>2 DEF Readable
<1>9. \A q \in Run : q # r => (Publishing(q)' <=> Publishing(q))
  BY <1>1 DEF Publishing
<1>10. Publishing(r)' => to = "copy"
  BY <1>1 DEF Publishing
<1>11. StandInv'
  BY <1>1, <1>2, <1>5, <1>7, <1>8, <1>9, <1>10 DEF StandInv
<1>12. ReadInv'
  BY <1>2 DEF ReadInv
<1>13. WholeInv'
  <2>1. \A q \in Run : Interrupted(q) => Interrupted(q)'
    BY <1>1, <1>2 DEF Interrupted
  <2>2. \A p : (InFull(p) => InFull(p)') /\ \A f : Whole(p, f) <=> Whole(p, f)'
    BY <1>2, <2>1, FullFrame
  <2>3. \A p : Known(p)' <=> Known(p)
    BY <1>2, <1>5 DEF Known
  <2>4. ASSUME NEW q \in Run, q # r
        PROVE  WholeOf(q)'
    BY <1>1, <1>2, <2>2, <2>4 DEF WholeInv, WholeOf
  <2>5. stage'[r] = "copy" => copied[r] = {}
    BY <1>1 DEF ParityInv, ParityOf, SinceParity
  <2>6. WholeOf(r)'
    BY <1>1, <1>2, <2>2, <2>5 DEF WholeInv, WholeOf
  <2>. QED
    BY <2>2, <2>3, <2>4, <2>6 DEF WholeInv
<1>. QED
  BY <1>3, <1>4, <1>6, <1>11, <1>12, <1>13

LEMMA ParitySteps ==
    /\ AfterParity["syntax_parity"] = "semantic_parity"
    /\ AfterParity["semantic_parity"] = "compile_diagnostics_parity"
    /\ AfterParity["compile_diagnostics_parity"] = "gate"
    /\ DOMAIN AfterParity = {"syntax_parity", "semantic_parity", "compile_diagnostics_parity"}
  BY DEF AfterParity

LEMMA MovesUndisturbed ==
    ASSUME ReleaseInv, Undisturbed, NEW r \in Run, ~contended',
           \/ FindArtifacts(r) \/ MissArtifacts(r) \/ Gate(r) \/ Validate(r)
           \/ Start(r) \/ Report(r)
           \/ \E ok \in BOOLEAN : BuildStdlib(r, ok) \/ CheckWrappers(r, ok)
    PROVE  Undisturbed'
<1>. USE DEF Goes, repository, outside, Stages, StagedOnes, BeforeParity, SinceParity, outVars, repoVars, processVars, Live
<1>0. bad \in [Run -> SUBSET {"failed", "skipped"}]
  BY DEF ReleaseInv, ReleaseTypes
<1>1. CASE FindArtifacts(r)
  <2>1. Mark(r, {})
    BY <1>0, <1>1 DEF FindArtifacts, Mark
  <2>2. CASE args[r].skipBuild
    BY <1>1, <2>1, <2>2, MoveUndisturbed DEF FindArtifacts
  <2>3. CASE ~args[r].skipBuild
    BY <1>1, <2>1, <2>3, MoveUndisturbed DEF FindArtifacts
  <2>. QED
    BY <2>2, <2>3
<1>2. CASE MissArtifacts(r)
  BY <1>2, MoveUndisturbed DEF MissArtifacts
<1>3. CASE Gate(r)
  <2>1. CASE args[r].promote /\ bad[r] = {}
    BY <1>3, <2>1, MoveUndisturbed DEF Gate
  <2>2. CASE args[r].promote /\ bad[r] # {}
    BY <1>3, <2>2, MoveUndisturbed DEF Gate
  <2>3. CASE ~args[r].promote
    BY <1>3, <2>3, MoveUndisturbed DEF Gate
  <2>. QED
    BY <2>1, <2>2, <2>3
<1>4. CASE Validate(r)
  <2>. DEFINE p == args[r].profile
  <2>1. CASE Promotable(p, args[r].out)
    <3>1. p \in Profile /\ bundles[p] = Absent /\ registry # Truncated /\ registry[p] = "absent"
      BY <2>1, ArgsTypes DEF Promotable, ReleaseInv
    <3>2. ~Listing(p)
      BY <3>1 DEF Listing, Registered, Undisturbed, AloneInv, RewriteOf
    <3>3. \A f \in File : bundles[p][f] = NoFile
      BY <3>1 DEF Absent
    <3>4. embedded[p] = "absent"
      <4>1. ~Present(p)
        BY <3>1, <3>3, NoFileAssumption DEF Present, There, File
      <4>. QED
        BY <3>1, <4>1 DEF ReleaseInv, ListedInv
    <3>5. \A o \in Run : Past(o) => args[o].profile # p
      BY <3>3, NoFileAssumption DEF Undisturbed, StandInv, File
    <3>. QED
      BY <1>4, <2>1, <3>2, <3>4, <3>5, MoveUndisturbed DEF Validate
  <2>2. CASE ~Promotable(p, args[r].out)
    BY <1>4, <2>2, MoveUndisturbed DEF Validate
  <2>. QED
    BY <2>1, <2>2
<1>6. CASE Start(r)
  <2>1. Mark(r, {})
    BY <1>0, <1>6 DEF Start, Mark
  <2>2. \A o \in Run \ {r} : Live(o) => Apart(r, o)
    BY <1>6 DEF Start, Apart
  <2>. QED
    BY <1>6, <2>1, <2>2, MoveUndisturbed DEF Start
<1>7. CASE Report(r)
  <2>1. Mark(r, {})
    BY <1>0, <1>7 DEF Report, Mark
  <2>. QED
    BY <1>7, <2>1, MoveUndisturbed DEF Report
<1>8. ASSUME NEW ok \in BOOLEAN, BuildStdlib(r, ok)
      PROVE  Undisturbed'
  <2>1. CASE ok
    BY <1>8, <2>1, MoveUndisturbed DEF BuildStdlib
  <2>2. CASE ~ok
    BY <1>8, <2>2, MoveUndisturbed DEF BuildStdlib
  <2>. QED
    BY <2>1, <2>2
<1>9. ASSUME NEW ok \in BOOLEAN, CheckWrappers(r, ok)
      PROVE  Undisturbed'
  <2>1. PICK statuses \in SUBSET {"failed", "skipped"} :
            Mark(r, statuses) /\ (args[r].skipParity => "skipped" \in statuses)
    BY <1>9, Zenon DEF CheckWrappers
  <2>2. CASE args[r].skipParity
    BY <1>9, <2>1, <2>2, MoveUndisturbed DEF CheckWrappers
  <2>3. CASE ~args[r].skipParity
    BY <1>9, <2>1, <2>3, MoveUndisturbed DEF CheckWrappers
  <2>. QED
    BY <2>2, <2>3
<1>. QED
  BY <1>1, <1>2, <1>3, <1>4, <1>6, <1>7, <1>8, <1>9

\* The candidate of one run is no other live run's.
LEMMA StageUndisturbed ==
    ASSUME ReleaseInv, Undisturbed, NEW r \in Run, Stage(r)
    PROVE  Undisturbed'
<1>. DEFINE p == args[r].profile
            o == args[r].out
<1>. USE DEF Undisturbed, repoVars, processVars, Live
<1>1. p \in Profile /\ o \in OutDir
  BY ArgsTypes DEF ReleaseInv
<1>2. /\ stage[r] = "staging" /\ stage'[r] = "artifacts"
      /\ \A q \in Run : q # r => stage'[q] = stage[q] /\ bad'[q] = bad[q]
      /\ candidate' = [candidate EXCEPT ![o][p] = Staged(p, o)]
      /\ UNCHANGED <<args, copied, open, rewritten, bundles, registry, embedded, compared, text,
                     entries, loads, pc, key, loaded>>
  BY DEF Stage, Goes, Mark, ReleaseInv, ReleaseTypes, vars
<1>3. AloneInv'
  <2>1. \A q \in Run : RewriteOf(q)'
    BY <1>2 DEF AloneInv, RewriteOf
  <2>. QED
    BY <1>2, <2>1 DEF AloneInv, Apart, Writes
<1>4. ParityInv'
  <2>1. ASSUME NEW q \in Run, q # r, stage[q] \in SinceParity
        PROVE  Staging(q)' = Staging(q)
    <3>1. args[q].out # o
      BY <1>2, <2>1 DEF AloneInv, Apart, SinceParity
    <3>2. candidate'[args[q].out] = candidate[args[q].out]
      BY <1>2, <2>1, <3>1, ArgsTypes DEF ReleaseInv, ReleaseTypes
    <3>. QED
      BY <1>2, <3>2 DEF Staging
  <2>2. ASSUME NEW q \in Run, q # r
        PROVE  ParityOf(q)'
    BY <1>2, <2>1, <2>2 DEF ParityInv, ParityOf, SinceParity
  <2>3. ParityOf(r)'
    BY <1>2 DEF ParityInv, ParityOf, BeforeParity, SinceParity
  <2>. QED
    BY <1>2, <2>2, <2>3 DEF ParityInv
<1>5. \A q : Listing(q)' <=> Listing(q)
  BY <1>2 DEF Listing, Registered
<1>6. VouchInv'
  BY <1>2, <1>5 DEF VouchInv
<1>7. \A q \in Run : (Past(q)' <=> Past(q)) /\ (Publishing(q)' <=> Publishing(q))
  BY <1>2 DEF Past, Publishing
<1>8. Readable' <=> Readable
  BY <1>2 DEF Readable
<1>9. StandInv'
  BY <1>2, <1>5, <1>7, <1>8 DEF StandInv
<1>10. ReadInv'
  BY <1>2 DEF ReadInv
<1>11. WholeInv'
  <2>1. \A q \in Run : Interrupted(q) => Interrupted(q)'
    BY <1>2 DEF Interrupted
  <2>2. \A d : (InFull(d) => InFull(d)') /\ \A f : Whole(d, f) <=> Whole(d, f)'
    BY <1>2, <2>1, FullFrame
  <2>3. \A d : Known(d)' <=> Known(d)
    BY <1>2, <1>5 DEF Known
  <2>4. ASSUME NEW q \in Run, q # r
        PROVE  WholeOf(q)'
    <3>1. ASSUME stage[q] \in StagedOnes
          PROVE  candidate'[args[q].out] = candidate[args[q].out]
      <4>1. args[q].out # o
        BY <1>2, <2>4, <3>1 DEF AloneInv, Apart, StagedOnes
      <4>. QED
        BY <1>2, <4>1, ArgsTypes DEF ReleaseInv, ReleaseTypes
    <3>2. stage'[q] = stage[q] /\ bad'[q] = bad[q] /\ args' = args /\ copied' = copied
      BY <1>2, <2>4
    <3>. QED
      BY <2>2, <3>1, <3>2 DEF WholeInv, WholeOf
  <2>5. ASSUME bad'[r] = {}, NEW f \in File
        PROVE  candidate'[o][p][f] # Truncated
    <3>1. candidate'[o][p] = Staged(p, o)
      BY <1>1, <1>2 DEF ReleaseInv, ReleaseTypes
    <3>2. Source(p).profile \notin Unusable /\ SelectedLibrary(p, o) \notin Unusable
      BY <2>5 DEF Stage, Mark, ReleaseInv, ReleaseTypes
    <3>. QED
      BY <1>1, <3>1, <3>2, TruncatedAssumption DEF Staged, Unusable, File
  <2>6. WholeOf(r)'
    BY <1>2, <2>5 DEF WholeOf
  <2>. QED
    BY <2>2, <2>3, <2>4, <2>6 DEF WholeInv
<1>. QED
  BY <1>3, <1>4, <1>6, <1>9, <1>10, <1>11

\* What a parity stage adds is what the run has compared before.
LEMMA CompareUndisturbed ==
    ASSUME ReleaseInv, Undisturbed, NEW r \in Run, NEW ok \in BOOLEAN, Compare(r, ok)
    PROVE  Undisturbed'
<1>. DEFINE to == AfterParity[stage[r]]
            library == Staging(r)
<1>. USE DEF Undisturbed, outVars, repoVars, processVars
<1>1. /\ stage[r] \in {"syntax_parity", "semantic_parity", "compile_diagnostics_parity"}
      /\ to \in {"semantic_parity", "compile_diagnostics_parity", "gate"}
      /\ (stage[r] = "syntax_parity" <=> to = "semantic_parity")
  BY ParitySteps DEF Compare
<1>2. /\ stage' = [stage EXCEPT ![r] = to]
      /\ compared' = [compared EXCEPT ![r] = IF ok THEN @ \cup {library} ELSE @]
      /\ bad' = [bad EXCEPT ![r] = @ \cup (IF ok THEN {} ELSE {"failed"})]
      /\ UNCHANGED <<args, copied, open, rewritten, candidate, bundles, registry, embedded, text,
                     entries, loads, pc, key, loaded>>
  BY DEF Compare, Mark, vars, Staging
<1>. HIDE DEF to, library
<1>3. stage'[r] = to /\ \A q \in Run : q # r => stage'[q] = stage[q] /\ bad'[q] = bad[q]
  BY <1>2 DEF ReleaseInv, ReleaseTypes
<1>4. library \in Content
  <2>1. "stdlib" \in File
    BY DEF File
  <2>. QED
    BY <2>1, ArgsTypes DEF library, Staging, ReleaseInv, ReleaseTypes
<1>5. \A q \in Run : q # r => compared'[q] = compared[q]
  BY <1>2 DEF ParityInv
<1>6. compared[r] \subseteq {library} /\ compared'[r] = IF ok THEN compared[r] \cup {library} ELSE compared[r]
  BY <1>1, <1>2 DEF ParityInv, ParityOf, BeforeParity, SinceParity, library
<1>7. compared[r] # {} => compared'[r] = compared[r]
  BY <1>6
<1>8. AloneInv'
  <2>1. \A q \in Run : (Live(q)' <=> Live(q)) /\ (Writes(q)' <=> Writes(q))
    BY <1>1, <1>3 DEF Live, Writes
  <2>2. \A q \in Run : RewriteOf(q)'
    BY <1>1, <1>2, <1>3 DEF AloneInv, RewriteOf
  <2>. QED
    BY <1>2, <2>1, <2>2 DEF AloneInv, Apart
<1>9. ParityInv'
  <2>1. \A q \in Run : Staging(q)' = Staging(q)
    BY <1>2 DEF Staging
  <2>2. ASSUME NEW q \in Run, q # r
        PROVE  ParityOf(q)'
    BY <1>2, <1>3, <1>5, <2>1, <2>2 DEF ParityInv, ParityOf
  <2>3. ok \in BOOLEAN /\ (bad'[r] = {} => ok)
    BY <1>2 DEF ReleaseInv, ReleaseTypes
  <2>4. copied[r] = {}
    BY <1>1 DEF ParityInv, ParityOf, BeforeParity, SinceParity
  <2>5. ParityOf(r)'
    BY <1>1, <1>2, <1>3, <1>6, <2>1, <2>3, <2>4 DEF ParityOf, BeforeParity, SinceParity, library
  <2>6. compared' \in [Run -> SUBSET Content]
    BY <1>2, <1>4 DEF ParityInv
  <2>. QED
    BY <2>2, <2>5, <2>6 DEF ParityInv
<1>10. \A q : Listing(q)' <=> Listing(q)
  BY <1>1, <1>2, <1>3 DEF Listing, Registered
<1>11. VouchInv'
  <2>1. \A q \in Run : stage'[q] = "copy" => stage[q] = "copy"
    BY <1>1, <1>3
  <2>2. ASSUME NEW q \in Profile, Listing(q), q # Default
        PROVE  \E w \in Run : args[w].profile = q /\ compared'[w] = {bundles[q]["stdlib"]}
    <3>1. PICK w \in Run : args[w].profile = q /\ compared[w] = {bundles[q]["stdlib"]}
      BY <2>2 DEF VouchInv
    <3>2. compared'[w] = compared[w]
      BY <1>5, <1>7, <3>1
    <3>. QED
      BY <3>1, <3>2
  <2>3. UNCHANGED <<args, bundles, embedded>>
    BY <1>2
  <2>. QED
    BY <1>10, <2>1, <2>2, <2>3 DEF VouchInv
<1>12. \A q \in Run : (Past(q)' <=> Past(q)) /\ (Publishing(q)' <=> Publishing(q))
  BY <1>1, <1>2, <1>3 DEF Past, Publishing, AloneInv, RewriteOf
<1>13. Readable' <=> Readable
  BY <1>1, <1>2, <1>3 DEF Readable
<1>14. StandInv'
  BY <1>1, <1>2, <1>3, <1>10, <1>12, <1>13 DEF StandInv
<1>15. ReadInv'
  BY <1>2 DEF ReadInv
<1>16. WholeInv'
  <2>1. \A q \in Run : Interrupted(q) => Interrupted(q)'
    BY <1>1, <1>2, <1>3 DEF Interrupted
  <2>2. \A p : (InFull(p) => InFull(p)') /\ \A f : Whole(p, f) <=> Whole(p, f)'
    BY <1>2, <2>1, FullFrame
  <2>3. \A p : Known(p)' <=> Known(p)
    BY <1>2, <1>10 DEF Known
  <2>4. bad'[r] = {} => bad[r] = {}
    BY <1>2 DEF ReleaseInv, ReleaseTypes
  <2>5. \A q \in Run : WholeOf(q)'
    BY <1>1, <1>2, <1>3, <2>2, <2>4 DEF WholeInv, WholeOf, StagedOnes
  <2>. QED
    BY <2>2, <2>3, <2>5 DEF WholeInv
<1>. QED
  BY <1>8, <1>9, <1>11, <1>14, <1>15, <1>16

\* A file goes into a profile that nobody lists, knows or has finished: it is opened,
\* or the candidate's is written.
LEMMA CopyUndisturbed ==
    ASSUME ReleaseInv, Inv, Undisturbed, NEW r \in Run, NEW f \in File,
           OpenCopy(r, f) \/ CopyFile(r, f)
    PROVE  Undisturbed'
<1>. DEFINE p == args[r].profile
            file == candidate[args[r].out][p][f]
            content == IF OpenCopy(r, f) THEN Truncated ELSE file
            done == IF OpenCopy(r, f) THEN copied[r] ELSE copied[r] \cup {f}
            to == IF OpenCopy(r, f) THEN "copy" ELSE NextCopy(done)
<1>. USE DEF Undisturbed, outVars, processVars
<1>1. p \in Profile /\ args[r].out \in OutDir
  BY ArgsTypes DEF ReleaseInv
<1>2. /\ stage[r] = "copy" /\ stage' = [stage EXCEPT ![r] = to]
      /\ bundles' = [bundles EXCEPT ![p][f] = content]
      /\ copied' = [copied EXCEPT ![r] = done]
      /\ \A q \in Run : q # r => open'[q] = open[q]
      /\ UNCHANGED <<args, bad, rewritten, candidate, registry, embedded, compared, text,
                     entries, loads, pc, key, loaded>>
  <2>1. CASE OpenCopy(r, f)
    BY <2>1 DEF OpenCopy, Opens, vars, ReleaseInv, ReleaseTypes
  <2>2. CASE ~OpenCopy(r, f)
    BY <2>2 DEF CopyFile, Fills, Goes, vars, ReleaseInv, ReleaseTypes
  <2>. QED
    BY <2>1, <2>2
<1>3. to \in {"copy", "register"} /\ (to = "register" => done = File)
  BY DEF NextCopy
<1>0. \/ content = file /\ done = copied[r] \cup {f}
      \/ f \notin done /\ done = copied[r]
  BY DEF OpenCopy
<1>. HIDE DEF to, content, done
<1>4. stage'[r] = to /\ copied'[r] = done
      /\ \A q \in Run : q # r => stage'[q] = stage[q] /\ copied'[q] = copied[q]
  BY <1>2 DEF ReleaseInv, ReleaseTypes
<1>5. /\ \A q \in Profile : q # p => bundles'[q] = bundles[q]
      /\ f # "stdlib" => bundles'[p]["stdlib"] = bundles[p]["stdlib"]
      /\ bundles'[p][f] = content
      /\ \A g \in File : g # f => bundles'[p][g] = bundles[p][g]
      /\ f # "trace" => bundles'[p]["trace"] = bundles[p]["trace"]
  BY <1>1, <1>2 DEF ReleaseInv, ReleaseTypes, Staging, File
<1>6. ~Listing(p) /\ embedded[p] = "absent"
  BY <1>2 DEF VouchInv
<1>7. \A q \in Run : q # r /\ Live(q) => args[q].profile # p
  BY <1>2 DEF AloneInv, Apart, Live
<1>8. \A q \in Run : args[q].profile \in Profile
  BY ArgsTypes DEF ReleaseInv
<1>9. AloneInv'
  <2>1. \A q \in Run : (Live(q)' <=> Live(q)) /\ (Writes(q)' <=> Writes(q))
    BY <1>2, <1>3, <1>4 DEF Live, Writes
  <2>2. \A q \in Run : RewriteOf(q)'
    BY <1>2, <1>3, <1>4 DEF AloneInv, RewriteOf
  <2>. QED
    BY <1>2, <2>1, <2>2 DEF AloneInv, Apart
<1>10. ParityInv'
  <2>1. \A q \in Run : Staging(q)' = Staging(q)
    BY <1>2 DEF Staging
  <2>2. ASSUME NEW q \in Run, q # r
        PROVE  ParityOf(q)'
    <3>1. Live(q) => bundles'[args[q].profile] = bundles[args[q].profile]
      BY <1>5, <1>7, <1>8, <2>2
    <3>. QED
      BY <1>2, <1>4, <2>1, <2>2, <3>1 DEF ParityInv, ParityOf, Live
  <2>3. ParityOf(r)
    BY DEF ParityInv
  <2>4. bad[r] = {}
    BY <1>2 DEF ReleaseInv, CandidateInv
  <2>5. compared[r] = {Staging(r)}
    BY <1>2, <2>3, <2>4 DEF ParityOf, SinceParity
  <2>6. "stdlib" \in done => bundles'[p]["stdlib"] = Staging(r)
    BY <1>0, <1>2, <1>5, <2>3 DEF ParityOf, Staging
  <2>7. ParityOf(r)'
    BY <1>2, <1>3, <1>4, <2>1, <2>5, <2>6 DEF ParityOf, BeforeParity, SinceParity, File
  <2>. QED
    BY <1>2, <2>2, <2>7 DEF ParityInv
<1>11. \A q : Listing(q)' <=> Listing(q)
  BY <1>2, <1>3, <1>4 DEF Listing, Registered
<1>12. VouchInv'
  <2>1. \A q \in Run : stage'[q] = "copy" => stage[q] = "copy"
    BY <1>2, <1>4
  <2>2. \A q \in Profile : Listing(q) => bundles'[q] = bundles[q]
    BY <1>5, <1>6
  <2>3. UNCHANGED <<args, embedded, compared>>
    BY <1>2
  <2>. QED
    BY <1>11, <2>1, <2>2, <2>3 DEF VouchInv
<1>13. \A q \in Run : (Past(q)' <=> Past(q)) /\ (Publishing(q)' <=> Publishing(q))
  BY <1>2, <1>3, <1>4 DEF Past, Publishing
<1>14. Readable' <=> Readable
  BY <1>2, <1>3, <1>4 DEF Readable
<1>15. \A q \in Run : Past(q) => bundles'[args[q].profile] = bundles[args[q].profile]
  BY <1>2, <1>5, <1>8 DEF StandInv, Publishing
<1>16. StandInv'
  BY <1>2, <1>3, <1>4, <1>11, <1>13, <1>14, <1>15 DEF StandInv
<1>17. ReadInv'
  <2>1. \A k \in Locator : embedded[k] # "absent" => bundles'[k] = bundles[k]
    BY <1>5, <1>6 DEF Profile
  <2>2. \A t \in Thread : loaded[t] # NoDocument => key[t] \in Locator /\ pc[t] # "idle"
    BY DEF Inv, TypeOK
  <2>. QED
    BY <1>2, <2>1, <2>2 DEF ReadInv
<1>18. WholeInv'
  <2>1. \A q \in Run : Interrupted(q) => Interrupted(q)'
    BY <1>2, <1>3, <1>4 DEF Interrupted
  <2>2. \A d \in Profile : d # p => (InFull(d) => InFull(d)') /\ \A g : Whole(d, g) <=> Whole(d, g)'
    BY <1>2, <1>5, <2>1, FullFrame
  <2>3. \A d : Known(d)' <=> Known(d)
    BY <1>2, <1>11 DEF Known
  <2>4. ~Known(p)
    BY <1>6 DEF Known
  <2>5. ASSUME NEW q \in Run, q # r
        PROVE  WholeOf(q)'
    <3>0. args' = args
      BY <1>2
    <3>1. Live(q) => \A g : Whole(args[q].profile, g) <=> Whole(args[q].profile, g)'
      BY <1>7, <1>8, <2>2, <2>5, <3>0
    <3>. QED
      BY <1>2, <1>4, <2>5, <3>1 DEF WholeInv, WholeOf, Live
  <2>6. Promising(args[r].out, p) /\ bad[r] = {} /\ file # Truncated
    BY <1>2 DEF ReleaseInv, CandidateInv, WholeInv, WholeOf, StagedOnes
  <2>7. ASSUME NEW g \in done
        PROVE  Whole(p, g)'
    <3>1. CASE g = f
      <4>1. bundles'[p][f] = file /\ args' = args
        BY <1>0, <1>2, <1>5, <2>7, <3>1
      <4>. HIDE DEF file
      <4>2. (f = "profile" => file = p) /\ file # NoFile
        BY <1>1, <2>6, NoFileAssumption DEF Promising, file
      <4>. QED
        BY <2>6, <3>1, <4>1, <4>2 DEF Whole, There
    <3>2. CASE g # f
      <4>1. g \in copied[r] /\ g \in File
        BY <1>0, <2>7, <3>2 DEF ReleaseInv, ReleaseTypes
      <4>2. Whole(p, g)
        BY <1>2, <4>1 DEF WholeInv, WholeOf
      <4>3. bundles'[p][g] = bundles[p][g]
        BY <1>5, <3>2, <4>1
      <4>4. args' = args
        BY <1>2
      <4>. QED
        BY <4>2, <4>3, <4>4 DEF Whole, There
    <3>. QED
      BY <3>1, <3>2
  <2>8. WholeOf(r)'
    <3>1. args' = args /\ stage'[r] = to /\ copied'[r] = done
      BY <1>2, <1>4
    <3>2. \A g \in File : candidate'[args'[r].out][args'[r].profile][g] # Truncated
      BY <1>2, <2>6 DEF WholeInv, WholeOf, StagedOnes
    <3>. QED
      BY <1>3, <2>7, <3>1, <3>2 DEF WholeOf
  <2>. QED
    BY <2>2, <2>3, <2>4, <2>5, <2>8 DEF WholeInv
<1>. QED
  BY <1>9, <1>10, <1>12, <1>16, <1>17, <1>18

\* The registry a run has read is the one it rewrites; its own profile is copied.
LEMMA ReadRegistryUndisturbed ==
    ASSUME ReleaseInv, Undisturbed, NEW r \in Run, ~contended', ReadRegistry(r)
    PROVE  Undisturbed'
<1>. DEFINE p == args[r].profile
            new == WithEntry(registry, p, args[r].latest)
            ok == listed[args[r].out] = p /\ registry # Truncated /\ registry[p] = "absent"
            to == IF ok THEN "truncate" ELSE "report"
<1>. USE DEF Undisturbed, outVars, repoVars, processVars
<1>1. /\ stage[r] = "register" /\ stage' = [stage EXCEPT ![r] = to]
      /\ rewritten' = [rewritten EXCEPT ![r] = IF ok THEN new ELSE @]
      /\ bad' = [bad EXCEPT ![r] = @ \cup (IF ok THEN {} ELSE {"failed"})]
      /\ \A o \in Run \ {r} : ~Writes(o)
      /\ UNCHANGED <<args, copied, open, candidate, bundles, registry, embedded, compared, text,
                     entries, loads, pc, key, loaded>>
  BY DEF ReadRegistry, Goes, Mark, vars, Writes
<1>2. rewritten[r] = Truncated
  BY <1>1 DEF AloneInv, RewriteOf
<1>3. /\ stage'[r] = to
      /\ rewritten'[r] = IF ok THEN new ELSE Truncated
      /\ \A q \in Run : q # r => stage'[q] = stage[q] /\ rewritten'[q] = rewritten[q] /\ bad'[q] = bad[q]
  BY <1>1, <1>2 DEF ReleaseInv, ReleaseTypes
<1>4. to \in {"truncate", "report"} /\ (to = "truncate" <=> ok)
  OBVIOUS
<1>5. ok => registry # Truncated
  OBVIOUS
<1>. HIDE DEF to, ok, new
<1>6. AloneInv'
  <2>1. \A q \in Run : Live(q)' <=> Live(q)
    BY <1>1, <1>3, <1>4 DEF Live
  <2>2. \A q \in Run : Writes(q)' => q = r
    BY <1>1, <1>3 DEF Writes
  <2>3. ASSUME NEW q \in Run, q # r
        PROVE  RewriteOf(q)'
    BY <1>1, <1>3, <2>3 DEF AloneInv, RewriteOf
  <2>4. RewriteOf(r)'
    BY <1>1, <1>3, <1>4, <1>5 DEF RewriteOf, new
  <2>. QED
    BY <1>1, <2>1, <2>2, <2>3, <2>4 DEF AloneInv, Apart
<1>7. ParityInv'
  <2>1. \A q \in Run : Staging(q)' = Staging(q)
    BY <1>1 DEF Staging
  <2>2. ASSUME NEW q \in Run
        PROVE  ParityOf(q)'
    BY <1>1, <1>3, <1>4, <2>1 DEF ParityInv, ParityOf, BeforeParity, SinceParity
  <2>. QED
    BY <1>1, <2>2 DEF ParityInv
<1>8. \A q : Listing(q)' <=> Listing(q)
  BY <1>1, <1>3, <1>4 DEF Listing, Registered
<1>9. VouchInv'
  BY <1>1, <1>3, <1>4, <1>8 DEF VouchInv
<1>10. /\ \A q \in Run : Past(q)' <=> Past(q)
       /\ \A q \in Run : Publishing(q)' => Publishing(q)
  BY <1>1, <1>2, <1>3, <1>4 DEF Past, Publishing
<1>11. Readable' <=> Readable
  BY <1>1, <1>3, <1>4 DEF Readable
<1>12. StandInv'
  BY <1>1, <1>3, <1>4, <1>8, <1>10, <1>11 DEF StandInv
<1>13. ReadInv'
  BY <1>1 DEF ReadInv
<1>14. WholeInv'
  <2>1. \A q \in Run : Interrupted(q) => Interrupted(q)'
    BY <1>1, <1>3 DEF Interrupted
  <2>2. \A d : (InFull(d) => InFull(d)') /\ \A f : Whole(d, f) <=> Whole(d, f)'
    BY <1>1, <2>1, FullFrame
  <2>3. \A q : Known(q)' <=> Known(q)
    BY <1>1, <1>8 DEF Known
  <2>4. ASSUME NEW q \in Run
        PROVE  WholeOf(q)'
    BY <1>1, <1>3, <1>4, <2>2 DEF WholeInv, WholeOf, StagedOnes
  <2>. QED
    BY <2>2, <2>3, <2>4 DEF WholeInv
<1>. QED
  BY <1>6, <1>7, <1>9, <1>12, <1>13, <1>14

\* While the registry is truncated, what is listed is what will be written: what it
\* listed before, and the profile of the run, which vouches for it.
LEMMA TruncateUndisturbed ==
    ASSUME ReleaseInv, Undisturbed, NEW r \in Run, TruncateRegistry(r)
    PROVE  Undisturbed'
<1>. DEFINE p == args[r].profile
<1>. USE DEF Undisturbed, outVars, processVars
<1>1. /\ stage[r] = "truncate" /\ stage' = [stage EXCEPT ![r] = "write"] /\ registry' = Truncated
      /\ UNCHANGED <<args, bad, copied, open, rewritten, candidate, bundles, embedded, compared, text,
                     entries, loads, pc, key, loaded>>
  BY DEF TruncateRegistry, Goes, vars
<1>2. stage'[r] = "write" /\ \A q \in Run : q # r => stage'[q] = stage[q]
  BY <1>1 DEF ReleaseInv, ReleaseTypes
<1>3. /\ registry # Truncated /\ rewritten[r] = WithEntry(registry, p, args[r].latest)
      /\ \A q \in Run : q # r => ~Writes(q)
  BY <1>1 DEF AloneInv, RewriteOf, Writes
<1>4. registry \in Registry /\ p \in Profile /\ args[r].latest \in BOOLEAN
  BY <1>3, ArgsTypes DEF ReleaseInv, ReleaseTypes
<1>5. \A q \in Profile : rewritten[r][q] # "absent" <=> (q = p \/ registry[q] # "absent")
  BY <1>3, <1>4 DEF WithEntry, Registry, Status
<1>6. \A q \in Profile : Listing(q)' <=> (q = p \/ Listing(q))
  BY <1>1, <1>2, <1>3, <1>5 DEF Listing, Registered, Writes
<1>7. \A q \in Run : args[q].profile \in Profile
  BY ArgsTypes DEF ReleaseInv
<1>8. AloneInv'
  <2>1. \A q \in Run : (Live(q)' <=> Live(q)) /\ (Writes(q)' <=> Writes(q))
    BY <1>1, <1>2 DEF Live, Writes
  <2>2. \A q \in Run : RewriteOf(q)'
    BY <1>1, <1>2, <1>3, <1>4, <1>5 DEF AloneInv, RewriteOf, Writes
  <2>. QED
    BY <1>1, <2>1, <2>2 DEF AloneInv, Apart
<1>9. ParityInv'
  <2>1. \A q \in Run : Staging(q)' = Staging(q)
    BY <1>1 DEF Staging
  <2>2. ASSUME NEW q \in Run
        PROVE  ParityOf(q)'
    BY <1>1, <1>2, <2>1 DEF ParityInv, ParityOf, BeforeParity, SinceParity
  <2>. QED
    BY <1>1, <2>2 DEF ParityInv
<1>10. VouchInv'
  <2>1. ASSUME NEW q \in Run, stage'[q] = "copy"
        PROVE  ~Listing(args[q].profile)' /\ embedded[args[q].profile] = "absent"
    <3>1. q # r /\ stage[q] = "copy"
      BY <1>2, <2>1
    <3>2. args[q].profile # p
      BY <1>1, <3>1 DEF AloneInv, Apart, Live
    <3>3. ~Listing(args[q].profile) /\ embedded[args[q].profile] = "absent"
      BY <3>1 DEF VouchInv
    <3>4. args'[q].profile = args[q].profile
      BY <1>1
    <3>. QED
      BY <1>6, <1>7, <3>2, <3>3, <3>4
  <2>2. compared[r] = {bundles[p]["stdlib"]}
    BY <1>1 DEF ParityInv, ParityOf
  <2>3. ASSUME NEW q \in Profile, q = p \/ Listing(q), q # Default
        PROVE  \E w \in Run : args[w].profile = q /\ compared[w] = {bundles[q]["stdlib"]}
    BY <2>2, <2>3 DEF VouchInv
  <2>4. UNCHANGED <<args, bundles, embedded, compared>>
    BY <1>1
  <2>. QED
    BY <1>6, <2>1, <2>3, <2>4 DEF VouchInv
<1>11. \A q \in Run : (Past(q)' <=> Past(q)) /\ (Publishing(q)' <=> Publishing(q))
  BY <1>1, <1>2 DEF Past, Publishing
<1>12. Readable
  BY <1>3 DEF Readable
<1>13. StandInv'
  BY <1>1, <1>2, <1>6, <1>7, <1>11, <1>12 DEF StandInv
<1>14. ReadInv'
  BY <1>1 DEF ReadInv
<1>15. WholeInv'
  <2>1. \A q \in Run : Interrupted(q) => Interrupted(q)'
    BY <1>1, <1>2 DEF Interrupted
  <2>2. \A d : (InFull(d) => InFull(d)') /\ \A f : Whole(d, f) <=> Whole(d, f)'
    BY <1>1, <2>1, FullFrame
  <2>3. \A q \in Profile : Known(q)' <=> (q = p \/ Known(q))
    BY <1>1, <1>6 DEF Known
  <2>4. InFull(p)
    BY <1>1 DEF WholeInv, WholeOf, InFull
  <2>5. \A q \in Run : WholeOf(q)'
    BY <1>1, <1>2, <2>2 DEF WholeInv, WholeOf, StagedOnes
  <2>. QED
    BY <2>2, <2>3, <2>4, <2>5 DEF WholeInv
<1>. QED
  BY <1>8, <1>9, <1>10, <1>13, <1>14, <1>15

LEMMA WriteUndisturbed ==
    ASSUME ReleaseInv, Undisturbed, NEW r \in Run, WriteRegistry(r)
    PROVE  Undisturbed'
<1>. DEFINE p == args[r].profile
<1>. USE DEF Undisturbed, outVars, processVars
<1>1. /\ stage[r] = "write" /\ stage' = [stage EXCEPT ![r] = "trace"] /\ registry' = rewritten[r]
      /\ UNCHANGED <<args, bad, copied, open, rewritten, candidate, bundles, embedded, compared, text,
                     entries, loads, pc, key, loaded>>
  BY DEF WriteRegistry, Goes, vars
<1>2. stage'[r] = "trace" /\ \A q \in Run : q # r => stage'[q] = stage[q]
  BY <1>1 DEF ReleaseInv, ReleaseTypes
<1>3. /\ registry = Truncated /\ rewritten[r] # Truncated
      /\ \A q \in Run : q # r => ~Writes(q)
  BY <1>1, TruncatedAssumption DEF AloneInv, RewriteOf, Writes, ReleaseInv, LatestInv
<1>4. \A q : Listing(q)' <=> Listing(q)
  BY <1>1, <1>2, <1>3 DEF Listing, Registered, Writes
<1>5. AloneInv'
  <2>1. \A q \in Run : (Live(q)' <=> Live(q)) /\ ~Writes(q)'
    BY <1>1, <1>2, <1>3 DEF Live, Writes
  <2>2. \A q \in Run : RewriteOf(q)'
    BY <1>1, <1>2, <1>3 DEF AloneInv, RewriteOf, Writes
  <2>. QED
    BY <1>1, <2>1, <2>2 DEF AloneInv, Apart
<1>6. ParityInv'
  <2>1. \A q \in Run : Staging(q)' = Staging(q)
    BY <1>1 DEF Staging
  <2>2. ASSUME NEW q \in Run
        PROVE  ParityOf(q)'
    BY <1>1, <1>2, <2>1 DEF ParityInv, ParityOf, BeforeParity, SinceParity
  <2>. QED
    BY <1>1, <2>2 DEF ParityInv
<1>7. VouchInv'
  BY <1>1, <1>2, <1>4 DEF VouchInv
<1>8. \A q \in Run : (Past(q)' <=> Past(q)) /\ (Publishing(q)' <=> Publishing(q))
  BY <1>1, <1>2 DEF Past, Publishing
<1>9. Readable /\ Listing(p)
  <2>1. rewritten[r][p] # "absent"
    BY <1>1 DEF AloneInv, RewriteOf
  <2>. QED
    BY <1>1, <2>1 DEF Readable, Listing
<1>10. StandInv'
  BY <1>1, <1>2, <1>4, <1>8, <1>9 DEF StandInv
<1>11. ReadInv'
  BY <1>1 DEF ReadInv
<1>12. WholeInv'
  <2>1. \A q \in Run : Interrupted(q) => Interrupted(q)'
    BY <1>1, <1>2 DEF Interrupted
  <2>2. \A d : (InFull(d) => InFull(d)') /\ \A f : Whole(d, f) <=> Whole(d, f)'
    BY <1>1, <2>1, FullFrame
  <2>3. \A q : Known(q)' <=> Known(q)
    BY <1>1, <1>4 DEF Known
  <2>4. \A q \in Run : WholeOf(q)'
    BY <1>1, <1>2, <2>2 DEF WholeInv, WholeOf, StagedOnes
  <2>. QED
    BY <2>2, <2>3, <2>4 DEF WholeInv
<1>. QED
  BY <1>5, <1>6, <1>7, <1>10, <1>11, <1>12

\* The trace is the last file a promotion changes, and nobody else's: it is opened, or
\* written.
LEMMA TraceUndisturbed ==
    ASSUME ReleaseInv, Undisturbed, NEW r \in Run, OpenTrace(r) \/ WriteTrace(r)
    PROVE  Undisturbed'
<1>. DEFINE p == args[r].profile
            to == IF OpenTrace(r) THEN "trace" ELSE "report"
            content == IF OpenTrace(r) THEN Truncated ELSE r
<1>. USE DEF Undisturbed, outVars, processVars
<1>1. /\ stage[r] = "trace" /\ stage' = [stage EXCEPT ![r] = to]
      /\ bundles' = [bundles EXCEPT ![p]["trace"] = content]
      /\ open' = [open EXCEPT ![r] = IF to = "trace" THEN "trace" ELSE "none"]
      /\ UNCHANGED <<args, bad, copied, rewritten, candidate, registry, embedded, compared, text,
                     entries, loads, pc, key, loaded>>
  <2>1. CASE OpenTrace(r)
    BY <2>1 DEF OpenTrace, Opens, vars, ReleaseInv, ReleaseTypes
  <2>2. CASE ~OpenTrace(r)
    BY <2>2 DEF WriteTrace, Fills, Goes, vars, ReleaseInv, ReleaseTypes
  <2>. QED
    BY <2>1, <2>2
<1>0. (to = "trace" /\ content = Truncated) \/ (to = "report" /\ content = r)
  <2>1. CASE OpenTrace(r)
    BY ONLY <2>1 DEF to, content
  <2>2. CASE ~OpenTrace(r)
    BY ONLY <2>2 DEF to, content
  <2>. QED
    BY ONLY <2>1, <2>2
<1>. HIDE DEF to, content
<1>2. stage'[r] = to /\ \A q \in Run : q # r => stage'[q] = stage[q] /\ open'[q] = open[q]
  BY <1>1 DEF ReleaseInv, ReleaseTypes
<1>3. \A q \in Run : args[q].profile \in Profile
  BY ArgsTypes DEF ReleaseInv
<1>4. /\ \A q \in Profile : bundles'[q]["stdlib"] = bundles[q]["stdlib"]
      /\ \A q \in Profile : q # p => bundles'[q]["trace"] = bundles[q]["trace"]
      /\ bundles'[p]["trace"] = content
      /\ \A q \in Profile : q # p => bundles'[q] = bundles[q]
      /\ \A f \in File : f # "trace" => bundles'[p][f] = bundles[p][f]
  BY <1>1, <1>3 DEF ReleaseInv, ReleaseTypes, File
<1>5. AloneInv'
  <2>1. \A q \in Run : (Live(q)' <=> Live(q)) /\ (Writes(q)' <=> Writes(q))
    BY <1>0, <1>1, <1>2 DEF Live, Writes
  <2>2. \A q \in Run : RewriteOf(q)'
    BY <1>0, <1>1, <1>2 DEF AloneInv, RewriteOf
  <2>. QED
    BY <1>1, <2>1, <2>2 DEF AloneInv, Apart
<1>6. ParityInv'
  <2>1. \A q \in Run : Staging(q)' = Staging(q)
    BY <1>1 DEF Staging
  <2>2. ASSUME NEW q \in Run
        PROVE  ParityOf(q)'
    BY <1>0, <1>1, <1>2, <1>3, <1>4, <2>1 DEF ParityInv, ParityOf, BeforeParity, SinceParity
  <2>. QED
    BY <1>1, <2>2 DEF ParityInv
<1>7. \A q : Listing(q)' <=> Listing(q)
  BY <1>0, <1>1, <1>2 DEF Listing, Registered
<1>8. VouchInv'
  <2>1. ASSUME NEW q \in Run, stage'[q] = "copy"
        PROVE  ~Listing(args[q].profile) /\ embedded[args[q].profile] = "absent"
    BY <1>0, <1>2, <2>1 DEF VouchInv
  <2>2. ASSUME NEW m \in Profile, Listing(m), m # Default
        PROVE  \E q \in Run : args[q].profile = m /\ compared[q] = {bundles[m]["stdlib"]}
    BY <2>2 DEF VouchInv
  <2>3. UNCHANGED <<args, embedded, compared>>
    BY <1>1
  <2>. QED
    BY <1>4, <1>7, <2>1, <2>2, <2>3 DEF VouchInv
<1>9. Readable' <=> Readable
  BY <1>0, <1>1, <1>2 DEF Readable
<1>10. /\ \A q \in Run : Past(q)' => (q = r /\ to = "report") \/ (q # r /\ Past(q))
       /\ \A q \in Run : Publishing(q)' => Publishing(q) /\ Live(q) /\ (q = r => to = "trace")
       /\ Publishing(r) /\ Live(r)
  <2>1. UNCHANGED <<bad, rewritten>>
    BY <1>1
  <2>2. ~Past(r) /\ Publishing(r) /\ Live(r)
    BY <1>1 DEF Past, Publishing, Live
  <2>3. (stage'[r] = "report" => to = "report") /\ stage'[r] # "done"
        /\ (Publishing(r)' => to = "trace")
    BY <1>0, <1>2 DEF Publishing
  <2>4. \A q \in Run : q # r => (Past(q)' => Past(q)) /\ (Publishing(q)' => Publishing(q))
    BY <1>2, <2>1 DEF Past, Publishing
  <2>5. \A q \in Run : Publishing(q) => Live(q)
    BY DEF Publishing, Live
  <2>6. Past(r)' => to = "report"
    BY <2>3 DEF Past
  <2>. QED
    BY <2>2, <2>3, <2>4, <2>5, <2>6
<1>11. StandInv'
  <2>1. ASSUME NEW q \in Run, Past(q)' \/ stage'[q] = "trace", Readable
        PROVE  Listing(args[q].profile)
    BY <1>1, <1>2, <1>10, <2>1 DEF StandInv
  <2>2. ASSUME NEW q \in Run, Past(q)'
        PROVE  bundles'[args[q].profile]["trace"] = q
    BY <1>0, <1>3, <1>4, <1>10, <2>2 DEF StandInv
  <2>3. ASSUME NEW q \in Run, NEW o \in Run, Past(q)', Publishing(o)'
        PROVE  args[q].profile # args[o].profile
    BY <1>0, <1>10, <2>3 DEF StandInv, AloneInv, Apart
  <2>4. args' = args
    BY <1>1
  <2>. QED
    BY <1>7, <1>9, <2>1, <2>2, <2>3, <2>4 DEF StandInv
<1>12. ReadInv'
  <2>1. \A k \in Locator : bundles'[k]["stdlib"] = bundles[k]["stdlib"]
    BY <1>4 DEF Profile
  <2>2. \A t \in Thread : bundles'[key[t]]["stdlib"] = bundles[key[t]]["stdlib"]
    BY <1>1 DEF ReleaseInv, ReleaseTypes, File
  <2>. QED
    BY <1>1, <2>1, <2>2 DEF ReadInv
<1>13. WholeInv'
  <2>1. \A q \in Run : q # r => (Interrupted(q) => Interrupted(q)')
    BY <1>2 DEF Interrupted
  <2>2. ASSUME NEW q \in Profile, NEW f \in File, q # p \/ f # "trace"
        PROVE  Whole(q, f) <=> Whole(q, f)'
    <3>1. bundles'[q][f] = bundles[q][f]
      BY <1>4, <2>2
    <3>. QED
      BY <3>1 DEF Whole, There
  <2>3. ASSUME NEW q \in Profile, InFull(q), q # p
        PROVE  InFull(q)'
    <3>1. CutShort(q) => CutShort(q)'
      BY <1>1, <1>4, <2>1, <2>3 DEF CutShort
    <3>. QED
      BY <2>2, <2>3, <3>1 DEF InFull
  <2>4. InFull(p) => InFull(p)'
    <3>1. CASE to = "trace"
      <4>1. Interrupted(r)' /\ bundles'[p].trace = Truncated /\ args' = args
        BY <1>0, <1>1, <1>2, <1>4, <3>1 DEF Interrupted, ReleaseInv, ReleaseTypes
      <4>2. CutShort(p)'
        BY <4>1 DEF CutShort
      <4>. QED
        BY <1>3, <2>2, <4>1, <4>2 DEF InFull
    <3>2. CASE to = "report"
      <4>1. bundles'[p]["trace"] = r /\ args' = args
        BY <1>0, <1>1, <1>4, <3>2
      <4>2. Whole(p, "trace")'
        BY <4>1, NoFileAssumption, TruncatedAssumption DEF Whole, There
      <4>. QED
        BY <1>3, <2>2, <4>1, <4>2 DEF InFull
    <3>. QED
      BY <1>0, <3>1, <3>2
  <2>5. \A q : Known(q)' <=> Known(q)
    BY <1>1, <1>7 DEF Known
  <2>6. ASSUME NEW q \in Run
        PROVE  WholeOf(q)'
    <3>1. CASE q = r
      BY <1>0, <1>2, <3>1 DEF WholeOf, StagedOnes
    <3>2. CASE q # r
      <4>1. Live(q) => \A f \in File : Whole(args[q].profile, f) <=> Whole(args[q].profile, f)'
        BY <1>1, <1>3, <2>2, <3>2 DEF AloneInv, Apart, Live
      <4>2. copied[q] \subseteq File
        BY DEF ReleaseInv, ReleaseTypes
      <4>. QED
        BY <1>1, <1>2, <3>2, <4>1, <4>2 DEF WholeInv, WholeOf, Live
    <3>. QED
      BY <3>1, <3>2
  <2>7. args' = args
    BY <1>1
  <2>. QED
    BY <1>3, <2>3, <2>4, <2>5, <2>6, <2>7 DEF WholeInv
<1>. QED
  BY <1>5, <1>6, <1>8, <1>11, <1>12, <1>13

\* A run that dies or fails while it writes leaves a registry nobody can read.
LEMMA StopUndisturbed ==
    ASSUME ReleaseInv, Undisturbed, NEW r \in Run, PromotionFails(r) \/ Die(r)
    PROVE  Undisturbed'
<1>. USE DEF Undisturbed, outVars, repoVars, processVars
<1>1. UNCHANGED <<args, candidate, bundles, registry, embedded, compared, text,
                  entries, loads, pc, key, loaded>>
  BY DEF PromotionFails, Die, vars
<1>2. /\ \/ stage'[r] = "dead" /\ rewritten'[r] = Truncated
         \/ stage'[r] = "report" /\ bad'[r] # {} /\ ~Interrupted(r)
      /\ Live(r)
      /\ \A q \in Run : q # r => stage'[q] = stage[q] /\ bad'[q] = bad[q] /\ open'[q] = open[q]
                                 /\ copied'[q] = copied[q] /\ rewritten'[q] = rewritten[q]
  <2>1. CASE PromotionFails(r)
    <3>1. bad' = [bad EXCEPT ![r] = @ \cup {"failed"}] /\ bad'[r] # {}
      BY <2>1 DEF PromotionFails, Mark, ReleaseInv, ReleaseTypes
    <3>2. stage' = [stage EXCEPT ![r] = "report"] /\ stage'[r] = "report"
      BY <2>1 DEF PromotionFails, ReleaseInv, ReleaseTypes
    <3>3. ~Interrupted(r) /\ Live(r)
      BY <2>1 DEF PromotionFails, Interrupted, Live
    <3>4. open' = [open EXCEPT ![r] = "none"] /\ UNCHANGED <<copied, rewritten>>
      BY <2>1 DEF PromotionFails
    <3>. QED
      BY <3>1, <3>2, <3>3, <3>4 DEF ReleaseInv, ReleaseTypes
  <2>2. CASE Die(r)
    BY <2>2 DEF Die, ReleaseInv, ReleaseTypes
  <2>. QED
    BY <2>1, <2>2
<1>3. AloneInv'
  <2>1. \A q \in Run : (Live(q)' => Live(q)) /\ (Writes(q)' => Writes(q))
    BY <1>2 DEF Live, Writes
  <2>2. \A q \in Run : RewriteOf(q)'
    BY <1>1, <1>2 DEF AloneInv, RewriteOf
  <2>. QED
    BY <1>1, <2>1, <2>2 DEF AloneInv, Apart
<1>4. ParityInv'
  <2>1. \A q \in Run : Staging(q)' = Staging(q)
    BY <1>1 DEF Staging
  <2>2. ASSUME NEW q \in Run
        PROVE  ParityOf(q)'
    BY <1>1, <1>2, <2>1 DEF ParityInv, ParityOf, BeforeParity, SinceParity
  <2>. QED
    BY <1>1, <2>2 DEF ParityInv
<1>5. \A q : Listing(q)' => Listing(q)
  BY <1>1, <1>2 DEF Listing, Registered
<1>6. VouchInv'
  BY <1>1, <1>2, <1>5 DEF VouchInv
<1>7. Readable' => Readable /\ \A q : Listing(q) => Listing(q)'
  <2>1. CASE registry # Truncated
    BY <1>1, <2>1 DEF Readable, Listing, Registered, AloneInv, RewriteOf
  <2>2. CASE registry = Truncated
    BY <1>1, <1>2, <2>2 DEF Readable, Listing, Registered, AloneInv, Writes
  <2>. QED
    BY <2>1, <2>2
<1>8. /\ \A q \in Run : Past(q)' => Past(q)
      /\ \A q \in Run : Publishing(q)' => Publishing(q)
      /\ \A q \in Run : stage'[q] = "trace" => stage[q] = "trace"
  BY <1>2 DEF Past, Publishing
<1>9. StandInv'
  BY <1>1, <1>7, <1>8 DEF StandInv
<1>10. ReadInv'
  BY <1>1 DEF ReadInv
<1>11. WholeInv'
  <2>1. \A q \in Run : Interrupted(q) => Interrupted(q)'
    BY <1>2 DEF Interrupted, Live
  <2>2. \A d : (InFull(d) => InFull(d)') /\ \A f : Whole(d, f) <=> Whole(d, f)'
    BY <1>1, <2>1, FullFrame
  <2>3. \A q : Known(q)' => Known(q)
    BY <1>1, <1>5 DEF Known
  <2>4. \A q \in Run : WholeOf(q)'
    BY <1>1, <1>2, <2>2 DEF WholeInv, WholeOf, StagedOnes
  <2>. QED
    BY <2>2, <2>3, <2>4 DEF WholeInv
<1>. QED
  BY <1>3, <1>4, <1>6, <1>9, <1>10, <1>11

\* The runs' part of the invariant is about the runs and their files only.
runs == <<stage, args, bad, compared, copied, open, rewritten, candidate, bundles, registry>>

LEMMA RunsUndisturbed ==
    ASSUME Undisturbed, UNCHANGED runs,
           \A r \in Run : stage[r] = "copy" => embedded'[args[r].profile] = "absent",
           \A p \in Profile : embedded'[p] # "absent" => Known(p),
           ReadInv'
    PROVE  Undisturbed'
<1>. USE DEF Undisturbed, runs
<1>1. AloneInv'
  BY DEF AloneInv, Live, Writes, Apart, RewriteOf
<1>2. ParityInv'
  BY DEF ParityInv, ParityOf, Staging
<1>3. \A q : Listing(q)' <=> Listing(q)
  BY DEF Listing, Registered
<1>4. VouchInv'
  BY <1>3 DEF VouchInv
<1>5. StandInv'
  BY <1>3 DEF StandInv, Past, Publishing, Readable
<1>6. WholeInv'
  <2>1. \A q \in Run : Interrupted(q) => Interrupted(q)'
    BY DEF Interrupted
  <2>2. \A d : (InFull(d) => InFull(d)') /\ \A f : Whole(d, f) <=> Whole(d, f)'
    BY <2>1, FullFrame
  <2>3. \A p \in Profile : Known(p)' => Known(p)
    BY <1>3 DEF Known
  <2>4. \A q \in Run : WholeOf(q)'
    BY <2>2 DEF WholeInv, WholeOf
  <2>. QED
    BY <2>2, <2>3, <2>4 DEF WholeInv
<1>. QED
  BY <1>1, <1>2, <1>4, <1>5, <1>6

LEMMA RebuildUndisturbed ==
    ASSUME ReleaseInv, Undisturbed, Rebuild
    PROVE  Undisturbed'
<1>1. UNCHANGED runs
  BY DEF Rebuild, runs, runVars, outVars, repoVars
<1>2. registry # Truncated /\ embedded' = registry
  BY DEF Rebuild, Buildable
<1>3. \A r \in Run : stage[r] = "copy" => embedded'[args[r].profile] = "absent"
  BY <1>2 DEF Undisturbed, VouchInv, Listing, Registered
<1>4. ReadInv'
  BY DEF Rebuild, ReadInv, Content
<1>5. \A p \in Profile : embedded'[p] # "absent" => Known(p)
  BY <1>2 DEF Known, Listing, Registered
<1>. QED
  BY <1>1, <1>3, <1>4, <1>5, RunsUndisturbed

\* A thread reads what is on disk now, of a profile that is embedded.
LEMMA UseLibraryUndisturbed ==
    ASSUME ReleaseInv, Inv, Undisturbed, NEW t \in Thread, UseLibrary(t)
    PROVE  Undisturbed'
<1>. USE DEF Inv, TypeOK
<1>1. UNCHANGED runs /\ embedded' = embedded
  BY DEF UseLibrary, runs, runVars, outVars, repoVars
<1>2. ReadInv
  BY DEF Undisturbed
<1>3. bundles' = bundles /\ embedded' = embedded
  BY <1>1 DEF runs
<1>4. ReadInv'
  <2>1. ASSUME NEW k \in Locator, embedded[k] # "absent", Call(t, k), UNCHANGED text
        PROVE  ReadInv'
    BY <1>2, <1>3, <2>1 DEF ReadInv, Call, Goto
  <2>2. CASE Hit(t) /\ UNCHANGED text
    BY <1>2, <1>3, <2>2 DEF ReadInv, Hit, Return, Goto
  <2>3. CASE (Miss(t) \/ LoadFails(t)) /\ UNCHANGED text
    BY <1>2, <1>3, <2>3 DEF ReadInv, Miss, LoadFails, Goto
  <2>4. CASE Enter(t) /\ UNCHANGED text
    <3>. DEFINE document == IF entries[key[t]] = NoDocument THEN loaded[t] ELSE entries[key[t]]
    <3>1. /\ pc[t] = "enter" /\ entries' = [entries EXCEPT ![key[t]] = document]
          /\ loaded' = [loaded EXCEPT ![t] = NoDocument] /\ pc' = [pc EXCEPT ![t] = "idle"]
          /\ UNCHANGED <<loads, key, text>>
      BY <2>4 DEF Enter, Return, Goto
    <3>2. loaded[t] # NoDocument /\ key[t] \in Locator /\ embedded[key[t]] # "absent"
      BY <1>2, <3>1 DEF ReadInv
    <3>3. document <= loads /\ text[document] = bundles[key[t]]["stdlib"]
      BY <1>2, <3>2 DEF ReadInv
    <3>. HIDE DEF document
    <3>4. \A k \in Locator : entries'[k] = IF k = key[t] THEN document ELSE entries[k]
      BY <3>1
    <3>. QED
      BY <1>2, <1>3, <3>1, <3>2, <3>3, <3>4 DEF ReadInv
  <2>5. CASE ReadLibrary(t)
    <3>1. /\ pc[t] = "load" /\ loads < MaxLoads /\ loads' = loads + 1
          /\ loaded' = [loaded EXCEPT ![t] = loads'] /\ pc' = [pc EXCEPT ![t] = "enter"]
          /\ UNCHANGED <<entries, key>>
          /\ text' = [text EXCEPT ![loads'] = bundles[key[t]].stdlib]
      BY <2>5 DEF ReadLibrary, Load, Goto
    <3>2. loads \in Nat /\ loads' \in Document /\ loads' \in Nat /\ loads <= loads'
      BY <3>1, MaxLoadsAssumption DEF Document
    <3>3. \A d \in Document : d <= loads => d # loads' /\ d <= loads' /\ text'[d] = text[d]
      BY <1>2, <3>1, <3>2 DEF ReadInv, Document
    <3>4. text' \in [Document -> Content] /\ text'[loads'] = bundles[key[t]]["stdlib"]
      <4>1. key[t] \in Profile /\ "stdlib" \in File
        BY DEF Profile, File
      <4>2. bundles[key[t]]["stdlib"] \in Content
        BY <4>1 DEF ReleaseInv, ReleaseTypes
      <4>. QED
        BY <1>2, <3>1, <3>2, <4>2 DEF ReadInv
    <3>5. ASSUME NEW u \in Thread, loaded'[u] # NoDocument
          PROVE  loaded'[u] <= loads' /\ text'[loaded'[u]] = bundles[key[u]]["stdlib"]
      <4>1. CASE u = t
        BY <3>1, <3>2, <3>4, <4>1
      <4>2. CASE u # t
        BY <1>2, <3>1, <3>3, <3>5, <4>2 DEF ReadInv
      <4>. QED
        BY <4>1, <4>2
    <3>6. \A u \in Thread : pc'[u] # "idle" => pc[u] # "idle"
      BY <3>1
    <3>7. ASSUME NEW k \in Locator, entries[k] # NoDocument
          PROVE  /\ embedded[k] # "absent"
                 /\ entries[k] <= loads' /\ text'[entries[k]] = bundles[k]["stdlib"]
      BY <1>2, <3>3, <3>7 DEF ReadInv
    <3>. QED
      BY <1>2, <1>3, <3>1, <3>4, <3>5, <3>6, <3>7 DEF ReadInv
  <2>. QED
    BY <2>1, <2>2, <2>3, <2>4, <2>5 DEF UseLibrary
<1>. QED
  BY <1>1, <1>4, RunsUndisturbed DEF Undisturbed, VouchInv, Known

LEMMA PromotionStep ==
    ASSUME PromotionInv, [ReleaseNext]_releaseVars
    PROVE  PromotionInv'
<1>. USE DEF PromotionInv
<1>1. ReleaseInv' /\ Inv'
  BY ReleaseStepInv, CacheStepInv
<1>. SUFFICES ASSUME ~contended' PROVE Undisturbed'
  BY <1>1
<1>2. ~contended
  BY DEF ReleaseNext, RunStep, Start, Stage, FindArtifacts, MissArtifacts, BuildStdlib, CheckWrappers,
     Compare, Gate, Validate, OpenCopy, CopyFile, ReadRegistry, TruncateRegistry, WriteRegistry,
     PromotionFails, OpenTrace, WriteTrace, Report, Die, Wire, Rebuild, UseLibrary, releaseVars
<1>3. ASSUME NEW r \in Run, RunStep(r)
      PROVE  Undisturbed'
  BY <1>2, <1>3, MovesUndisturbed, StageUndisturbed, CompareUndisturbed, CopyUndisturbed,
     ReadRegistryUndisturbed, TruncateUndisturbed, WriteUndisturbed, TraceUndisturbed,
     StopUndisturbed DEF RunStep
<1>4. CASE UNCHANGED <<runs, processVars>>
  <2>1. ReadInv'
    BY <1>2, <1>4 DEF Undisturbed, ReadInv, runs, processVars, vars
  <2>. QED
    BY <1>2, <1>4, <2>1, RunsUndisturbed DEF Undisturbed, VouchInv, Known, processVars
<1>5. ASSUME NEW p \in Profile, Wire(p)
      PROVE  Undisturbed'
  BY <1>4, <1>5 DEF Wire, runs, runVars, outVars
<1>6. CASE Rebuild
  BY <1>2, <1>6, RebuildUndisturbed
<1>7. ASSUME NEW t \in Thread, UseLibrary(t)
      PROVE  Undisturbed'
  BY <1>2, <1>7, UseLibraryUndisturbed
<1>8. CASE UNCHANGED releaseVars
  BY <1>4, <1>8 DEF releaseVars, runs, runVars, outVars, repoVars
<1>. QED
  BY <1>3, <1>5, <1>6, <1>7, <1>8 DEF ReleaseNext

LEMMA PromotionInvariance == ReleaseSpec => []PromotionInv
<1>1. ReleaseInit => PromotionInv
  BY InitReleaseInv, InitInv, InitUndisturbed DEF ReleaseInit, PromotionInv
<1>2. PromotionInv /\ [ReleaseNext]_releaseVars => PromotionInv'
  BY PromotionStep
<1>. QED
  BY <1>1, <1>2, PTL DEF ReleaseSpec

\* What the registry lists, and what the last build embedded of it, is on disk, under
\* its own id if it can be read; and all of it in full but for the trace of a run that
\* is writing it or died, as long as runs keep out of each other's way.
THEOREM RegisteredStaysComplete == ReleaseSpec => []RegisteredIsComplete
<1>1. PromotionInv => RegisteredIsComplete
  <2>. SUFFICES ASSUME PromotionInv, NEW p \in Profile, Registered(p) \/ embedded[p] # "absent"
                PROVE  /\ \A f \in File : There(p, f)
                       /\ ~contended => InFull(p)
    BY DEF RegisteredIsComplete, InFull
  <2>1. \A f \in File : There(p, f)
    BY DEF PromotionInv, ReleaseInv, ListedInv, Present
  <2>2. ~contended => InFull(p)
    BY DEF PromotionInv, Undisturbed, WholeInv, Known, Listing
  <2>. QED
    BY <2>1, <2>2
<1>. QED
  BY PromotionInvariance, <1>1, PTL

\* Runs that keep out of each other's way only register a library that all their
\* parity stages agreed on, and what one reports as promoted stays registered with
\* its trace, wherever others die.
THEOREM PromotionsStand == ReleaseSpec => []PromotionStands
<1>1. PromotionInv => PromotionStands
  <2>. SUFFICES ASSUME PromotionInv, ~contended PROVE PromotionStands
    BY DEF PromotionStands
  <2>. USE DEF PromotionInv, Undisturbed
  <2>1. ASSUME NEW p \in Profile, Registered(p), p # Default
        PROVE  \E r \in Run : args[r].profile = p /\ compared[r] = {bundles[p].stdlib}
    BY <2>1 DEF VouchInv, Listing
  <2>2. ASSUME NEW r \in Run, Promoted(r), registry # Truncated
        PROVE  Registered(args[r].profile) /\ bundles[args[r].profile].trace = r
    <3>1. Past(r) /\ Readable
      BY <2>2 DEF Promoted, Past, Readable
    <3>2. \A o \in Run : stage[o] # "write"
      BY <2>2 DEF AloneInv, RewriteOf
    <3>. QED
      BY <3>1, <3>2 DEF StandInv, Listing
  <2>. QED
    BY <2>1, <2>2 DEF PromotionStands
<1>. QED
  BY PromotionInvariance, <1>1, PTL

\* A library that a process has cached is still the one on disk, so that not reading
\* it again is right, for any number of promotions and restarts.
THEOREM CachedStaysPromoted == ReleaseSpec => []CachedIsPromoted
<1>1. PromotionInv => CachedIsPromoted
  BY DEF PromotionInv, Undisturbed, ReadInv, CachedIsPromoted
<1>. QED
  BY PromotionInvariance, <1>1, PTL
=============================================================================
