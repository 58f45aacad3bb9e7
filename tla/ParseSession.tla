---------------------------- MODULE ParseSession ----------------------------
(***************************************************************************)
(* SysmlParseSession (crates/mercurio-sysml/src/parse_session.rs): a text, *)
(* its revision and the snapshot of its last parse, changed by batches of  *)
(* edits that clients send against the revision they have read. The parser *)
(* is a parameter.                                                         *)
(*                                                                         *)
(* A module is the sequence of its declarations in preorder: their span in *)
(* the text that was parsed, the index of their last descendant, whether   *)
(* they are top-level, and whether they are packages.                      *)
(***************************************************************************)
EXTENDS TextEdits

CONSTANTS
    Client,         \* the editors of the document
    Texts,          \* the texts a session is opened on
    Batches(_),     \* the batches a client may send on what it has read
    Parse(_),       \* [failed, diagnosed, module] of a text
    MaxRevision     \* bound: no batch is sent once the revision reaches it

Declaration == [span : TextRanges, last : Nat, top : BOOLEAN, package : BOOLEAN]
Module == Seq(Declaration)

\* The descendants of a declaration follow it, up to its last one.
InPreorder(module) ==
    /\ module \in Module
    /\ \A i \in 1..Len(module) : /\ module[i].last \in i..Len(module)
                                 /\ \A j \in i..module[i].last : module[j].last <= module[i].last

ASSUME MaxRevisionAssumption == MaxRevision \in Nat
ASSUME TextsAssumption == Texts \subseteq Seq(Byte)
ASSUME BatchesAssumption ==
    \A t \in Texts, r \in 0..MaxRevision :
        Batches([revision |-> r, text |-> t]) \subseteq Seq(TextEdits)
ASSUME ParseAssumption ==
    \A t \in Texts : /\ Parse(t) \in [failed : BOOLEAN, diagnosed : BOOLEAN, module : Module]
                     /\ InPreorder(Parse(t).module)

VARIABLES
    text, revision,     \* the text and its revision
    snapshot,           \* the ParseSnapshot of the text
    seen,               \* what each client has last read: [revision, text]
    accepted            \* the last batch that was applied: [before, edits], sorted

vars == <<text, revision, snapshot, seen, accepted>>

Current == [revision |-> revision, text |-> text]

-----------------------------------------------------------------------------
\* span_to_text_range, for texts of one line: a span of an older text is cut
\* off at the end of this one.
Clip(r, length) ==
    TextRange(IF r.start > length THEN length ELSE r.start,
              IF r.end > length THEN length ELSE r.end)

\* Seeded fault: a declaration is changed whenever its descendants are.
PushedWithParents(t, module, changes) ==
    {Clip(module[i].span, Len(t)) : i \in
        {x \in 1..Len(module) : \E c \in changes : RangesTouch(Clip(module[x].span, Len(t)), c)}}

\* collect_changed_*: innermost first, a declaration is changed by the ranges
\* that touch it but none of its changed descendants.
Pushed(t, module, changes) ==
    LET Span(i) == Clip(module[i].span, Len(t))
        pushed[n \in 0..Len(module)] ==
            LET i == Len(module) + 1 - n
            IN  IF n = 0 THEN {}
                ELSE pushed[n - 1] \cup
                     {x \in {i} : \E c \in changes :
                         /\ RangesTouch(Span(x), c)
                         /\ \A j \in pushed[n - 1] \cap (i + 1)..module[i].last :
                                ~RangesTouch(Span(j), c)}
    IN  {Span(i) : i \in pushed[Len(module)]}

\* Of several top-level declarations, only the first package is looked at,
\* if there is a package.
Considered(module) ==
    LET packages == {i \in 1..Len(module) : module[i].top /\ module[i].package}
    IN  IF packages = {} THEN module
        ELSE LET first == CHOOSE i \in packages : \A j \in packages : i <= j
             IN  [j \in 1..(module[first].last - first + 1) |->
                     [module[first + j - 1] EXCEPT !.last = @ - first + 1]]

ChangedDeclarationRanges(t, module, changed) ==
    IF changed = <<>> THEN {}
    ELSE Pushed(t, Considered(module), {changed[n] : n \in 1..Len(changed)})

\* Seeded fault: a failing parse leaves no module.
ModuleWithoutFallback(parsed, fallback) ==
    IF parsed.failed THEN <<>>
    ELSE IF parsed.diagnosed /\ parsed.module = <<>> /\ fallback # {}
         THEN CHOOSE m \in fallback : TRUE
         ELSE parsed.module

\* The module of a snapshot: that of the parse, unless it failed or found
\* nothing but diagnostics, and there is a previous module to show instead.
ModuleOf(parsed, fallback) ==
    IF fallback # {} /\ (parsed.failed \/ (parsed.diagnosed /\ parsed.module = <<>>))
    THEN CHOOSE m \in fallback : TRUE
    ELSE IF parsed.failed THEN <<>> ELSE parsed.module

\* Seeded fault: a module to show makes a parse a success.
StatusOfModule(parsed, fallback) ==
    IF parsed.failed /\ fallback = {} THEN "Failed"
    ELSE IF parsed.diagnosed THEN "Partial" ELSE "Ok"

StatusOf(parsed, fallback) ==
    IF parsed.failed THEN IF fallback = {} THEN "Failed" ELSE "Partial"
    ELSE IF parsed.diagnosed THEN "Partial" ELSE "Ok"

\* parse_snapshot, of a text that was parsed; fallback is {} or the previous
\* module.
SnapshotOf(parsed, rev, t, changed, fallback) ==
    LET module == ModuleOf(parsed, fallback)
    IN  [revision |-> rev,
         status |-> StatusOf(parsed, fallback),
         module |-> module,
         diagnosed |-> parsed.failed \/ parsed.diagnosed,
         changed_ranges |-> changed,
         changed_declaration_ranges |-> ChangedDeclarationRanges(t, module, changed)]

ParseSnapshot(rev, t, changed, fallback) == SnapshotOf(Parse(t), rev, t, changed, fallback)

-----------------------------------------------------------------------------
\* SysmlParseSession::open
Init ==
    /\ text \in Texts
    /\ revision = 0
    /\ snapshot = ParseSnapshot(0, text, <<>>, {})
    /\ seen = [c \in Client |-> Current]
    /\ accepted = [before |-> text, edits |-> <<>>]

\* A client reads text() and revision().
Read(c) ==
    /\ seen' = [seen EXCEPT ![c] = Current]
    /\ UNCHANGED <<text, revision, snapshot, accepted>>

\* Seeded fault: the base revision is not compared.
AnyRevision(base) == TRUE

IsCurrent(base) == base = revision

\* apply_edits(seen[c].revision, <<>>): nothing changed, the module stays.
SendNothing(c) ==
    /\ IsCurrent(seen[c].revision)
    /\ snapshot' = [snapshot EXCEPT !.changed_ranges = <<>>]
    /\ UNCHANGED <<text, revision, seen, accepted>>

\* Seeded fault: the revision of a batch is not a new one.
SameRevision == revision

NextRevision == revision + 1

\* A batch that is applied.
SendEdits(c, edits) ==
    /\ revision < MaxRevision
    /\ edits # <<>>
    /\ IsCurrent(seen[c].revision)
    /\ BatchErrors(text, edits) = {}
    /\ LET sorted == Sorted(edits)
       IN  /\ text' = Applied(text, sorted)
           /\ accepted' = [before |-> text, edits |-> sorted]
           /\ snapshot' = ParseSnapshot(NextRevision, text', ChangedRanges(sorted),
                                        {snapshot.module})
    /\ revision' = NextRevision
    /\ UNCHANGED seen

\* A batch that is refused: a stale revision, or an edit that fails its checks.
Refused(c, edits) ==
    /\ revision < MaxRevision
    /\ ~IsCurrent(seen[c].revision) \/ (edits # <<>> /\ BatchErrors(text, edits) # {})
    /\ UNCHANGED vars

Next ==
    \E c \in Client :
        \/ Read(c)
        \/ SendNothing(c)
        \/ \E edits \in Batches(seen[c]) : SendEdits(c, edits) \/ Refused(c, edits)

Spec == Init /\ [][Next]_vars

-----------------------------------------------------------------------------
Snapshots ==
    [revision : Nat, status : {"Ok", "Partial", "Failed"}, module : Module,
     diagnosed : BOOLEAN, changed_ranges : Seq(TextRanges),
     changed_declaration_ranges : SUBSET TextRanges]

TypeOK ==
    /\ text \in Seq(Byte)
    /\ revision \in 0..MaxRevision
    /\ snapshot \in Snapshots
    /\ seen \in [Client -> [revision : 0..MaxRevision, text : Seq(Byte)]]
    /\ accepted \in [before : Seq(Byte), edits : Seq(TextEdits)]

\* A revision number names one text: a client whose revision is the session's
\* holds the session's text, whatever the others sent in between.
RevisionNamesText == \A c \in Client : seen[c].revision = revision => seen[c].text = text

\* The changed ranges are where the replacements are in the text after the
\* batch, and between them is what was between the replaced ranges before it:
\* the batch did what its edits say, all of them against the text before it.
ChangedRangesHoldReplacements ==
    LET e == accepted.edits
        r == snapshot.changed_ranges
        Gap(t, ranges, n) ==
            SubSeq(t, IF n = 0 THEN 1 ELSE ranges[n].end + 1,
                      IF n = Len(ranges) THEN Len(t) ELSE ranges[n + 1].start)
    IN  r # <<>> =>
            /\ Len(r) = Len(e)
            /\ \A n \in 1..Len(r) : SubSeq(text, r[n].start + 1, r[n].end) = e[n].replacement
            /\ \A n \in 0..Len(r) : Gap(text, r, n) = Gap(accepted.before, e, n)

\* The changed declarations are the innermost ones: those of the declarations
\* looked at that a changed range touches without touching anything in them.
ChangedDeclarationsAreInnermost ==
    LET module == Considered(snapshot.module)
        Span(i) == Clip(module[i].span, Len(text))
        changes == {snapshot.changed_ranges[n] : n \in 1..Len(snapshot.changed_ranges)}
        Innermost(i, c) == /\ RangesTouch(Span(i), c)
                           /\ \A j \in (i + 1)..module[i].last : ~RangesTouch(Span(j), c)
    IN  changes # {} =>
            snapshot.changed_declaration_ranges =
                {Span(i) : i \in {x \in 1..Len(module) : \E c \in changes : Innermost(x, c)}}

\* The snapshot is of the session's text: "Ok" means its module is what the
\* text parses to, and a module that is not carries diagnostics; only a session
\* that was never edited is "Failed".
SnapshotIsHonest ==
    /\ snapshot.revision = revision
    /\ snapshot.status = "Ok" => ~snapshot.diagnosed /\ ~Parse(text).failed
    /\ snapshot.module # Parse(text).module => snapshot.diagnosed
    /\ snapshot.status = "Failed" => revision = 0 /\ snapshot.module = <<>>

\* Typing does not make the outline vanish: a session that shows declarations
\* shows some after every batch, unless the text parses cleanly to none.
OutlineIsKept ==
    [][snapshot.module # <<>> /\ snapshot'.module = <<>> => snapshot'.status = "Ok"]_vars

\* Clients of the session see a text that only changes under a client that
\* has read all of it.
Document == INSTANCE VersionedText
ImplementsVersionedText == Document!Spec
=============================================================================
