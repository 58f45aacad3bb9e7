------------------------------ MODULE TextEdits ------------------------------
(***************************************************************************)
(* apply_text_edits of crates/mercurio-sysml/src/parse_session.rs: the     *)
(* validation of a batch of edits, their application to the text, and the  *)
(* ranges they leave behind. A text is a sequence of bytes, of which       *)
(* Continuation may not begin a character; offsets count from 0.           *)
(***************************************************************************)
EXTENDS Integers, Sequences, FiniteSets

CONSTANTS
    Byte,           \* the bytes of a text
    Continuation    \* the bytes inside a character

TextRange(start, end) == [start |-> start, end |-> end]

TextRanges == [start : Nat, end : Nat]

\* A TextEdit replaces a range of the text by a string.
TextEdits == [start : Nat, end : Nat, replacement : Seq(Byte)]

IsCharBoundary(text, offset) ==
    offset = Len(text) \/ (offset < Len(text) /\ text[offset + 1] \notin Continuation)

\* sort_by_key((start, end)): the sort is stable.
Sorted(edits) ==
    LET Precedes(i, j) ==
            \/ edits[i].start < edits[j].start
            \/ edits[i].start = edits[j].start /\ edits[i].end < edits[j].end
            \/ edits[i].start = edits[j].start /\ edits[i].end = edits[j].end /\ i < j
        Rank(i) == Cardinality({j \in 1..Len(edits) : Precedes(j, i)}) + 1
    IN  [n \in 1..Len(edits) |-> edits[CHOOSE i \in 1..Len(edits) : Rank(i) = n]]

\* Whether the n-th of the sorted edits passes the checks of the loop.
EditErrors(text, sorted, n) ==
    LET e == sorted[n]
    IN  IF e.start > e.end \/ e.end > Len(text) THEN {"InvalidEditRange"}
        ELSE IF ~IsCharBoundary(text, e.start) \/ ~IsCharBoundary(text, e.end)
             THEN {"NonBoundaryEdit"}
        ELSE IF n > 1 /\ sorted[n - 1].end > e.start THEN {"OverlappingEditRanges"}
        ELSE {}

\* The error of the first edit that fails; the batch is then not applied at all.
BatchErrors(text, edits) ==
    LET sorted == Sorted(edits)
        failing == {n \in 1..Len(edits) : EditErrors(text, sorted, n) # {}}
    IN  UNION {EditErrors(text, sorted, n) : n \in {f \in failing : \A g \in failing : f <= g}}

Replace(text, e) ==
    SubSeq(text, 1, e.start) \o e.replacement \o SubSeq(text, e.end + 1, Len(text))

\* Seeded fault: the edits are applied first to last.
AppliedForwards(text, sorted) ==
    LET after[n \in 0..Len(sorted)] ==
            IF n = 0 THEN text ELSE Replace(after[n - 1], sorted[n])
    IN  after[Len(sorted)]

\* The edits are applied last to first, so that no offset moves.
Applied(text, sorted) ==
    LET after[n \in 0..Len(sorted)] ==
            IF n = 0 THEN text ELSE Replace(after[n - 1], sorted[Len(sorted) + 1 - n])
    IN  after[Len(sorted)]

\* byte_delta before the n-th edit: how far the edits before it move its range.
ByteDelta(sorted, n) ==
    LET delta[k \in 0..Len(sorted)] ==
            IF k = 0 THEN 0
            ELSE delta[k - 1] + Len(sorted[k].replacement) - (sorted[k].end - sorted[k].start)
    IN  delta[n - 1]

ChangedRange(sorted, n) ==
    LET start == sorted[n].start + ByteDelta(sorted, n)
    IN  TextRange(start, start + Len(sorted[n].replacement))

ChangedRanges(sorted) == [n \in 1..Len(sorted) |-> ChangedRange(sorted, n)]

-----------------------------------------------------------------------------
IsEmpty(r) == r.start = r.end

\* text_ranges_touch: an empty range touches what it lies in or next to.
RangesTouch(l, r) ==
    IF IsEmpty(l) THEN r.start <= l.start /\ l.start <= r.end
    ELSE IF IsEmpty(r) THEN l.start <= r.start /\ r.start <= l.end
    ELSE l.start < r.end /\ r.start < l.end
=============================================================================
