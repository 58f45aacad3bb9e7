------------------------- MODULE ParseSessionProofs -------------------------
(***************************************************************************)
(* The parse session for every parser, text, client and batch of edits:    *)
(* revisions name texts, the session implements the versioned text, and    *)
(* its snapshots are honest. For these no fact about the edit arithmetic   *)
(* is needed: whatever a batch does to the text, it does to the text its   *)
(* client knew. The second part is that arithmetic: what a batch of any    *)
(* length does to a text of any length, where the ranges it reports are,   *)
(* and which declarations of a module of any depth they change. The        *)
(* recursions are unfolded by induction over a number, which is a set      *)
(* whose least absent member would be a contradiction.                     *)
(***************************************************************************)
EXTENDS ParseSession, WellFoundedInduction, FiniteSetTheorems, SequenceTheorems, TLAPS

\* What a client has seen is no newer than the session, and is the session's
\* text if it is no older.
SeenIsOld ==
    /\ revision \in Nat
    /\ seen = [c \in Client |-> [revision |-> seen[c].revision, text |-> seen[c].text]]
    /\ \A c \in Client :
          /\ seen[c].revision \in Nat
          /\ seen[c].revision <= revision

Inv == SeenIsOld /\ RevisionNamesText

LEMMA InitInv == Init => Inv
  BY DEF Init, Inv, SeenIsOld, RevisionNamesText, Current

\* Reading catches up; an accepted batch leaves every client behind.
LEMMA StepInv ==
    ASSUME Inv, [Next]_vars
    PROVE  Inv'
<1>. USE DEF Inv
<1>1. ASSUME NEW c \in Client, Read(c)
      PROVE  Inv'
  BY <1>1 DEF SeenIsOld, RevisionNamesText, Read, Current
<1>2. ASSUME NEW c \in Client, SendNothing(c)
      PROVE  Inv'
  BY <1>2 DEF SeenIsOld, RevisionNamesText, SendNothing
<1>3. ASSUME NEW c \in Client, NEW edits \in Batches(seen[c]), SendEdits(c, edits)
      PROVE  Inv'
  <2>1. revision' = revision + 1 /\ seen' = seen
    BY <1>3 DEF SendEdits, NextRevision
  <2>. QED
    BY <2>1 DEF SeenIsOld, RevisionNamesText
<1>4. ASSUME NEW c \in Client, NEW edits \in Batches(seen[c]), Refused(c, edits)
      PROVE  Inv'
  BY <1>4 DEF SeenIsOld, RevisionNamesText, Refused, vars
<1>5. CASE UNCHANGED vars
  BY <1>5 DEF SeenIsOld, RevisionNamesText, vars
<1>. QED
  BY <1>1, <1>2, <1>3, <1>4, <1>5 DEF Next

THEOREM Invariance == Spec => []Inv
<1>1. Inv /\ [Next]_vars => Inv'
  BY StepInv
<1>. QED
  BY InitInv, <1>1, PTL DEF Spec

\* For every number of clients: one that holds the session's revision number
\* holds the session's text.
THEOREM RevisionsNameTexts == Spec => []RevisionNamesText
  BY Invariance, PTL DEF Inv

-----------------------------------------------------------------------------
\* An accepted batch changes the text its client has read; every other step
\* reads, or leaves the text, the revision and the views alone.
LEMMA StepImplements ==
    ASSUME Inv, [Next]_vars
    PROVE  [Document!Next]_(Document!vars)
<1>. USE DEF Document!vars
<1>1. ASSUME NEW c \in Client, Read(c)
      PROVE  Document!Read(c)
  BY <1>1 DEF Read, Document!Read, Current, Document!Current
<1>2. ASSUME NEW c \in Client, NEW edits \in Batches(seen[c]), SendEdits(c, edits)
      PROVE  Document!Change(c)
  <2>1. seen[c].revision = revision
    BY <1>2 DEF SendEdits, IsCurrent
  <2>2. seen[c] = Document!Current
    BY <2>1 DEF Inv, SeenIsOld, RevisionNamesText, Document!Current
  <2>. QED
    BY <1>2, <2>2 DEF SendEdits, NextRevision, Document!Change
<1>3. ASSUME NEW c \in Client, SendNothing(c)
      PROVE  UNCHANGED Document!vars
  BY <1>3 DEF SendNothing
<1>4. ASSUME NEW c \in Client, NEW edits \in Batches(seen[c]), Refused(c, edits)
      PROVE  UNCHANGED Document!vars
  BY <1>4 DEF Refused, vars
<1>5. CASE UNCHANGED vars
  BY <1>5 DEF vars
<1>. QED
  BY <1>1, <1>2, <1>3, <1>4, <1>5 DEF Next, Document!Next

\* The session implements the versioned text: no client ever changes a text it
\* has not read.
THEOREM Implementation == Spec => ImplementsVersionedText
<1>1. Init => Document!Init
  BY DEF Init, Document!Init, Current, Document!Current
<1>2. Inv /\ [Next]_vars => [Document!Next]_(Document!vars)
  BY StepImplements
<1>. QED
  BY <1>1, <1>2, Invariance, PTL DEF Spec, ImplementsVersionedText, Document!Spec

-----------------------------------------------------------------------------
\* What parse_snapshot says of any text: it is "Ok" only for a parse without
\* diagnostics, its module is another than the text's only with diagnostics,
\* and it is "Failed" only without a previous module.
LEMMA SnapshotOfText ==
    ASSUME NEW rev, NEW t, NEW changed, NEW fallback
    PROVE  LET s == ParseSnapshot(rev, t, changed, fallback)
           IN  /\ s.revision = rev
               /\ s.status = "Ok" => ~s.diagnosed /\ ~Parse(t).failed
               /\ s.module # Parse(t).module => s.diagnosed
               /\ s.status = "Failed" => fallback = {} /\ s.module = <<>>
  BY DEF ParseSnapshot, SnapshotOf, StatusOf, ModuleOf

\* A previous module with declarations is only followed by one without when
\* the text parses to that without diagnostics.
LEMMA FallbackIsKept ==
    ASSUME NEW rev, NEW t, NEW changed, NEW m, m # <<>>,
           ParseSnapshot(rev, t, changed, {m}).module = <<>>
    PROVE  ParseSnapshot(rev, t, changed, {m}).status = "Ok"
<1>1. (CHOOSE x \in {m} : TRUE) = m
  OBVIOUS
<1>. QED
  BY <1>1 DEF ParseSnapshot, SnapshotOf, StatusOf, ModuleOf

SnapshotIsRecord ==
    snapshot = [revision |-> snapshot.revision, status |-> snapshot.status,
                module |-> snapshot.module, diagnosed |-> snapshot.diagnosed,
                changed_ranges |-> snapshot.changed_ranges,
                changed_declaration_ranges |-> snapshot.changed_declaration_ranges]

SnapshotInv == SnapshotIsRecord /\ SnapshotIsHonest

LEMMA SnapshotsAreRecords ==
    ASSUME NEW rev, NEW t, NEW changed, NEW fallback,
           snapshot' = ParseSnapshot(rev, t, changed, fallback)
    PROVE  SnapshotIsRecord'
  BY DEF SnapshotIsRecord, ParseSnapshot, SnapshotOf

\* An empty batch changes nothing of a snapshot but its changed ranges.
LEMMA NothingChangesNothing ==
    ASSUME SnapshotIsRecord, NEW c \in Client, SendNothing(c)
    PROVE  /\ SnapshotIsRecord'
           /\ snapshot'.revision = snapshot.revision
           /\ snapshot'.status = snapshot.status
           /\ snapshot'.module = snapshot.module
           /\ snapshot'.diagnosed = snapshot.diagnosed
<1>1. snapshot' = [revision |-> snapshot.revision, status |-> snapshot.status,
                   module |-> snapshot.module, diagnosed |-> snapshot.diagnosed,
                   changed_ranges |-> <<>>,
                   changed_declaration_ranges |-> snapshot.changed_declaration_ranges]
  BY DEF SnapshotIsRecord, SendNothing
<1>. QED
  BY <1>1 DEF SnapshotIsRecord

LEMMA InitSnapshot == Init => SnapshotInv
<1>. SUFFICES ASSUME Init PROVE SnapshotInv
  OBVIOUS
<1>1. snapshot = ParseSnapshot(0, text, <<>>, {}) /\ revision = 0
  BY DEF Init
<1>2. SnapshotIsHonest
  BY <1>1, SnapshotOfText DEF SnapshotIsHonest
<1>3. SnapshotIsRecord
  BY <1>1 DEF SnapshotIsRecord, ParseSnapshot, SnapshotOf
<1>. QED
  BY <1>2, <1>3 DEF SnapshotInv

LEMMA StepSnapshot ==
    ASSUME SnapshotInv, [Next]_vars
    PROVE  SnapshotInv'
<1>. USE DEF SnapshotInv
<1>1. ASSUME NEW c \in Client, NEW edits \in Batches(seen[c]), SendEdits(c, edits)
      PROVE  SnapshotInv'
  <2>1. /\ revision' = NextRevision
        /\ snapshot' = ParseSnapshot(NextRevision, text', ChangedRanges(Sorted(edits)), {snapshot.module})
    BY <1>1 DEF SendEdits
  <2>2. {snapshot.module} # {}
    OBVIOUS
  <2>3. /\ snapshot'.revision = NextRevision
        /\ snapshot'.status = "Ok" => ~snapshot'.diagnosed /\ ~Parse(text').failed
        /\ snapshot'.module # Parse(text').module => snapshot'.diagnosed
        /\ snapshot'.status = "Failed" => {snapshot.module} = {}
    BY ONLY <2>1, SnapshotOfText
  <2>4. SnapshotIsHonest'
    BY <2>1, <2>2, <2>3 DEF SnapshotIsHonest
  <2>. QED
    BY <2>1, <2>4, SnapshotsAreRecords
<1>2. ASSUME NEW c \in Client, SendNothing(c)
      PROVE  SnapshotInv'
  <2>1. revision' = revision /\ text' = text
    BY <1>2 DEF SendNothing
  <2>. QED
    BY <1>2, <2>1, NothingChangesNothing DEF SnapshotIsHonest
<1>3. ASSUME NEW c \in Client, Read(c)
      PROVE  SnapshotInv'
  BY <1>3 DEF Read, SnapshotIsRecord, SnapshotIsHonest
<1>4. ASSUME NEW c \in Client, NEW edits \in Batches(seen[c]), Refused(c, edits)
      PROVE  SnapshotInv'
  BY <1>4 DEF Refused, vars, SnapshotIsRecord, SnapshotIsHonest
<1>5. CASE UNCHANGED vars
  BY <1>5 DEF vars, SnapshotIsRecord, SnapshotIsHonest
<1>. QED
  BY <1>1, <1>2, <1>3, <1>4, <1>5 DEF Next

THEOREM SnapshotInvariance == Spec => []SnapshotInv
<1>1. SnapshotInv /\ [Next]_vars => SnapshotInv'
  BY StepSnapshot
<1>. QED
  BY InitSnapshot, <1>1, PTL DEF Spec

\* For every parser and every sequence of batches, the snapshot is of the
\* session's text and says whether its module is.
THEOREM SnapshotsAreHonest == Spec => []SnapshotIsHonest
  BY SnapshotInvariance, PTL DEF SnapshotInv

-----------------------------------------------------------------------------
\* A session's outline never vanishes because of a text that does not parse.
THEOREM OutlinesAreKept == Spec => OutlineIsKept
<1>. DEFINE Kept == snapshot.module # <<>> /\ snapshot'.module = <<>> => snapshot'.status = "Ok"
<1>1. ASSUME NEW c \in Client, NEW edits \in Batches(seen[c]), SendEdits(c, edits)
      PROVE  Kept
  <2>1. snapshot' = ParseSnapshot(NextRevision, text', ChangedRanges(Sorted(edits)), {snapshot.module})
    BY <1>1 DEF SendEdits
  <2>. QED
    BY <2>1, FallbackIsKept
<1>2. ASSUME SnapshotInv, NEW c \in Client, SendNothing(c)
      PROVE  Kept
  BY <1>2, NothingChangesNothing DEF SnapshotInv
<1>3. ASSUME UNCHANGED snapshot
      PROVE  Kept
  BY <1>3
<1>4. ASSUME SnapshotInv, [Next]_vars
      PROVE  [Kept]_vars
  <2>1. ASSUME NEW c \in Client, Read(c)
        PROVE  Kept
    BY <1>3, <2>1 DEF Read
  <2>2. ASSUME NEW c \in Client, NEW edits \in Batches(seen[c]), Refused(c, edits)
        PROVE  Kept
    BY <1>3, <2>2 DEF Refused, vars
  <2>. QED
    BY <1>1, <1>2, <1>4, <2>1, <2>2 DEF Next
<1>5. SnapshotInv /\ [Next]_vars => [Kept]_vars
  BY <1>4
<1>. QED
  BY <1>5, SnapshotInvariance, PTL DEF Spec, OutlineIsKept

-----------------------------------------------------------------------------
\* A nonempty set of numbers has a least one: what induction over the edits and
\* the declarations rests on.
NatLess == {p \in Nat \X Nat : p[1] < p[2]}

LEMMA LeastExists ==
    ASSUME NEW T, T \subseteq Nat, T # {}
    PROVE  \E n \in T : \A m \in T : n <= m
<1>1. IsWellFoundedOn(NatLess, Nat)
  BY NatLessThanWellFounded DEF OpToRel, NatLess
<1>2. PICK n \in T : \A m \in T : <<m, n>> \notin NatLess
  BY WFMin, <1>1
<1>3. \A m \in T : ~(m < n)
  BY <1>2 DEF NatLess
<1>. QED
  BY <1>3

\* What holds of 0, and of m + 1 if it holds of m, holds of every number: with a
\* set for what holds.
LEMMA SetInduction ==
    ASSUME NEW N \in Nat, NEW T, 0 \in T, \A m \in 0..N - 1 : m \in T => m + 1 \in T
    PROVE  \A n \in 0..N : n \in T
<1>. SUFFICES ASSUME 0..N \ T # {} PROVE FALSE
  OBVIOUS
<1>1. PICK n \in 0..N \ T : \A m \in 0..N \ T : n <= m
  <2>1. 0..N \ T \subseteq Nat
    OBVIOUS
  <2>. QED
    BY <2>1, LeastExists
<1>2. n - 1 \in 0..N - 1 /\ n - 1 \in T
  BY <1>1
<1>. QED
  BY <1>1, <1>2

-----------------------------------------------------------------------------
\* Sorting a batch keeps its length and its edits.
Before(edits, i, j) ==
    \/ edits[i].start < edits[j].start
    \/ edits[i].start = edits[j].start /\ edits[i].end < edits[j].end
    \/ edits[i].start = edits[j].start /\ edits[i].end = edits[j].end /\ i < j

RankOf(edits, i) == Cardinality({j \in 1..Len(edits) : Before(edits, j, i)}) + 1

LEMMA RanksDiffer ==
    ASSUME NEW edits \in Seq(TextEdits)
    PROVE  /\ \A i \in 1..Len(edits) : RankOf(edits, i) \in 1..Len(edits)
           /\ \A i, j \in 1..Len(edits) : i # j => RankOf(edits, i) # RankOf(edits, j)
<1>. DEFINE D == 1..Len(edits)
            Below(i) == {j \in D : Before(edits, j, i)}
<1>1. IsFiniteSet(D) /\ Cardinality(D) = Len(edits)
  <2>1. Len(edits) \in Nat
    OBVIOUS
  <2>. QED
    BY <2>1, FS_Interval
<1>2. \A i \in D : edits[i].start \in Nat /\ edits[i].end \in Nat /\ i \in Nat
  <2>1. \A i \in D : edits[i] \in TextEdits /\ i \in Nat
    OBVIOUS
  <2>. QED
    BY <2>1 DEF TextEdits
<1>. HIDE DEF D
<1>3. \A i \in D : ~Before(edits, i, i)
  BY <1>2 DEF Before
<1>4. ASSUME NEW i \in D, NEW j \in D, i # j
      PROVE  Before(edits, i, j) \/ Before(edits, j, i)
  BY <1>2, <1>4 DEF Before
<1>5. ASSUME NEW i \in D, NEW j \in D, NEW k \in D, Before(edits, i, j), Before(edits, j, k)
      PROVE  Before(edits, i, k)
  BY <1>2, <1>5 DEF Before
<1>6. \A i \in D : IsFiniteSet(Below(i)) /\ Cardinality(Below(i)) \in Nat
  <2>. SUFFICES ASSUME NEW i \in D PROVE IsFiniteSet(Below(i)) /\ Cardinality(Below(i)) \in Nat
    OBVIOUS
  <2>1. Below(i) \in SUBSET D
    OBVIOUS
  <2>. QED
    BY <1>1, <2>1, FS_Subset, FS_CardinalityType
<1>. HIDE DEF Below
<1>7. \A i : RankOf(edits, i) = Cardinality(Below(i)) + 1
  BY DEF RankOf, D, Below
<1>8. ASSUME NEW i \in D
      PROVE  RankOf(edits, i) \in 1..Len(edits)
  <2>1. Below(i) \in SUBSET (D \ {i})
    BY <1>3 DEF Below
  <2>2. IsFiniteSet(D \ {i}) /\ Cardinality(D \ {i}) = Len(edits) - 1
    BY <1>1, FS_RemoveElement
  <2>3. Cardinality(Below(i)) <= Len(edits) - 1
    BY <2>1, <2>2, FS_Subset
  <2>. QED
    BY <1>6, <1>7, <2>3
<1>9. ASSUME NEW i \in D, NEW j \in D, Before(edits, i, j)
      PROVE  RankOf(edits, i) # RankOf(edits, j)
  <2>1. Below(i) \in SUBSET Below(j) /\ i \in Below(j) /\ i \notin Below(i)
    BY <1>3, <1>5, <1>9 DEF Below
  <2>2. Cardinality(Below(i)) # Cardinality(Below(j))
    BY <1>6, <2>1, FS_Subset
  <2>. QED
    BY <1>6, <1>7, <2>2
<1>. QED
  BY <1>4, <1>8, <1>9 DEF D

LEMMA SortedIsABatch ==
    ASSUME NEW edits \in Seq(TextEdits)
    PROVE  /\ Sorted(edits) \in Seq(TextEdits)
           /\ Len(Sorted(edits)) = Len(edits)
           /\ \A n \in 1..Len(edits) : \E i \in 1..Len(edits) :
                 RankOf(edits, i) = n /\ Sorted(edits)[n] = edits[i]
<1>. DEFINE D == 1..Len(edits)
            Chosen(n) == CHOOSE i \in D : RankOf(edits, i) = n
<1>1. Sorted(edits) = [n \in D |-> edits[Chosen(n)]]
  BY DEF Sorted, RankOf, Before
<1>2. ASSUME NEW n \in D
      PROVE  \E i \in D : RankOf(edits, i) = n
  <2>. SUFFICES ASSUME \A i \in D : RankOf(edits, i) # n
                PROVE  FALSE
    OBVIOUS
  <2>. DEFINE ranks == [i \in D |-> RankOf(edits, i)]
  <2>1. IsFiniteSet(D) /\ Cardinality(D) = Len(edits)
    BY FS_Interval
  <2>2. IsFiniteSet(D \ {n}) /\ Cardinality(D \ {n}) = Len(edits) - 1
    BY <2>1, FS_RemoveElement
  <2>3. ranks \in [D -> D \ {n}]
    BY RanksDiffer
  <2>. HIDE DEF ranks
  <2>4. PICK i, j \in D : i # j /\ ranks[i] = ranks[j]
    BY <2>1, <2>2, <2>3, FS_PigeonHole
  <2>. QED
    BY <2>4, RanksDiffer DEF ranks
<1>3. \A n \in D : Chosen(n) \in D /\ RankOf(edits, Chosen(n)) = n
  BY <1>2
<1>. HIDE DEF Chosen
<1>4. \A n \in D : edits[Chosen(n)] \in TextEdits
  BY <1>3
<1>5. Sorted(edits) \in [D -> TextEdits]
  BY <1>1, <1>4
<1>6. Sorted(edits) \in Seq(TextEdits) /\ Len(Sorted(edits)) = Len(edits)
  BY <1>5
<1>. QED
  BY <1>1, <1>3, <1>6

-----------------------------------------------------------------------------
\* What the checks of a batch leave: ranges inside the text, one behind the other.
Fits(t, s) ==
    /\ t \in Seq(Byte) /\ s \in Seq(TextEdits)
    /\ \A n \in 1..Len(s) : s[n].start <= s[n].end /\ s[n].end <= Len(t)
    /\ \A n \in 2..Len(s) : s[n - 1].end <= s[n].start

LEMMA CheckedBatchesFit ==
    ASSUME NEW t \in Seq(Byte), NEW edits \in Seq(TextEdits), BatchErrors(t, edits) = {}
    PROVE  Fits(t, Sorted(edits)) /\ Len(Sorted(edits)) = Len(edits)
<1>. DEFINE s == Sorted(edits)
            failing == {n \in 1..Len(edits) : EditErrors(t, s, n) # {}}
            first == {f \in failing : \A g \in failing : f <= g}
<1>1. UNION {EditErrors(t, s, n) : n \in first} = {}
  BY DEF BatchErrors
<1>2. \A n \in first : EditErrors(t, s, n) = {}
  BY <1>1
<1>3. failing = {}
  <2>. SUFFICES ASSUME failing # {} PROVE FALSE
    OBVIOUS
  <2>1. PICK n \in failing : \A m \in failing : n <= m
    <3>1. failing \subseteq Nat
      OBVIOUS
    <3>. QED
      BY <3>1, LeastExists
  <2>. QED
    BY <1>2, <2>1
<1>4. \A n \in 1..Len(edits) : EditErrors(t, s, n) = {}
  BY <1>3
<1>5. s \in Seq(TextEdits) /\ Len(s) = Len(edits)
  BY SortedIsABatch
<1>. HIDE DEF s
<1>6. \A n \in 1..Len(s) : s[n].start \in Nat /\ s[n].end \in Nat
  <2>1. \A n \in 1..Len(s) : s[n] \in TextEdits
    BY <1>5
  <2>. QED
    BY <2>1 DEF TextEdits
<1>7. \A n \in 1..Len(s) : ~(s[n].start > s[n].end) /\ ~(s[n].end > Len(t))
  BY <1>4, <1>5 DEF EditErrors
<1>8. \A n \in 1..Len(s) : ~(n > 1 /\ s[n - 1].end > s[n].start)
  BY <1>4, <1>5 DEF EditErrors
<1>. QED
  BY <1>5, <1>6, <1>7, <1>8 DEF Fits, s

-----------------------------------------------------------------------------
\* The recursions of TextEdits are what their equations say.
Deltas(s) ==
    CHOOSE delta : delta = [k \in 0..Len(s) |->
        IF k = 0 THEN 0
        ELSE delta[k - 1] + Len(s[k].replacement) - (s[k].end - s[k].start)]

Growth(s, k) == Len(s[k].replacement) - (s[k].end - s[k].start)

LEMMA EditIsTyped ==
    ASSUME NEW s \in Seq(TextEdits), NEW k \in 1..Len(s)
    PROVE  /\ s[k].start \in Nat /\ s[k].end \in Nat
           /\ s[k].replacement \in Seq(Byte) /\ Len(s[k].replacement) \in Nat
           /\ Growth(s, k) \in Int
<1>1. s[k] \in TextEdits
  OBVIOUS
<1>. QED
  BY <1>1 DEF TextEdits, Growth

LEMMA DeltasAreSums ==
    ASSUME NEW s \in Seq(TextEdits)
    PROVE  /\ Deltas(s)[0] = 0
           /\ \A k \in 0..Len(s) : Deltas(s)[k] \in Int
           /\ \A k \in 1..Len(s) : Deltas(s)[k] = Deltas(s)[k - 1] + Growth(s, k)
           /\ \A n \in 1..Len(s) : ByteDelta(s, n) = Deltas(s)[n - 1]
<1>. DEFINE N == Len(s)
            Entry(g, k) == IF k = 0 THEN 0
                           ELSE g[k - 1] + Len(s[k].replacement) - (s[k].end - s[k].start)
            Solution(m) == \E g : g = [k \in 0..m |-> Entry(g, k)]
            d == Deltas(s)
<1>1. N \in Nat
  OBVIOUS
<1>. HIDE DEF N
<1>2. Solution(N)
  <2>1. Solution(0)
    <3>. DEFINE g == [k \in {0} |-> 0]
    <3>1. g = [k \in 0..0 |-> Entry(g, k)]
      BY 0..0 = {0}
    <3>. QED
      BY <3>1
  <2>2. ASSUME NEW m \in 0..N - 1, Solution(m)
        PROVE  Solution(m + 1)
    <3>1. PICK g : g = [k \in 0..m |-> Entry(g, k)]
      BY <2>2
    <3>. DEFINE h == [k \in 0..m + 1 |-> Entry(g, k)]
    <3>2. \A k \in 0..m : h[k] = g[k]
      <4>1. \A k \in 0..m : g[k] = Entry(g, k)
        BY <3>1
      <4>. QED
        BY <1>1, <4>1
    <3>3. \A k \in 0..m + 1 : k # 0 => k - 1 \in 0..m
      BY <1>1
    <3>. HIDE DEF h
    <3>4. \A k \in 0..m + 1 : Entry(h, k) = Entry(g, k)
      BY <3>2, <3>3
    <3>5. h = [k \in 0..m + 1 |-> Entry(h, k)]
      BY <3>4 DEF h
    <3>. QED
      BY <3>5
  <2>. HIDE DEF Solution
  <2>. DEFINE T == {m \in 0..N : Solution(m)}
  <2>3. 0 \in T /\ \A m \in 0..N - 1 : m \in T => m + 1 \in T
    BY <1>1, <2>1, <2>2
  <2>. HIDE DEF T
  <2>4. \A n \in 0..N : n \in T
    BY <1>1, <2>3, SetInduction
  <2>. QED
    BY <1>1, <2>4 DEF T
<1>3. d = [k \in 0..N |-> Entry(d, k)]
  BY <1>2 DEF Deltas, N
<1>. HIDE DEF d
<1>4. d[0] = 0 /\ \A k \in 1..N : d[k] = d[k - 1] + Len(s[k].replacement) - (s[k].end - s[k].start)
  <2>1. \A k \in 0..N : d[k] = Entry(d, k)
    BY <1>3
  <2>. QED
    BY <1>1, <2>1
<1>5. \A k \in 1..N : /\ Len(s[k].replacement) \in Nat /\ s[k].start \in Nat /\ s[k].end \in Nat
                      /\ Growth(s, k) \in Int
  BY EditIsTyped DEF N
<1>6. \A k \in 0..N : d[k] \in Int
  <2>. DEFINE T == {m \in 0..N : d[m] \in Int}
  <2>1. ASSUME NEW m \in 0..N - 1, d[m] \in Int
        PROVE  d[m + 1] \in Int
    <3>1. m + 1 \in 1..N /\ (m + 1) - 1 = m
      BY <1>1
    <3>2. d[m + 1] = d[m] + Len(s[m + 1].replacement) - (s[m + 1].end - s[m + 1].start)
      BY <1>4, <3>1
    <3>3. /\ Len(s[m + 1].replacement) \in Nat
          /\ s[m + 1].start \in Nat /\ s[m + 1].end \in Nat
      BY <1>5, <3>1
    <3>. QED
      BY <2>1, <3>2, <3>3
  <2>2. 0 \in T /\ \A m \in 0..N - 1 : m \in T => m + 1 \in T
    BY <1>1, <1>4, <2>1
  <2>. HIDE DEF T
  <2>3. \A n \in 0..N : n \in T
    BY <1>1, <2>2, SetInduction
  <2>. QED
    BY <2>3 DEF T
<1>7. \A k \in 1..N : d[k] = d[k - 1] + Growth(s, k)
  <2>. SUFFICES ASSUME NEW k \in 1..N PROVE d[k] = d[k - 1] + Growth(s, k)
    OBVIOUS
  <2>1. d[k - 1] \in Int
    BY <1>1, <1>6
  <2>. QED
    BY <1>4, <1>5, <2>1 DEF Growth
<1>8. \A n : ByteDelta(s, n) = d[n - 1]
  BY DEF ByteDelta, Deltas, d
<1>. QED
  BY <1>4, <1>6, <1>7, <1>8 DEF d, N

After(t, s) ==
    CHOOSE after : after = [n \in 0..Len(s) |->
        IF n = 0 THEN t ELSE Replace(after[n - 1], s[Len(s) + 1 - n])]

LEMMA AfterIsStepwise ==
    ASSUME NEW t, NEW s \in Seq(TextEdits)
    PROVE  /\ After(t, s)[0] = t
           /\ \A k \in 1..Len(s) : After(t, s)[k] = Replace(After(t, s)[k - 1], s[Len(s) + 1 - k])
           /\ Applied(t, s) = After(t, s)[Len(s)]
<1>. DEFINE N == Len(s)
            Entry(g, k) == IF k = 0 THEN t ELSE Replace(g[k - 1], s[N + 1 - k])
            Solution(m) == \E g : g = [k \in 0..m |-> Entry(g, k)]
            a == After(t, s)
<1>1. N \in Nat
  OBVIOUS
<1>2. Solution(N)
  <2>1. Solution(0)
    <3>. DEFINE g == [k \in {0} |-> t]
    <3>1. g = [k \in 0..0 |-> Entry(g, k)]
      BY 0..0 = {0}
    <3>. QED
      BY <3>1
  <2>2. ASSUME NEW m \in 0..N - 1, Solution(m)
        PROVE  Solution(m + 1)
    <3>1. PICK g : g = [k \in 0..m |-> Entry(g, k)]
      BY <2>2
    <3>. DEFINE h == [k \in 0..m + 1 |-> Entry(g, k)]
    <3>2. \A k \in 0..m : h[k] = g[k]
      <4>1. \A k \in 0..m : g[k] = Entry(g, k)
        BY <3>1
      <4>. QED
        BY <1>1, <4>1
    <3>3. \A k \in 0..m + 1 : k # 0 => k - 1 \in 0..m
      BY <1>1
    <3>. HIDE DEF h
    <3>4. \A k \in 0..m + 1 : Entry(h, k) = Entry(g, k)
      BY <3>2, <3>3
    <3>5. h = [k \in 0..m + 1 |-> Entry(h, k)]
      BY <3>4 DEF h
    <3>. QED
      BY <3>5
  <2>. HIDE DEF Solution, N
  <2>. DEFINE T == {m \in 0..N : Solution(m)}
  <2>3. 0 \in T /\ \A m \in 0..N - 1 : m \in T => m + 1 \in T
    BY <1>1, <2>1, <2>2
  <2>. HIDE DEF T
  <2>4. \A n \in 0..N : n \in T
    BY <1>1, <2>3, SetInduction
  <2>. QED
    BY <1>1, <2>4 DEF T
<1>3. a = [k \in 0..N |-> Entry(a, k)]
  BY <1>2 DEF After
<1>. HIDE DEF a
<1>4. \A k \in 0..N : a[k] = Entry(a, k)
  BY <1>3
<1>5. Applied(t, s) = a[N]
  BY DEF Applied, After, a
<1>. QED
  BY <1>1, <1>4, <1>5 DEF a

-----------------------------------------------------------------------------
\* Where the n-th edit's replacement is in the text after the batch.
From(s, n) == s[n].start + Deltas(s)[n - 1]
To(s, n) == From(s, n) + Len(s[n].replacement)

\* The replacements of a batch that fits come one behind the other, and end in the text.
LEMMA ReplacementsAreInOrder ==
    ASSUME NEW t, NEW s, Fits(t, s)
    PROVE  /\ \A n \in 1..Len(s) : /\ From(s, n) \in Int /\ To(s, n) \in Int
                                   /\ From(s, n) <= To(s, n)
                                   /\ To(s, n) = s[n].end + Deltas(s)[n]
                                   /\ To(s, n) <= Len(t) + Deltas(s)[Len(s)]
           /\ \A m, n \in 1..Len(s) : m < n => To(s, m) <= From(s, n)
<1>. DEFINE N == Len(s)
            d == Deltas(s)
<1>. HIDE DEF d
<1>1. s \in Seq(TextEdits) /\ N \in Nat /\ Len(t) \in Nat
  BY DEF Fits
<1>2. \A n \in 1..N : n - 1 \in 0..N /\ n \in 0..N /\ d[n - 1] \in Int /\ d[n] \in Int
  BY <1>1, DeltasAreSums DEF d
<1>. HIDE DEF N
<1>3. ASSUME NEW n \in 1..N
      PROVE  /\ From(s, n) = s[n].start + d[n - 1] /\ To(s, n) = From(s, n) + Len(s[n].replacement)
             /\ d[n] = d[n - 1] + Len(s[n].replacement) - (s[n].end - s[n].start)
             /\ s[n].start \in Nat /\ s[n].end \in Nat /\ Len(s[n].replacement) \in Nat
             /\ s[n].start <= s[n].end /\ s[n].end <= Len(t)
  <2>1. d[n] = d[n - 1] + Growth(s, n)
    BY <1>1, DeltasAreSums DEF d, N
  <2>2. s[n].start \in Nat /\ s[n].end \in Nat /\ Len(s[n].replacement) \in Nat
    BY <1>1, EditIsTyped DEF N
  <2>3. d[n] = d[n - 1] + Len(s[n].replacement) - (s[n].end - s[n].start)
    BY <1>2, <2>1, <2>2 DEF Growth
  <2>. QED
    BY <2>2, <2>3 DEF Fits, From, To, d, N
<1>4. ASSUME NEW n \in 1..N
      PROVE  /\ From(s, n) \in Int /\ To(s, n) \in Int /\ From(s, n) <= To(s, n)
             /\ To(s, n) = s[n].end + d[n]
  <2>1. d[n - 1] \in Int /\ d[n] \in Int
    BY <1>2
  <2>2. From(s, n) \in Int /\ From(s, n) = s[n].start + d[n - 1]
    BY <1>3, <2>1
  <2>. DEFINE size == Len(s[n].replacement)
  <2>3. /\ To(s, n) = From(s, n) + size /\ d[n] = d[n - 1] + size - (s[n].end - s[n].start)
        /\ s[n].start \in Nat /\ s[n].end \in Nat /\ size \in Nat
    BY <1>3
  <2>. HIDE DEF size
  <2>4. To(s, n) = s[n].end + d[n]
    BY ONLY <2>1, <2>2, <2>3
  <2>5. To(s, n) \in Int /\ From(s, n) <= To(s, n)
    BY <2>2, <2>3
  <2>. QED
    BY <2>2, <2>4, <2>5
<1>5. ASSUME NEW n \in 1..N, n + 1 \in 1..N
      PROVE  To(s, n) <= From(s, n + 1)
  <2>1. s[n].end <= s[n + 1].start
    <3>1. n + 1 \in 2..N /\ (n + 1) - 1 = n
      BY <1>1, <1>5
    <3>. QED
      BY <3>1 DEF Fits, N
  <2>2. From(s, n + 1) = s[n + 1].start + d[n]
    BY <1>1, <1>3, <1>5
  <2>. QED
    BY <1>2, <1>3, <1>4, <1>5, <2>1, <2>2
<1>6. ASSUME NEW m \in 1..N
      PROVE  \A n \in 1..N : m < n => To(s, m) <= From(s, n)
  <2>. DEFINE T == {n \in 0..N : m < n => To(s, m) <= From(s, n)}
  <2>1. ASSUME NEW n \in 0..N - 1, m < n => To(s, m) <= From(s, n), m < n + 1
        PROVE  To(s, m) <= From(s, n + 1)
    <3>1. n \in 1..N /\ n + 1 \in 1..N
      BY <1>1, <2>1
    <3>2. To(s, n) <= From(s, n + 1) /\ From(s, n) <= To(s, n)
      BY <1>4, <1>5, <3>1
    <3>3. m = n \/ m < n
      BY <2>1
    <3>. QED
      BY <1>4, <2>1, <3>1, <3>2, <3>3
  <2>2. 0 \in T /\ \A n \in 0..N - 1 : n \in T => n + 1 \in T
    BY <1>1, <2>1
  <2>. HIDE DEF T
  <2>3. \A n \in 0..N : n \in T
    BY <1>1, <2>2, SetInduction
  <2>. QED
    BY <2>3 DEF T
<1>7. ASSUME NEW n \in 1..N
      PROVE  To(s, n) <= Len(t) + d[N]
  <2>1. N \in 1..N /\ To(s, N) <= Len(t) + d[N]
    <3>1. N \in 1..N
      BY <1>1
    <3>2. s[N].end \in Nat /\ s[N].end <= Len(t) /\ d[N] \in Int /\ To(s, N) = s[N].end + d[N]
      BY <1>2, <1>3, <1>4, <3>1
    <3>. QED
      BY <1>1, <3>1, <3>2
  <2>2. CASE n = N
    BY <2>1, <2>2
  <2>3. CASE n < N
    <3>1. To(s, n) <= From(s, N) /\ From(s, N) <= To(s, N)
      BY <1>4, <1>6, <2>1, <2>3
    <3>. QED
      BY <1>1, <1>2, <1>4, <2>1, <3>1
  <2>. QED
    BY <1>1, <2>2, <2>3
<1>. QED
  BY <1>4, <1>6, <1>7 DEF d, N

\* Replacing leaves the text before the range, and moves the text behind it.
LEMMA ReplaceMoves ==
    ASSUME NEW t \in Seq(Byte), NEW e \in TextEdits, e.start <= e.end, e.end <= Len(t)
    PROVE  LET by == Len(e.replacement) - (e.end - e.start)
               r == Replace(t, e)
           IN  /\ r \in Seq(Byte) /\ Len(r) = Len(t) + by
               /\ \A q \in 1..e.start : r[q] = t[q]
               /\ \A q \in 1..Len(e.replacement) : r[e.start + q] = e.replacement[q]
               /\ \A q \in e.end + 1..Len(t) : r[q + by] = t[q]
<1>. DEFINE front == SubSeq(t, 1, e.start)
            back == SubSeq(t, e.end + 1, Len(t))
<1>1. e.start \in Nat /\ e.end \in Nat /\ e.replacement \in Seq(Byte) /\ Len(t) \in Nat
      /\ Len(e.replacement) \in Nat
  BY DEF TextEdits
<1>2. front \in Seq(Byte) /\ Len(front) = e.start /\ \A q \in 1..e.start : front[q] = t[q]
  <2>1. \A i \in 1..e.start : t[i] \in Byte
    BY <1>1
  <2>. QED
    BY <1>1, <2>1, SubSeqProperties
<1>3. /\ back \in Seq(Byte) /\ Len(back) = Len(t) - e.end
      /\ \A q \in 1..Len(t) - e.end : back[q] = t[e.end + q]
  <2>1. \A i \in e.end + 1..Len(t) : t[i] \in Byte
    BY <1>1
  <2>. QED
    BY <1>1, <2>1, SubSeqProperties
<1>. HIDE DEF front, back
<1>. DEFINE head == front \o e.replacement
            r == head \o back
            by == Len(e.replacement) - (e.end - e.start)
<1>4. /\ head \in Seq(Byte) /\ Len(head) = e.start + Len(e.replacement)
      /\ \A q \in 1..e.start : head[q] = t[q]
      /\ \A q \in 1..Len(e.replacement) : head[e.start + q] = e.replacement[q]
  <2>1. /\ head \in Seq(Byte) /\ Len(head) = Len(front) + Len(e.replacement)
        /\ \A q \in 1..Len(front) + Len(e.replacement) :
              head[q] = IF q <= Len(front) THEN front[q] ELSE e.replacement[q - Len(front)]
    BY <1>1, <1>2, ConcatProperties
  <2>. HIDE DEF head
  <2>2. \A q \in 1..e.start : head[q] = t[q]
    BY <1>1, <1>2, <2>1
  <2>3. ASSUME NEW q \in 1..Len(e.replacement)
        PROVE  head[e.start + q] = e.replacement[q]
    <3>1. /\ e.start + q \in 1..Len(front) + Len(e.replacement) /\ ~(e.start + q <= Len(front))
          /\ (e.start + q) - Len(front) = q
      BY <1>1, <1>2
    <3>. QED
      BY <2>1, <3>1
  <2>. QED
    BY <1>2, <2>1, <2>2, <2>3
<1>. HIDE DEF head
<1>5. /\ r \in Seq(Byte) /\ Len(r) = Len(head) + Len(back)
      /\ \A q \in 1..Len(head) : r[q] = head[q]
      /\ \A q \in 1..Len(back) : r[Len(head) + q] = back[q]
  <2>. head \in Seq(Byte) /\ back \in Seq(Byte)
    BY <1>3, <1>4
  <2>1. /\ r \in Seq(Byte) /\ Len(r) = Len(head) + Len(back)
        /\ \A q \in 1..Len(head) + Len(back) :
              r[q] = IF q <= Len(head) THEN head[q] ELSE back[q - Len(head)]
    BY ConcatProperties
  <2>. HIDE DEF r
  <2>2. Len(head) \in Nat /\ Len(back) \in Nat
    BY <1>1, <1>3, <1>4
  <2>3. ASSUME NEW q \in 1..Len(back)
        PROVE  r[Len(head) + q] = back[q]
    <3>1. /\ Len(head) + q \in 1..Len(head) + Len(back) /\ ~(Len(head) + q <= Len(head))
          /\ (Len(head) + q) - Len(head) = q
      BY <2>2
    <3>. QED
      BY <2>1, <3>1
  <2>4. \A q \in 1..Len(head) : r[q] = head[q]
    BY <2>1, <2>2
  <2>. QED
    BY <2>1, <2>3, <2>4
<1>6. Replace(t, e) = r
  BY DEF Replace, r, head, front, back
<1>. HIDE DEF r
<1>7. \A q \in e.end + 1..Len(t) : r[q + by] = t[q]
  <2>. SUFFICES ASSUME NEW q \in e.end + 1..Len(t) PROVE r[q + by] = t[q]
    OBVIOUS
  <2>1. q - e.end \in 1..Len(t) - e.end /\ q + by = Len(head) + (q - e.end) /\ e.end + (q - e.end) = q
    BY <1>1, <1>4
  <2>. QED
    BY <1>3, <1>5, <2>1
<1>8. Len(r) = Len(t) + by
  <2>1. /\ Len(r) = Len(head) + Len(back) /\ Len(head) = e.start + Len(e.replacement)
        /\ Len(back) = Len(t) - e.end
    BY <1>3, <1>4, <1>5
  <2>. QED
    BY <1>1, <2>1
<1>9. \A q \in 1..e.start : r[q] = t[q]
  BY <1>1, <1>4, <1>5
<1>10. ASSUME NEW q \in 1..Len(e.replacement)
       PROVE  r[e.start + q] = e.replacement[q]
  <2>1. e.start + q \in 1..Len(head)
    BY <1>1, <1>4
  <2>. QED
    BY <1>4, <1>5, <2>1
<1>. QED
  BY <1>5, <1>6, <1>7, <1>8, <1>9, <1>10

-----------------------------------------------------------------------------
\* What is behind an edit, up to the next one, before the batch.
GapStart(s, n) == IF n = 0 THEN 0 ELSE s[n].end
GapEnd(t, s, n) == IF n = Len(s) THEN Len(t) ELSE s[n + 1].start

\* The text when only the first u edits are left: the replacements and the gaps
\* behind them are in place, up to what these u will move them by.
Rewritten(t, s, u) ==
    LET a == After(t, s)[Len(s) - u]
        d == Deltas(s)
    IN  /\ a \in Seq(Byte)
        /\ Len(a) = (Len(t) + d[Len(s)]) - d[u]
        /\ \A n \in u + 1..Len(s) : \A q \in 1..Len(s[n].replacement) :
              a[From(s, n) - d[u] + q] = s[n].replacement[q]
        /\ \A n \in u + 1..Len(s) : \A q \in Nat :
              GapStart(s, n) < q /\ q <= GapEnd(t, s, n) => a[q + d[n] - d[u]] = t[q]
        /\ \A q \in Nat : 0 < q /\ q <= GapEnd(t, s, u) => a[q] = t[q]

LEMMA BeforeAnyEdit ==
    ASSUME NEW t, NEW s, Fits(t, s)
    PROVE  Rewritten(t, s, Len(s))
<1>1. Len(s) \in Nat /\ Len(s) - Len(s) = 0 /\ s \in Seq(TextEdits) /\ t \in Seq(Byte) /\ Len(t) \in Nat
  BY DEF Fits
<1>2. After(t, s)[0] = t /\ Deltas(s)[Len(s)] \in Int
  BY <1>1, AfterIsStepwise, DeltasAreSums
<1>. QED
  BY <1>1, <1>2 DEF Rewritten, GapEnd

\* One more edit is applied.
LEMMA OneMoreEdit ==
    ASSUME NEW t, NEW s, Fits(t, s), NEW u \in 1..Len(s), Rewritten(t, s, u)
    PROVE  Rewritten(t, s, u - 1)
<1>. DEFINE N == Len(s)
            d == Deltas(s)
            a == After(t, s)[N - u]
            r == After(t, s)[N - (u - 1)]
            e == s[u]
            start == e.start
            end == e.end
            size == Len(e.replacement)
            by == size - (end - start)
            L == Len(t)
            total == L + d[N]
            old == d[u]
            new == d[u - 1]
            la == Len(a)
<1>1. s \in Seq(TextEdits) /\ N \in Nat /\ L \in Nat
  BY DEF Fits
<1>2. /\ u \in 1..N /\ u - 1 \in 0..N /\ u \in 0..N /\ N \in 0..N
      /\ N - (u - 1) \in 1..N /\ (N - (u - 1)) - 1 = N - u /\ N + 1 - (N - (u - 1)) = u
  BY <1>1
<1>3. r = Replace(a, e)
  BY <1>1, <1>2, AfterIsStepwise
<1>4. e \in TextEdits /\ start \in Nat /\ end \in Nat /\ size \in Nat /\ start <= end /\ end <= L
  BY <1>1, <1>2, EditIsTyped DEF Fits
<1>5. \A n \in 0..N : d[n] \in Int
  BY <1>1, DeltasAreSums
<1>6. old \in Int /\ new \in Int /\ d[N] \in Int /\ by \in Int /\ total \in Int
  <2>1. old \in Int /\ new \in Int /\ d[N] \in Int
    BY <1>2, <1>5
  <2>. HIDE DEF L, d, N, size, start, end
  <2>. QED
    BY <1>1, <1>4, <2>1
<1>7. old = new + by
  BY <1>1, <1>2, DeltasAreSums DEF Growth
<1>8. /\ a \in Seq(Byte) /\ la = total - old
      /\ \A n \in u + 1..N : \A q \in 1..Len(s[n].replacement) : a[From(s, n) - old + q] = s[n].replacement[q]
      /\ \A n \in u + 1..N : \A q \in Nat :
            GapStart(s, n) < q /\ q <= GapEnd(t, s, n) => a[q + d[n] - old] = t[q]
      /\ \A q \in Nat : 0 < q /\ q <= GapEnd(t, s, u) => a[q] = t[q]
  BY DEF Rewritten
<1>9. To(s, u) = end + old /\ To(s, u) <= total /\ From(s, u) = start + new
  BY <1>2, ReplacementsAreInOrder DEF From
<1>10. \A n \in u + 1..N : /\ n \in 1..N /\ n \in 0..N /\ From(s, n) \in Int
                           /\ From(s, n) + Len(s[n].replacement) <= total
                           /\ s[n].end + d[n] \in Int /\ s[n].end + d[n] <= total
                           /\ end + old <= From(s, n) /\ end + old <= s[n].end + d[n]
                           /\ s[n].end \in Nat /\ Len(s[n].replacement) \in Nat
  <2>. SUFFICES ASSUME NEW n \in u + 1..N
                PROVE  /\ n \in 1..N /\ n \in 0..N /\ From(s, n) \in Int
                       /\ From(s, n) + Len(s[n].replacement) <= total
                       /\ s[n].end + d[n] \in Int /\ s[n].end + d[n] <= total
                       /\ end + old <= From(s, n) /\ end + old <= s[n].end + d[n]
                       /\ s[n].end \in Nat /\ Len(s[n].replacement) \in Nat
    OBVIOUS
  <2>1. n \in 1..N /\ n \in 0..N /\ u < n
    BY <1>1, <1>2
  <2>2. /\ From(s, n) \in Int /\ To(s, n) \in Int /\ From(s, n) <= To(s, n)
        /\ To(s, n) = s[n].end + d[n] /\ To(s, n) <= total /\ To(s, u) <= From(s, n)
    BY <1>2, <2>1, ReplacementsAreInOrder
  <2>3. To(s, n) = From(s, n) + Len(s[n].replacement)
    BY DEF To
  <2>4. s[n].end \in Nat /\ Len(s[n].replacement) \in Nat
    BY <1>1, <2>1, EditIsTyped
  <2>. HIDE DEF N, d, old, end, total
  <2>5. end + old \in Int /\ end + old <= From(s, n) /\ end + old <= To(s, n)
    <3>1. end + old \in Int
      BY <1>4, <1>6
    <3>. QED
      BY <1>9, <2>2, <3>1
  <2>. QED
    BY <2>1, <2>2, <2>3, <2>4, <2>5
<1>. HIDE DEF N, d, a, r, e, start, end, size, by, L, total, old, new, la
<1>11. end <= la /\ la \in Int
  <2>1. la = total - old /\ end + old <= total
    BY <1>8, <1>9
  <2>. QED
    BY <1>4, <1>6, <2>1
<1>12. /\ r \in Seq(Byte) /\ Len(r) = la + by
       /\ \A q \in 1..start : r[q] = a[q]
       /\ \A q \in 1..size : r[start + q] = e.replacement[q]
       /\ \A q \in end + 1..la : r[q + by] = a[q]
  <2>1. a \in Seq(Byte)
    BY <1>8
  <2>. QED
    BY <1>3, <1>4, <1>11, <2>1, ReplaceMoves DEF start, end, size, by, la
<1>13. Len(r) = total - new
  <2>1. la = total - old /\ Len(r) = la + by
    BY <1>8, <1>12
  <2>. QED
    BY <1>6, <1>7, <2>1
\* What was behind the edit is moved by it.
<1>14. ASSUME NEW q \in Int, end + old < q, q <= total
       PROVE  r[q - new] = a[q - old]
  <2>1. la = total - old
    BY <1>8
  <2>2. q - old \in end + 1..la /\ (q - old) + by = q - new
    BY <1>4, <1>6, <1>7, <1>14, <2>1
  <2>3. \A p \in end + 1..la : r[p + by] = a[p]
    BY <1>12
  <2>. QED
    BY <2>2, <2>3
<1>15. ASSUME NEW n \in u + 1..N, NEW q \in 1..Len(s[n].replacement)
       PROVE  r[From(s, n) - new + q] = s[n].replacement[q]
  <2>. DEFINE width == Len(s[n].replacement)
              from == From(s, n)
  <2>1. from \in Int /\ width \in Nat /\ from + width <= total /\ end + old <= from
    BY <1>10
  <2>2. a[from - old + q] = s[n].replacement[q]
    BY <1>8
  <2>. HIDE DEF width, from
  <2>3. /\ from + q \in Int /\ end + old < from + q /\ from + q <= total
        /\ (from + q) - new = from - new + q /\ (from + q) - old = from - old + q
    BY <1>4, <1>6, <2>1 DEF width
  <2>4. r[(from + q) - new] = a[(from + q) - old]
    BY <1>14, <2>3
  <2>. QED
    BY <2>2, <2>3, <2>4 DEF from
<1>16. ASSUME NEW q \in 1..size
       PROVE  r[From(s, u) - new + q] = e.replacement[q]
  <2>1. From(s, u) - new + q = start + q
    BY <1>4, <1>6, <1>9
  <2>2. r[start + q] = e.replacement[q]
    BY <1>12
  <2>. QED
    BY <2>1, <2>2
\* The gaps end in the text, wherever they are moved to.
<1>17. ASSUME NEW n \in u..N, NEW q \in Nat, q <= GapEnd(t, s, n)
       PROVE  q + d[n] <= total
  <2>1. n \in 0..N /\ d[n] \in Int
    BY <1>1, <1>2, <1>5
  <2>2. CASE n = N
    <3>1. q <= L
      BY <1>17, <2>2 DEF GapEnd, N, L
    <3>. QED
      BY <1>1, <1>6, <2>1, <2>2, <3>1 DEF total
  <2>3. CASE n # N
    <3>1. n + 1 \in u + 1..N /\ (n + 1) - 1 = n /\ n + 1 \in 1..N
      BY <1>1, <1>2, <2>1, <2>3
    <3>2. q <= s[n + 1].start
      BY <1>17, <2>3 DEF GapEnd, N
    <3>. DEFINE width == Len(s[n + 1].replacement)
                from == From(s, n + 1)
                first == s[n + 1].start
                dn == d[n]
    <3>3. from = first + dn
      BY <3>1 DEF From, d
    <3>4. from \in Int /\ width \in Nat /\ from + width <= total
      BY <1>10, <3>1
    <3>5. first \in Nat /\ dn \in Int /\ q <= first
      BY <1>1, <2>1, <3>1, <3>2, EditIsTyped DEF N
    <3>. HIDE DEF width, from, first, dn
    <3>6. q + dn <= total
      BY <1>6, <3>3, <3>4, <3>5
    <3>. QED
      BY <3>6 DEF dn
  <2>. QED
    BY <2>2, <2>3
<1>18. ASSUME NEW n \in u + 1..N, NEW q \in Nat, GapStart(s, n) < q, q <= GapEnd(t, s, n)
       PROVE  r[q + d[n] - new] = t[q]
  <2>. DEFINE dn == d[n]
              last == s[n].end
  <2>1. dn \in Int /\ last + dn \in Int /\ end + old <= last + dn /\ last \in Nat
    BY <1>5, <1>10
  <2>2. a[q + dn - old] = t[q]
    BY <1>8, <1>18
  <2>3. last < q
    <3>1. n \in Nat /\ n # 0
      BY <1>2, <1>10
    <3>. QED
      BY <1>18, <3>1 DEF GapStart
  <2>4. q + dn <= total
    <3>1. n \in u..N
      BY <1>2
    <3>. QED
      BY <1>17, <1>18, <3>1
  <2>. HIDE DEF dn, last
  <2>5. /\ q + dn \in Int /\ end + old < q + dn
        /\ (q + dn) - new = q + dn - new /\ (q + dn) - old = q + dn - old
    BY <1>4, <1>6, <2>1, <2>3
  <2>6. r[(q + dn) - new] = a[(q + dn) - old]
    BY <1>14, <2>4, <2>5
  <2>. QED
    BY <2>2, <2>5, <2>6 DEF dn
<1>19. ASSUME NEW q \in Nat, GapStart(s, u) < q, q <= GapEnd(t, s, u)
       PROVE  r[q + d[u] - new] = t[q]
  <2>1. end < q
    <3>1. u # 0
      BY <1>2
    <3>. QED
      BY <1>19, <3>1 DEF GapStart, end, e
  <2>2. 0 < q /\ a[q] = t[q]
    <3>1. 0 < q
      BY <1>4, <2>1
    <3>. QED
      BY <1>8, <1>19, <3>1
  <2>3. q + old <= total
    <3>1. u \in u..N
      BY <1>2
    <3>. QED
      BY <1>17, <1>19, <3>1 DEF old
  <2>4. /\ q + old \in Int /\ end + old < q + old
        /\ (q + old) - new = q + old - new /\ (q + old) - old = q
    BY <1>4, <1>6, <2>1
  <2>5. r[(q + old) - new] = a[(q + old) - old]
    BY <1>14, <2>3, <2>4
  <2>. QED
    BY <2>2, <2>4, <2>5 DEF old
<1>20. ASSUME NEW q \in Nat, 0 < q, q <= GapEnd(t, s, u - 1)
       PROVE  r[q] = t[q]
  <2>1. q <= start
    <3>1. u - 1 # N /\ (u - 1) + 1 = u
      BY <1>1, <1>2
    <3>. QED
      BY <1>20, <3>1 DEF GapEnd, N, start, e
  <2>2. q <= GapEnd(t, s, u)
    <3>1. CASE u = N
      BY <1>1, <1>4, <2>1, <3>1 DEF GapEnd, N, L
    <3>2. CASE u # N
      <4>1. u + 1 \in 2..N /\ (u + 1) - 1 = u /\ u + 1 \in 1..N
        BY <1>1, <1>2, <3>2
      <4>2. end <= s[u + 1].start /\ s[u + 1].start \in Nat
        BY <1>1, <4>1, EditIsTyped DEF Fits, end, e, N
      <4>. QED
        BY <1>4, <2>1, <3>2, <4>2 DEF GapEnd, N
    <3>. QED
      BY <3>1, <3>2
  <2>3. a[q] = t[q]
    BY <1>8, <1>20, <2>2
  <2>4. q \in 1..start
    BY <1>4, <1>20, <2>1
  <2>. QED
    BY <1>12, <2>3, <2>4
<1>21. \A n \in (u - 1) + 1..N : n = u \/ n \in u + 1..N
  BY <1>1, <1>2
<1>22. \A n \in (u - 1) + 1..N : \A q \in 1..Len(s[n].replacement) :
          r[From(s, n) - d[u - 1] + q] = s[n].replacement[q]
  BY <1>15, <1>16, <1>21 DEF e, size, new
<1>23. \A n \in (u - 1) + 1..N : \A q \in Nat :
          GapStart(s, n) < q /\ q <= GapEnd(t, s, n) => r[q + d[n] - d[u - 1]] = t[q]
  BY <1>18, <1>19, <1>21 DEF new
<1>24. r \in Seq(Byte)
  BY <1>12
<1>. QED
  BY <1>13, <1>20, <1>22, <1>23, <1>24 DEF Rewritten, r, d, N, total, L, new

-----------------------------------------------------------------------------
LEMMA AfterAllEdits ==
    ASSUME NEW t, NEW s, Fits(t, s)
    PROVE  Rewritten(t, s, 0)
<1>. DEFINE N == Len(s)
            T == {k \in 0..N : Rewritten(t, s, N - k)}
<1>1. N \in Nat /\ N - 0 = N /\ N - N = 0
  BY DEF Fits
<1>2. 0 \in T
  BY <1>1, BeforeAnyEdit
<1>3. ASSUME NEW k \in 0..N - 1, k \in T
      PROVE  k + 1 \in T
  <2>1. N - k \in 1..N /\ (N - k) - 1 = N - (k + 1) /\ k + 1 \in 0..N
    BY <1>1
  <2>. QED
    BY <1>3, <2>1, OneMoreEdit
<1>. HIDE DEF T
<1>4. \A k \in 0..N : k \in T
  BY <1>1, <1>2, <1>3, SetInduction
<1>5. N \in T
  BY <1>1, <1>4
<1>. QED
  BY <1>1, <1>5 DEF T

\* Two stretches of bytes that agree place by place are the same.
LEMMA SameStretch ==
    ASSUME NEW a, NEW b, NEW S, NEW k \in Int, NEW l \in Int, NEW by \in Int,
           \A i \in k..l : b[i] \in S /\ a[i + by] = b[i]
    PROVE  SubSeq(a, k + by, l + by) = SubSeq(b, k, l)
<1>. DEFINE x == SubSeq(a, k + by, l + by)
            y == SubSeq(b, k, l)
<1>1. \A i \in k + by..l + by : a[i] \in S
  <2>. SUFFICES ASSUME NEW i \in k + by..l + by PROVE a[i] \in S
    OBVIOUS
  <2>1. i - by \in k..l /\ (i - by) + by = i
    OBVIOUS
  <2>. QED
    BY <2>1
<1>2. /\ x \in Seq(S) /\ Len(x) = (IF k <= l THEN (l - k) + 1 ELSE 0)
      /\ \A i \in 1..(l - k) + 1 : x[i] = a[((k + by) + i) - 1]
  BY <1>1, SubSeqProperties
<1>3. /\ y \in Seq(S) /\ Len(y) = (IF k <= l THEN (l - k) + 1 ELSE 0)
      /\ \A i \in 1..(l - k) + 1 : y[i] = b[(k + i) - 1]
  BY SubSeqProperties
<1>. HIDE DEF x, y
<1>4. ASSUME NEW i \in 1..Len(x)
      PROVE  x[i] = y[i]
  <2>1. /\ i \in 1..(l - k) + 1 /\ (k + i) - 1 \in k..l
        /\ ((k + i) - 1) + by = ((k + by) + i) - 1
    BY <1>2
  <2>. QED
    BY <1>2, <1>3, <2>1
<1>. QED
  BY <1>2, <1>3, <1>4, SeqEqual DEF x, y

-----------------------------------------------------------------------------
GapOf(t, ranges, n) ==
    SubSeq(t, IF n = 0 THEN 1 ELSE ranges[n].end + 1,
              IF n = Len(ranges) THEN Len(t) ELSE ranges[n + 1].start)

\* A batch that fits puts its replacements into the changed ranges, and leaves
\* what is between the ranges.
LEMMA BatchIsDone ==
    ASSUME NEW t, NEW s, Fits(t, s)
    PROVE  LET a == Applied(t, s)
               r == ChangedRanges(s)
           IN  /\ a \in Seq(Byte) /\ r \in Seq(TextRanges) /\ Len(r) = Len(s)
               /\ \A n \in 1..Len(r) : SubSeq(a, r[n].start + 1, r[n].end) = s[n].replacement
               /\ \A n \in 0..Len(r) : GapOf(a, r, n) = GapOf(t, s, n)
<1>. DEFINE a == Applied(t, s)
            r == ChangedRanges(s)
            N == Len(s)
            d == Deltas(s)
            L == Len(t)
<1>1. s \in Seq(TextEdits) /\ N \in Nat /\ N - 0 = N /\ L \in Nat
  BY DEF Fits
<1>2. d[0] = 0 /\ \A n \in 0..N : d[n] \in Int
  BY <1>1, DeltasAreSums
<1>3. a = After(t, s)[N]
  BY <1>1, AfterIsStepwise
<1>4. Rewritten(t, s, 0)
  BY AfterAllEdits
<1>5. a \in Seq(Byte) /\ Len(a) = (L + d[N]) - d[0]
  BY <1>1, <1>3, <1>4 DEF Rewritten
<1>6. \A n \in 1..N : \A q \in 1..Len(s[n].replacement) : a[From(s, n) - d[0] + q] = s[n].replacement[q]
  <2>1. 0 + 1 = 1
    OBVIOUS
  <2>. QED
    BY <1>1, <1>3, <1>4, <2>1 DEF Rewritten
<1>7. \A n \in 0..N : \A q \in Nat :
         GapStart(s, n) < q /\ q <= GapEnd(t, s, n) => a[q + d[n] - d[0]] = t[q]
  <2>. SUFFICES ASSUME NEW n \in 0..N, NEW q \in Nat, GapStart(s, n) < q, q <= GapEnd(t, s, n)
                PROVE  a[q + d[n] - d[0]] = t[q]
    OBVIOUS
  <2>1. CASE n = 0
    <3>1. a[q] = t[q]
      BY <1>1, <1>3, <1>4, <2>1 DEF Rewritten, GapStart
    <3>. QED
      BY <1>2, <2>1, <3>1
  <2>2. CASE n # 0
    <3>1. n \in 0 + 1..N
      BY <1>1, <2>2
    <3>. QED
      BY <1>1, <1>3, <1>4, <3>1 DEF Rewritten
  <2>. QED
    BY <2>1, <2>2
<1>8. r = [n \in 1..N |-> [start |-> From(s, n), end |-> To(s, n)]] /\ Len(r) = N
      /\ \A n \in 1..N : /\ r[n] = [start |-> From(s, n), end |-> To(s, n)]
                        /\ r[n].start = From(s, n) /\ r[n].end = To(s, n)
  <2>1. \A n \in 1..N : ByteDelta(s, n) = d[n - 1]
    BY <1>1, DeltasAreSums
  <2>2. r = [n \in 1..N |-> ChangedRange(s, n)]
    BY DEF ChangedRanges
  <2>3. \A n \in 1..N : ChangedRange(s, n) = [start |-> From(s, n), end |-> To(s, n)]
    BY <2>1 DEF ChangedRange, TextRange, From, To
  <2>. HIDE DEF r
  <2>. QED
    BY <1>1, <2>2, <2>3
<1>. HIDE DEF a, r, N, d, L
<1>9. ASSUME NEW n \in 1..N
      PROVE  SubSeq(a, r[n].start + 1, r[n].end) = s[n].replacement
  <2>. DEFINE w == s[n].replacement
              size == Len(w)
              from == From(s, n)
  <2>1. w \in Seq(Byte) /\ size \in Nat
    BY <1>1, EditIsTyped DEF N
  <2>2. from \in Int /\ r[n].start = from /\ r[n].end = from + size
    BY <1>8, ReplacementsAreInOrder DEF To, N
  <2>3. \A q \in 1..size : a[from - d[0] + q] = w[q]
    BY <1>6
  <2>4. \A q \in 1..size : w[q] \in Byte
    BY <2>1
  <2>. HIDE DEF w, size, from
  <2>5. \A i \in 1..size : w[i] \in Byte /\ a[i + from] = w[i]
    <3>. SUFFICES ASSUME NEW i \in 1..size PROVE w[i] \in Byte /\ a[i + from] = w[i]
      OBVIOUS
    <3>1. from - d[0] + i = i + from
      BY <1>2, <2>1, <2>2
    <3>. QED
      BY <2>3, <2>4, <3>1
  <2>6. SubSeq(a, 1 + from, size + from) = SubSeq(w, 1, size)
    <3>1. 1 \in Int /\ size \in Int /\ from \in Int
      BY <2>1, <2>2
    <3>. QED
      BY ONLY <2>5, <3>1, SameStretch
  <2>7. 1 + from = r[n].start + 1 /\ size + from = r[n].end
    BY <2>1, <2>2
  <2>8. SubSeq(w, 1, size) = w
    BY <2>1, SubSeqFull DEF size
  <2>. QED
    BY <2>6, <2>7, <2>8 DEF w
<1>10. ASSUME NEW n \in 0..N
       PROVE  GapOf(a, r, n) = GapOf(t, s, n)
  <2>. DEFINE lo == GapStart(s, n)
              hi == GapEnd(t, s, n)
              dn == d[n]
  <2>1. lo \in Nat /\ GapOf(t, s, n) = SubSeq(t, lo + 1, hi)
    <3>1. n # 0 => s[n].end \in Nat
      BY <1>1, EditIsTyped DEF N
    <3>2. lo \in Nat /\ (IF n = 0 THEN 1 ELSE s[n].end + 1) = lo + 1
      BY <3>1 DEF GapStart
    <3>3. (IF n = Len(s) THEN Len(t) ELSE s[n + 1].start) = hi
      BY DEF GapEnd
    <3>. QED
      BY <3>2, <3>3 DEF GapOf
  <2>2. hi \in Nat /\ hi <= L
    <3>1. n # N => n + 1 \in 1..N
      BY <1>1
    <3>2. n # N => /\ s[n + 1].start \in Nat /\ s[n + 1].end \in Nat
                   /\ s[n + 1].start <= s[n + 1].end /\ s[n + 1].end <= L
      BY <1>1, <3>1, EditIsTyped DEF N, Fits, L
    <3>3. CASE n = N
      BY <1>1, <3>3 DEF GapEnd, N, L
    <3>4. CASE n # N
      <4>1. hi = s[n + 1].start
        BY <3>4 DEF GapEnd, N
      <4>. HIDE DEF hi
      <4>. QED
        BY <1>1, <3>2, <3>4, <4>1
    <3>. QED
      BY <3>3, <3>4
  <2>3. GapOf(a, r, n) = SubSeq(a, (lo + dn) + 1, hi + dn)
    <3>1. (IF n = 0 THEN 1 ELSE r[n].end + 1) = (lo + dn) + 1
      <4>1. CASE n = 0
        BY <1>2, <4>1 DEF GapStart
      <4>2. CASE n # 0
        <5>1. n \in 1..N
          BY <1>1, <4>2
        <5>2. r[n].end = s[n].end + dn
          BY <1>8, <5>1, ReplacementsAreInOrder DEF N, d
        <5>3. lo = s[n].end /\ s[n].end \in Nat /\ dn \in Int
          BY <1>1, <1>2, <4>2, <5>1, EditIsTyped DEF GapStart, N
        <5>. HIDE DEF lo, dn
        <5>. QED
          BY <4>2, <5>2, <5>3
      <4>. QED
        BY <4>1, <4>2
    <3>2. (IF n = Len(r) THEN Len(a) ELSE r[n + 1].start) = hi + dn
      <4>1. CASE n = N
        BY <1>1, <1>2, <1>5, <1>8, <4>1 DEF GapEnd, N, L
      <4>2. CASE n # N
        <5>1. n + 1 \in 1..N /\ (n + 1) - 1 = n
          BY <1>1, <4>2
        <5>. QED
          BY <1>8, <4>2, <5>1 DEF GapEnd, N, From, d
      <4>. QED
        BY <4>1, <4>2
    <3>. QED
      BY <3>1, <3>2 DEF GapOf
  <2>4. dn \in Int
    BY <1>2
  <2>5. \A q \in Nat : lo < q /\ q <= hi => a[q + dn - d[0]] = t[q]
    BY <1>7
  <2>6. \A q \in 1..L : t[q] \in Byte
    BY DEF Fits, L
  <2>. HIDE DEF lo, hi, dn
  <2>7. \A i \in lo + 1..hi : t[i] \in Byte /\ a[i + dn] = t[i]
    <3>. SUFFICES ASSUME NEW i \in lo + 1..hi PROVE t[i] \in Byte /\ a[i + dn] = t[i]
      OBVIOUS
    <3>1. i \in Nat /\ lo < i /\ i <= hi /\ i \in 1..L /\ i + dn - d[0] = i + dn
      BY <1>1, <1>2, <2>1, <2>2, <2>4
    <3>. QED
      BY <2>5, <2>6, <3>1
  <2>8. SubSeq(a, (lo + 1) + dn, hi + dn) = SubSeq(t, lo + 1, hi)
    <3>1. lo + 1 \in Int /\ hi \in Int
      BY <2>1, <2>2
    <3>. QED
      BY <2>4, <2>7, <3>1, SameStretch
  <2>9. (lo + 1) + dn = (lo + dn) + 1
    BY <2>1, <2>4
  <2>. QED
    BY <2>1, <2>3, <2>8, <2>9
<1>11. r \in Seq(TextRanges)
  <2>1. ASSUME NEW n \in 1..N
        PROVE  r[n] \in TextRanges
    <3>1. 0 <= From(s, 1) /\ From(s, 1) \in Int /\ 1 \in 1..N
      <4>1. 1 \in 1..N /\ 1 - 1 = 0
        BY <1>1
      <4>2. s[1].start \in Nat
        BY <1>1, <4>1, EditIsTyped DEF N
      <4>. QED
        BY <1>2, <4>1, <4>2 DEF From, d
    <3>2. From(s, n) \in Nat /\ To(s, n) \in Nat
      <4>1. /\ From(s, n) \in Int /\ To(s, n) \in Int /\ From(s, n) <= To(s, n)
            /\ To(s, 1) \in Int /\ From(s, 1) <= To(s, 1)
            /\ 1 < n => To(s, 1) <= From(s, n)
        BY <3>1, ReplacementsAreInOrder DEF N
      <4>. QED
        BY <3>1, <4>1
    <3>3. r[n] = [start |-> From(s, n), end |-> To(s, n)]
      BY <1>8
    <3>. QED
      BY <3>2, <3>3 DEF TextRanges
  <2>2. r \in [1..N -> TextRanges]
    BY <1>8, <2>1
  <2>. QED
    BY <1>1, <2>2
<1>. QED
  BY <1>5, <1>8, <1>9, <1>10, <1>11 DEF a, r, N

-----------------------------------------------------------------------------
\* What is looked at of a module is a module.
LEMMA ConsideredInPreorder ==
    ASSUME NEW module, InPreorder(module)
    PROVE  InPreorder(Considered(module))
<1>. DEFINE packages == {i \in 1..Len(module) : module[i].top /\ module[i].package}
            first == CHOOSE i \in packages : \A j \in packages : i <= j
            last == module[first].last
            N == last - first + 1
            m == [j \in 1..N |-> [module[first + j - 1] EXCEPT !.last = @ - first + 1]]
<1>1. CASE packages = {}
  BY <1>1 DEF Considered
<1>2. CASE packages # {}
  <2>1. first \in packages
    <3>1. packages \subseteq Nat
      OBVIOUS
    <3>2. \E i \in packages : \A j \in packages : i <= j
      BY <1>2, <3>1, LeastExists
    <3>. QED
      BY <3>2
  <2>2. Considered(module) = m
    BY <1>2 DEF Considered
  <2>3. Len(module) \in Nat /\ \A i \in 1..Len(module) : module[i] \in Declaration
    BY DEF InPreorder, Module
  <2>4. first \in 1..Len(module) /\ last \in first..Len(module)
    BY <2>1 DEF InPreorder
  <2>. HIDE DEF first
  <2>5. first \in Nat /\ last \in Nat /\ N \in Nat
    BY <2>3, <2>4
  <2>6. \A i \in first..last : i \in 1..Len(module) /\ module[i].last \in i..last
    BY <2>3, <2>4 DEF InPreorder
  <2>. HIDE DEF last, N
  <2>7. \A j \in 1..N : first + j - 1 \in first..last
    BY <2>4, <2>5 DEF N
  <2>8. ASSUME NEW j \in 1..N
        PROVE  /\ m[j] \in Declaration /\ m[j].last \in j..N
               /\ m[j].last = module[first + j - 1].last - first + 1
    <3>. DEFINE i == first + j - 1
    <3>1. i \in 1..Len(module) /\ module[i].last \in i..last
      BY <2>6, <2>7
    <3>2. module[i] \in Declaration
      BY <2>3, <3>1
    <3>. HIDE DEF i
    <3>3. m[j] = [module[i] EXCEPT !.last = @ - first + 1]
      BY DEF i
    <3>4. i \in Nat /\ j \in Nat /\ i = first + j - 1
      BY <3>1 DEF i
    <3>5. module[i].last - first + 1 \in j..N /\ module[i].last - first + 1 \in Nat
      BY <2>5, <3>1, <3>4 DEF N
    <3>6. m[j].last = module[i].last - first + 1 /\ m[j] \in Declaration
      BY <3>2, <3>3, <3>5 DEF Declaration
    <3>. QED
      BY <3>4, <3>5, <3>6 DEF i
  <2>9. m \in Module /\ Len(m) = N
    <3>. HIDE DEF m
    <3>1. m \in [1..N -> Declaration]
      BY <2>8 DEF m
    <3>. QED
      BY <2>5, <3>1 DEF Module
  <2>10. ASSUME NEW i \in 1..N, NEW j \in i..m[i].last
         PROVE  m[j].last <= m[i].last
    <3>. DEFINE x == first + i - 1
                y == first + j - 1
    <3>1. m[i].last \in i..N /\ m[i].last = module[x].last - first + 1
      BY <2>8
    <3>2. j \in 1..N
      BY <2>5, <2>10, <3>1
    <3>3. m[j].last = module[y].last - first + 1
      BY <2>8, <3>2
    <3>4. x \in 1..Len(module) /\ y \in 1..Len(module) /\ module[x].last \in Nat /\ module[y].last \in Nat
      <4>1. x \in first..last /\ y \in first..last
        BY <2>7, <3>2
      <4>. HIDE DEF x, y
      <4>2. \A k \in first..last : k \in Nat
        BY <2>5
      <4>3. /\ x \in 1..Len(module) /\ module[x].last \in x..last /\ x \in Nat
            /\ y \in 1..Len(module) /\ module[y].last \in y..last /\ y \in Nat
        BY <2>6, <4>1, <4>2
      <4>. QED
        BY <2>5, <4>3
    <3>. HIDE DEF m
    <3>5. y \in x..module[x].last
      BY <2>5, <2>10, <3>1, <3>2, <3>4
    <3>6. module[y].last <= module[x].last
      BY <3>4, <3>5 DEF InPreorder
    <3>. HIDE DEF x, y
    <3>. QED
      BY <2>5, <3>1, <3>3, <3>4, <3>6
  <2>. HIDE DEF m
  <2>. QED
    BY <2>2, <2>8, <2>9, <2>10 DEF InPreorder
<1>. QED
  BY <1>1, <1>2

-----------------------------------------------------------------------------
\* The innermost declarations a change touches.
SpanOf(t, module, i) == Clip(module[i].span, Len(t))
Touched(t, module, i, c) == RangesTouch(SpanOf(t, module, i), c)
Innermost(t, module, i, c) ==
    /\ Touched(t, module, i, c)
    /\ \A j \in (i + 1)..module[i].last : ~Touched(t, module, j, c)

\* Of the declarations inside another one that a change touches, some are innermost.
LEMMA InnermostExists ==
    ASSUME NEW t, NEW module, InPreorder(module), NEW c, NEW i \in 1..Len(module),
           NEW k \in (i + 1)..module[i].last, Touched(t, module, k, c)
    PROVE  \E j \in (i + 1)..module[i].last : Innermost(t, module, j, c)
<1>. DEFINE last == module[i].last
            T == {n \in 0..last : last - n \in (i + 1)..last /\ Touched(t, module, last - n, c)}
<1>1. last \in Nat /\ i \in Nat /\ Len(module) \in Nat /\ last <= Len(module)
  <2>1. Len(module) \in Nat /\ last \in i..Len(module)
    BY DEF InPreorder, Module
  <2>. QED
    BY <2>1
<1>. HIDE DEF last
<1>2. last - k \in T
  <2>1. k \in (i + 1)..last /\ last - k \in 0..last /\ last - (last - k) = k
    BY <1>1 DEF last
  <2>. QED
    BY <2>1
<1>3. PICK n \in T : \A m \in T : n <= m
  <2>1. T \subseteq Nat /\ T # {}
    BY <1>2
  <2>. HIDE DEF T
  <2>. QED
    BY <2>1, LeastExists
<1>. DEFINE j == last - n
<1>4. j \in (i + 1)..last /\ Touched(t, module, j, c) /\ n \in Nat
  BY <1>1, <1>3
<1>5. ASSUME NEW x \in (j + 1)..module[j].last
      PROVE  ~Touched(t, module, x, c)
  <2>1. module[j].last <= last
    BY <1>1, <1>4 DEF InPreorder, last
  <2>2. module[j].last \in Int
    <3>1. j \in 1..Len(module)
      BY <1>1, <1>4
    <3>2. module[j].last \in j..Len(module)
      BY <3>1 DEF InPreorder
    <3>. QED
      BY <1>1, <3>2
  <2>3. j \in Int /\ j = last - n /\ i < j /\ j <= last
    BY <1>1, <1>4
  <2>. HIDE DEF j
  <2>4. x \in Int /\ j < x /\ x <= last
    BY <1>1, <1>5, <2>1, <2>2, <2>3
  <2>5. /\ x \in (i + 1)..last /\ last - x \in 0..last /\ last - (last - x) = x
        /\ ~(n <= last - x)
    BY <1>1, <1>4, <2>3, <2>4
  <2>. QED
    BY <1>3, <2>5
<1>. QED
  BY <1>4, <1>5 DEF Innermost, last

Marked(t, module, changes) ==
    CHOOSE pushed : pushed = [n \in 0..Len(module) |->
        LET i == Len(module) + 1 - n
        IN  IF n = 0 THEN {}
            ELSE pushed[n - 1] \cup
                 {x \in {i} : \E c \in changes :
                     /\ RangesTouch(Clip(module[x].span, Len(t)), c)
                     /\ \A j \in pushed[n - 1] \cap (i + 1)..module[i].last :
                            ~RangesTouch(Clip(module[j].span, Len(t)), c)}]

\* Whether a declaration is changed, given the changed ones behind it.
Pushes(t, module, changes, marked, i) ==
    \E c \in changes :
        /\ Touched(t, module, i, c)
        /\ \A j \in marked \cap (i + 1)..module[i].last : ~Touched(t, module, j, c)

With(t, module, changes, marked, i) ==
    marked \cup {x \in {i} : Pushes(t, module, changes, marked, x)}

LEMMA MarkedIsStepwise ==
    ASSUME NEW t, NEW module, Len(module) \in Nat, NEW changes
    PROVE  /\ Marked(t, module, changes)[0] = {}
           /\ \A n \in 1..Len(module) :
                 Marked(t, module, changes)[n] =
                     With(t, module, changes, Marked(t, module, changes)[n - 1], Len(module) + 1 - n)
           /\ Pushed(t, module, changes) =
                 {SpanOf(t, module, i) : i \in Marked(t, module, changes)[Len(module)]}
<1>. DEFINE N == Len(module)
            More(marked, i) == With(t, module, changes, marked, i)
            Entry(g, n) == IF n = 0 THEN {} ELSE More(g[n - 1], N + 1 - n)
            Solution(m) == \E g : g = [n \in 0..m |-> Entry(g, n)]
            p == Marked(t, module, changes)
<1>1. N \in Nat
  OBVIOUS
<1>2. p = CHOOSE g : g = [n \in 0..N |-> Entry(g, n)]
  BY DEF Marked, With, Pushes, Touched, SpanOf
<1>3. Pushed(t, module, changes) = {SpanOf(t, module, i) : i \in p[N]}
  BY DEF Pushed, Marked, SpanOf
<1>. HIDE DEF N, More, p
<1>4. Solution(N)
  <2>1. Solution(0)
    <3>. DEFINE g == [n \in {0} |-> {}]
    <3>1. g = [n \in 0..0 |-> Entry(g, n)]
      BY 0..0 = {0}
    <3>. QED
      BY <3>1
  <2>2. ASSUME NEW m \in 0..N - 1, Solution(m)
        PROVE  Solution(m + 1)
    <3>1. PICK g : g = [n \in 0..m |-> Entry(g, n)]
      BY <2>2
    <3>. DEFINE h == [n \in 0..m + 1 |-> Entry(g, n)]
    <3>2. \A n \in 0..m : h[n] = g[n]
      <4>1. \A n \in 0..m : g[n] = Entry(g, n)
        BY <3>1
      <4>. QED
        BY <1>1, <4>1
    <3>3. \A n \in 0..m + 1 : n # 0 => n - 1 \in 0..m
      BY <1>1
    <3>. HIDE DEF h
    <3>4. \A n \in 0..m + 1 : Entry(h, n) = Entry(g, n)
      BY <3>2, <3>3
    <3>5. h = [n \in 0..m + 1 |-> Entry(h, n)]
      BY <3>4 DEF h
    <3>. QED
      BY <3>5
  <2>. HIDE DEF Solution
  <2>. DEFINE T == {m \in 0..N : Solution(m)}
  <2>3. 0 \in T /\ \A m \in 0..N - 1 : m \in T => m + 1 \in T
    BY <1>1, <2>1, <2>2
  <2>. HIDE DEF T
  <2>4. \A n \in 0..N : n \in T
    BY <1>1, <2>3, SetInduction
  <2>. QED
    BY <1>1, <2>4 DEF T
<1>5. p = [n \in 0..N |-> Entry(p, n)]
  BY <1>2, <1>4
<1>6. \A n \in 0..N : p[n] = Entry(p, n)
  BY <1>5
<1>7. p[0] = {} /\ \A n \in 1..N : p[n] = More(p[n - 1], N + 1 - n)
  BY <1>1, <1>6
<1>. QED
  BY <1>3, <1>7 DEF p, N, More

\* The declarations that are pushed are the innermost ones that are touched.
LEMMA PushedAreInnermost ==
    ASSUME NEW t, NEW module, InPreorder(module), NEW changes
    PROVE  Pushed(t, module, changes) =
               {SpanOf(t, module, i) : i \in {x \in 1..Len(module) :
                   \E c \in changes : Innermost(t, module, x, c)}}
<1>. DEFINE N == Len(module)
            p == Marked(t, module, changes)
            Right(x) == \E c \in changes : Innermost(t, module, x, c)
            T == {n \in 0..N : p[n] = {x \in N + 1 - n..N : Right(x)}}
<1>1. N \in Nat
  BY DEF InPreorder, Module
<1>2. /\ p[0] = {}
      /\ \A n \in 1..N : p[n] = With(t, module, changes, p[n - 1], N + 1 - n)
      /\ Pushed(t, module, changes) = {SpanOf(t, module, i) : i \in p[N]}
  BY <1>1, MarkedIsStepwise
<1>. HIDE DEF p, N
<1>3. ASSUME NEW i \in 1..N
      PROVE  Pushes(t, module, changes, {x \in i + 1..N : Right(x)}, i) <=> Right(i)
  <2>. DEFINE behind == {x \in i + 1..N : Right(x)}
  <2>1. ASSUME NEW c \in changes, Touched(t, module, i, c)
        PROVE  (\A j \in behind \cap (i + 1)..module[i].last : ~Touched(t, module, j, c))
                   <=> \A j \in (i + 1)..module[i].last : ~Touched(t, module, j, c)
    <3>. SUFFICES ASSUME NEW k \in (i + 1)..module[i].last, Touched(t, module, k, c)
                  PROVE  \E j \in behind \cap (i + 1)..module[i].last : Touched(t, module, j, c)
      OBVIOUS
    <3>1. PICK j \in (i + 1)..module[i].last : Innermost(t, module, j, c)
      BY InnermostExists DEF N
    <3>2. j \in i + 1..N
      <4>1. module[i].last \in i..N
        BY DEF InPreorder, N
      <4>. QED
        BY <1>1, <4>1
    <3>. QED
      BY <3>1, <3>2 DEF Innermost
  <2>. QED
    BY <2>1 DEF Pushes, Innermost
<1>4. 0 \in T
  BY <1>1, <1>2
<1>5. ASSUME NEW n \in 0..N - 1, n \in T
      PROVE  n + 1 \in T
  <2>. DEFINE i == N + 1 - (n + 1)
  <2>1. i \in 1..N /\ N + 1 - n = i + 1 /\ n + 1 \in 1..N /\ (n + 1) - 1 = n
    BY <1>1
  <2>2. p[n] = {x \in i + 1..N : Right(x)}
    BY <1>5, <2>1
  <2>. HIDE DEF i
  <2>3. p[n + 1] = p[n] \cup {x \in {i} : Pushes(t, module, changes, p[n], x)}
    <3>1. p[n + 1] = With(t, module, changes, p[n], i)
      BY <1>2, <2>1 DEF i
    <3>. QED
      BY <3>1 DEF With
  <2>4. i..N = {i} \cup i + 1..N
    BY <1>1, <2>1
  <2>5. p[n + 1] = {x \in i..N : Right(x)}
    BY <1>3, <2>1, <2>2, <2>3, <2>4
  <2>. QED
    BY <1>1, <2>5 DEF i
<1>. HIDE DEF T, Right
<1>6. \A n \in 0..N : n \in T
  BY <1>1, <1>4, <1>5, SetInduction
<1>7. p[N] = {x \in 1..N : Right(x)}
  <2>1. N \in T /\ N + 1 - N = 1
    BY <1>1, <1>6
  <2>. QED
    BY <2>1 DEF T
<1>. QED
  BY <1>2, <1>7 DEF N, Right

-----------------------------------------------------------------------------
\* What the clients send and what the parser answers, for any text.
LegalBatches ==
    \A r \in Nat, t \in Seq(Byte) : Batches([revision |-> r, text |-> t]) \subseteq Seq(TextEdits)
LegalParses ==
    \A t \in Seq(Byte) : /\ Parse(t) \in [failed : BOOLEAN, diagnosed : BOOLEAN, module : Module]
                         /\ InPreorder(Parse(t).module)

LEMMA ClippedSpans ==
    ASSUME NEW t \in Seq(Byte), NEW module, InPreorder(module), NEW i \in 1..Len(module)
    PROVE  SpanOf(t, module, i) \in TextRanges
<1>1. module[i] \in Declaration /\ Len(t) \in Nat
  BY DEF InPreorder, Module
<1>2. module[i].span.start \in Nat /\ module[i].span.end \in Nat
  BY <1>1 DEF Declaration, TextRanges
<1>. QED
  BY <1>1, <1>2 DEF SpanOf, Clip, TextRange, TextRanges

\* A snapshot is one of a text with its changed ranges, and its changed declarations
\* are innermost ones of its own module.
InnermostOf(t, module, changed) ==
    {SpanOf(t, module, i) : i \in {x \in 1..Len(module) :
        \E c \in {changed[n] : n \in 1..Len(changed)} : Innermost(t, module, x, c)}}

LEMMA SnapshotIsTyped ==
    ASSUME LegalParses, NEW rev \in Nat, NEW t \in Seq(Byte), NEW changed \in Seq(TextRanges),
           NEW fallback, \A m \in fallback : InPreorder(m)
    PROVE  LET s == ParseSnapshot(rev, t, changed, fallback)
           IN  /\ s \in Snapshots
               /\ InPreorder(s.module)
               /\ s.changed_ranges = changed
               /\ changed # <<>> =>
                     s.changed_declaration_ranges = InnermostOf(t, Considered(s.module), changed)
<1>. DEFINE parsed == Parse(t)
            module == ModuleOf(parsed, fallback)
            ranges == ChangedDeclarationRanges(t, module, changed)
            s == ParseSnapshot(rev, t, changed, fallback)
<1>1. parsed.failed \in BOOLEAN /\ parsed.diagnosed \in BOOLEAN /\ InPreorder(parsed.module)
  BY DEF LegalParses
<1>2. InPreorder(<<>>)
  BY DEF InPreorder, Module
<1>. HIDE DEF parsed
<1>3. InPreorder(module)
  <2>1. fallback # {} => (CHOOSE m \in fallback : TRUE) \in fallback
    OBVIOUS
  <2>. QED
    BY <1>1, <1>2, <2>1 DEF ModuleOf
<1>4. s = [revision |-> rev,
           status |-> StatusOf(parsed, fallback),
           module |-> module,
           diagnosed |-> parsed.failed \/ parsed.diagnosed,
           changed_ranges |-> changed,
           changed_declaration_ranges |-> ranges]
  BY DEF ParseSnapshot, SnapshotOf, parsed
<1>5. StatusOf(parsed, fallback) \in {"Ok", "Partial", "Failed"}
  BY DEF StatusOf
<1>. HIDE DEF module
<1>6. changed # <<>> => ranges = InnermostOf(t, Considered(module), changed)
  BY <1>3, ConsideredInPreorder, PushedAreInnermost DEF ChangedDeclarationRanges, InnermostOf
<1>7. ranges \in SUBSET TextRanges
  <2>1. InPreorder(Considered(module))
    BY <1>3, ConsideredInPreorder
  <2>2. CASE changed = <<>>
    BY <2>2 DEF ChangedDeclarationRanges
  <2>3. CASE changed # <<>>
    BY <1>6, <2>1, <2>3, ClippedSpans DEF InnermostOf
  <2>. QED
    BY <2>2, <2>3
<1>. HIDE DEF ranges, s
<1>8. module \in Module
  BY <1>3 DEF InPreorder
<1>. QED
  BY <1>1, <1>3, <1>4, <1>5, <1>6, <1>7, <1>8 DEF Snapshots, s

-----------------------------------------------------------------------------
EditsInv ==
    /\ TypeOK
    /\ InPreorder(snapshot.module)
    /\ ChangedRangesHoldReplacements
    /\ ChangedDeclarationsAreInnermost

\* The two properties, of the operators above.
LEMMA ChangesExpanded ==
    /\ ChangedRangesHoldReplacements <=>
          LET e == accepted.edits
              r == snapshot.changed_ranges
          IN  r # <<>> =>
                  /\ Len(r) = Len(e)
                  /\ \A n \in 1..Len(r) : SubSeq(text, r[n].start + 1, r[n].end) = e[n].replacement
                  /\ \A n \in 0..Len(r) : GapOf(text, r, n) = GapOf(accepted.before, e, n)
    /\ ChangedDeclarationsAreInnermost <=>
          ({snapshot.changed_ranges[n] : n \in 1..Len(snapshot.changed_ranges)} # {} =>
              snapshot.changed_declaration_ranges =
                  InnermostOf(text, Considered(snapshot.module), snapshot.changed_ranges))
<1>1. ChangedRangesHoldReplacements <=>
          LET e == accepted.edits
              r == snapshot.changed_ranges
          IN  r # <<>> =>
                  /\ Len(r) = Len(e)
                  /\ \A n \in 1..Len(r) : SubSeq(text, r[n].start + 1, r[n].end) = e[n].replacement
                  /\ \A n \in 0..Len(r) : GapOf(text, r, n) = GapOf(accepted.before, e, n)
  BY DEF ChangedRangesHoldReplacements, GapOf
<1>2. ChangedDeclarationsAreInnermost <=>
          ({snapshot.changed_ranges[n] : n \in 1..Len(snapshot.changed_ranges)} # {} =>
              snapshot.changed_declaration_ranges =
                  InnermostOf(text, Considered(snapshot.module), snapshot.changed_ranges))
  BY DEF ChangedDeclarationsAreInnermost, InnermostOf, Innermost, Touched, SpanOf
<1>. QED
  BY <1>1, <1>2

\* What the four parts of the invariant read.
LEMMA UnchangedEdits ==
    ASSUME text' = text, snapshot' = snapshot, accepted' = accepted
    PROVE  /\ ChangedRangesHoldReplacements' <=> ChangedRangesHoldReplacements
           /\ ChangedDeclarationsAreInnermost' <=> ChangedDeclarationsAreInnermost
<1>1. ChangedRangesHoldReplacements' <=> ChangedRangesHoldReplacements
  BY DEF ChangedRangesHoldReplacements
<1>2. ChangedDeclarationsAreInnermost' <=> ChangedDeclarationsAreInnermost
  BY DEF ChangedDeclarationsAreInnermost
<1>. QED
  BY <1>1, <1>2

LEMMA InitEdits ==
    ASSUME LegalParses
    PROVE  Init => EditsInv
<1>. SUFFICES ASSUME Init PROVE EditsInv
  OBVIOUS
<1>1. text \in Seq(Byte) /\ revision = 0 /\ snapshot = ParseSnapshot(0, text, <<>>, {})
  BY TextsAssumption DEF Init
<1>2. <<>> \in Seq(TextRanges)
  OBVIOUS
<1>3. LET s == ParseSnapshot(0, text, <<>>, {})
      IN  s \in Snapshots /\ InPreorder(s.module) /\ s.changed_ranges = <<>>
  <2>. DEFINE none == {}
              empty == <<>>
              start == 0
  <2>1. \A m \in none : InPreorder(m)
    OBVIOUS
  <2>2. empty \in Seq(TextRanges)
    BY <1>2
  <2>3. start \in Nat /\ text \in Seq(Byte)
    BY <1>1
  <2>. HIDE DEF none, empty, start
  <2>4. /\ ParseSnapshot(start, text, empty, none) \in Snapshots
        /\ InPreorder(ParseSnapshot(start, text, empty, none).module)
        /\ ParseSnapshot(start, text, empty, none).changed_ranges = empty
    BY <2>1, <2>2, <2>3, SnapshotIsTyped
  <2>. QED
    BY ONLY <2>4 DEF none, empty, start
<1>4. snapshot \in Snapshots /\ InPreorder(snapshot.module) /\ snapshot.changed_ranges = <<>>
  BY ONLY <1>1, <1>3
<1>5. accepted \in [before : Seq(Byte), edits : Seq(TextEdits)]
  BY <1>1 DEF Init
<1>6. seen \in [Client -> [revision : 0..MaxRevision, text : Seq(Byte)]] /\ revision \in 0..MaxRevision
  BY <1>1, MaxRevisionAssumption DEF Init, Current
<1>7. TypeOK
  BY ONLY <1>1, <1>4, <1>5, <1>6 DEF TypeOK
<1>8. ChangedRangesHoldReplacements
  BY ONLY <1>4 DEF ChangedRangesHoldReplacements
<1>9. ChangedDeclarationsAreInnermost
  <2>1. {snapshot.changed_ranges[n] : n \in 1..Len(snapshot.changed_ranges)} = {}
    BY ONLY <1>4
  <2>. QED
    BY ONLY <2>1 DEF ChangedDeclarationsAreInnermost
<1>. QED
  BY ONLY <1>4, <1>7, <1>8, <1>9 DEF EditsInv

\* An accepted batch fits the text it is applied to.
LEMMA SendEditsKeeps ==
    ASSUME LegalBatches, LegalParses, EditsInv, NEW c \in Client, NEW edits \in Batches(seen[c]),
           SendEdits(c, edits)
    PROVE  EditsInv'
<1>. DEFINE s == Sorted(edits)
            r == ChangedRanges(s)
<1>1. /\ revision < MaxRevision /\ edits # <<>> /\ BatchErrors(text, edits) = {}
      /\ text' = Applied(text, s) /\ accepted' = [before |-> text, edits |-> s]
      /\ snapshot' = ParseSnapshot(revision + 1, text', r, {snapshot.module})
      /\ revision' = revision + 1 /\ seen' = seen
  BY DEF SendEdits, NextRevision
<1>2. text \in Seq(Byte) /\ edits \in Seq(TextEdits) /\ revision \in Nat
  <2>1. seen[c] \in [revision : 0..MaxRevision, text : Seq(Byte)]
    BY DEF EditsInv, TypeOK
  <2>2. /\ seen[c].revision \in Nat /\ seen[c].text \in Seq(Byte)
        /\ seen[c] = [revision |-> seen[c].revision, text |-> seen[c].text]
    BY <2>1, MaxRevisionAssumption
  <2>3. edits \in Seq(TextEdits)
    BY <2>2 DEF LegalBatches
  <2>. QED
    BY <2>3, MaxRevisionAssumption DEF EditsInv, TypeOK
<1>3. Fits(text, s) /\ Len(s) = Len(edits) /\ s \in Seq(TextEdits)
  BY <1>1, <1>2, CheckedBatchesFit DEF Fits
<1>. HIDE DEF s
<1>4. /\ text' \in Seq(Byte) /\ r \in Seq(TextRanges) /\ Len(r) = Len(s)
      /\ \A n \in 1..Len(r) : SubSeq(text', r[n].start + 1, r[n].end) = s[n].replacement
      /\ \A n \in 0..Len(r) : GapOf(text', r, n) = GapOf(text, s, n)
  BY <1>1, <1>3, BatchIsDone
<1>5. /\ snapshot' \in Snapshots /\ InPreorder(snapshot'.module) /\ snapshot'.changed_ranges = r
      /\ r # <<>> => snapshot'.changed_declaration_ranges =
                         InnermostOf(text', Considered(snapshot'.module), r)
  <2>1. revision + 1 \in Nat /\ \A m \in {snapshot.module} : InPreorder(m)
    BY <1>2 DEF EditsInv
  <2>. HIDE DEF r
  <2>. QED
    BY <1>1, <1>4, <2>1, SnapshotIsTyped
<1>6. r # <<>>
  BY <1>1, <1>2, <1>3, <1>4
<1>. HIDE DEF r
<1>7. TypeOK'
  <2>1. revision' \in 0..MaxRevision
    BY <1>1, <1>2, MaxRevisionAssumption
  <2>2. seen' \in [Client -> [revision : 0..MaxRevision, text : Seq(Byte)]]
    BY <1>1 DEF EditsInv, TypeOK
  <2>3. accepted' \in [before : Seq(Byte), edits : Seq(TextEdits)]
    BY <1>1, <1>2, <1>3
  <2>. QED
    BY ONLY <1>4, <1>5, <2>1, <2>2, <2>3 DEF TypeOK
<1>8. ChangedRangesHoldReplacements'
  <2>1. accepted'.edits = s /\ accepted'.before = text
    BY ONLY <1>1
  <2>2. \A n \in 0..Len(r) : GapOf(text', r, n) = GapOf(accepted'.before, s, n)
    BY ONLY <1>4, <2>1
  <2>. QED
    BY ONLY <1>4, <1>5, <2>1, <2>2 DEF ChangedRangesHoldReplacements, GapOf
<1>9. ChangedDeclarationsAreInnermost'
  <2>1. snapshot'.changed_declaration_ranges =
            InnermostOf(text', Considered(snapshot'.module), snapshot'.changed_ranges)
    BY ONLY <1>5, <1>6
  <2>. QED
    BY ONLY <2>1 DEF ChangedDeclarationsAreInnermost, InnermostOf, Innermost, Touched, SpanOf
<1>. QED
  BY ONLY <1>5, <1>7, <1>8, <1>9 DEF EditsInv

LEMMA StepEdits ==
    ASSUME LegalBatches, LegalParses, EditsInv, [Next]_vars
    PROVE  EditsInv'
<1>0. /\ TypeOK /\ InPreorder(snapshot.module)
      /\ ChangedRangesHoldReplacements /\ ChangedDeclarationsAreInnermost
  BY DEF EditsInv
<1>1. ASSUME NEW c \in Client, Read(c)
      PROVE  EditsInv'
  <2>1. /\ text' = text /\ revision' = revision /\ snapshot' = snapshot /\ accepted' = accepted
        /\ seen' = [seen EXCEPT ![c] = [revision |-> revision, text |-> text]]
    BY <1>1 DEF Read, Current
  <2>2. TypeOK'
    BY ONLY <1>0, <2>1 DEF TypeOK
  <2>3. InPreorder(snapshot.module)'
    BY ONLY <1>0, <2>1
  <2>. QED
    BY ONLY <1>0, <2>1, <2>2, <2>3, UnchangedEdits DEF EditsInv
<1>2. ASSUME NEW c \in Client, SendNothing(c)
      PROVE  EditsInv'
  <2>1. /\ text' = text /\ revision' = revision /\ seen' = seen /\ accepted' = accepted
        /\ snapshot' = [snapshot EXCEPT !.changed_ranges = <<>>]
    BY <1>2 DEF SendNothing
  <2>2. snapshot \in Snapshots
    BY <1>0 DEF TypeOK
  <2>3. SnapshotIsRecord
    BY ONLY <2>2 DEF Snapshots, SnapshotIsRecord
  <2>4. snapshot' = [revision |-> snapshot.revision, status |-> snapshot.status,
                     module |-> snapshot.module, diagnosed |-> snapshot.diagnosed,
                     changed_ranges |-> <<>>,
                     changed_declaration_ranges |-> snapshot.changed_declaration_ranges]
    BY ONLY <2>1, <2>3 DEF SnapshotIsRecord
  <2>5. snapshot' \in Snapshots
    BY ONLY <2>2, <2>4 DEF Snapshots
  <2>6. snapshot'.module = snapshot.module /\ snapshot'.changed_ranges = <<>>
    BY ONLY <2>4
  <2>7. TypeOK'
    BY ONLY <1>0, <2>1, <2>5 DEF TypeOK
  <2>8. ChangedRangesHoldReplacements'
    BY ONLY <2>6 DEF ChangedRangesHoldReplacements
  <2>9. ChangedDeclarationsAreInnermost'
    <3>1. {snapshot'.changed_ranges[n] : n \in 1..Len(snapshot'.changed_ranges)} = {}
      BY ONLY <2>6
    <3>. QED
      BY ONLY <3>1 DEF ChangedDeclarationsAreInnermost
  <2>10. InPreorder(snapshot.module)'
    BY ONLY <1>0, <2>6
  <2>. QED
    BY ONLY <2>7, <2>8, <2>9, <2>10 DEF EditsInv
<1>3. ASSUME NEW c \in Client, NEW edits \in Batches(seen[c]), SendEdits(c, edits)
      PROVE  EditsInv'
  BY <1>3, SendEditsKeeps
<1>4. ASSUME UNCHANGED vars
      PROVE  EditsInv'
  <2>1. /\ text' = text /\ revision' = revision /\ snapshot' = snapshot
        /\ accepted' = accepted /\ seen' = seen
    BY <1>4 DEF vars
  <2>2. TypeOK'
    BY ONLY <1>0, <2>1 DEF TypeOK
  <2>3. InPreorder(snapshot.module)'
    BY ONLY <1>0, <2>1
  <2>. QED
    BY ONLY <1>0, <2>1, <2>2, <2>3, UnchangedEdits DEF EditsInv
<1>. QED
  BY <1>1, <1>2, <1>3, <1>4 DEF Next, Refused

LEMMA EditsInvariance ==
    ASSUME LegalBatches, LegalParses
    PROVE  Spec => []EditsInv
<1>1. EditsInv /\ [Next]_vars => EditsInv'
  BY StepEdits
<1>. QED
  BY InitEdits, <1>1, PTL DEF Spec

\* Every step keeps the types, for every batch and every answer of the parser.
THEOREM TypeCorrect ==
    ASSUME LegalBatches, LegalParses
    PROVE  Spec => []TypeOK
  BY EditsInvariance, PTL DEF EditsInv

\* Whatever the text, however many edits a batch has and in whatever order they are
\* sent: each replacement is in the range the session reports for it, and all that is
\* between the ranges is the old text.
THEOREM ReplacementsAreInPlace ==
    ASSUME LegalBatches, LegalParses
    PROVE  Spec => []ChangedRangesHoldReplacements
  BY EditsInvariance, PTL DEF EditsInv

\* Whatever the module and the changes: the declarations reported as changed are the
\* innermost ones that a change touches.
THEOREM InnermostAreReported ==
    ASSUME LegalBatches, LegalParses
    PROVE  Spec => []ChangedDeclarationsAreInnermost
  BY EditsInvariance, PTL DEF EditsInv
=============================================================================
