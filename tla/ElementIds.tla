----------------------------- MODULE ElementIds -----------------------------
(***************************************************************************)
(* Qualified names and the ids of elements.  A qualified name is the       *)
(* sequence of its segments, so that "A.B" of the local tables and "A::B"  *)
(* of the library are both <<"A", "B">>; an element id is a qualified name *)
(* with the prefix it carries ("type.", "feature.", none for a library     *)
(* element), the declaration whose position it carries (0: none) and the   *)
(* number of a duplicate (0: the first).                                   *)
(***************************************************************************)
EXTENDS Naturals, FiniteSets, SequencesExt

Id(kind, name) == [kind |-> kind, name |-> name, at |-> 0, copy |-> 0]
TypeId(name)    == Id("type", name)
FeatureId(name) == Id("feature", name)
LibraryId(name) == Id("library", name)

None    == Id("none", <<>>)        \* Option::None
Endless == Id("endless", <<>>)     \* the call never returns

\* Option::or_else: the right side is looked at when the left one is None.
a ?? b == IF a = None THEN b ELSE a

Lookup(f, key) == IF key \in DOMAIN f THEN f[key] ELSE None

\* The only element of S that passes the test, when there is exactly one.
OnlyOne(S) == IF Cardinality(S) = 1 THEN CHOOSE x \in S : TRUE ELSE None

\* The keys equal to a dotted name or ending with "." and the name.
Ending(S, name) == {key \in S : IsSuffix(name, key)}

\* validate_unique_ids, of the elements of a document
UniqueIds(elements) == Cardinality({e.id : e \in Range(elements)}) = Len(elements)
=============================================================================
