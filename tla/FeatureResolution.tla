------------------------- MODULE FeatureResolution -------------------------
(***************************************************************************)
(* How a reference to a feature is resolved (resolve.rs): in the scopes    *)
(* around the usage that makes it, in what the types of those scopes       *)
(* inherit, in the features they redefine or subset.                       *)
(*                                                                         *)
(* The calls share two sets of what has been visited, seen_usages and      *)
(* seen_definitions, which a failed attempt leaves behind for the next.    *)
(* A search state holds them and the depth left of the call stack; a       *)
(* result is the id found, or None, with the search state after the call.  *)
(*                                                                         *)
(* A context has, beside the fields of NameResolution, the tables          *)
(*   features, usages, definitions  of ModuleCollection,                   *)
(*   rank                 the place of a name in the order of texts,       *)
(*   libraryFeatures      per library element its features by name,        *)
(*   capital              "x" |-> "X" where that differs,                  *)
(*   semanticBase         the names semantic_base_feature_fallback knows.  *)
(***************************************************************************)
EXTENDS NameResolution

Fresh(fuel) == [usages |-> {}, definitions |-> {}, fuel |-> fuel]

Found(r)     == r.id # None
Miss(s)      == [id |-> None, s |-> s]
Hit(id, s)   == [id |-> id, s |-> s]
Deeper(s)    == [s EXCEPT !.fuel = @ - 1]
Back(r, s)   == [id |-> r.id, s |-> [r.s EXCEPT !.fuel = s.fuel]]
HitOr(id, s, r) == IF id # None THEN Hit(id, s) ELSE r

FirstId(ids) == LET found == SelectSeq(ids, LAMBDA id : id # None) IN IF found = <<>> THEN None ELSE found[1]

\* The first element of a list for which the attempt finds something; the
\* attempts share the search state.
FirstOf(list, s, Attempt(_, _)) ==
  LET after[k \in 0..Len(list)] ==
        IF k = 0 THEN Miss(s)
        ELSE LET r == after[k - 1] IN IF Found(r) THEN r ELSE Attempt(list[k], r.s)
  IN after[Len(list)]

\* The finders below guard against finding the usage that asks.
Except(r, path) == IF r.id = FeatureId(path) THEN Miss(r.s) ELSE r

\* feature_id_from_qualified_name takes whatever it is given for a local path;
\* normalize_feature_target_id leaves a library id alone.
AsFeature(r) == IF r.id.kind = "library" THEN [r EXCEPT !.id = Id("libraryFeature", @.name)] ELSE r

\* The order of a BTreeSet of paths: that of their texts, segment by segment.
Before(c, p, q) ==
  \/ IsStrictPrefix(p, q)
  \/ \E j \in DOMAIN p \cap DOMAIN q : SubSeq(p, 1, j - 1) = SubSeq(q, 1, j - 1) /\ c.rank[p[j]] < c.rank[q[j]]

InOrder(c, paths) == SetToSortSeq(paths, LAMBDA p, q : Before(c, p, q))

---------------------------------------------------------------------------
(* Lookups without a search state *)

\* resolve_owner_feature_name
FeatureOf(features, resolved) ==
  IF Len(resolved) > 1 THEN IF resolved \in Range(features) THEN FeatureId(resolved) ELSE None
  ELSE IF resolved[1] \in DOMAIN features THEN FeatureId(features[resolved[1]]) ELSE None

OwnFeature(c, owner, n) ==
  IF owner \in DOMAIN c.features THEN FeatureOf(c.features[owner], Expand(c, n)) ELSE None

AllFeatures(c) == UNION {Range(c.features[owner]) : owner \in DOMAIN c.features}

\* unique_feature_match and its variants
UniqueFeature(c, n, S) == OnlyOne({FeatureId(p) : p \in Ending(S, n)})

\* resolve_local_feature_name; imports bind only features here.
ImportedFeature(c, n) ==
  IF n \in DOMAIN c.values /\ c.values[n].kind = "feature" THEN c.values[n] ELSE None

Expanded(name, Find(_)) == IF name = <<>> THEN Endless ELSE Find(name)

LocalFeature(c, n, fuel) ==
  Expanded(ExpandAll(c, n, fuel), LAMBDA name : ImportedFeature(c, name) ?? UniqueFeature(c, name, AllFeatures(c)))

\* resolve_local_usage_qualified_name
LocalUsage(c, n, fuel) ==
  Expanded(ExpandAll(c, n, fuel), LAMBDA name : IF name \in DOMAIN c.usages THEN FeatureId(name) ELSE None)

\* unique_feature_modifier_alias_match_excluding
UniqueModifier(c, n, excluded) ==
  IF Len(n) # 1 THEN None
  ELSE OnlyOne({FeatureId(p) : p \in {q \in DOMAIN c.usages \ {excluded} : n[1] \in c.usages[q].decl.modifiers}})

\* resolve_owner_feature_modifier_alias: the first in the order of the names.
OwnModifier(c, owner, n) ==
  IF Len(n) # 1 \/ owner \notin DOMAIN c.features THEN None
  ELSE LET S == {p \in Range(c.features[owner]) : p \in DOMAIN c.usages /\ n[1] \in c.usages[p].decl.modifiers}
       IN IF S = {} THEN None ELSE FeatureId(InOrder(c, S)[1])

\* resolve_stdlib_owned_feature_reference strips either prefix of the owner: a
\* local path is that of a library element when it is a single name.
NamesInLibrary(id) ==
  \/ id.kind \in {"library", "libraryFeature"}
  \/ id.kind \in {"type", "feature"} /\ Len(id.name) = 1

LibraryFeature(c, id, n) ==
  IF /\ NamesInLibrary(id)
     /\ Len(n) = 1
     /\ id.name \in DOMAIN c.libraryFeatures
     /\ n[1] \in DOMAIN c.libraryFeatures[id.name]
  THEN LibraryId(c.libraryFeatures[id.name][n[1]])
  ELSE None

\* infer_named_definition_type_ref
NamedType(c, u) ==
  IF u.decl.ty # <<>> \/ u.decl.construct \notin {"ActionUsage", "PerformActionUsage", "AcceptActionUsage"} THEN None
  ELSE Lookup(c.defs, <<u.decl.name>>)
         ?? (IF u.decl.name \in DOMAIN c.capital THEN Lookup(c.defs, <<c.capital[u.decl.name]>>) ELSE None)

\* usage_construct_stdlib_owner
LibraryOwners(construct) ==
  CASE construct = "SendUsage"         -> {<<"Actions", "SendAction">>}
    [] construct = "AcceptActionUsage" -> {<<"Actions", "AcceptAction">>}
    [] OTHER                           -> {}

\* infer_usage_type_from_feature_id
TypeOfFeature(c, id, fuel) ==
  CASE id = Endless -> Endless
    [] id.kind = "feature" /\ id.name \in DOMAIN c.usages ->
         LET u == c.usages[id.name] IN IF u.decl.ty = <<>> THEN None ELSE ResolveInScope(c, u.decl.ty, u.owner, fuel)
    [] OTHER -> None

\* A feature of a local type, by its name or by a modifier it has.
FeatureOfType(c, type, n) ==
  IF type.kind = "type" THEN OwnFeature(c, type.name, n) ?? OwnModifier(c, type.name, n) ELSE None

\* The owners from a scope outwards: usages, then the namespace around them.
RECURSIVE Scopes(_, _)
Scopes(c, owner) ==
  <<owner>> \o (IF owner \in DOMAIN c.usages THEN Scopes(c, c.usages[owner].owner) ELSE <<>>)

UsageScopes(c, owner) == SelectSeq(Scopes(c, owner), LAMBDA o : o \in DOMAIN c.usages)

\* resolve_enclosing_usage_feature_reference
EnclosingFeature(c, owner, n) ==
  LET scopes == Scopes(c, owner) IN FirstId([j \in DOMAIN scopes |-> OwnFeature(c, scopes[j], n)])

---------------------------------------------------------------------------
(* Lookups that share a search state *)

\* The finders call one another by way of Search, which names the finder.
RECURSIVE Search(_, _, _, _, _)

\* resolve_feature_reference
FeatureReference(c, u, n, fuel) ==
  IF fuel = 0 THEN Endless
  ELSE UniqueModifier(c, n, u.path) ?? Search("feature", c, u, n, Fresh(fuel - 1)).id

\* resolve_reference_usage_target: seen from the next owner that is a namespace,
\* a part or an action; then from the namespaces around it.
RECURSIVE Scoped(_, _)
Scoped(c, u) ==
  IF \/ u.ownerKind # "usage"
     \/ u.owner \notin DOMAIN c.usages
     \/ c.usages[u.owner].decl.construct \in {"PartUsage", "ActionUsage", "PerformActionUsage"}
  THEN u
  ELSE Scoped(c, [u EXCEPT !.owner = c.usages[u.owner].owner, !.ownerKind = c.usages[u.owner].ownerKind])

OuterFeature(c, owner, n) ==
  FirstId([k \in 1..(Len(owner) - 1) |-> OwnFeature(c, SubSeq(owner, 1, Len(owner) - k), n)])

SeenFrom(c, u, n, fuel) == FeatureReference(c, u, n, fuel) ?? OuterFeature(c, u.owner, n)

ReferenceTarget(c, u, n, fuel) == SeenFrom(c, Scoped(c, u), n, fuel)

\* resolve_inherited_definition_feature_reference
ThroughParent(c, id, n, s) ==
  CASE id = None          -> Miss(s)
    [] id = Endless       -> Hit(Endless, s)
    [] id.kind = "type"   -> HitOr(OwnFeature(c, id.name, n), s, Search("definition", c, id.name, n, s))
    [] OTHER              -> Hit(LibraryFeature(c, id, n), s)

InheritedFromDefinition(c, owner, n, s) ==
  LET entered == [s EXCEPT !.definitions = @ \cup {owner}] IN
  IF owner \in s.definitions THEN Miss(s)
  ELSE IF owner \notin DOMAIN c.definitions THEN Miss(entered)
  ELSE FirstOf(c.definitions[owner], entered, LAMBDA parent, t : ThroughParent(c, ResolveType(c, parent, t.fuel), n, t))

\* Where a redefinition or subsetting leads: into the features of its target.
ThroughTarget(c, r, n) ==
  CASE r.id \in {None, Endless} -> r
    [] r.id.kind = "feature" /\ r.id.name \in DOMAIN c.usages ->
         HitOr(OwnFeature(c, r.id.name, n), r.s, Search("usage", c, r.id.name, n, r.s))
    [] OTHER -> Hit(LibraryFeature(c, r.id, n), r.s)

\* A local type, what it inherits, the library element of its name.
ThroughType(c, path, n, s) ==
  LET r == HitOr(FeatureOfType(c, TypeId(path), n), s, Search("definition", c, path, n, s))
  IN IF Found(r) THEN r ELSE Hit(LibraryFeature(c, TypeId(path), n), r.s)

\* resolve_owner_usage_feature_reference: by the targets of the usage, by the
\* local types it has, by its library types.
InUsage(c, u, n, step, typeId, types, s) ==
  CASE step = "redefines" ->
         FirstOf(u.decl.redefines, s, LAMBDA name, t : ThroughTarget(c, Search("redefinition", c, u, name, t), n))
    [] step = "subsets" ->
         FirstOf(u.decl.subsets \o u.decl.specializes, s,
                 LAMBDA name, t : ThroughTarget(c, Search("feature", c, u, name, t), n))
    [] step = "types" ->
         FirstOf(InOrder(c, {id.name : id \in types}), s, LAMBDA path, t : ThroughType(c, path, n, t))
    [] step = "library" ->
         LET owners == InOrder(c, LibraryOwners(u.decl.construct) \cup {id.name : id \in {typeId} \ types})
         IN FirstOf(owners, s, LAMBDA o, t : Hit(LibraryFeature(c, IF o = typeId.name THEN typeId ELSE LibraryId(o), n), t))

UsageFeature(c, u, n, typeId, collected) ==
  LET types == {id \in {typeId, NamedType(c, u), collected.id} : id.kind = "type"} IN
  IF Endless \in {typeId, collected.id} THEN Hit(Endless, collected.s)
  ELSE FirstOf(<<"redefines", "subsets", "types", "library">>, collected.s,
               LAMBDA step, t : InUsage(c, u, n, step, typeId, types, t))

WrittenType(c, u, s) == IF u.decl.ty = <<>> THEN None ELSE ResolveType(c, u.decl.ty, s.fuel)

\* Seeded fault: a usage that is entered is not marked.
Unmarked(s, owner) == s

Entered(s, owner) == [s EXCEPT !.usages = @ \cup {owner}]

OwnerUsageFeature(c, owner, n, s) ==
  LET u == c.usages[owner]
      t == Entered(s, owner)
  IN IF owner \in s.usages THEN Miss(s)
     ELSE IF owner \notin DOMAIN c.usages THEN Miss(t)
     ELSE UsageFeature(c, u, n, WrittenType(c, u, t), Search("type", c, u, <<>>, t))

\* resolve_collected_usage_type_qualified_name: the local type of a usage, its
\* own, that of what it references, of a feature of its name, of its targets.
\* The third starts again with nothing visited.
LocalOnly(id) == IF id.kind \in {"type", "endless"} THEN id ELSE None

KnownType(c, u, fuel) ==
  (IF u.decl.target = <<>> THEN None ELSE TypeOfFeature(c, ReferenceTarget(c, u, u.decl.target, fuel), fuel))
    ?? TypeOfFeature(c, FeatureReference(c, u, <<u.decl.name>>, fuel), fuel)

Follow(c, r) ==
  IF r.id.kind = "feature" /\ r.id.name \in DOMAIN c.usages /\ r.id.name \notin r.s.usages
    THEN Search("type", c, c.usages[r.id.name], <<>>, Entered(r.s, r.id.name))
    ELSE IF r.id = Endless THEN r ELSE Miss(r.s)

\* An unresolved redefinition ends the search: the ? operator.
Stop == Id("stop", <<>>)

OfRedefined(c, u, s) ==
  LET followed(r) == IF Found(r) THEN Follow(c, r) ELSE Hit(Stop, r.s)
  IN FirstOf(u.decl.redefines, s, LAMBDA name, t : followed(Search("redefinition", c, u, name, t)))

OfTargets(c, u, redefined) ==
  CASE redefined.id = Stop -> Miss(redefined.s)
    [] redefined.id = None ->
         FirstOf(u.decl.subsets \o u.decl.specializes, redefined.s,
                 LAMBDA name, t : Follow(c, Search("feature", c, u, name, t)))
    [] OTHER -> redefined

CollectedType(c, u, s) ==
  LET known == KnownType(c, u, s.fuel) IN
  IF u.decl.ty # <<>> THEN Hit(LocalOnly(ResolveType(c, u.decl.ty, s.fuel)), s)
  ELSE IF known # None THEN Hit(LocalOnly(known), s)
  ELSE OfTargets(c, u, OfRedefined(c, u, s))

\* The feature a path leads to below the usage its head was found to be.
BelowOr(c, u, tail, r, Form(_)) == IF Found(r) THEN Form(r) ELSE Search("feature", c, u, tail, r.s)

Below(c, path, tail, s, Form(_)) ==
  HitOr(OwnFeature(c, path, tail), s, BelowOr(c, c.usages[path], tail, Search("usage", c, path, tail, s), Form))

\* resolve_local_scoped_feature_reference
ScopedPath(c, u, n, s) ==
  IF u.owner \in DOMAIN c.features /\ n[1] \in DOMAIN c.features[u.owner]
    THEN Below(c, c.features[u.owner][n[1]], Tail(n), s, AsFeature)
    ELSE Miss(s)

\* resolve_ancestor_scoped_feature_reference
AncestorPath(c, u, n, s) ==
  LET named == SelectSeq(UsageScopes(c, u.owner), LAMBDA o : c.usages[o].decl.name = n[1])
  IN IF named = <<>> THEN Miss(s) ELSE Search("feature", c, c.usages[named[1]], Tail(n), s)

\* resolve_enclosing_scope_sibling_feature_reference; a head from the library
\* is no usage of the module.
HeadIn(c, scope, head, s) ==
  HitOr(OwnFeature(c, scope, head), s,
        IF scope \in DOMAIN c.usages THEN Search("usage", c, scope, head, s) ELSE Miss(s))

FromHead(c, r, tail) ==
  CASE r.id.kind = "feature" -> Below(c, r.id.name, tail, r.s, LAMBDA x : x)
    [] r.id.kind = "endless" -> r
    [] OTHER -> Miss(r.s)

SiblingPath(c, u, n, s) ==
  FirstOf(Scopes(c, u.owner), s, LAMBDA scope, t : FromHead(c, HeadIn(c, scope, <<n[1]>>, t), Tail(n)))

\* resolve_enclosing_usage_inherited_feature_reference
EnclosingInherited(c, owner, n, s) ==
  FirstOf(Scopes(c, owner), s,
          LAMBDA o, t : Search(IF o \in DOMAIN c.usages THEN "usage" ELSE "definition", c, o, n, t))

\* resolve_feature_reference_with_seen
Attempts(n) ==
  (IF Len(n) < 2 THEN <<>> ELSE <<"scoped path", "ancestor path", "sibling path">>)
    \o <<"local name", "own scope", "enclosing", "enclosing inherited", "local usage", "inherited by the owner",
         "own type", "owner's types">>

InWrittenType(c, type, n) ==
  CASE type.kind = "type" -> OwnFeature(c, type.name, n)
    [] type = Endless     -> Endless
    [] OTHER              -> None

Attempt(c, u, n, step, s) ==
  CASE step = "scoped path"   -> ScopedPath(c, u, n, s)
    [] step = "ancestor path" -> AncestorPath(c, u, n, s)
    [] step = "sibling path"  -> SiblingPath(c, u, n, s)
    [] step = "local name"    -> Except(Hit(LocalFeature(c, n, s.fuel), s), u.path)
    [] step = "own scope"     -> Except(Hit(OwnFeature(c, u.owner, n), s), u.path)
    [] step = "enclosing"     -> Except(Hit(EnclosingFeature(c, u.owner, n), s), u.path)
    [] step = "enclosing inherited" -> AsFeature(Except(EnclosingInherited(c, u.owner, n, s), u.path))
    [] step = "local usage"   -> Except(Hit(LocalUsage(c, n, s.fuel), s), u.path)
    [] step = "inherited by the owner" ->
         IF u.ownerKind = "definition" THEN AsFeature(Search("definition", c, u.owner, n, s)) ELSE Miss(s)
    [] step = "own type"      -> Except(Hit(InWrittenType(c, WrittenType(c, u, s), n), s), u.path)
    [] step = "owner's types" -> Except(Search("usage", c, u.owner, n, s), u.path)

FeatureTarget(c, u, n, s) ==
  FirstOf(Attempts(n), s, LAMBDA step, t : Attempt(c, u, n, step, t))

\* The types of the enclosing usages, asked with visited sets of their own.
RedefinedInScope(c, o, n, type, s) ==
  IF type = Endless THEN Hit(Endless, s) ELSE HitOr(FeatureOfType(c, type, n), s, Search("usage", c, o, n, s))

RedefinedInScopes(c, u, n, fuel) ==
  FirstOf(UsageScopes(c, u.owner), Fresh(fuel),
          LAMBDA o, t : RedefinedInScope(c, o, n, TypeOfFeature(c, FeatureId(o), fuel), t)).id

\* The last resort for a simple name: anything of that name in the module, then
\* in the library.
RedefinedAnywhere(c, u, n) ==
  LET others == AllFeatures(c) \ {u.path} IN
  UniqueFeature(c, n, {p \in others : Front(p) \in DOMAIN c.definitions})
    ?? UniqueFeature(c, n, others)
    ?? UniqueModifier(c, n, u.path)
    ?? Lookup(c.semanticBase, n)
    ?? UniqueInLibrary(c, n[1])

\* resolve_redefinition_feature_reference_with_seen
Redefined(c, u, n, step, s) ==
  CASE step = "modifier"  -> Hit(UniqueModifier(c, n, u.path), s)
    [] step = "inherited" -> IF u.ownerKind = "definition" THEN Search("definition", c, u.owner, n, s) ELSE Miss(s)
    [] step = "feature"   -> Search("feature", c, u, n, s)
    [] step = "scopes"    -> Hit(RedefinedInScopes(c, u, n, s.fuel), s)
    [] step = "anywhere"  -> Hit(IF Len(n) = 1 THEN RedefinedAnywhere(c, u, n) ELSE ResolveQualified(c, n, s.fuel), s)

RedefinitionTarget(c, u, n, s) ==
  FirstOf(<<"modifier", "inherited", "feature", "scopes", "anywhere">>, s, LAMBDA step, t : Redefined(c, u, n, step, t))

Called(finder, c, of, n, s) ==
  CASE finder = "definition"   -> InheritedFromDefinition(c, of, n, s)
    [] finder = "usage"        -> OwnerUsageFeature(c, of, n, s)
    [] finder = "type"         -> CollectedType(c, of, s)
    [] finder = "feature"      -> FeatureTarget(c, of, n, s)
    [] finder = "redefinition" -> RedefinitionTarget(c, of, n, s)

Search(finder, c, of, n, s) ==
  IF s.fuel = 0 THEN Hit(Endless, s) ELSE Back(Called(finder, c, of, n, Deeper(s)), s)
===========================================================================
