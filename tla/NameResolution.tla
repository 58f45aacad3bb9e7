-------------------------- MODULE NameResolution --------------------------
(***************************************************************************)
(* How a name is resolved against the tables of one compilation            *)
(* (resolve.rs, names.rs).  A context c holds                              *)
(*   defs, aliases        local definitions and aliases by name,           *)
(*   values, spaces       what imports bind names and namespaces to,       *)
(*   library, libraryAliases  ids of the library and its short names,      *)
(*   plain                "~X" |-> "X" for the conjugated names.           *)
(* The calls follow aliases and prefixes without a visited set.  "fuel"    *)
(* is the depth of the call stack left: a call that runs out of it is      *)
(* Endless, and so is whatever called it.                                  *)
(***************************************************************************)
EXTENDS ModuleCollection

\* expand_import_namespace_prefix: what the first segment stands for.
Expansion(c, head) ==
  IF head \in DOMAIN c.spaces THEN c.spaces[head]
  ELSE IF <<head>> \in DOMAIN c.aliases THEN c.aliases[<<head>>]
  ELSE <<head>>

Expand(c, n) == Expansion(c, n[1]) \o Tail(n)

\* The callers that expand a name until nothing changes; <<>> if that never ends.
RECURSIVE ExpandAll(_, _, _)
ExpandAll(c, n, fuel) ==
  IF Expansion(c, n[1]) = <<n[1]>> THEN n
  ELSE IF fuel = 0 THEN <<>>
  ELSE ExpandAll(c, Expand(c, n), fuel - 1)

\* unconjugated_type_name
IsConjugated(c, n) == n[1] \in DOMAIN c.plain
Unconjugated(c, n) == <<c.plain[n[1]]>> \o Tail(n)

\* unique_suffix_match: the one library element with this last segment.
UniqueInLibrary(c, segment) ==
  OnlyOne({LibraryId(id) : id \in {l \in c.library : Last(l) = segment}})

\* unique_local_suffix_match: two keys of one definition are two matches.
UniqueLocal(c, n) ==
  LET keys == Ending(DOMAIN c.defs, n)
  IN IF Cardinality(keys) = 1 THEN c.defs[CHOOSE key \in keys : TRUE] ELSE None

\* The target of an alias, of this name or, unique_local_alias_suffix_match, the
\* only one that ends with it; <<>> if there is none.
AliasOf(c, n) ==
  IF n \in DOMAIN c.aliases THEN c.aliases[n]
  ELSE IF Cardinality(Ending(DOMAIN c.aliases, n)) = 1
    THEN c.aliases[CHOOSE key \in DOMAIN c.aliases : IsSuffix(n, key)]
    ELSE <<>>

InLibrary(c, n) == IF n \in c.library THEN LibraryId(n) ELSE None

\* resolve_explicit_type_reference
ResolveExplicit(c, n) == Lookup(c.libraryAliases, n) ?? InLibrary(c, n) ?? Lookup(c.defs, n)

RECURSIVE ResolveQualified(_, _, _)
ResolveQualified(c, n, fuel) ==
  IF fuel = 0 THEN Endless
  ELSE ResolveExplicit(c, n)
         ?? UniqueLocal(c, n)
         ?? (IF AliasOf(c, n) # <<>> THEN ResolveQualified(c, AliasOf(c, n), fuel - 1)
             ELSE IF Len(n) = 1 THEN UniqueInLibrary(c, n[1])
             ELSE None)

\* The name a type reference is looked up as instead; <<>> if it stays.
Redirected(c, n) ==
  CASE Len(n) = 1 /\ n \in DOMAIN c.aliases       -> c.aliases[n]
    [] Len(n) > 1 /\ Expansion(c, n[1]) # <<n[1]>>   -> Expand(c, n)
    [] Len(n) > 1 /\ Expansion(c, n[1]) = <<n[1]>>   -> AliasOf(c, n)
    [] OTHER                                      -> <<>>

RECURSIVE ResolveType(_, _, _)
ResolveType(c, n, fuel) ==
  IF fuel = 0 THEN Endless
  ELSE IF Len(n) = 1 /\ n \in DOMAIN c.defs THEN c.defs[n]
  ELSE IF Redirected(c, n) # <<>> THEN ResolveType(c, Redirected(c, n), fuel - 1)
  ELSE Lookup(c.values, n)
         ?? (IF Len(n) = 1 THEN Lookup(c.libraryAliases, n) ?? UniqueInLibrary(c, n[1])
                           ELSE ResolveQualified(c, n, fuel))
         ?? (IF IsConjugated(c, n) THEN ResolveType(c, Unconjugated(c, n), fuel - 1) ELSE None)

RECURSIVE ResolveVisible(_, _, _)
ResolveVisible(c, n, fuel) ==
  IF fuel = 0 THEN Endless
  ELSE IF Len(n) = 1 /\ n \in DOMAIN c.aliases THEN ResolveVisible(c, c.aliases[n], fuel - 1)
  ELSE IF Len(n) > 1 /\ Expansion(c, n[1]) # <<n[1]>> THEN ResolveVisible(c, Expand(c, n), fuel - 1)
  ELSE Lookup(c.values, n)
         ?? (IF Len(n) = 1 THEN Lookup(c.libraryAliases, n) ?? UniqueInLibrary(c, n[1]) ELSE ResolveExplicit(c, n))

\* The names n may have in the scopes around owner, the innermost first.
Climb(owner, n) == [k \in DOMAIN owner |-> SubSeq(owner, 1, Len(owner) + 1 - k) \o n]

Bound(f, keys) == IF keys = <<>> THEN None ELSE f[keys[1]]

\* Seeded fault: the climb begins at the outermost scope.
Outermost(f, owner, n) == Bound(f, SelectSeq(Reverse(Climb(owner, n)), LAMBDA key : key \in DOMAIN f))

\* What f binds the name to in the innermost of the scopes around owner.
Innermost(f, owner, n) == Bound(f, SelectSeq(Climb(owner, n), LAMBDA key : key \in DOMAIN f))

\* resolve_scoped_import_value_alias
ScopedImport(c, n, owner) == IF Len(n) = 1 THEN Innermost(c.values, owner, n) ELSE None

RECURSIVE ResolveInScope(_, _, _, _)
ResolveInScope(c, n, owner, fuel) ==
  Innermost(c.defs, owner, n)
    ?? ScopedImport(c, n, owner)
    ?? ResolveVisible(c, n, fuel)
    ?? (IF IsConjugated(c, n) THEN ResolveInScope(c, Unconjugated(c, n), owner, fuel) ELSE None)

\* resolve_local_usage_reference: exact, then by a suffix one usage has.
ResolveUsagePath(usages, n) ==
  IF n \in DOMAIN usages THEN FeatureId(n) ELSE OnlyOne({FeatureId(p) : p \in Ending(DOMAIN usages, n)})

\* resolve_import_target, for an import without a wildcard.
ResolveImportTarget(c, usages, import, fuel) ==
  LET n == import.path IN
  ResolveQualified(c, n, fuel)
    ?? (IF import.expose THEN None ELSE ResolveUsagePath(usages, n))
    ?? (IF Len(n) > 1 THEN UniqueInLibrary(c, Last(n)) ELSE None)

---------------------------------------------------------------------------
(* What imports bind *)

Binding(space, alias, target) == [space |-> space, alias |-> alias, target |-> target]

\* bind_value_alias and bind_owner_qualified_value_aliases: the name itself
\* and the name below every suffix of the owner's path.
ValueBindings(owner, name, target) ==
  <<Binding("value", <<name>>, target)>>
    \o [start \in DOMAIN owner |->
          Binding("value", Append(SubSeq(owner, start, Len(owner)), name), target)]

SpaceBinding(path) == Binding("namespace", Last(path), path)

\* resolve_local_namespace_dot: the namespace as written, seen from each scope
\* around the owner, from the root package; the first that one package ends with.
RootPackage(packages, namespace) ==
  (SelectSeq(packages, LAMBDA p : Len(p) = 1) \o packages \o <<namespace>>)[1]

Candidates(root, namespace, owner) ==
  <<namespace>> \o Climb(owner, namespace) \o (IF IsPrefix(root, namespace) THEN <<>> ELSE <<root \o namespace>>)

LocalNamespace(packages, namespace, owner) ==
  LET found == SelectSeq(Candidates(RootPackage(packages, namespace), namespace, owner),
                         LAMBDA n : Cardinality(Ending(Range(packages), n)) = 1)
  IN IF found = <<>> THEN <<>> ELSE CHOOSE p \in Range(packages) : IsSuffix(found[1], p)

ChildrenIn(paths, namespace) == SelectSeq(paths, LAMBDA p : Len(p) = Len(namespace) + 1 /\ IsPrefix(namespace, p))

SpaceBindings(paths) == [j \in DOMAIN paths |-> SpaceBinding(paths[j])]

ValuesBound(owner, paths, id(_)) ==
  FlattenSeq([j \in DOMAIN paths |-> ValueBindings(owner, Last(paths[j]), id(paths[j]))])

\* add_wildcard_import_aliases: the local namespace the import names, or else a
\* namespace of the library.
LocalBindings(packages, definitions, usages, owner, local) ==
  <<SpaceBinding(local)>>
    \o SpaceBindings(ChildrenIn(packages, local))
    \o ValuesBound(owner, ChildrenIn(definitions, local), TypeId)
    \o ValuesBound(owner, ChildrenIn(usages, local), FeatureId)

LibraryBindings(ids, libraryAliases, import) ==
  <<SpaceBinding(import.path)>>
    \o ValuesBound(import.owner, ChildrenIn(SetToSeq(ids), import.path), LibraryId)
    \o ValuesBound(import.owner, ChildrenIn(SetToSeq(DOMAIN libraryAliases), import.path), LAMBDA p : libraryAliases[p])

WildcardBindings(c, packages, definitions, usages, import) ==
  LET local == LocalNamespace(packages, import.path, import.owner)
  IN IF local # <<>> THEN LocalBindings(packages, definitions, usages, import.owner, local)
                     ELSE LibraryBindings(c.library, c.libraryAliases, import)
===========================================================================
