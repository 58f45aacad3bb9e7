------------------------- MODULE ModuleCollection -------------------------
(***************************************************************************)
(* What the lowering collects from a parsed module (collect.rs), and the   *)
(* tables of names it resolves references with (indexes.rs).               *)
(*                                                                         *)
(* A parsed module is a sequence of declarations in source order, each     *)
(* with the index of the declaration it stands in (0: the module).         *)
(***************************************************************************)
EXTENDS ElementIds

---------------------------------------------------------------------------
(* Walks *)

\* The elements of a list that are in S, in their order.
Among(list, S) == FlattenSeq([j \in DOMAIN list |-> IF list[j] \in S THEN <<list[j]>> ELSE <<>>])

\* What is met from a declaration on: its own, then what is met from each of
\* the declarations that are visited from it.
Walk(own, visits) ==
  LET walk[k \in DOMAIN own] ==
        LET next == visits[k] IN own[k] \o FlattenSeq([j \in DOMAIN next |-> walk[next[j]]])
  IN walk

---------------------------------------------------------------------------
(* Collection *)

Declarations(nodes) == [k \in DOMAIN nodes |-> k]

\* The declarations and the module.
Places(nodes) == 0..Len(nodes)

ChildrenOf(nodes, i) == Among(Declarations(nodes), {k \in DOMAIN nodes : nodes[k].parent = i})

\* The usages in a definition or usage that was collected are collected with it.
ChildrenOfKind(nodes, i, kind) == Among(ChildrenOf(nodes, i), {k \in DOMAIN nodes : nodes[k].kind = kind})
UsagesIn(nodes, i)             == ChildrenOfKind(nodes, i, "usage")

\* qualify_name, usage_qualified_name: the names from the outermost owner down.
PathOf(nodes, i) ==
  LET path[k \in 0..Len(nodes)] ==
        IF k = 0 THEN <<>> ELSE Append(path[nodes[k].parent], nodes[k].name)
  IN path[i]

\* The owner of a usage; a usage of the module itself has the owner "root".
OwnerOf(nodes, k) ==
  IF nodes[k].parent = 0 THEN <<"root">> ELSE PathOf(nodes, nodes[k].parent)

\* What collect_declarations goes into: the declarations of the module and of
\* packages, and the packages directly in a definition.
CollectedFrom(nodes) ==
  [k \in Places(nodes) |->
     CASE k = 0                       -> ChildrenOf(nodes, k)
       [] k # 0 /\ nodes[k].kind = "package"    -> ChildrenOf(nodes, k)
       [] k # 0 /\ nodes[k].kind = "definition" -> ChildrenOfKind(nodes, k, "package")
       [] OTHER                       -> <<>>]

Visited(nodes) == Range(Walk([k \in Places(nodes) |-> <<k>>], CollectedFrom(nodes))[0]) \ {0}

\* collect_package
PackagesOf(nodes) ==
  Among(Declarations(nodes), {k \in Visited(nodes) : nodes[k].kind = "package"})

\* A definition with those nested in it.
DefinitionTree(nodes, k) ==
  Walk([i \in Places(nodes) |-> <<i>>], [i \in Places(nodes) |-> ChildrenOfKind(nodes, i, "definition")])[k]

\* The definitions in the order they are collected: one with those nested in
\* it, then the ones in packages in it.
DefinitionOrder(nodes) ==
  Walk([k \in Places(nodes) |-> IF k # 0 /\ nodes[k].kind = "definition" THEN DefinitionTree(nodes, k) ELSE <<>>],
       CollectedFrom(nodes))[0]

CollectedDefinitions(nodes) == Range(DefinitionOrder(nodes))

\* require_collect_expression: of the rules of the profile only that of this
\* construct takes its name from something else ("conjugatedPort def X").
Uncollectable(module) ==
  \E k \in CollectedDefinitions(module.nodes) : module.nodes[k].construct = "ConjugatedPortDefinition"

\* A usage with the usages in it.
UsageOrder(nodes, k) ==
  Walk([i \in Places(nodes) |-> <<i>>], [i \in Places(nodes) |-> UsagesIn(nodes, i)])[k]

\* Usages likewise, those in the body of anything collected, and those in it.
CollectedUsages(nodes) ==
  LET outermost == {k \in DOMAIN nodes : /\ nodes[k].kind = "usage"
                                         /\ k \in Visited(nodes) \/ nodes[k].parent \in CollectedDefinitions(nodes)}
  IN UNION {Range(UsageOrder(nodes, k)) : k \in outermost}

\* Usages outside definitions and usages: the usages of the module.
FreeUsages(nodes) ==
  Among(Declarations(nodes),
        {k \in CollectedUsages(nodes) : nodes[k].parent = 0 \/ nodes[nodes[k].parent].kind = "package"})

Orders(nodes, list) == FlattenSeq([j \in DOMAIN list |-> UsageOrder(nodes, list[j])])

\* The usages of all definitions.
UsagesInDefinitions(nodes) ==
  LET definitions == DefinitionOrder(nodes)
  IN FlattenSeq([j \in DOMAIN definitions |-> Orders(nodes, UsagesIn(nodes, definitions[j]))])

\* resolve_module_with_policy_context, after the imports: definitions with the
\* usages in them, then the other usages.
ResolutionOrder(module) ==
  LET nodes == module.nodes
      definitions == DefinitionOrder(nodes)
      within(k) == <<k>> \o Orders(nodes, UsagesIn(nodes, k))
  IN FlattenSeq([j \in DOMAIN definitions |-> within(definitions[j])]) \o Orders(nodes, FreeUsages(nodes))

\* collect_nested_member_imports and collect_nested_member_aliases walk the
\* whole body, packages in it included.
NestedIn(nodes, i, kind) ==
  LET found(k) == k # 0 /\ nodes[k].kind = kind
  IN Walk([k \in Places(nodes) |-> IF found(k) THEN <<k>> ELSE <<>>],
          [k \in Places(nodes) |-> IF found(k) THEN <<>> ELSE ChildrenOf(nodes, k)])[i]

\* collect_declarations, as far as imports go: what stands in the body of a
\* definition first, then once more what stands in the packages in it.
ImportsOf(module) ==
  LET nodes == module.nodes
      own(k) == CASE nodes[k].kind = "import"                  -> <<k>>
                  [] nodes[k].kind \in {"usage", "definition"} -> NestedIn(nodes, k, "import")
                  [] OTHER                                     -> <<>>
  IN Walk([k \in Places(nodes) |-> IF k = 0 THEN <<>> ELSE own(k)], CollectedFrom(nodes))[0]

\* collect_alias: a target of one segment is taken from the owner of the alias.
AliasTarget(nodes, k) ==
  IF Len(nodes[k].target) = 1
    THEN PathOf(nodes, nodes[k].parent) \o nodes[k].target
    ELSE nodes[k].target

\* The definitions and usages that stand in packages only.
InPackages(nodes) ==
  LET in[k \in 0..Len(nodes)] == k = 0 \/ (nodes[k].kind = "package" /\ in[nodes[k].parent])
  IN Among(Declarations(nodes), {k \in DOMAIN nodes : nodes[k].kind \in {"definition", "usage"} /\ in[nodes[k].parent]})

\* Aliases of visited namespaces, then those in the bodies of definitions and
\* usages: one that stands in a package in a definition is collected twice.
AliasesIn(nodes) ==
  Among(Declarations(nodes), {k \in Visited(nodes) : nodes[k].kind = "alias"})
    \o FlattenSeq([j \in DOMAIN InPackages(nodes) |-> NestedIn(nodes, InPackages(nodes)[j], "alias")])

\* definition_specializations_with_default
SpecializationsOf(module, k) ==
  IF module.nodes[k].specializes # <<>> THEN module.nodes[k].specializes ELSE module.base

---------------------------------------------------------------------------
(* Tables of local names *)

\* Simple names that exactly one of the declarations in the list declares.
UniqueNames(nodes, list) ==
  {name \in {nodes[k].name : k \in Range(list)} :
     Cardinality({j \in DOMAIN list : nodes[list[j]].name = name}) = 1}

\* What a map holds that is filled from a list: the last of a path.
LastAt(nodes, list, path) == list[Max({j \in DOMAIN list : PathOf(nodes, list[j]) = path})]

\* build_local_definition_map: qualified names, the conjugated companions, and
\* the simple names that are unique and not taken by either.
LocalDefinitions(module) ==
  LET nodes == module.nodes
      list == DefinitionOrder(nodes)
      path(k) == PathOf(nodes, k)
      twin(k) == module.conjugate[nodes[k].name]
      companions == {j \in DOMAIN list : nodes[list[j]].companion}
      names(k) == {<<twin(k)>>, Append(Front(path(k)), twin(k))}
      conjugated == UNION {names(list[j]) : j \in companions}
      qualified == {path(k) : k \in Range(list)}
      simple == {<<name>> : name \in UniqueNames(nodes, list)}
  IN [name \in qualified \cup conjugated \cup simple |->
        IF name \in conjugated
          THEN LET k == list[Max({j \in companions : name \in names(list[j])})]
               IN TypeId(Append(path(k), twin(k)))
          ELSE IF name \in qualified THEN TypeId(name)
          ELSE TypeId(path(CHOOSE k \in Range(list) : nodes[k].name = name[1]))]

\* build_local_alias_map: a later alias of a qualified name replaces an earlier one.
LocalAliases(module) ==
  LET nodes == module.nodes
      list == AliasesIn(nodes)
      qualified == {PathOf(nodes, k) : k \in Range(list)}
      simple == {<<name>> : name \in UniqueNames(nodes, list)}
  IN [name \in qualified \cup simple |->
        IF name \in qualified
          THEN AliasTarget(nodes, list[Max({j \in DOMAIN list : PathOf(nodes, list[j]) = name})])
          ELSE AliasTarget(nodes, CHOOSE k \in Range(list) : nodes[k].name = name[1])]

\* A usage with its path, its owner and the construct of its owner, as
\* collect_generic_usage puts them together.
CollectedUsage(nodes, k) ==
  [path |-> PathOf(nodes, k), owner |-> OwnerOf(nodes, k), decl |-> nodes[k],
   ownerKind |-> IF nodes[k].parent = 0 THEN "package" ELSE nodes[nodes[k].parent].kind]

\* build_local_usage_map
LocalUsages(module) ==
  LET nodes == module.nodes
      list == UsagesInDefinitions(nodes) \o Orders(nodes, FreeUsages(nodes))
  IN [path \in {PathOf(nodes, k) : k \in Range(list)} |-> CollectedUsage(nodes, LastAt(nodes, list, path))]

\* build_local_feature_index: per owner, the paths of its usages by name.
LocalFeatures(usages) ==
  [owner \in {u.owner : u \in Range(usages)} |->
     LET within == {u \in Range(usages) : u.owner = owner}
     IN [name \in {u.decl.name : u \in within} |-> (CHOOSE u \in within : u.decl.name = name).path]]

\* The definition_index: what each definition specializes.
DefinitionIndex(module) ==
  LET nodes == module.nodes
      list == DefinitionOrder(nodes)
  IN [path \in {PathOf(nodes, k) : k \in Range(list)} |-> SpecializationsOf(module, LastAt(nodes, list, path))]
===========================================================================
