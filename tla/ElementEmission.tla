-------------------------- MODULE ElementEmission --------------------------
(***************************************************************************)
(* The elements a resolved module is turned into (emit.rs): their ids,     *)
(* their owners and the members they list.  What else an element carries   *)
(* comes from templates that name nothing outside it.                      *)
(***************************************************************************)
EXTENDS ModuleCollection

\* An element that stands for no declaration of the module has no members.
Element(id, owner, members) == [id |-> id, owner |-> owner, members |-> members]

PackageId(name) == Id("pkg", name)
PackageRoot     == PackageId(<<"root">>)

\* The id templates: the prefix of a construct, and whether the id also
\* carries the line, or the line and column, of the declaration.
Prefix(construct) ==
  CASE construct = "ActionUsage"        -> "action"
    [] construct = "PerformActionUsage" -> "perform"
    [] construct = "AcceptActionUsage"  -> "accept"
    [] construct = "SendUsage"          -> "send"
    [] construct = "StateUsage"         -> "state"
    [] construct = "TransitionUsage"    -> "transition"
    [] construct = "ReferenceUsage"     -> "reference"
    [] construct = "ConnectionUsage"    -> "connection"
    [] construct = "MetadataUsage"      -> "metadata"
    [] construct = "CommentUsage"       -> "comment"
    [] construct = "SatisfyUsage"       -> "satisfy"
    [] construct = "ViewUsage"          -> "view"
    [] OTHER                            -> "feature"

ByLine     == {"ReferenceUsage", "ConnectionUsage"}
ByPosition == {"AcceptActionUsage", "TransitionUsage", "MetadataUsage", "CommentUsage"}

\* render_usage_id: a usage of the module itself has the owner path "root".
UsageId(nodes, k) ==
  LET d == nodes[k]
      at == CASE d.construct \in ByLine     -> d.line
              [] d.construct \in ByPosition -> d.index
              [] OTHER                      -> 0
  IN [Id(Prefix(d.construct), Append(OwnerOf(nodes, k), d.name)) EXCEPT !.at = at]

DefinitionId(nodes, k) == TypeId(PathOf(nodes, k))
CompanionId(module, k) == TypeId(Append(PathOf(module.nodes, k), module.conjugate[module.nodes[k].name]))

\* usage_counts_as_owned_member
OwnedUsages(nodes, list) == Among(list, {k \in DOMAIN nodes : nodes[k].construct # "ConnectionUsage"})

\* render_owned_usage_tree_ids
MemberUsages(nodes, i) ==
  LET owned == OwnedUsages(nodes, UsagesIn(nodes, i)) IN [j \in DOMAIN owned |-> UsageId(nodes, owned[j])]

\* Seeded fault: what stands in a nested package is a member too.
WithinPackage(nodes, p, k) == p # k /\ IsPrefix(PathOf(nodes, p), PathOf(nodes, k))

\* is_direct_child_qualified_name
DirectlyIn(nodes, p, k) == Front(PathOf(nodes, k)) = PathOf(nodes, p)

\* build_package_member_ids: whatever is named directly below the package.
PackageMembers(nodes, p) ==
  LET direct(list) == Among(list, {k \in DOMAIN nodes : DirectlyIn(nodes, p, k)})
      packages == direct(PackagesOf(nodes))
      definitions == direct(DefinitionOrder(nodes))
      usages == direct(OwnedUsages(nodes, FreeUsages(nodes)))
  IN [j \in DOMAIN packages |-> PackageId(PathOf(nodes, packages[j]))]
       \o [j \in DOMAIN definitions |-> DefinitionId(nodes, definitions[j])]
       \o [j \in DOMAIN usages |-> UsageId(nodes, usages[j])]

\* The id of the package or definition of this name, if there is one.
NamespaceId(nodes, name) ==
  IF \E k \in Range(PackagesOf(nodes)) : PathOf(nodes, k) = name THEN PackageId(name)
  ELSE IF \E k \in CollectedDefinitions(nodes) : PathOf(nodes, k) = name THEN TypeId(name)
  ELSE None

\* transpile_package
PackageElement(nodes, p) ==
  LET owner == Front(PathOf(nodes, p))
  IN Element(PackageId(PathOf(nodes, p)),
             IF owner = <<>> THEN None ELSE NamespaceId(nodes, owner),
             PackageMembers(nodes, p))

\* transpile_import: below a usage only a usage of the module is an owner.
ImportElement(nodes, imports, j) ==
  LET i == imports[j]
      owner == nodes[i].parent
      usage == IF owner \in Range(FreeUsages(nodes)) THEN UsageId(nodes, owner) ELSE PackageRoot
      id == IF owner = 0 THEN PackageRoot ELSE NamespaceId(nodes, PathOf(nodes, owner)) ?? usage
  IN Element([Id(IF nodes[i].expose THEN "expose" ELSE "import", id.name) EXCEPT !.at = j], id, <<>>)

\* transpile_usage_tree: a usage in another one has that one as its owner.
UsageTree(nodes, k, owner) ==
  LET order == UsageOrder(nodes, k)
      ownerOf(i) == IF i = k THEN owner ELSE UsageId(nodes, nodes[i].parent)
  IN [j \in DOMAIN order |-> Element(UsageId(nodes, order[j]), ownerOf(order[j]), MemberUsages(nodes, order[j]))]

\* transpile_definition, the usages in it and its conjugated companion.  The
\* owner is taken for a package, also when it is a definition.
DefinitionElements(module, k) ==
  LET nodes == module.nodes
      id == DefinitionId(nodes, k)
      owner == Front(PathOf(nodes, k))
      members == UsagesIn(nodes, k)
      companion == IF nodes[k].companion THEN <<CompanionId(module, k)>> ELSE <<>>
  IN <<Element(id, IF owner = <<>> THEN None ELSE PackageId(owner), MemberUsages(nodes, k) \o companion)>>
       \o FlattenSeq([j \in DOMAIN members |-> UsageTree(nodes, members[j], id)])
       \o [j \in DOMAIN companion |-> Element(companion[j], id, <<>>)]

\* package_owner_id
FreeUsageElements(nodes, k) ==
  UsageTree(nodes, k, IF nodes[k].parent = 0 THEN PackageRoot ELSE PackageId(PathOf(nodes, nodes[k].parent)))

\* disambiguate_duplicate_source_position_usage_ids: a repeated id of one of
\* these kinds gets the first suffix that is free.
Disambiguable == {"reference", "transition", "accept"}

Taken(done, id) == \E e \in Range(done) : e.id = id

FreeCopy(done, id) ==
  CHOOSE n \in 1..(Len(done) + 1) : /\ ~Taken(done, [id EXCEPT !.copy = n])
                                    /\ \A l \in 1..(n - 1) : Taken(done, [id EXCEPT !.copy = l])

ToldApart(done, e) ==
  IF Taken(done, e.id) /\ e.id.kind \in Disambiguable THEN [e EXCEPT !.id.copy = FreeCopy(done, e.id)] ELSE e

Disambiguated(elements) ==
  LET done[n \in 0..Len(elements)] ==
        IF n = 0 THEN <<>> ELSE LET before == done[n - 1] IN Append(before, ToldApart(before, elements[n]))
  IN done[Len(elements)]

\* transpile_module_with_source, up to the ids that repeat.
Rendered(module) ==
  LET nodes == module.nodes
      imports == ImportsOf(module)
      packages == PackagesOf(nodes)
      definitions == DefinitionOrder(nodes)
      usages == FreeUsages(nodes)
  IN [j \in DOMAIN packages |-> PackageElement(nodes, packages[j])]
       \o [j \in DOMAIN imports |-> ImportElement(nodes, imports, j)]
       \o FlattenSeq([j \in DOMAIN definitions |-> DefinitionElements(module, definitions[j])])
       \o FlattenSeq([j \in DOMAIN usages |-> FreeUsageElements(nodes, usages[j])])

\* The elements before the check for repeated ids.
Elements(module) == Disambiguated(Rendered(module))
===========================================================================
