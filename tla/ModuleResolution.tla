-------------------------- MODULE ModuleResolution --------------------------
(***************************************************************************)
(* Resolving one module (resolve.rs, resolve_module_with_policy_context):  *)
(* the tables, the imports and what its declarations ask for.  The file is *)
(* the only one of its context.                                            *)
(***************************************************************************)
EXTENDS UsageResolution

CONSTANTS
  Library,      \* [ids, aliases, features, semanticBase]: the library context
  Plain,        \* "~X" |-> "X"
  Capital,      \* "x" |-> "X"
  Rank,         \* the place of each name in the order of texts
  Fuel          \* the depth of the stack

NoBindings == [x \in {} |-> x]

PathsOf(nodes, list) == [j \in DOMAIN list |-> PathOf(nodes, list[j])]

\* ResolverContext::from_modules for the module "context", with the aliases of
\* the module itself.
ModuleTables(context, module) ==
  LET usages == LocalUsages(context)
  IN [defs |-> LocalDefinitions(context), aliases |-> LocalAliases(module),
      values |-> NoBindings, spaces |-> NoBindings,
      library |-> Library.ids, libraryAliases |-> Library.aliases,
      libraryFeatures |-> Library.features, semanticBase |-> Library.semanticBase,
      plain |-> Plain, capital |-> Capital,
      usages |-> usages, features |-> LocalFeatures(usages),
      definitions |-> DefinitionIndex(context), rank |-> Rank,
      preserve |-> FALSE, fuel |-> Fuel]

\* resolve_imports: an expose that names nothing stays as it was written.
ImportTarget(c, module, i) ==
  LET import == module.nodes[i]
      id == IF import.wildcard THEN LibraryId(import.path)
            ELSE ResolveImportTarget(c, c.usages, import, Fuel)
  IN IF id = None /\ import.expose THEN LibraryId(import.path) ELSE id

\* build_import_alias_map: the bindings in the order they are made.
BindingsOf(c, module, i) ==
  LET nodes == module.nodes
      owner == PathOf(nodes, nodes[i].parent)
  IN IF nodes[i].wildcard
       THEN WildcardBindings(c, PathsOf(nodes, PackagesOf(nodes)), PathsOf(nodes, DefinitionOrder(nodes)),
                             PathsOf(nodes, Among(Declarations(nodes), CollectedUsages(nodes))), [path |-> nodes[i].path, owner |-> owner])
       ELSE ValueBindings(owner, Last(nodes[i].path), ImportTarget(c, module, i))

ModuleBindings(c, module) ==
  LET imports == ImportsOf(module)
  IN FlattenSeq([j \in DOMAIN imports |-> BindingsOf(c, module, imports[j])])

\* resolve_definition or resolve_usage, of the declaration itself: the tables
\* hold another one where its name is repeated.
DemandsOf(c, module, k) ==
  IF module.nodes[k].kind = "definition"
    THEN DefinitionDemands(c, PathOf(module.nodes, k), SpecializationsOf(module, k), module.nodes[k].specializes # <<>>)
    ELSE UsageDemands(c, CollectedUsage(module.nodes, k))
=============================================================================
