--------------------------- MODULE PartialCompile ---------------------------
(***************************************************************************)
(* The attempts at compiling a module, with the resolution and emission of *)
(* the code: what is promised of the names and the elements of a document. *)
(***************************************************************************)
EXTENDS CompiledModule, ModuleResolution

Compiling == INSTANCE CompileAttempts WITH
  TablesOf <- ModuleTables, ImportIdOf <- ImportTarget, BindingsBy <- ModuleBindings, AskedBy <- DemandsOf

Spec == Compiling!Spec

\* A document refers to nothing that was taken out of the module: what a type or
\* a feature of the module was resolved to is an element that was emitted.  The
\* id of a feature has the prefix "feature." whatever its construct, and the
\* owner "root" is left out of it (parser.rs, the context rebuilt after
\* prune_declaration_for_span).
ReferencesNameElements ==
  Compiled =>
    \A r \in Range(resolved) :
      LET names == {r.id.name, <<"root">> \o r.id.name} IN
      /\ r.id.kind = "type" => \E e \in Range(document) : e.id = r.id
      /\ r.id.kind = "feature" => \E e \in Range(document) : e.id.name \in names

\* A type written as one name is the definition of this name in the innermost
\* scope that declares one, whatever aliases, imports and the library say
\* (resolve.rs, resolve_scoped_local_type_reference).
LexicalScoping ==
  \A r \in Range(resolved) :
    LET scope == IF nodes[r.at].kind = "usage" THEN OwnerOf(nodes, r.at) ELSE PathOf(nodes, r.at)
        written == IF nodes[r.at].kind = "usage" THEN {nodes[r.at].ty} ELSE Range(nodes[r.at].specializes)
        declaring(name) == {k \in CollectedDefinitions(nodes) : /\ nodes[k].name = name
                                                               /\ PathOf(nodes, k) # <<name>>
                                                               /\ IsPrefix(Front(PathOf(nodes, k)), scope)}
        depth(k) == Len(PathOf(nodes, k))
    IN \A name \in {n[1] : n \in {m \in written : Len(m) = 1}} :
         (r.what \in {"type", "specialization"} /\ Cardinality(written) = 1 /\ declaring(name) # {}) =>
           \E k \in declaring(name) : /\ \A d \in declaring(name) : depth(d) <= depth(k)
                                      /\ r.id = DefinitionId(nodes, k)

\* The stack ends the process only where a name leads back to itself: an alias
\* by way of others, a namespace into one of its name, a usage into its own
\* body (resolve.rs follows these without a visited set).
LeadsTo ==
  {<<Last(key), Last(tables.aliases[key])>> : key \in DOMAIN tables.aliases}
    \cup {<<key[1], tables.aliases[key][1]>> : key \in DOMAIN tables.aliases}
    \cup {<<head, spaces[head][1]>> : head \in {h \in DOMAIN spaces : spaces[h] # <<h>>}}

LeadsBack ==
  LET names == {edge[1] : edge \in LeadsTo}
  IN \E S \in (SUBSET names) \ {{}} : \A name \in S : \E next \in S : <<name, next>> \in LeadsTo

Mentioned(path) ==
  LET d == tables.usages[path].decl
      names == {Last(n) : n \in Range(d.subsets) \cup Range(d.specializes) \cup Range(d.redefines)}
  IN {other \in DOMAIN tables.usages : Last(other) \in names}

\* What a usage mentions, what this mentions and so on.
Reached(path) ==
  LET usages == DOMAIN tables.usages
      Closed(S) == \A other \in S : Mentioned(other) \subseteq S
  IN {q \in usages : \A S \in SUBSET usages : Mentioned(path) \subseteq S /\ Closed(S) => q \in S}

EntersItself == \E path \in DOMAIN tables.usages : \E q \in Reached(path) : IsStrictPrefix(path, q)

OverflowNeedsACycle == status = "overflow" => LeadsBack \/ EntersItself
===========================================================================
