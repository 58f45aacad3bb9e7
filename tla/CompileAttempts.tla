-------------------------- MODULE CompileAttempts --------------------------
(***************************************************************************)
(* Compiling one source file that may be partly in error (parser.rs,       *)
(* compile_sysml_text_with_context_report): attempts at resolving and      *)
(* emitting the module, and between them the recovery that drops what the  *)
(* last one failed at.  What a declaration is resolved to is a parameter:  *)
(* ModuleResolution says it.                                               *)
(***************************************************************************)
EXTENDS CompiledModule

CONSTANTS
  \* of a module m, its tables c and one of its declarations k
  TablesOf(_, _),        \* ResolverContext::from_modules for a context and m
  ImportIdOf(_, _, _),   \* what the import k of m names
  BindingsBy(_, _),      \* the names the imports of m bind
  AskedBy(_, _, _)       \* the references in k and what they come to

aliasVars == <<made, bound, ambiguous, spaces, ambiguousSpaces>>
vars == <<module, limit, nodes, phase, tables, todo, resolved, made, bound, ambiguous, spaces, ambiguousSpaces,
          fault, reported, attempts, status, document>>

Fault(what, at) == [what |-> what, at |-> at]
NoFault == Fault("none", 0)

Empty == [x \in {} |-> x]

Unmet(id) == id \in {None, Endless}

Working == [module EXCEPT !.nodes = nodes]

\* Seeded fault: the tables are those of the module as it was parsed.
StaleModule == module

\* replace_equivalent_context_module: the module as it is after the recovery.
ContextModule == Working

---------------------------------------------------------------------------
(* The attempts *)

ResetAliases ==
  /\ made' = {} /\ bound' = Empty /\ ambiguous' = {}
  /\ spaces' = Empty /\ ambiguousSpaces' = {}

Init ==
  /\ module \in Modules
  /\ limit \in Limits
  /\ nodes = module.nodes
  /\ phase = "tables"
  /\ tables = Empty
  /\ todo = <<>>
  /\ resolved = <<>>
  /\ made = {} /\ bound = Empty /\ ambiguous = {}
  /\ spaces = Empty /\ ambiguousSpaces = {}
  /\ fault = NoFault
  /\ reported \in {{}, {Fault("parse", 0)}}
  /\ attempts = 0
  /\ status = "running"
  /\ document = <<>>

FailWith(f) ==
  /\ fault' = f
  /\ phase' = "recover"

\* What an unmet demand comes to; a call that never returns, to the end of the
\* process.
FailsFor(what, id, at) ==
  IF id = Endless
    THEN /\ status' = "overflow"
         /\ phase' = "over"
         /\ UNCHANGED fault
    ELSE /\ FailWith(Fault(what, IF what = "placeless" THEN 0 ELSE at))
         /\ UNCHANGED status

\* A module that cannot be collected is reported without a place and given up;
\* what a recovery leaves of one that can, can be collected too.
NotCollected ==
  /\ Uncollectable(Working)
  /\ reported' = reported \cup {Fault("placeless", 0)}
  /\ status' = "failed"
  /\ phase' = "over"
  /\ UNCHANGED <<tables, resolved, aliasVars>>

Collected ==
  /\ ~Uncollectable(Working)
  /\ tables' = TablesOf(ContextModule, Working)
  /\ phase' = "imports"
  /\ ResetAliases
  /\ resolved' = <<>>
  /\ UNCHANGED <<reported, status>>

BuildTables ==
  /\ status = "running"
  /\ phase = "tables"
  /\ NotCollected \/ Collected
  /\ UNCHANGED <<module, limit, nodes, todo, fault, attempts, document>>

\* resolve_imports, then build_import_alias_map.
ResolveImports ==
  /\ status = "running"
  /\ phase = "imports"
  /\ LET imports == ImportsOf(Working)
         idOf(j) == ImportIdOf(tables, Working, imports[j])
     IN \/ \E j \in DOMAIN imports :
             /\ Unmet(idOf(j))
             /\ \A i \in 1..(j - 1) : ~Unmet(idOf(i))
             /\ FailsFor("import", idOf(j), imports[j])
             /\ UNCHANGED todo
        \/ /\ \A j \in DOMAIN imports : ~Unmet(idOf(j))
           /\ todo' = BindingsBy(tables, Working)
           /\ phase' = "bind"
           /\ UNCHANGED <<fault, status>>
  /\ UNCHANGED <<module, limit, nodes, tables, resolved, aliasVars, reported, attempts, document>>

\* bind_namespace_alias: two names match when one ends with the other.
BindNamespace(alias, target) ==
  LET agrees == alias \in DOMAIN spaces =>
                  IsSuffix(spaces[alias], target) \/ IsSuffix(target, spaces[alias])
      others == DOMAIN spaces \ {alias}
  IN IF alias \in ambiguousSpaces THEN UNCHANGED <<spaces, ambiguousSpaces>>
     ELSE /\ spaces' = [x \in IF agrees THEN others \cup {alias} ELSE others |-> IF x = alias THEN target ELSE spaces[x]]
          /\ ambiguousSpaces' = IF agrees THEN ambiguousSpaces ELSE ambiguousSpaces \cup {alias}

BindAlias ==
  /\ status = "running"
  /\ phase = "bind"
  /\ todo # <<>>
  /\ LET b == Head(todo)
     IN \/ /\ b.space = "value"
           /\ Aliases!Bind(b.alias, b.target)
           /\ UNCHANGED <<spaces, ambiguousSpaces>>
        \/ /\ b.space = "namespace"
           /\ BindNamespace(b.alias, b.target)
           /\ UNCHANGED <<made, bound, ambiguous>>
  /\ todo' = Tail(todo)
  /\ UNCHANGED <<module, limit, nodes, phase, tables, resolved, fault, reported, attempts, status, document>>

FinishImports ==
  /\ status = "running"
  /\ phase = "bind"
  /\ todo = <<>>
  /\ todo' = ResolutionOrder(Working)
  /\ tables' = [tables EXCEPT !.values = bound, !.spaces = spaces]
  /\ phase' = "resolve"
  /\ UNCHANGED <<module, limit, nodes, resolved, aliasVars, fault, reported, attempts, status, document>>

PlacedAt(k, demands) == [j \in DOMAIN demands |-> [what |-> demands[j].what, id |-> demands[j].id, at |-> k]]

\* resolve_definition or resolve_usage of the next declaration.
ResolveDeclaration ==
  /\ status = "running"
  /\ phase = "resolve"
  /\ todo # <<>>
  /\ LET asked == AskedBy(tables, Working, Head(todo))
     IN /\ resolved' = resolved \o PlacedAt(Head(todo), asked)
        /\ \/ \E j \in DOMAIN asked :
                /\ Unmet(asked[j].id)
                /\ \A i \in 1..(j - 1) : ~Unmet(asked[i].id)
                /\ FailsFor(asked[j].what, asked[j].id, Head(todo))
           \/ /\ \A j \in DOMAIN asked : ~Unmet(asked[j].id)
              /\ UNCHANGED <<phase, fault, status>>
  /\ todo' = Tail(todo)
  /\ UNCHANGED <<module, limit, nodes, tables, aliasVars, reported, attempts, document>>

\* validate_metadata_usages
ValidateMetadata ==
  /\ status = "running"
  /\ phase = "resolve"
  /\ todo = <<>>
  /\ LET faulty == MetadataFaults(Working, resolved)
     IN \/ /\ faulty # <<>>
           /\ FailWith(Fault("metadata", Head(faulty)))
        \/ /\ faulty = <<>>
           /\ phase' = "emit"
           /\ UNCHANGED fault
  /\ UNCHANGED <<module, limit, nodes, tables, todo, resolved, aliasVars, reported, attempts, status, document>>

\* transpile_module; a repeated id is a fault without a place.
Emit ==
  /\ status = "running"
  /\ phase = "emit"
  /\ document' = Elements(Working)
  /\ \/ /\ UniqueIds(document')
        /\ status' = IF reported = {} THEN "ok" ELSE "partial"
        /\ phase' = "over"
        /\ UNCHANGED fault
     \/ /\ ~UniqueIds(document')
        /\ FailWith(Fault("placeless", 0))
        /\ UNCHANGED status
  /\ UNCHANGED <<module, limit, nodes, tables, todo, resolved, aliasVars, reported, attempts>>

---------------------------------------------------------------------------
(* Recovery *)

\* A declaration with those it stands in, and the module.
Around(ns) ==
  LET around[k \in 0..Len(ns)] == {k} \cup IF k = 0 THEN {} ELSE around[ns[k].parent]
  IN around

\* A declaration and what stands in it.
Inside(k) == {j \in Kept : k \in Around(nodes)[j]}

Gone(ns, S) == [j \in DOMAIN ns |-> IF j \in S THEN [ns[j] EXCEPT !.kind = "gone"] ELSE ns[j]]

WithoutType(ns, k) == [ns EXCEPT ![k].ty = <<>>]

\* module.package is the first package of the module.  When there is one, only
\* what stands in it is looked at, and it is all that stays in the module.
FirstPackage ==
  LET packages == {k \in DOMAIN nodes : nodes[k].parent = 0 /\ nodes[k].kind = "package"}
  IN IF packages = {} THEN 0 ELSE CHOOSE k \in packages : \A other \in packages : k <= other

Reach == IF FirstPackage = 0 THEN Inside(0) ELSE Inside(FirstPackage) \ {FirstPackage}
Left  == IF FirstPackage = 0 THEN {} ELSE Inside(0) \ Inside(FirstPackage)

\* Seeded fault: the declaration goes, whatever is wrong with it.
NeverStripped == Gone(Gone(nodes, Inside(fault.at)), Left)

\* strip_type_for_span or prune_declaration_for_span.
Recovered ==
  Gone(IF fault.what = "type" THEN WithoutType(nodes, fault.at) ELSE Gone(nodes, Inside(fault.at)), Left)

\* Seeded fault: the diagnostics of the attempts before are lost.
LastDiagnosis == {fault}

Diagnosis == reported \cup {fault}

Exhausted(n) == n = limit

\* The declaration the place of the fault is in is the innermost one there: the
\* one that was being resolved.  After the last attempt there is no other.
Recover ==
  /\ status = "running"
  /\ phase = "recover"
  /\ reported' = Diagnosis
  /\ \/ /\ fault.at \in Reach
        /\ nodes' = Recovered
        /\ attempts' = attempts + 1
        /\ IF Exhausted(attempts') THEN status' = "failed" /\ phase' = "over"
                                 ELSE phase' = "tables" /\ UNCHANGED status
     \/ /\ fault.at \notin Reach
        /\ status' = "failed"
        /\ phase' = "over"
        /\ UNCHANGED <<nodes, attempts>>
  /\ fault' = NoFault
  /\ document' = <<>>
  /\ UNCHANGED <<module, limit, tables, todo, resolved, aliasVars>>

Next ==
  \/ BuildTables
  \/ ResolveImports
  \/ BindAlias
  \/ FinishImports
  \/ ResolveDeclaration
  \/ ValidateMetadata
  \/ Emit
  \/ Recover

Spec == Init /\ [][Next]_vars

---------------------------------------------------------------------------
(* Properties *)

TypeOK ==
  /\ module \in Modules
  /\ limit \in Limits
  /\ Len(nodes) = Len(module.nodes)
  /\ phase \in {"tables", "imports", "bind", "resolve", "emit", "recover", "over"}
  /\ attempts \in 0..limit
  /\ status \in {"running", "ok", "partial", "failed", "overflow"}
  /\ (phase = "over") <=> (status # "running")

\* What AskedBy is to be: a list, in which a type is asked for only where a
\* usage names one (resolve.rs, resolve_usage).
LegalDemands ==
  phase = "resolve" /\ todo # <<>> =>
    LET asked == AskedBy(tables, Working, Head(todo))
    IN /\ asked \in Seq(Range(asked))
       /\ \A j \in DOMAIN asked :
            asked[j].what = "type" => nodes[Head(todo)].kind = "usage" /\ nodes[Head(todo)].ty # <<>>
===========================================================================
