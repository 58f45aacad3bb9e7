--------------------------- MODULE CompiledModule ---------------------------
(***************************************************************************)
(* The state of a compilation of one source file, and what is promised of  *)
(* it whatever the names in it are resolved to.                            *)
(***************************************************************************)
EXTENDS MetadataValidation, ElementEmission

CONSTANTS
  Modules,      \* the modules compiled, as they were parsed: [nodes, ...]
  Limits        \* what partial_compile_attempt_limit may return

\* What the parser makes sure of, whatever else a module contains: it is a
\* forest of declarations, each behind the one it stands in (0: the module).
ASSUME ModulesAssumption ==
  \A m \in Modules :
    /\ "nodes" \in DOMAIN m
    /\ m.nodes \in Seq(Range(m.nodes))
    /\ \A k \in DOMAIN m.nodes :
         /\ {"kind", "parent", "ty", "name", "construct", "line", "index"} \subseteq DOMAIN m.nodes[k]
         /\ m.nodes[k].kind # "gone"
         /\ m.nodes[k].parent \in 0..(k - 1)

ASSUME LimitsAssumption == Limits \subseteq Nat \ {0}

VARIABLES
  module,       \* the module as it was parsed
  limit,        \* max_attempts
  nodes,        \* the declarations of working_module; "gone": taken out
  phase,        \* the stage of the attempt
  tables,       \* the ResolverContext, as from_modules builds it
  todo,         \* the bindings, then the declarations still to be resolved
  resolved,     \* what the declarations resolved so far asked for, and got
  made, bound, ambiguous,   \* see ImportAliases
  spaces, ambiguousSpaces,  \* the same for namespaces
  fault,        \* what the attempt failed with, and where
  reported,     \* the diagnostics
  attempts,     \* the attempts that were recovered from
  status,       \* "running", "ok", "partial", "failed" or "overflow"
  document      \* the elements emitted

Ids == [kind : STRING, name : Seq(STRING), at : Nat, copy : Nat]

Aliases == INSTANCE ImportAliases WITH Names <- Seq(STRING), Targets <- Ids

Kept == {k \in DOMAIN nodes : nodes[k].kind # "gone"}

Compiled == status \in {"ok", "partial"}

---------------------------------------------------------------------------
(* Properties *)

\* ImportAliases: what an imported name stands for is not a matter of order.
AliasesAreUnanimous == Aliases!ValueAliasesAreUnanimous

Recovery == INSTANCE CompileRecovery WITH
  declared <- DOMAIN module.nodes,
  parent   <- [k \in DOMAIN module.nodes |-> module.nodes[k].parent],
  kept     <- Kept,
  typed    <- {k \in Kept : nodes[k].kind = "usage" /\ nodes[k].ty # <<>>},
  reported <- {f.at : f \in reported}

\* A module without a package, or all in one.
OnePackageOrNone ==
  LET tops == {k \in DOMAIN module.nodes : module.nodes[k].parent = 0}
  IN \/ \A k \in tops : module.nodes[k].kind # "package"
     \/ tops = {1} /\ module.nodes[1].kind = "package"

\* What CompileRecovery promises, kept for a module that is one package or has
\* none: nothing is left out but what a report is about.
CompilesAsPromised == Recovery!Spec

\* A member that an element lists was emitted, and names it as its owner
\* (emit.rs, build_package_member_ids and render_owned_usage_tree_ids).
MembersNameTheirOwner ==
  \A e \in Range(document) : \A m \in Range(e.members) :
    \E f \in Range(document) : f.id = m /\ f.owner = e.id

\* Where nothing but types of usages is unresolved, every declaration is kept:
\* "Keep an element whose only problem is an unresolved type by stripping the
\* type" (parser.rs:572).
KeptDespiteUnresolvedTypes ==
  Compiled /\ (\A f \in reported : f.what \in {"type", "additional"}) => Kept = DOMAIN nodes

\* What is true of it: in a module without a package, or all in one, a type that
\* is the first or only one of its usage costs no declaration (parser.rs,
\* strip_type_for_span and strip_type_in_declaration).
FirstTypesCostNothing ==
  OnePackageOrNone /\ Compiled /\ (\A f \in reported : f.what = "type") => Kept = DOMAIN nodes
=============================================================================
