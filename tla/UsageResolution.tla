-------------------------- MODULE UsageResolution --------------------------
(***************************************************************************)
(* What a declaration of a module asks the resolver for (resolve.rs):      *)
(* resolve_definition, resolve_usage and the expression a usage is bound   *)
(* to.  What is asked for is a list of demands in the order of the code;   *)
(* the first that is not met ends the resolution of the whole module.      *)
(*                                                                         *)
(* A context has, beside the fields of FeatureResolution, "preserve" (the  *)
(* KerML policy: what is not resolved stays as it was written) and "fuel". *)
(***************************************************************************)
EXTENDS FeatureResolution

\* A demand of the declaration "at": what was asked for and the id it got.
Demand(what, id) == [what |-> what, id |-> id]

\* unresolved_or_error: the text of a name reads like an id of the library.
OrText(c, id, n) == IF id = None /\ c.preserve THEN LibraryId(n) ELSE id

\* The second demand where the first is not met.
a || b == IF a.id = None THEN b ELSE a

Each(names, Resolve(_)) == [j \in DOMAIN names |-> Resolve(names[j])]

Demands(what, ids) == [j \in DOMAIN ids |-> Demand(what, ids[j])]

---------------------------------------------------------------------------
(* Expressions *)

\* resolve_feature_reference_from_type_id: a feature by its name in a type.
OfType(c, type, segment) ==
  IF type.kind # "type" THEN LibraryFeature(c, type, <<segment>>)
  ELSE OwnFeature(c, type.name, <<segment>>)
         ?? AsFeature(Search("definition", c, type.name, <<segment>>, Fresh(c.fuel))).id

\* resolve_feature_reference_from_feature_type: in the feature, in its type, or
\* in the feature its type names.
FeatureOfUsage(c, path, n) == OwnFeature(c, path, n) ?? Search("usage", c, path, n, Fresh(c.fuel)).id

InFeature(c, id, n) == IF id.kind = "feature" THEN FeatureOfUsage(c, id.name, n) ELSE IF id = Endless THEN id ELSE None

OfTyped(c, u, type, segment) ==
  CASE type = Endless      -> Endless
    [] type # None         -> OfType(c, type, segment)
    [] type = None /\ u.decl.ty = <<>> -> None
    [] OTHER               -> InFeature(c, FeatureReference(c, u, u.decl.ty, c.fuel), <<segment>>)

OfFeature(c, id, segment) ==
  IF id.kind # "feature" \/ id.name \notin DOMAIN c.usages THEN None
  ELSE OwnFeature(c, id.name, <<segment>>)
         ?? OfTyped(c, c.usages[id.name], TypeOfFeature(c, id, c.fuel), segment)

\* The id a chain of segments ends at, from the id it starts with.
Along(c, id, segments, Step(_, _, _)) ==
  FoldLeft(LAMBDA at, segment : IF at \in {None, Endless} THEN at ELSE Step(c, at, segment), id, segments)

\* resolve_qualified_expression_name_as_path
NameAsPath(c, u, n) ==
  IF Len(n) = 1 THEN None
  ELSE Along(c, FeatureReference(c, u, <<n[1]>>, c.fuel) ?? ResolveType(c, <<n[1]>>, c.fuel), Tail(n), OfFeature)

\* resolve_expression_name
NameInExpression(c, u, n) ==
  FeatureReference(c, u, n, c.fuel)
    ?? ResolveQualified(c, n, c.fuel)
    ?? NameAsPath(c, u, n)
    ?? (IF Len(n) > 1 THEN FeatureReference(c, u, <<Last(n)>>, c.fuel) ELSE None)
    ?? ResolveType(c, n, c.fuel)

\* resolve_expression_path: rooted in self, in a name or in a cast; after a
\* cast only the first segment is looked for in the type.
OfCast(c, type, segment) == IF type \in {None, Endless} THEN type ELSE OfType(c, type, segment)

Cast(c, u, n) == ResolveType(c, n, c.fuel) ?? TypeOfFeature(c, FeatureReference(c, u, n, c.fuel), c.fuel)

PathStart(c, u, expr) ==
  CASE expr.from = "name" -> FeatureReference(c, u, expr.root, c.fuel)
    [] expr.from = "self" -> FeatureReference(c, u, <<Head(expr.segments)>>, c.fuel)
    [] expr.from = "cast" -> OfCast(c, Cast(c, u, expr.root), Head(expr.segments))

PathInExpression(c, u, expr) ==
  Along(c, PathStart(c, u, expr), IF expr.from = "name" THEN expr.segments ELSE Tail(expr.segments), OfFeature)

\* resolve_expression: the demands of an expression from left to right.  A path
\* that does not start in self, a name or a cast is refused without a place.
RECURSIVE ExpressionDemands(_, _, _)
ExpressionDemands(c, u, expr) ==
  CASE expr.op = "literal"  -> <<>>
    [] expr.op = "name"     -> <<Demand("expression", NameInExpression(c, u, expr.root))>>
    [] expr.op = "path"     -> <<IF expr.from = "other" THEN Demand("placeless", None)
                                 ELSE Demand("expression", PathInExpression(c, u, expr))>>
    [] expr.op = "compound" ->
         FlattenSeq([j \in DOMAIN expr.parts |-> ExpressionDemands(c, u, expr.parts[j])])

---------------------------------------------------------------------------
(* Usages *)

\* should_use_implicit_reference_redefinition_target: "ref :>> x;"
ImplicitRedefinition(u) ==
  /\ u.decl.construct = "ReferenceUsage"
  /\ u.decl.implicit
  /\ u.decl.ty = <<>>
  /\ u.decl.target = <<>>
  /\ Len(u.decl.redefines) = 1

\* The name of a satisfy or verify usage is what it refers to.
EffectiveTarget(u) ==
  IF ImplicitRedefinition(u) THEN u.decl.redefines[1]
  ELSE IF u.decl.target = <<>> /\ u.decl.construct \in {"SatisfyUsage", "VerifyUsage"} THEN <<u.decl.name>>
  ELSE u.decl.target

EffectiveRedefines(u) == IF ImplicitRedefinition(u) THEN <<>> ELSE u.decl.redefines

TypeInScope(c, u, n) == ResolveInScope(c, n, u.owner, c.fuel)

\* The id of a usage as a comment names it: comments carry their position.
CommentedId(c, path) ==
  LET d == c.usages[path].decl
  IN IF d.construct = "CommentUsage" THEN [Id("comment", path) EXCEPT !.at = d.index] ELSE FeatureId(path)

\* resolve_comment_annotation_target: from the owner outwards, or an owner.
CommentTarget(c, u, n) ==
  LET scopes == [k \in 1..(Len(u.owner) + 1) |-> SubSeq(u.owner, 1, Len(u.owner) + 1 - k) \o n]
      candidates == IF Len(n) > 1 THEN <<n>> ELSE scopes
      here == SelectSeq(candidates, LAMBDA p : p \in DOMAIN c.usages \/ p \in DOMAIN c.defs)
  IN IF here # <<>>
       THEN IF here[1] \in DOMAIN c.usages THEN CommentedId(c, here[1]) ELSE c.defs[here[1]]
       ELSE IF IsPrefix(n, u.owner) THEN Id("pkg", n) ELSE None

\* The policies of usage_resolution_policies.
TargetOf(c, u) ==
  LET n == EffectiveTarget(u) IN
  (IF u.decl.construct = "CommentUsage" THEN CommentTarget(c, u, n) ELSE None)
    ?? (IF u.decl.construct \in {"CommentUsage", "SatisfyUsage", "VerifyUsage"} THEN TypeInScope(c, u, n) ELSE None)
    ?? ReferenceTarget(c, u, n, c.fuel)

\* A filter names a predicate that need not match anything yet.
TargetDemands(c, u) ==
  LET optional == u.decl.construct = "ElementFilterMember"
  IN IF EffectiveTarget(u) = <<>> THEN <<>>
     ELSE SelectSeq(<<Demand("target", TargetOf(c, u))>>, LAMBDA d : ~(optional /\ d.id = None))

\* resolve_allocation_endpoint
AllocationDemands(c, u) ==
  LET type(n) == TypeInScope(c, u, n)
      feature(n) == ReferenceTarget(c, u, n, c.fuel)
  IN Demands("allocation", Each(u.decl.allocationSource, LAMBDA n : feature(n) ?? type(n)))
       \o Demands("allocation", Each(u.decl.allocationTarget, LAMBDA n : type(n) ?? feature(n)))

\* A type that names a feature is a feature that is specialized.
TypeDemands(c, u) ==
  IF u.decl.ty = <<>> THEN <<>>
  ELSE <<Demand("type", TypeInScope(c, u, u.decl.ty))
           || Demand("feature", FeatureReference(c, u, u.decl.ty, c.fuel))
           || Demand("type", OrText(c, None, u.decl.ty))>>

\* Reported as an unresolved type as well; strip_type_in_declaration does not
\* look at these types, so that the declaration goes with them.
AdditionalDemands(c, u) ==
  Demands("additional", Each(u.decl.additional, LAMBDA n : OrText(c, TypeInScope(c, u, n), n)))

\* A feature, the usage itself, or a type.
Specialize(c, u, n) ==
  Demand("feature", FeatureReference(c, u, n, c.fuel))
    || Demand("feature", IF n \in {<<u.decl.name>>, u.path} THEN FeatureId(u.path) ELSE None)
    || Demand("specializes", OrText(c, TypeInScope(c, u, n), n))

SpecializeDemands(c, u) == Each(u.decl.specializes, LAMBDA n : Specialize(c, u, n))

SubsetDemands(c, u) ==
  Demands("subset", Each(u.decl.subsets, LAMBDA n : OrText(c, FeatureReference(c, u, n, c.fuel), n)))

RedefineDemands(c, u) ==
  LET target(n) == Search("redefinition", c, u, n, Fresh(c.fuel)).id ?? UniqueModifier(c, n, u.path)
  IN Demands("redefine", Each(EffectiveRedefines(u), LAMBDA n : OrText(c, target(n), n)))

\* resolve_connection_end_specialization: the end of the connection's type that
\* has the name of this end.
InConnection(c, u) ==
  /\ u.decl.construct = "ReferenceUsage"
  /\ u.owner \in DOMAIN c.usages
  /\ c.usages[u.owner].decl.construct = "ConnectionUsage"
  /\ c.usages[u.owner].decl.ty # <<>>

EndOf(c, type, name) ==
  CASE type = Endless -> Endless
    [] type.kind = "type" /\ type.name \in DOMAIN c.definitions /\ Append(type.name, name) \in DOMAIN c.usages ->
         FeatureId(Append(type.name, name))
    [] OTHER -> None

ConnectionEnd(c, u) ==
  IF InConnection(c, u) THEN EndOf(c, ResolveType(c, c.usages[u.owner].decl.ty, c.fuel), u.decl.name) ELSE None

\* inferred_usage_type_ref: the first local feature that knows its type.
FeatureType(c, u, id) ==
  IF id.kind # "feature" \/ id.name \notin DOMAIN c.usages THEN None
  ELSE LET target == c.usages[id.name] IN
       IF target.decl.ty # <<>> THEN ResolveType(c, target.decl.ty, c.fuel)
       ELSE Search("type", c, target, <<>>, [Fresh(c.fuel) EXCEPT !.usages = {u.path}]).id

InferredType(c, u, features) == FoldLeft(LAMBDA found, id : found ?? FeatureType(c, u, id), None, features)

IdsOf(demands, kinds) ==
  LET chosen == SelectSeq(demands, LAMBDA d : d.what \in kinds /\ d.id # None)
  IN [j \in DOMAIN chosen |-> chosen[j].id]

\* What a usage is found to be beyond what it says: never a failure.
Known(what, id) == IF id = None THEN <<>> ELSE <<Demand(what, id)>>

TypeOfTarget(c, u, targets) ==
  IF u.decl.construct = "ReferenceUsage" /\ targets # <<>> THEN TypeOfFeature(c, targets[1], c.fuel) ELSE None

WithType(c, u, demands) ==
  IF IdsOf(demands, {"type"}) # <<>> THEN demands
  ELSE demands \o Known("inferred",
                        TypeOfTarget(c, u, IdsOf(demands, {"target"}))
                          ?? InferredType(c, u, IdsOf(demands, {"redefine"}) \o IdsOf(demands, {"subset"})
                                                  \o IdsOf(demands, {"feature"}) \o IdsOf(demands, {"end"}))
                          ?? NamedType(c, u))

WithInferences(c, u, stated) ==
  IF \E d \in Range(stated) : d.id = None THEN stated ELSE WithType(c, u, stated \o Known("end", ConnectionEnd(c, u)))

\* resolve_usage, without the members.
UsageDemands(c, u) ==
  WithInferences(c, u, ExpressionDemands(c, u, u.decl.value)
                         \o TypeDemands(c, u)
                         \o TargetDemands(c, u)
                         \o AllocationDemands(c, u)
                         \o AdditionalDemands(c, u)
                         \o SpecializeDemands(c, u)
                         \o SubsetDemands(c, u)
                         \o RedefineDemands(c, u))

\* resolve_definition: the default of a construct was written nowhere.
DefinitionDemands(c, path, specializations, written) ==
  Demands(IF written THEN "specialization" ELSE "placeless",
          Each(specializations,
               LAMBDA n : OrText(c, ResolveInScope(c, n, path, c.fuel), n)))
===========================================================================
