-------------------------- MODULE MetadataValidation --------------------------
(***************************************************************************)
(* Checking the metadata of a resolved module (parser.rs, validate_        *)
(* metadata_usages): the values given to the attributes of a metadata      *)
(* definition, found by its simple name, are of the enumeration they have. *)
(* "resolved" holds the demands of the declarations and what they came to. *)
(***************************************************************************)
EXTENDS ModuleCollection

\* The type a usage was resolved to.
TypeOf(resolved, k) ==
  LET types == SelectSeq(resolved, LAMBDA d : d.at = k /\ d.what \in {"type", "inferred"})
  IN IF types = <<>> THEN None ELSE types[1].id

DefinitionsNamed(nodes, name) == Among(DefinitionOrder(nodes), {k \in DOMAIN nodes : nodes[k].name = name})

MetadataNamed(nodes, name) ==
  Among(DefinitionsNamed(nodes, name), {k \in DOMAIN nodes : nodes[k].construct = "MetadataDefinition"})

HasLiteral(nodes, k, value) ==
  \E l \in Range(UsagesIn(nodes, k)) : nodes[l].construct = "EnumerationUsage" /\ nodes[l].name = value

\* An attribute of this type takes the value: only an enumeration is checked.
Takes(nodes, type, value) ==
  type.kind = "type" =>
    LET enumeration == DefinitionsNamed(nodes, Last(type.name))
    IN enumeration # <<>> /\ nodes[enumeration[1]].construct = "EnumerationDefinition"
         => HasLiteral(nodes, enumeration[1], value)

Attributes(nodes, k, name) ==
  Among(UsagesIn(nodes, k), {a \in DOMAIN nodes : nodes[a].construct = "AttributeUsage" /\ nodes[a].name = name})

TakesProperty(nodes, resolved, attributes, property) ==
  attributes # <<>> /\ Takes(nodes, TypeOf(resolved, Last(attributes)), property.value)

\* The metadata definition of this name is the one its usage k is checked with.
MetadataFault(nodes, resolved, k, named) ==
  /\ named # <<>>
  /\ \E property \in nodes[k].properties :
       ~TakesProperty(nodes, resolved, Attributes(nodes, named[1], property.name), property)

\* all_resolved_usages: those outside definitions come first.
ResolvedUsages(nodes) == Orders(nodes, FreeUsages(nodes)) \o UsagesInDefinitions(nodes)

\* validate_metadata_usages: the usages at fault, in the order they are found.
MetadataFaults(module, resolved) ==
  LET nodes == module.nodes
  IN Among(ResolvedUsages(nodes),
           {k \in DOMAIN nodes : /\ nodes[k].construct = "MetadataUsage"
                                 /\ MetadataFault(nodes, resolved, k, MetadataNamed(nodes, nodes[k].name))})
=============================================================================
