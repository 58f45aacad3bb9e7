-------------------------- MODULE MCPartialCompile --------------------------
(* Small source files, and some faults in each of them. *)
EXTENDS PartialCompile

\* A declaration in which nothing is said but its name.
Bare(kind, construct, name, parent) ==
  [kind |-> kind, construct |-> construct, name |-> name, parent |-> parent,
   specializes |-> <<>>, companion |-> FALSE, target |-> <<>>, path |-> <<>>, wildcard |-> FALSE,
   expose |-> FALSE, ty |-> <<>>, additional |-> <<>>, subsets |-> <<>>, redefines |-> <<>>,
   modifiers |-> {}, implicit |-> FALSE, allocationSource |-> <<>>, allocationTarget |-> <<>>,
   properties |-> {}, value |-> [op |-> "literal"]]

Package(name, parent) == Bare("package", "Package", name, parent)
PartDef(name, parent) == Bare("definition", "PartDefinition", name, parent)
Part(name, parent)    == Bare("usage", "PartUsage", name, parent)
Attribute(name, parent) == Bare("usage", "AttributeUsage", name, parent)
Import(parent)        == Bare("import", "Import", "import", parent)

\* The declarations of a file, each with its index and its line.
File(declarations) ==
  [nodes |-> [k \in DOMAIN declarations |-> declarations[k] @@ [index |-> k, line |-> k]],
   base |-> <<>>, conjugate |-> [name \in {"A", "B", "P", "Q", "D", "E", "M", "X"} |-> "~" \o name]]

No == <<>>

\* package P { part def A; part x : t1 { part y : t2; } part def B :> t4 { part z :> t3; } }
Scopes3 ==
  {File(<<Package("P", 0), PartDef("A", 1), [Part("x", 1) EXCEPT !.ty = t1],
          [Part("y", 3) EXCEPT !.ty = t2], [PartDef("B", 1) EXCEPT !.specializes = t4],
          [Part("z", 5) EXCEPT !.subsets = t3]>>) :
     t1 \in {No, <<"A">>, <<"C">>}, t2 \in {No, <<"P", "B">>, <<"A", "B">>},
     t3 \in {No, <<<<"y">>>>, <<<<"z">>>>, <<<<"q">>>>},
     t4 \in {No, <<<<"A">>>>, <<<<"B">>>>, <<<<"C">>>>}}

\* package P { part def A; part def B { part def A; part x : t1 { part a :> t2; } } part y : t3 { part :>> x; } }
Nested ==
  {File(<<Package("P", 0), PartDef("A", 1), PartDef("B", 1), PartDef("A", 3),
          [Part("x", 3) EXCEPT !.ty = t1], [Part("a", 5) EXCEPT !.subsets = t2],
          [Part("y", 1) EXCEPT !.ty = t3], [Part("x", 7) EXCEPT !.redefines = <<<<"x">>>>, !.name = "r"]>>) :
     t1 \in {<<"A">>, <<"P", "A">>}, t2 \in {No, <<<<"y">>>>, <<<<"x", "a">>>>, <<<<"y", "x">>>>},
     t3 \in {No, <<"A">>, <<"B">>, <<"B", "A">>}}

\* package P { package Q { part def A; part f; } package R { part def A; } import i1; import i2; part x : t; }
Imports ==
  {File(<<Package("P", 0), Package("Q", 1), PartDef("A", 2), Part("f", 2), Package("R", 1), PartDef("A", 5),
          [Import(1) EXCEPT !.path = i1.path, !.wildcard = i1.all],
          [Import(1) EXCEPT !.path = i2.path, !.wildcard = i2.all, !.expose = i2.expose],
          [Part("x", 1) EXCEPT !.ty = t]>>) :
     i1 \in {[path |-> <<"Q">>, all |-> TRUE], [path |-> <<"Q", "A">>, all |-> FALSE],
             [path |-> <<"Parts">>, all |-> TRUE], [path |-> <<"Q", "f">>, all |-> FALSE]},
     i2 \in {[path |-> <<"R">>, all |-> TRUE, expose |-> FALSE], [path |-> <<"R", "A">>, all |-> FALSE, expose |-> FALSE],
             [path |-> <<"P", "R">>, all |-> TRUE, expose |-> FALSE], [path |-> <<"N">>, all |-> FALSE, expose |-> FALSE],
             [path |-> <<"N">>, all |-> FALSE, expose |-> TRUE]},
     t \in {<<"A">>, <<"Q", "A">>, <<"Part">>, <<"Parts", "Part">>, <<"f">>}}

\* package P { package n { part def A; } import n::*; alias X for t1; alias Y for t2; part x : t3; }
Aliased ==
  {File(<<Package("P", 0), Package(n, 1), PartDef("A", 2), [Import(1) EXCEPT !.path = <<n>>, !.wildcard = TRUE],
          [Bare("alias", "Alias", "X", 1) EXCEPT !.target = t1], [Bare("alias", "Alias", "Y", 1) EXCEPT !.target = t2],
          [Part("x", 1) EXCEPT !.ty = t3]>>) :
     n \in {"P", "Q"}, t1 \in {<<"Y">>, <<"Q", "A">>}, t2 \in {<<"X">>, <<"P", "A">>, <<"Q">>},
     t3 \in {<<"X">>, <<"Y", "A">>, <<"P", "B">>}}

\* package P { enum def E { enum e; } metadata def M { attribute a : E; } part x { metadata M { n = v; } } }
Annotated ==
  {File(<<Package("P", 0), Bare("definition", "EnumerationDefinition", "E", 1), Bare("usage", "EnumerationUsage", "e", 2),
          Bare("definition", "MetadataDefinition", "M", 1), [Bare("usage", "AttributeUsage", "a", 4) EXCEPT !.ty = t],
          Part("x", 1), [Bare("usage", "MetadataUsage", m, 6) EXCEPT !.properties = {[name |-> n, value |-> v]}],
          Bare("usage", "MetadataUsage", "M", 1)>>) :
     t \in {No, <<"E">>}, m \in {"M", "N"}, n \in {"a", "b"}, v \in {"e", "f"}}

\* package P { part def D { part e { attribute v; } } part d : D; part x { attribute w = expr; } }
Expressions ==
  {File(<<Package("P", 0), PartDef("D", 1), Part("e", 2), Attribute("v", 3), [Part("d", 1) EXCEPT !.ty = <<"D">>],
          Part("x", 1), [Attribute("w", 6) EXCEPT !.value = expr]>>) :
     expr \in {[op |-> "name", root |-> n] : n \in {<<"d">>, <<"d", "e">>, <<"D", "e">>, <<"D">>, <<"q">>, <<"d", "q">>}}
              \cup {[op |-> "path", from |-> f, root |-> r, segments |-> s] :
                      f \in {"self", "name", "cast", "other"}, r \in {<<"d">>, <<"D">>},
                      s \in {<<"e">>, <<"e", "v">>, <<"d", "e">>, <<"q">>}}
              \cup {[op |-> "compound", parts |-> <<[op |-> "literal"], [op |-> "name", root |-> <<"q">>]>>]}}

\* package P { part def D { part e { part f; } } part x :> t1 { part y :>> t2; ref z = t3; } connection c : t4 { ref e; } }
Features ==
  {File(<<Package("P", 0), PartDef("D", 1), Part("e", 2), Part("f", 3),
          [Part("x", 1) EXCEPT !.ty = t1.ty, !.subsets = t1.subsets], [Part("y", 5) EXCEPT !.redefines = <<t2>>],
          [Bare("usage", "ReferenceUsage", "z", 5) EXCEPT !.target = t3] @@ [line |-> 7],
          [Bare("usage", "ReferenceUsage", "z", 5) EXCEPT !.implicit = TRUE, !.redefines = <<t2>>] @@ [line |-> 7],
          [Bare("usage", "ConnectionUsage", "c", 1) EXCEPT !.ty = t4], Bare("usage", "ReferenceUsage", "e", 9)>>) :
     t1 \in {[ty |-> <<"D">>, subsets |-> No], [ty |-> No, subsets |-> <<<<"e">>>>], [ty |-> No, subsets |-> <<<<"y">>>>]},
     t2 \in {<<"e">>, <<"e", "f">>, <<"q">>}, t3 \in {<<"x">>, <<"y">>, <<"q">>}, t4 \in {<<"D">>, <<"q">>}}

\* package P { port def A; port p : t1; allocation a allocate s to t2; satisfy n; comment about n; action act : ...; }
Others ==
  {File(<<Package("P", 0), [Bare("definition", "PortDefinition", "A", 1) EXCEPT !.companion = TRUE],
          [Bare("usage", "PortUsage", "p", 1) EXCEPT !.ty = t1],
          [Bare("usage", "AllocationUsage", "l", 1) EXCEPT !.allocationSource = <<s>>, !.allocationTarget = <<t2>>],
          Bare("usage", "SatisfyUsage", n, 1), [Bare("usage", "CommentUsage", "k", 1) EXCEPT !.target = <<n>>],
          Bare("usage", "PerformActionUsage", "a", 1), [Bare("usage", "ElementFilterMember", "g", 1) EXCEPT !.target = <<n>>],
          [Part("v", 1) EXCEPT !.modifiers = {"m"}, !.specializes = <<<<sp>>>>, !.additional = <<<<n>>>>]>>) :
     t1 \in {<<"A">>, <<"~A">>, <<"P", "~A">>, <<"~B">>}, s \in {<<"p">>, <<"A">>}, t2 \in {<<"A">>, <<"p">>},
     n \in {"A", "p", "P"}, sp \in {"p", "m", "v", "A"}}

\* part def A; part x : t1 { part y : t2; }, with or without a package around a second x
Loose ==
  {File(<<PartDef("A", 0), [Part("x", 0) EXCEPT !.ty = t1], [Part("y", 2) EXCEPT !.subsets = t2],
          [Part(n, 0) EXCEPT !.ty = t3]>>) :
     t1 \in {No, <<"A">>, <<"Part">>}, t2 \in {No, <<<<"x">>>>, <<<<"q">>>>}, n \in {"x", "z"},
     t3 \in {No, <<"C">>}}

\* package P { part p :> t1 { part t :> t2; } part u :> t3; }
Looping ==
  {File(<<Package("P", 0), [Part("p", 1) EXCEPT !.subsets = <<t1>>], [Part("t", 2) EXCEPT !.subsets = t2],
          [Part("u", 1) EXCEPT !.subsets = t3]>>) :
     t1 \in {<<"t">>, <<"u">>, <<"u", "t">>}, t2 \in {No, <<<<"p">>>>, <<<<"u">>>>},
     t3 \in {No, <<<<"p">>>>, <<<<"t">>>>, <<<<"p", "t">>>>}}

\* package P { part def D :> Part { part x :> t1; } part y : D { part z :>> t2; } }
Inheriting ==
  {File(<<Package("P", 0), [PartDef("D", 1) EXCEPT !.specializes = <<<<"Part">>>>], [Part("x", 2) EXCEPT !.subsets = <<t1>>],
          [Part("y", 1) EXCEPT !.ty = <<"D">>], [Part("z", 4) EXCEPT !.redefines = <<t2>>]>>) :
     t1 \in {<<"owned">>, <<"y", "owned">>, <<"q">>}, t2 \in {<<"x">>, <<"owned">>, <<"y", "x">>, <<"parts">>}}

\* part def Parts; part def D :> t1; part y : t1 { part z :>> t2; }: the names of the library
Homonyms ==
  {File(<<PartDef("Parts", 0), [PartDef("D", 0) EXCEPT !.specializes = <<t1>>], [Part("y", 0) EXCEPT !.ty = t1],
          [Part("z", 3) EXCEPT !.redefines = <<t2>>], [Part("w", 2) EXCEPT !.redefines = <<t2>>]>>) :
     t1 \in {<<"Parts">>, <<"D">>}, t2 \in {<<"parts">>, <<"q">>}}

\* package P { port def X; conjugatedPort def Y; part x : t1; }
Uncollected ==
  {File(<<Package("P", 0), [Bare("definition", "PortDefinition", "X", 1) EXCEPT !.companion = TRUE],
          Bare("definition", "ConjugatedPortDefinition", "Y", 1), [Part("x", 1) EXCEPT !.ty = t1]>>) :
     t1 \in {<<"X">>, <<"C">>}}

\* One package in a module, or none.
MCModules == UNION {Scopes3, Nested, Imports, Aliased, Annotated, Expressions, Features, Others, Loose, Looping,
                    Inheriting, Homonyms, Uncollected}

\* package P { part x : t1; } part y : t2, t3; the second part beside the package or in it
MCTwoRoots ==
  {File(<<Package("P", 0), [Part("x", 1) EXCEPT !.ty = t1], [Part("y", owner) EXCEPT !.ty = t2, !.additional = t3]>>) :
     owner \in {0, 1}, t1 \in {No, <<"A">>}, t2 \in {<<"A">>, <<"Real">>}, t3 \in {No, <<<<"A">>>>}}

MCLibrary ==
  [ids |-> {<<"Parts", "Part">>, <<"Parts", "parts">>}, aliases |-> <<"Real">> :> LibraryId(<<"Parts", "Part">>),
   features |-> (<<"Parts", "Part">> :> ("owned" :> <<"Parts", "Part", "owned">>))
                  @@ (<<"Parts">> :> ("parts" :> <<"Parts", "parts">>)),
   semanticBase |-> NoBindings]
MCPlain == ("~A" :> "A") @@ ("~B" :> "B")
MCCapital == ("a" :> "A")
MCRank ==
  LET names == <<"A", "B", "C", "D", "E", "M", "N", "P", "Part", "Parts", "Q", "R", "X", "Y", "a", "c", "d", "e", "f", "g",
                 "k", "l", "m", "n", "owned", "p", "parts", "q", "r", "root", "s", "t", "u", "v", "w", "x", "y", "z",
                 "~A", "~B", "~D", "~E", "~M", "~P", "~Q", "~X">>
  IN [name \in Range(names) |-> CHOOSE j \in DOMAIN names : names[j] = name]
MCLimits == {2, 8}
===========================================================================
