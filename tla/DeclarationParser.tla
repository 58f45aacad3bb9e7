-------------------------- MODULE DeclarationParser --------------------------
(***************************************************************************)
(* The declarations of the SysML parser (crates/mercurio-sysml/src/        *)
(* parser.rs): which tokens each takes, where it ends, what its members    *)
(* are, and how an error in it is reported and recovered from, when p is   *)
(* told to.                                                                *)
(*                                                                         *)
(* A declaration keeps its kind, the keyword it is lowered by, the first   *)
(* and the last token of its span, and its members; a synthetic member is  *)
(* one the parser makes up. Names, types, values, docs and modifiers that  *)
(* nothing is decided by are left out. diags are the places of the         *)
(* diagnostics, in order; a failure has reported what its parts recovered  *)
(* from, but not itself.                                                   *)
(***************************************************************************)
EXTENDS TokenScan

Decl(kind, keyword, first, last, members) ==
    [kind |-> kind, keyword |-> keyword, span |-> <<first, last>>, members |-> members,
     synthetic |-> FALSE, chained |-> FALSE]

\* synthetic_reference_usage, succession_end_reference, transition_member_reference
Synthetic(keyword, span, members) ==
    [kind |-> "usage", keyword |-> keyword, span |-> span, members |-> members,
     synthetic |-> TRUE, chained |-> FALSE]

Reference(span) == Synthetic("reference", span, <<>>)

\* transition_happens_before_succession, standalone_happens_before_succession
Succession(span) == Synthetic("succession-as", span, <<Reference(span), Reference(span)>>)

\* accepter_action_with_members, transition_accepter_action
Accepter(span, members) == Synthetic("accept", span, members)

Parsed(r, decl, diags) == [ok |-> TRUE, at |-> r.at, err |-> 0, decl |-> decl, diags |-> diags]

Failed(r, diags) == [ok |-> FALSE, at |-> r.at, err |-> r.err, diags |-> diags]

\* A declaration without members that ends where r does.
Leaf(r, kind, keyword, first) ==
    IF r.ok THEN Parsed(r, Decl(kind, keyword, first, r.at - 1, <<>>), <<>>) ELSE Failed(r, <<>>)

Members(r, members, diags) ==
    [ok |-> r.ok, at |-> r.at, err |-> r.err, members |-> members, diags |-> diags]

RECURSIVE Body(_, _, _, _, _), Block(_, _), ParseDeclaration(_, _), ParsePackage(_, _),
          ParseDefinition(_, _, _, _), ParseUsage(_, _, _, _, _), ParseComment(_, _, _),
          ParseFeature(_, _, _), ParseFeatureOrImplicit(_, _, _), ParseImplicit(_, _, _),
          UsageOf(_, _, _, _), ConnectionEnds(_, _, _), TailFrom(_, _, _), UsageTail(_, _, _)

-----------------------------------------------------------------------------
\* The end of parse_declaration_block_contents_after_open: the first accept
\* transition after a state is given two members at the place of the state.
\* All of a text is on one line.
Anchored(members) ==
    LET Is(m, keyword) == m.kind = "usage" /\ m.keyword = keyword /\ ~m.synthetic
        previous[n \in 0..Len(members)] ==
            IF n = 0 THEN <<>>
            ELSE IF Is(members[n], "state") THEN members[n].span
            ELSE IF Is(members[n], "transition") /\ members[n].chained THEN <<>>
            ELSE previous[n - 1]
    IN  [n \in 1..Len(members) |->
            IF Is(members[n], "transition") /\ members[n].chained /\ previous[n - 1] # <<>>
            THEN [members[n] EXCEPT !.members =
                     @ \o <<Reference(previous[n - 1]), Reference(previous[n - 1])>>]
            ELSE members[n]]

\* Seeded fault: what a body has recovered from is not reported.
EnclosedSilently(p, body) ==
    IF body.ok THEN Members(Expect(p, body.at, "}"), Anchored(body.members), <<>>) ELSE body

\* parse_declaration_block
Enclosed(p, body) ==
    IF body.ok THEN Members(Expect(p, body.at, "}"), Anchored(body.members), body.diags) ELSE body

Block(p, i) ==
    IF T(p, i) = "{" THEN Enclosed(p, Body(p, i + 1, "block", <<>>, <<>>))
    ELSE Members(Err(i, i), <<>>, <<>>)

\* parse_package
Packaged(end, body, first) ==
    IF end.ok THEN Parsed(end, Decl("package", "package", first, end.at - 1, body.members), body.diags)
    ELSE Failed(end, body.diags)

PackageBody(p, body, first) ==
    IF body.ok THEN Packaged(Expect(p, body.at, "}"), body, first) ELSE Failed(body, body.diags)

ParsePackage(p, i) ==
    LET name == NamePath(p, i + 1, FALSE)
    IN  IF ~name.ok THEN Failed(name, <<>>)
        ELSE IF T(p, name.at) = ";" THEN Leaf(Ok(name.at + 1), "package", "package", i)
        ELSE IF T(p, name.at) # "{" THEN Failed(Err(name.at, name.at), <<>>)
        ELSE PackageBody(p, Body(p, name.at + 1, "package", <<>>, <<>>), i)

\* parse_namespace_query_tail, after import or expose; parse_alias: a body is
\* skipped.
Terminated(p, r, kind, keyword, first) ==
    Leaf(Then(r, LAMBDA j : IF T(p, j) = "{" THEN OpaqueBlock(p, j) ELSE Expect(p, j, ";")),
         kind, keyword, first)

ParseImport(p, i) ==
    Terminated(p, Eat(p, IF T(p, i + 1) = "all" THEN i + 2 ELSE i + 1, <<"paths", "filter">>),
               "import", "import", i)

ParseExpose(p, i) == Terminated(p, Eat(p, i, <<"expose", "paths", "filter">>), "import", "expose", i)

ParseAlias(p, i) == Terminated(p, Eat(p, i, <<"alias", "name", "for", "path">>), "alias", "alias", i)

\* parse_element_filter
ParseElementFilter(p, i) ==
    LET end == Expect(p, Until(p, i + 1, {";"}), ";")
        empty == end.ok /\ end.at = i + 2
    IN  Leaf(IF empty THEN Err(end.at, end.at) ELSE end, "usage", "filter", i)

-----------------------------------------------------------------------------
\* parse_metadata_property_value: up to a separator outside of brackets; a
\* string ends it, wherever it stands.
RECURSIVE PropertyValue(_, _, _), Properties(_, _)

PropertyValue(p, i, depth) ==
    LET k == T(p, i) IN
    IF k = "eof" THEN Err(i, i)
    ELSE IF k \in {";", ",", "}", "{"} /\ depth = 0 THEN Ok(i)
    ELSE IF k = "'" THEN Ok(i + 1)
    ELSE PropertyValue(p, i + 1, IF k \in {"(", "[", "<"} THEN depth + 1
                                 ELSE IF k \in {")", "]", ">"} /\ depth > 0 THEN depth - 1
                                 ELSE depth)

\* parse_metadata_properties_body, after its brace
Properties(p, i) ==
    LET k == T(p, i) IN
    IF k = "}" THEN Ok(i + 1)
    ELSE IF k = "eof" THEN Err(i, i)
    ELSE IF IsName(k) /\ T(p, i + 1) = "="
    THEN Then(PropertyValue(p, i + 2, 0), LAMBDA j :
            Properties(p, IF T(p, j) \in {";", ","} THEN j + 1 ELSE j))
    ELSE IF k = "{" THEN Then(OpaqueBlock(p, i), LAMBDA j : Properties(p, j))
    ELSE Properties(p, i + 1)

\* parse_annotation_usage
ParseAnnotation(p, i) ==
    Leaf(Then(Eat(p, i + 1, <<"name", "about">>), LAMBDA j : IF T(p, j) = "{" THEN Properties(p, j + 1) ELSE Expect(p, j, ";")),
         "usage", "metadata", i)

-----------------------------------------------------------------------------
\* Names after a colon or a relation keyword: a comma that no name follows
\* ends the list.
RECURSIVE SoftList(_, _, _), RelationList(_, _)

SoftList(p, i, prefix) ==
    LET name == After(p, i, prefix) IN
    IF ~IsName(T(p, name)) THEN Ok(name)
    ELSE Then(Eat(p, name, <<"path", "suffix">>), LAMBDA j :
            IF T(p, j) = "," THEN SoftList(p, j + 1, prefix) ELSE Ok(j))

\* The names after :> or :>>, each of which has to be there.
RelationList(p, i) ==
    Then(Eat(p, i, <<"path", "suffix">>), LAMBDA j :
        IF T(p, j) = "," THEN RelationList(p, j + 1) ELSE Ok(j))

UsageEnd(r, members, diags, body) ==
    [ok |-> r.ok, at |-> r.at, err |-> r.err, members |-> members, diags |-> diags, body |-> body]

BlockEnd(block) ==
    UsageEnd(block, IF block.ok THEN block.members ELSE <<>>, block.diags, TRUE)

\* parse_usage_tail: what it does not know it skips.
TailBehind(p, relation, stops) ==
    IF relation.ok THEN TailFrom(p, relation.at, stops) ELSE UsageEnd(relation, <<>>, <<>>, FALSE)

TailFrom(p, i, stops) ==
    LET k == T(p, i) IN
    IF k = "{" THEN BlockEnd(Block(p, i))
    ELSE IF k \in {";", "}", "eof"} \cup stops THEN UsageEnd(Ok(i), <<>>, <<>>, FALSE)
    ELSE TailBehind(p, CASE k = ":" -> SoftList(p, i + 1, {"~"})
                         [] k \in {"subsets", "redefines"} -> SoftList(p, i + 1, {})
                         [] k \in {":>", ":>>"} -> RelationList(p, i + 1)
                         [] k = "=" -> Expression(p, i + 1)
                         [] OTHER -> Ok(i + 1), stops)

UsageTail(p, i, stops) == TailBehind(p, Suffix(p, i), stops)

\* try_parse_constraint_expression_tail: a body that is one expression, and
\* the brace that closes it; 0 if it is not.
ValueEnd(p, value) ==
    IF ~value.ok THEN 0
    ELSE IF T(p, value.at) = "}" THEN value.at
    ELSE IF T(p, value.at) = ";" /\ T(p, value.at + 1) = "}" THEN value.at + 1
    ELSE 0

ValueBody(p, i) == IF T(p, i) = "{" THEN ValueEnd(p, Expression(p, i + 1)) ELSE 0

\* finish_usage
Finish(p, tail) ==
    IF T(p, tail.at) = ";" THEN Ok(tail.at + 1)
    ELSE IF tail.body THEN Ok(tail.at)
    ELSE Err(tail.at, tail.at)

\* Seeded fault: the last token of a usage with a body is the one it stopped at.
LastOrLookahead(p, at) ==
    IF T(p, at - 1) = ";" \/ T(p, at) = "eof" THEN at - 1 ELSE at

LastOf(p, at) == at - 1

UsageOf(p, tail, keyword, first) ==
    LET end == Finish(p, tail)
    IN  IF ~tail.ok \/ ~end.ok THEN Failed(IF tail.ok THEN end ELSE tail, tail.diags)
        ELSE Parsed(end, Decl("usage", keyword, first, LastOf(p, end.at), tail.members), tail.diags)

\* implicit_usage_keyword
ImplicitKeyword(mods) ==
    IF mods \cap {"entry", "exit"} # {} THEN "action"
    ELSE IF mods \cap {"ref", "in", "out"} # {} THEN "reference"
    ELSE "feature"

\* parse_implicit_usage, parse_modifier_only_declaration
ParseImplicit(p, i, mods) ==
    IF IsName(T(p, i)) THEN UsageOf(p, UsageTail(p, i + 1, {}), ImplicitKeyword(mods), i)
    ELSE Failed(Err(i, i), <<>>)

ParseModifierOnly(p, i, mods) == UsageOf(p, UsageTail(p, i, {}), ImplicitKeyword(mods), i)

\* parse_relation_led_declaration
ParseRelationLed(p, i, mods) ==
    LET target == NamePath(p, i + 1, FALSE)
    IN  IF target.ok THEN UsageOf(p, UsageTail(p, target.at, {}), ImplicitKeyword(mods), i)
        ELSE Failed(target, <<>>)

-----------------------------------------------------------------------------
\* What stands between the keyword of a usage and its tail: where it ends, the
\* members made up for it, and whether a name was given.
Headed(r, members, named) ==
    [ok |-> r.ok, at |-> r.at, err |-> r.err, members |-> members, named |-> named]

\* The accept branches of parse_usage_after_keyword, without their then.
AcceptPayload(p, i) ==
    Eat(p, i, IF T(p, i) \in {"at", "when", "after"} THEN <<"name", "text">>
              ELSE IF T(p, i + 1) = "after" THEN <<"name", "after", "text">>
              ELSE IF T(p, i + 1) = ":" THEN <<"name", ":", "path", "via">>
              ELSE <<"path", "via", "if", "do">>)

\* The payload of an accept, and its receiver if it has neither a name nor a
\* trigger.
AcceptMembers(p, i, first) ==
    IF T(p, i) \in {"at", "when", "after"} THEN <<>>
    ELSE IF T(p, i + 1) \notin {"after", ":"} /\ T(p, NamePath(p, i, FALSE).at) = "via"
    THEN <<Reference(<<first, first>>), Reference(<<first, first>>)>>
    ELSE <<Reference(<<first, first>>)>>

\* An accept that says what comes then is a transition, from the state before
\* it: its members go into an accepter.
AcceptTarget(p, i, to, members, first) ==
    IF T(p, i) = "then" /\ to.ok
    THEN Headed(to, <<Accepter(<<first, first>>, members), Succession(<<i + 1, to.at - 1>>)>>, TRUE)
    ELSE Headed(to, members, TRUE)

AcceptBehind(p, payload, members, first) ==
    IF payload.ok THEN AcceptTarget(p, payload.at, Eat(p, payload.at, <<"then">>), members, first)
    ELSE Headed(payload, <<>>, TRUE)

AcceptHead(p, i, first) == AcceptBehind(p, AcceptPayload(p, i), AcceptMembers(p, i, first), first)

\* The anonymous forms, and the name otherwise.
NameHead(p, i, keyword) ==
    LET anonymous == \/ T(p, i) \in {"{", ";", ":", ":>", ":>>", "=", "subsets", "redefines"}
                     \/ keyword = "connect" /\ (T(p, i) \in {"(", "["} \/ IsName(T(p, i)))
    IN  IF anonymous THEN Headed(Ok(i), <<>>, FALSE) ELSE Headed(Expect(p, i, "name"), <<>>, TRUE)

Flow(p, i, items, first) ==
    Headed(Eat(p, i, items), <<Reference(<<first, first>>), Reference(<<first, first>>)>>, TRUE)

\* A succession flow may have a name, and a from.
FlowSource(p, i) == IF T(p, i) = "from" THEN i + 1 ELSE i

FlowName(p, i) == IF IsName(T(p, i)) /\ T(p, i + 1) = "from" THEN i + 1 ELSE i

PerformHead(p, i) ==
    IF T(p, i) \in {":>", ":>>", ":", "{"} THEN Headed(Ok(i), <<>>, FALSE)
    ELSE Headed(Expect(p, i, "name"), <<>>, TRUE)

\* The branches of parse_usage_after_keyword up to the name.
HeadItems(p, i, keyword) ==
    IF keyword = "perform" /\ T(p, i + 1) = "." THEN <<"path">>
    ELSE IF keyword = "satisfy" THEN IF T(p, i) = "requirement" THEN <<"requirement", "path">> ELSE <<"path">>
    ELSE IF keyword = "exhibit" /\ T(p, i) = "state" THEN <<"state", "name">>
    ELSE IF keyword = "allocation" /\ T(p, i + 1) = "allocate"
    THEN <<"name", "allocate", "path", "to", "path">>
    ELSE <<>>

UsageHead(p, i, keyword, first) ==
    IF keyword = "accept" /\ IsName(T(p, i)) THEN AcceptHead(p, i, first)
    ELSE IF keyword = "flow" /\ T(p, i) = "of"
    THEN Flow(p, i, <<"of", "path", "from", "path", "to", "path">>, first)
    ELSE IF keyword = "succession" /\ T(p, i) = "flow"
    THEN Flow(p, FlowSource(p, FlowName(p, i + 1)), <<"path", "to", "path">>, first)
    ELSE IF keyword = "perform" /\ T(p, i) = "action" THEN PerformHead(p, i + 1)
    ELSE IF IsName(T(p, i)) /\ HeadItems(p, i, keyword) # <<>>
    THEN Headed(Eat(p, i, HeadItems(p, i, keyword)), <<>>, TRUE)
    ELSE NameHead(p, i, keyword)

\* parse_transition_usage_shorthand: source, trigger and target
TransitionTo(p, to, target, members) ==
    Headed(to, IF to.ok THEN Append(members, Succession(<<target, to.at - 1>>)) ELSE members, TRUE)

TransitionTarget(p, i, members) ==
    IF T(p, i) \in {"then", "to"} THEN TransitionTo(p, NamePath(p, i + 1, FALSE), i + 1, members)
    ELSE IF T(p, i) = "-" /\ T(p, i + 1) = ">"
    THEN TransitionTo(p, NamePath(p, i + 2, FALSE), i + 2, members)
    ELSE Headed(Ok(i), members, TRUE)

\* The trigger, if there is one; at is where it begins.
TransitionMembers(p, source, at) ==
    <<Reference(source)>>
    \o (IF T(p, at) = "accept" THEN <<Accepter(<<at, at>>, <<Reference(<<at, at>>)>>), Reference(source)>>
        ELSE <<>>)

TransitionTriggered(p, trigger, members) ==
    IF trigger.ok THEN TransitionTarget(p, trigger.at, members) ELSE Headed(trigger, <<>>, TRUE)

TransitionTrigger(p, i) ==
    IF T(p, i) # "accept" THEN Ok(i)
    ELSE IF T(p, i + 1) \in {"after", "when", "at"} THEN Eat(p, i + 1, <<"name", "text">>)
    ELSE IF IsName(T(p, i + 1)) THEN NamePath(p, i + 1, FALSE)
    ELSE Ok(i + 1)

TransitionFrom(p, from, source) ==
    IF source.ok
    THEN TransitionTriggered(p, TransitionTrigger(p, source.at),
                             TransitionMembers(p, <<from, source.at - 1>>, source.at))
    ELSE Headed(source, <<>>, TRUE)

TransitionHead(p, i) ==
    LET from == IF T(p, i) \in {"first", "then", "from"} THEN i + 1 ELSE i
    IN  TransitionFrom(p, from, NamePath(p, from, FALSE))

-----------------------------------------------------------------------------
\* parse_connection_end_member; start is where it begins, behind its
\* multiplicity.
EndTarget(p, i) ==
    IF T(p, i) \in {":>", "references"} THEN NamePath(p, i + 1, FALSE)
    ELSE IF IsArrow(p, i) THEN NamePath(p, i + 2, FALSE)
    ELSE NamePath(p, i, FALSE)

EndPath(p, i) == NamePath(p, IF T(p, i) = "references" THEN i + 1 ELSE i, FALSE)

EndBehind(p, start, named) ==
    IF ~start.ok THEN Failed(start, <<>>)
    ELSE IF named
    THEN Leaf(Then(Expect(p, start.at, "name"), LAMBDA j : EndTarget(p, j)), "usage", "reference", start.at)
    ELSE Leaf(EndPath(p, start.at), "usage", "reference", start.at)

ConnectionEnd(p, i, named) == EndBehind(p, Suffix(p, i), named)

\* parse_connection_end_member_pair
EndPairTo(target, source) ==
    Members(target, IF target.ok THEN <<source.decl, target.decl>> ELSE <<>>, <<>>)

EndPairFrom(p, source, named) ==
    IF source.ok /\ T(p, source.at) = "to"
    THEN EndPairTo(ConnectionEnd(p, source.at + 1, named), source)
    ELSE Members(IF source.ok THEN Expect(p, source.at, "to") ELSE source, <<>>, <<>>)

EndPair(p, i, named) == EndPairFrom(p, ConnectionEnd(p, i, named), named)

\* parse_connection_end_members: a pair of ends replaces the members of the
\* tail; a list of ends in parentheses is skipped.
EndsBlock(block, ends, tail) ==
    UsageEnd(block, ends.members \o block.members, tail.diags \o block.diags, TRUE)

EndsBehind(p, ends, tail) ==
    IF ends.ok /\ T(p, ends.at) = "{" THEN EndsBlock(Block(p, ends.at), ends, tail)
    ELSE UsageEnd(ends, ends.members, tail.diags, tail.body)

Connects(p, keyword, i) ==
    \/ keyword \in {"connection", "interface"} /\ T(p, i) = "connect"
    \/ keyword = "connect" /\ (T(p, i) \in {"(", "["} \/ IsName(T(p, i)))

EndsAt(p, i, keyword, tail) ==
    IF T(p, i) = "(" THEN EndsBehind(p, Members(Balanced(p, i, "(", ")"), tail.members, <<>>), tail)
    ELSE EndsBehind(p, EndPair(p, i, keyword # "connect" /\ NamesItsEnd(p, i)), tail)

ConnectionEnds(p, keyword, tail) ==
    IF ~tail.ok \/ ~Connects(p, keyword, tail.at) THEN tail
    ELSE EndsAt(p, IF keyword = "connect" THEN tail.at ELSE tail.at + 1, keyword, tail)

-----------------------------------------------------------------------------
\* comment_usage_can_end_here
CanEnd(p, i) == T(p, i) \in {"}", "eof"} \/ StartsWithDeclaration(p, i)

\* parse_comment_usage_after_keyword: name, about and locale may all be missing.
CommentAbout(p, i) ==
    IF T(p, i) # "about" THEN i
    ELSE IF IsName(T(p, i + 1)) THEN NamePath(p, i + 1, FALSE).at ELSE i + 1

CommentLocale(p, i) ==
    IF T(p, i) # "locale" THEN i ELSE IF T(p, i + 1) = "'" THEN i + 2 ELSE i + 1

\* A declaration that ends with its block.
WithBlock(block, kind, keyword, first) ==
    IF block.ok THEN Parsed(block, Decl(kind, keyword, first, block.at - 1, block.members), block.diags)
    ELSE Failed(block, block.diags)

\* Adornments alone do not move the end of its span from the keyword.
CommentLeaf(end, i, first) ==
    IF end.ok /\ end.at = i THEN Parsed(end, Decl("usage", "comment", first, first, <<>>), <<>>)
    ELSE Leaf(end, "usage", "comment", first)

CommentEnd(p, at, i, first) ==
    IF T(p, at) = "{" THEN WithBlock(Block(p, at), "usage", "comment", first)
    ELSE CommentLeaf(IF T(p, at) = ";" THEN Ok(at + 1) ELSE IF CanEnd(p, at) THEN Ok(at) ELSE Err(at, at),
                  i, first)

ParseComment(p, i, first) ==
    LET name == IF IsName(T(p, i)) /\ T(p, i) # "about" THEN i + 1 ELSE i
    IN  CommentEnd(p, After(p, CommentLocale(p, CommentAbout(p, name)), {"note"}), i, first)

\* parse_textual_representation_after_keyword
RepLanguage(p, i) ==
    IF T(p, i) # "language" THEN i ELSE IF T(p, i + 1) = "'" THEN i + 2 ELSE i + 1

RepEnd(p, i) == IF T(p, i) = ";" THEN Ok(i + 1) ELSE IF CanEnd(p, i) THEN Ok(i) ELSE Err(i, i)

ParseTextualRepresentation(p, i, first) ==
    LET name == IF IsName(T(p, i)) /\ T(p, i) # "language" THEN i + 1 ELSE i
    IN  Leaf(RepEnd(p, After(p, RepLanguage(p, name), {"doc"})), "usage", "rep", first)

\* The tail of a usage, for the keyword it was written with and the one it has
\* by now.
TailOf(p, i, keyword, effective, mods) ==
    IF keyword = "connect" THEN UsageEnd(Ok(i), <<>>, <<>>, FALSE)
    ELSE IF /\ effective \in {"assert", "assume", "require", "constraint"} /\ "constraint" \in mods
            /\ ValueBody(p, i) # 0
    THEN UsageEnd(Ok(ValueBody(p, i) + 1), <<>>, <<>>, TRUE)
    ELSE UsageTail(p, i, IF keyword \in {"connection", "interface"} THEN {"connect"} ELSE {})

\* The rest of parse_usage_after_keyword, behind the head: the payload of an
\* action that accepts, the shorthand of a transition, the tail and the ends.
WithMembers(tail, members) == [tail EXCEPT !.members = @ \o members]

Chained(usage, chained) == IF usage.ok THEN [usage EXCEPT !.decl.chained = chained] ELSE usage

Shorthand(p, transition, first) ==
    UsageOf(p, UsageEnd(transition, transition.members, <<>>, FALSE), "transition", first)

\* What an action that accepts or sends, or an accept that names its target,
\* is from there on.
Behaviour(payload, members, effective) ==
    [payload |-> payload, members |-> members, effective |-> effective]

IsChained(keyword, members) ==
    keyword = "accept" /\ Len(members) = 2 /\ members[1].keyword = "accept"

\* Behind what an action accepts it may still be said to send.
Accepting(p, payload, members) ==
    IF payload.ok /\ T(p, payload.at) = "send" THEN Behaviour(Ok(payload.at + 1), members, "send")
    ELSE Behaviour(payload, members, "accept")

BehaviourOf(p, head, keyword, first) ==
    LET does == IF keyword = "action" /\ head.named THEN T(p, head.at) ELSE "" IN
    IF does = "accept"
    THEN Accepting(p, NamePath(p, head.at + 1, FALSE), <<Reference(<<first, first>>)>>)
    ELSE IF does = "send" THEN Behaviour(Ok(head.at + 1), head.members, "send")
    ELSE IF IsChained(keyword, head.members)
    THEN Behaviour(Ok(head.at), head.members, "transition")
    ELSE Behaviour(Ok(head.at), head.members, keyword)

UsageTailed(p, behaviour, keyword, first, mods) ==
    IF behaviour.payload.ok
    THEN UsageOf(p, ConnectionEnds(p, keyword,
                        WithMembers(TailOf(p, behaviour.payload.at, keyword, behaviour.effective, mods),
                                    behaviour.members)),
                 behaviour.effective, first)
    ELSE Failed(behaviour.payload, <<>>)

UsageBehind(p, head, keyword, first, mods) ==
    IF keyword = "transition" /\ head.named /\ IsName(T(p, head.at))
    THEN Shorthand(p, TransitionHead(p, head.at), first)
    ELSE Chained(UsageTailed(p, BehaviourOf(p, head, keyword, first), keyword, first, mods),
                 IsChained(keyword, head.members))

\* parse_usage_after_keyword
UsageHeaded(p, head, keyword, first, mods) ==
    IF head.ok THEN UsageBehind(p, head, keyword, first, mods) ELSE Failed(head, <<>>)

UsageAngled(p, angle, keyword, first, mods) ==
    IF ~angle.ok THEN Failed(angle, <<>>)
    ELSE IF keyword = "comment" THEN ParseComment(p, angle.at, first)
    ELSE IF keyword = "rep" THEN ParseTextualRepresentation(p, angle.at, first)
    ELSE UsageHeaded(p, UsageHead(p, angle.at, keyword, first), keyword, first, mods)

ParseUsage(p, first, i, keyword, mods) == UsageAngled(p, Angle(p, i), keyword, first, mods)

-----------------------------------------------------------------------------
\* parse_definition_after_keyword
RECURSIVE PathList(_, _)

PathList(p, i) ==
    Then(NamePath(p, i, FALSE), LAMBDA j : IF T(p, j) = "," THEN PathList(p, j + 1) ELSE Ok(j))

DefinitionBehind(p, general, keyword, first) ==
    IF ~general.ok THEN Failed(general, <<>>)
    ELSE IF T(p, general.at) = "{" THEN WithBlock(Block(p, general.at), "definition", keyword, first)
    ELSE Leaf(Expect(p, general.at, ";"), "definition", keyword, first)

ParseDefinition(p, first, i, keyword) ==
    DefinitionBehind(p, Then(Eat(p, i, <<"angle", "name", "suffix">>), LAMBDA j :
                                IF T(p, j) = ":>" THEN PathList(p, j + 1) ELSE Ok(j)),
                     keyword, first)

\* A keyword with a name, or with def and a name.
DefinitionOrUsage(p, first, i, keyword, mods) ==
    IF T(p, i) = "def" THEN ParseDefinition(p, first, i + 1, keyword)
    ELSE ParseUsage(p, first, i, keyword, mods)

\* parse_composite_feature_declaration, of two keywords that are there
ParseComposite(p, i, canonical, mods) ==
    DefinitionOrUsage(p, i, i + 2, canonical,
                      mods \cup ({"constraint"} \cap {T(p, i + 1)}))

\* parse_end_feature_declaration
EndFeature(p, suffix, first, mods) ==
    LET typed == T(p, suffix.at) \in {"part", "item", "port"}
    IN  IF suffix.ok
        THEN ParseUsage(p, first, IF typed THEN suffix.at + 1 ELSE suffix.at,
                        IF typed THEN T(p, suffix.at) ELSE "end", mods)
        ELSE Failed(suffix, <<>>)

ParseEnd(p, i, mods) == EndFeature(p, Suffix(p, i + 1), i, mods \cup {"end"})

\* parse_feature_declaration, of the keyword at i
ParseFeature(p, i, mods) ==
    IF T(p, i) = "end" THEN ParseEnd(p, i, mods)
    ELSE IF T(p, i) = "include" /\ T(p, i + 1) = "use" /\ T(p, i + 2) = "case"
    THEN ParseUsage(p, i, i + 3, "use-case", mods)
    ELSE DefinitionOrUsage(p, i, i + 1, T(p, i), mods)

ParseFeatureOrImplicit(p, i, mods) ==
    IF T(p, i) = "part" \/ (IsName(T(p, i)) /\ IsFeatureKeyword(p, i)) THEN ParseFeature(p, i, mods)
    ELSE ParseImplicit(p, i, mods)

\* parse_hashed_declaration
RECURSIVE Unmarked(_, _)

Unmarked(p, i) == IF T(p, i) = "#" /\ IsName(T(p, i + 1)) THEN Unmarked(p, i + 2) ELSE i

\* Behind its first name, which marks the declaration if a keyword follows.
HashedBehind(p, i, name, mods) ==
    LET marks == name \notin {"cause", "effect"} IN
    IF <<name, T(p, i)>> \in {<<"derivation", "connection">>, <<"causation", "connect">>}
    THEN ParseComposite(p, i - 1, T(p, i), mods \cup ({"derivation"} \cap {name}))
    ELSE IF T(p, i) = "#" THEN ParseFeatureOrImplicit(p, Unmarked(p, i), mods \cup {name})
    ELSE IF marks /\ T(p, i) = "package" THEN ParsePackage(p, i)
    ELSE IF marks /\ T(p, i) = "import" THEN ParseImport(p, i)
    ELSE LET keyword == marks /\ T(p, i) \in FeatureKeywords \cup {"part"}
         IN  ParseFeature(p, IF keyword THEN i ELSE i - 1, IF keyword THEN mods \cup {name} ELSE mods)

ParseHashed(p, i, mods) ==
    IF IsName(T(p, i + 1)) THEN HashedBehind(p, i + 2, T(p, i + 1), mods)
    ELSE Failed(Err(i + 1, i + 1), <<>>)

\* starts_control_flow_reference, parse_control_flow_reference: what stands
\* behind the names is skipped, with its body.
IsControlFlow(p, i, mods) ==
    /\ mods \cap {"first", "then"} # {}
    /\ IsName(T(p, i)) /\ T(p, i + 1) \in {";", "then"}

ControlFlowBody(p, i, first, ends) ==
    IF T(p, i) = "{" THEN UsageOf(p, UsageEnd(OpaqueBlock(p, i), ends, <<>>, TRUE), "succession-as", first)
    ELSE UsageOf(p, UsageEnd(Ok(i), ends, <<>>, FALSE), "succession-as", first)

ControlFlowEnd(p, target, first, ends) ==
    IF target.ok THEN ControlFlowBody(p, Until(p, target.at, {";", "{", "}"}), first, ends)
    ELSE Failed(target, <<>>)

ControlFlowBehind(p, operand, first, mods) ==
    IF "first" \in mods /\ T(p, operand.at) = "then"
    THEN ControlFlowEnd(p, NamePath(p, operand.at + 1, FALSE), first,
                        <<Reference(<<first, first>>), Reference(<<first, first>>)>>)
    ELSE ControlFlowEnd(p, operand, first, <<Reference(<<first, first>>)>>)

ParseControlFlow(p, i, mods) == ControlFlowBehind(p, NamePath(p, i, FALSE), i, mods)

\* The keyword two keywords make, if any.
CompositeKeyword(k, next) ==
    IF <<k, next>> = <<"use", "case">> THEN "use-case"
    ELSE IF <<k, next>> = <<"event", "occurrence">> THEN "event-occurrence"
    ELSE IF k \in {"assert", "assume", "require"} /\ next = "constraint" THEN k
    ELSE ""

\* parse_declaration_inner, behind the modifiers
ParseBehind(p, i, mods, individual) ==
    LET k == T(p, i)
        next == T(p, i + 1)
    IN  IF k = "def" /\ individual THEN ParseDefinition(p, i, i + 1, "individual")
        ELSE IF IsControlFlow(p, i, mods) THEN ParseControlFlow(p, i, mods)
        ELSE IF mods # {} /\ k \in {";", ":", ":>", ":>>", "=", "{"} THEN ParseModifierOnly(p, i, mods)
        ELSE IF k = "package" THEN ParsePackage(p, i)
        ELSE IF k = "import" THEN ParseImport(p, i)
        ELSE IF k = "@" THEN ParseAnnotation(p, i)
        ELSE IF k \in {":>", ":>>"} THEN ParseRelationLed(p, i, mods)
        ELSE IF k = "alias" THEN ParseAlias(p, i)
        ELSE IF k = "expose" THEN ParseExpose(p, i)
        ELSE IF k = "filter" /\ next # "def" THEN ParseElementFilter(p, i)
        ELSE IF CompositeKeyword(k, next) # "" THEN ParseComposite(p, i, CompositeKeyword(k, next), mods)
        ELSE IF k = "#" THEN ParseHashed(p, i, mods)
        ELSE IF k = "part" \/ IsName(k) THEN ParseFeatureOrImplicit(p, i, mods)
        ELSE Failed(Err(i, i), <<>>)

\* parse_declaration; at the end of the file there is none, which its callers
\* but the module report as an error.
ParseDeclaration(p, i) ==
    LET behind == After(p, i, Modifiers)
    IN  ParseBehind(p, behind, {T(p, j) : j \in i..(behind - 1)},
                    behind > i /\ T(p, behind - 1) = "individual")

-----------------------------------------------------------------------------
\* The loops of Parser::parse, parse_package and parse_declaration_block_
\* contents_after_open: declarations up to the closing brace, or the end of
\* the file. A block skips what does not look like one, and what it skips it
\* does not recover in.
Skipping(p, skipped, members, diags) ==
    IF skipped.ok THEN Body(p, skipped.at, "block", members, diags) ELSE Members(skipped, <<>>, diags)

Continuing(p, parsed, kind, members, diags) ==
    IF parsed.ok THEN Body(p, parsed.at, kind, Append(members, parsed.decl), diags \o parsed.diags)
    ELSE IF p.recover
    THEN Body(p, Recover(p, parsed.at), kind, members, diags \o Append(parsed.diags, parsed.err))
    ELSE Members(parsed, <<>>, diags)

Body(p, i, kind, members, diags) ==
    LET start == After(p, i, {"doc"})
        ends == \/ T(p, i) = "eof" \/ (T(p, i) = "}" /\ kind # "module")
                \/ kind = "module" /\ T(p, After(p, start, Modifiers)) = "eof"
    IN  IF ends THEN Members(Ok(i), members, diags)
        ELSE IF kind = "block" /\ ~StartsWithDeclaration(p, start)
        THEN Skipping(p, OpaqueStatement(p, start), members, diags)
        ELSE Continuing(p, ParseDeclaration(p, start), kind, members, diags)

\* parse_sysml, parse_sysml_recovering, of a text that lexes.
ParseModule(tokens, recover) ==
    Body([tokens |-> tokens, recover |-> recover], 1, "module", <<>>, <<>>)
=============================================================================
