----------------------------- MODULE TokenScan -----------------------------
(***************************************************************************)
(* The parts of the SysML parser (crates/mercurio-sysml/src/parser.rs) that *)
(* only move over tokens: names and paths, adornments, expressions, opaque  *)
(* statements, lookahead, and the recovery from an error.                   *)
(*                                                                         *)
(* A token is its kind, and an identifier is its text: a string that is no  *)
(* kind. "doc" is a doc comment, "note" any other block comment, "1" a      *)
(* number, "big" an integer of more than 64 bits and "'" a string. p.tokens *)
(* is what the lexer returned without the end of file, which T adds. A scan *)
(* ends at a token, with an error or not; an error is the place its         *)
(* diagnostic is about.                                                     *)
(***************************************************************************)
EXTENDS Integers, Sequences, FiniteSets, FiniteSetsExt

Kinds == {"package", "import", "part", "def", "doc", "note", "1", "big", "'", "eof",
          "{", "}", "(", ")", "[", "]", "<", ">", ";", ":", "::", ":>", ":>>", ".", ",",
          "=", "==", "!=", "<=", ">=", "+", "-", "*", "**", "/", "^", "!", "?", "~", "@", "#"}

IsName(kind) == kind \notin Kinds

Modifiers == {"public", "private", "protected", "library", "entry", "exit", "abstract", "do",
              "ref", "in", "out", "first", "derived", "readonly", "then", "individual",
              "variation", "variant", "constant"}

FeatureKeywords == {"accept", "action", "allocation", "analysis", "assert", "assume", "attribute",
    "calc", "comment", "concern", "connect", "connection", "constraint", "dependency", "effect",
    "exhibit", "flow", "include", "individual", "interface", "item", "metadata", "occurrence",
    "objective", "perform", "port", "ref", "reference", "render", "require", "requirement",
    "satisfy", "state", "subject", "transition", "use", "verification", "verify", "view",
    "viewpoint"}

T(p, i) == IF i <= Len(p.tokens) THEN p.tokens[i] ELSE "eof"

End(p) == Len(p.tokens) + 1

Ok(i) == [ok |-> TRUE, at |-> i, err |-> 0]
Err(i, place) == [ok |-> FALSE, at |-> i, err |-> place]

\* The ? operator.
Then(r, F(_)) == IF r.ok THEN F(r.at) ELSE r

\* The first token from i on that is one of the kinds; the loops that advance
\* until they see one also stop at the end of the file.
Until(p, i, kinds) ==
    CHOOSE j \in i..End(p) : /\ T(p, j) \in kinds \/ j = End(p)
                             /\ \A k \in i..(j - 1) : T(p, k) \notin kinds

\* The first token from i on that is none of the kinds.
After(p, i, kinds) ==
    CHOOSE j \in i..End(p) : T(p, j) \notin kinds /\ \A k \in i..(j - 1) : T(p, k) \in kinds

-----------------------------------------------------------------------------
\* expect_path_segment, parse_name_path
IsSegment(kind, wildcards) == IsName(kind) \/ (wildcards /\ kind \in {"*", "**"})

RECURSIVE PathFrom(_, _, _), BalancedFrom(_, _, _, _, _)

PathFrom(p, i, wildcards) ==
    IF T(p, i) \in {"::", "."} /\ IsSegment(T(p, i + 1), wildcards)
    THEN PathFrom(p, i + 2, wildcards) ELSE Ok(i)

NamePath(p, i, wildcards) ==
    IF IsSegment(T(p, i), wildcards) THEN PathFrom(p, i + 1, wildcards) ELSE Err(i, i)

\* How deep one is in brackets behind one more token.
Deeper(kind, depth, open, close) ==
    IF kind = open THEN depth + 1 ELSE IF kind = close /\ depth > 0 THEN depth - 1 ELSE depth

\* consume_balanced, consume_opaque_block_with_open
BalancedFrom(p, i, open, close, depth) ==
    IF depth = 0 THEN Ok(i)
    ELSE IF T(p, i) = "eof" THEN Err(i, i)
    ELSE BalancedFrom(p, i + 1, open, close, Deeper(T(p, i), depth, open, close))

Balanced(p, i, open, close) ==
    IF T(p, i) = open THEN BalancedFrom(p, i + 1, open, close, 1) ELSE Err(i, i)

OpaqueBlock(p, i) == Balanced(p, i, "{", "}")

\* expect, expect_identifier, expect_identifier_named: a name that is not the
\* expected one is consumed all the same.
Expect(p, i, kind) ==
    IF T(p, i) = kind \/ (kind = "name" /\ IsName(T(p, i))) THEN Ok(i + 1)
    ELSE IF IsName(kind) /\ kind # "name" /\ IsName(T(p, i)) THEN Err(i + 1, i)
    ELSE Err(i, i)

\* parse_multiplicity_range: brackets inside brackets are not counted.
Multiplicity(p, i) == Expect(p, Until(p, i, {"]"}), "]")

RECURSIVE Suffix(_, _), Angle(_, _), QueryFilter(_, _)

\* consume_suffix_adornments
Suffix(p, i) ==
    IF T(p, i) = "[" THEN Then(Multiplicity(p, i), LAMBDA j : Suffix(p, j))
    ELSE IF T(p, i) = "<" THEN Then(Balanced(p, i, "<", ">"), LAMBDA j : Suffix(p, j))
    ELSE Ok(i)

\* consume_angle_adornments
Angle(p, i) ==
    IF T(p, i) = "<" THEN Then(Expect(p, Until(p, i, {">"}), ">"), LAMBDA j : Angle(p, j)) ELSE Ok(i)

\* parse_namespace_query_filter
QueryFilter(p, i) ==
    IF T(p, i) = "[" THEN Then(Balanced(p, i, "[", "]"), LAMBDA j : QueryFilter(p, j))
    ELSE IF T(p, i) = "<" THEN Then(Balanced(p, i, "<", ">"), LAMBDA j : QueryFilter(p, j))
    ELSE Ok(i)

-----------------------------------------------------------------------------
\* Expressions: only how far they reach, and whether they can be called.
BinaryOps == {"or", "and", "==", "!=", "<", "<=", ">", ">=", "+", "-", "*", "/", "^", "**"}

Value(i, callable) == [ok |-> TRUE, at |-> i, err |-> 0, callable |-> callable]

RECURSIVE Expression(_, _), Unary(_, _), Postfix(_, _, _), Arguments(_, _), Items(_, _)

NotCallable(r) == IF r.ok THEN Value(r.at, FALSE) ELSE r

\* parse_or_expression to parse_power_expression: an operand, and operators of
\* whatever precedence with the operands they take.
Operated(p, left) ==
    IF left.ok /\ T(p, left.at) \in BinaryOps THEN NotCallable(Expression(p, left.at + 1)) ELSE left

Expression(p, i) == Operated(p, Unary(p, i))

\* parse_call_argument_expression, separated by commas, up to the parenthesis.
Arguments(p, i) ==
    LET value == IF IsName(T(p, i)) /\ T(p, i + 1) = "=" THEN i + 2 ELSE i
    IN  Then(Expression(p, value), LAMBDA j :
            IF T(p, j) = "," THEN Arguments(p, j + 1) ELSE Expect(p, j, ")"))

ArgumentList(p, i) == IF T(p, i + 1) = ")" THEN Ok(i + 2) ELSE Arguments(p, i + 1)

\* The items of a tuple after the first; the last may be followed by a comma.
Items(p, i) ==
    IF T(p, i) = "," /\ T(p, i + 1) # ")" THEN Then(Expression(p, i + 1), LAMBDA j : Items(p, j))
    ELSE Expect(p, IF T(p, i) = "," THEN i + 1 ELSE i, ")")

Closed(r, callable) == IF r.ok THEN Value(r.at, callable) ELSE r

Grouped(p, first) ==
    IF first.ok THEN Closed(Items(p, first.at), first.callable /\ T(p, first.at) # ",") ELSE first

\* parse_expression_primary
Primary(p, i) ==
    IF T(p, i) = "new"
    THEN NotCallable(Then(NamePath(p, i + 1, FALSE), LAMBDA j :
            IF T(p, j) = "(" THEN ArgumentList(p, j) ELSE Ok(j)))
    ELSE IF T(p, i) \in {"self", "true", "false", "1", "'"} THEN Value(i + 1, FALSE)
    ELSE IF T(p, i) = "big" THEN Err(i + 1, i)
    ELSE IF IsName(T(p, i)) THEN Value(NamePath(p, i, FALSE).at, TRUE)
    ELSE IF T(p, i) # "(" THEN Err(i, i)
    ELSE IF T(p, i + 1) = ")" THEN Value(i + 2, FALSE)
    ELSE Grouped(p, Expression(p, i + 1))

\* parse_unary_expression
WithPostfix(p, r, callable) == IF r.ok THEN Postfix(p, r.at, callable) ELSE r

AsOperand(p, primary) == WithPostfix(p, primary, primary.ok /\ primary.callable)

Unary(p, i) ==
    IF T(p, i) \in {"-", "!", "not"} THEN NotCallable(Unary(p, i + 1)) ELSE AsOperand(p, Primary(p, i))

\* parse_expression_postfix
Postfix(p, i, callable) ==
    IF T(p, i) = "." /\ T(p, i + 1) = "?" THEN WithPostfix(p, OpaqueBlock(p, i + 2), callable)
    ELSE IF T(p, i) = "." THEN WithPostfix(p, Expect(p, i + 1, "name"), callable)
    ELSE IF T(p, i) = "("
    THEN IF callable THEN WithPostfix(p, ArgumentList(p, i), FALSE) ELSE Err(i, i)
    ELSE IF T(p, i) = "[" THEN WithPostfix(p, Balanced(p, i, "[", "]"), callable)
    ELSE IF T(p, i) = "as" THEN WithPostfix(p, NamePath(p, i + 1, FALSE), FALSE)
    ELSE Value(i, callable)

-----------------------------------------------------------------------------
RECURSIVE Eat(_, _, _), Opaque(_, _, _, _, _)

\* The clauses that may follow: each is there if its first token is.
Clauses == [via |-> <<"path">>, if |-> <<"guard">>, do |-> <<"text">>, then |-> <<"path">>,
            about |-> <<"path">>]

\* One step of a construct: a token that is expected, one of the scans, or a
\* clause.
Item(p, i, item) ==
    CASE item = "path"   -> NamePath(p, i, FALSE)
      [] item = "paths"  -> NamePath(p, i, TRUE)
      [] item = "suffix" -> Suffix(p, i)
      [] item = "angle"  -> Angle(p, i)
      [] item = "filter" -> QueryFilter(p, i)
      [] item = "text"   -> Ok(Until(p, i, {";", "}", "then"}))
      [] item = "guard"  -> Ok(Until(p, i, {";", "}", "then", "do"}))
      [] item \in DOMAIN Clauses -> IF T(p, i) = item THEN Eat(p, i + 1, Clauses[item]) ELSE Ok(i)
      [] OTHER           -> Expect(p, i, item)

Eat(p, i, items) ==
    IF items = <<>> THEN Ok(i) ELSE Then(Item(p, i, Head(items)), LAMBDA j : Eat(p, j, Tail(items)))

\* consume_opaque_statement_in_block; the depths never go below zero.
Opaque(p, i, parens, brackets, angles) ==
    LET k == T(p, i) IN
    IF k = "eof" \/ (k = "}" /\ parens = 0 /\ brackets = 0) THEN Ok(i)
    ELSE IF k = "{" THEN OpaqueBlock(p, i)
    ELSE IF k = ";" /\ parens = 0 /\ brackets = 0 /\ angles = 0 THEN Ok(i + 1)
    ELSE Opaque(p, i + 1, Deeper(k, parens, "(", ")"), Deeper(k, brackets, "[", "]"),
                Deeper(k, angles, "<", ">"))

OpaqueStatement(p, i) == Opaque(p, i, 0, 0, 0)

\* Seeded fault: the step that makes recovery move on is always taken.
RecoveredAndOne(p, i, start) ==
    IF T(p, i) = "{" THEN OpaqueBlock(p, i).at
    ELSE IF T(p, i) = ";" THEN Min({i + 2, End(p)})
    ELSE IF T(p, i) = "}" THEN i + 1
    ELSE i

\* recover_declaration: past the next semicolon or block, or up to the closing
\* brace of what the error is in; past that brace if the error is at it.
Recovered(p, i, start) ==
    IF T(p, i) = "{" THEN OpaqueBlock(p, i).at
    ELSE IF T(p, i) = ";" \/ (T(p, i) = "}" /\ i = start) THEN i + 1
    ELSE i

Recover(p, i) == Recovered(p, Until(p, i, {"{", ";", "}"}), i)

-----------------------------------------------------------------------------
\* should_parse_as_feature_keyword
IsFeatureKeyword(p, i) ==
    LET next == T(p, i + 1) IN
    \/ next \in {"def", "<"} \/ IsName(next)
    \/ next \in {"doc", "note"} /\ T(p, i) = "comment"
    \/ next \in {":", ":>", ":>>"} /\ T(p, i) \in FeatureKeywords
    \/ next = "[" /\ T(p, i) \in {"connect", "end"}
    \/ next = "part" /\ T(p, i) = "end"

\* block_starts_with_declaration
StartsAt(p, i) ==
    \/ T(p, i) \in {"package", "import", "part", "@", ":>", ":>>"}
    \/ T(p, i) = "#" /\ IsName(T(p, i + 1))
    \/ /\ IsName(T(p, i)) /\ T(p, i) \notin {"if", "else", "new"}
       /\ \/ T(p, i + 1) \in {"def", ":", ":>", ":>>", "=", "{", ";"} \/ IsName(T(p, i + 1))
          \/ T(p, i + 1) = "<" /\ T(p, i) \in FeatureKeywords
          \/ T(p, i + 1) = "[" /\ T(p, i) \in {"connect", "end"}
          \/ T(p, i + 1) \in {"doc", "note"} /\ T(p, i) = "comment"
          \/ T(p, i + 1) = "@" /\ T(p, i) \in {"filter", "expose"}

StartsWithDeclaration(p, i) == StartsAt(p, After(p, After(p, i, {"doc", "note"}), Modifiers))

\* starts_named_connection_end_member
IsArrow(p, i) == T(p, i) = ":>" \/ (T(p, i) = "::" /\ T(p, i + 1) = ">")

NameBefore(p, i) == IsName(T(p, i)) /\ (T(p, i + 1) = "references" \/ IsArrow(p, i + 1))

NamesItsEnd(p, i) ==
    IF T(p, i) = "[" THEN Balanced(p, i, "[", "]").ok /\ NameBefore(p, Balanced(p, i, "[", "]").at)
    ELSE NameBefore(p, i)
===========================================================================
