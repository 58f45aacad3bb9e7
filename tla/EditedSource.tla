---------------------------- MODULE EditedSource ----------------------------
(***************************************************************************)
(* A parse session (ParseSession) over the parser of crates/mercurio-sysml/ *)
(* src/parser.rs (DeclarationParser), which is a parameter here. A byte of *)
(* the text stands for a whole token: of the lexer, which belongs to       *)
(* another crate, only that a text lexes or not, and that some of its      *)
(* bytes are in no token.                                                  *)
(***************************************************************************)
EXTENDS ParseSession, SequencesExt

CONSTANTS
    ParseTokens(_, _),  \* [ok, members, diags] of the tokens, recovering or not
    Blank,              \* the bytes that are in no token
    Unknown             \* the bytes that no text that lexes has

\* lex
Lexes(t) == \A n \in 1..Len(t) : t[n] \notin Unknown

TokensOf(t) == SelectSeq(t, LAMBDA byte : byte \notin Blank)

\* Where each token is.
PlacesOf(t) == SelectSeq([n \in 1..Len(t) |-> n], LAMBDA n : t[n] \notin Blank)

\* The declarations in preorder, after n others.
RECURSIVE Outline(_, _, _, _)

Outline(declarations, n, top, places) ==
    IF declarations = <<>> THEN <<>>
    ELSE LET d == declarations[1]
             inside == Outline(d.members, n + 1, FALSE, places)
             span == TextRange(places[d.span[1]] - 1, places[d.span[2]])
             first == [span |-> span, last |-> n + 1 + Len(inside), top |-> top,
                       package |-> d.kind = "package"]
         IN  <<first>> \o inside \o Outline(Tail(declarations), first.last, top, places)

\* parse_sysml_recovering, as the session sees it
Outcome(t, parsed) ==
    IF Lexes(t)
    THEN [failed |-> FALSE, diagnosed |-> parsed.diags # <<>>,
          module |-> Outline(parsed.members, 0, TRUE, PlacesOf(t))]
    ELSE [failed |-> TRUE, diagnosed |-> FALSE, module |-> <<>>]

ParseText(t) == Outcome(t, ParseTokens(TokensOf(t), TRUE))

-----------------------------------------------------------------------------
\* What was written: the declarations without the members the parser made up,
\* their spans counted from a token on.
RECURSIVE Written(_, _)

Written(declarations, from) ==
    LET written == SelectSeq(declarations, LAMBDA d : ~d.synthetic)
    IN  [n \in 1..Len(written) |->
            [kind |-> written[n].kind, keyword |-> written[n].keyword,
             span |-> <<written[n].span[1] - from, written[n].span[2] - from>>,
             members |-> Written(written[n].members, from), synthetic |-> FALSE]]

\* The bodies that declarations are written in: that of the file, of a package
\* and of a definition.
Bodies == {<<>>, <<"package", "Q", "{">>, <<"part", "def", "Q", "{">>}

Within(body, inside) == IF body = <<>> THEN inside ELSE body \o inside \o <<"}">>

\* The declarations and the diagnostics of what is written in a body.
WithinBody(body, parsed) ==
    LET members == IF body = <<>> THEN parsed.members
                   ELSE IF parsed.members = <<>> THEN <<>> ELSE parsed.members[1].members
    IN  [members |-> Written(members, Len(body)),
         diags |-> [n \in 1..Len(parsed.diags) |-> parsed.diags[n] - Len(body)]]

ParseWithin(body, inside) == WithinBody(body, ParseTokens(Within(body, inside), TRUE))

\* Where a statement ends: at a semicolon that is in no braces, or at a brace
\* that closes the last of them, unless a semicolon follows.
Ends(tokens) ==
    LET depth[n \in 0..Len(tokens)] ==
            IF n = 0 THEN 0
            ELSE IF tokens[n] = "{" THEN depth[n - 1] + 1
            ELSE IF tokens[n] = "}" /\ depth[n - 1] > 0 THEN depth[n - 1] - 1
            ELSE depth[n - 1]
        Follows(n) == n < Len(tokens) /\ tokens[n + 1] = ";"
    IN  {n \in 1..Len(tokens) :
            depth[n] = 0 /\ (tokens[n] = ";" \/ (tokens[n] = "}" /\ ~Follows(n)))}

Statements(tokens) ==
    LET ends == Ends(tokens) \cup {Len(tokens)}
        starts == SelectSeq([n \in 1..Len(tokens) |-> n - 1], LAMBDA n : n \in ends \cup {0})
        Upto(n) == IF n < Len(starts) THEN starts[n + 1] ELSE Len(tokens)
    IN  [n \in 1..Len(starts) |->
            [from |-> starts[n], tokens |-> SubSeq(tokens, starts[n] + 1, Upto(n))]]

\* A text taken apart: the body it is in, and what is written in it. A body
\* whose brace is closed before the end is none.
BodyOf(tokens) ==
    LET Opens(body) == /\ Len(tokens) > Len(body)
                       /\ SubSeq(tokens, 1, Len(body)) = body
                       /\ body # <<>> => Ends(tokens) = {Len(tokens)} /\ tokens[Len(tokens)] = "}"
    IN  CHOOSE body \in Bodies : Opens(body) /\ \A other \in Bodies : Opens(other) => Len(other) <= Len(body)

InsideOf(tokens, body) ==
    IF body = <<>> THEN tokens ELSE SubSeq(tokens, Len(body) + 1, Len(tokens) - 1)

\* A row of statements in a body: what is read of all of them, and of each
\* where it stands alone in the body, with its places in the body.
Moved(read, from) ==
    [members |-> Written(read.members, 0 - from),
     diags |-> [n \in 1..Len(read.diags) |-> read.diags[n] + from]]

Readings(body, whole, statements) ==
    [whole |-> ParseWithin(body, whole),
     alone |-> [n \in 1..Len(statements) |->
                   Moved(ParseWithin(body, statements[n].tokens), statements[n].from)],
     ends |-> [n \in 1..Len(statements) |-> statements[n].from + Len(statements[n].tokens)]]

ReadingsOf(tokens) ==
    LET body == BodyOf(tokens)
        inside == InsideOf(tokens, body)
    IN  Readings(body, inside, Statements(inside))

-----------------------------------------------------------------------------
\* Recovering is not lenient: a text parses without a diagnostic exactly if
\* the parser that stops at the first error parses it, to the same module.
CleanIsStrict ==
    LET Agree(recovered, strict) ==
            /\ strict.ok <=> recovered.diags = <<>>
            /\ strict.ok => strict.members = recovered.members
    IN  Agree(ParseTokens(TokensOf(text), TRUE), ParseTokens(TokensOf(text), FALSE))

\* The declarations of a text are written one behind the other, each within
\* the span of its owner: what an editor folds, and what recompilation prunes,
\* is one declaration and no token of the next.
RECURSIVE Nested(_, _, _)

Nested(written, first, last) ==
    /\ \A n \in 1..Len(written) :
        /\ first <= written[n].span[1]
        /\ written[n].span[1] <= written[n].span[2]
        /\ written[n].span[2] <= last
        /\ Nested(written[n].members, written[n].span[1], written[n].span[2])
    /\ \A n \in 1..(Len(written) - 1) : written[n].span[2] < written[n + 1].span[1]

SpansNest ==
    LET tokens == TokensOf(text)
    IN  tokens # <<>> => Nested(Written(ParseTokens(tokens, TRUE).members, 0), 1, Len(tokens))

\* An error costs no other statement anything: if each statement of a body
\* alone reports nothing behind its own end, the body is read as one statement
\* after the other, with the diagnostics of each. (A connect right behind a
\* closing brace goes on with the connection the brace ends.)
Joins(tokens) == \E n \in 1..(Len(tokens) - 1) : tokens[n] = "}" /\ tokens[n + 1] = "connect"

ErrorsStayInTheirStatement ==
    LET Stay(read) ==
            (\A n \in 1..Len(read.ends) : \A d \in Range(read.alone[n].diags) : d <= read.ends[n]) =>
                /\ read.whole.diags = FlattenSeq([n \in 1..Len(read.alone) |-> read.alone[n].diags])
                /\ read.whole.members = FlattenSeq([n \in 1..Len(read.alone) |-> read.alone[n].members])
    IN  TokensOf(text) # <<>> /\ ~Joins(TokensOf(text)) => Stay(ReadingsOf(TokensOf(text)))

\* "partial_compile_recovers_parse_errors_and_preserves_valid_siblings": a
\* statement that parses on its own is in the module, whatever is wrong with
\* the statements beside it.
ValidSiblingsArePreserved ==
    LET Preserved(read) ==
            \A n \in 1..Len(read.alone) :
                read.alone[n].diags = <<>> =>
                    Range(read.alone[n].members) \subseteq Range(read.whole.members)
    IN  TokensOf(text) # <<>> => Preserved(ReadingsOf(TokensOf(text)))
=============================================================================
