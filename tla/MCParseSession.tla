--------------------------- MODULE MCParseSession ---------------------------
(***************************************************************************)
(* Sessions on texts of a few tokens: edited by clients, and, unedited, on *)
(* every row of statements of a pool, in every body.                       *)
(***************************************************************************)
EXTENDS EditedSource, DeclarationParser

\* "ck" is one blank character of two bytes, "$" does not lex.
MCContinuation == {"k"}
MCBlank == {"c", "k"}
MCUnknown == {"$"}

-----------------------------------------------------------------------------
\* Statements that are right, ...
Right == {
    <<"part", "a", ";">>,
    <<"part", "def", "A", "[", "1", "]", ":>", "B", ",", "C", "{", "port", "x", ":", "Y", ";", "}">>,
    <<"alias", "a", "for", "b", ".", "a", ";">>,
    <<"connection", "a", "{", "doc", "in", "b", "=", "1", "*", "(", "2", ")", ";", "}">>,
    <<"connect", "a", "to", "b", ";">>,
    <<"state", "a", "{", "entry", ";", "state", "b", ";", "accept", "a", "then", "b", ";", "}">>,
    <<"transition", "a", "first", "b", "accept", "a", "then", "b", ";">>,
    <<"constraint", "a", "{", "1", "==", "b", "(", "a", ")", "}">>,
    <<"action", "a", "{", "if", "a", ";", "action", "b", "accept", "x", "send", ";", "first", "a", "then", "b", ";", "}">>,
    <<"part", "a", "{", "comment", "<", "a", ">", "part", "b", ";", "}">>,
    <<"#", "a", "part", "b", ":>", "A", "{", "}", ";">>}

\* ... that are not, and right ones that are easily read otherwise.
Wrong == {
    <<"import", ";">>,
    <<"part", "def", "A", "{", "import", "}">>,
    <<"part", "def", "A", "{", "part", "1", "b", ";", "part", "a", ";", "}">>,
    <<"package", "A", "{", "alias", "1", "}">>,
    <<"package", "A", "{", "part", "def", "1", "{", "part", "a", ";", "}", "}">>,
    <<"filter", ";">>,
    <<"part", "a", "part", "b", ";">>,
    <<"part", "a", "{", "x", "(", ";", "}">>,
    <<"use", "{", "}">>,
    <<"comment", "{", "note", "part", "a", ";", "}">>,
    <<"part", "a", "=", "(", "1", ";">>,
    <<"part", "a", "=", "1", "+", "big", ";">>,
    <<"end", "[", "1", "part", "a", ";">>,
    <<"metadata", "a", "about", "b", "@", "M", "{", "a", "=", "1", ";", "}">>,
    <<"allocation", "a", "allocate", "b", "to", ";">>,
    <<"}">>}

\* Each alone, each behind and before one that is wrong, and some between.
Rows == {<<s>> : s \in Right \cup Wrong}
        \cup {<<s, t>> : s \in Wrong, t \in Right \cup Wrong} \cup {<<s, t>> : s \in Right, t \in Wrong}
        \cup {<<s, <<"part", "a", ";">>, t>> : s \in Wrong, t \in {<<"}">>, <<"filter", ";">>}}

ParserTexts == {Within(body, FlattenSeq(row)) : body \in Bodies, row \in Rows}

-----------------------------------------------------------------------------
Edit(start, end, replacement) == [start |-> start, end |-> end, replacement |-> replacement]

Package(inside) == <<"package", "P", "{">> \o inside \o <<"}">>

EditTexts == {
    Package(<<"state", "e", ";">>),
    <<"c", "k", "ref", "e", ";">>,
    <<"e", ";">> \o Package(<<"e", ";">>)}

\* Every edit with offsets up to 4, and every insertion or replacement with
\* every deletion up to 3, in either order.
EditPool == {Edit(s, e, r) : s \in 0..4, e \in 0..4, r \in {<<>>, <<"e", ";">>, <<"c", "k">>}}
InRange(r) == {e \in EditPool : e.start <= e.end /\ e.end <= 3 /\ e.replacement = r}
EditBatches ==
    {<<e>> : e \in EditPool} \cup {<<e, f>> : e \in InRange(<<"c", "k">>), f \in InRange(<<>>)}

SessionTexts == {Package(<<"d", ";">>), <<"$">>, <<"package", "P", ";">> \o Package(<<"d", ";">>)}

SessionBatches == {
    <<>>,
    <<Edit(0, 0, <<"d", ";">>)>>,
    <<Edit(0, 0, <<"$">>)>>,
    <<Edit(0, 1, <<>>)>>,
    <<Edit(3, 4, <<>>)>>,
    <<Edit(0, 1, <<>>), Edit(0, 0, <<"d", ";">>)>>,
    <<Edit(2, 2, <<";", "package", "R">>), Edit(0, 0, <<"part">>)>>,
    <<Edit(5, 6, <<"c", "k">>), Edit(1, 2, <<>>)>>}

EditedTexts == EditTexts \cup SessionTexts
AllTexts == EditedTexts \cup ParserTexts

MCByte == UNION {Range(t) : t \in AllTexts} \cup {"part", "R", "c", "k", "$"}

\* A text with "e" is given one batch of any edits, a text with "d" or "$" the
\* session batches in every order, the texts for the parser none.
AllBatches(s) ==
    IF "e" \in Range(s.text) THEN IF s.revision = 0 THEN EditBatches ELSE {}
    ELSE IF {"d", "$"} \cap Range(s.text) # {} \/ s.revision > 0 THEN SessionBatches
    ELSE {}

NoBatches(s) == {}

OneClient == {"a"}
TwoClients == {"a", "b"}
=============================================================================
