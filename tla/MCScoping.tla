------------------------------ MODULE MCScoping ------------------------------
EXTENDS Scoping

MCPowers == [plus |-> <<4, 6>>, dash |-> <<4, 5>>, star |-> <<5, 7>>, caret |-> <<8, 4>>,
             dot |-> <<8, 9>>, eq |-> <<1, 1>>, eqeq |-> <<4, 5>>, land |-> <<3, 3>>,
             bang |-> <<2, 3>>, arrow |-> <<1, -1>>, group |-> <<11, 12>>,
             lparen |-> <<10, -1>>, lbracket |-> <<10, -1>>]

Binary == {"plus", "dash", "star", "caret", "dot", "eq", "land"}
Id == <<"id">>
Op(x, o, y) == x \o <<o>> \o y
Within(x, o, c) == <<o>> \o x \o <<c>>

\* Up to four operands, and up to three of which one is a paren, a call, an index
\* or has a prefix.
Two   == {Op(Id, o, Id) : o \in Binary}
Three == {Op(x, o, Id) : x \in Two, o \in Binary}
Four  == {Op(x, o, Id) : x \in Three, o \in Binary}

Inner  == {Op(Id, o, Id) : o \in {"plus", "star", "eq"}} \cup {<<"dash", "id">>}
Calls  == {Id \o Within(x, "lparen", "rparen") :
             x \in {<<>>, Id, <<"id", "plus", "id", "comma", "id", "comma", "dash", "id">>,
                   <<"id", "lparen", "id", "rparen", "star", "id">>}}
Complex == {Within(x, "lparen", "rparen") : x \in Inner}
           \cup {Id \o Within(x, "lbracket", "rbracket") : x \in Inner \cup Calls}
           \cup Calls \cup {<<"dash", "id">>, <<"bang", "id">>}

Mixed == {Op(x, o, Id) : x \in Complex, o \in Binary}
         \cup {Op(Id, o, x) : x \in Complex, o \in Binary}
         \cup {Op(x, o, Id) : x \in {Op(x, p, Id) : x \in Complex, p \in Binary},
                              o \in Binary}
         \cup {Op(Id, o, x) : x \in {Op(x, p, Id) : x \in Complex, p \in Binary},
                              o \in Binary}

Declarations ==
    {<<"id", "id", "id">>,
     <<"id", "id", "lparen", "id", "id", "comma", "id", "id", "rparen">>,
     <<"id", "eq", "lbracket", "id", "comma", "id", "rbracket",
       "lparen", "id", "id", "rparen">>,
     <<"lbracket", "rbracket", "lparen", "rparen">>,
     <<"id", "id", "eq", "literal", "star", "literal">>}

Statements == Two \cup Complex \cup Declarations

\* Programs with blocks: two in a row, one or two inside of another, chains of else,
\* lambdas in arguments, bodies without braces, and blocks without a head.
Braces(x) == <<"lbrace">> \o x \o <<"rbrace">>
Cond   == <<"lparen", "id", "eqeq", "id", "rparen">>
If     == <<"if">> \o Cond
Heads  == {If, <<"while">> \o Cond, <<"id", "arrow">>,
           <<"id", "id", "lparen", "id", "id", "rparen">>}
ElseIf == <<"else">> \o If
S      == <<"id", "end">>
Bodies == {<<>>, S, <<"end">>, <<"return", "id", "end">>, <<"id", "eq", "id", "end", "id", "end">>}
Lambda(x) == <<"lbracket", "id", "rbracket", "lparen", "id", "id", "rparen">> \o Braces(x)

Chains(x, y, z) ==
    {If \o Braces(x) \o <<"else">> \o Braces(y),
     If \o Braces(<<>>) \o <<"else">> \o Braces(x),
     If \o x \o <<"else">> \o y,
     If \o Braces(x) \o <<"else">> \o y,
     If \o Braces(x) \o ElseIf \o Braces(y),
     If \o Braces(x) \o ElseIf \o Braces(y) \o <<"else">> \o Braces(z),
     If \o Braces(x) \o ElseIf \o Braces(y) \o ElseIf \o Braces(z)
        \o <<"else">> \o Braces(x),
     If \o Braces(x) \o ElseIf \o y \o <<"else">> \o z}

Blocks ==
    {h \o Braces(x) : h \in Heads, x \in Bodies}
    \cup {If \o S, <<"id", "arrow">> \o S,
          <<"id", "eq">> \o Lambda(S) \o <<"end">>,
          <<"id", "lparen">> \o Lambda(S) \o <<"comma", "id", "rparen", "end">>,
          If \o <<"id", "lparen">> \o Lambda(S) \o <<"rparen", "end">>}
    \cup Chains(S, S, S)
Inside == {S, Braces(S), If \o Braces(S), <<"id", "arrow">> \o S,
           <<"id", "eq">> \o Lambda(S) \o <<"end">>}

Blocked ==
    Blocks
    \cup {If \o x : x \in Blocks}
    \cup {x \o y : x, y \in Inside}
    \cup {h \o Braces(x \o y) : h \in Heads, x, y \in Inside}
    \cup UNION {Chains(x, y, S) : x, y \in Inside}
    \cup {<<"id", "lparen">> \o Lambda(x) \o <<"rparen", "end">> : x \in Blocks}

\* A closing without an opening, an opening without a closing, a holder at the end of a block.
Unbalanced ==
    {<<"id", "rparen">>, <<"id", "rbracket", "id", "end">>, <<"id", "plus", "rparen", "id", "id">>,
     <<"lparen", "id", "rbracket", "id", "rparen">>, <<"id", "lparen", "id">>,
     <<"id", "lbrace", "id", "rparen", "id", "rbrace", "id", "rbrace">>,
     If \o <<"lbrace">> \o If \o S, If \o S \o <<"rbrace">> \o S}
HeldNothing == {h \o Braces(If) : h \in Heads} \cup {If \o Braces(S \o <<"else">>)}

MCPrograms ==
    Three \cup Four \cup Mixed
    \cup {x \o <<"end">> \o y \o <<"end">> : x, y \in Statements}
    \cup Blocked \cup Unbalanced \cup HeldNothing
=============================================================================
