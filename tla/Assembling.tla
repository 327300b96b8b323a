----------------------------- MODULE Assembling -----------------------------
(***************************************************************************)
(* Stage a of the compiler (Acorn-Compiler.hpp, init_stage_a): the flat    *)
(* list of tokens becomes trees.  One direct pass goes over the list; the  *)
(* handler of a token moves nodes out of the list and into the children of *)
(* others, and moves the index of the pass back by what it took.           *)
(*                                                                         *)
(* A node is identified by its place in the source.  An operator that has  *)
(* come to the right of another tree takes it as its left operand, or goes *)
(* into it and takes its last child, depending on the binding powers of    *)
(* itself and of the root of that tree.  A closing paren or bracket looks  *)
(* for its opening along the right edges of the trees before it; an        *)
(* opening paren then becomes its first child.                             *)
(*                                                                         *)
(* A program is a sequence of kinds of tokens.  Braces and keywords stay   *)
(* where they are in this stage: module Scoping goes on with the trees.    *)
(***************************************************************************)
EXTENDS Integers, FiniteSets, Sequences, SequencesExt, FiniteSetsExt

CONSTANTS
    Programs,   \* the token lists to assemble
    Powers      \* Powers[k]: left and right binding power of the kind k

Brackets == {"lparen", "rparen", "lbracket", "rbracket", "lbrace", "rbrace"}
Keywords == {"if", "else", "while", "return"}
Operators == {k \in DOMAIN Powers : Powers[k][2] # -1}

\* Kinds that handlers give to nodes; the tokenizer makes no tokens of them.
Made == {"group", "arguments", "lambda", "scope"}
TokenKind == (DOMAIN Powers \cup Brackets \cup Keywords \cup {"id", "literal", "comma", "end"})
             \ Made

ASSUME PowersAssumption ==
    /\ DOMAIN Powers \cap ({"id", "literal", "comma", "end", "arguments", "lambda", "scope"}
                           \cup Keywords) = {}
    /\ {"lparen", "lbracket", "group"} \subseteq DOMAIN Powers
    /\ \A k \in DOMAIN Powers : Powers[k] \in (Nat \X (Nat \cup {-1}))

ASSUME ProgramsAssumption == Programs \subseteq Seq(TokenKind)

VARIABLES
    program,    \* the tokens
    kind,       \* kind[n]: type of the node n
    kids,       \* kids[n]: its children
    scopes,     \* scopes[n]: its scopes, those of the root node included
    unary,      \* nodes made unary operators
    parened,    \* nodes that carry the token of a paren as a qualifier
    token,      \* token[n]: the token node n stands for, another one's after copy
    result,     \* roots of the pass
    index,      \* its position, from 1
    left        \* node before it when the last handler returned, 0 if none

trees == <<kind, kids, scopes, unary, parened, token>>
vars == <<program, trees, result, index, left>>

Token == DOMAIN program
Node  == DOMAIN kind
Root  == 0

\* discard_types.  undefined is left out.
Discard == Brackets \cup {"comma", "end", "return"}

Lbp(n) == IF kind[n] \in DOMAIN Powers THEN Powers[kind[n]][1] ELSE -1
Rbp(n) == IF kind[n] \in DOMAIN Powers THEN Powers[kind[n]][2] ELSE -1

Init ==
    /\ program \in Programs
    /\ kind = program
    /\ kids = [n \in Token |-> <<>>]
    /\ scopes = [n \in {Root} \cup Token |-> <<>>]
    /\ unary = {} /\ parened = {}
    /\ token = [n \in Token |-> n]
    /\ result = [n \in Token |-> n]
    /\ index = 1
    /\ left = 0

-----------------------------------------------------------------------------
(* The default handler. *)

Current == result[index]

\* The pass: left is the node at the index the handler has left.
Advance(res, i) ==
    /\ result' = res
    /\ left' = IF i \in DOMAIN res THEN res[i] ELSE 0
    /\ index' = i + 1

IsAtom(n) == Lbp(n) = -1 /\ kind[n] \notin Discard

\* Mutant: the atom taken stays in the list.
TakeRightKeeps(n, res, ch, i) ==
    LET takes == Rbp(n) # -1 /\ i <= Len(res) /\ IsAtom(res[i])
    IN  /\ kids' = IF takes THEN [ch EXCEPT ![n] = Append(@, res[i])] ELSE ch
        /\ Advance(res, i - 1)

\* The end of the handler: an operator takes the node at i if that is an atom.
TakeRight(n, res, ch, i) ==
    LET takes == Rbp(n) # -1 /\ i <= Len(res) /\ IsAtom(res[i])
    IN  /\ kids' = IF takes THEN [ch EXCEPT ![n] = Append(@, res[i])] ELSE ch
        /\ Advance(IF takes THEN RemoveAt(res, i) ELSE res, i - 1)

\* An operator of kind k, right of one of kind l, binds what is between them.  One
\* that binds more to the left than to the right is right associative.
StealsFrom(k, l) ==
    Powers[k][1] > (IF Powers[k][2] < Powers[k][1] THEN Powers[l][2] ELSE Powers[l][1])

Binds(n) == kind[n] \in DOMAIN Powers

Steals(x, y) == Binds(y) /\ StealsFrom(kind[x], kind[y])

\* Mutant: no operator is seen to wait.
WaitsNever(n) == FALSE

\* An operator that still waits for its right operand.
Waits(n) == n \notin unary /\ Len(kids[n]) = 1

\* There is an operand to the left.  A tree that ends in an opening is none: the
\* operand begins after that.
HasLeft(n) ==
    /\ left # 0
    /\ Lbp(n) > 0
    /\ kind[left] \notin Discard
    /\ (kids[left] # <<>> /\ ~Waits(left)) => kind[Last(kids[left])] \notin Discard

\* Mutant: the test for a paren is dropped.
GoesIntoParens(n) == Rbp(left) # -1 /\ (Steals(n, left) \/ Waits(left))

GoesInto(n) ==
    /\ Rbp(left) # -1
    /\ Steals(n, left) \/ Waits(left)
    /\ left \notin parened
    /\ ~(kind[n] = "lparen" /\ kind[left] = "group")

TakeLeft ==
    LET n == Current
    IN  /\ index <= Len(result)
        /\ Binds(n) /\ HasLeft(n) /\ ~GoesInto(n)
        /\ TakeRight(n, RemoveAt(result, index - 1),
                     [kids EXCEPT ![n] = Append(@, left)], index)
        /\ UNCHANGED <<program, scopes, kind, unary, parened, token>>

\* Mutant: the child taken stays where it was.
HandedKeeps(n) == [kids EXCEPT ![n] = Append(@, Last(kids[left])), ![left] = Append(@, n)]

\* The operator takes the place of the last child of left, and the child.
Handed(n) ==
    [kids EXCEPT ![n] = Append(@, Last(kids[left])), ![left] = Append(Front(@), n)]

\* Only the last child of a complete operator is taken.
InsertIntoLeft ==
    LET n    == Current
        full == Len(kids[left]) > 1 \/ (left \in unary /\ Len(kids[left]) = 1)
        ch   == IF full THEN Handed(n) ELSE [kids EXCEPT ![left] = Append(@, n)]
    IN  /\ index <= Len(result)
        /\ Binds(n) /\ HasLeft(n) /\ GoesInto(n)
        /\ TakeRight(n, RemoveAt(result, index), ch, index)
        /\ UNCHANGED <<program, scopes, kind, unary, parened, token>>

LongNames == {"eqeq", "land", "arrow"}

\* Nothing to the left: operators of one character become unary.
MakeUnary ==
    LET n == Current
    IN  /\ index <= Len(result)
        /\ Binds(n) /\ ~HasLeft(n)
        /\ unary' = IF kind[n] \in Discard \cup LongNames THEN unary ELSE unary \cup {n}
        /\ TakeRight(n, result, kids, index + 1)
        /\ UNCHANGED <<program, scopes, kind, parened, token>>

-----------------------------------------------------------------------------
(* Identifiers, and tokens without a handler. *)

\* int n: identifiers after an identifier become its children.
Juxtaposed ==
    /\ index <= Len(result)
    /\ kind[Current] = "id" /\ left # 0 /\ kind[left] = "id"

Juxtapose ==
    LET last == CHOOSE l \in index .. Len(result) :
                    /\ \A i \in index .. l : kind[result[i]] = "id"
                    /\ l < Len(result) => kind[result[l + 1]] # "id"
    IN  /\ Juxtaposed
        /\ kids' = [kids EXCEPT ![left] = @ \o SubSeq(result, index, last)]
        /\ Advance(SubSeq(result, 1, index - 1) \o SubSeq(result, last + 1, Len(result)),
                   index - 1)
        /\ UNCHANGED <<program, scopes, kind, unary, parened, token>>

Closes == [rparen |-> "lparen", rbracket |-> "lbracket"]

Skip ==
    /\ index <= Len(result)
    /\ ~Binds(Current) /\ ~Juxtaposed /\ kind[Current] \notin DOMAIN Closes
    /\ Advance(result, index)
    /\ UNCHANGED <<program, trees>>

-----------------------------------------------------------------------------
(* The handlers of closing parens and brackets. *)

\* The node an opening of kind k would be at in the tree of n: down the right
\* edge to the first of that kind or to a leaf.
OnEdge(k) ==
    LET down[n \in Node] ==
            IF kids[n] = <<>> \/ kind[n] = k THEN n ELSE down[Last(kids[n])]
    IN  down

\* The roots before the closing that have an opening, and the last of them.
Opened(k)   == {i \in 1 .. index - 1 : kind[OnEdge(k)[result[i]]] = k}
OpenedAt(k) == Max(Opened(k))

\* All that the handlers of a closing have in common: the roots between opening
\* and closing leave the list with it.
Gathered(i)  == SubSeq(result, i + 1, index - 1)
Remaining(i) == SubSeq(result, 1, i) \o SubSeq(result, index + 1, Len(result))

Closing(c) == index <= Len(result) /\ kind[Current] = c
Closed(c)  == Closing(c) /\ Opened(Closes[c]) # {}

\* ( with the list of captures of a lambda before it: the list becomes the
\* lambda and gets the paren as the node of its arguments.
IsLambda(on) == Len(kids[on]) = 1 /\ kind[kids[on][1]] = "group"

MakeLambda ==
    LET i       == OpenedAt("lparen")
        on      == OnEdge("lparen")[result[i]]
        grouper == kids[on][1]
        swap(s) == ReplaceAll(s, on, grouper)
    IN  /\ Closed("rparen") /\ IsLambda(on)
        /\ kids' = [n \in Node |->
                        CASE n = on      -> Gathered(i)
                          [] n = grouper -> Append(kids[n], on)
                          [] OTHER       -> swap(kids[n])]
        /\ kind' = [kind EXCEPT ![on] = "arguments", ![grouper] = "lambda"]
        /\ Advance(swap(Remaining(i)), i)
        /\ UNCHANGED <<program, scopes, unary, parened, token>>

\* A paren without children is given what was gathered, and the paren becomes
\* its first child, which is gone then; of a call or a declaration it becomes what
\* stood before it, which is given what was gathered, or whose last child is.
CloseParen ==
    LET i     == OpenedAt("lparen")
        on    == OnEdge("lparen")[result[i]]
        inner == IF kids[on] = <<>> THEN Gathered(i) ELSE kids[on]
        first == Head(inner)
        ch    == IF inner = <<>> THEN kids
                 ELSE [kids EXCEPT ![on] = kids[first], ![first] = <<>>]
        last  == Last(ch[on])
    IN  /\ Closed("rparen") /\ ~IsLambda(on)
        /\ kids' = CASE kids[on] = <<>>  -> [ch EXCEPT ![on] = @ \o (IF inner = <<>> THEN <<>> ELSE Tail(inner))]
                     [] kids[on] # <<>> /\ ch[on] = <<>> -> [ch EXCEPT ![on] = Gathered(i)]
                     [] OTHER -> [ch EXCEPT ![last] = @ \o Gathered(i)]
        /\ IF inner = <<>>
           THEN UNCHANGED <<kind, token, unary>> /\ parened' = parened \cup {on}
           ELSE /\ kind' = [kind EXCEPT ![on] = kind[first]]
                /\ token' = [token EXCEPT ![on] = token[first]]
                /\ unary' = IF first \in unary THEN unary \cup {on} ELSE unary
                /\ parened' = parened \cup {on}
        /\ Advance(Remaining(i), i)
        /\ UNCHANGED <<program, scopes>>

\* A bracket stays, as the operator of the group.
CloseBracket ==
    LET i  == OpenedAt("lbracket")
        on == OnEdge("lbracket")[result[i]]
    IN  /\ Closed("rbracket")
        /\ kids' = [kids EXCEPT ![on] = @ \o Gathered(i)]
        /\ kind' = [kind EXCEPT ![on] = "group"]
        /\ Advance(Remaining(i), i)
        /\ UNCHANGED <<program, scopes, unary, parened, token>>

\* unmatched closing paren: the closing goes to the end of the list, what was before it
\* is gone, and the index stays.
UnmatchedClosing ==
    /\ \E c \in DOMAIN Closes : Closing(c) /\ ~Closed(c)
    /\ Advance(Append(SubSeq(result, index + 1, Len(result)), Current), index)
    /\ UNCHANGED <<program, trees>>

Next ==
    \/ TakeLeft \/ InsertIntoLeft \/ MakeUnary
    \/ Juxtapose \/ Skip
    \/ MakeLambda \/ CloseParen \/ CloseBracket \/ UnmatchedClosing
=============================================================================
