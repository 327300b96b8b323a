------------------------------ MODULE Scoping ------------------------------
(***************************************************************************)
(* The compiler from tokens to blocks.  Stage a (module Assembling) makes  *)
(* trees; stage s (init_stage_s) makes scopes of what is between braces;   *)
(* of stage t this module has the handler of else, which joins scopes to   *)
(* the if before, and the order in which a resolving pass comes to it.     *)
(*                                                                         *)
(* In stage s an opening brace is taken as a child by the node before it.  *)
(* A closing brace looks for it along the right edges of the trees before  *)
(* it, as a closing paren does, and through one scope; what is between the *)
(* two becomes a scope of the node that held the opening.  Handlers start  *)
(* passes over the children of their node, and those of if, else and =>    *)
(* process the node to the right when it is no brace, and wrap it in a     *)
(* scope: the stage is a stack of passes.                                  *)
(*                                                                         *)
(* Every owner() is the node that has the scope; it is not kept apart.     *)
(***************************************************************************)
EXTENDS Assembling

VARIABLES
    stage,      \* the stage of the compiler
    passes,     \* the passes in progress over lists of nodes, innermost last
    inScope     \* in_scope of each node, Root outside of all scopes

parseVars == <<vars, stage, passes, inScope>>

\* Nodes whose handler wraps the node to the right.  catch has it too.
Holders == {"if", "else", "arrow"}

\* A pass over the children of a node: where it is, how far the handler of that node
\* has come, the holders whose handlers wait for it, and how many scopes of the
\* node passed over are done.
Pass(n) == [over |-> n, at |-> 1, step |-> "begun", held |-> <<>>, sub |-> 0]

Top     == Last(passes)
ListOf(n) == IF n = Root THEN result ELSE kids[n]
list    == ListOf(Top.over)
Passed  == Top.at > Len(list)
node    == list[Top.at]

\* Replacing the list of the pass, with the children ch otherwise.
Rewrite(new, ch) ==
    IF Top.over = Root
    THEN result' = new /\ kids' = ch
    ELSE kids' = [ch EXCEPT ![Top.over] = new] /\ UNCHANGED result

Continue(pass) == passes' = Append(Front(passes), pass)

\* The handler of the node at i returns: to the pass, or to a holder.
Returned(pass, i) ==
    IF pass.held = <<>> THEN [pass EXCEPT !.at = i + 1, !.step = "begun"]
    ELSE [pass EXCEPT !.at = i, !.step = "held"]

ParseInit ==
    /\ Init
    /\ stage = "assembling"
    /\ passes = <<>>
    /\ inScope = [n \in Token |-> Root]

Assemble ==
    /\ stage = "assembling"
    /\ Next
    /\ stage' = IF index' > Len(result') + 1 THEN "failed" ELSE stage
    /\ UNCHANGED <<passes, inScope>>

\* compile(): every node is in the root scope, and a direct pass begins.
BeginScoping ==
    /\ stage = "assembling" /\ index > Len(result)
    /\ stage' = "scoping"
    /\ passes' = <<Pass(Root)>>
    /\ left' = 0
    /\ UNCHANGED <<program, trees, result, index, inScope>>

-----------------------------------------------------------------------------
(* Stage s: the default handler and those of operators. *)

Scopes(step) == stage = "scoping" /\ ~Passed /\ Top.step = step
BraceNext == Top.at < Len(list) /\ kind[list[Top.at + 1]] = "lbrace"

Special == Holders \cup {"lbrace", "rbrace"}

\* A nested direct pass over the children.
PassChildren ==
    /\ Scopes("begun")
    /\ kind[node] \notin Special /\ kids[node] # <<>>
    /\ passes' = Front(passes) \o <<[Top EXCEPT !.step = "inner"], Pass(node)>>
    /\ UNCHANGED <<vars, stage, inScope>>

\* An opening brace to the right becomes the last child; that of an operator goes to
\* its last operand (the list of captures, if it is a lambda).
TakeBrace ==
    LET taker == IF kind[node] \in Operators /\ kids[node] # <<>> THEN Last(kids[node]) ELSE node
    IN  /\ \/ Scopes("inner")
           \/ Scopes("begun") /\ kind[node] \notin Special /\ kids[node] = <<>>
        /\ IF BraceNext
           THEN Rewrite(RemoveAt(list, Top.at + 1),
                        [kids EXCEPT ![taker] = Append(@, list[Top.at + 1])])
           ELSE UNCHANGED <<result, kids>>
        /\ Continue(Returned(Top, Top.at))
        /\ UNCHANGED <<program, kind, scopes, unary, parened, token, index, left,
                       stage, inScope>>

LeaveBrace ==
    /\ Scopes("begun") /\ kind[node] = "lbrace"
    /\ Continue(Returned(Top, Top.at))
    /\ UNCHANGED <<vars, stage, inScope>>

\* The list is at its end: the scopes of the node passed over are next.
EndPass ==
    LET mine == scopes[Top.over]
        next == Front(passes)
    IN  /\ stage = "scoping" /\ Passed
        /\ IF Top.sub < Len(mine)
           THEN /\ passes' = Front(passes) \o
                             <<[Top EXCEPT !.sub = @ + 1], Pass(mine[Top.sub + 1])>>
                /\ UNCHANGED stage
           ELSE IF next # <<>> THEN passes' = next /\ UNCHANGED stage
                ELSE passes' = <<Pass(Root)>> /\ stage' = "typing"
        /\ UNCHANGED <<vars, inScope>>

-----------------------------------------------------------------------------
(* Stage s: if, else and =>. *)

HoldBrace ==
    /\ Scopes("begun") /\ kind[node] \in Holders
    /\ BraceNext \/ Top.at = Len(list)
    /\ IF BraceNext
       THEN Rewrite(RemoveAt(list, Top.at + 1),
                    [kids EXCEPT ![node] = Append(@, list[Top.at + 1])])
       ELSE UNCHANGED <<result, kids>>
    /\ Continue(Returned(Top, Top.at))
    /\ UNCHANGED <<program, kind, scopes, unary, parened, token, index, left,
                   stage, inScope>>

\* ctx.index()++; process_node(ctx,right).
HoldNode ==
    /\ Scopes("begun") /\ kind[node] \in Holders
    /\ Top.at < Len(list) /\ ~BraceNext /\ kind[list[Top.at + 1]] # "rbrace"
    /\ Continue([Top EXCEPT !.at = @ + 1, !.held = Append(@, node)])
    /\ UNCHANGED <<vars, stage, inScope>>

\* A closing brace to the right takes the holder out of the list before it is given its
\* scope.  What comes of it is not followed.
HoldClosing ==
    /\ Scopes("begun") /\ kind[node] \in Holders
    /\ Top.at < Len(list) /\ kind[list[Top.at + 1]] = "rbrace"
    /\ stage' = "failed"
    /\ UNCHANGED <<vars, passes, inScope>>

\* The nodes of a tree, without those in its scopes.
Tree(n) ==
    LET tree[m \in Node] == {m} \cup UNION {tree[k] : k \in Range(kids[m])}
    IN  tree[n]

\* Mutant: the node is not placed in its scope.
PlacedNowhere(nodes, s) == inScope

\* place_node_in_scope
Placed(nodes, s) ==
    LET placed == UNION {Tree(m) : m \in nodes}
    IN  [n \in Node |-> IF n \in placed THEN s ELSE inScope[n]]

\* A function that has a value for one more node.
With(f, n, v) == [m \in DOMAIN f \cup {n} |-> IF m = n THEN v ELSE f[m]]

\* The rest of the handler of the holder: a new scope around the node.
Wrap ==
    LET holder == Last(Top.held)
        new    == Len(kind) + 1
        body   == node
    IN  /\ Scopes("held")
        /\ Rewrite(RemoveAt(list, Top.at), With(kids, new, <<body>>))
        /\ kind' = Append(kind, "scope") /\ token' = With(token, new, 0)
        /\ scopes' = With([scopes EXCEPT ![holder] = Append(@, new)], new, <<>>)
        /\ inScope' = With(Placed({body}, new), new, Root)
        /\ Continue(Returned([Top EXCEPT !.held = Front(@)], Top.at - 1))
        /\ UNCHANGED <<program, unary, parened, index, left, stage>>

-----------------------------------------------------------------------------
(* Stage s: the handler of a closing brace. *)

\* Mutant: no search through scopes.
OpeningByChildren(n) == OnEdge("lbrace")[n]

\* Where the search that begins at n ends.  It goes on in the i-th scope of where the
\* i-th way down has ended.
Opening(n) ==
    LET edge == OnEdge("lbrace")
        through[at \in Node \X (Nat \ {0})] ==
            LET m == at[1]
                i == at[2]
            IN  IF kind[m] = "lbrace" \/ i > Len(scopes[m]) THEN m
                ELSE through[<<edge[scopes[m][i]], i + 1>>]
    IN  through[<<edge[n], 1>>]

Openings == {i \in 1 .. Top.at - 1 : kind[Opening(list[i])] = "lbrace"}

\* The node that has the child n; the one passed over if n is in its list.
HolderOf(n) ==
    LET holders == {m \in Node : n \in Range(kids[m])}
    IN  IF holders = {} THEN Root ELSE CHOOSE m \in holders : TRUE

\* The brace becomes a scope with what is between as its children.  One that nothing
\* has taken is a scope of the node passed over, and not in the list any more.
CloseBrace ==
    /\ Scopes("begun") /\ kind[node] = "rbrace" /\ Openings # {}
    /\ \E i \in {Max(Openings)} : \E on \in {Opening(list[i])} :
        LET holder == HolderOf(on)
            inner  == SubSeq(list, i + 1, Top.at - 1)
            before == SubSeq(list, 1, i)
            rest   == (IF holder = Top.over THEN Front(before) ELSE before)
                      \o SubSeq(list, Top.at + 1, Len(list))
            given  == [kids EXCEPT ![on] = @ \o inner]
        IN  /\ Rewrite(rest, IF holder = Top.over THEN given
                             ELSE [given EXCEPT ![holder] = Front(@)])
            /\ kind' = [kind EXCEPT ![on] = "scope"]
            /\ scopes' = [scopes EXCEPT ![holder] = Append(@, on)]
            /\ inScope' = Placed(Range(given[on]), on)
            /\ Continue(Returned(Top, i))
            /\ stage' = IF i > Len(rest) THEN "failed" ELSE stage
    /\ UNCHANGED <<program, unary, parened, token, index, left>>

\* unmatched closing brace: the brace goes to the end of the list, what was before it
\* is gone, and the pass goes on from where it was, if that is still in the list.
Unmatched ==
    LET rest == Append(SubSeq(list, Top.at + 1, Len(list)), node)
    IN  /\ Scopes("begun") /\ kind[node] = "rbrace" /\ Openings = {}
        /\ Rewrite(rest, kids)
        /\ Continue(Returned(Top, Top.at))
        /\ stage' = IF Top.at > Len(rest) THEN "failed" ELSE stage
        /\ UNCHANGED <<program, kind, scopes, unary, parened, token, index, left,
                       inScope>>

-----------------------------------------------------------------------------
(* Stage t: a resolving pass comes first to the nodes with scopes of its   *)
(* list, then to the others, then to the scopes inside.                    *)

Types == stage = "typing" /\ ~Passed
Due   == Top.step = IF scopes[node] = <<>> THEN "second" ELSE "begun"
IsSeparator(n) == kind[n] \in {"end", "comma"}
AfterIf == left # 0 /\ kind[left] = "if"

\* Down the ifs that are the body of an else joined to the one before.
ChainEnd(n) ==
    LET last[m \in Node] ==
            LET body == kids[scopes[m][2]]
            IN  IF Len(scopes[m]) = 2 /\ body # <<>> /\ kind[Head(body)] = "if"
                THEN last[Head(body)] ELSE m
    IN  last[n]

\* The else is gone; the node before it is the left of the next one, whatever it is.
Join(to) ==
    /\ Types /\ Due /\ kind[node] = "else" /\ scopes[node] # <<>>
    /\ Top.at > 1 /\ AfterIf
    /\ scopes' = [scopes EXCEPT ![to] = Append(@, Head(scopes[node])), ![node] = Tail(@)]
    /\ Rewrite(RemoveAt(list, Top.at), kids)
    /\ left' = list[Top.at - 1]
    /\ UNCHANGED <<program, kind, unary, parened, token, index, stage, passes, inScope>>

\* Mutant: no way down the chain.
JoinFirst == Join(left)

\* A third scope would never be given: the search does not end at an if that has two.
JoinElse == Join(ChainEnd(left)) /\ Len(scopes[ChainEnd(left)]) # 2

\* Nothing has been passed before the else, or the else has no block.
LostElse ==
    /\ Types /\ Due /\ kind[node] = "else" /\ Top.at > 1
    /\ left = 0 \/ (AfterIf /\ scopes[node] = <<>>)
    /\ stage' = "failed"
    /\ UNCHANGED <<vars, passes, inScope>>

\* discard: a list of separators only is an error, since after the last one the pass
\* looks for the node at index 0.
Drop ==
    /\ Types /\ Due /\ IsSeparator(node)
    /\ Rewrite(RemoveAt(list, Top.at), kids)
    /\ left' = IF Top.at > 1 THEN list[Top.at - 1] ELSE 0
    /\ stage' = IF Len(list) = 1 THEN "failed" ELSE stage
    /\ UNCHANGED <<program, kind, scopes, unary, parened, token, index, passes, inScope>>

PassOver ==
    /\ Types
    /\ Due => /\ ~IsSeparator(node)
              /\ kind[node] = "else" /\ Top.at > 1 => left # 0 /\ ~AfterIf
    /\ left' = IF Due THEN node ELSE left
    /\ Continue([Top EXCEPT !.at = @ + 1])
    /\ UNCHANGED <<program, trees, result, index, stage, inScope>>

PassAgain ==
    /\ stage = "typing" /\ Passed /\ Top.step = "begun"
    /\ Continue([Top EXCEPT !.at = 1, !.step = "second"])
    /\ UNCHANGED <<vars, stage, inScope>>

\* standard_pass_child_scopes, and then those of the nodes themselves.
ScopesIn(nodes) ==
    LET below[n \in Node] ==
            FlattenSeq([i \in 1 .. Len(kids[n]) |-> scopes[kids[n][i]] \o below[kids[n][i]]])
    IN  FlattenSeq([i \in 1 .. Len(nodes) |-> below[nodes[i]] \o scopes[nodes[i]]])

PassScopes ==
    LET inside == ScopesIn(list)
        next   == Front(passes) \o Reverse([i \in 1 .. Len(inside) |-> Pass(inside[i])])
    IN  /\ stage = "typing" /\ Passed /\ Top.step = "second"
        /\ left' = 0
        /\ passes' = next
        /\ stage' = IF next = <<>> THEN "done" ELSE stage
        /\ UNCHANGED <<program, trees, result, index, inScope>>

ParseNext ==
    \/ Assemble \/ BeginScoping
    \/ PassChildren \/ TakeBrace \/ LeaveBrace \/ EndPass
    \/ HoldBrace \/ HoldNode \/ HoldClosing \/ Wrap
    \/ CloseBrace \/ Unmatched
    \/ JoinElse \/ LostElse \/ Drop \/ PassOver \/ PassAgain \/ PassScopes

ParseSpec == ParseInit /\ [][ParseNext]_parseVars /\ WF_parseVars(ParseNext)

-----------------------------------------------------------------------------
(* What the properties say of a program. *)

\* How many parens and brackets, and how many braces, are open before the token i.
Open(p, i, opening, closing) ==
    Cardinality({j \in 1 .. i - 1 : p[j] \in opening})
    - Cardinality({j \in 1 .. i - 1 : p[j] \in closing})
Depth(p, i) == Open(p, i, {"lparen", "lbracket"}, {"rparen", "rbracket"})
Level(p, i) == Open(p, i, {"lbrace"}, {"rbrace"})

\* Every block stands after a node that can have it.
Headed(p) ==
    \A l \in DOMAIN p : p[l] = "lbrace" =>
        l > 1 /\ p[l - 1] \notin {"end", "lbrace", "rbrace"}

\* The first token of the body of an if or =>.
Body(p, h) ==
    IF p[h] # "if" THEN h + 1
    ELSE Min({r \in DOMAIN p : r > h /\ p[r] = "rparen" /\ Depth(p, r) = Depth(p, h) + 1}) + 1

\* An if or => without braces whose body has a block.
BlockHeld(p) ==
    \E h \in DOMAIN p : p[h] \in {"if", "arrow"} /\
        LET b == Body(p, h)
        IN  /\ b \in DOMAIN p /\ p[b] # "lbrace"
            /\ \E l \in DOMAIN p :
                /\ p[l] = "lbrace" /\ l > b
                /\ Level(p, l) = Level(p, h) /\ Depth(p, l) = Depth(p, h)
                /\ \A k \in b .. l : Level(p, k) >= Level(p, h)
                /\ \A k \in b .. l : p[k] = "end" => Level(p, k) # Level(p, h)

\* One, or an else, that is the last thing in a block.
NothingHeld(p) ==
    \E h \in DOMAIN p : p[h] \in Holders /\ Body(p, h) \in DOMAIN p /\ p[Body(p, h)] = "rbrace"

\* A block of separators only.
NothingInBlock(p) ==
    \E l, r \in DOMAIN p :
        /\ p[l] = "lbrace" /\ p[r] = "rbrace" /\ l + 1 < r
        /\ \A i \in l + 1 .. r - 1 : p[i] \in {"end", "comma"}

\* Every closing has an opening with as many of both between them.
Pairs == {<<"lparen", "rparen">>, <<"lbracket", "rbracket">>, <<"lbrace", "rbrace">>}
Balanced(p) ==
    \A i \in DOMAIN p, pair \in Pairs : p[i] \in Range(pair) =>
        \E j \in DOMAIN p :
            /\ {p[i], p[j]} = Range(pair)
            /\ p[Min({i, j})] = pair[1]
            /\ \A q \in Pairs :
                Open(p, i, {q[1]}, {q[2]}) - Open(p, j, {q[1]}, {q[2]}) =
                    IF q # pair THEN 0 ELSE IF i < j THEN -1 ELSE 1

IsRegular(p) ==
    Balanced(p) /\ Headed(p) /\ ~BlockHeld(p) /\ ~NothingHeld(p) /\ ~NothingInBlock(p)

\* The sets are the same in every state, and are not computed in each.
BalancedPrograms == {p \in Programs : Balanced(p)}
RegularPrograms  == {p \in Programs : IsRegular(p)}
Regular == program \in RegularPrograms

-----------------------------------------------------------------------------
(* Properties. *)

\* A node is in one place: a list of children, the roots among them, or of scopes.
OnePlace ==
    LET under(m) == Range(ListOf(m)) \cup Range(scopes[m])
        parents  == {m \in {Root} \cup Node : under(m) # {}}
    IN  \A m \in parents :
        LET mine == under(m)
        IN  /\ IsInjective(ListOf(m)) /\ IsInjective(scopes[m])
            /\ Range(ListOf(m)) \cap Range(scopes[m]) = {}
            /\ \A n \in parents : n > m => mine \cap under(n) = {}

\* Type invariant.  No handler leaves a node in two places, in whichever lists it moves
\* nodes, and a pass never stands before its list nor far behind it.
TypeOK ==
    /\ kind \in [Node -> DOMAIN Powers \cup Brackets \cup Keywords \cup
                         {"id", "literal", "comma", "end", "arguments", "lambda", "scope"}]
    /\ \A n \in Node : kids[n] \in Seq(Node)
    /\ \A n \in {Root} \cup Node : scopes[n] \in Seq(Node)
    /\ unary \cup parened \subseteq Token
    /\ token \in [Node -> {0} \cup Token]
    /\ inScope \in [Node -> {Root} \cup Node]
    /\ result \in Seq(Node)
    /\ OnePlace
    /\ stage = "assembling" =>
        /\ index \in 1 .. Len(result) + 1
        /\ left = IF index = 1 THEN 0 ELSE result[index - 1]
    /\ stage \in {"scoping", "typing"} => Top.at \in 1 .. Len(list) + 1

\* The tokens of a tree in the order of the source, if the tree is right: an operator
\* with a left operand after that, anything else before its children, and scopes
\* last.
Infix(n) == Binds(n) /\ kids[n] # <<>> /\ token[kids[n][1]] < token[n]
Reading ==
    LET read[n \in Node] ==
            LET of(s) == FlattenSeq([i \in 1 .. Len(s) |-> read[s[i]]])
                own   == IF token[n] = 0 THEN <<>> ELSE <<token[n]>>
            IN  (IF Infix(n) THEN read[kids[n][1]] \o own \o of(Tail(kids[n]))
                 ELSE own \o of(kids[n])) \o of(scopes[n])
    IN  read

\* Tokens that nodes need not have: of an if with an else, the separator before that is
\* still behind both until it is discarded.
Silent == Brackets \cup IF stage \in {"typing", "done"} THEN {"comma", "end", "else"} ELSE {}
Spoken(s) == SelectSeq(s, LAMBDA i : program[i] \notin Silent)

\* After every step of every stage the trees, read from left to right, give the
\* program: each token is there once and none has changed places, though handlers
\* take nodes from lists that passes are over and move the index of the pass.
ReadsAsWritten ==
    Regular =>
        LET forest == Spoken(FlattenSeq([i \in 1 .. Len(result) |-> Reading[result[i]]]))
        IN  /\ \A i \in 1 .. Len(forest) - 1 : forest[i] < forest[i + 1]
            /\ {n \in Token : program[n] \notin Silent} \subseteq Range(forest)

Reachable ==
    LET under[n \in Node] ==
            {n} \cup UNION {under[m] : m \in Range(kids[n]) \cup Range(scopes[n])}
    IN  UNION {under[n] : n \in Range(result)}

ClosedAt(l) ==
    Min({r \in Token : r > l /\ program[r] = "rbrace" /\ Level(program, r) = Level(program, l) + 1})

\* No tree reaches over the end of a statement that is not inside its blocks; what a
\* pair of parens became (the node of the opening one, which stands for the first token
\* inside) has nothing from outside of them; and a scope is just what its braces
\* are around, when they are closed.
BoundariesHold ==
    Regular =>
        /\ \A r \in Range(result) :
            LET tokens == Range(Reading[r])
            IN  Cardinality(tokens) > 1 =>
                    \A n \in Min(tokens) .. Max(tokens) :
                        program[n] = "end" =>
                            \/ Level(program, n) > Level(program, Min(tokens))
                            \/ program[n + 1] = "else"
        /\ \A n \in parened \cap Reachable :
            token[n] > n =>
                \A j \in Range(Reading[n]) :
                    j > n /\ \A k \in n + 1 .. j : Depth(program, k) > Depth(program, n)
        /\ \A n \in Reachable \cap Token : kind[n] = "scope" =>
            Range(Spoken(Reading[n])) =
                {k \in n .. ClosedAt(n) : program[k] \notin Silent}
                 \cup ({n} \cap Range(Spoken(Reading[n])))

Together(i, j) ==
    /\ Depth(program, i) = Depth(program, j)
    /\ \A k \in i .. j :
        /\ Depth(program, k) >= Depth(program, i)
        /\ Depth(program, k) = Depth(program, i) => program[k] \notin {"comma", "end", "lbrace", "rbrace"}

\* No operator binds more than one before it that binds more than one before that.
Precedes(i, j) == i < j /\ Together(i, j) /\ StealsFrom(program[j], program[i])
RisesOnce ==
    LET ops == {i \in Token : program[i] \in DOMAIN Powers \ {"lparen"}}
    IN  \A i, j, k \in ops : ~(Precedes(i, j) /\ Precedes(j, k))

\* In the end every operator with a left operand has two operands and
\* every other one, and they respect the binding powers: an operator below another one
\* to its right has stolen from it, one to its left has kept its operands.  With
\* ReadsAsWritten this leaves one tree.  The handler looks one operator back only; in a
\* program where the powers rise twice (a = b + c * d) it does not hold.
ByBindingPower ==
    stage = "done" /\ program \in BalancedPrograms =>
        \A n \in Reachable :
            /\ kind[n] \in Operators \ {"group"} =>
                    Len(kids[n]) = IF Infix(n) THEN 2 ELSE 1
            /\ RisesOnce =>
                \A i \in 1 .. Len(kids[n]) :
                    LET m == kids[n][i]
                    IN  Binds(n) /\ Infix(m) /\ m \notin parened =>
                            IF Infix(n) /\ i = 1 THEN ~StealsFrom(kind[n], kind[m])
                            ELSE kind[n] = "group" \/ StealsFrom(program[token[m]], kind[n])

\* A node's in_scope, by which find_value_in_scope begins, is the innermost scope around
\* it, whatever the order in which the braces around it were closed.
InnermostScope ==
    stage \in {"typing", "done"} =>
        /\ \A r \in Range(result) : \A m \in Tree(r) : inScope[m] = Root
        /\ \A n \in Reachable : \A s \in Range(scopes[n]) :
            \A k \in Range(kids[s]) : \A m \in Tree(k) : inScope[m] = s

\* "To chain else ifs": an else after the block of an if joins that if, in whichever
\* list both are and however many were joined before.  An else after a statement
\* without braces need not.
ElseJoinsBlock ==
    stage = "done" /\ Regular =>
        \A e \in Token : program[e] = "else" /\ program[e - 1] = "rbrace" =>
            \E n \in Reachable :
                /\ kind[n] = "if" /\ Len(scopes[n]) = 2
                /\ ClosedAt(scopes[n][1]) = e - 1
                /\ Min(Range(Reading[scopes[n][2]])) = e + 1

\* The stages come to their end, though handlers move the index of the pass back, and
\* nothing stops them but a block inside a statement that an if or a => without
\* braces holds, one without a head, or one of separators only.
StagesEnd == <>(stage = "done" \/ (stage = "failed" /\ ~IsRegular(program)))
=============================================================================
