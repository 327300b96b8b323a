----------------------------- MODULE CallFrames -----------------------------
(***************************************************************************)
(* Calls, returns and loops while a program executes (Acorn-Compiler.hpp,  *)
(* Acorn-Script.hpp).  A variable of a function has a column that is meant *)
(* to have one row per activation; its Ptr's sidx says which row the code  *)
(* reads.  A call moves the variables of the callee one row down, a return *)
(* or the end of the body one row up, but only those whose column is in    *)
(* the stack pool.  While an argument is evaluated the callee's variables  *)
(* it mentions are moved up again, to the row of the caller, and those     *)
(* whose column is elsewhere with them.                                    *)
(*                                                                         *)
(* Each block of code is a travel pass over a scope.  return, break and    *)
(* continue set the pass's state, which ends it; whoever started the pass  *)
(* gets the state as a result and passes it on, consumes it or drops it.   *)
(*                                                                         *)
(* The program is any that the lexical rules allow: an argument mentions   *)
(* variables of the callee only in a recursive call, return is inside a    *)
(* function, break and continue are inside a loop or inside the scope of a *)
(* lock method, which they end as they would a loop.  Constructs has those *)
(* of the legal constructs that upset the rows or the loops which scripts  *)
(* use.  An error ends the program, a call deeper than 500 is an error.    *)
(***************************************************************************)
EXTENDS Integers, FiniteSets, Sequences, SequencesExt

CONSTANTS
    Func,
    Var,
    OwnerOf,    \* OwnerOf[v]: the function that declares v
    Stackable,  \* variables whose column is in the stack pool
    RowMod,     \* rows are counted modulo RowMod, 2^32 in the code
    Constructs,
    MaxFrames,  \* bound: passes and calls in progress, the root among them
    MaxTimes    \* bound: runs of a counted loop

ASSUME OwnerAssumption == OwnerOf \in [Var -> Func]
ASSUME StackableAssumption == Stackable \subseteq Var
ASSUME ConstructsAssumption ==
    Constructs \subseteq
        {"selfArgs", "returnInScope", "returnInIter", "returnInFor", "continueInIter"}
ASSUME BoundsAssumption ==
    /\ MaxFrames \in Nat \ {0} /\ MaxTimes \in Nat
    /\ RowMod \in Nat /\ RowMod > MaxFrames

VARIABLES
    loc,    \* loc[f]: loc of the scope of f, its depth of recursion
    sidx,   \* sidx[v]: the row variable v is at
    rows,   \* rows[v]: length of the column of v, 1 when its data was made
    stack   \* passes and calls in progress, innermost last

vars == <<loc, sidx, rows, stack>>

VarsOf(f) == {v \in Var : OwnerOf[v] = f}

\* Those that a call of f moves.
StackedOf(f) == VarsOf(f) \cap Stackable

-----------------------------------------------------------------------------
(* What is in progress: a call whose arguments are evaluated, or a pass.   *)

\* func, row: of a call; ascended: the variables moved up for the argument in
\* progress; state: of a pass; index: of a counted loop; runs: history, how often
\* its body was entered.
Call(f, r) == [kind |-> "args", func |-> f, row |-> r, evaluating |-> FALSE, ascended |-> {}]
Body(c)    == [kind |-> "body", func |-> c.func, row |-> c.row, state |-> 0]
Block(k)   == [kind |-> k, state |-> 0]
Counted(k)  == [kind |-> k, state |-> 0, index |-> 0, runs |-> 1]

Loops == {"while", "repeat", "for", "iter"}

\* What a break or continue ends.  The scope of acquire or of another lock
\* method is a pass like the body of a loop, whose result is dropped: a break
\* in it leaves the scope, and the loop around it goes on.
Exits == Loops \cup {"scope"}

Top     == Last(stack)
Running == Top.kind # "args" /\ Top.state = 0
Room    == Len(stack) < MaxFrames

Push(fr)    == stack' = Append(stack, fr)
Replace(fr) == stack' = Append(Front(stack), fr)

\* Ending a pass: the pass that started it gets state r.
PopWith(r) ==
    stack' = [Front(stack) EXCEPT ![Len(stack) - 1] =
                IF @.kind = "args" THEN @ ELSE [@ EXCEPT !.state = r]]

\* The innermost frame of one of the kinds, 0 if there is none.
InnermostOf(s, kinds) ==
    LET at == {i \in DOMAIN s : s[i].kind \in kinds}
    IN  IF at = {} THEN 0 ELSE CHOOSE i \in at : \A j \in at : j <= i

Innermost(kinds) == InnermostOf(stack, kinds)

CurrentBody == Innermost({"body"})

\* The function whose code is being executed has such a frame in this activation.
Within(kinds) == Innermost(kinds) > CurrentBody

Init ==
    /\ loc = [f \in Func |-> 0]
    /\ sidx = [v \in Var |-> 0]
    /\ rows = [v \in Var |-> 1]
    /\ stack = <<Block("root")>>

-----------------------------------------------------------------------------
(* Rows. *)

\* Mutant of Descend: a row is added only when none is left below.
DescendLate(f) ==
    LET l == loc[f] + 1
    IN  /\ loc' = [loc EXCEPT ![f] = l]
        /\ sidx' = [v \in Var |-> IF v \in StackedOf(f) THEN l ELSE sidx[v]]
        /\ rows' = [v \in Var |-> IF v \in StackedOf(f) /\ rows[v] < l
                                  THEN rows[v] + 1 ELSE rows[v]]

\* descend_call_scope
Descend(f) ==
    LET l == loc[f] + 1
    IN  /\ loc' = [loc EXCEPT ![f] = l]
        /\ sidx' = [v \in Var |-> IF v \in StackedOf(f) THEN l ELSE sidx[v]]
        /\ rows' = [v \in Var |-> IF v \in StackedOf(f) /\ rows[v] <= l
                                  THEN rows[v] + 1 ELSE rows[v]]

\* ascend_call_scope
Ascend(f) ==
    LET l == loc[f] - 1
    IN  /\ loc' = [loc EXCEPT ![f] = l]
        /\ sidx' = [v \in Var |-> IF v \in StackedOf(f) THEN l ELSE sidx[v]]
        /\ UNCHANGED rows

Move(A, d) == sidx' = [v \in Var |-> IF v \in A THEN (sidx[v] + d) % RowMod ELSE sidx[v]]

RowsUnchanged == UNCHANGED <<loc, sidx, rows>>

-----------------------------------------------------------------------------
(* call_func *)

\* A call from a pass, or inside an argument of another call.  With selfArgs
\* also one of f inside an argument of f that mentions a variable of f.
StartCall(f) ==
    /\ Room
    /\ Running \/ (Top.kind = "args" /\ Top.evaluating)
    /\ \/ "selfArgs" \in Constructs
       \/ \A i \in DOMAIN stack :
             stack[i].kind = "args" /\ stack[i].func = f => stack[i].ascended = {}
    /\ Descend(f)
    /\ Push(Call(f, loc[f] + 1))

\* The argument may mention the variables A of the callee: only in the code of
\* the callee itself, and an argument around it mentions them too.
Mentions(A) ==
    /\ A \subseteq VarsOf(Top.func)
    /\ A # {} => CurrentBody > 0 /\ stack[CurrentBody].func = Top.func
    /\ \A i \in CurrentBody + 1 .. Len(stack) - 1 :
          stack[i].kind = "args" /\ stack[i].func = Top.func => A \subseteq stack[i].ascended

\* ascend_all_values
StartArgument(A) ==
    /\ Top.kind = "args" /\ ~Top.evaluating
    /\ Mentions(A)
    /\ Move(A, -1)
    /\ Replace([Top EXCEPT !.evaluating = TRUE, !.ascended = A])
    /\ UNCHANGED <<loc, rows>>

\* Mutant of EndArgument: the variables stay where the argument had them.
EndArgumentAbove ==
    /\ Top.kind = "args" /\ Top.evaluating
    /\ UNCHANGED sidx
    /\ Replace([Top EXCEPT !.evaluating = FALSE, !.ascended = {}])
    /\ UNCHANGED <<loc, rows>>

\* The parameter is assigned and the variables are moved down again.
EndArgument ==
    /\ Top.kind = "args" /\ Top.evaluating
    /\ Move(Top.ascended, 1)
    /\ Replace([Top EXCEPT !.evaluating = FALSE, !.ascended = {}])
    /\ UNCHANGED <<loc, rows>>

EnterBody ==
    /\ Top.kind = "args" /\ ~Top.evaluating
    /\ Replace(Body(Top))
    /\ RowsUnchanged

\* Mutant of EndBody: the end of the body ascends, return or not.
EndBodyAscends ==
    /\ Top.kind = "body"
    /\ Ascend(Top.func)
    /\ PopWith(0)

\* "If the return didn't already ascend": any state but 0 says it did.
EndBody ==
    /\ Top.kind = "body"
    /\ IF Top.state = 0 THEN Ascend(Top.func) ELSE RowsUnchanged
    /\ PopWith(0)

-----------------------------------------------------------------------------
(* return, break, continue *)

SetState(s) == Replace([Top EXCEPT !.state = s])

\* The return of a => body belongs to that body and does not ascend, nor does
\* one outside functions.
Return ==
    /\ Running
    /\ IF CurrentBody > 0 /\ ~Within({"iter"})
       THEN /\ Within({"scope"}) => "returnInScope" \in Constructs
            /\ Within({"for"}) => "returnInFor" \in Constructs
            /\ Ascend(stack[CurrentBody].func)
       ELSE /\ CurrentBody > 0 => "returnInIter" \in Constructs
            /\ RowsUnchanged
    /\ SetState(1)

\* There is a loop or a lock scope to end, in the same function.
CanJump == Innermost(Exits) > Innermost({"body", "root"})

Break ==
    /\ Running
    /\ CanJump
    /\ SetState(2)
    /\ RowsUnchanged

Continue ==
    /\ Running
    /\ CanJump
    /\ Innermost(Exits) = Innermost({"iter"}) => "continueInIter" \in Constructs
    /\ SetState(3)
    /\ RowsUnchanged

-----------------------------------------------------------------------------
(* Blocks and loops. *)

\* if, else, hide_block, node blocks; while; scopes of acquire, read_acquire,
\* try_lock_then and its like.
StartBlock(k) ==
    /\ Room
    /\ Running
    /\ Push(Block(k))
    /\ RowsUnchanged

\* repeat, for, iter: any number of runs.
StartCounted(k) ==
    /\ Room
    /\ Running
    /\ Push(Counted(k))
    /\ RowsUnchanged

\* Mutant of EndBlock: the result of an if is not handed on.
EndBlockDrops ==
    /\ Top.kind = "if"
    /\ PopWith(0)
    /\ RowsUnchanged

EndBlock ==
    /\ Top.kind = "if"
    /\ PopWith(Top.state)
    /\ RowsUnchanged

\* Whatever ended the scope, the pass around it goes on.
EndScope ==
    /\ Top.kind = "scope"
    /\ PopWith(0)
    /\ RowsUnchanged

\* A return is handed on, a break and a continue are not.
LeaveLoop == PopWith(IF Top.state = 1 THEN 1 ELSE 0)

\* Mutant of EndWhile: a break is handed on, as a return is.
EndWhilePassesBreak ==
    /\ Top.kind = "while"
    /\ \/ PopWith(IF Top.state = 3 THEN 0 ELSE Top.state)
       \/ Top.state \in {0, 3} /\ SetState(0)
    /\ RowsUnchanged

\* The condition may hold again unless the loop was left.
EndWhile ==
    /\ Top.kind = "while"
    /\ \/ LeaveLoop
       \/ Top.state \in {0, 3} /\ SetState(0)
    /\ RowsUnchanged

NextRun(i) ==
    \/ i < MaxTimes /\ Replace([Top EXCEPT !.state = 0, !.index = i, !.runs = @ + 1])
    \/ PopWith(0)

\* Mutant of EndRepeat: continue skips the increment.
EndRepeatStays ==
    /\ Top.kind = "repeat"
    /\ IF Top.state \in {0, 3}
       THEN NextRun(IF Top.state = 3 THEN Top.index ELSE Top.index + 1)
       ELSE LeaveLoop
    /\ RowsUnchanged

EndRepeat ==
    /\ Top.kind = "repeat"
    /\ IF Top.state \in {0, 3} THEN NextRun(Top.index + 1) ELSE LeaveLoop
    /\ RowsUnchanged

\* The increment is executed after every run, in whatever rows a jump left the
\* variables, and only then is the state looked at.
EndFor ==
    /\ Top.kind = "for"
    /\ IF Top.state \in {0, 3} THEN NextRun(Top.index + 1) ELSE LeaveLoop
    /\ RowsUnchanged

\* continue goes back to the condition and skips the increment.
EndIter ==
    /\ Top.kind = "iter"
    /\ IF Top.state \in {0, 3}
       THEN NextRun(IF Top.state = 3 THEN Top.index ELSE Top.index + 1)
       ELSE LeaveLoop
    /\ RowsUnchanged

\* The pass over the root is over and the next program begins.
EndRoot ==
    /\ Top.kind = "root"
    /\ Top.state # 0
    /\ SetState(0)
    /\ RowsUnchanged

-----------------------------------------------------------------------------
Calls ==
    \/ \E f \in Func : StartCall(f)
    \/ \E A \in SUBSET Var : StartArgument(A)
    \/ EndArgument \/ EnterBody \/ EndBody

Jumps == Return \/ Break \/ Continue

Blocks ==
    \/ \E k \in {"if", "while", "scope"} : StartBlock(k)
    \/ \E k \in {"repeat", "for", "iter"} : StartCounted(k)
    \/ EndBlock \/ EndScope \/ EndWhile \/ EndRepeat \/ EndFor \/ EndIter
    \/ EndRoot

Next == Calls \/ Jumps \/ Blocks

Spec == Init /\ [][Next]_vars

-----------------------------------------------------------------------------
(* Properties. *)

Frames == [kind : {"args"}, func : Func, row : Nat, evaluating : BOOLEAN,
           ascended : SUBSET Var]
          \cup [kind : {"body"}, func : Func, row : Nat, state : 0 .. 3]
          \cup [kind : {"root", "if", "while", "scope"}, state : 0 .. 3]
          \cup [kind : {"repeat", "for", "iter"}, state : 0 .. 3, index : Nat, runs : Nat]

\* loc stays a natural number.
TypeOK ==
    /\ loc \in [Func -> Nat]
    /\ sidx \in [Var -> 0 .. RowMod - 1]
    /\ rows \in [Var -> Nat]
    /\ stack \in Seq(Frames)
    /\ stack # <<>>

Activations(f) == {i \in DOMAIN stack : stack[i].kind \in {"args", "body"} /\ stack[i].func = f}

\* A return of f has been executed and its passes are being left.
Unwinding(f) ==
    /\ Top.kind # "args" /\ Top.state = 1
    /\ CurrentBody > 0 /\ stack[CurrentBody].func = f

\* Every descent is ascended once, whichever way the body is left: by its end
\* or by a return in any nesting of blocks and loops.
FramesMatch ==
    \A f \in Func :
        loc[f] = Cardinality(Activations(f)) - (IF Unwinding(f) THEN 1 ELSE 0)

\* The code of a function, the increments of its for loops included, reads its
\* variables in the row of its own activation, however many calls of the
\* function have come and gone since; a variable outside the stack pool has one
\* row for all of them, and is back in it.
BodyRows ==
    (Running \/ Top.kind = "for") /\ CurrentBody > 0 =>
        LET b == stack[CurrentBody]
        IN  \A v \in VarsOf(b.func) :
                /\ sidx[v] = IF v \in Stackable THEN b.row ELSE 0
                /\ sidx[v] < rows[v]

\* While an argument is evaluated the variables it mentions are read in the row
\* of the caller, and the parameters are in the row of the call.
ArgumentRows ==
    Top.kind = "args" =>
        \A v \in StackedOf(Top.func) :
            sidx[v] = IF v \in Top.ascended THEN stack[CurrentBody].row ELSE Top.row

\* What an argument mentions is read in a row that its column has.
MentionsExist ==
    Top.kind = "args" => \A v \in Top.ascended : sidx[v] < rows[v]

\* A break or continue is used up by a loop or a lock scope of the function it
\* is in.  It never ends a body, whose call_func would take it for a return
\* that has ascended, nor the program.
JumpsStayInFunction ==
    \A i \in DOMAIN stack :
        stack[i].kind \in {"body", "root"} => stack[i].state \in {0, 1}

\* A counted loop runs its body once for each index.
OncePerIndex ==
    \A i \in DOMAIN stack :
        stack[i].kind \in {"repeat", "for", "iter"} => stack[i].runs = stack[i].index + 1

-----------------------------------------------------------------------------
(* Inductive strengthening. *)

\* Only the innermost pass may have been told to end, and what evaluates the
\* argument of a call is a call or its body.
Shape ==
    /\ Len(stack) <= MaxFrames
    /\ \A i \in DOMAIN stack : stack[i].kind = "root" <=> i = 1
    /\ \A i \in 1 .. Len(stack) - 1 :
          /\ stack[i].kind = "args" => /\ stack[i].evaluating
                                      /\ stack[i + 1].kind \in {"args", "body"}
          /\ stack[i].kind # "args" => stack[i].state = 0

Leaving(s) == Top.kind # "args" /\ Top.state \in s

\* A jump in progress has not left the frames it may leave.
JumpHasExit  == Leaving({2, 3}) => CanJump
ContinueGoes == Leaving({3}) => Innermost(Exits) # Innermost({"iter"})
ReturnInBody(kinds) == Leaving({1}) /\ CurrentBody > 0 => ~Within(kinds)

\* How many of the frames S are not above i.
UpTo(S, i) == Cardinality({j \in S : j <= i})

\* The calls of one function have the rows 1, 2, 3, ... from the outermost on.
RowsByRank ==
    \A f \in Func : \A i \in Activations(f) : stack[i].row = UpTo(Activations(f), i)

\* A call whose argument mentions its variables is the innermost call of its
\* function, made from the body of the activation before.
Ascended == {i \in DOMAIN stack : stack[i].kind = "args" /\ stack[i].ascended # {}}

MentionsOwn(i) ==
    /\ stack[i].evaluating
    /\ stack[i].ascended \subseteq VarsOf(stack[i].func)
    /\ \A j \in DOMAIN stack :
          j > i /\ stack[j].kind \in {"args", "body"} => stack[j].func # stack[i].func
    /\ \E c \in 1 .. i - 1 :
          /\ stack[c].kind = "body" /\ stack[c].func = stack[i].func
          /\ stack[c].row + 1 = stack[i].row
          /\ \A j \in c + 1 .. i - 1 : stack[j].kind # "body"

AscendedCalls == \A i \in Ascended : MentionsOwn(i)

\* Where each variable is.
Raised == UNION {stack[i].ascended : i \in Ascended}
Level(v) == IF v \in Stackable THEN loc[OwnerOf[v]] ELSE 0

Positions ==
    \A v \in Var :
        /\ sidx[v] = IF v \notin Raised THEN Level(v)
                     ELSE IF v \in Stackable THEN Level(v) - 1 ELSE RowMod - 1
        /\ Level(v) < rows[v]

IInv ==
    /\ TypeOK /\ Shape
    /\ JumpsStayInFunction /\ JumpHasExit
    /\ OncePerIndex /\ ContinueGoes
    /\ FramesMatch /\ ReturnInBody({"scope", "iter", "for"})
    /\ RowsByRank /\ AscendedCalls /\ Positions
=============================================================================
