----------------------------- MODULE CalcParser -----------------------------
(***************************************************************************)
(* The parser of calc (calc/src/Parser.cpp): a recursive descent with one     *)
(* token of look-ahead, which reports an error and goes on.                   *)
(*                                                                         *)
(* calls has one frame per active parse function, and ret is what the last    *)
(* one returned.  A node of the syntax tree is an element of the heap nodes,   *)
(* and an Expr* its index, 0 for null.                                       *)
(*                                                                         *)
(* The text is chosen while it is read: token i is any member of the i-th set  *)
(* of a pattern, or the text ends before it.  A token is its text.            *)
(***************************************************************************)
EXTENDS Integers, Sequences

CONSTANTS Patterns,     \* sequences of sets of tokens
          Idents,       \* the tokens that are identifiers
          Numbers       \* the tokens that are numbers

EndOfInput == "eoi"

ASSUME PatternsAssumption == Patterns \subseteq Seq(SUBSET STRING) /\ EndOfInput \in STRING

VARIABLES text,       \* what may come behind the current token
          tok,        \* Tok
          read,       \* the tokens advance has passed, without those skipped
          calls,      \* active parse functions, innermost last
          ret,        \* the last result of one
          nodes,      \* the Factors and BinaryOps made so far
          names,      \* Vars
          tree,       \* the Expr of what parseCalc returns
          HasError

parserVars == <<text, tok, read, calls, ret, nodes, names, tree, HasError>>

Null == 0

AddOperators == {"+", "-"}
MulOperators == {"*", "/", "%", "^"}
Operators == AddOperators \cup MulOperators

\* Where the loop behind a factor stops; ":", ",", "(", names, numbers, "with" and
\* unknown characters are skipped.
FactorEnd == Operators \cup {")", EndOfInput}

(* Frames: what the function does next, and its local variables. *)

Frame(fn, at) == [fn |-> fn, at |-> at, Left |-> Null, Op |-> "none"]

Top == calls[Len(calls)]
At(fn, at) == calls # <<>> /\ Top.fn = fn /\ Top.at = at

GoTo(at) == calls' = [calls EXCEPT ![Len(calls)].at = at]

\* The innermost function calls fn, and continues at "at".
Call(fn, first, at) ==
  calls' = Append([calls EXCEPT ![Len(calls)].at = at], Frame(fn, first))

Return(E) == /\ calls' = SubSeq(calls, 1, Len(calls) - 1)
             /\ ret' = E

(* The tokens. *)

next ==
  \/ tok' = EndOfInput /\ text' = <<>>
  \/ text # <<>> /\ tok' \in Head(text) /\ text' = Tail(text)

advance == next /\ read' = Append(read, tok)
skip == next /\ UNCHANGED read
stay == UNCHANGED <<text, tok, read>>

error == HasError' = TRUE

(* parseCalc. *)

WithClause ==
  /\ At("parseCalc", "start")
  /\ \/ tok = "with" /\ advance /\ GoTo("name")
     \/ tok # "with" /\ stay /\ Call("parseExpr", "operand", "end")
  /\ UNCHANGED <<ret, nodes, names, tree, HasError>>

\* A clause that takes any token for a name.
WithNameAny ==
  /\ At("parseCalc", "name") /\ tok # EndOfInput
  /\ names' = Append(names, tok) /\ advance /\ GoTo("names")
  /\ UNCHANGED <<ret, nodes, tree, HasError>>

WithName ==
  /\ At("parseCalc", "name") /\ tok \in Idents
  /\ names' = Append(names, tok) /\ advance /\ GoTo("names")
  /\ UNCHANGED <<ret, nodes, tree, HasError>>

WithNames ==
  /\ At("parseCalc", "names")
  /\ \/ tok = "," /\ GoTo("name")
     \/ tok = ":" /\ Call("parseExpr", "operand", "end")
  /\ advance /\ UNCHANGED <<ret, nodes, names, tree, HasError>>

\* goto _error
WithError ==
  /\ \/ At("parseCalc", "name") /\ tok \notin Idents
     \/ At("parseCalc", "names") /\ tok \notin {",", ":"}
  /\ error /\ GoTo("_error") /\ stay
  /\ UNCHANGED <<ret, nodes, names, tree>>

Drain == /\ At("parseCalc", "_error") /\ tok # EndOfInput
         /\ skip /\ UNCHANGED <<calls, ret, nodes, names, tree, HasError>>

\* parseCalc returns and parse expects the end of the input.
Finish ==
  /\ \/ At("parseCalc", "end") /\ tree' = ret
     \/ At("parseCalc", "_error") /\ tok = EndOfInput /\ tree' = Null
  /\ calls' = <<>> /\ stay
  /\ HasError' = (HasError \/ tok # EndOfInput)
  /\ UNCHANGED <<ret, nodes, names>>

(* parseExpr and parseTerm. *)

Joining == calls # <<>> /\ Top.fn \in {"parseExpr", "parseTerm"}
OperatorsOf(fn) == IF fn = "parseExpr" THEN AddOperators ELSE MulOperators

\* A parseTerm that takes a whole term on the right of every operator.
OperandAlwaysTerm(fn, op) == IF fn = "parseExpr" \/ op # "none" THEN "parseTerm" ELSE "parseFactor"

\* An exponent is a whole term.
Operand(fn, op) == IF fn = "parseExpr" \/ op = "^" THEN "parseTerm" ELSE "parseFactor"

ParseOperand ==
  /\ Joining /\ Top.at = "operand"
  /\ LET callee == Operand(Top.fn, Top.Op)
     IN  Call(callee, IF callee = "parseTerm" THEN "operand" ELSE "start", "joined")
  /\ stay /\ UNCHANGED <<ret, nodes, names, tree, HasError>>

Binary(op, left, right) == [op |-> op, left |-> left, right |-> right]

\* The operands swapped.
JoinSwapped ==
  /\ Joining /\ Top.at = "joined"
  /\ nodes' = IF Top.Op = "none" THEN nodes
              ELSE Append(nodes, Binary(Top.Op, ret, Top.Left))
  /\ calls' = [calls EXCEPT ![Len(calls)].at = "operator",
                            ![Len(calls)].Left = IF Top.Op = "none" THEN ret ELSE Len(nodes')]
  /\ stay /\ UNCHANGED <<ret, names, tree, HasError>>

Join ==
  /\ Joining /\ Top.at = "joined"
  /\ nodes' = IF Top.Op = "none" THEN nodes
              ELSE Append(nodes, Binary(Top.Op, Top.Left, ret))
  /\ calls' = [calls EXCEPT ![Len(calls)].at = "operator",
                            ![Len(calls)].Left = IF Top.Op = "none" THEN ret ELSE Len(nodes')]
  /\ stay /\ UNCHANGED <<ret, names, tree, HasError>>

TakeOperator ==
  /\ Joining /\ Top.at = "operator" /\ tok \in OperatorsOf(Top.fn)
  /\ calls' = [calls EXCEPT ![Len(calls)].at = "operand", ![Len(calls)].Op = tok]
  /\ advance /\ UNCHANGED <<ret, nodes, names, tree, HasError>>

ReturnLeft ==
  /\ Joining /\ Top.at = "operator" /\ tok \notin OperatorsOf(Top.fn)
  /\ Return(Top.Left) /\ stay /\ UNCHANGED <<nodes, names, tree, HasError>>

(* parseFactor.  Left is its Res. *)

Factor(kind, val) == [op |-> kind, val |-> val]

Leaf ==
  /\ At("parseFactor", "start") /\ tok \in Idents \cup Numbers
  /\ nodes' = Append(nodes, Factor(IF tok \in Idents THEN "ident" ELSE "number", tok))
  /\ calls' = [calls EXCEPT ![Len(calls)].at = "behind", ![Len(calls)].Left = Len(nodes')]
  /\ advance /\ UNCHANGED <<ret, names, tree, HasError>>

OpenParen ==
  /\ At("parseFactor", "start") /\ tok = "("
  /\ advance /\ Call("parseExpr", "operand", "close")
  /\ UNCHANGED <<ret, nodes, names, tree, HasError>>

\* consume reports another token, and the case falls through.
CloseParen ==
  /\ At("parseFactor", "close")
  /\ calls' = [calls EXCEPT ![Len(calls)].at = "behind", ![Len(calls)].Left = ret]
  /\ \/ tok = ")" /\ advance /\ UNCHANGED HasError
     \/ tok # ")" /\ stay /\ error
  /\ UNCHANGED <<ret, nodes, names, tree>>

\* A missing factor that is not reported.
NoFactorSilent ==
  /\ At("parseFactor", "start") /\ tok \notin Idents \cup Numbers \cup {"("}
  /\ GoTo("behind") /\ stay
  /\ UNCHANGED <<ret, nodes, names, tree, HasError>>

NoFactor ==
  /\ At("parseFactor", "start") /\ tok \notin Idents \cup Numbers \cup {"("}
  /\ error /\ GoTo("behind") /\ stay
  /\ UNCHANGED <<ret, nodes, names, tree>>

\* A loop that does not advance.
SkipNot == /\ At("parseFactor", "behind") /\ tok \notin FactorEnd
           /\ UNCHANGED parserVars

Skip ==
  /\ At("parseFactor", "behind") /\ tok \notin FactorEnd
  /\ skip /\ UNCHANGED <<calls, ret, nodes, names, tree, HasError>>

ReturnFactor ==
  /\ At("parseFactor", "behind") /\ tok \in FactorEnd
  /\ Return(Top.Left) /\ stay /\ UNCHANGED <<nodes, names, tree, HasError>>

ParserInit ==
  /\ \E p \in Patterns :
       \/ tok = EndOfInput /\ text = <<>>
       \/ p # <<>> /\ tok \in Head(p) /\ text = Tail(p)
  /\ read = <<>> /\ calls = << Frame("parseCalc", "start") >> /\ ret = Null
  /\ nodes = <<>> /\ names = <<>> /\ tree = Null /\ HasError = FALSE

ParserStep ==
  \/ WithClause \/ WithName \/ WithNames \/ WithError \/ Drain \/ Finish
  \/ ParseOperand \/ Join \/ TakeOperator \/ ReturnLeft
  \/ Leaf \/ OpenParen \/ CloseParen \/ NoFactor \/ Skip \/ ReturnFactor
=============================================================================
