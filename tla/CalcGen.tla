------------------------------ MODULE CalcGen -------------------------------
(***************************************************************************)
(* The code generator of calc (ToIRVisitor in calc/src/CodeGen.cpp), behind   *)
(* its parser and its check of declarations (calc/src/Sema.cpp).              *)
(*                                                                         *)
(* visits has one frame per active visit.  ir is the function main and the     *)
(* IRBuilder: the instructions of each block, the block it inserts into, the   *)
(* landing pad.  A value is a constant, poison or the result of an instruction. *)
(* Two constants are folded as they are emitted, without a check of overflow.  *)
(***************************************************************************)
EXTENDS CalcParser, SequencesExt

CONSTANTS MaxWord,      \* the largest int
          Literal(_),   \* the value of a number, beyond MaxWord if it is too long
          Garbage       \* what an int that was not initialised may hold

ASSUME WordAssumption == MaxWord \in Nat \ {0}
ASSUME LiteralAssumption == \A t \in Numbers : Literal(t) \in Nat

VARIABLES phase,      \* "parse", "visit", "run"; at the end what main returns
          visits,     \* active visits, innermost last
          V,
          nameMap,
          ir

genVars == <<phase, visits, V, nameMap, ir>>

Word == -MaxWord - 1..MaxWord

ASSUME GarbageAssumption == Garbage \subseteq Word

Wrap(n) == ((n + MaxWord + 1) % (2 * MaxWord + 2)) - MaxWord - 1

(* Values and instructions. *)

Const(n) == [kind |-> "const", n |-> n]
Poison == [kind |-> "poison"]
Inst(id) == [kind |-> "inst", id |-> id]
NullValue == [kind |-> "null"]

IsConst(v) == v.kind \in {"const", "poison"}
Zero == Const(0)
One == Const(1)

\* id names the result; to are the blocks a terminator goes to.
Instr(op, id, a, b, to) == [op |-> op, id |-> id, a |-> a, b |-> b, to |-> to]
Arith(op, id, a, b) == Instr(op, id, a, b, <<>>)
Phi(id, in) == [op |-> "phi", id |-> id, in |-> in, to |-> <<>>]
Branch(to) == Instr("br", Null, Zero, Zero, <<to>>)
Return0 == Instr("ret", Null, Zero, Zero, <<>>)

Terminators == {"br", "brzero", "while", "throw", "unreachable", "catch", "ret"}

(* The builder. *)

\* B with instructions behind those of its block, with new blocks.
Emit(B, code) == [B EXCEPT !.blocks[B.cur] = @ \o code]
AddBlocks(B, bs) == [B EXCEPT !.blocks = @ \o bs]
Size(B) == Len(B.blocks)

\* What a function of the generator leaves behind, and what it returns.
Gives(B, v) == [b |-> B, v |-> v]

Magnitude(n) == IF n < 0 THEN -n ELSE n
Quotient(a, b) ==
  LET q == Magnitude(a) \div Magnitude(b) IN IF (a < 0) = (b < 0) THEN q ELSE -q

Exact(op, a, b) ==
  CASE op = "+" -> a + b
    [] op = "-" -> a - b
    [] op = "*" -> a * b
    [] op = "/" -> Quotient(a, b)
    [] op = "%" -> a - b * Quotient(a, b)

\* Division by zero, and of the least int by -1, has no result.
Undefined(op, a, b) == op \in {"/", "%"} /\ (b = 0 \/ (a = -MaxWord - 1 /\ b = -1))

Fold(op, L, R) ==
  IF L = Poison \/ R = Poison \/ Undefined(op, L.n, R.n) THEN Poison
  ELSE Const(Wrap(Exact(op, L.n, R.n)))

Create(B, op, L, R) ==
  IF IsConst(L) /\ IsConst(R) THEN Gives(B, Fold(op, L, R))
  ELSE Gives([Emit(B, <<Arith(op, B.id + 1, L, R)>>) EXCEPT !.id = @ + 1], Inst(B.id + 1))

(* Division. *)

BranchOnZero(v, true, false) == Instr("brzero", Null, v, Zero, <<true, false>>)
Throw(pad) == Instr("throw", Null, Zero, Zero, <<pad + 1, pad>>)

\* The landing pad and the block behind a throw.
LandingPad == << << Instr("catch", Null, Zero, Zero, <<>>) >>,
                 << Instr("unreachable", Null, Zero, Zero, <<>>) >> >>

\* addThrow in block b, which is empty.  The first one makes the landing pad.
addThrow(B, b) ==
  LET pad == IF B.lpad = Null THEN Size(B) + 1 ELSE B.lpad
  IN  [B EXCEPT !.blocks = [@ EXCEPT ![b] = <<Throw(pad)>>]
                           \o (IF B.lpad = Null THEN LandingPad ELSE <<>>),
                !.lpad = pad]

\* The dividend is tested instead of the divisor.
DivideTestingLeft(B, op, L, R) ==
  LET true == Size(B) + 1
      false == Size(B) + 2
      C == AddBlocks(Emit(B, <<BranchOnZero(L, true, false)>>), << <<>>, <<>> >>)
  IN  Create([addThrow(C, true) EXCEPT !.cur = false], op, L, R)

Divide(B, op, L, R) ==
  LET true == Size(B) + 1
      false == Size(B) + 2
      C == AddBlocks(Emit(B, <<BranchOnZero(R, true, false)>>), << <<>>, <<>> >>)
  IN  Create([addThrow(C, true) EXCEPT !.cur = false], op, L, R)

(* generateExponent. *)

\* The multiplications for an exponent from 2 to 9: r(k) is the result of the k-th.
Products(base, n, r(_)) ==
  CASE n = 4 -> << <<base, base>>, <<r(1), r(1)>> >>
    [] n = 5 -> << <<base, base>>, <<r(1), r(1)>>, <<r(2), base>> >>
    [] n \notin {4, 5} -> [k \in 1..n - 1 |-> <<IF k = 1 THEN base ELSE r(k - 1), base>>]

\* The power of a constant, folded as it is emitted.
Folded(base, n) ==
  LET folded[k \in 1..n] == IF k = 1 THEN base ELSE Fold("*", folded[k - 1], base)
  IN  folded[n]

\* An exponent that is a constant from 0 to 9.
Expand(B, base, n) ==
  LET r(k) == Inst(B.id + k)
      products == Products(base, n, r)
      code == [k \in DOMAIN products |->
                 Arith("*", B.id + k, products[k][1], products[k][2])]
  IN  CASE n = 0 -> Gives(B, One)
        [] n = 1 -> Gives(B, base)
        [] n > 1 /\ IsConst(base) -> Gives(B, Folded(base, n))
        [] n > 1 /\ ~IsConst(base) ->
             Gives([Emit(B, code) EXCEPT !.id = @ + Len(code)], r(Len(code)))

\* The loop: result and newResult are the instructions id + 1 and id + 2; the counter
\* is a cell of memory, named as newResult, which is set before and decreased in it.
SetCounter(id, exponent) == Instr("set", id + 2, exponent, Zero, <<>>)

Incoming(p, v, q, w) == [b \in {p, q} |-> IF b = p THEN v ELSE w]

Loop(id, from, base, loop, exit) ==
  << Phi(id + 1, Incoming(from, base, loop, Inst(id + 2))),
     Arith("*", id + 2, Inst(id + 1), base),
     Instr("while", id + 2, Zero, Zero, <<loop, exit>>) >>

\* Any other constant: at least one multiplication.
LoopConstant(B, base, exponent) ==
  LET loop == Size(B) + 1
      exit == Size(B) + 2
      entered == Emit(B, <<SetCounter(B.id, exponent), Branch(loop)>>)
  IN  Gives([AddBlocks(entered, << Loop(B.id, B.cur, base, loop, exit), <<>> >>)
               EXCEPT !.id = @ + 2, !.cur = exit],
            Inst(B.id + 2))

\* Any other exponent: 1 if it is zero.  from is the block from which the phi of the
\* loop takes the base.
LoopVariableFrom(B, base, exponent, from) ==
  LET loop == Size(B) + 1
      exit == Size(B) + 2
      zeroTrue == Size(B) + 3
      zeroFalse == Size(B) + 4
      final == Phi(B.id + 3, Incoming(zeroTrue, One, loop, Inst(B.id + 2)))
      tested == Emit(B, <<BranchOnZero(exponent, zeroTrue, zeroFalse)>>)
  IN  Gives([AddBlocks(tested,
               << Loop(B.id, from, base, loop, exit), <<final>>, <<Branch(exit)>>,
                  <<SetCounter(B.id, exponent), Branch(loop)>> >>)
               EXCEPT !.id = @ + 3, !.cur = exit],
            Inst(B.id + 3))

\* The block before the test, which the code keeps in entryBlock and does not use.
LoopVariableFromEntry(B, base, exponent) == LoopVariableFrom(B, base, exponent, B.cur)

\* The last result of the loop, not the phi that joins it with the 1.
LoopVariableUnjoined(B, base, exponent) ==
  Gives(LoopVariableFrom(B, base, exponent, Size(B) + 4).b, Inst(B.id + 2))

LoopVariable(B, base, exponent) == LoopVariableFrom(B, base, exponent, Size(B) + 4)

generateExponent(B, base, exponent) ==
  IF exponent.kind # "const" THEN LoopVariable(B, base, exponent)
  ELSE IF exponent.n \in 0..9 THEN Expand(B, base, exponent.n)
  ELSE LoopConstant(B, base, exponent)

(* The visits. *)

Visit(E) == [node |-> E, at |-> "enter", Left |-> NullValue]

Visiting == visits[Len(visits)]
Node == nodes[Visiting.node]
Stage(at) == phase = "visit" /\ visits # <<>> /\ Visiting.at = at
Descend(E, frame) == visits' = Append([visits EXCEPT ![Len(visits)] = frame], Visit(E))
Leave == visits' = SubSeq(visits, 1, Len(visits) - 1)

genOnly == UNCHANGED <<parserVars, phase, nameMap>>

VisitFactor ==
  /\ Stage("enter") /\ Node.op \in {"ident", "number"}
  /\ \/ Node.op = "ident"
        /\ V' = IF Node.val \in DOMAIN nameMap THEN nameMap[Node.val] ELSE NullValue
     \/ /\ Node.op = "number" /\ Literal(Node.val) <= MaxWord
        /\ V' = Const(Literal(Node.val))
     \/ /\ Node.op = "number" /\ Literal(Node.val) > MaxWord
        /\ \E n \in Garbage : V' = Const(n)
  /\ Leave /\ genOnly /\ UNCHANGED ir

VisitLeft ==
  /\ Stage("enter") /\ Node.op \in Operators
  /\ Descend(Node.left, [Visiting EXCEPT !.at = "right"])
  /\ genOnly /\ UNCHANGED <<V, ir>>

VisitRight ==
  /\ Stage("right")
  /\ Descend(Node.right, [Visiting EXCEPT !.at = "operate", !.Left = V])
  /\ genOnly /\ UNCHANGED <<V, ir>>

Operate(B, op, L, R) ==
  CASE op \in {"+", "-", "*"} -> Create(B, op, L, R)
    [] op \in {"/", "%"} -> Divide(B, op, L, R)
    [] op = "^" -> generateExponent(B, L, R)

VisitOperator ==
  /\ Stage("operate")
  /\ LET r == Operate(ir, Node.op, Visiting.Left, V)
     IN  ir' = r.b /\ V' = r.v
  /\ Leave /\ genOnly

(* Main. *)

\* What DeclCheck finds: a variable declared twice or not at all, a missing operand.
Children(n) == IF n.op \in Operators THEN {n.left, n.right} ELSE {}

SemanticErrors ==
  \/ \E i, j \in DOMAIN names : i # j /\ names[i] = names[j]
  \/ tree = Null
  \/ \E i \in DOMAIN nodes :
       \/ nodes[i].op = "ident" /\ \A k \in DOMAIN names : names[k] # nodes[i].val
       \/ Null \in Children(nodes[i])

NoTree == tree = Null /\ names = <<>>

\* The calls of calc_read for the variables, in the entry block.
ReadCalls == [k \in DOMAIN names |-> Instr("read", k, [kind |-> "name", name |-> names[k]], Zero, <<>>)]

Main ==
  /\ phase = "parse" /\ calls = <<>>
  /\ phase' = IF HasError \/ NoTree \/ SemanticErrors THEN "rejected" ELSE "visit"
  /\ IF phase' = "visit"
       THEN /\ visits' = << Visit(tree) >>
            /\ nameMap' = [x \in {names[k] : k \in DOMAIN names} |->
                             Inst(CHOOSE k \in DOMAIN names : names[k] = x)]
            /\ ir' = [ir EXCEPT !.blocks = << ReadCalls >>, !.id = Len(names)]
       ELSE UNCHANGED <<visits, nameMap, ir>>
  /\ UNCHANGED <<parserVars, V>>

\* The end of run: the result is written, main returns zero.
EndMain ==
  /\ phase = "visit" /\ visits = <<>>
  /\ ir' = Emit(ir, <<Instr("write", Null, V, Zero, <<>>), Return0>>)
  /\ phase' = "run"
  /\ UNCHANGED <<parserVars, visits, V, nameMap>>

GenInit ==
  /\ phase = "parse" /\ visits = <<>> /\ V = NullValue /\ nameMap = [x \in {} |-> NullValue]
  /\ ir = [blocks |-> << <<>> >>, cur |-> 1, id |-> 0, lpad |-> Null]

GenStep == VisitFactor \/ VisitLeft \/ VisitRight \/ VisitOperator \/ Main \/ EndMain
=============================================================================
