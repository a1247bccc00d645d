--------------------------- MODULE CalcGen_proofs ----------------------------
(***************************************************************************)
(* What the operations of the code generator of calc do to the code of     *)
(* main, for all texts.  The code is sound (Sound) when every block is a   *)
(* sequence of instructions that refers to values and blocks that exist,   *)
(* ends in at most one terminator, and uses only what is computed on every *)
(* path to it: A gives for every block the names that are.  An operation   *)
(* of IRBuilder appends an instruction where the generator stands, or a    *)
(* block, and delivers code that is sound again (Delivers); a division     *)
(* with the check of its divisor, or a power, is such operations           *)
(* one after the other.                                                    *)
(***************************************************************************)
EXTENDS CalcParser_proofs

(* The heap and the values of the parser. *)

\* A text of strings, and Exprs that the parser has made.  A factor that is a number
\* has the text of one.
TextOK == tok \in STRING /\ text \in Seq(SUBSET STRING) /\ read \in Seq(STRING) /\ names \in Seq(Idents)

Lefts(n) == \A k \in DOMAIN calls : calls[k].Left \in 0..n

NodeBound(i) ==
  /\ Children(nodes[i]) \subseteq 0..i - 1
  /\ nodes[i].op = "number" => nodes[i].val \in Numbers

Bounds ==
  /\ TextOK /\ ret \in 0..Len(nodes) /\ tree \in 0..Len(nodes) /\ Lefts(Len(nodes))
  /\ \A i \in DOMAIN nodes : NodeBound(i)

LEMMA NextText ==
  ASSUME TextOK, next
  PROVE  tok' \in STRING /\ text' \in Seq(SUBSET STRING)
<1>1. CASE tok' = EndOfInput /\ text' = <<>>
  <2>1. EndOfInput \in STRING
    BY PatternsAssumption
  <2>2. <<>> \in Seq(SUBSET STRING)
    OBVIOUS
  <2> QED BY <1>1, <2>1, <2>2
<1>2. CASE text # <<>> /\ tok' \in Head(text) /\ text' = Tail(text)
  <2>1. Head(text) = text[1] /\ text[1] \in SUBSET STRING /\ Tail(text) \in Seq(SUBSET STRING)
    BY <1>2, ElementOfSeq, HeadTailProperties DEF TextOK
  <2> QED BY <1>2, <2>1
<1> QED BY <1>1, <1>2 DEF next

LEMMA TextKept ==
  ASSUME TextOK, stay \/ advance \/ skip,
         names' = names \/ (tok \in Idents /\ names' = Append(names, tok))
  PROVE  TextOK'
<1>1. names' \in Seq(Idents)
  <2>1. names \in Seq(Idents)
    BY DEF TextOK
  <2> QED BY <2>1
<1>2. CASE stay
  BY <1>1, <1>2 DEF stay, TextOK
<1>3. CASE advance
  <2>1. tok \in STRING /\ read \in Seq(STRING)
    BY DEF TextOK
  <2>2. \A S : tok \in S /\ read \in Seq(S) => read' \in Seq(S)
    BY <1>3 DEF advance
  <2>3. read' \in Seq(STRING)
    BY <2>1, <2>2
  <2> QED BY <1>1, <1>3, <2>3, NextText DEF advance, TextOK
<1>4. CASE skip
  BY <1>1, <1>4, NextText DEF skip, TextOK
<1> QED BY <1>2, <1>3, <1>4

LEMMA LeftsKept ==
  ASSUME Typed, calls # <<>>, NEW n \in Nat, Lefts(n)
  PROVE  /\ \A f \in Frames : f.Left \in 0..n /\ calls' = SetTop(f) => Lefts(n)'
         /\ \A f \in Frames : \A g : f.Left \in 0..n /\ g.Left \in 0..n /\ calls' = Push(f, g) => Lefts(n)'
         /\ \A E : Return(E) => Lefts(n)'
         /\ Top.Left \in 0..n
<1>1. /\ Len(calls) \in Nat \ {0} /\ DOMAIN calls = 1..Len(calls) /\ calls \in Seq(Frames)
      /\ \A k \in 1..Len(calls) : calls[k].Left \in 0..n
  BY TopTyped DEF Lefts, Typed
<1>2. ASSUME NEW f \in Frames, f.Left \in 0..n
      PROVE  /\ SetTop(f) \in Seq(Frames) /\ Len(SetTop(f)) = Len(calls)
             /\ \A k \in 1..Len(calls) : SetTop(f)[k].Left \in 0..n
  <2>1. /\ SetTop(f) \in Seq(Frames) /\ Len(SetTop(f)) = Len(calls) /\ SetTop(f)[Len(calls)] = f
        /\ \A i \in 1..Len(calls) - 1 : SetTop(f)[i] = calls[i]
    BY SetTopIs
  <2>2. ASSUME NEW k \in 1..Len(calls) PROVE SetTop(f)[k].Left \in 0..n
    BY <1>1, <1>2, <2>1, <2>2
  <2> QED BY <2>1, <2>2
<1>3. ASSUME NEW f \in Frames, f.Left \in 0..n, calls' = SetTop(f) PROVE Lefts(n)'
  BY <1>1, <1>2, <1>3 DEF Lefts
<1>4. ASSUME NEW f \in Frames, NEW g, f.Left \in 0..n, g.Left \in 0..n, calls' = Push(f, g)
      PROVE  Lefts(n)'
  <2>1. PICK q : q = SetTop(f)
    OBVIOUS
  <2>2. q \in Seq(Frames) /\ Len(q) = Len(calls) /\ \A k \in 1..Len(calls) : q[k].Left \in 0..n
    BY <1>2, <1>4, <2>1
  <2>3. calls' = Append(q, g)
    BY <1>4, <2>1 DEF Push
  <2>4. q \in Seq(Frames \cup {g})
    BY <2>2, SeqMonotonic
  <2>5. /\ DOMAIN calls' = 1..Len(calls) + 1 /\ calls'[Len(calls) + 1] = g
        /\ \A k \in 1..Len(calls) : calls'[k] = q[k]
    BY <2>2, <2>3, <2>4, Appended
  <2>6. ASSUME NEW k \in 1..Len(calls) + 1 PROVE calls'[k].Left \in 0..n
    BY <1>1, <1>4, <2>2, <2>5, <2>6
  <2> QED BY <2>5, <2>6 DEF Lefts
<1>5. ASSUME NEW E, Return(E) PROVE Lefts(n)'
  <2>1. /\ calls' \in Seq(Frames) /\ Len(calls') = Len(calls) - 1
        /\ \A i \in 1..Len(calls) - 1 : calls'[i] = calls[i]
    BY <1>1, <1>5, Shortened DEF Return
  <2> QED BY <1>1, <2>1 DEF Lefts
<1> QED BY <1>1, <1>3, <1>4, <1>5 DEF Top

\* A step that makes no node, and one that makes one.
LEMMA BoundsKept ==
  ASSUME Typed, Bounds, TextOK', nodes' = nodes, ret' \in 0..Len(nodes), tree' \in 0..Len(nodes),
         Lefts(Len(nodes))'
  PROVE  Bounds'
<1>1. \A i \in DOMAIN nodes : NodeBound(i)'
  BY DEF Bounds, NodeBound
<1> QED BY <1>1 DEF Bounds

LEMMA BoundsGrow ==
  ASSUME Typed, Bounds, TextOK', NEW n \in Nodes, nodes' = Append(nodes, n),
         Children(n) \subseteq 0..Len(nodes), n.op = "number" => n.val \in Numbers,
         ret' = ret, tree' = tree, calls # <<>>,
         NEW f \in Frames, f.Left = Len(nodes'), calls' = SetTop(f)
  PROVE  Bounds'
<1>1. /\ Len(nodes) \in Nat /\ DOMAIN nodes = 1..Len(nodes) /\ Len(nodes') = Len(nodes) + 1
      /\ DOMAIN nodes' = 1..Len(nodes) + 1 /\ nodes'[Len(nodes) + 1] = n
      /\ \A i \in 1..Len(nodes) : nodes'[i] = nodes[i]
  BY Appended DEF Typed
<1>2. ASSUME NEW i \in 1..Len(nodes) + 1 PROVE NodeBound(i)'
  <2>1. CASE i = Len(nodes) + 1
    BY <1>1, <2>1 DEF NodeBound
  <2>2. CASE i \in 1..Len(nodes)
    BY <1>1, <2>2 DEF NodeBound, Bounds
  <2> QED BY <1>1, <2>1, <2>2
<1>3. PICK m \in Nat : m = Len(nodes) + 1
  BY <1>1
<1>4. ret' \in 0..Len(nodes) + 1 /\ tree' \in 0..Len(nodes) + 1
  BY <1>1 DEF Bounds
<1>5. Lefts(m) /\ f.Left \in 0..m
  BY <1>1, <1>3 DEF Bounds, Lefts
<1>6. Lefts(m)'
  BY <1>5, LeftsKept
<1>7. Lefts(Len(nodes))'
  BY <1>1, <1>3, <1>6 DEF Lefts
<1>8. \A i \in DOMAIN nodes' : NodeBound(i)'
  BY <1>1, <1>2 DEF NodeBound
<1> QED BY <1>1, <1>4, <1>7, <1>8 DEF Bounds

LEMMA Taken ==
  ASSUME Typed, Bounds, calls # <<>>, nodes' = nodes, TextOK', ret' = ret, tree' = tree,
         \/ \E at \in Places : GoTo(at)
         \/ \E at \in Places : \E fn, first : Call(fn, first, at)
         \/ \E f \in Frames : f.Left \in {Top.Left, ret} /\ calls' = SetTop(f)
         \/ calls' = calls
  PROVE  Bounds'
<1>1. Len(nodes) \in Nat /\ Lefts(Len(nodes)) /\ ret \in 0..Len(nodes) /\ tree \in 0..Len(nodes)
  BY DEF Bounds, Typed
<1>2. PICK n \in Nat : n = Len(nodes)
  BY <1>1
<1>3. Top.Left \in 0..n /\ Lefts(n) /\ ret \in 0..n
  BY <1>1, <1>2, LeftsKept
<1>4. Lefts(n)'
  <2>1. ASSUME NEW at \in Places, GoTo(at) PROVE Lefts(n)'
    <3>1. PICK f : f = [Top EXCEPT !.at = at]
      OBVIOUS
    <3>2. f \in Frames /\ f.Left = Top.Left /\ calls' = SetTop(f)
      BY <2>1, <3>1, Moved
    <3> QED BY <1>3, <3>2, LeftsKept
  <2>2. ASSUME NEW at \in Places, NEW fn, NEW first, Call(fn, first, at) PROVE Lefts(n)'
    <3>1. PICK f, g : /\ f \in Frames /\ f.Left = Top.Left
                      /\ g = Frame(fn, first) /\ calls' = Push(f, g)
      BY <2>2, Called
    <3>2. g.Left = 0 /\ 0 \in 0..n
      BY <3>1 DEF Frame, Null
    <3> QED BY <1>3, <3>1, <3>2, LeftsKept
  <2>3. ASSUME NEW f \in Frames, f.Left \in {Top.Left, ret}, calls' = SetTop(f) PROVE Lefts(n)'
    BY <1>3, <2>3, LeftsKept
  <2>4. CASE calls' = calls
    BY <1>3, <2>4 DEF Lefts
  <2> QED BY <2>1, <2>2, <2>3, <2>4
<1>5. Lefts(Len(nodes))'
  BY <1>2, <1>4 DEF Lefts
<1> QED BY <1>1, <1>5, BoundsKept

LEMMA BoundsOfStep == ASSUME IInv, Bounds, ParserStep PROVE Bounds'
<1>1. Typed /\ TextOK /\ Len(nodes) \in Nat /\ ret \in 0..Len(nodes) /\ tree \in 0..Len(nodes)
  BY DEF IInv, Bounds, Typed
<1>2. TextOK'
  BY <1>1, TextKept DEF ParserStep, WithClause, WithName, WithNames, WithError, Drain, Finish,
     ParseOperand, Join, TakeOperator, ReturnLeft, Leaf, OpenParen, CloseParen, NoFactor, Skip,
     ReturnFactor
<1>3. CASE WithClause \/ WithName \/ WithNames \/ WithError \/ Drain \/ ParseOperand \/ OpenParen
           \/ NoFactor \/ Skip
  <2>1. {"name", "names", "end", "_error", "joined", "close", "behind"} \subseteq Places
    BY DEF Places
  <2>2. /\ calls # <<>> /\ nodes' = nodes /\ ret' = ret /\ tree' = tree
        /\ \/ \E at \in Places : GoTo(at)
           \/ \E at \in Places : \E fn, first : Call(fn, first, at)
           \/ calls' = calls
    BY <1>3, <2>1 DEF WithClause, WithName, WithNames, WithError, Drain, ParseOperand, OpenParen,
       NoFactor, Skip, At, Joining
  <2> QED BY <1>1, <1>2, <2>2, Taken
<1>4. CASE Finish
  <2>1. calls' = <<>> /\ nodes' = nodes /\ ret' = ret /\ tree' \in {ret, 0}
    BY <1>4 DEF Finish, Null
  <2>2. Lefts(Len(nodes))' /\ tree' \in 0..Len(nodes)
    BY <1>1, <2>1 DEF Lefts
  <2> QED BY <1>1, <1>2, <2>1, <2>2, BoundsKept
<1>5. CASE Join
  <2>1. /\ calls # <<>> /\ Top.fn \in {"parseExpr", "parseTerm"} /\ ret' = ret /\ tree' = tree
        /\ Top \in Frames /\ "operator" \in Places
    BY <1>1, <1>5, TopTyped DEF Join, Joining, Places
  <2>2. CASE Top.Op = "none"
    <3>1. PICK f : f = Filled("operator", ret)
      OBVIOUS
    <3>2. f \in Frames /\ f.Left = ret
      BY <1>1, <2>1, <3>1, Placed DEF Typed
    <3>3. calls' = SetTop(f) /\ nodes' = nodes
      BY <1>5, <2>2, <3>1 DEF Join, SetTop, Filled, Top
    <3> QED BY <1>1, <1>2, <2>1, <3>2, <3>3, Taken DEF Bounds
  <2>3. CASE Top.Op # "none"
    <3>1. PICK n : n = Binary(Top.Op, Top.Left, ret)
      OBVIOUS
    <3>2. n \in Nodes /\ n.op \in Operators /\ n.left = Top.Left /\ n.right = ret
      BY <1>1, <2>1, <2>3, <3>1 DEF Binary, Nodes, Frames, Typed
    <3>3. nodes' = Append(nodes, n) /\ Top.Left \in 0..Len(nodes)
      BY <1>1, <1>5, <2>1, <2>3, <3>1, LeftsKept DEF Join, Bounds
    <3>4. Children(n) \subseteq 0..Len(nodes) /\ n.op # "number"
      BY <1>1, <3>2, <3>3 DEF Children, Operators, AddOperators, MulOperators
    <3>5. PICK f : f = Filled("operator", Len(nodes'))
      OBVIOUS
    <3>6. Len(nodes') \in Nat
      BY <1>1, <3>2, <3>3 DEF Typed
    <3>7. f \in Frames /\ f.Left = Len(nodes')
      BY <1>1, <2>1, <3>5, <3>6, Placed
    <3>8. calls' = SetTop(f)
      BY <1>5, <2>3, <3>5 DEF Join, SetTop, Filled, Top
    <3> QED BY <1>1, <1>2, <2>1, <3>2, <3>3, <3>4, <3>7, <3>8, BoundsGrow
  <2> QED BY <2>2, <2>3
<1>6. CASE TakeOperator
  <2>1. /\ calls # <<>> /\ nodes' = nodes /\ ret' = ret /\ tree' = tree
        /\ tok \in Operators /\ Top \in Frames
    BY <1>1, <1>6, TopTyped DEF TakeOperator, Joining, OperatorsOf, Operators
  <2>2. PICK f : f = [Top EXCEPT !.at = "operand", !.Op = tok]
    OBVIOUS
  <2>3. f \in Frames /\ f.Left = Top.Left
    BY <2>1, <2>2 DEF Frames, Places
  <2>4. calls' = SetTop(f)
    BY <1>6, <2>2 DEF TakeOperator, SetTop, Top
  <2> QED BY <1>1, <1>2, <2>1, <2>3, <2>4, Taken
<1>7. CASE ReturnLeft \/ ReturnFactor
  <2>1. calls # <<>> /\ nodes' = nodes /\ Return(Top.Left) /\ tree' = tree
    BY <1>7 DEF ReturnLeft, ReturnFactor, Joining, At
  <2>2. PICK n \in Nat : n = Len(nodes)
    BY <1>1
  <2>3. Lefts(n)
    BY <2>2 DEF Bounds
  <2>4. Lefts(n)' /\ Top.Left \in 0..n
    BY <1>1, <2>1, <2>3, LeftsKept
  <2>5. Lefts(Len(nodes))' /\ ret' \in 0..Len(nodes)
    BY <2>1, <2>2, <2>4 DEF Lefts, Return
  <2> QED BY <1>1, <1>2, <2>1, <2>5, BoundsKept
<1>8. CASE Leaf
  <2>1. /\ calls # <<>> /\ ret' = ret /\ tree' = tree /\ tok \in Idents \cup Numbers
        /\ "behind" \in Places
    BY <1>8 DEF Leaf, At, Places
  <2>2. PICK n : n = Factor(IF tok \in Idents THEN "ident" ELSE "number", tok)
    OBVIOUS
  <2>3. /\ n \in Nodes /\ (n.op = "number" => n.val \in Numbers) /\ nodes' = Append(nodes, n)
        /\ n.op \in {"ident", "number"}
    BY <1>8, <2>1, <2>2 DEF Leaf, Factor, Nodes
  <2>4. Children(n) \subseteq 0..Len(nodes)
    BY <2>3 DEF Children, Operators, AddOperators, MulOperators
  <2>5. PICK f : f = Filled("behind", Len(nodes'))
    OBVIOUS
  <2>6. Len(nodes') \in Nat
    BY <1>1, <2>3 DEF Typed
  <2>7. f \in Frames /\ f.Left = Len(nodes')
    BY <1>1, <2>1, <2>5, <2>6, Placed
  <2>8. calls' = SetTop(f)
    BY <1>8, <2>5 DEF Leaf, SetTop, Filled, Top
  <2> QED BY <1>1, <1>2, <2>1, <2>3, <2>4, <2>7, <2>8, BoundsGrow
<1>9. CASE CloseParen
  <2>1. calls # <<>> /\ ret' = ret /\ tree' = tree /\ nodes' = nodes /\ "behind" \in Places
    BY <1>9 DEF CloseParen, At, Places
  <2>2. PICK f : f = Filled("behind", ret)
    OBVIOUS
  <2>3. f \in Frames /\ f.Left = ret
    BY <1>1, <2>1, <2>2, Placed
  <2>4. calls' = SetTop(f)
    BY <1>9, <2>2 DEF CloseParen, SetTop, Filled, Top
  <2> QED BY <1>1, <1>2, <2>1, <2>3, <2>4, Taken
<1> QED BY <1>3, <1>4, <1>5, <1>6, <1>7, <1>8, <1>9 DEF ParserStep

(* Values and instructions. *)

Values == [kind : {"const"}, n : Word] \cup {Poison} \cup [kind : {"inst"}, id : Nat]
Named == [kind : {"name"}, name : Idents]

Plain == [op : Operators \cup {"read", "set", "write"} \cup Terminators, id : Nat,
          a : Values \cup Named, b : Values, to : Seq(Nat)]
Phis == [op : {"phi"}, id : Nat, in : UNION {[D -> Values] : D \in SUBSET Nat}, to : {<<>>}]
Instrs == Plain \cup Phis
Builders == [blocks : Seq(Seq(Instrs)), cur : Nat, id : Nat, lpad : Nat]

\* What an instruction leaves behind: a result, or a counter.
Reg(id) == <<"reg", id>>
Cell(id) == <<"cell", id>>

Makes(ins) ==
  IF ins.op \in Operators \cup {"phi", "read"} THEN {Reg(ins.id)}
  ELSE IF ins.op = "set" THEN {Cell(ins.id)} ELSE {}

\* What a value, and an instruction that is no phi, needs to be there.
Needs(v) == IF v.kind = "inst" THEN {Reg(v.id)} ELSE {}

Reads(ins) ==
  IF ins.op \in Operators THEN Needs(ins.a) \cup Needs(ins.b)
  ELSE IF ins.op \in {"brzero", "set", "write"} THEN Needs(ins.a)
  ELSE IF ins.op = "while" THEN {Cell(ins.id)} ELSE {}

Shaped(ins) ==
  /\ ins.op \in Operators \cup {"brzero", "set", "write"} => ins.a \in Values
  /\ ins.op \in {"br", "brzero", "while", "throw"} => 1 \in DOMAIN ins.to
  /\ ins.op \in {"brzero", "while", "throw"} => 2 \in DOMAIN ins.to
  /\ ins.op \notin Terminators => ins.to = <<>>

(* Blocks: what they make, what is made before an instruction, where they go. *)

MadeBy(block) == UNION {Makes(block[j]) : j \in DOMAIN block}
Before(block, i) == UNION {Makes(block[j]) : j \in {k \in DOMAIN block : k < i}}
Goes(block) == UNION {ToSet(block[j].to) : j \in DOMAIN block}

SourcesOf(B, b) == {p \in 1..Size(B) : b \in Goes(B.blocks[p])}

\* A[b] is what is there at the start of block b, on every path to it.
AtEnd(B, A, p) == A[p] \cup MadeBy(B.blocks[p])

\* Instruction i of code in block b of B, with H there before the code.
InstrAt(B, A, b, H, code, i) ==
  LET ins == code[i]
  IN  /\ Shaped(ins)
      /\ Reads(ins) \subseteq H \cup Before(code, i)
      /\ \A c \in ToSet(ins.to) : c \in 1..Size(B) /\ A[c] \subseteq H \cup Before(code, i)
      /\ ins.op = "phi" => /\ b # 1 /\ DOMAIN ins.in = SourcesOf(B, b)
                           /\ \A p \in DOMAIN ins.in : Needs(ins.in[p]) \subseteq AtEnd(B, A, p)
      /\ ins.op = "catch" => b = B.lpad

Open(block) == \A i \in DOMAIN block : block[i].op \notin Terminators

BlockOK(B, A, b, open) ==
  /\ \A i \in DOMAIN B.blocks[b] : InstrAt(B, A, b, A[b], B.blocks[b], i)
  /\ IF b \in open THEN Open(B.blocks[b]) ELSE Terminated(B.blocks[b])

PadOK(B, A) ==
  B.lpad # Null =>
    /\ B.lpad \in 1..Size(B) /\ B.lpad + 1 \in 1..Size(B) /\ B.cur \notin {B.lpad, B.lpad + 1}
    /\ B.blocks[B.lpad] = LandingPad[1] /\ B.blocks[B.lpad + 1] = LandingPad[2]
    /\ A[B.lpad] = {} /\ A[B.lpad + 1] = {}

\* The blocks in open are under construction.
Sound(B, A, open) ==
  /\ B \in Builders /\ B.cur \in 1..Size(B) /\ A[1] = {} /\ 1 \in 1..Size(B)
  /\ \A b \in 1..Size(B) : BlockOK(B, A, b, open)
  /\ PadOK(B, A)

LEMMA BuilderTyped ==
  ASSUME NEW B \in Builders
  PROVE  /\ Size(B) \in Nat /\ DOMAIN B.blocks = 1..Size(B) /\ B.blocks \in Seq(Seq(Instrs))
         /\ \A b \in 1..Size(B) : B.blocks[b] \in Seq(Instrs)
<1>1. B.blocks \in Seq(Seq(Instrs))
  BY DEF Builders
<1> QED BY <1>1, ElementOfSeq DEF Size

LEMMA BlockTyped ==
  ASSUME NEW q \in Seq(Instrs)
  PROVE  /\ Len(q) \in Nat /\ DOMAIN q = 1..Len(q)
         /\ \A i \in 1..Len(q) : q[i] \in Instrs /\ q[i].to \in Seq(Nat) /\ q[i].id \in Nat
<1>1. Len(q) \in Nat /\ DOMAIN q = 1..Len(q) /\ \A i \in 1..Len(q) : q[i] \in Instrs
  BY ElementOfSeq
<1>2. \A ins \in Instrs : ins.to \in Seq(Nat) /\ ins.id \in Nat
  <2>1. <<>> \in Seq(Nat)
    OBVIOUS
  <2> QED BY <2>1 DEF Instrs, Plain, Phis
<1> QED BY <1>1, <1>2

LEMMA Membership ==
  /\ \A block, x : x \in MadeBy(block) <=> \E j \in DOMAIN block : x \in Makes(block[j])
  /\ \A block, i, x : x \in Before(block, i) <=> \E j \in DOMAIN block : j < i /\ x \in Makes(block[j])
  /\ \A block, c : c \in Goes(block) <=> \E j \in DOMAIN block : c \in ToSet(block[j].to)
<1>1. \A block, x : x \in MadeBy(block) <=> \E j \in DOMAIN block : x \in Makes(block[j])
  BY DEF MadeBy
<1>2. \A block, i, x : x \in Before(block, i) <=> \E j \in DOMAIN block : j < i /\ x \in Makes(block[j])
  BY DEF Before
<1>3. \A block, c : c \in Goes(block) <=> \E j \in DOMAIN block : c \in ToSet(block[j].to)
  BY DEF Goes
<1> QED BY <1>1, <1>2, <1>3

\* Code behind the instructions of a block.
LEMMA Joint ==
  ASSUME NEW q \in Seq(Instrs), NEW code \in Seq(Instrs)
  PROVE  /\ q \o code \in Seq(Instrs) /\ Len(q \o code) = Len(q) + Len(code)
         /\ DOMAIN (q \o code) = 1..Len(q) + Len(code)
         /\ DOMAIN q = 1..Len(q) /\ DOMAIN code = 1..Len(code)
         /\ \A i \in 1..Len(q) : (q \o code)[i] = q[i] /\ i \in 1..Len(q) + Len(code)
         /\ \A j \in 1..Len(code) : /\ (q \o code)[Len(q) + j] = code[j]
                                    /\ Len(q) + j \in 1..Len(q) + Len(code)
         /\ \A i \in 1..Len(q) + Len(code) :
              \/ i \in 1..Len(q) /\ (q \o code)[i] = q[i]
              \/ i - Len(q) \in 1..Len(code) /\ (q \o code)[i] = code[i - Len(q)]
<1>1. /\ Len(q) \in Nat /\ DOMAIN q = 1..Len(q) /\ Len(code) \in Nat /\ DOMAIN code = 1..Len(code)
  BY BlockTyped
<1>2. /\ q \o code \in Seq(Instrs) /\ Len(q \o code) = Len(q) + Len(code)
      /\ DOMAIN (q \o code) = 1..Len(q) + Len(code)
      /\ \A i \in 1..Len(q) : (q \o code)[i] = q[i]
      /\ \A j \in 1..Len(code) : (q \o code)[Len(q) + j] = code[j]
  BY <1>1, ConcatProperties
<1>3. /\ \A i \in 1..Len(q) : i \in 1..Len(q) + Len(code)
      /\ \A j \in 1..Len(code) : Len(q) + j \in 1..Len(q) + Len(code)
      /\ \A i \in 1..Len(q) + Len(code) : i \in 1..Len(q) \/ i - Len(q) \in 1..Len(code)
      /\ \A i \in Int : Len(q) + (i - Len(q)) = i
  BY <1>1
<1>4. \A i \in 1..Len(q) + Len(code) : i - Len(q) \in 1..Len(code) => (q \o code)[i] = code[i - Len(q)]
  BY <1>1, <1>2, <1>3
<1> QED BY <1>1, <1>2, <1>3, <1>4

LEMMA BehindOld ==
  ASSUME NEW q \in Seq(Instrs), NEW code \in Seq(Instrs), NEW i \in 1..Len(q)
  PROVE  Before(q \o code, i) = Before(q, i)
<1>1. Len(q) \in Nat /\ Len(code) \in Nat
  BY BlockTyped
<1>2. \A j \in DOMAIN (q \o code) : j < i => j \in DOMAIN q /\ (q \o code)[j] = q[j]
  <2>1. SUFFICES ASSUME NEW j \in 1..Len(q) + Len(code), j < i
                 PROVE  j \in 1..Len(q) /\ (q \o code)[j] = q[j]
    BY Joint
  <2> QED BY <1>1, <2>1, Joint
<1>3. \A j \in DOMAIN q : j \in DOMAIN (q \o code) /\ (q \o code)[j] = q[j]
  BY Joint
<1>4. ASSUME NEW x \in Before(q \o code, i) PROVE x \in Before(q, i)
  <2>1. PICK j \in DOMAIN (q \o code) : j < i /\ x \in Makes((q \o code)[j])
    BY <1>4, Membership
  <2> QED BY <1>2, <2>1, Membership
<1>5. ASSUME NEW x \in Before(q, i) PROVE x \in Before(q \o code, i)
  <2>1. PICK j \in DOMAIN q : j < i /\ x \in Makes(q[j])
    BY <1>5, Membership
  <2> QED BY <1>3, <2>1, Membership
<1> QED BY <1>4, <1>5

LEMMA BehindNew ==
  ASSUME NEW q \in Seq(Instrs), NEW code \in Seq(Instrs), NEW j \in 1..Len(code)
  PROVE  Before(q \o code, Len(q) + j) = MadeBy(q) \cup Before(code, j)
<1>1. /\ Len(q) \in Nat /\ DOMAIN q = 1..Len(q) /\ Len(code) \in Nat /\ DOMAIN code = 1..Len(code)
  BY BlockTyped
<1>2. PICK r : r = q \o code
  OBVIOUS
<1>3. /\ DOMAIN r = 1..Len(q) + Len(code)
      /\ \A i \in 1..Len(q) : r[i] = q[i] /\ i \in 1..Len(q) + Len(code)
      /\ \A i \in 1..Len(code) : r[Len(q) + i] = code[i] /\ Len(q) + i \in 1..Len(q) + Len(code)
      /\ \A i \in 1..Len(q) + Len(code) :
           \/ i \in 1..Len(q) /\ r[i] = q[i]
           \/ i - Len(q) \in 1..Len(code) /\ r[i] = code[i - Len(q)]
  BY <1>2, Joint
<1>4. ASSUME NEW x \in Before(r, Len(q) + j) PROVE x \in MadeBy(q) \cup Before(code, j)
  <2>1. PICK i \in 1..Len(q) + Len(code) : i < Len(q) + j /\ x \in Makes(r[i])
    BY <1>3, <1>4, Membership
  <2>2. CASE i \in 1..Len(q) /\ r[i] = q[i]
    BY <1>1, <2>1, <2>2, Membership
  <2>3. CASE i - Len(q) \in 1..Len(code) /\ r[i] = code[i - Len(q)]
    <3>1. i - Len(q) < j
      BY <1>1, <2>1
    <3> QED BY <1>1, <2>1, <2>3, <3>1, Membership
  <2> QED BY <1>3, <2>2, <2>3
<1>5. ASSUME NEW x \in MadeBy(q) PROVE x \in Before(r, Len(q) + j)
  <2>1. PICK i \in 1..Len(q) : x \in Makes(q[i])
    BY <1>1, <1>5, Membership
  <2>2. i < Len(q) + j /\ r[i] = q[i] /\ i \in DOMAIN r
    BY <1>1, <1>3
  <2> QED BY <2>1, <2>2, Membership
<1>6. ASSUME NEW x \in Before(code, j) PROVE x \in Before(r, Len(q) + j)
  <2>1. PICK i \in 1..Len(code) : i < j /\ x \in Makes(code[i])
    BY <1>1, <1>6, Membership
  <2>2. Len(q) + i < Len(q) + j /\ r[Len(q) + i] = code[i] /\ Len(q) + i \in DOMAIN r
    BY <1>1, <1>3, <2>1
  <2> QED BY <2>1, <2>2, Membership
<1> QED BY <1>2, <1>4, <1>5, <1>6

LEMMA BehindAll ==
  ASSUME NEW q \in Seq(Instrs), NEW code \in Seq(Instrs)
  PROVE  /\ MadeBy(q \o code) = MadeBy(q) \cup MadeBy(code)
         /\ Goes(q \o code) = Goes(q) \cup Goes(code)
<1>1. /\ Len(q) \in Nat /\ DOMAIN q = 1..Len(q) /\ Len(code) \in Nat /\ DOMAIN code = 1..Len(code)
  BY BlockTyped
<1>2. PICK r : r = q \o code
  OBVIOUS
<1>3. /\ DOMAIN r = 1..Len(q) + Len(code)
      /\ \A i \in 1..Len(q) : r[i] = q[i] /\ i \in 1..Len(q) + Len(code)
      /\ \A i \in 1..Len(code) : r[Len(q) + i] = code[i] /\ Len(q) + i \in 1..Len(q) + Len(code)
      /\ \A i \in 1..Len(q) + Len(code) :
           \/ i \in 1..Len(q) /\ r[i] = q[i]
           \/ i - Len(q) \in 1..Len(code) /\ r[i] = code[i - Len(q)]
  BY <1>2, Joint
<1>4. MadeBy(r) = MadeBy(q) \cup MadeBy(code)
  <2>1. ASSUME NEW x \in MadeBy(r) PROVE x \in MadeBy(q) \cup MadeBy(code)
    <3>1. PICK i \in 1..Len(q) + Len(code) : x \in Makes(r[i])
      BY <1>3, <2>1, Membership
    <3> QED BY <1>1, <1>3, <3>1, Membership
  <2>2. ASSUME NEW x \in MadeBy(q) PROVE x \in MadeBy(r)
    BY <1>1, <1>3, <2>2, Membership
  <2>3. ASSUME NEW x \in MadeBy(code) PROVE x \in MadeBy(r)
    <3>1. PICK j \in 1..Len(code) : x \in Makes(code[j])
      BY <1>1, <2>3, Membership
    <3>2. r[Len(q) + j] = code[j] /\ Len(q) + j \in DOMAIN r
      BY <1>3
    <3> QED BY <3>1, <3>2, Membership
  <2> QED BY <2>1, <2>2, <2>3
<1>5. Goes(r) = Goes(q) \cup Goes(code)
  <2>1. ASSUME NEW c \in Goes(r) PROVE c \in Goes(q) \cup Goes(code)
    <3>1. PICK i \in 1..Len(q) + Len(code) : c \in ToSet(r[i].to)
      BY <1>3, <2>1, Membership
    <3> QED BY <1>1, <1>3, <3>1, Membership
  <2>2. ASSUME NEW c \in Goes(q) PROVE c \in Goes(r)
    <3>1. PICK j \in 1..Len(q) : c \in ToSet(q[j].to)
      BY <1>1, <2>2, Membership
    <3>2. r[j] = q[j] /\ j \in DOMAIN r
      BY <1>3
    <3> QED BY <3>1, <3>2, Membership
  <2>3. ASSUME NEW c \in Goes(code) PROVE c \in Goes(r)
    <3>1. PICK j \in 1..Len(code) : c \in ToSet(code[j].to)
      BY <1>1, <2>3, Membership
    <3>2. r[Len(q) + j] = code[j] /\ Len(q) + j \in DOMAIN r
      BY <1>3
    <3> QED BY <3>1, <3>2, Membership
  <2> QED BY <2>1, <2>2, <2>3
<1> QED BY <1>2, <1>4, <1>5

\* The builder B with code behind its block, and new blocks bs, as C.
Grown(B, C, code, bs) ==
  /\ code \in Seq(Instrs) /\ bs \in Seq(Seq(Instrs))
  /\ C.blocks \in Seq(Seq(Instrs)) /\ Size(C) = Size(B) + Len(bs)
  /\ C.blocks[B.cur] = B.blocks[B.cur] \o code
  /\ \A b \in 1..Size(B) : b # B.cur => C.blocks[b] = B.blocks[b]
  /\ \A k \in 1..Len(bs) : C.blocks[Size(B) + k] = bs[k]

\* Nothing but a throw goes to a block that was there, and that is to the landing pad.
NewOnly(B, code, bs) ==
  \A c \in 1..Size(B) :
    c \in Goes(code) \/ (\E k \in 1..Len(bs) : c \in Goes(bs[k])) =>
      B.lpad # Null /\ c \in {B.lpad, B.lpad + 1}

\* A2 is A, continued for the blocks that are new.
Keeps(B, A, A2) == \A b \in 1..Size(B) : A2[b] = A[b]

\* F is what is there in the new blocks.
Continued(B, A, F) == [b \in Nat |-> IF b \in 1..Size(B) THEN A[b] ELSE F[b - Size(B)]]

Growth(B, A, C, code, bs) ==
  /\ Sound(B, A, {B.cur}) /\ Grown(B, C, code, bs) /\ NewOnly(B, code, bs)
  /\ B.lpad # Null => C.lpad = B.lpad

LEMMA GrownSources ==
  ASSUME NEW B, NEW A, NEW C, NEW code, NEW bs, Growth(B, A, C, code, bs)
  PROVE  /\ Goes(B.blocks[B.cur]) = {} /\ \A b : B.cur \notin SourcesOf(B, b)
         /\ Goes(C.blocks[B.cur]) = Goes(code)
         /\ \A b \in 1..Size(B) : \A c \in Goes(B.blocks[b]) : c \in 1..Size(B)
         /\ \A b : b \notin 1..Size(B) =>
              SourcesOf(C, b) = {p \in {B.cur} : b \in Goes(code)}
                                \cup {p \in Size(B) + 1..Size(B) + Len(bs) : b \in Goes(bs[p - Size(B)])}
         /\ \A b \in 1..Size(B) :
              b \notin Goes(code) /\ (\A k \in 1..Len(bs) : b \notin Goes(bs[k])) =>
                SourcesOf(C, b) = SourcesOf(B, b)
<1>1. /\ B \in Builders /\ B.cur \in 1..Size(B) /\ Size(B) \in Nat
      /\ \A b \in 1..Size(B) : B.blocks[b] \in Seq(Instrs)
      /\ \A b \in 1..Size(B) : BlockOK(B, A, b, {B.cur})
      /\ code \in Seq(Instrs) /\ bs \in Seq(Seq(Instrs)) /\ Grown(B, C, code, bs)
  BY BuilderTyped DEF Sound, Growth, Grown
<1>2. Goes(B.blocks[B.cur]) = {}
  <2>1. \A i \in DOMAIN B.blocks[B.cur] : ToSet(B.blocks[B.cur][i].to) = {}
    <3>1. \A i \in DOMAIN B.blocks[B.cur] : /\ B.blocks[B.cur][i].op \notin Terminators
                                           /\ Shaped(B.blocks[B.cur][i])
      BY <1>1 DEF BlockOK, Open, InstrAt
    <3>2. ToSet(<<>>) = {}
      BY DEF ToSet
    <3> QED BY <3>1, <3>2 DEF Shaped
  <2> QED BY <2>1, Membership
<1>3. \A b : B.cur \notin SourcesOf(B, b)
  BY <1>2 DEF SourcesOf
<1>4. Goes(C.blocks[B.cur]) = Goes(code)
  <2>1. PICK q \in Seq(Instrs) : q = B.blocks[B.cur]
    BY <1>1
  <2>2. Goes(q \o code) = Goes(q) \cup Goes(code)
    BY <1>1, BehindAll
  <2> QED BY <1>1, <1>2, <2>1, <2>2 DEF Grown
<1>5. ASSUME NEW b \in 1..Size(B), NEW c \in Goes(B.blocks[b]) PROVE c \in 1..Size(B)
  <2>1. PICK j \in DOMAIN B.blocks[b] : c \in ToSet(B.blocks[b][j].to)
    BY <1>5, Membership
  <2>2. InstrAt(B, A, b, A[b], B.blocks[b], j)
    BY <1>1, <2>1 DEF BlockOK
  <2> QED BY <2>1, <2>2 DEF InstrAt
<1>6. Len(bs) \in Nat /\ Size(C) = Size(B) + Len(bs)
  BY <1>1 DEF Grown
<1>7. \A p \in 1..Size(B) + Len(bs) :
        /\ p \in 1..Size(B) \/ p \in Size(B) + 1..Size(B) + Len(bs)
        /\ p \in Size(B) + 1..Size(B) + Len(bs) =>
             p \notin 1..Size(B) /\ p - Size(B) \in 1..Len(bs) /\ Size(B) + (p - Size(B)) = p
  BY <1>1, <1>6
<1>8. /\ \A p \in 1..Size(B) : p \in 1..Size(B) + Len(bs)
      /\ \A p \in Size(B) + 1..Size(B) + Len(bs) : p \in 1..Size(B) + Len(bs)
  BY <1>1, <1>6
<1>9. \A p \in Size(B) + 1..Size(B) + Len(bs) : C.blocks[p] = bs[p - Size(B)]
  BY <1>1, <1>7, <1>8 DEF Grown
<1>10. ASSUME NEW b, b \notin 1..Size(B)
       PROVE  SourcesOf(C, b) = {p \in {B.cur} : b \in Goes(code)}
                                \cup {p \in Size(B) + 1..Size(B) + Len(bs) : b \in Goes(bs[p - Size(B)])}
  <2>1. ASSUME NEW p \in SourcesOf(C, b)
        PROVE  \/ p = B.cur /\ b \in Goes(code)
               \/ p \in Size(B) + 1..Size(B) + Len(bs) /\ b \in Goes(bs[p - Size(B)])
    <3>1. p \in 1..Size(B) + Len(bs) /\ b \in Goes(C.blocks[p])
      BY <1>6, <2>1 DEF SourcesOf
    <3>2. CASE p \in 1..Size(B) /\ p # B.cur
      BY <1>1, <1>5, <1>10, <3>1, <3>2 DEF Grown
    <3> QED BY <1>4, <1>7, <1>9, <3>1, <3>2
  <2>2. ASSUME b \in Goes(code) PROVE B.cur \in SourcesOf(C, b)
    BY <1>1, <1>4, <1>6, <1>8, <2>2 DEF SourcesOf
  <2>3. ASSUME NEW p \in Size(B) + 1..Size(B) + Len(bs), b \in Goes(bs[p - Size(B)])
        PROVE  p \in SourcesOf(C, b)
    BY <1>6, <1>8, <1>9, <2>3 DEF SourcesOf
  <2> QED BY <2>1, <2>2, <2>3
<1>11. ASSUME NEW b \in 1..Size(B), b \notin Goes(code), \A k \in 1..Len(bs) : b \notin Goes(bs[k])
       PROVE  SourcesOf(C, b) = SourcesOf(B, b)
  <2>1. ASSUME NEW p \in SourcesOf(C, b) PROVE p \in SourcesOf(B, b)
    <3>1. p \in 1..Size(B) + Len(bs) /\ b \in Goes(C.blocks[p])
      BY <1>6, <2>1 DEF SourcesOf
    <3>2. p \notin Size(B) + 1..Size(B) + Len(bs) /\ p # B.cur
      BY <1>4, <1>7, <1>9, <1>11, <3>1
    <3>3. p \in 1..Size(B) /\ C.blocks[p] = B.blocks[p]
      BY <1>1, <1>7, <3>1, <3>2 DEF Grown
    <3> QED BY <3>1, <3>3 DEF SourcesOf
  <2>2. ASSUME NEW p \in SourcesOf(B, b) PROVE p \in SourcesOf(C, b)
    <3>1. p \in 1..Size(B) /\ b \in Goes(B.blocks[p]) /\ p # B.cur
      BY <1>3, <2>2 DEF SourcesOf
    <3> QED BY <1>1, <1>6, <1>8, <3>1 DEF SourcesOf, Grown
  <2> QED BY <2>1, <2>2
<1> QED BY <1>2, <1>3, <1>4, <1>5, <1>10, <1>11

LEMMA ContinuedIs ==
  ASSUME NEW B, NEW A, NEW F, Size(B) \in Nat
  PROVE  /\ Keeps(B, A, Continued(B, A, F))
         /\ \A k \in Nat : k > 0 => Continued(B, A, F)[Size(B) + k] = F[k]
<1>1. \A b \in 1..Size(B) : b \in Nat
  OBVIOUS
<1>2. \A k \in Nat : k > 0 => Size(B) + k \in Nat /\ Size(B) + k \notin 1..Size(B)
                            /\ (Size(B) + k) - Size(B) = k
  OBVIOUS
<1> QED BY <1>1, <1>2 DEF Continued, Keeps

\* The instructions that were there are as right as before: the new code goes to no old
\* block with a phi.
LEMMA GrownOld ==
  ASSUME NEW B, NEW A, NEW C, NEW code, NEW bs, Growth(B, A, C, code, bs),
         NEW A2, Keeps(B, A, A2), NEW b \in 1..Size(B), NEW i \in DOMAIN B.blocks[b]
  PROVE  InstrAt(C, A2, b, A2[b], C.blocks[b], i)
<1>1. /\ B \in Builders /\ B.cur \in 1..Size(B) /\ Size(B) \in Nat /\ Len(bs) \in Nat
      /\ B.blocks[b] \in Seq(Instrs) /\ InstrAt(B, A, b, A[b], B.blocks[b], i) /\ PadOK(B, A)
      /\ Grown(B, C, code, bs) /\ code \in Seq(Instrs) /\ NewOnly(B, code, bs)
      /\ B.lpad # Null => C.lpad = B.lpad
  <2>1. Sound(B, A, {B.cur}) /\ Grown(B, C, code, bs) /\ NewOnly(B, code, bs)
        /\ (B.lpad # Null => C.lpad = B.lpad)
    BY DEF Growth
  <2>2. B \in Builders /\ B.cur \in 1..Size(B) /\ PadOK(B, A) /\ BlockOK(B, A, b, {B.cur})
    BY <2>1 DEF Sound
  <2>3. Size(B) \in Nat /\ B.blocks[b] \in Seq(Instrs)
    BY <2>2, BuilderTyped
  <2>4. Len(bs) \in Nat /\ code \in Seq(Instrs)
    BY <2>1 DEF Grown
  <2>5. InstrAt(B, A, b, A[b], B.blocks[b], i)
    BY <2>2 DEF BlockOK
  <2> QED BY <2>1, <2>2, <2>3, <2>4, <2>5
<1>2. A2[b] = A[b] /\ \A c \in 1..Size(B) : A2[c] = A[c] /\ c \in 1..Size(C)
  <2>1. \A c \in 1..Size(B) : A2[c] = A[c]
    BY <1>1 DEF Keeps
  <2>2. Size(C) = Size(B) + Len(bs)
    BY <1>1 DEF Grown
  <2> QED BY <1>1, <2>1, <2>2
<1>3. i \in 1..Len(B.blocks[b]) /\ C.blocks[b][i] = B.blocks[b][i] /\ Before(C.blocks[b], i) = Before(B.blocks[b], i)
  <2>1. i \in 1..Len(B.blocks[b])
    BY <1>1, BlockTyped
  <2>2. CASE b = B.cur
    <3>1. PICK q \in Seq(Instrs) : q = B.blocks[b]
      BY <1>1
    <3>2. (q \o code)[i] = q[i] /\ Before(q \o code, i) = Before(q, i)
      BY <1>1, <2>1, <3>1, BehindOld, Joint
    <3> QED BY <1>1, <2>1, <2>2, <3>1, <3>2 DEF Grown
  <2>3. CASE b # B.cur
    BY <1>1, <2>1, <2>3 DEF Grown
  <2> QED BY <2>2, <2>3
<1>4. PICK ins : ins = B.blocks[b][i]
  OBVIOUS
<1>5. Shaped(ins) /\ Reads(ins) \subseteq A[b] \cup Before(B.blocks[b], i)
  BY <1>1, <1>4 DEF InstrAt
<1>6. ASSUME NEW c \in ToSet(ins.to)
      PROVE  c \in 1..Size(C) /\ A2[c] \subseteq A[b] \cup Before(B.blocks[b], i)
  <2>1. c \in 1..Size(B) /\ A[c] \subseteq A[b] \cup Before(B.blocks[b], i)
    BY <1>1, <1>4, <1>6 DEF InstrAt
  <2> QED BY <1>2, <2>1
<1>7. ASSUME ins.op = "phi"
      PROVE  /\ b # 1 /\ DOMAIN ins.in = SourcesOf(C, b)
             /\ \A p \in DOMAIN ins.in : Needs(ins.in[p]) \subseteq AtEnd(C, A2, p)
  <2>1. /\ b # 1 /\ DOMAIN ins.in = SourcesOf(B, b)
        /\ \A p \in DOMAIN ins.in : Needs(ins.in[p]) \subseteq AtEnd(B, A, p)
    BY <1>1, <1>4, <1>7 DEF InstrAt
  <2>2. ~(B.lpad # Null /\ b \in {B.lpad, B.lpad + 1})
    <3>2. CASE B.lpad # Null /\ b \in {B.lpad, B.lpad + 1}
      <4>1. B.blocks[b] = LandingPad[1] \/ B.blocks[b] = LandingPad[2]
        BY <1>1, <3>2 DEF PadOK
      <4>2. \A j \in DOMAIN LandingPad[1] : LandingPad[1][j].op = "catch"
        BY DEF LandingPad, Instr
      <4>3. \A j \in DOMAIN LandingPad[2] : LandingPad[2][j].op = "unreachable"
        BY DEF LandingPad, Instr
      <4> QED BY <1>4, <1>7, <4>1, <4>2, <4>3
    <3> QED BY <3>2
  <2>3. b \notin Goes(code) /\ \A k \in 1..Len(bs) : b \notin Goes(bs[k])
    BY <1>1, <2>2 DEF NewOnly
  <2>4. SourcesOf(C, b) = SourcesOf(B, b)
    <3>1. \A d \in 1..Size(B) :
            d \notin Goes(code) /\ (\A k \in 1..Len(bs) : d \notin Goes(bs[k])) =>
              SourcesOf(C, d) = SourcesOf(B, d)
      BY GrownSources
    <3> QED BY <2>3, <3>1
  <2>5. ASSUME NEW p \in SourcesOf(B, b) PROVE AtEnd(C, A2, p) = AtEnd(B, A, p)
    <3>1. p \in 1..Size(B) /\ p # B.cur
      BY <2>5, GrownSources DEF SourcesOf
    <3> QED BY <1>1, <1>2, <3>1 DEF AtEnd, Grown
  <2> QED BY <2>1, <2>4, <2>5
<1>8. ins.op = "catch" => b = C.lpad
  <2>1. ins.op = "catch" => b = B.lpad /\ b # Null
    BY <1>1, <1>4 DEF InstrAt, Null
  <2> QED BY <1>1, <2>1
<1> QED BY <1>2, <1>3, <1>4, <1>5, <1>6, <1>7, <1>8 DEF InstrAt

(* Short pieces of code. *)

LEMMA Code1 ==
  ASSUME NEW p \in Instrs
  PROVE  /\ <<p>> \in Seq(Instrs) /\ Len(<<p>>) = 1 /\ <<p>>[1] = p
         /\ Before(<<p>>, 1) = {} /\ MadeBy(<<p>>) = Makes(p) /\ Goes(<<p>>) = ToSet(p.to)
         /\ p.op \in Terminators => Terminated(<<p>>)
<1>1. PICK s : s = <<p>>
  OBVIOUS
<1>2. s \in Seq(Instrs) /\ Len(s) = 1 /\ DOMAIN s = {1} /\ s[1] = p /\ s # <<>>
  BY <1>1
<1>3. Before(s, 1) = {}
  BY <1>2, Membership
<1>4. MadeBy(s) = Makes(p)
  <2>1. \A x : x \in MadeBy(s) <=> x \in Makes(p)
    BY <1>2, Membership
  <2> QED BY <2>1
<1>5. Goes(s) = ToSet(p.to)
  <2>1. \A c : c \in Goes(s) <=> c \in ToSet(p.to)
    BY <1>2, Membership
  <2> QED BY <2>1
<1>6. p.op \in Terminators => Terminated(s)
  BY <1>2 DEF Terminated
<1> QED BY <1>1, <1>2, <1>3, <1>4, <1>5, <1>6

LEMMA Code2 ==
  ASSUME NEW p \in Instrs, NEW q \in Instrs
  PROVE  /\ <<p, q>> \in Seq(Instrs) /\ Len(<<p, q>>) = 2 /\ <<p, q>>[1] = p /\ <<p, q>>[2] = q
         /\ Before(<<p, q>>, 1) = {} /\ Before(<<p, q>>, 2) = Makes(p)
         /\ MadeBy(<<p, q>>) = Makes(p) \cup Makes(q)
         /\ Goes(<<p, q>>) = ToSet(p.to) \cup ToSet(q.to)
         /\ p.op \notin Terminators /\ q.op \in Terminators => Terminated(<<p, q>>)
<1>1. PICK s : s = <<p, q>>
  OBVIOUS
<1>2. s \in Seq(Instrs) /\ Len(s) = 2 /\ DOMAIN s = {1, 2} /\ s[1] = p /\ s[2] = q /\ s # <<>>
  BY <1>1
<1>3. Before(s, 1) = {}
  BY <1>2, Membership
<1>4. Before(s, 2) = Makes(p)
  <2>1. \A x : x \in Before(s, 2) <=> x \in Makes(p)
    BY <1>2, Membership
  <2> QED BY <2>1
<1>5. MadeBy(s) = Makes(p) \cup Makes(q)
  BY <1>2, Membership
<1>6. Goes(s) = ToSet(p.to) \cup ToSet(q.to)
  BY <1>2, Membership
<1>7. p.op \notin Terminators /\ q.op \in Terminators => Terminated(s)
  BY <1>2 DEF Terminated
<1> QED BY <1>1, <1>2, <1>3, <1>4, <1>5, <1>6, <1>7

LEMMA Code3 ==
  ASSUME NEW p \in Instrs, NEW q \in Instrs, NEW r \in Instrs
  PROVE  /\ <<p, q, r>> \in Seq(Instrs) /\ Len(<<p, q, r>>) = 3 /\ <<p, q, r>>[1] = p
         /\ <<p, q, r>>[2] = q /\ <<p, q, r>>[3] = r
         /\ Before(<<p, q, r>>, 1) = {} /\ Before(<<p, q, r>>, 2) = Makes(p)
         /\ Before(<<p, q, r>>, 3) = Makes(p) \cup Makes(q)
         /\ MadeBy(<<p, q, r>>) = Makes(p) \cup Makes(q) \cup Makes(r)
         /\ Goes(<<p, q, r>>) = ToSet(p.to) \cup ToSet(q.to) \cup ToSet(r.to)
         /\ p.op \notin Terminators /\ q.op \notin Terminators /\ r.op \in Terminators =>
              Terminated(<<p, q, r>>)
<1>1. PICK s : s = <<p, q, r>>
  OBVIOUS
<1>2. /\ s \in Seq(Instrs) /\ Len(s) = 3 /\ DOMAIN s = {1, 2, 3} /\ s[1] = p /\ s[2] = q /\ s[3] = r
      /\ s # <<>>
  BY <1>1
<1>3. Before(s, 1) = {}
  BY <1>2, Membership
<1>4. Before(s, 2) = Makes(p)
  <2>1. \A x : x \in Before(s, 2) <=> x \in Makes(p)
    BY <1>2, Membership
  <2> QED BY <2>1
<1>5. Before(s, 3) = Makes(p) \cup Makes(q)
  <2>1. \A x : x \in Before(s, 3) <=> x \in Makes(p) \/ x \in Makes(q)
    BY <1>2, Membership
  <2> QED BY <2>1
<1>6. MadeBy(s) = Makes(p) \cup Makes(q) \cup Makes(r)
  BY <1>2, Membership
<1>7. Goes(s) = ToSet(p.to) \cup ToSet(q.to) \cup ToSet(r.to)
  BY <1>2, Membership
<1>8. p.op \notin Terminators /\ q.op \notin Terminators /\ r.op \in Terminators => Terminated(s)
  BY <1>2 DEF Terminated
<1> QED BY <1>1, <1>2, <1>3, <1>4, <1>5, <1>6, <1>7, <1>8

\* All that is to be shown of a builder that has grown.
NewOK(B, A, C, A2, code, bs, open) ==
  /\ C \in Builders /\ C.cur \in 1..Size(C) /\ PadOK(C, A2)
  /\ \A b \in open : b = B.cur \/ b \notin 1..Size(B)
  /\ IF B.cur \in open THEN Open(code) ELSE Terminated(code)
  /\ \A j \in 1..Len(code) : InstrAt(C, A2, B.cur, AtEnd(B, A, B.cur), code, j)
  /\ \A k \in 1..Len(bs) :
       /\ \A i \in DOMAIN bs[k] : InstrAt(C, A2, Size(B) + k, A2[Size(B) + k], bs[k], i)
       /\ IF Size(B) + k \in open THEN Open(bs[k]) ELSE Terminated(bs[k])

LEMMA Closes ==
  ASSUME NEW q \in Seq(Instrs), NEW code \in Seq(Instrs), Open(q)
  PROVE  /\ Open(code) => Open(q \o code)
         /\ Terminated(code) => Terminated(q \o code)
<1>1. PICK r : r = q \o code
  OBVIOUS
<1>2. /\ DOMAIN r = 1..Len(q) + Len(code) /\ DOMAIN q = 1..Len(q) /\ DOMAIN code = 1..Len(code)
      /\ Len(q) \in Nat /\ Len(code) \in Nat /\ Len(r) = Len(q) + Len(code) /\ r \in Seq(Instrs)
      /\ \A i \in 1..Len(q) + Len(code) :
           \/ i \in 1..Len(q) /\ r[i] = q[i]
           \/ i - Len(q) \in 1..Len(code) /\ r[i] = code[i - Len(q)]
  BY <1>1, Joint, BlockTyped
<1>3. \A i \in 1..Len(q) : q[i].op \notin Terminators
  BY <1>2 DEF Open
<1>4. Open(code) => Open(r)
  BY <1>2, <1>3 DEF Open
<1>5. ASSUME Terminated(code) PROVE Terminated(r)
  <2>1. code # <<>> /\ \A j \in 1..Len(code) : code[j].op \in Terminators <=> j = Len(code)
    BY <1>2, <1>5 DEF Terminated
  <2>2. Len(code) # 0
    BY <2>1
  <2>3. ASSUME NEW i \in 1..Len(q) + Len(code)
        PROVE  r[i].op \in Terminators <=> i = Len(q) + Len(code)
    <3>1. CASE i \in 1..Len(q) /\ r[i] = q[i]
      <4>1. i # Len(q) + Len(code)
        BY <1>2, <2>2, <3>1
      <4> QED BY <1>3, <3>1, <4>1
    <3>2. CASE i - Len(q) \in 1..Len(code) /\ r[i] = code[i - Len(q)]
      <4>1. code[i - Len(q)].op \in Terminators <=> i - Len(q) = Len(code)
        BY <2>1, <3>2
      <4>2. i - Len(q) = Len(code) <=> i = Len(q) + Len(code)
        BY <1>2
      <4> QED BY <3>2, <4>1, <4>2
    <3> QED BY <1>2, <3>1, <3>2
  <2>4. r # <<>>
    <3>1. Len(r) # 0
      BY <1>2, <2>2
    <3> QED BY <1>2, <3>1
  <2> QED BY <1>2, <2>3, <2>4 DEF Terminated
<1> QED BY <1>1, <1>4, <1>5

LEMMA GrownCurrent ==
  ASSUME NEW B, NEW A, NEW C, NEW code, NEW bs, Growth(B, A, C, code, bs),
         NEW A2, Keeps(B, A, A2), NEW open, NewOK(B, A, C, A2, code, bs, open)
  PROVE  BlockOK(C, A2, B.cur, open)
<1>1. /\ B \in Builders /\ B.cur \in 1..Size(B) /\ Size(B) \in Nat
      /\ BlockOK(B, A, B.cur, {B.cur}) /\ code \in Seq(Instrs)
      /\ C.blocks[B.cur] = B.blocks[B.cur] \o code
  BY BuilderTyped DEF Sound, Growth, Grown
<1>2. PICK q \in Seq(Instrs) : q = B.blocks[B.cur]
  BY <1>1, BuilderTyped
<1>3. PICK r : r = q \o code
  OBVIOUS
<1>4. /\ DOMAIN r = 1..Len(q) + Len(code) /\ DOMAIN q = 1..Len(q) /\ DOMAIN code = 1..Len(code)
      /\ Len(q) \in Nat /\ Len(code) \in Nat /\ Len(r) = Len(q) + Len(code)
      /\ \A i \in 1..Len(q) + Len(code) :
           \/ i \in 1..Len(q) /\ r[i] = q[i]
           \/ i - Len(q) \in 1..Len(code) /\ r[i] = code[i - Len(q)]
  BY <1>1, <1>2, <1>3, Joint, BlockTyped
<1>5. A2[B.cur] = A[B.cur] /\ C.blocks[B.cur] = r /\ AtEnd(B, A, B.cur) = A[B.cur] \cup MadeBy(q)
  <2>1. A2[B.cur] = A[B.cur]
    BY <1>1 DEF Keeps
  <2> QED BY <1>1, <1>2, <1>3, <2>1 DEF AtEnd
<1>6. ASSUME NEW i \in DOMAIN r PROVE InstrAt(C, A2, B.cur, A2[B.cur], r, i)
  <2>1. CASE i \in 1..Len(q)
    <3>1. i \in DOMAIN B.blocks[B.cur]
      BY <1>2, <1>4, <2>1
    <3>2. InstrAt(C, A2, B.cur, A2[B.cur], C.blocks[B.cur], i)
      BY <1>1, <3>1, GrownOld
    <3> QED BY <1>5, <3>2
  <2>2. CASE i - Len(q) \in 1..Len(code) /\ r[i] = code[i - Len(q)]
    <3>1. PICK j \in 1..Len(code) : j = i - Len(q)
      BY <2>2
    <3>2. i = Len(q) + j
      BY <1>4, <3>1
    <3>3. Before(r, i) = MadeBy(q) \cup Before(code, j)
      BY <1>1, <1>3, <3>2, BehindNew
    <3>4. InstrAt(C, A2, B.cur, AtEnd(B, A, B.cur), code, j)
      BY DEF NewOK
    <3>5. A2[B.cur] \cup Before(r, i) = AtEnd(B, A, B.cur) \cup Before(code, j) /\ r[i] = code[j]
      BY <1>5, <2>2, <3>1, <3>3
    <3> QED BY <3>4, <3>5 DEF InstrAt
  <2> QED BY <1>4, <2>1, <2>2
<1>7. IF B.cur \in open THEN Open(r) ELSE Terminated(r)
  <2>1. Open(q)
    BY <1>1, <1>2 DEF BlockOK
  <2>2. IF B.cur \in open THEN Open(code) ELSE Terminated(code)
    BY DEF NewOK
  <2>3. (Open(code) => Open(r)) /\ (Terminated(code) => Terminated(r))
    BY <1>1, <1>3, <2>1, Closes
  <2> QED BY <2>2, <2>3
<1> QED BY <1>5, <1>6, <1>7 DEF BlockOK

LEMMA GrownSound ==
  ASSUME NEW B, NEW A, NEW C, NEW code, NEW bs, Growth(B, A, C, code, bs),
         NEW A2, Keeps(B, A, A2), NEW open, NewOK(B, A, C, A2, code, bs, open)
  PROVE  Sound(C, A2, open)
<1>1. /\ B \in Builders /\ B.cur \in 1..Size(B) /\ Size(B) \in Nat /\ 1 \in 1..Size(B)
      /\ A[1] = {} /\ Len(bs) \in Nat /\ Grown(B, C, code, bs)
      /\ \A b \in 1..Size(B) : BlockOK(B, A, b, {B.cur})
  <2>1. Sound(B, A, {B.cur}) /\ Grown(B, C, code, bs)
    BY DEF Growth
  <2>2. bs \in Seq(Seq(Instrs))
    BY <2>1 DEF Grown
  <2>3. /\ B \in Builders /\ B.cur \in 1..Size(B) /\ 1 \in 1..Size(B) /\ A[1] = {}
        /\ \A b \in 1..Size(B) : BlockOK(B, A, b, {B.cur})
    BY <2>1 DEF Sound
  <2>4. Size(B) \in Nat
    BY <2>3, BuilderTyped
  <2>5. Len(bs) \in Nat
    BY <2>2, LenProperties
  <2> QED BY <2>1, <2>3, <2>4, <2>5
<1>2. C \in Builders /\ C.cur \in 1..Size(C) /\ PadOK(C, A2) /\ Size(C) = Size(B) + Len(bs)
  BY <1>1 DEF NewOK, Grown
<1>3. A2[1] = {} /\ 1 \in 1..Size(C)
  BY <1>1, <1>2 DEF Keeps
<1>4. ASSUME NEW b \in 1..Size(C) PROVE BlockOK(C, A2, b, open)
  <2>1. CASE b = B.cur
    BY <2>1, GrownCurrent
  <2>2. CASE b \in 1..Size(B) /\ b # B.cur
    <3>1. C.blocks[b] = B.blocks[b] /\ b \notin open
      BY <1>1, <2>2 DEF Grown, NewOK
    <3>2. \A i \in DOMAIN B.blocks[b] : InstrAt(C, A2, b, A2[b], C.blocks[b], i)
      BY <2>2, GrownOld
    <3>3. Terminated(B.blocks[b])
      BY <1>1, <2>2 DEF BlockOK
    <3> QED BY <3>1, <3>2, <3>3 DEF BlockOK
  <2>3. CASE b \notin 1..Size(B)
    <3>1. PICK k \in 1..Len(bs) : b = Size(B) + k
      <4>1. b - Size(B) \in 1..Len(bs) /\ b = Size(B) + (b - Size(B))
        BY <1>1, <1>2, <2>3
      <4> QED BY <4>1
    <3>2. C.blocks[b] = bs[k]
      BY <1>1, <3>1 DEF Grown
    <3>3. /\ \A i \in DOMAIN bs[k] : InstrAt(C, A2, b, A2[b], bs[k], i)
          /\ IF b \in open THEN Open(bs[k]) ELSE Terminated(bs[k])
      BY <3>1 DEF NewOK
    <3> QED BY <3>2, <3>3 DEF BlockOK
  <2> QED BY <2>1, <2>2, <2>3
<1> QED BY <1>2, <1>3, <1>4 DEF Sound

(* The operations of the builder. *)

Extended(B, code) == [B.blocks EXCEPT ![B.cur] = @ \o code]

LEMMA BuiltBlocks ==
  ASSUME NEW B \in Builders, B.cur \in 1..Size(B), NEW code \in Seq(Instrs)
  PROVE  /\ Extended(B, code) \in Seq(Seq(Instrs)) /\ Len(Extended(B, code)) = Size(B)
         /\ Extended(B, code)[B.cur] = B.blocks[B.cur] \o code
         /\ \A b \in 1..Size(B) : b # B.cur => Extended(B, code)[b] = B.blocks[b]
<1>0. PICK q : q = Extended(B, code)
  OBVIOUS
<1>1. /\ Size(B) \in Nat /\ DOMAIN B.blocks = 1..Size(B)
      /\ \A b \in 1..Size(B) : B.blocks[b] \in Seq(Instrs)
  BY BuilderTyped
<1>2. B.blocks[B.cur] \o code \in Seq(Instrs)
  BY <1>1
<1>3. /\ DOMAIN q = 1..Size(B) /\ q[B.cur] = B.blocks[B.cur] \o code
      /\ \A b \in 1..Size(B) : b # B.cur => q[b] = B.blocks[b]
      /\ q = [b \in 1..Size(B) |-> q[b]]
  BY <1>0, <1>1 DEF Extended
<1>4. \A b \in 1..Size(B) : q[b] \in Seq(Instrs)
  BY <1>1, <1>2, <1>3
<1>6. q \in [1..Size(B) -> Seq(Instrs)]
  BY <1>3, <1>4
<1>7. q \in Seq(Seq(Instrs))
  BY <1>1, <1>6, FunctionSeq
<1>8. Len(q) = Size(B)
  BY <1>1, <1>3, <1>7, LenProperties
<1> QED BY <1>0, <1>3, <1>7, <1>8

LEMMA Joined ==
  ASSUME NEW S, NEW q \in Seq(S), NEW r \in Seq(S)
  PROVE  /\ q \o r \in Seq(S) /\ Len(q \o r) = Len(q) + Len(r)
         /\ \A b \in 1..Len(q) : (q \o r)[b] = q[b]
         /\ \A k \in 1..Len(r) : (q \o r)[Len(q) + k] = r[k]
  BY ConcatProperties, LenProperties

LEMMA Built ==
  ASSUME NEW B \in Builders, B.cur \in 1..Size(B), NEW code \in Seq(Instrs),
         NEW bs \in Seq(Seq(Instrs)), NEW C, C.blocks = Extended(B, code) \o bs
  PROVE  Grown(B, C, code, bs)
<1>1. PICK q : q = Extended(B, code)
  OBVIOUS
<1>2. /\ q \in Seq(Seq(Instrs)) /\ Len(q) = Size(B)
      /\ q[B.cur] = B.blocks[B.cur] \o code
      /\ \A b \in 1..Size(B) : b # B.cur => q[b] = B.blocks[b]
  BY <1>1, BuiltBlocks
<1>3. /\ q \o bs \in Seq(Seq(Instrs)) /\ Len(q \o bs) = Len(q) + Len(bs)
      /\ \A b \in 1..Len(q) : (q \o bs)[b] = q[b]
      /\ \A k \in 1..Len(bs) : (q \o bs)[Len(q) + k] = bs[k]
  <2>1. PICK S : S = Seq(Instrs)
    OBVIOUS
  <2>2. q \in Seq(S) /\ bs \in Seq(S)
    BY <1>2, <2>1
  <2>3. /\ q \o bs \in Seq(S) /\ Len(q \o bs) = Len(q) + Len(bs)
        /\ \A b \in 1..Len(q) : (q \o bs)[b] = q[b]
        /\ \A k \in 1..Len(bs) : (q \o bs)[Len(q) + k] = bs[k]
    BY ONLY <2>2, Joined
  <2> QED BY ONLY <2>1, <2>3
<1>4. C.blocks = q \o bs
  BY <1>1
<1> QED BY <1>2, <1>3, <1>4 DEF Grown, Size

LEMMA EmittedOnly ==
  ASSUME NEW B \in Builders, B.cur \in 1..Size(B), NEW code \in Seq(Instrs), NEW C,
         C.blocks = Extended(B, code)
  PROVE  Grown(B, C, code, <<>>)
<1>1. /\ C.blocks \in Seq(Seq(Instrs)) /\ Len(C.blocks) = Size(B)
      /\ C.blocks[B.cur] = B.blocks[B.cur] \o code
      /\ \A b \in 1..Size(B) : b # B.cur => C.blocks[b] = B.blocks[b]
  BY ZenonT(60), BuiltBlocks
<1>2. <<>> \in Seq(Seq(Instrs)) /\ Len(<<>>) = 0 /\ Size(B) \in Nat
  BY BuilderTyped
<1> QED BY <1>1, <1>2 DEF Grown, Size

\* A value that is there for the next instruction.
Fits(B, A, v) == v \in Values /\ Needs(v) \subseteq AtEnd(B, A, B.cur)

\* The builder goes on to C, where what was there is still there, and v as well.
GoesOnTo(B, A, C, A2) ==
  Sound(C, A2, {C.cur}) /\ AtEnd(B, A, B.cur) \subseteq AtEnd(C, A2, C.cur)
Delivers(B, A, r) == \E A2 : GoesOnTo(B, A, r.b, A2) /\ Fits(r.b, A2, r.v)

\* Code without a branch.
StraightCode(B, A, code) ==
  /\ code \in Seq(Instrs)
  /\ \A j \in 1..Len(code) :
       /\ code[j].op \in Operators /\ Shaped(code[j])
       /\ Reads(code[j]) \subseteq AtEnd(B, A, B.cur) \cup Before(code, j)

LEMMA NotTerminators ==
  /\ Operators \cap Terminators = {} /\ "phi" \notin Operators /\ "catch" \notin Operators
  /\ "read" \notin Operators \cup Terminators /\ "set" \notin Operators \cup Terminators
  /\ "write" \notin Operators \cup Terminators /\ "phi" \notin Terminators
  /\ "brzero" \notin Operators /\ "br" \notin Operators /\ "while" \notin Operators
  /\ "throw" \notin Operators /\ "ret" \notin Operators /\ "unreachable" \notin Operators
  BY DEF Operators, AddOperators, MulOperators, Terminators

EmitTo(B, code, n) == [Emit(B, code) EXCEPT !.id = n]

LEMMA Straight ==
  ASSUME NEW B, NEW A, Sound(B, A, {B.cur}), NEW code, StraightCode(B, A, code), NEW n \in Nat,
         NEW C, C = EmitTo(B, code, n), NEW A2, Keeps(B, A, A2)
  PROVE  /\ GoesOnTo(B, A, C, A2)
         /\ AtEnd(C, A2, C.cur) = AtEnd(B, A, B.cur) \cup MadeBy(code)
<1>1. /\ B \in Builders /\ B.cur \in 1..Size(B) /\ Size(B) \in Nat /\ PadOK(B, A)
      /\ code \in Seq(Instrs)
  BY BuilderTyped DEF Sound, StraightCode
<1>2. /\ C.blocks = Extended(B, code) /\ C.cur = B.cur /\ C.lpad = B.lpad
      /\ C.id = n
      /\ C = [blocks |-> C.blocks, cur |-> B.cur, id |-> n, lpad |-> B.lpad]
  BY <1>1 DEF EmitTo, Emit, Builders, Extended
<1>3. Grown(B, C, code, <<>>)
  BY <1>1, <1>2, EmittedOnly
<1>4. C \in Builders /\ Size(C) = Size(B)
  <2>1. C.blocks \in Seq(Seq(Instrs)) /\ Size(C) = Size(B) + Len(<<>>)
    BY <1>3 DEF Grown
  <2>2. B.cur \in Nat /\ B.lpad \in Nat
    BY <1>1 DEF Builders
  <2> QED BY <1>1, <1>2, <2>1, <2>2 DEF Builders
<1>5. \A j \in 1..Len(code) : code[j].op \notin Terminators /\ ToSet(code[j].to) = {}
  <2>1. ToSet(<<>>) = {}
    BY DEF ToSet
  <2> QED BY <2>1, NotTerminators DEF StraightCode, Shaped
<1>6. Growth(B, A, C, code, <<>>)
  <2>1. Goes(code) = {}
    <3>1. DOMAIN code = 1..Len(code)
      BY <1>1
    <3> QED BY <1>5, <3>1, Membership
  <2>2. NewOnly(B, code, <<>>)
    BY <2>1 DEF NewOnly
  <2> QED BY <1>2, <1>3, <2>2 DEF Growth
<1>7. A2[B.cur] = A[B.cur] /\ (\A b \in 1..Size(B) : A2[b] = A[b])
  BY <1>1 DEF Keeps
<1>8. NewOK(B, A, C, A2, code, <<>>, {C.cur})
  <2>1. PadOK(C, A2)
    <3>1. SUFFICES ASSUME B.lpad # Null PROVE PadOK(C, A2)
      BY <1>2 DEF PadOK
    <3>2. /\ B.lpad \in 1..Size(B) /\ B.lpad + 1 \in 1..Size(B) /\ B.cur \notin {B.lpad, B.lpad + 1}
          /\ B.blocks[B.lpad] = LandingPad[1] /\ B.blocks[B.lpad + 1] = LandingPad[2]
          /\ A[B.lpad] = {} /\ A[B.lpad + 1] = {}
      BY <1>1, <3>1 DEF PadOK
    <3>3. C.blocks[B.lpad] = B.blocks[B.lpad] /\ C.blocks[B.lpad + 1] = B.blocks[B.lpad + 1]
      BY <1>3, <3>2 DEF Grown
    <3> QED BY <1>2, <1>4, <1>7, <3>2, <3>3 DEF PadOK
  <2>2. Open(code)
    BY <1>1, <1>5 DEF Open
  <2>3. ASSUME NEW j \in 1..Len(code) PROVE InstrAt(C, A2, B.cur, AtEnd(B, A, B.cur), code, j)
    BY <1>5, NotTerminators DEF InstrAt, StraightCode
  <2> QED BY <1>1, <1>2, <1>4, <2>1, <2>2, <2>3 DEF NewOK
<1>9. Sound(C, A2, {C.cur})
  BY <1>6, <1>8, GrownSound
<1>10. AtEnd(C, A2, C.cur) = AtEnd(B, A, B.cur) \cup MadeBy(code)
  <2>1. C.blocks[B.cur] = B.blocks[B.cur] \o code /\ B.blocks[B.cur] \in Seq(Instrs)
    BY <1>1, <1>3, BuilderTyped DEF Grown
  <2>2. MadeBy(C.blocks[B.cur]) = MadeBy(B.blocks[B.cur]) \cup MadeBy(code)
    BY <1>1, <2>1, BehindAll
  <2> QED BY <1>2, <1>7, <2>2 DEF AtEnd
<1> QED BY <1>9, <1>10 DEF GoesOnTo

(* Constants. *)

LEMMA Wraps == ASSUME NEW n \in Int PROVE Wrap(n) \in Word
<1>1. MaxWord \in Nat
  BY WordAssumption
<1>2. PICK m \in Nat : m = 2 * MaxWord + 2
  BY <1>1
<1>3. m > 0 /\ n + MaxWord + 1 \in Int
  BY <1>1, <1>2
<1>4. (n + MaxWord + 1) % m \in 0..m - 1
  BY <1>3
<1>5. Wrap(n) = ((n + MaxWord + 1) % m) - MaxWord - 1
  BY <1>2 DEF Wrap
<1> QED BY <1>1, <1>2, <1>4, <1>5 DEF Word

Arithmetic == {"+", "-", "*", "/", "%"}

LEMMA Exacts ==
  ASSUME NEW op \in Arithmetic, NEW a \in Int, NEW b \in Int, ~Undefined(op, a, b)
  PROVE  Exact(op, a, b) \in Int
<1>1. ASSUME b # 0 PROVE Quotient(a, b) \in Int /\ a - b * Quotient(a, b) \in Int
  <2>1. Magnitude(a) \in Int /\ Magnitude(b) \in Int /\ Magnitude(b) > 0
    BY <1>1 DEF Magnitude
  <2>2. Magnitude(a) \div Magnitude(b) \in Int
    BY <2>1
  <2>3. Quotient(a, b) \in Int
    BY <2>2 DEF Quotient
  <2> QED BY <2>3
<1>2. op \in {"/", "%"} => b # 0
  BY DEF Undefined
<1> QED BY <1>1, <1>2 DEF Exact, Arithmetic

Constants == [kind : {"const"}, n : Word] \cup {Poison}

LEMMA ConstantValues ==
  /\ \A v \in Values : IsConst(v) => v \in Constants
  /\ \A v \in Constants : v \in Values /\ Needs(v) = {} /\ IsConst(v)
  /\ \A v \in Constants : v # Poison => v.n \in Int
  /\ \A n \in Word : Const(n) \in Constants
  /\ Poison \in Constants /\ Zero \in Constants /\ One \in Constants
<1>1. Word \subseteq Int /\ 0 \in Word /\ 1 \in Word
  BY WordAssumption DEF Word
<1>2. \A n \in Word : Const(n) \in Constants
  BY DEF Const, Constants
<1>3. Poison.kind = "poison"
  BY DEF Poison
<1>4. \A v \in Constants : v \in Values /\ Needs(v) = {} /\ IsConst(v)
  BY <1>3 DEF Constants, Values, Needs, IsConst
<1>5. \A v \in Values : IsConst(v) => v \in Constants
  BY <1>3 DEF Constants, Values, IsConst
<1>6. \A v \in Constants : v # Poison => v.n \in Int
  BY <1>1 DEF Constants
<1> QED BY <1>1, <1>2, <1>4, <1>5, <1>6 DEF Zero, One, Constants

LEMMA Folds ==
  ASSUME NEW op \in Arithmetic, NEW L \in Constants, NEW R \in Constants
  PROVE  Fold(op, L, R) \in Constants
<1>1. CASE L = Poison \/ R = Poison \/ Undefined(op, L.n, R.n)
  BY <1>1, ConstantValues DEF Fold
<1>2. CASE ~(L = Poison \/ R = Poison \/ Undefined(op, L.n, R.n))
  <2>1. L.n \in Int /\ R.n \in Int
    BY <1>2, ConstantValues
  <2>2. Wrap(Exact(op, L.n, R.n)) \in Word
    BY <1>2, <2>1, Exacts, Wraps
  <2> QED BY <1>2, <2>2, ConstantValues DEF Fold
<1> QED BY <1>1, <1>2

-----------------------------------------------------------------------------
(* The instructions of the generator. *)

LEMMA Targets ==
  /\ <<>> \in Seq(Nat) /\ ToSet(<<>>) = {}
  /\ \A x \in Nat : <<x>> \in Seq(Nat) /\ ToSet(<<x>>) = {x} /\ 1 \in DOMAIN <<x>>
  /\ \A x, y \in Nat : /\ <<x, y>> \in Seq(Nat) /\ ToSet(<<x, y>>) = {x, y}
                       /\ 1 \in DOMAIN <<x, y>> /\ 2 \in DOMAIN <<x, y>>
<1>1. <<>> \in Seq(Nat) /\ ToSet(<<>>) = {}
  BY DEF ToSet
<1>2. ASSUME NEW x \in Nat
      PROVE  <<x>> \in Seq(Nat) /\ ToSet(<<x>>) = {x} /\ 1 \in DOMAIN <<x>>
  BY DEF ToSet
<1>3. ASSUME NEW x \in Nat, NEW y \in Nat
      PROVE  /\ <<x, y>> \in Seq(Nat) /\ ToSet(<<x, y>>) = {x, y}
             /\ 1 \in DOMAIN <<x, y>> /\ 2 \in DOMAIN <<x, y>>
  BY DEF ToSet
<1> QED BY <1>1, <1>2, <1>3

LEMMA Numerals == Zero \in Values /\ One \in Values /\ 0 \in Nat /\ Null = 0
  BY ConstantValues DEF Null

LEMMA Ariths ==
  ASSUME NEW op \in Operators, NEW id \in Nat, NEW L \in Values, NEW R \in Values
  PROVE  LET ins == Arith(op, id, L, R)
         IN  /\ ins \in Instrs /\ Shaped(ins) /\ ins.op = op /\ ins.to = <<>>
             /\ Makes(ins) = {Reg(id)} /\ Reads(ins) = Needs(L) \cup Needs(R)
<1>1. PICK ins : ins = Arith(op, id, L, R)
  OBVIOUS
<1>2. /\ ins.op = op /\ ins.to = <<>> /\ ins.a = L /\ ins.b = R /\ ins.id = id
      /\ ins = [op |-> op, id |-> id, a |-> L, b |-> R, to |-> <<>>]
  BY <1>1 DEF Arith, Instr
<1>3. ins \in Instrs
  BY <1>2, Targets DEF Instrs, Plain
<1>4. Shaped(ins)
  BY <1>2, NotTerminators DEF Shaped
<1>5. Makes(ins) = {Reg(id)} /\ Reads(ins) = Needs(L) \cup Needs(R)
  BY <1>2 DEF Makes, Reads
<1> QED BY <1>1, <1>2, <1>3, <1>4, <1>5

LEMMA GoesFurther ==
  ASSUME NEW B, NEW A, NEW C, NEW A2, GoesOnTo(B, A, C, A2), NEW r, Delivers(C, A2, r)
  PROVE  Delivers(B, A, r)
<1>1. PICK A3 : GoesOnTo(C, A2, r.b, A3) /\ Fits(r.b, A3, r.v)
  BY DEF Delivers
<1>2. GoesOnTo(B, A, r.b, A3)
  BY <1>1 DEF GoesOnTo
<1> QED BY <1>1, <1>2 DEF Delivers

LEMMA StillFits ==
  ASSUME NEW B, NEW A, NEW C, NEW A2, GoesOnTo(B, A, C, A2), NEW v, Fits(B, A, v)
  PROVE  Fits(C, A2, v)
  BY DEF GoesOnTo, Fits

LEMMA SameBuilder ==
  ASSUME NEW B, NEW A, Sound(B, A, {B.cur}), NEW v, Fits(B, A, v)
  PROVE  Delivers(B, A, Gives(B, v))
<1>1. GoesOnTo(B, A, B, A)
  BY DEF GoesOnTo
<1>2. Gives(B, v).b = B /\ Gives(B, v).v = v
  BY DEF Gives
<1> QED BY <1>1, <1>2 DEF Delivers

LEMMA CreateDelivers ==
  ASSUME NEW B, NEW A, Sound(B, A, {B.cur}), NEW op \in Arithmetic, NEW L, NEW R,
         Fits(B, A, L), Fits(B, A, R)
  PROVE  Delivers(B, A, Create(B, op, L, R))
<1>1. /\ B \in Builders /\ B.id \in Nat /\ B.id + 1 \in Nat /\ op \in Operators
      /\ L \in Values /\ R \in Values
  BY DEF Sound, Builders, Arithmetic, Operators, AddOperators, MulOperators, Fits
<1>2. CASE IsConst(L) /\ IsConst(R)
  <2>1. L \in Constants /\ R \in Constants
    BY <1>1, <1>2, ConstantValues
  <2>2. PICK v : v = Fold(op, L, R)
    OBVIOUS
  <2>3. v \in Constants
    BY <2>1, <2>2, Folds
  <2>4. Fits(B, A, v)
    BY <2>3, ConstantValues DEF Fits
  <2>5. Create(B, op, L, R) = Gives(B, v)
    BY <1>2, <2>2 DEF Create
  <2> QED BY <2>4, <2>5, SameBuilder
<1>3. CASE ~(IsConst(L) /\ IsConst(R))
  <2>1. PICK n \in Nat : n = B.id + 1
    BY <1>1
  <2>2. PICK ins : ins = Arith(op, n, L, R)
    OBVIOUS
  <2>3. /\ ins \in Instrs /\ Shaped(ins) /\ ins.op = op
        /\ Makes(ins) = {Reg(n)} /\ Reads(ins) = Needs(L) \cup Needs(R)
    BY <1>1, <2>2, Ariths
  <2>4. PICK code : code = <<ins>>
    OBVIOUS
  <2>5. code \in Seq(Instrs) /\ Len(code) = 1 /\ code[1] = ins /\ MadeBy(code) = {Reg(n)}
    BY <2>3, <2>4, Code1
  <2>6. StraightCode(B, A, code)
    BY <1>1, <2>3, <2>5 DEF StraightCode, Fits
  <2>7. PICK C : C = EmitTo(B, code, n)
    OBVIOUS
  <2>8. Create(B, op, L, R) = Gives(C, Inst(n))
    <3>1. Emit(B, code).id = B.id
      BY <1>1 DEF Emit, Builders
    <3>2. [Emit(B, code) EXCEPT !.id = @ + 1] = C
      BY <2>1, <2>7, <3>1 DEF EmitTo
    <3> QED BY <1>3, <2>1, <2>2, <2>4, <3>2 DEF Create
  <2>9. Keeps(B, A, A)
    BY DEF Keeps
  <2>10. GoesOnTo(B, A, C, A) /\ AtEnd(C, A, C.cur) = AtEnd(B, A, B.cur) \cup {Reg(n)}
    <3>1. GoesOnTo(B, A, C, A) /\ AtEnd(C, A, C.cur) = AtEnd(B, A, B.cur) \cup MadeBy(code)
      BY <2>6, <2>7, <2>9, Straight
    <3> QED BY <2>5, <3>1
  <2>11. Fits(C, A, Inst(n))
    BY <2>10 DEF Fits, Inst, Values, Needs
  <2>12. Gives(C, Inst(n)).b = C /\ Gives(C, Inst(n)).v = Inst(n)
    BY DEF Gives
  <2> QED BY <2>8, <2>10, <2>11, <2>12 DEF Delivers
<1> QED BY <1>2, <1>3

(* Powers with an exponent that is known. *)

FoldsTo(f, n, base) == f = [k \in 1..n |-> IF k = 1 THEN base ELSE Fold("*", f[k - 1], base)]

LEMMA FoldsFurther ==
  ASSUME NEW base \in Constants, NEW n \in Nat, n > 0,
         \E f : FoldsTo(f, n, base) /\ \A k \in 1..n : f[k] \in Constants
  PROVE  \E f : FoldsTo(f, n + 1, base) /\ \A k \in 1..n + 1 : f[k] \in Constants
<1>1. PICK f : FoldsTo(f, n, base) /\ \A k \in 1..n : f[k] \in Constants
  OBVIOUS
<1>2. PICK g : g = [k \in 1..n + 1 |-> IF k \in 1..n THEN f[k] ELSE Fold("*", f[n], base)]
  OBVIOUS
<1>3. \A k \in 1..n + 1 : /\ k \in 1..n \/ k = n + 1
                          /\ k \in 1..n /\ k # 1 => k - 1 \in 1..n
  OBVIOUS
<1>4. n \in 1..n /\ n + 1 \notin 1..n /\ (n + 1) - 1 = n /\ n + 1 # 1 /\ n + 1 \in 1..n + 1
      /\ \A k \in 1..n : k \in 1..n + 1
  OBVIOUS
<1>5. \A k \in 1..n : f[k] = IF k = 1 THEN base ELSE Fold("*", f[k - 1], base)
  BY <1>1 DEF FoldsTo
<1>6. (\A k \in 1..n : g[k] = f[k]) /\ g[n + 1] = Fold("*", f[n], base)
  BY <1>2, <1>4
<1>7. \A k \in 1..n + 1 : g[k] = IF k = 1 THEN base ELSE Fold("*", g[k - 1], base)
  <2>1. SUFFICES ASSUME NEW k \in 1..n + 1
                 PROVE  g[k] = IF k = 1 THEN base ELSE Fold("*", g[k - 1], base)
    OBVIOUS
  <2>2. CASE k \in 1..n
    <3>1. k # 1 => g[k - 1] = f[k - 1]
      BY <1>3, <1>6, <2>2
    <3> QED BY <1>5, <1>6, <2>2, <3>1
  <2>3. CASE k = n + 1
    BY <1>4, <1>6, <2>3
  <2> QED BY <1>3, <2>2, <2>3
<1>8. FoldsTo(g, n + 1, base)
  <2>1. g = [k \in 1..n + 1 |-> g[k]]
    BY <1>2
  <2> QED BY <1>7, <2>1 DEF FoldsTo
<1>9. \A k \in 1..n + 1 : g[k] \in Constants
  <2>1. f[n] \in Constants /\ "*" \in Arithmetic
    BY <1>1, <1>4 DEF Arithmetic
  <2>2. Fold("*", f[n], base) \in Constants
    BY <2>1, Folds
  <2> QED BY <1>1, <1>3, <1>6, <2>2
<1> QED BY <1>8, <1>9

LEMMA FoldedConstants ==
  ASSUME NEW base \in Constants, NEW n \in 2..9
  PROVE  Folded(base, n) \in Constants
<1> DEFINE E(m) == \E f : FoldsTo(f, m, base) /\ \A k \in 1..m : f[k] \in Constants
<1>1. E(1)
  <2>1. PICK f : f = [k \in 1..1 |-> base]
    OBVIOUS
  <2>2. FoldsTo(f, 1, base) /\ \A k \in 1..1 : f[k] \in Constants
    BY <2>1 DEF FoldsTo
  <2> QED BY <2>2
<1>2. \A m \in Nat : m > 0 /\ E(m) => E(m + 1)
  BY FoldsFurther
<1> HIDE DEF E
<1>3. E(2) /\ E(3)
  <2>1. E(1 + 1)
    BY <1>1, <1>2
  <2>2. E(2 + 1)
    BY <2>1, <1>2
  <2> QED BY <2>1, <2>2
<1>4. E(4) /\ E(5)
  <2>1. E(3 + 1)
    BY <1>3, <1>2
  <2>2. E(4 + 1)
    BY <2>1, <1>2
  <2> QED BY <2>1, <2>2
<1>5. E(6) /\ E(7)
  <2>1. E(5 + 1)
    BY <1>4, <1>2
  <2>2. E(6 + 1)
    BY <2>1, <1>2
  <2> QED BY <2>1, <2>2
<1>6. E(8) /\ E(9)
  <2>1. E(7 + 1)
    BY <1>5, <1>2
  <2>2. E(8 + 1)
    BY <2>1, <1>2
  <2> QED BY <2>1, <2>2
<1>7. E(n)
  BY <1>3, <1>4, <1>5, <1>6
<1>8. \E f : FoldsTo(f, n, base)
  BY <1>7 DEF E
<1>9. Folded(base, n) = (CHOOSE f : FoldsTo(f, n, base))[n]
  BY DEF Folded, FoldsTo
<1>10. PICK f : f = CHOOSE g : FoldsTo(g, n, base)
  OBVIOUS
<1>11. \A k \in 1..n : f[k] = IF k = 1 THEN base ELSE Fold("*", f[k - 1], base)
  <2>1. FoldsTo(f, n, base)
    BY <1>8, <1>10
  <2> QED BY <2>1 DEF FoldsTo
<1>12. \A m \in 1..n : m # n /\ f[m] \in Constants => f[m + 1] \in Constants
  <2>1. SUFFICES ASSUME NEW m \in 1..n, m # n, f[m] \in Constants PROVE f[m + 1] \in Constants
    OBVIOUS
  <2>2. m + 1 \in 1..n /\ m + 1 # 1 /\ (m + 1) - 1 = m /\ "*" \in Arithmetic
    BY <2>1 DEF Arithmetic
  <2> QED BY <1>11, <2>1, <2>2, Folds
<1>13. f[1] \in Constants
  BY <1>11
<1>14. /\ n >= 2 => f[2] \in Constants
       /\ n >= 3 => f[3] \in Constants
  BY <1>12, <1>13
<1>15. /\ n >= 4 => f[4] \in Constants
       /\ n >= 5 => f[5] \in Constants
  BY <1>12, <1>14
<1>16. /\ n >= 6 => f[6] \in Constants
       /\ n >= 7 => f[7] \in Constants
  BY <1>12, <1>15
<1>17. /\ n >= 8 => f[8] \in Constants
       /\ n >= 9 => f[9] \in Constants
  BY <1>12, <1>16
<1>18. f[n] \in Constants
  BY <1>14, <1>15, <1>16, <1>17
<1> QED BY <1>9, <1>10, <1>18
\* Products of the base and of products before them.
Chained(id, base, p, n) ==
  /\ DOMAIN p = 1..n
  /\ \A k \in 1..n : \A e \in {p[k][1], p[k][2]} : e = base \/ \E m \in 1..k - 1 : e = Inst(id + m)

Multiplications(id, p) == [k \in DOMAIN p |-> Arith("*", id + k, p[k][1], p[k][2])]

LEMMA ChainDelivers ==
  ASSUME NEW B, NEW A, Sound(B, A, {B.cur}), NEW base, Fits(B, A, base),
         NEW n \in Nat, n > 0, NEW p, Chained(B.id, base, p, n),
         NEW code, code = Multiplications(B.id, p)
  PROVE  Delivers(B, A, Gives([Emit(B, code) EXCEPT !.id = @ + Len(code)], Inst(B.id + Len(code))))
<1>1. B \in Builders /\ B.id \in Nat /\ base \in Values /\ "*" \in Operators
  BY DEF Sound, Builders, Operators, MulOperators, Fits
<1>2. ASSUME NEW k \in 1..n
      PROVE  /\ code[k] \in Instrs /\ Shaped(code[k]) /\ code[k].op \in Operators
             /\ Makes(code[k]) = {Reg(B.id + k)}
             /\ \A x \in Reads(code[k]) : x \in Needs(base) \/ \E m \in 1..k - 1 : x = Reg(B.id + m)
  <2>1. k \in Nat /\ B.id + k \in Nat /\ \A m \in 1..k - 1 : B.id + m \in Nat
    BY <1>1
  <2>2. code[k] = Arith("*", B.id + k, p[k][1], p[k][2])
    BY DEF Multiplications, Chained
  <2>3. ASSUME NEW e \in {p[k][1], p[k][2]}
        PROVE  /\ e \in Values
               /\ \A x \in Needs(e) : x \in Needs(base) \/ \E m \in 1..k - 1 : x = Reg(B.id + m)
    <3>1. CASE e = base
      BY <1>1, <3>1
    <3>2. CASE \E m \in 1..k - 1 : e = Inst(B.id + m)
      <4>1. PICK m \in 1..k - 1 : e = Inst(B.id + m)
        BY <3>2
      <4>2. e \in Values /\ Needs(e) = {Reg(B.id + m)}
        BY <2>1, <4>1 DEF Inst, Values, Needs
      <4> QED BY <4>2
    <3> QED BY <2>3, <3>1, <3>2 DEF Chained
  <2>4. PICK x, y : x = p[k][1] /\ y = p[k][2]
    OBVIOUS
  <2>5. x \in Values /\ y \in Values
    BY <2>3, <2>4
  <2>6. /\ code[k] \in Instrs /\ Shaped(code[k]) /\ code[k].op = "*"
        /\ Makes(code[k]) = {Reg(B.id + k)} /\ Reads(code[k]) = Needs(x) \cup Needs(y)
    BY <1>1, <2>1, <2>2, <2>4, <2>5, Ariths
  <2> QED BY <1>1, <2>3, <2>4, <2>6
<1>3. code \in Seq(Instrs) /\ Len(code) = n /\ DOMAIN code = 1..n
  <2>1. DOMAIN code = 1..n /\ code = [k \in 1..n |-> code[k]]
    BY DEF Multiplications, Chained
  <2>2. code \in [1..n -> Instrs]
    BY <1>2, <2>1
  <2>3. code \in Seq(Instrs)
    BY <2>2, FunctionSeq
  <2> QED BY <2>1, <2>3, LenProperties
<1>4. StraightCode(B, A, code)
  <2>1. ASSUME NEW j \in 1..n PROVE Reads(code[j]) \subseteq AtEnd(B, A, B.cur) \cup Before(code, j)
    <3>1. ASSUME NEW x \in Reads(code[j]), NEW m \in 1..j - 1, x = Reg(B.id + m)
          PROVE  x \in Before(code, j)
      <4>1. m \in 1..n /\ m < j
        OBVIOUS
      <4>2. x \in Makes(code[m])
        BY <1>2, <3>1, <4>1
      <4> QED BY <1>3, <4>1, <4>2, Membership
    <3> QED BY <1>2, <3>1 DEF Fits
  <2> QED BY <1>2, <1>3, <2>1 DEF StraightCode
<1>5. PICK i \in Nat : i = B.id + n
  BY <1>1
<1>6. PICK C : C = EmitTo(B, code, i)
  OBVIOUS
<1>7. [Emit(B, code) EXCEPT !.id = @ + Len(code)] = C
  <2>1. Emit(B, code).id = B.id
    BY <1>1 DEF Emit, Builders
  <2> QED BY <1>3, <1>5, <1>6, <2>1 DEF EmitTo
<1>8. GoesOnTo(B, A, C, A) /\ AtEnd(C, A, C.cur) = AtEnd(B, A, B.cur) \cup MadeBy(code)
  <2>1. Keeps(B, A, A)
    BY DEF Keeps
  <2>2. Sound(B, A, {B.cur}) /\ i \in Nat
    OBVIOUS
  <2> QED BY ONLY <1>4, <1>6, <2>1, <2>2, Straight
<1>9. Reg(i) \in MadeBy(code)
  <2>1. n \in 1..n
    OBVIOUS
  <2>2. n \in DOMAIN code /\ Reg(i) \in Makes(code[n])
    BY <1>2, <1>3, <1>5, <2>1
  <2> QED BY <2>2, Membership
<1>10. Fits(C, A, Inst(i))
  BY <1>8, <1>9 DEF Fits, Inst, Values, Needs
<1>11. Gives(C, Inst(i)).b = C /\ Gives(C, Inst(i)).v = Inst(i)
  BY DEF Gives
<1> QED BY <1>3, <1>5, <1>7, <1>8, <1>10, <1>11 DEF Delivers

LEMMA ExpandDelivers ==
  ASSUME NEW B, NEW A, Sound(B, A, {B.cur}), NEW base, Fits(B, A, base), NEW n \in 0..9
  PROVE  Delivers(B, A, Expand(B, base, n))
<1>1. B \in Builders /\ B.id \in Nat /\ base \in Values
  BY DEF Sound, Builders, Fits
<1>2. CASE n = 0
  <2>1. Fits(B, A, One)
    BY ConstantValues DEF Fits
  <2>2. Expand(B, base, n) = Gives(B, One)
    BY <1>2 DEF Expand
  <2> QED BY <2>1, <2>2, SameBuilder
<1>3. CASE n = 1
  <2>1. Expand(B, base, n) = Gives(B, base)
    BY <1>3 DEF Expand
  <2> QED BY <2>1, SameBuilder
<1>4. CASE n > 1 /\ IsConst(base)
  <2>1. PICK v : v = Folded(base, n)
    OBVIOUS
  <2>2. v \in Constants
    BY <1>1, <1>4, <2>1, ConstantValues, FoldedConstants
  <2>3. Fits(B, A, v)
    BY <2>2, ConstantValues DEF Fits
  <2>4. Expand(B, base, n) = Gives(B, v)
    BY <1>4, <2>1 DEF Expand
  <2> QED BY <2>3, <2>4, SameBuilder
<1>5. CASE n > 1 /\ ~IsConst(base)
  <2> DEFINE r(k) == Inst(B.id + k)
  <2>1. PICK p : p = Products(base, n, r)
    OBVIOUS
  <2>2. \E m \in Nat : m > 0 /\ Chained(B.id, base, p, m)
    <3>1. CASE n = 4
      <4>1. p = << <<base, base>>, <<r(1), r(1)>> >>
        BY <2>1, <3>1 DEF Products
      <4>2. Chained(B.id, base, p, 2)
        BY <1>1, <4>1 DEF Chained
      <4> QED BY ONLY <4>2
    <3>2. CASE n = 5
      <4>1. p = << <<base, base>>, <<r(1), r(1)>>, <<r(2), base>> >>
        BY <2>1, <3>2 DEF Products
      <4>2. Chained(B.id, base, p, 3)
        BY <1>1, <4>1 DEF Chained
      <4> QED BY ONLY <4>2
    <3>3. CASE n \notin {4, 5}
      <4>1. p = [k \in 1..n - 1 |-> <<IF k = 1 THEN base ELSE r(k - 1), base>>]
        BY <1>5, <2>1, <3>3 DEF Products
      <4>2. n - 1 \in Nat /\ n - 1 > 0 /\ DOMAIN p = 1..n - 1
        BY <1>5, <4>1
      <4>3. ASSUME NEW k \in 1..n - 1, NEW e \in {p[k][1], p[k][2]}
            PROVE  e = base \/ \E m \in 1..k - 1 : e = Inst(B.id + m)
        <5>1. p[k][1] = (IF k = 1 THEN base ELSE r(k - 1)) /\ p[k][2] = base
          BY <4>1
        <5>2. k # 1 => k - 1 \in 1..k - 1
          OBVIOUS
        <5> QED BY <4>3, <5>1, <5>2
      <4>4. Chained(B.id, base, p, n - 1)
        BY <4>2, <4>3 DEF Chained
      <4> QED BY ONLY <4>2, <4>4
    <3> QED BY <3>1, <3>2, <3>3
  <2>3. PICK code : code = Multiplications(B.id, p)
    OBVIOUS
  <2>4. Expand(B, base, n) = Gives([Emit(B, code) EXCEPT !.id = @ + Len(code)], Inst(B.id + Len(code)))
    BY <1>5, <2>1, <2>3 DEF Expand, Multiplications
  <2>5. PICK m \in Nat : m > 0 /\ Chained(B.id, base, p, m)
    BY <2>2
  <2>6. Delivers(B, A, Gives([Emit(B, code) EXCEPT !.id = @ + Len(code)], Inst(B.id + Len(code))))
    BY <2>3, <2>5, ChainDelivers
  <2> QED BY <2>4, <2>6
<1> QED BY <1>2, <1>3, <1>4, <1>5
(* The other instructions. *)

LEMMA Plains ==
  ASSUME NEW op \in {"read", "set", "write"} \cup Terminators, NEW id \in Nat,
         NEW a \in Values \cup Named, NEW b \in Values, NEW to \in Seq(Nat)
  PROVE  LET ins == Instr(op, id, a, b, to)
         IN  /\ ins \in Instrs /\ ins.op = op /\ ins.id = id /\ ins.a = a /\ ins.to = to
             /\ op \notin Operators /\ op # "phi"
<1>1. PICK ins : ins = Instr(op, id, a, b, to)
  OBVIOUS
<1>2. /\ ins.op = op /\ ins.id = id /\ ins.a = a /\ ins.to = to
      /\ ins = [op |-> op, id |-> id, a |-> a, b |-> b, to |-> to]
  BY <1>1 DEF Instr
<1>3. ins \in Instrs
  BY <1>2 DEF Instrs, Plain
<1>4. op \notin Operators /\ op # "phi"
  BY NotTerminators DEF Operators, AddOperators, MulOperators, Terminators
<1> QED BY <1>1, <1>2, <1>3, <1>4

LEMMA BranchesOnZero ==
  ASSUME NEW v \in Values, NEW x \in Nat, NEW y \in Nat
  PROVE  LET ins == BranchOnZero(v, x, y)
         IN  /\ ins \in Instrs /\ Shaped(ins) /\ ins.op = "brzero" /\ "brzero" \in Terminators
             /\ Makes(ins) = {} /\ Reads(ins) = Needs(v) /\ ToSet(ins.to) = {x, y}
<1>1. PICK ins : ins = BranchOnZero(v, x, y)
  OBVIOUS
<1>2. PICK to : to = <<x, y>>
  OBVIOUS
<1>3. to \in Seq(Nat) /\ ToSet(to) = {x, y} /\ 1 \in DOMAIN to /\ 2 \in DOMAIN to
  BY <1>2, Targets
<1>4. "brzero" \in Terminators
  BY DEF Terminators
<1>5. ins \in Instrs /\ ins.op = "brzero" /\ ins.a = v /\ ins.to = to /\ "brzero" \notin Operators
  <2>1. ins = Instr("brzero", 0, v, Zero, to) /\ v \in Values \cup Named
    BY <1>1, <1>2 DEF BranchOnZero, Null
  <2> QED BY ONLY SMTT(30), <1>3, <1>4, <2>1, Plains, Numerals
<1>6. Shaped(ins)
  BY <1>3, <1>4, <1>5 DEF Shaped
<1>7. Makes(ins) = {} /\ Reads(ins) = Needs(v)
  BY <1>5 DEF Makes, Reads
<1> QED BY <1>1, <1>3, <1>4, <1>5, <1>6, <1>7

LEMMA Throws ==
  ASSUME NEW pad \in Nat
  PROVE  LET ins == Throw(pad)
         IN  /\ ins \in Instrs /\ Shaped(ins) /\ ins.op = "throw" /\ "throw" \in Terminators
             /\ Makes(ins) = {} /\ Reads(ins) = {} /\ ToSet(ins.to) = {pad, pad + 1}
<1>1. PICK ins : ins = Throw(pad)
  OBVIOUS
<1>2. PICK to : to = <<pad + 1, pad>>
  OBVIOUS
<1>3. to \in Seq(Nat) /\ ToSet(to) = {pad, pad + 1} /\ 1 \in DOMAIN to /\ 2 \in DOMAIN to
  <2>1. pad + 1 \in Nat
    OBVIOUS
  <2>2. ToSet(to) = {pad + 1, pad}
    BY <1>2, <2>1, Targets
  <2> QED BY <1>2, <2>1, <2>2, Targets
<1>4. "throw" \in Terminators
  BY DEF Terminators
<1>5. ins \in Instrs /\ ins.op = "throw" /\ ins.to = to /\ "throw" \notin Operators
  <2>1. ins = Instr("throw", 0, Zero, Zero, to)
    BY <1>1, <1>2 DEF Throw, Null
  <2> QED BY <1>3, <1>4, <2>1, Plains, Numerals
<1>6. Shaped(ins)
  BY <1>3, <1>4, <1>5 DEF Shaped
<1>7. Makes(ins) = {} /\ Reads(ins) = {}
  BY <1>5 DEF Makes, Reads
<1> QED BY <1>1, <1>3, <1>4, <1>5, <1>6, <1>7

LEMMA Ending ==
  ASSUME NEW op \in {"catch", "unreachable", "ret"}
  PROVE  LET ins == Instr(op, Null, Zero, Zero, <<>>)
         IN  /\ ins \in Instrs /\ Shaped(ins) /\ ins.op = op /\ op \in Terminators
             /\ Makes(ins) = {} /\ Reads(ins) = {} /\ ToSet(ins.to) = {}
<1>1. PICK ins : ins = Instr(op, 0, Zero, Zero, <<>>)
  OBVIOUS
<1>2. op \in Terminators
  BY DEF Terminators
<1>3. ins \in Instrs /\ ins.op = op /\ ins.to = <<>> /\ op \notin Operators
  <2>1. PICK to : to = <<>>
    OBVIOUS
  <2>2. to \in Seq(Nat) /\ ins = Instr(op, 0, Zero, Zero, to)
    BY <1>1, <2>1, Targets
  <2>3. op \in {"read", "set", "write"} \cup Terminators
    BY <1>2
  <2>4. ins \in Instrs /\ ins.op = op /\ ins.to = to /\ op \notin Operators
    BY ONLY <2>2, <2>3, Plains, Numerals
  <2> QED BY <2>1, <2>4
<1>4. Shaped(ins)
  BY <1>2, <1>3 DEF Shaped
<1>5. Makes(ins) = {} /\ Reads(ins) = {}
  BY <1>3 DEF Makes, Reads
<1> QED BY <1>1, <1>2, <1>3, <1>4, <1>5, Targets DEF Null

LEMMA Branches ==
  ASSUME NEW x \in Nat
  PROVE  LET ins == Branch(x)
         IN  /\ ins \in Instrs /\ Shaped(ins) /\ ins.op = "br" /\ "br" \in Terminators
             /\ Makes(ins) = {} /\ Reads(ins) = {} /\ ToSet(ins.to) = {x}
<1>1. PICK ins : ins = Branch(x)
  OBVIOUS
<1>2. PICK to : to = <<x>>
  OBVIOUS
<1>3. to \in Seq(Nat) /\ ToSet(to) = {x} /\ 1 \in DOMAIN to
  BY <1>2, Targets
<1>4. "br" \in Terminators
  BY DEF Terminators
<1>5. ins \in Instrs /\ ins.op = "br" /\ ins.to = to /\ "br" \notin Operators
  <2>1. ins = Instr("br", 0, Zero, Zero, to)
    BY <1>1, <1>2 DEF Branch, Null
  <2> QED BY <1>3, <1>4, <2>1, Plains, Numerals
<1>6. Shaped(ins)
  BY <1>3, <1>4, <1>5 DEF Shaped
<1>7. Makes(ins) = {} /\ Reads(ins) = {}
  BY <1>5 DEF Makes, Reads
<1> QED BY <1>1, <1>3, <1>4, <1>5, <1>6, <1>7

LEMMA Counters ==
  ASSUME NEW id \in Nat, NEW v \in Values
  PROVE  LET ins == SetCounter(id, v)
         IN  /\ ins \in Instrs /\ Shaped(ins) /\ ins.op = "set" /\ "set" \notin Terminators
             /\ Makes(ins) = {Cell(id + 2)} /\ Reads(ins) = Needs(v) /\ ToSet(ins.to) = {}
<1>1. PICK ins : ins = SetCounter(id, v)
  OBVIOUS
<1>2. ins \in Instrs /\ ins.op = "set" /\ ins.to = <<>> /\ ins.a = v /\ ins.id = id + 2
  <2>1. PICK to : to = <<>>
    OBVIOUS
  <2>2. PICK n : n = id + 2
    OBVIOUS
  <2>3. /\ ins = Instr("set", n, v, Zero, to) /\ n \in Nat /\ v \in Values \cup Named
        /\ to \in Seq(Nat) /\ "set" \in {"read", "set", "write"} \cup Terminators
    BY <1>1, <2>1, <2>2, Targets DEF SetCounter
  <2>4. ins \in Instrs /\ ins.op = "set" /\ ins.to = to /\ ins.a = v /\ ins.id = n
    BY ONLY <2>3, Plains, Numerals
  <2> QED BY <2>1, <2>2, <2>4
<1>3. "set" \notin Operators /\ "set" \notin Terminators
  BY NotTerminators
<1>4. Shaped(ins)
  BY <1>2, <1>3, Targets DEF Shaped
<1>5. Makes(ins) = {Cell(id + 2)} /\ Reads(ins) = Needs(v)
  BY <1>2, <1>3 DEF Makes, Reads
<1> QED BY <1>1, <1>2, <1>3, <1>4, <1>5, Targets

While(id, x, y) == Instr("while", id, Zero, Zero, <<x, y>>)

IsWhile(ins, id, x, y) ==
  /\ ins \in Instrs /\ Shaped(ins) /\ ins.op = "while" /\ ins.op \in Terminators
  /\ Makes(ins) = {} /\ Reads(ins) = {Cell(id)} /\ ToSet(ins.to) = {x, y}

LEMMA Whiles ==
  ASSUME NEW id \in Nat, NEW x \in Nat, NEW y \in Nat
  PROVE  IsWhile(While(id, x, y), id, x, y)
<1>1. PICK to : to = <<x, y>>
  OBVIOUS
<1>2. to \in Seq(Nat) /\ ToSet(to) = {x, y} /\ 1 \in DOMAIN to /\ 2 \in DOMAIN to
  BY <1>1, Targets
<1>3. PICK ins : ins = Instr("while", id, Zero, Zero, to)
  OBVIOUS
<1>8. While(id, x, y) = ins
  BY <1>1, <1>3 DEF While
<1>4. "while" \in Terminators
  BY DEF Terminators
<1>5. ins \in Instrs /\ ins.op = "while" /\ ins.to = to /\ ins.id = id /\ "while" \notin Operators
  BY <1>2, <1>3, <1>4, Plains, Numerals
<1>6. Shaped(ins)
  BY <1>2, <1>4, <1>5 DEF Shaped
<1>7. Makes(ins) = {} /\ Reads(ins) = {Cell(id)}
  BY <1>5 DEF Makes, Reads
<1> QED BY <1>8, <1>2, <1>4, <1>5, <1>6, <1>7 DEF IsWhile

IsPhi(ins, id, p, v, q, w) ==
  /\ ins \in Instrs /\ Shaped(ins) /\ ins.op = "phi" /\ "phi" \notin Terminators
  /\ Makes(ins) = {Reg(id)} /\ Reads(ins) = {} /\ ToSet(ins.to) = {}
  /\ DOMAIN ins.in = {p, q} /\ ins.in[p] = v /\ ins.in[q] = w

LEMMA PhiNodes ==
  ASSUME NEW id \in Nat, NEW p \in Nat, NEW q \in Nat, NEW v \in Values, NEW w \in Values, p # q
  PROVE  IsPhi(Phi(id, Incoming(p, v, q, w)), id, p, v, q, w)
<1>1. PICK in : in = Incoming(p, v, q, w)
  OBVIOUS
<1>2. /\ in \in [{p, q} -> Values] /\ DOMAIN in = {p, q} /\ in[p] = v /\ in[q] = w
  BY <1>1 DEF Incoming
<1>3. in \in UNION {[D -> Values] : D \in SUBSET Nat}
  <2>1. {p, q} \in SUBSET Nat
    OBVIOUS
  <2> QED BY <1>2, <2>1
<1>4. PICK ins : ins = Phi(id, in)
  OBVIOUS
<1>5. /\ ins.op = "phi" /\ ins.id = id /\ ins.in = in /\ ins.to = <<>>
      /\ ins = [op |-> "phi", id |-> id, in |-> in, to |-> <<>>]
  BY <1>4 DEF Phi
<1>6. ins \in Instrs
  BY <1>3, <1>5 DEF Instrs, Phis
<1>7. "phi" \notin Operators /\ "phi" \notin Terminators
  BY NotTerminators
<1>8. Shaped(ins)
  BY <1>5, <1>7 DEF Shaped
<1>9. Makes(ins) = {Reg(id)} /\ Reads(ins) = {}
  BY <1>5, <1>7 DEF Makes, Reads
<1> QED BY <1>1, <1>2, <1>4, <1>5, <1>6, <1>7, <1>8, <1>9, Targets DEF IsPhi
(* Division. *)

LEMMA Extensional ==
  ASSUME NEW S, NEW q \in Seq(S), NEW r \in Seq(S), Len(q) = Len(r),
         \A i \in 1..Len(q) : q[i] = r[i]
  PROVE  q = r
<1>1. /\ DOMAIN q = 1..Len(q) /\ DOMAIN r = 1..Len(q)
      /\ q = [i \in 1..Len(q) |-> q[i]] /\ r = [i \in 1..Len(q) |-> r[i]]
  OBVIOUS
<1> QED BY <1>1

LEMMA JoinedTwo ==
  ASSUME NEW S, NEW q \in Seq(S), NEW t \in S, NEW u \in S
  PROVE  /\ q \o <<t, u>> \in Seq(S) /\ Len(q \o <<t, u>>) = Len(q) + 2
         /\ DOMAIN (q \o <<t, u>>) = 1..Len(q) + 2
         /\ \A b \in 1..Len(q) : (q \o <<t, u>>)[b] = q[b]
         /\ (q \o <<t, u>>)[Len(q) + 1] = t /\ (q \o <<t, u>>)[Len(q) + 2] = u
  OBVIOUS

LEMMA JoinedFour ==
  ASSUME NEW S, NEW q \in Seq(S), NEW t \in S, NEW u \in S, NEW c \in S, NEW d \in S
  PROVE  /\ q \o <<t, u, c, d>> \in Seq(S) /\ Len(q \o <<t, u, c, d>>) = Len(q) + 4
         /\ \A b \in 1..Len(q) : (q \o <<t, u, c, d>>)[b] = q[b]
         /\ (q \o <<t, u, c, d>>)[Len(q) + 1] = t /\ (q \o <<t, u, c, d>>)[Len(q) + 2] = u
         /\ (q \o <<t, u, c, d>>)[Len(q) + 3] = c /\ (q \o <<t, u, c, d>>)[Len(q) + 4] = d
  OBVIOUS

LEMMA TwoMore ==
  ASSUME NEW S, NEW q \in Seq(S), NEW t \in S, NEW u \in S
  PROVE  [q \o <<u, u>> EXCEPT ![Len(q) + 1] = t] = q \o <<t, u>>
<1>1. PICK n \in Nat : n = Len(q)
  BY LenProperties
<1>2. PICK e : e = q \o <<u, u>>
  OBVIOUS
<1>3. PICK f : f = q \o <<t, u>>
  OBVIOUS
<1>4. /\ DOMAIN e = 1..n + 2 /\ e[n + 2] = u /\ \A b \in 1..n : e[b] = q[b]
  BY <1>1, <1>2, JoinedTwo
<1>5. /\ f \in Seq(S) /\ Len(f) = n + 2 /\ DOMAIN f = 1..n + 2
      /\ f[n + 1] = t /\ f[n + 2] = u /\ \A b \in 1..n : f[b] = q[b]
  BY <1>1, <1>3, JoinedTwo
<1>6. PICK g : g = [e EXCEPT ![n + 1] = t]
  OBVIOUS
<1>7. n + 1 # n + 2 /\ \A i \in 1..n + 2 : (i \in 1..n /\ i # n + 1) \/ i = n + 1 \/ i = n + 2
  OBVIOUS
<1>8. g = [i \in 1..n + 2 |-> g[i]] /\ \A i \in 1..n + 2 : g[i] = IF i = n + 1 THEN t ELSE e[i]
  BY ONLY <1>4, <1>6
<1>9. \A i \in 1..n + 2 : g[i] = f[i]
  BY ONLY <1>4, <1>5, <1>7, <1>8
<1>10. f = [i \in 1..n + 2 |-> f[i]]
  BY ONLY <1>5
<1>11. g = f
  BY ONLY <1>8, <1>9, <1>10
<1> QED BY <1>1, <1>2, <1>3, <1>6, <1>11

IsTwo(s, t, u) == s = <<t, u>>
IsFour(s, t, u, c, d) == s = <<t, u, c, d>>

LEMMA FourMore ==
  ASSUME NEW S, NEW q \in Seq(S), NEW t \in S, NEW u \in S, NEW c \in S, NEW d \in S,
         NEW tu, IsTwo(tu, t, u), NEW cd, IsTwo(cd, c, d), NEW all, IsFour(all, t, u, c, d)
  PROVE  (q \o tu) \o cd = q \o all
<1>0. tu = <<t, u>> /\ cd = <<c, d>> /\ all = <<t, u, c, d>>
  BY DEF IsTwo, IsFour
<1>1. PICK n \in Nat : n = Len(q)
  BY LenProperties
<1>2. PICK e : e = q \o <<t, u>>
  OBVIOUS
<1>3. /\ e \in Seq(S) /\ Len(e) = n + 2 /\ \A b \in 1..n : e[b] = q[b]
      /\ e[n + 1] = t /\ e[n + 2] = u
  BY <1>1, <1>2, JoinedTwo
<1>4. PICK f : f = e \o <<c, d>>
  OBVIOUS
<1>5. /\ f \in Seq(S) /\ Len(f) = n + 4 /\ \A b \in 1..n + 2 : f[b] = e[b]
      /\ f[n + 3] = c /\ f[n + 4] = d
  <2>1. /\ f \in Seq(S) /\ Len(f) = Len(e) + 2 /\ \A b \in 1..Len(e) : f[b] = e[b]
        /\ f[Len(e) + 1] = c /\ f[Len(e) + 2] = d
    BY <1>3, <1>4, JoinedTwo
  <2>2. Len(e) + 1 = n + 3 /\ Len(e) + 2 = n + 4
    BY <1>3
  <2> QED BY ONLY <1>3, <2>1, <2>2
<1>6. PICK g : g = q \o <<t, u, c, d>>
  OBVIOUS
<1>7. /\ g \in Seq(S) /\ Len(g) = n + 4 /\ \A b \in 1..n : g[b] = q[b]
      /\ g[n + 1] = t /\ g[n + 2] = u /\ g[n + 3] = c /\ g[n + 4] = d
  BY <1>1, <1>6, JoinedFour
<1>8. \A i \in 1..n + 4 : i \in 1..n \/ i = n + 1 \/ i = n + 2 \/ i = n + 3 \/ i = n + 4
  OBVIOUS
<1>9. (\A i \in 1..n : i \in 1..n + 2) /\ n + 1 \in 1..n + 2 /\ n + 2 \in 1..n + 2
  OBVIOUS
<1>10. \A i \in 1..n + 4 : f[i] = g[i]
  BY ONLY <1>3, <1>5, <1>7, <1>8, <1>9
<1>11. f = g
  BY <1>5, <1>7, <1>10, Extensional
<1> QED BY <1>0, <1>2, <1>4, <1>6, <1>11

Divided(B, R) ==
  LET true == Size(B) + 1
      false == Size(B) + 2
      C == AddBlocks(Emit(B, <<BranchOnZero(R, true, false)>>), << <<>>, <<>> >>)
  IN  [addThrow(C, true) EXCEPT !.cur = false]

LEMMA DividedIs ==
  ASSUME NEW B \in Builders, B.cur \in 1..Size(B), NEW R \in Values,
         NEW n \in Nat, n = Size(B), NEW C, C = Divided(B, R),
         NEW code, code = <<BranchOnZero(R, n + 1, n + 2)>>
  PROVE  /\ C.cur = n + 2 /\ C.id = B.id /\ C \in Builders
         /\ B.lpad # Null => /\ C.lpad = B.lpad
                             /\ Grown(B, C, code, << <<Throw(B.lpad)>>, <<>> >>)
         /\ B.lpad = Null => /\ C.lpad = n + 3
                             /\ Grown(B, C, code, << <<Throw(n + 3)>>, <<>>, LandingPad[1], LandingPad[2] >>)
<1>1. PICK q : q = Extended(B, code)
  OBVIOUS
<1>2. code \in Seq(Instrs)
  <2>1. n + 1 \in Nat /\ n + 2 \in Nat
    OBVIOUS
  <2> QED BY <2>1, BranchesOnZero, Code1
<1>3. q \in Seq(Seq(Instrs)) /\ Len(q) = n
  BY <1>1, <1>2, BuiltBlocks
<1>4. PICK E : E = AddBlocks(Emit(B, code), << <<>>, <<>> >>)
  OBVIOUS
<1>5. /\ E.blocks = q \o << <<>>, <<>> >> /\ E.cur = B.cur /\ E.id = B.id /\ E.lpad = B.lpad
      /\ E = [blocks |-> E.blocks, cur |-> B.cur, id |-> B.id, lpad |-> B.lpad]
  BY <1>1, <1>4 DEF AddBlocks, Emit, Extended, Builders
<1>6. Size(E) + 1 = n + 3
  <2>1. PICK S : S = Seq(Instrs)
    OBVIOUS
  <2>2. q \in Seq(S)
    BY <1>3, <2>1
  <2>3. <<>> \in S
    BY <2>1
  <2>4. Len(q \o << <<>>, <<>> >>) = Len(q) + 2
    BY ONLY <2>2, <2>3, JoinedTwo
  <2>5. Size(E) = n + 2
    BY ONLY <1>3, <1>5, <2>4 DEF Size
  <2> QED BY ONLY <2>5, n \in Nat
<1>7. PICK pad : pad = IF B.lpad = Null THEN n + 3 ELSE B.lpad
  OBVIOUS
<1>8. pad \in Nat /\ pad # Null
  BY <1>7 DEF Builders, Null
<1>9. PICK t : t = <<Throw(pad)>>
  OBVIOUS
<1>10. t \in Seq(Instrs) /\ <<>> \in Seq(Instrs)
  BY <1>8, <1>9, Throws, Code1
<1>11. /\ C.blocks = [E.blocks EXCEPT ![n + 1] = t] \o (IF B.lpad = Null THEN LandingPad ELSE <<>>)
       /\ C.cur = n + 2 /\ C.id = B.id /\ C.lpad = pad
       /\ C = [blocks |-> C.blocks, cur |-> n + 2, id |-> B.id, lpad |-> pad]
  <2>1. C = [addThrow(E, n + 1) EXCEPT !.cur = n + 2]
    BY <1>4 DEF Divided
  <2>2. addThrow(E, n + 1) =
          [E EXCEPT !.blocks = [@ EXCEPT ![n + 1] = t] \o (IF B.lpad = Null THEN LandingPad ELSE <<>>),
                    !.lpad = pad]
    BY <1>5, <1>6, <1>7, <1>9 DEF addThrow
  <2> QED BY <1>5, <2>1, <2>2
<1>12. [E.blocks EXCEPT ![n + 1] = t] = q \o << t, <<>> >>
  <2>1. PICK S : S = Seq(Instrs)
    OBVIOUS
  <2>2. q \in Seq(S) /\ t \in S /\ <<>> \in S
    BY <1>3, <1>10, <2>1
  <2>3. [q \o << <<>>, <<>> >> EXCEPT ![Len(q) + 1] = t] = q \o << t, <<>> >>
    BY <2>2, TwoMore
  <2> QED BY <1>3, <1>5, <2>3
<1>13. PICK pads : pads = << LandingPad[1], LandingPad[2] >>
  OBVIOUS
<1>14. LandingPad = pads /\ LandingPad[1] \in Seq(Instrs) /\ LandingPad[2] \in Seq(Instrs)
  <2>1. LandingPad = pads
    BY <1>13 DEF LandingPad
  <2>2. /\ LandingPad[1] = <<Instr("catch", Null, Zero, Zero, <<>>)>>
        /\ LandingPad[2] = <<Instr("unreachable", Null, Zero, Zero, <<>>)>>
    BY DEF LandingPad
  <2> QED BY <2>1, <2>2, Ending, Code1
<1>15. CASE B.lpad # Null
  <2>1. PICK bs : bs = << t, <<>> >>
    OBVIOUS
  <2>2. bs \in Seq(Seq(Instrs))
    BY <1>10, <2>1
  <2>3. C.blocks = q \o bs
    <3>1. q \o bs \in Seq(Seq(Instrs))
      BY <1>3, <2>2, Joined
    <3>2. C.blocks = (q \o bs) \o <<>>
      BY <1>11, <1>12, <1>15, <2>1
    <3>3. \A S : \A r \in Seq(S) : r \o <<>> = r
      OBVIOUS
    <3> QED BY <3>1, <3>2, <3>3
  <2>4. Grown(B, C, code, bs)
    BY <1>1, <1>2, <2>2, <2>3, Built
  <2>5. C \in Builders
    <3>1. C.blocks \in Seq(Seq(Instrs))
      BY <2>4 DEF Grown
    <3>2. B.id \in Nat /\ n + 2 \in Nat
      BY DEF Builders
    <3> QED BY <1>8, <1>11, <3>1, <3>2 DEF Builders
  <2> QED BY <1>7, <1>9, <1>11, <1>15, <2>1, <2>4, <2>5
<1>16. CASE B.lpad = Null
  <2>1. PICK bs : bs = << t, <<>>, LandingPad[1], LandingPad[2] >>
    OBVIOUS
  <2>2. bs \in Seq(Seq(Instrs))
    BY <1>10, <1>14, <2>1
  <2>3. C.blocks = q \o bs
    <3>1. PICK S : S = Seq(Instrs)
      OBVIOUS
    <3>2. q \in Seq(S) /\ t \in S /\ <<>> \in S /\ LandingPad[1] \in S /\ LandingPad[2] \in S
      BY <1>3, <1>10, <1>14, <3>1
    <3>3. PICK c, d, u : c = LandingPad[1] /\ d = LandingPad[2] /\ u = <<>>
      OBVIOUS
    <3>4. c \in S /\ d \in S /\ u \in S
      BY ONLY <3>2, <3>3
    <3>5. PICK tu : tu = <<t, u>>
      OBVIOUS
    <3>6. pads = <<c, d>> /\ bs = <<t, u, c, d>>
      BY ONLY <1>13, <2>1, <3>3
    <3>7. (q \o tu) \o pads = q \o bs
      <4>1. IsTwo(tu, t, u) /\ IsTwo(pads, c, d) /\ IsFour(bs, t, u, c, d)
        BY <3>5, <3>6 DEF IsTwo, IsFour
      <4>2. q \in Seq(S) /\ t \in S
        BY <3>2
      <4> QED BY ONLY SMTT(30), <3>4, <4>1, <4>2, FourMore
    <3>8. C.blocks = (q \o tu) \o pads
      BY ONLY <1>11, <1>12, <1>14, <1>16, <3>3, <3>5
    <3> QED BY ONLY <3>7, <3>8
  <2>4. Grown(B, C, code, bs)
    BY <1>1, <1>2, <2>2, <2>3, Built
  <2>5. C \in Builders
    <3>1. C.blocks \in Seq(Seq(Instrs))
      BY <2>4 DEF Grown
    <3>2. B.id \in Nat /\ n + 2 \in Nat
      BY DEF Builders
    <3> QED BY <1>8, <1>11, <3>1, <3>2 DEF Builders
  <2> QED BY <1>7, <1>9, <1>11, <1>16, <2>1, <2>4, <2>5
<1> QED BY <1>15, <1>16
\* A block of one instruction.
LEMMA Alone ==
  ASSUME NEW C, NEW A2, NEW b, NEW H, NEW p \in Instrs, Shaped(p), Reads(p) \subseteq H,
         p.op # "phi", p.op = "catch" => b = C.lpad,
         \A c \in ToSet(p.to) : c \in 1..Size(C) /\ A2[c] \subseteq H, NEW s, s = <<p>>
  PROVE  /\ \A i \in DOMAIN s : InstrAt(C, A2, b, H, s, i)
         /\ p.op \in Terminators => Terminated(s)
<1>1. DOMAIN s = {1} /\ s[1] = p /\ Before(s, 1) = {} /\ (p.op \in Terminators => Terminated(s))
  <2>1. s \in Seq(Instrs) /\ Len(s) = 1 /\ s[1] = p /\ Before(s, 1) = {}
        /\ (p.op \in Terminators => Terminated(s))
    BY Code1
  <2> QED BY <2>1
<1>2. InstrAt(C, A2, b, H, s, 1)
  BY <1>1 DEF InstrAt
<1> QED BY <1>1, <1>2

LEMMA PadBlocks ==
  /\ LandingPad[1] = <<Instr("catch", Null, Zero, Zero, <<>>)>>
  /\ LandingPad[2] = <<Instr("unreachable", Null, Zero, Zero, <<>>)>>
  BY DEF LandingPad

LEMMA PadSound ==
  ASSUME NEW C, NEW A2, NEW b, NEW H, b = C.lpad
  PROVE  /\ \A i \in DOMAIN LandingPad[1] : InstrAt(C, A2, b, H, LandingPad[1], i)
         /\ Terminated(LandingPad[1]) /\ Goes(LandingPad[1]) = {}
<1>1. PICK p : p = Instr("catch", Null, Zero, Zero, <<>>)
  OBVIOUS
<1>2. /\ p \in Instrs /\ Shaped(p) /\ p.op = "catch" /\ p.op \in Terminators
      /\ Reads(p) = {} /\ ToSet(p.to) = {} /\ LandingPad[1] = <<p>>
  BY <1>1, Ending, PadBlocks
<1> QED BY <1>2, Alone, Code1

LEMMA EndSound ==
  ASSUME NEW C, NEW A2, NEW b, NEW H
  PROVE  /\ \A i \in DOMAIN LandingPad[2] : InstrAt(C, A2, b, H, LandingPad[2], i)
         /\ Terminated(LandingPad[2]) /\ Goes(LandingPad[2]) = {}
<1>1. PICK p : p = Instr("unreachable", Null, Zero, Zero, <<>>)
  OBVIOUS
<1>2. /\ p \in Instrs /\ Shaped(p) /\ p.op = "unreachable" /\ p.op \in Terminators
      /\ Reads(p) = {} /\ ToSet(p.to) = {} /\ LandingPad[2] = <<p>>
  BY <1>1, Ending, PadBlocks
<1> QED BY <1>2, Alone, Code1

LEMMA ThrowSound ==
  ASSUME NEW C, NEW A2, NEW b, NEW H, NEW pad \in Nat, pad \in 1..Size(C), pad + 1 \in 1..Size(C),
         A2[pad] = {}, A2[pad + 1] = {}
  PROVE  /\ \A i \in DOMAIN <<Throw(pad)>> : InstrAt(C, A2, b, H, <<Throw(pad)>>, i)
         /\ Terminated(<<Throw(pad)>>) /\ Goes(<<Throw(pad)>>) = {pad, pad + 1}
<1>1. PICK p : p = Throw(pad)
  OBVIOUS
<1>2. /\ p \in Instrs /\ Shaped(p) /\ p.op = "throw" /\ p.op \in Terminators
      /\ Reads(p) = {} /\ ToSet(p.to) = {pad, pad + 1}
  BY <1>1, Throws
<1> QED BY <1>1, <1>2, Alone, Code1

LEMMA TestSound ==
  ASSUME NEW C, NEW A2, NEW b, NEW H, NEW v \in Values, Needs(v) \subseteq H,
         NEW x \in 1..Size(C), NEW y \in 1..Size(C), x \in Nat, y \in Nat, A2[x] \subseteq H,
         A2[y] \subseteq H
  PROVE  LET s == <<BranchOnZero(v, x, y)>>
         IN  /\ \A i \in DOMAIN s : InstrAt(C, A2, b, H, s, i)
             /\ Terminated(s) /\ Goes(s) = {x, y} /\ s \in Seq(Instrs) /\ Len(s) = 1
<1>1. PICK p : p = BranchOnZero(v, x, y)
  OBVIOUS
<1>2. /\ p \in Instrs /\ Shaped(p) /\ p.op = "brzero" /\ p.op \in Terminators
      /\ Reads(p) = Needs(v) /\ ToSet(p.to) = {x, y}
  BY <1>1, BranchesOnZero
<1> QED BY <1>1, <1>2, Alone, Code1

LEMMA Empty ==
  /\ Goes(<<>>) = {} /\ Open(<<>>) /\ MadeBy(<<>>) = {} /\ DOMAIN <<>> = {} /\ <<>> \in Seq(Instrs)
<1>1. DOMAIN <<>> = {}
  OBVIOUS
<1> QED BY <1>1, Membership DEF Open

\* The builder goes on in a block that is new and empty.
LEMMA GoesOnInNew ==
  ASSUME NEW B, NEW A, NEW C, NEW code, NEW bs, Growth(B, A, C, code, bs),
         NEW A2, Keeps(B, A, A2), NewOK(B, A, C, A2, code, bs, {C.cur}),
         AtEnd(B, A, B.cur) \subseteq A2[C.cur]
  PROVE  GoesOnTo(B, A, C, A2)
<1>1. Sound(C, A2, {C.cur})
  BY GrownSound
<1> QED BY <1>1 DEF GoesOnTo, AtEnd

LEMMA DivideGoesOn ==
  ASSUME NEW B, NEW A, Sound(B, A, {B.cur}), NEW R, Fits(B, A, R), NEW C, C = Divided(B, R)
  PROVE  \E A2 : GoesOnTo(B, A, C, A2)
<1>1. /\ B \in Builders /\ B.cur \in 1..Size(B) /\ Size(B) \in Nat /\ PadOK(B, A) /\ R \in Values
  BY BuilderTyped DEF Sound, Fits
<1>2. PICK n \in Nat : n = Size(B)
  BY <1>1
<1>3. PICK H : H = AtEnd(B, A, B.cur)
  OBVIOUS
<1>4. Needs(R) \subseteq H
  BY <1>3 DEF Fits
<1>5. PICK code : code = <<BranchOnZero(R, n + 1, n + 2)>>
  OBVIOUS
<1>6. /\ C.cur = n + 2 /\ C.id = B.id /\ C \in Builders
      /\ B.lpad # Null => /\ C.lpad = B.lpad
                          /\ Grown(B, C, code, << <<Throw(B.lpad)>>, <<>> >>)
      /\ B.lpad = Null => /\ C.lpad = n + 3
                          /\ Grown(B, C, code, << <<Throw(n + 3)>>, <<>>, LandingPad[1], LandingPad[2] >>)
  BY <1>1, <1>2, <1>5, DividedIs
<1>7. /\ n + 1 \in Nat /\ n + 2 \in Nat /\ n + 3 \in Nat /\ n + 1 \notin 1..n /\ n + 2 \notin 1..n
      /\ n + 3 \notin 1..n /\ n + 4 \notin 1..n /\ (n + 3) + 1 = n + 4 /\ B.cur # n + 2
      /\ \A c \in 1..n : c # n + 1 /\ c # n + 2 /\ c # n + 3 /\ c # n + 4
  BY <1>1, <1>2
<1>8. PICK F : F = [k \in 1..4 |-> IF k \in {1, 2} THEN H ELSE {}]
  OBVIOUS
<1>9. F[1] = H /\ F[2] = H /\ F[3] = {} /\ F[4] = {}
  BY <1>8
<1>10. PICK A2 : A2 = Continued(B, A, F)
  OBVIOUS
<1>11. /\ Keeps(B, A, A2) /\ A2[n + 1] = H /\ A2[n + 2] = H /\ A2[n + 3] = {} /\ A2[n + 4] = {}
       /\ \A c \in 1..n : A2[c] = A[c]
  <2>1. Keeps(B, A, A2) /\ \A k \in Nat : k > 0 => A2[n + k] = F[k]
    BY <1>1, <1>2, <1>10, ContinuedIs
  <2> QED BY <1>2, <1>9, <2>1 DEF Keeps
<1>12. ASSUME n + 2 <= Size(C), Size(C) \in Nat
       PROVE  /\ \A i \in DOMAIN code : InstrAt(C, A2, B.cur, H, code, i)
              /\ Terminated(code) /\ Goes(code) = {n + 1, n + 2} /\ code \in Seq(Instrs) /\ Len(code) = 1
  <2>1. n + 1 \in 1..Size(C) /\ n + 2 \in 1..Size(C)
    BY <1>12
  <2>2. PICK x, y : x = n + 1 /\ y = n + 2
    OBVIOUS
  <2>3. x \in 1..Size(C) /\ y \in 1..Size(C) /\ x \in Nat /\ y \in Nat /\ A2[x] \subseteq H /\ A2[y] \subseteq H
    BY <1>7, <1>11, <2>1, <2>2
  <2>4. code = <<BranchOnZero(R, x, y)>>
    BY <1>5, <2>2
  <2>5. LET s == <<BranchOnZero(R, x, y)>>
        IN  /\ \A i \in DOMAIN s : InstrAt(C, A2, B.cur, H, s, i)
            /\ Terminated(s) /\ Goes(s) = {x, y} /\ s \in Seq(Instrs) /\ Len(s) = 1
    BY SMTT(30), <1>1, <1>4, <2>3, TestSound
  <2> QED BY <2>2, <2>4, <2>5
<1>13. CASE B.lpad # Null
  <2>1. PICK t : t = <<Throw(B.lpad)>>
    OBVIOUS
  <2>2. PICK bs : bs = <<t, <<>> >>
    OBVIOUS
  <2>3. C.lpad = B.lpad /\ Grown(B, C, code, bs)
    BY <1>6, <1>13, <2>1, <2>2
  <2>4. Len(bs) = 2 /\ bs[1] = t /\ bs[2] = <<>>
    BY <2>2
  <2>5. Size(C) = n + 2
    BY <1>2, <2>3, <2>4 DEF Grown
  <2>6. /\ B.lpad \in 1..n /\ B.lpad + 1 \in 1..n /\ B.cur \notin {B.lpad, B.lpad + 1}
        /\ B.blocks[B.lpad] = LandingPad[1] /\ B.blocks[B.lpad + 1] = LandingPad[2]
        /\ A2[B.lpad] = {} /\ A2[B.lpad + 1] = {} /\ B.lpad \in Nat
    BY <1>1, <1>2, <1>11, <1>13 DEF PadOK, Builders
  <2>7. \A c \in 1..n : c \in 1..Size(C)
    BY <2>5
  <2>8. PadOK(C, A2)
    <3>1. C.blocks[B.lpad] = B.blocks[B.lpad] /\ C.blocks[B.lpad + 1] = B.blocks[B.lpad + 1]
      BY <1>2, <2>3, <2>6 DEF Grown
    <3>2. C.cur \notin {B.lpad, B.lpad + 1}
      BY <1>6, <1>7, <2>6
    <3> QED BY <2>3, <2>6, <2>7, <3>1, <3>2 DEF PadOK
  <2>9. /\ \A i \in DOMAIN t : InstrAt(C, A2, n + 1, A2[n + 1], t, i)
        /\ Terminated(t) /\ Goes(t) = {B.lpad, B.lpad + 1}
    BY <2>1, <2>6, <2>7, ThrowSound
  <2>10. /\ \A i \in DOMAIN code : InstrAt(C, A2, B.cur, H, code, i)
         /\ Terminated(code) /\ Goes(code) = {n + 1, n + 2} /\ code \in Seq(Instrs) /\ Len(code) = 1
    BY <1>12, <2>5
  <2>11. \A k \in 1..Len(bs) : k = 1 \/ k = 2
    BY <2>4
  <2>12. Growth(B, A, C, code, bs)
    <3>1. NewOnly(B, code, bs)
      BY <1>2, <1>7, <1>13, <2>4, <2>9, <2>10, <2>11, Empty DEF NewOnly
    <3> QED BY <2>3, <3>1 DEF Growth
  <2>13. NewOK(B, A, C, A2, code, bs, {C.cur})
    <3>1. C.cur \in 1..Size(C) /\ C.cur \notin 1..Size(B) /\ B.cur # C.cur
      BY <1>2, <1>6, <1>7, <2>5
    <3>2. \A j \in 1..Len(code) : j \in DOMAIN code
      BY <2>10
    <3>3. ASSUME NEW k \in 1..Len(bs)
          PROVE  /\ \A i \in DOMAIN bs[k] : InstrAt(C, A2, Size(B) + k, A2[Size(B) + k], bs[k], i)
                 /\ IF Size(B) + k \in {C.cur} THEN Open(bs[k]) ELSE Terminated(bs[k])
      <4>1. CASE k = 1
        <5>1. n + 1 \notin {C.cur}
          BY <1>6
        <5> QED BY <1>2, <2>4, <2>9, <4>1, <5>1
      <4>2. CASE k = 2
        BY <1>2, <1>6, <2>4, <4>2, Empty
      <4> QED BY <2>11, <4>1, <4>2
    <3> QED BY <1>3, <1>6, <2>8, <2>10, <3>1, <3>2, <3>3 DEF NewOK
  <2>14. AtEnd(B, A, B.cur) \subseteq A2[C.cur]
    BY <1>3, <1>6, <1>11
  <2> QED BY <1>11, <2>12, <2>13, <2>14, GoesOnInNew
<1>14. CASE B.lpad = Null
  <2>1. PICK t : t = <<Throw(n + 3)>>
    OBVIOUS
  <2>2. PICK bs : bs = <<t, <<>>, LandingPad[1], LandingPad[2] >>
    OBVIOUS
  <2>3. C.lpad = n + 3 /\ Grown(B, C, code, bs)
    BY <1>6, <1>14, <2>1, <2>2
  <2>4. Len(bs) = 4 /\ bs[1] = t /\ bs[2] = <<>> /\ bs[3] = LandingPad[1] /\ bs[4] = LandingPad[2]
    BY <2>2
  <2>5. Size(C) = n + 4
    BY <1>2, <2>3, <2>4 DEF Grown
  <2>6. n + 1 \in 1..Size(C) /\ n + 2 \in 1..Size(C) /\ n + 3 \in 1..Size(C) /\ n + 4 \in 1..Size(C)
    BY <2>5
  <2>8. PadOK(C, A2)
    <3>1. C.blocks[n + 3] = LandingPad[1] /\ C.blocks[n + 4] = LandingPad[2]
      <4>1. \A k \in 1..Len(bs) : C.blocks[Size(B) + k] = bs[k]
        BY <2>3 DEF Grown
      <4>2. 3 \in 1..Len(bs) /\ 4 \in 1..Len(bs)
        BY <2>4
      <4> QED BY <1>2, <2>4, <4>1, <4>2
    <3>2. C.cur \notin {n + 3, n + 4}
      BY <1>6
    <3>3. C.lpad = n + 3 /\ C.lpad + 1 = n + 4
      BY <2>3
    <3> QED BY <1>11, <2>6, <3>1, <3>2, <3>3 DEF PadOK
  <2>9. /\ \A i \in DOMAIN t : InstrAt(C, A2, n + 1, A2[n + 1], t, i)
        /\ Terminated(t) /\ Goes(t) = {n + 3, n + 4}
    <3>1. PICK pad : pad = n + 3
      OBVIOUS
    <3>2. pad \in Nat /\ pad + 1 = n + 4 /\ t = <<Throw(pad)>>
      BY <2>1, <3>1
    <3>3. pad \in 1..Size(C) /\ pad + 1 \in 1..Size(C) /\ A2[pad] = {} /\ A2[pad + 1] = {}
      BY <1>11, <2>6, <3>1, <3>2
    <3>4. /\ \A i \in DOMAIN t : InstrAt(C, A2, n + 1, A2[n + 1], t, i)
          /\ Terminated(t) /\ Goes(t) = {pad, pad + 1}
      BY <3>2, <3>3, ThrowSound
    <3> QED BY <3>1, <3>2, <3>4
  <2>10. /\ \A i \in DOMAIN code : InstrAt(C, A2, B.cur, H, code, i)
         /\ Terminated(code) /\ Goes(code) = {n + 1, n + 2} /\ code \in Seq(Instrs) /\ Len(code) = 1
    BY <1>12, <2>5
  <2>11. \A k \in 1..Len(bs) : k = 1 \/ k = 2 \/ k = 3 \/ k = 4
    BY <2>4
  <2>12. Growth(B, A, C, code, bs)
    <3>1. NewOnly(B, code, bs)
      BY <1>2, <1>7, <2>4, <2>9, <2>10, <2>11, Empty, PadSound, EndSound DEF NewOnly
    <3> QED BY <1>14, <2>3, <3>1 DEF Growth
  <2>13. NewOK(B, A, C, A2, code, bs, {C.cur})
    <3>1. C.cur \in 1..Size(C) /\ C.cur \notin 1..Size(B) /\ B.cur # C.cur
      BY <1>2, <1>6, <1>7, <2>5
    <3>2. \A j \in 1..Len(code) : j \in DOMAIN code
      BY <2>10
    <3>3. ASSUME NEW k \in 1..Len(bs)
          PROVE  /\ \A i \in DOMAIN bs[k] : InstrAt(C, A2, Size(B) + k, A2[Size(B) + k], bs[k], i)
                 /\ IF Size(B) + k \in {C.cur} THEN Open(bs[k]) ELSE Terminated(bs[k])
      <4>1. CASE k = 1
        <5>1. n + 1 \notin {C.cur}
          BY <1>6
        <5> QED BY <1>2, <2>4, <2>9, <4>1, <5>1
      <4>2. CASE k = 2
        BY <1>2, <1>6, <2>4, <4>2, Empty
      <4>3. CASE k = 3
        <5>1. n + 3 \notin {C.cur}
          BY <1>6
        <5> QED BY <1>2, <2>3, <2>4, <4>3, <5>1, PadSound
      <4>4. CASE k = 4
        <5>1. n + 4 \notin {C.cur}
          BY <1>6
        <5> QED BY <1>2, <2>4, <4>4, <5>1, EndSound
      <4> QED BY <2>11, <4>1, <4>2, <4>3, <4>4
    <3> QED BY <1>3, <1>6, <2>8, <2>10, <3>1, <3>2, <3>3 DEF NewOK
  <2>14. AtEnd(B, A, B.cur) \subseteq A2[C.cur]
    BY <1>3, <1>6, <1>11
  <2> QED BY <1>11, <2>12, <2>13, <2>14, GoesOnInNew
<1> QED BY <1>13, <1>14

LEMMA DivideDelivers ==
  ASSUME NEW B, NEW A, Sound(B, A, {B.cur}), NEW op \in {"/", "%"}, NEW L, NEW R,
         Fits(B, A, L), Fits(B, A, R)
  PROVE  Delivers(B, A, Divide(B, op, L, R))
<1>1. PICK C : C = Divided(B, R)
  OBVIOUS
<1>2. PICK A2 : GoesOnTo(B, A, C, A2)
  BY <1>1, DivideGoesOn
<1>3. Sound(C, A2, {C.cur}) /\ Fits(C, A2, L) /\ Fits(C, A2, R) /\ op \in Arithmetic
  BY <1>2, StillFits DEF GoesOnTo, Arithmetic
<1>4. Delivers(C, A2, Create(C, op, L, R))
  BY <1>3, CreateDelivers
<1>5. Divide(B, op, L, R) = Create(C, op, L, R)
  BY <1>1 DEF Divide, Divided
<1> QED BY <1>2, <1>4, <1>5, GoesFurther
(* Loops. *)

IsLoop(s, id, from, base, loop, exit) ==
  /\ s \in Seq(Instrs) /\ Len(s) = 3 /\ Terminated(s) /\ Goes(s) = {loop, exit}
  /\ MadeBy(s) = {Reg(id + 1), Reg(id + 2)}
  /\ Before(s, 1) = {} /\ Before(s, 2) = {Reg(id + 1)}
  /\ Before(s, 3) = {Reg(id + 1), Reg(id + 2)}
  /\ s[1] = Phi(id + 1, Incoming(from, base, loop, Inst(id + 2)))
  /\ s[2] = Arith("*", id + 2, Inst(id + 1), base)
  /\ s[3] = While(id + 2, loop, exit)

LEMMA LoopIs ==
  ASSUME NEW id \in Nat, NEW from \in Nat, NEW base \in Values, NEW loop \in Nat, NEW exit \in Nat,
         from # loop
  PROVE  IsLoop(Loop(id, from, base, loop, exit), id, from, base, loop, exit)
<1>1. PICK i1 \in Nat, i2 \in Nat : i1 = id + 1 /\ i2 = id + 2
  OBVIOUS
<1>2. PICK p : p = Phi(i1, Incoming(from, base, loop, Inst(i2)))
  OBVIOUS
<1>3. Inst(i1) \in Values /\ Inst(i2) \in Values
  BY DEF Inst, Values
<1>4. /\ p \in Instrs /\ p.op \notin Terminators /\ Makes(p) = {Reg(i1)} /\ ToSet(p.to) = {}
  <2>1. IsPhi(p, i1, from, base, loop, Inst(i2))
    BY ONLY <1>2, <1>3, PhiNodes, from # loop, base \in Values, from \in Nat, loop \in Nat, i1 \in Nat
  <2> QED BY <2>1 DEF IsPhi
<1>5. PICK q : q = Arith("*", i2, Inst(i1), base)
  OBVIOUS
<1>6. /\ q \in Instrs /\ q.op \notin Terminators /\ Makes(q) = {Reg(i2)} /\ ToSet(q.to) = {}
  <2>1. "*" \in Operators /\ "*" \notin Terminators
    BY DEF Operators, MulOperators, Terminators
  <2>2. q \in Instrs /\ q.op = "*" /\ q.to = <<>> /\ Makes(q) = {Reg(i2)}
    BY <1>3, <1>5, <2>1, Ariths
  <2> QED BY <2>1, <2>2, Targets
<1>7. PICK r : r = While(i2, loop, exit)
  OBVIOUS
<1>8. /\ r \in Instrs /\ r.op \in Terminators /\ Makes(r) = {} /\ ToSet(r.to) = {loop, exit}
  <2>1. IsWhile(r, i2, loop, exit)
    BY ONLY <1>7, Whiles, loop \in Nat, exit \in Nat, i2 \in Nat
  <2> QED BY <2>1 DEF IsWhile
<1>9. Loop(id, from, base, loop, exit) = <<p, q, r>>
  BY <1>1, <1>2, <1>5, <1>7 DEF Loop, While
<1>10. LET s == <<p, q, r>>
       IN  /\ s \in Seq(Instrs) /\ Len(s) = 3 /\ s[1] = p /\ s[2] = q /\ s[3] = r
           /\ Terminated(s) /\ Goes(s) = ToSet(p.to) \cup ToSet(q.to) \cup ToSet(r.to)
           /\ MadeBy(s) = Makes(p) \cup Makes(q) \cup Makes(r)
           /\ Before(s, 1) = {} /\ Before(s, 2) = Makes(p) /\ Before(s, 3) = Makes(p) \cup Makes(q)
  BY <1>4, <1>6, <1>8, Code3
<1>11. PICK s : s = <<p, q, r>>
  OBVIOUS
<1>12. /\ s \in Seq(Instrs) /\ Len(s) = 3 /\ s[1] = p /\ s[2] = q /\ s[3] = r
       /\ Terminated(s) /\ Goes(s) = ToSet(p.to) \cup ToSet(q.to) \cup ToSet(r.to)
       /\ MadeBy(s) = Makes(p) \cup Makes(q) \cup Makes(r)
       /\ Before(s, 1) = {} /\ Before(s, 2) = Makes(p) /\ Before(s, 3) = Makes(p) \cup Makes(q)
  BY ONLY <1>10, <1>11
<1>13. /\ s \in Seq(Instrs) /\ Len(s) = 3 /\ Terminated(s) /\ Goes(s) = {loop, exit}
       /\ MadeBy(s) = {Reg(i1), Reg(i2)}
       /\ Before(s, 1) = {} /\ Before(s, 2) = {Reg(i1)} /\ Before(s, 3) = {Reg(i1), Reg(i2)}
       /\ s[1] = p /\ s[2] = q /\ s[3] = r
  BY <1>4, <1>6, <1>8, <1>12
<1>14. Loop(id, from, base, loop, exit) = s
  BY ONLY <1>9, <1>11
<1> QED BY ONLY <1>1, <1>2, <1>5, <1>7, <1>13, <1>14 DEF IsLoop

LEMMA LoopSound ==
  ASSUME NEW C, NEW A2, NEW id \in Nat, NEW from \in Nat, NEW base \in Values, NEW loop \in Nat,
         NEW exit \in Nat, from # loop, loop # 1, loop \in 1..Size(C), exit \in 1..Size(C),
         NEW s, s = Loop(id, from, base, loop, exit), C.blocks[loop] = s,
         SourcesOf(C, loop) = {from, loop},
         NEW H, H = A2[loop], Needs(base) \subseteq H, Cell(id + 2) \in H,
         A2[exit] \subseteq H \cup {Reg(id + 1), Reg(id + 2)},
         Needs(base) \subseteq AtEnd(C, A2, from)
  PROVE  \A i \in DOMAIN s : InstrAt(C, A2, loop, H, s, i)
<1>1. PICK i1 \in Nat, i2 \in Nat : i1 = id + 1 /\ i2 = id + 2
  OBVIOUS
<1>2. PICK p, q, r : /\ p = Phi(i1, Incoming(from, base, loop, Inst(i2)))
                     /\ q = Arith("*", i2, Inst(i1), base)
                     /\ r = While(i2, loop, exit)
  OBVIOUS
<1>3. /\ s \in Seq(Instrs) /\ Len(s) = 3
      /\ MadeBy(s) = {Reg(i1), Reg(i2)}
      /\ Before(s, 1) = {} /\ Before(s, 2) = {Reg(i1)} /\ Before(s, 3) = {Reg(i1), Reg(i2)}
      /\ s[1] = p /\ s[2] = q /\ s[3] = r
  <2>1. IsLoop(s, id, from, base, loop, exit)
    BY LoopIs
  <2> QED BY ONLY <1>1, <1>2, <2>1 DEF IsLoop
<1>4. /\ Inst(i1) \in Values /\ Inst(i2) \in Values /\ Needs(Inst(i1)) = {Reg(i1)}
      /\ Needs(Inst(i2)) = {Reg(i2)}
  BY DEF Inst, Values, Needs
<1>5. InstrAt(C, A2, loop, H, s, 1)
  <2>1. /\ Shaped(p) /\ p.op = "phi" /\ Reads(p) = {} /\ ToSet(p.to) = {}
        /\ DOMAIN p.in = {from, loop} /\ p.in[from] = base /\ p.in[loop] = Inst(i2)
    <3>1. IsPhi(p, i1, from, base, loop, Inst(i2))
      BY <1>2, <1>4, PhiNodes
    <3> QED BY <3>1 DEF IsPhi
  <2>2. Needs(Inst(i2)) \subseteq AtEnd(C, A2, loop)
    BY <1>3, <1>4 DEF AtEnd
  <2>3. \A x \in DOMAIN p.in : Needs(p.in[x]) \subseteq AtEnd(C, A2, x)
    BY <2>1, <2>2
  <2> QED BY <1>3, <2>1, <2>3 DEF InstrAt
<1>6. InstrAt(C, A2, loop, H, s, 2)
  <2>1. "*" \in Operators
    BY DEF Operators, MulOperators
  <2>2. /\ Shaped(q) /\ q.op = "*" /\ q.to = <<>> /\ Reads(q) = Needs(Inst(i1)) \cup Needs(base)
    BY <1>2, <1>4, <2>1, Ariths
  <2>3. Reads(q) \subseteq H \cup Before(s, 2) /\ ToSet(q.to) = {}
    BY <1>3, <1>4, <2>2, Targets
  <2> QED BY <1>3, <2>2, <2>3 DEF InstrAt
<1>7. InstrAt(C, A2, loop, H, s, 3)
  <2>1. /\ Shaped(r) /\ r.op = "while" /\ Reads(r) = {Cell(i2)} /\ ToSet(r.to) = {loop, exit}
    <3>1. IsWhile(r, i2, loop, exit)
      BY ONLY <1>2, Whiles, loop \in Nat, exit \in Nat, i2 \in Nat
    <3> QED BY <3>1 DEF IsWhile
  <2>2. Cell(i2) \in H /\ A2[exit] \subseteq H \cup {Reg(i1), Reg(i2)}
    BY <1>1
  <2> QED BY <1>3, <2>1, <2>2 DEF InstrAt
<1> QED BY <1>3, <1>5, <1>6, <1>7

Entering(id, v, x) == <<SetCounter(id, v), Branch(x)>>

IsEntry(C, A2, b, H, id, x, s) ==
  /\ \A i \in DOMAIN s : InstrAt(C, A2, b, H, s, i)
  /\ s \in Seq(Instrs) /\ Len(s) = 2 /\ Terminated(s) /\ Goes(s) = {x}
  /\ MadeBy(s) = {Cell(id + 2)}

LEMMA EnterSound ==
  ASSUME NEW C, NEW A2, NEW b, NEW H, NEW id \in Nat, NEW v \in Values, NEW x \in Nat,
         Needs(v) \subseteq H, x \in 1..Size(C), A2[x] \subseteq H \cup {Cell(id + 2)}
  PROVE  IsEntry(C, A2, b, H, id, x, Entering(id, v, x))
<1>1. PICK p, q : p = SetCounter(id, v) /\ q = Branch(x)
  OBVIOUS
<1>2. /\ p \in Instrs /\ Shaped(p) /\ p.op = "set" /\ p.op \notin Terminators
      /\ Makes(p) = {Cell(id + 2)} /\ Reads(p) = Needs(v) /\ ToSet(p.to) = {}
  BY <1>1, Counters
<1>3. /\ q \in Instrs /\ Shaped(q) /\ q.op = "br" /\ q.op \in Terminators
      /\ Makes(q) = {} /\ Reads(q) = {} /\ ToSet(q.to) = {x}
  BY <1>1, Branches
<1>4. PICK s : s = <<p, q>>
  OBVIOUS
<1>5. /\ s \in Seq(Instrs) /\ Len(s) = 2 /\ s[1] = p /\ s[2] = q
      /\ Before(s, 1) = {} /\ Before(s, 2) = Makes(p)
      /\ MadeBy(s) = Makes(p) \cup Makes(q)
      /\ Goes(s) = ToSet(p.to) \cup ToSet(q.to)
      /\ Terminated(s)
  BY <1>2, <1>3, <1>4, Code2
<1>6. InstrAt(C, A2, b, H, s, 1)
  BY <1>2, <1>5 DEF InstrAt
<1>7. InstrAt(C, A2, b, H, s, 2)
  BY <1>2, <1>3, <1>5 DEF InstrAt
<1>8. DOMAIN s = {1, 2}
  BY <1>5
<1>9. /\ \A i \in DOMAIN s : InstrAt(C, A2, b, H, s, i)
      /\ s \in Seq(Instrs) /\ Len(s) = 2 /\ Terminated(s) /\ Goes(s) = {x}
      /\ MadeBy(s) = {Cell(id + 2)}
  BY <1>2, <1>3, <1>5, <1>6, <1>7, <1>8
<1>10. Entering(id, v, x) = s
  BY ONLY <1>1, <1>4 DEF Entering
<1> QED BY ONLY <1>9, <1>10 DEF IsEntry

IsFinal(C, A2, b, H, id, s) ==
  /\ \A i \in DOMAIN s : InstrAt(C, A2, b, H, s, i)
  /\ s \in Seq(Instrs) /\ Len(s) = 1 /\ Open(s) /\ Goes(s) = {} /\ MadeBy(s) = {Reg(id)}

LEMMA FinalSound ==
  ASSUME NEW C, NEW A2, NEW b, NEW H, NEW id \in Nat, NEW p \in Nat, NEW q \in Nat, p # q,
         NEW v \in Values, NEW w \in Values, b # 1, SourcesOf(C, b) = {p, q},
         Needs(v) \subseteq AtEnd(C, A2, p), Needs(w) \subseteq AtEnd(C, A2, q),
         NEW s, s = << Phi(id, Incoming(p, v, q, w)) >>
  PROVE  IsFinal(C, A2, b, H, id, s)
<1>1. PICK r : r = Phi(id, Incoming(p, v, q, w))
  OBVIOUS
<1>2. /\ r \in Instrs /\ Shaped(r) /\ r.op = "phi" /\ "phi" \notin Terminators
      /\ Makes(r) = {Reg(id)} /\ Reads(r) = {} /\ ToSet(r.to) = {}
      /\ DOMAIN r.in = {p, q} /\ r.in[p] = v /\ r.in[q] = w
  <2>1. IsPhi(r, id, p, v, q, w)
    BY <1>1, PhiNodes
  <2> QED BY <2>1 DEF IsPhi
<1>3. s = <<r>>
  BY <1>1
<1>4. /\ s \in Seq(Instrs) /\ Len(s) = 1 /\ DOMAIN s = {1} /\ s[1] = r /\ Before(s, 1) = {}
      /\ Goes(s) = {} /\ MadeBy(s) = {Reg(id)}
  <2>1. /\ s \in Seq(Instrs) /\ Len(s) = 1 /\ s[1] = r /\ Before(s, 1) = {}
        /\ Goes(s) = ToSet(r.to) /\ MadeBy(s) = Makes(r)
    BY <1>2, <1>3, Code1
  <2>2. DOMAIN s = {1}
    BY <2>1
  <2> QED BY <1>2, <2>1, <2>2
<1>5. Open(s)
  BY <1>2, <1>4 DEF Open
<1>6. \A x \in DOMAIN r.in : Needs(r.in[x]) \subseteq AtEnd(C, A2, x)
  BY <1>2
<1>7. InstrAt(C, A2, b, H, s, 1)
  BY <1>2, <1>4, <1>6 DEF InstrAt
<1> QED BY <1>4, <1>5, <1>7 DEF IsFinal
AddedTo(B, code, bs, k, c) == [AddBlocks(Emit(B, code), bs) EXCEPT !.id = @ + k, !.cur = c]

IsAdded(B, C, code, bs, k, c) ==
  Grown(B, C, code, bs) /\ C \in Builders /\ C.cur = c /\ C.lpad = B.lpad /\ C.id = B.id + k

LEMMA AddedIs ==
  ASSUME NEW B \in Builders, B.cur \in 1..Size(B), NEW code \in Seq(Instrs),
         NEW bs \in Seq(Seq(Instrs)), NEW k \in Nat, NEW c \in Nat,
         NEW C, C = AddedTo(B, code, bs, k, c)
  PROVE  IsAdded(B, C, code, bs, k, c)
<1>1. /\ C.blocks = Extended(B, code) \o bs /\ C.cur = c /\ C.lpad = B.lpad /\ C.id = B.id + k
      /\ C = [blocks |-> C.blocks, cur |-> c, id |-> B.id + k, lpad |-> B.lpad]
  BY DEF AddedTo, AddBlocks, Emit, Extended, Builders
<1>2. Grown(B, C, code, bs)
  BY <1>1, Built
<1>3. C \in Builders
  <2>1. C.blocks \in Seq(Seq(Instrs))
    BY <1>2 DEF Grown
  <2>2. B.id + k \in Nat /\ B.lpad \in Nat
    BY DEF Builders
  <2> QED BY <1>1, <2>1, <2>2 DEF Builders
<1> QED BY <1>1, <1>2, <1>3 DEF IsAdded

LEMMA PadKept ==
  ASSUME NEW B, NEW A, NEW C, NEW code, NEW bs, Grown(B, C, code, bs), PadOK(B, A),
         NEW A2, Keeps(B, A, A2), C.lpad = B.lpad, C.cur \notin 1..Size(B),
         \A c \in 1..Size(B) : c \in 1..Size(C)
  PROVE  PadOK(C, A2)
<1>1. CASE B.lpad # Null
  <2>1. /\ B.lpad \in 1..Size(B) /\ B.lpad + 1 \in 1..Size(B) /\ B.cur \notin {B.lpad, B.lpad + 1}
        /\ B.blocks[B.lpad] = LandingPad[1] /\ B.blocks[B.lpad + 1] = LandingPad[2]
        /\ A[B.lpad] = {} /\ A[B.lpad + 1] = {}
    BY <1>1 DEF PadOK
  <2>2. /\ C.blocks[B.lpad] = B.blocks[B.lpad] /\ C.blocks[B.lpad + 1] = B.blocks[B.lpad + 1]
        /\ A2[B.lpad] = {} /\ A2[B.lpad + 1] = {}
    BY <2>1 DEF Grown, Keeps
  <2>3. C.cur \notin {B.lpad, B.lpad + 1} /\ B.lpad \in 1..Size(C) /\ B.lpad + 1 \in 1..Size(C)
    BY <2>1
  <2> QED BY <2>1, <2>2, <2>3 DEF PadOK
<1>2. CASE B.lpad = Null
  BY <1>2 DEF PadOK
<1> QED BY <1>1, <1>2

LEMMA LoopConstantDelivers ==
  ASSUME NEW B, NEW A, Sound(B, A, {B.cur}), NEW base, Fits(B, A, base), NEW exponent,
         Fits(B, A, exponent)
  PROVE  Delivers(B, A, LoopConstant(B, base, exponent))
<1>1. /\ B \in Builders /\ B.cur \in 1..Size(B) /\ Size(B) \in Nat /\ 1 \in 1..Size(B) /\ PadOK(B, A)
      /\ base \in Values /\ exponent \in Values /\ B.id \in Nat /\ B.cur \in Nat
  BY BuilderTyped DEF Sound, Fits, Builders
<1>2. PICK n \in Nat : n = Size(B)
  BY <1>1
<1>3. PICK H : H = AtEnd(B, A, B.cur)
  OBVIOUS
<1>4. Needs(base) \subseteq H /\ Needs(exponent) \subseteq H
  BY <1>3 DEF Fits
<1>5. PICK loop \in Nat, exit \in Nat : loop = n + 1 /\ exit = n + 2
  OBVIOUS
<1>6. /\ loop \notin 1..n /\ exit \notin 1..n /\ loop # exit /\ loop # 1 /\ B.cur # loop /\ B.cur # exit
  BY <1>1, <1>2, <1>5
<1>7. PICK code : code = Entering(B.id, exponent, loop)
  OBVIOUS
<1>8. PICK s : s = Loop(B.id, B.cur, base, loop, exit)
  OBVIOUS
<1>9. PICK bs : bs = <<s, <<>> >>
  OBVIOUS
<1>10. IsLoop(s, B.id, B.cur, base, loop, exit)
  BY <1>1, <1>6, <1>8, LoopIs
<1>11. /\ s \in Seq(Instrs) /\ Len(s) = 3 /\ Terminated(s) /\ Goes(s) = {loop, exit}
       /\ MadeBy(s) = {Reg(B.id + 1), Reg(B.id + 2)}
  BY <1>10 DEF IsLoop
<1>12. bs \in Seq(Seq(Instrs)) /\ Len(bs) = 2 /\ bs[1] = s /\ bs[2] = <<>>
  BY <1>9, <1>11, Empty
<1>13. PICK F : F = [k \in 1..2 |-> IF k = 1 THEN H \cup {Cell(B.id + 2)}
                                   ELSE H \cup {Cell(B.id + 2), Reg(B.id + 2)}]
  OBVIOUS
<1>14. PICK A2 : A2 = Continued(B, A, F)
  OBVIOUS
<1>15. /\ Keeps(B, A, A2) /\ A2[loop] = H \cup {Cell(B.id + 2)}
       /\ A2[exit] = H \cup {Cell(B.id + 2), Reg(B.id + 2)}
  <2>1. Keeps(B, A, A2) /\ \A k \in Nat : k > 0 => A2[n + k] = F[k]
    BY <1>1, <1>2, <1>14, ContinuedIs
  <2>2. A2[loop] = F[1] /\ A2[exit] = F[2]
    BY <1>5, <2>1
  <2> QED BY <1>13, <2>1, <2>2
<1>16. PICK C : C = AddedTo(B, code, bs, 2, exit)
  OBVIOUS
<1>17. code \in Seq(Instrs)
  BY <1>1, <1>7, Code2, Counters, Branches DEF Entering
<1>18. Grown(B, C, code, bs) /\ C \in Builders /\ C.cur = exit /\ C.lpad = B.lpad
  <2>1. IsAdded(B, C, code, bs, 2, exit)
    BY <1>1, <1>12, <1>16, <1>17, AddedIs
  <2> QED BY <2>1 DEF IsAdded
<1>19. Size(C) = n + 2 /\ C.blocks[loop] = s /\ C.blocks[exit] = <<>>
       /\ C.blocks[B.cur] = B.blocks[B.cur] \o code
  <2>1. /\ Size(C) = n + 2 /\ C.blocks[B.cur] = B.blocks[B.cur] \o code
        /\ \A k \in 1..Len(bs) : C.blocks[n + k] = bs[k]
    BY <1>2, <1>12, <1>18 DEF Grown
  <2>2. 1 \in 1..Len(bs) /\ 2 \in 1..Len(bs)
    BY <1>12
  <2> QED BY <1>5, <1>12, <2>1, <2>2
<1>20. loop \in 1..Size(C) /\ exit \in 1..Size(C) /\ \A c \in 1..Size(B) : c \in 1..Size(C)
  BY <1>2, <1>5, <1>19
<1>21. /\ \A i \in DOMAIN code : InstrAt(C, A2, B.cur, H, code, i)
       /\ Len(code) = 2 /\ Terminated(code) /\ Goes(code) = {loop}
       /\ MadeBy(code) = {Cell(B.id + 2)}
  <2>1. A2[loop] \subseteq H \cup {Cell(B.id + 2)}
    BY <1>15
  <2>2. IsEntry(C, A2, B.cur, H, B.id, loop, code)
    BY ONLY <1>1, <1>4, <1>7, <1>20, <2>1, loop \in Nat, EnterSound
  <2> QED BY ONLY <2>2 DEF IsEntry
<1>22. Growth(B, A, C, code, bs)
  <2>1. \A k \in 1..Len(bs) : k = 1 \/ k = 2
    BY <1>12
  <2>2. NewOnly(B, code, bs)
    BY <1>2, <1>6, <1>11, <1>12, <1>21, <2>1, Empty DEF NewOnly
  <2> QED BY <1>18, <2>2 DEF Growth
<1>23. SourcesOf(C, loop) = {B.cur, loop}
  <2>1. SourcesOf(C, loop) = {p \in {B.cur} : loop \in Goes(code)}
                    \cup {p \in n + 1..n + Len(bs) : loop \in Goes(bs[p - n])}
    BY <1>2, <1>6, <1>22, GrownSources
  <2>2. \A p \in n + 1..n + 2 : loop \in Goes(bs[p - n]) <=> p = loop
    <3>1. SUFFICES ASSUME NEW p \in n + 1..n + 2 PROVE loop \in Goes(bs[p - n]) <=> p = loop
      OBVIOUS
    <3>2. CASE p = n + 1
      <4>1. p - n = 1
        BY <3>2
      <4> QED BY <1>5, <1>11, <1>12, <3>2, <4>1
    <3>3. CASE p = n + 2
      <4>1. p - n = 2
        BY <3>3
      <4> QED BY <1>5, <1>6, <1>12, <3>3, <4>1, Empty
    <3> QED BY <3>2, <3>3
  <2>3. loop \in n + 1..n + 2
    BY <1>5
  <2>4. loop \in Goes(code)
    BY <1>21
  <2> QED BY <1>12, <2>1, <2>2, <2>3, <2>4
<1>24. H \subseteq AtEnd(C, A2, B.cur)
  <2>1. MadeBy(B.blocks[B.cur] \o code) = MadeBy(B.blocks[B.cur]) \cup MadeBy(code)
    <3>1. B.blocks[B.cur] \in Seq(Instrs)
      BY <1>1, BuilderTyped
    <3> QED BY <1>17, <3>1, BehindAll
  <2>2. A2[B.cur] = A[B.cur]
    BY <1>1, <1>15 DEF Keeps
  <2> QED BY <1>3, <1>19, <2>1, <2>2 DEF AtEnd
<1>25. \A i \in DOMAIN s : InstrAt(C, A2, loop, A2[loop], s, i)
  <2>1. PICK H2 : H2 = A2[loop]
    OBVIOUS
  <2>2. /\ Needs(base) \subseteq H2 /\ Cell(B.id + 2) \in H2
        /\ A2[exit] \subseteq H2 \cup {Reg(B.id + 1), Reg(B.id + 2)}
        /\ Needs(base) \subseteq AtEnd(C, A2, B.cur)
    BY <1>4, <1>15, <1>24, <2>1
  <2>3. \A i \in DOMAIN s : InstrAt(C, A2, loop, H2, s, i)
    BY <1>1, <1>6, <1>8, <1>19, <1>20, <1>23, <2>1, <2>2, LoopSound
  <2> QED BY <2>1, <2>3
<1>26. NewOK(B, A, C, A2, code, bs, {C.cur})
  <2>1. PadOK(C, A2)
    BY <1>1, <1>2, <1>6, <1>15, <1>18, <1>20, PadKept
  <2>2. C.cur \in 1..Size(C) /\ C.cur \notin 1..Size(B) /\ B.cur # C.cur
    BY <1>2, <1>6, <1>18, <1>20
  <2>3. \A j \in 1..Len(code) : j \in DOMAIN code
    BY <1>17
  <2>4. ASSUME NEW k \in 1..Len(bs)
        PROVE  /\ \A i \in DOMAIN bs[k] : InstrAt(C, A2, Size(B) + k, A2[Size(B) + k], bs[k], i)
               /\ IF Size(B) + k \in {C.cur} THEN Open(bs[k]) ELSE Terminated(bs[k])
    <3>1. CASE k = 1
      BY <1>2, <1>5, <1>6, <1>11, <1>12, <1>18, <1>25, <3>1
    <3>2. CASE k = 2
      BY <1>2, <1>5, <1>12, <1>18, <3>2, Empty
    <3> QED BY <1>12, <3>1, <3>2
  <2> QED BY <1>3, <1>18, <1>21, <2>1, <2>2, <2>3, <2>4 DEF NewOK
<1>27. GoesOnTo(B, A, C, A2)
  <2>1. AtEnd(B, A, B.cur) \subseteq A2[C.cur]
    BY <1>3, <1>15, <1>18
  <2> QED BY <1>15, <1>22, <1>26, <2>1, GoesOnInNew
<1>28. Fits(C, A2, Inst(B.id + 2))
  <2>1. B.id + 2 \in Nat
    BY <1>1
  <2>2. Reg(B.id + 2) \in AtEnd(C, A2, C.cur)
    BY <1>15, <1>18 DEF AtEnd
  <2> QED BY <2>1, <2>2 DEF Fits, Inst, Values, Needs
<1>29. LoopConstant(B, base, exponent) = Gives(C, Inst(B.id + 2))
  BY <1>2, <1>5, <1>7, <1>8, <1>9, <1>16 DEF LoopConstant, AddedTo, Entering
<1>30. Gives(C, Inst(B.id + 2)).b = C /\ Gives(C, Inst(B.id + 2)).v = Inst(B.id + 2)
  BY DEF Gives
<1> QED BY <1>27, <1>28, <1>29, <1>30 DEF Delivers
LEMMA LeaveSound ==
  ASSUME NEW C, NEW A2, NEW b, NEW H, NEW x \in Nat, x \in 1..Size(C), A2[x] \subseteq H
  PROVE  LET s == <<Branch(x)>>
         IN  /\ \A i \in DOMAIN s : InstrAt(C, A2, b, H, s, i)
             /\ Terminated(s) /\ Goes(s) = {x} /\ s \in Seq(Instrs)
<1>1. PICK p : p = Branch(x)
  OBVIOUS
<1>2. /\ p \in Instrs /\ Shaped(p) /\ p.op = "br" /\ p.op \in Terminators
      /\ Reads(p) = {} /\ ToSet(p.to) = {x}
  BY <1>1, Branches
<1> QED BY <1>1, <1>2, Alone, Code1

LEMMA LoopVariableDelivers ==
  ASSUME NEW B, NEW A, Sound(B, A, {B.cur}), NEW base, Fits(B, A, base), NEW exponent,
         Fits(B, A, exponent)
  PROVE  Delivers(B, A, LoopVariable(B, base, exponent))
<1>1. /\ B \in Builders /\ B.cur \in 1..Size(B) /\ Size(B) \in Nat /\ 1 \in 1..Size(B) /\ PadOK(B, A)
      /\ base \in Values /\ exponent \in Values /\ B.id \in Nat /\ B.cur \in Nat
  BY BuilderTyped DEF Sound, Fits, Builders
<1>2. PICK n \in Nat : n = Size(B)
  BY <1>1
<1>3. PICK H : H = AtEnd(B, A, B.cur)
  OBVIOUS
<1>4. Needs(base) \subseteq H /\ Needs(exponent) \subseteq H
  BY <1>3 DEF Fits
<1>5. PICK loop \in Nat, exit \in Nat, zeroTrue \in Nat, zeroFalse \in Nat :
        loop = n + 1 /\ exit = n + 2 /\ zeroTrue = n + 3 /\ zeroFalse = n + 4
  OBVIOUS
<1>6. /\ loop \notin 1..n /\ exit \notin 1..n /\ zeroTrue \notin 1..n /\ zeroFalse \notin 1..n
      /\ loop # 1 /\ exit # 1 /\ loop # exit /\ loop # zeroTrue /\ loop # zeroFalse /\ exit # zeroTrue
      /\ exit # zeroFalse /\ zeroTrue # zeroFalse /\ B.cur # loop /\ B.cur # exit
  BY <1>1, <1>2, <1>5
<1>7. PICK code : code = <<BranchOnZero(exponent, zeroTrue, zeroFalse)>>
  OBVIOUS
<1>8. PICK s : s = Loop(B.id, zeroFalse, base, loop, exit)
  OBVIOUS
<1>9. PICK id3 \in Nat : id3 = B.id + 3
  BY <1>1
<1>41. PICK w : w = Inst(B.id + 2)
  OBVIOUS
<1>10. PICK final : final = << Phi(id3, Incoming(zeroTrue, One, loop, w)) >>
  OBVIOUS
<1>11. PICK leave : leave = <<Branch(exit)>>
  OBVIOUS
<1>12. PICK enter : enter = Entering(B.id, exponent, loop)
  OBVIOUS
<1>13. PICK bs : bs = <<s, final, leave, enter>>
  OBVIOUS
<1>14. /\ s \in Seq(Instrs) /\ Len(s) = 3 /\ Terminated(s) /\ Goes(s) = {loop, exit}
       /\ MadeBy(s) = {Reg(B.id + 1), Reg(B.id + 2)}
  <2>1. IsLoop(s, B.id, zeroFalse, base, loop, exit)
    BY <1>1, <1>6, <1>8, LoopIs
  <2> QED BY <2>1 DEF IsLoop
<1>15. /\ w \in Values /\ Needs(w) = {Reg(B.id + 2)}
       /\ One \in Values /\ Needs(One) = {} /\ zeroTrue # loop
  BY <1>1, <1>6, <1>41, ConstantValues DEF Inst, Values, Needs
<1>16. final \in Seq(Instrs) /\ leave \in Seq(Instrs) /\ enter \in Seq(Instrs) /\ code \in Seq(Instrs)
  <2>1. final \in Seq(Instrs)
    <3>1. PICK p : p = Phi(id3, Incoming(zeroTrue, One, loop, w))
      OBVIOUS
    <3>2. IsPhi(p, id3, zeroTrue, One, loop, w)
      BY ONLY <1>15, <3>1, PhiNodes, id3 \in Nat, zeroTrue \in Nat, loop \in Nat
    <3> QED BY <1>10, <3>1, <3>2, Code1 DEF IsPhi
  <2>2. leave \in Seq(Instrs)
    BY <1>11, Branches, Code1
  <2>3. enter \in Seq(Instrs)
    BY <1>1, <1>12, Code2, Counters, Branches DEF Entering
  <2>4. code \in Seq(Instrs)
    BY <1>1, <1>7, BranchesOnZero, Code1
  <2> QED BY <2>1, <2>2, <2>3, <2>4
<1>17. /\ bs \in Seq(Seq(Instrs)) /\ Len(bs) = 4 /\ bs[1] = s /\ bs[2] = final
       /\ bs[3] = leave /\ bs[4] = enter
  BY <1>13, <1>14, <1>16
<1>18. PICK F : F = [k \in 1..4 |-> IF k = 1 THEN H \cup {Cell(B.id + 2)} ELSE H]
  OBVIOUS
<1>19. PICK A2 : A2 = Continued(B, A, F)
  OBVIOUS
<1>20. /\ Keeps(B, A, A2) /\ A2[loop] = H \cup {Cell(B.id + 2)}
       /\ A2[exit] = H /\ A2[zeroTrue] = H /\ A2[zeroFalse] = H
  <2>1. Keeps(B, A, A2) /\ \A k \in Nat : k > 0 => A2[n + k] = F[k]
    BY <1>1, <1>2, <1>19, ContinuedIs
  <2>2. A2[loop] = F[1] /\ A2[exit] = F[2] /\ A2[zeroTrue] = F[3] /\ A2[zeroFalse] = F[4]
    BY <1>5, <2>1
  <2> QED BY <1>18, <2>1, <2>2
<1>21. PICK C : C = AddedTo(B, code, bs, 3, exit)
  OBVIOUS
<1>22. Grown(B, C, code, bs) /\ C \in Builders /\ C.cur = exit /\ C.lpad = B.lpad
  <2>1. B \in Builders /\ B.cur \in 1..Size(B) /\ code \in Seq(Instrs) /\ bs \in Seq(Seq(Instrs))
    BY <1>1, <1>16, <1>17
  <2>2. IsAdded(B, C, code, bs, 3, exit)
    BY ONLY <2>1, <1>21, exit \in Nat, AddedIs
  <2> QED BY <2>2 DEF IsAdded
<1>23. /\ Size(C) = n + 4 /\ C.blocks[loop] = s /\ C.blocks[exit] = final
       /\ C.blocks[zeroTrue] = leave /\ C.blocks[zeroFalse] = enter
  <2>1. Size(C) = n + 4 /\ \A k \in 1..Len(bs) : C.blocks[n + k] = bs[k]
    BY <1>2, <1>17, <1>22 DEF Grown
  <2>2. 1 \in 1..Len(bs) /\ 2 \in 1..Len(bs) /\ 3 \in 1..Len(bs) /\ 4 \in 1..Len(bs)
    BY <1>17
  <2> QED BY <1>5, <1>17, <2>1, <2>2
<1>24. /\ loop \in 1..Size(C) /\ exit \in 1..Size(C) /\ zeroTrue \in 1..Size(C)
       /\ zeroFalse \in 1..Size(C) /\ \A c \in 1..Size(B) : c \in 1..Size(C)
  BY <1>2, <1>5, <1>23
<1>25. /\ \A i \in DOMAIN enter : InstrAt(C, A2, zeroFalse, H, enter, i)
       /\ Terminated(enter) /\ Goes(enter) = {loop} /\ MadeBy(enter) = {Cell(B.id + 2)}
  <2>1. A2[loop] \subseteq H \cup {Cell(B.id + 2)}
    BY <1>20
  <2>2. IsEntry(C, A2, zeroFalse, H, B.id, loop, enter)
    BY ONLY <1>1, <1>4, <1>12, <1>24, <2>1, loop \in Nat, EnterSound
  <2> QED BY ONLY <2>2 DEF IsEntry
<1>26. /\ \A i \in DOMAIN code : InstrAt(C, A2, B.cur, H, code, i)
       /\ Terminated(code) /\ Goes(code) = {zeroTrue, zeroFalse} /\ Len(code) = 1
  <2>1. LET z == <<BranchOnZero(exponent, zeroTrue, zeroFalse)>>
        IN  /\ \A i \in DOMAIN z : InstrAt(C, A2, B.cur, H, z, i)
            /\ Terminated(z) /\ Goes(z) = {zeroTrue, zeroFalse} /\ z \in Seq(Instrs) /\ Len(z) = 1
    BY <1>1, <1>4, <1>20, <1>24, TestSound
  <2> QED BY ONLY <1>7, <2>1
<1>27. /\ \A i \in DOMAIN leave : InstrAt(C, A2, zeroTrue, H, leave, i)
       /\ Terminated(leave) /\ Goes(leave) = {exit}
  BY <1>11, <1>20, <1>24, LeaveSound
<1>28. Goes(final) = {}
  <2>1. PICK p : p = Phi(id3, Incoming(zeroTrue, One, loop, w))
    OBVIOUS
  <2>2. IsPhi(p, id3, zeroTrue, One, loop, w)
    BY ONLY <1>15, <2>1, PhiNodes, id3 \in Nat, zeroTrue \in Nat, loop \in Nat
  <2> QED BY <1>10, <2>1, <2>2, Code1 DEF IsPhi
<1>29. \A k \in 1..Len(bs) : k = 1 \/ k = 2 \/ k = 3 \/ k = 4
  BY <1>17
<1>30. Growth(B, A, C, code, bs)
  <2>1. NewOnly(B, code, bs)
    BY <1>2, <1>6, <1>14, <1>17, <1>25, <1>26, <1>27, <1>28, <1>29 DEF NewOnly
  <2> QED BY <1>22, <2>1 DEF Growth
<1>31. \A b : b \in {loop, exit} =>
         \A x : x \in SourcesOf(C, b) <=>
           \/ x = loop
           \/ b = exit /\ x = zeroTrue
           \/ b = loop /\ x = zeroFalse
  <2>1. SUFFICES ASSUME NEW b \in {loop, exit}
                 PROVE  \A x : x \in SourcesOf(C, b) <=>
                               \/ x = loop
                               \/ b = exit /\ x = zeroTrue
                               \/ b = loop /\ x = zeroFalse
    OBVIOUS
  <2>2. SourcesOf(C, b) = {p \in {B.cur} : b \in Goes(code)}
                          \cup {p \in n + 1..n + Len(bs) : b \in Goes(bs[p - n])}
    BY <1>2, <1>6, <1>30, GrownSources
  <2>3. b \notin Goes(code)
    BY <1>6, <1>26
  <2>4. \A x : x \in SourcesOf(C, b) <=> x \in n + 1..n + 4 /\ b \in Goes(bs[x - n])
    BY <1>17, <2>2, <2>3
  <2>5. /\ \A x : x \in n + 1..n + 4 <=> x \in {loop, exit, zeroTrue, zeroFalse}
        /\ loop - n = 1 /\ exit - n = 2 /\ zeroTrue - n = 3 /\ zeroFalse - n = 4
    BY <1>5
  <2>6. /\ Goes(bs[loop - n]) = {loop, exit} /\ Goes(bs[exit - n]) = {}
        /\ Goes(bs[zeroTrue - n]) = {exit} /\ Goes(bs[zeroFalse - n]) = {loop}
    BY <1>14, <1>17, <1>25, <1>27, <1>28, <2>5
  <2> QED BY <1>6, <2>4, <2>5, <2>6
<1>32. SourcesOf(C, loop) = {zeroFalse, loop} /\ SourcesOf(C, exit) = {zeroTrue, loop}
  <2>1. \A x : x \in SourcesOf(C, loop) <=> x \in {zeroFalse, loop}
    BY <1>6, <1>31
  <2>2. \A x : x \in SourcesOf(C, exit) <=> x \in {zeroTrue, loop}
    BY <1>6, <1>31
  <2> QED BY <2>1, <2>2
<1>33. H \subseteq AtEnd(C, A2, zeroFalse) /\ Reg(B.id + 2) \in AtEnd(C, A2, loop)
  BY <1>14, <1>20, <1>23 DEF AtEnd
<1>34. \A i \in DOMAIN s : InstrAt(C, A2, loop, A2[loop], s, i)
  <2>1. PICK H2 : H2 = A2[loop]
    OBVIOUS
  <2>2. /\ Needs(base) \subseteq H2 /\ Cell(B.id + 2) \in H2
        /\ A2[exit] \subseteq H2 \cup {Reg(B.id + 1), Reg(B.id + 2)}
        /\ Needs(base) \subseteq AtEnd(C, A2, zeroFalse)
    BY <1>4, <1>20, <1>33, <2>1
  <2>3. \A i \in DOMAIN s : InstrAt(C, A2, loop, H2, s, i)
    BY ZenonT(60), <1>1, <1>6, <1>8, <1>23, <1>24, <1>32, <2>1, <2>2, LoopSound
  <2> QED BY <2>1, <2>3
<1>35. /\ \A i \in DOMAIN final : InstrAt(C, A2, exit, H, final, i)
       /\ Open(final) /\ MadeBy(final) = {Reg(id3)}
  <2>1. Needs(One) \subseteq AtEnd(C, A2, zeroTrue) /\ Needs(w) \subseteq AtEnd(C, A2, loop)
    BY <1>15, <1>33
  <2>2. IsFinal(C, A2, exit, H, id3, final)
    BY ONLY <1>6, <1>10, <1>15, <1>32, <2>1, FinalSound, id3 \in Nat, zeroTrue \in Nat, loop \in Nat
  <2> QED BY <2>2 DEF IsFinal
<1>36. NewOK(B, A, C, A2, code, bs, {C.cur})
  <2>1. PadOK(C, A2)
    BY <1>1, <1>2, <1>6, <1>20, <1>22, <1>24, PadKept
  <2>2. C.cur \in 1..Size(C) /\ C.cur \notin 1..Size(B) /\ B.cur # C.cur
    BY <1>2, <1>6, <1>22, <1>24
  <2>3. \A j \in 1..Len(code) : j \in DOMAIN code
    BY <1>16
  <2>4. ASSUME NEW k \in 1..Len(bs)
        PROVE  /\ \A i \in DOMAIN bs[k] : InstrAt(C, A2, Size(B) + k, A2[Size(B) + k], bs[k], i)
               /\ IF Size(B) + k \in {C.cur} THEN Open(bs[k]) ELSE Terminated(bs[k])
    <3>1. CASE k = 1
      BY <1>2, <1>5, <1>6, <1>14, <1>17, <1>22, <1>34, <3>1
    <3>2. CASE k = 2
      BY <1>2, <1>5, <1>17, <1>20, <1>22, <1>35, <3>2
    <3>3. CASE k = 3
      BY <1>2, <1>5, <1>6, <1>17, <1>20, <1>22, <1>27, <3>3
    <3>4. CASE k = 4
      BY <1>2, <1>5, <1>6, <1>17, <1>20, <1>22, <1>25, <3>4
    <3> QED BY <1>29, <3>1, <3>2, <3>3, <3>4
  <2> QED BY <1>3, <1>22, <1>26, <2>1, <2>2, <2>3, <2>4 DEF NewOK
<1>37. GoesOnTo(B, A, C, A2)
  <2>1. AtEnd(B, A, B.cur) \subseteq A2[C.cur]
    BY <1>3, <1>20, <1>22
  <2> QED BY <1>20, <1>30, <1>36, <2>1, GoesOnInNew
<1>38. Fits(C, A2, Inst(id3))
  <2>1. Reg(id3) \in AtEnd(C, A2, C.cur)
    BY <1>22, <1>23, <1>35 DEF AtEnd
  <2> QED BY <2>1 DEF Fits, Inst, Values, Needs
<1>39. LoopVariable(B, base, exponent) = Gives(C, Inst(id3))
  BY <1>2, <1>5, <1>7, <1>8, <1>9, <1>10, <1>11, <1>12, <1>13, <1>21, <1>41
     DEF LoopVariable, LoopVariableFrom, AddedTo, Entering
<1>40. Gives(C, Inst(id3)).b = C /\ Gives(C, Inst(id3)).v = Inst(id3)
  BY DEF Gives
<1> QED BY <1>37, <1>38, <1>39, <1>40 DEF Delivers

(* An operator of the tree. *)

LEMMA OperateDelivers ==
  ASSUME NEW B, NEW A, Sound(B, A, {B.cur}), NEW op \in Operators, NEW L, NEW R,
         Fits(B, A, L), Fits(B, A, R)
  PROVE  Delivers(B, A, Operate(B, op, L, R))
<1>1. CASE op \in {"+", "-", "*"}
  <2>1. op \in Arithmetic /\ Operate(B, op, L, R) = Create(B, op, L, R)
    BY <1>1 DEF Arithmetic, Operate
  <2> QED BY <2>1, CreateDelivers
<1>2. CASE op \in {"/", "%"}
  <2>1. Operate(B, op, L, R) = Divide(B, op, L, R)
    BY <1>2 DEF Operate
  <2> QED BY <1>2, <2>1, DivideDelivers
<1>3. CASE op = "^"
  <2>1. Operate(B, op, L, R) = generateExponent(B, L, R)
    BY <1>3 DEF Operate
  <2>2. CASE R.kind # "const"
    <3>1. generateExponent(B, L, R) = LoopVariable(B, L, R)
      BY <2>2 DEF generateExponent
    <3> QED BY <2>1, <3>1, LoopVariableDelivers
  <2>3. CASE R.kind = "const" /\ R.n \in 0..9
    <3>1. generateExponent(B, L, R) = Expand(B, L, R.n)
      BY <2>3 DEF generateExponent
    <3> QED BY <2>1, <2>3, <3>1, ExpandDelivers
  <2>4. CASE R.kind = "const" /\ R.n \notin 0..9
    <3>1. generateExponent(B, L, R) = LoopConstant(B, L, R)
      BY <2>4 DEF generateExponent
    <3> QED BY <2>1, <3>1, LoopConstantDelivers
  <2> QED BY <2>2, <2>3, <2>4
<1>4. op \in {"+", "-", "*", "/", "%", "^"}
  BY DEF Operators, AddOperators, MulOperators
<1> QED BY <1>1, <1>2, <1>3, <1>4

=============================================================================
