--------------------------- MODULE CalcRun_proofs ----------------------------
(***************************************************************************)
(* The compiled main of calc is well formed, and running it uses no value  *)
(* before it is computed, for every input.  The inductive invariant        *)
(* CalcInv joins that of the parser (IInv), the bounds of its heap         *)
(* (Bounds), the soundness of the code that the visits have made so far    *)
(* with what every unfinished visit holds (Generated), and, once the code  *)
(* runs, that what is computed so far covers what is available where it    *)
(* runs (Running).  One lemma per action shows that it is kept.            *)
(***************************************************************************)
EXTENDS CalcGen_proofs

(* The visits. *)

VisitFrames == [node : DOMAIN nodes, at : {"enter", "right", "operate"}, Left : Values \cup {NullValue}]

VisitFrame(B, A, f) ==
  /\ f.at # "enter" => nodes[f.node].op \in Operators
  /\ f.at = "operate" => Fits(B, A, f.Left)

\* The innermost visit returns v to the one outside it, which has begun.
VisitsOK(B, A, q, v) ==
  /\ q \in Seq(VisitFrames)
  /\ \A k \in 1..Len(q) : VisitFrame(B, A, q[k])
  /\ \A k \in 1..Len(q) - 1 : q[k].at # "enter"
  /\ q = <<>> \/ q[Len(q)].at # "enter" => Fits(B, A, v)

LEMMA Visits ==
  ASSUME NEW E \in DOMAIN nodes
  PROVE  Visit(E) \in VisitFrames /\ Visit(E).at = "enter"
  BY DEF Visit, VisitFrames

LEMMA VisitDown ==
  ASSUME NEW B, NEW A, NEW q, NEW v, VisitsOK(B, A, q, v), q # <<>>,
         NEW f \in VisitFrames, VisitFrame(B, A, f), f.at # "enter", NEW E \in DOMAIN nodes,
         NEW r, r = Append([q EXCEPT ![Len(q)] = f], Visit(E)), NEW w
  PROVE  VisitsOK(B, A, r, w)
<1>1. PICK S : S = VisitFrames
  OBVIOUS
<1>2. PICK p : p = [q EXCEPT ![Len(q)] = f]
  OBVIOUS
<1>3. PICK e : e = Visit(E)
  OBVIOUS
<1>4. q \in Seq(S) /\ f \in S /\ e \in S /\ e.at = "enter" /\ r = Append(p, e)
  BY <1>1, <1>2, <1>3, Visits DEF VisitsOK
<1>5. /\ p \in Seq(S) /\ Len(p) = Len(q) /\ Len(q) \in Nat \ {0} /\ p[Len(q)] = f
      /\ \A i \in 1..Len(q) - 1 : p[i] = q[i]
  BY ONLY <1>2, <1>4, q # <<>>, Replaced
<1>6. /\ r \in Seq(S) /\ Len(r) = Len(q) + 1 /\ r[Len(q) + 1] = e
      /\ \A i \in 1..Len(q) : r[i] = p[i]
  <2>1. /\ Append(p, e) \in Seq(S) /\ Len(Append(p, e)) = Len(p) + 1
        /\ Append(p, e)[Len(p) + 1] = e /\ \A i \in 1..Len(p) : Append(p, e)[i] = p[i]
    BY ONLY <1>4, <1>5, Appended
  <2> QED BY ONLY <1>4, <1>5, <2>1
<1>7. PICK n \in Nat \ {0} : n = Len(q)
  BY <1>5
<1>8. VisitFrame(B, A, e)
  BY <1>4 DEF VisitFrame
<1>9. \A k \in 1..n - 1 : VisitFrame(B, A, q[k]) /\ q[k].at # "enter"
  <2>1. \A k \in 1..n - 1 : k \in 1..n
    OBVIOUS
  <2> QED BY <1>7, <2>1 DEF VisitsOK
<1>10. ASSUME NEW k \in 1..n + 1 PROVE VisitFrame(B, A, r[k]) /\ (k # n + 1 => r[k].at # "enter")
  <2>1. CASE k = n + 1
    BY <1>6, <1>7, <1>8, <2>1
  <2>2. CASE k = n
    <3>1. r[k] = f
      BY <1>5, <1>6, <1>7, <2>2
    <3> QED BY <3>1
  <2>3. CASE k # n /\ k # n + 1
    <3>1. k \in 1..n - 1 /\ k \in 1..n
      BY <2>3
    <3>2. r[k] = q[k]
      BY <1>5, <1>6, <1>7, <3>1
    <3> QED BY <1>9, <3>1, <3>2
  <2> QED BY <2>1, <2>2, <2>3
<1>11. Len(r) = n + 1 /\ r # <<>> /\ r[Len(r)] = e
  BY <1>6, <1>7
<1>12. \A k \in 1..Len(r) - 1 : k \in 1..n + 1 /\ k # n + 1
  BY <1>11
<1> QED BY <1>1, <1>4, <1>6, <1>10, <1>11, <1>12 DEF VisitsOK

LEMMA VisitUp ==
  ASSUME NEW B, NEW A, NEW q, NEW v, VisitsOK(B, A, q, v), q # <<>>,
         NEW C, NEW A2, GoesOnTo(B, A, C, A2), NEW w, Fits(C, A2, w),
         NEW r, r = SubSeq(q, 1, Len(q) - 1)
  PROVE  VisitsOK(C, A2, r, w)
<1>1. PICK S : S = VisitFrames
  OBVIOUS
<1>2. q \in Seq(S)
  BY <1>1 DEF VisitsOK
<1>3. /\ r \in Seq(S) /\ Len(r) = Len(q) - 1 /\ Len(q) \in Nat \ {0}
      /\ \A i \in 1..Len(q) - 1 : r[i] = q[i]
  BY ONLY <1>2, q # <<>>, r = SubSeq(q, 1, Len(q) - 1), Shortened
<1>4. ASSUME NEW k \in 1..Len(r) PROVE VisitFrame(C, A2, r[k]) /\ r[k].at # "enter"
  <2>1. k \in 1..Len(q) /\ k \in 1..Len(q) - 1 /\ r[k] = q[k]
    BY <1>3
  <2>2. VisitFrame(B, A, q[k]) /\ q[k].at # "enter"
    BY <2>1 DEF VisitsOK
  <2>3. VisitFrame(C, A2, q[k])
    BY <2>2, StillFits DEF VisitFrame
  <2> QED BY <2>1, <2>2, <2>3
<1>5. \A k \in 1..Len(r) - 1 : k \in 1..Len(r)
  BY <1>3
<1> QED BY <1>1, <1>3, <1>4, <1>5 DEF VisitsOK

(* The tree that DeclCheck lets through. *)

WholeTree ==
  /\ tree \in DOMAIN nodes
  /\ \A i \in DOMAIN nodes :
       /\ nodes[i].op \in Operators => nodes[i].left \in DOMAIN nodes /\ nodes[i].right \in DOMAIN nodes
       /\ nodes[i].op = "ident" => \E k \in DOMAIN names : names[k] = nodes[i].val
       /\ nodes[i].op = "number" => nodes[i].val \in Numbers

LEMMA Checked ==
  ASSUME Typed, Bounds, ~SemanticErrors
  PROVE  WholeTree
<1>1. DOMAIN nodes = 1..Len(nodes) /\ Len(nodes) \in Nat
  BY DEF Typed
<1>2. tree \in DOMAIN nodes
  BY <1>1 DEF Bounds, SemanticErrors, Null
<1>3. ASSUME NEW i \in DOMAIN nodes
      PROVE  /\ nodes[i].op \in Operators => nodes[i].left \in DOMAIN nodes /\ nodes[i].right \in DOMAIN nodes
             /\ nodes[i].op = "ident" => \E k \in DOMAIN names : names[k] = nodes[i].val
             /\ nodes[i].op = "number" => nodes[i].val \in Numbers
  <2>1. NodeBound(i) /\ Null \notin Children(nodes[i]) /\ i \in 1..Len(nodes)
    BY <1>1 DEF Bounds, SemanticErrors
  <2>2. ASSUME nodes[i].op \in Operators
        PROVE  nodes[i].left \in DOMAIN nodes /\ nodes[i].right \in DOMAIN nodes
    <3>1. \A x \in Children(nodes[i]) : x \in 0..i - 1 /\ x # 0
      BY <2>1 DEF NodeBound, Null
    <3>2. nodes[i].left \in Children(nodes[i]) /\ nodes[i].right \in Children(nodes[i])
      BY <2>2 DEF Children
    <3>3. \A x \in 0..i - 1 : x # 0 => x \in 1..Len(nodes)
      BY <1>1, <2>1
    <3> QED BY <1>1, <3>1, <3>2, <3>3
  <2>3. nodes[i].op = "ident" => \E k \in DOMAIN names : names[k] = nodes[i].val
    BY DEF SemanticErrors
  <2> QED BY <2>1, <2>2, <2>3 DEF NodeBound
<1> QED BY <1>2, <1>3 DEF WholeTree

(* The invariant of the code generator and of the machine. *)

\* What the run has computed.
Have == {Reg(x) : x \in DOMAIN regs} \cup {Cell(x) : x \in DOMAIN counters}

Stored == (\A x \in DOMAIN regs : regs[x] \in Word) /\ (\A x \in DOMAIN counters : counters[x] \in Word)

\* What is there on every path to the next instruction has been computed on this one.
RunOK(A) ==
  /\ pc \in [block : Nat, i : Nat, from : Nat]
  /\ pc.block \in 1..Size(ir) /\ pc.i \in 1..Len(ir.blocks[pc.block])
  /\ A[pc.block] \cup Before(ir.blocks[pc.block], pc.i) \subseteq Have
  /\ pc.from = 0 => pc.block = 1
  /\ pc.from # 0 => pc.from \in SourcesOf(ir, pc.block) /\ AtEnd(ir, A, pc.from) \subseteq Have

Variables(B, A) ==
  /\ DOMAIN nameMap = {names[k] : k \in DOMAIN names}
  /\ \A x \in DOMAIN nameMap : Fits(B, A, nameMap[x])

Generated(B, A, q, v) == Sound(B, A, {B.cur}) /\ VisitsOK(B, A, q, v) /\ Variables(B, A)

Outcomes == {"none", "returned", "divided by zero", "no input", "poison"}

CodeInv ==
  /\ phase \in {"parse", "visit", "run", "rejected"} /\ outcome \in Outcomes /\ Stored
  /\ phase # "run" => outcome = "none" /\ RunInit
  /\ phase \in {"parse", "rejected"} => ir = [blocks |-> << <<>> >>, cur |-> 1, id |-> 0, lpad |-> Null]
  /\ phase = "visit" => WholeTree /\ \E A : Generated(ir, A, visits, V)
  /\ phase = "run" => \E A : Sound(ir, A, {}) /\ RunOK(A)

(* The generator. *)

LEMMA Entered ==
  ASSUME phase = "visit", NEW A, Generated(ir, A, visits, V), visits # <<>>
  PROVE  /\ visits \in Seq(VisitFrames) /\ Len(visits) \in Nat \ {0} /\ Visiting \in VisitFrames
         /\ VisitFrame(ir, A, Visiting) /\ (Visiting.at # "enter" => Fits(ir, A, V))
         /\ Visiting.node \in DOMAIN nodes
<1>1. PICK S : S = VisitFrames
  OBVIOUS
<1>2. visits \in Seq(S)
  BY <1>1 DEF Generated, VisitsOK
<1>3. Len(visits) \in Nat \ {0} /\ visits[Len(visits)] \in S /\ Len(visits) \in 1..Len(visits)
  <2>1. Len(visits) \in Nat \ {0}
    BY ONLY <1>2, visits # <<>>
  <2> QED BY ONLY <1>2, <2>1, ElementOfSeq
<1>4. VisitFrame(ir, A, Visiting) /\ (Visiting.at # "enter" => Fits(ir, A, V))
  BY <1>3 DEF Generated, VisitsOK, Visiting
<1>5. Visiting \in VisitFrames
  BY <1>1, <1>3 DEF Visiting
<1> QED BY <1>1, <1>2, <1>3, <1>4, <1>5 DEF VisitFrames

\* A step of a visit, to a builder that goes on.
LEMMA Generates ==
  ASSUME CodeInv, phase = "visit", UNCHANGED parserVars, UNCHANGED runVars, phase' = phase,
         nameMap' = nameMap,
         NEW A, Generated(ir, A, visits, V), NEW C, C = ir', NEW A2, GoesOnTo(ir, A, C, A2),
         NEW q, q = visits', NEW v, v = V', VisitsOK(C, A2, q, v)
  PROVE  CodeInv'
<1>1. nodes' = nodes /\ names' = names /\ tree' = tree
  BY DEF parserVars
<1>2. WholeTree'
  BY <1>1 DEF CodeInv, WholeTree
<1>3. \A x \in DOMAIN nameMap : Fits(C, A2, nameMap[x])
  BY StillFits DEF Generated, Variables
<1>4. Variables(C, A2)'
  BY <1>1, <1>3 DEF Generated, Variables, Fits
<1>5. VisitsOK(C, A2, q, v)'
  BY <1>1 DEF VisitsOK, VisitFrames, VisitFrame, Fits
<1>6. Sound(C, A2, {C.cur})
  BY DEF GoesOnTo
<1>7. Generated(ir, A2, visits, V)'
  BY <1>4, <1>5, <1>6 DEF Generated, Variables, VisitsOK
<1>8. /\ pc' = pc /\ regs' = regs /\ counters' = counters /\ outcome' = outcome /\ written' = written
  BY DEF runVars
<1>9. outcome' \in Outcomes /\ Stored' /\ (outcome = "none" /\ RunInit)'
  BY <1>8 DEF CodeInv, Stored, RunInit
<1>10. \E F : Generated(ir, F, visits, V)'
  BY <1>7
<1> QED BY <1>2, <1>9, <1>10 DEF CodeInv

LEMMA VisitFactorKeeps ==
  ASSUME CodeInv, VisitFactor, UNCHANGED runVars PROVE CodeInv'
<1>1. /\ phase = "visit" /\ visits # <<>> /\ Visiting.at = "enter" /\ WholeTree
      /\ UNCHANGED parserVars /\ phase' = phase /\ nameMap' = nameMap /\ ir' = ir
      /\ visits' = SubSeq(visits, 1, Len(visits) - 1) /\ Node = nodes[Visiting.node]
  BY DEF VisitFactor, Stage, CodeInv, genOnly, Leave, Node
<1>2. PICK A : Generated(ir, A, visits, V)
  BY <1>1 DEF CodeInv
<1>3. Visiting.node \in DOMAIN nodes
  BY <1>1, <1>2, Entered
<1>4. Fits(ir, A, V')
  <2>1. CASE Node.op = "ident" /\ V' = IF Node.val \in DOMAIN nameMap THEN nameMap[Node.val] ELSE NullValue
    <3>1. PICK k \in DOMAIN names : names[k] = Node.val
      BY <1>1, <1>3, <2>1 DEF WholeTree
    <3>2. Node.val \in DOMAIN nameMap
      BY <1>2, <3>1 DEF Generated, Variables
    <3> QED BY <1>2, <2>1, <3>2 DEF Generated, Variables
  <2>2. ASSUME NEW n \in Word, V' = Const(n) PROVE Fits(ir, A, V')
    BY <2>2, ConstantValues DEF Fits
  <2>3. CASE Node.op = "number"
    <3>1. Literal(Node.val) \in Nat
      BY <1>1, <1>3, <2>3, LiteralAssumption DEF WholeTree
    <3>2. Literal(Node.val) <= MaxWord => Literal(Node.val) \in Word
      BY <3>1, WordAssumption DEF Word
    <3>3. \E n \in Word : V' = Const(n)
      <4>1. CASE Literal(Node.val) <= MaxWord /\ V' = Const(Literal(Node.val))
        BY <3>2, <4>1
      <4>2. CASE \E n \in Garbage : V' = Const(n)
        BY <4>2, GarbageAssumption
      <4> QED BY <2>3, <4>1, <4>2 DEF VisitFactor
    <3> QED BY <2>2, <3>3
  <2> QED BY <2>1, <2>3 DEF VisitFactor
<1>5. PICK C, q, v : C = ir' /\ q = visits' /\ v = V'
  OBVIOUS
<1>6. GoesOnTo(ir, A, C, A)
  BY <1>1, <1>2, <1>5 DEF GoesOnTo, Generated
<1>7. VisitsOK(C, A, q, v)
  <2>1. Fits(C, A, v) /\ VisitsOK(ir, A, visits, V)
    BY <1>1, <1>2, <1>4, <1>5 DEF Generated
  <2> QED BY <1>1, <1>5, <1>6, <2>1, VisitUp
<1> QED BY <1>1, <1>2, <1>5, <1>6, <1>7, Generates

LEMMA VisitChild ==
  ASSUME CodeInv, phase = "visit", visits # <<>>, UNCHANGED runVars, genOnly, UNCHANGED <<V, ir>>,
         NEW A, Generated(ir, A, visits, V), NEW f \in VisitFrames, VisitFrame(ir, A, f),
         f.at # "enter", NEW E \in DOMAIN nodes, Descend(E, f)
  PROVE  CodeInv'
<1>1. PICK C, q, v : C = ir' /\ q = visits' /\ v = V'
  OBVIOUS
<1>2. GoesOnTo(ir, A, C, A)
  BY <1>1 DEF GoesOnTo, Generated
<1>3. VisitsOK(C, A, q, v)
  <2>1. VisitsOK(ir, A, visits, V) /\ q = Append([visits EXCEPT ![Len(visits)] = f], Visit(E))
    BY <1>1 DEF Generated, Descend
  <2>2. VisitsOK(ir, A, q, v)
    BY <2>1, VisitDown
  <2> QED BY <1>1, <2>2
<1> QED BY <1>1, <1>2, <1>3, Generates DEF genOnly

LEMMA VisitLeftKeeps ==
  ASSUME CodeInv, VisitLeft, UNCHANGED runVars PROVE CodeInv'
<1>1. /\ phase = "visit" /\ visits # <<>> /\ WholeTree /\ genOnly /\ UNCHANGED <<V, ir>>
      /\ Node = nodes[Visiting.node] /\ Node.op \in Operators
  BY DEF VisitLeft, Stage, CodeInv, Node
<1>2. PICK A : Generated(ir, A, visits, V)
  BY <1>1 DEF CodeInv
<1>3. Visiting.node \in DOMAIN nodes /\ Visiting \in VisitFrames
  BY <1>1, <1>2, Entered
<1>4. PICK f : f = [Visiting EXCEPT !.at = "right"]
  OBVIOUS
<1>5. f \in VisitFrames /\ f.at = "right" /\ f.node = Visiting.node
  BY <1>3, <1>4 DEF VisitFrames
<1>6. VisitFrame(ir, A, f)
  BY <1>1, <1>5 DEF VisitFrame
<1>7. Node.left \in DOMAIN nodes /\ Descend(Node.left, f)
  BY <1>1, <1>3, <1>4 DEF WholeTree, VisitLeft
<1> QED BY <1>1, <1>2, <1>5, <1>6, <1>7, VisitChild

LEMMA VisitRightKeeps ==
  ASSUME CodeInv, VisitRight, UNCHANGED runVars PROVE CodeInv'
<1>1. /\ phase = "visit" /\ visits # <<>> /\ WholeTree /\ genOnly /\ UNCHANGED <<V, ir>>
      /\ Node = nodes[Visiting.node] /\ Visiting.at = "right"
  BY DEF VisitRight, Stage, CodeInv, Node
<1>2. PICK A : Generated(ir, A, visits, V)
  BY <1>1 DEF CodeInv
<1>3. /\ Visiting.node \in DOMAIN nodes /\ Visiting \in VisitFrames
      /\ VisitFrame(ir, A, Visiting) /\ Fits(ir, A, V)
  BY <1>1, <1>2, Entered
<1>4. PICK f : f = [Visiting EXCEPT !.at = "operate", !.Left = V]
  OBVIOUS
<1>5. f \in VisitFrames /\ f.at = "operate" /\ f.node = Visiting.node /\ f.Left = V
  BY <1>3, <1>4 DEF VisitFrames, Fits
<1>6. VisitFrame(ir, A, f) /\ Node.op \in Operators
  BY <1>1, <1>3, <1>5 DEF VisitFrame
<1>7. Node.right \in DOMAIN nodes /\ Descend(Node.right, f)
  BY <1>1, <1>3, <1>4, <1>6 DEF WholeTree, VisitRight
<1> QED BY <1>1, <1>2, <1>5, <1>6, <1>7, VisitChild

LEMMA VisitOperatorKeeps ==
  ASSUME CodeInv, VisitOperator, UNCHANGED runVars PROVE CodeInv'
<1>1. /\ phase = "visit" /\ visits # <<>> /\ Visiting.at = "operate"
      /\ UNCHANGED parserVars /\ phase' = phase /\ nameMap' = nameMap
      /\ visits' = SubSeq(visits, 1, Len(visits) - 1) /\ Node = nodes[Visiting.node]
  BY DEF VisitOperator, Stage, genOnly, Leave, Node
<1>2. PICK A : Generated(ir, A, visits, V)
  BY <1>1 DEF CodeInv
<1>3. VisitFrame(ir, A, Visiting) /\ Fits(ir, A, V)
  BY <1>1, <1>2, Entered
<1>4. Node.op \in Operators /\ Fits(ir, A, Visiting.Left) /\ Sound(ir, A, {ir.cur})
  BY <1>1, <1>2, <1>3 DEF VisitFrame, Generated
<1>5. PICK r : r = Operate(ir, Node.op, Visiting.Left, V)
  OBVIOUS
<1>6. Delivers(ir, A, r)
  <2>1. PICK B, op, L, R : B = ir /\ op = Node.op /\ L = Visiting.Left /\ R = V
    OBVIOUS
  <2>2. Sound(B, A, {B.cur}) /\ op \in Operators /\ Fits(B, A, L) /\ Fits(B, A, R)
    BY <1>3, <1>4, <2>1
  <2>3. Delivers(B, A, Operate(B, op, L, R))
    BY ONLY <2>2, OperateDelivers
  <2> QED BY <1>5, <2>1, <2>3
<1>7. PICK A2 : GoesOnTo(ir, A, r.b, A2) /\ Fits(r.b, A2, r.v)
  BY <1>6 DEF Delivers
<1>8. PICK C, q, v : C = ir' /\ q = visits' /\ v = V'
  OBVIOUS
<1>9. C = r.b /\ v = r.v
  BY <1>5, <1>8 DEF VisitOperator
<1>10. VisitsOK(C, A2, q, v)
  <2>1. GoesOnTo(ir, A, C, A2) /\ Fits(C, A2, v) /\ VisitsOK(ir, A, visits, V)
    BY <1>2, <1>7, <1>9 DEF Generated
  <2> QED BY <1>1, <1>8, <2>1, VisitUp
<1> QED BY <1>1, <1>2, <1>7, <1>8, <1>9, <1>10, Generates

\* The calls of calc_read.
Reading1(k, x) == Instr("read", k, [kind |-> "name", name |-> x], Zero, <<>>)

LEMMA Calls ==
  ASSUME NEW k \in Nat, NEW x \in Idents
  PROVE  /\ Reading1(k, x) \in Instrs /\ Shaped(Reading1(k, x)) /\ Reading1(k, x).op = "read"
         /\ Makes(Reading1(k, x)) = {Reg(k)} /\ Reads(Reading1(k, x)) = {}
         /\ ToSet(Reading1(k, x).to) = {}
<1>1. PICK ins, a : a = [kind |-> "name", name |-> x] /\ ins = Instr("read", k, a, Zero, <<>>)
  OBVIOUS
<1>2. ins \in Instrs /\ ins.op = "read" /\ ins.id = k /\ ins.to = <<>>
  <2>1. PICK to : to = <<>>
    OBVIOUS
  <2>2. a \in Values \cup Named /\ to \in Seq(Nat) /\ ins = Instr("read", k, a, Zero, to)
    BY <1>1, <2>1 DEF Named
  <2>3. "read" \in {"read", "set", "write"} \cup Terminators
    OBVIOUS
  <2>4. ins \in Instrs /\ ins.op = "read" /\ ins.id = k /\ ins.to = to
    BY ONLY <2>2, <2>3, k \in Nat, Plains, Numerals
  <2> QED BY <2>1, <2>4
<1>3. Shaped(ins)
  BY <1>2, NotTerminators DEF Shaped
<1>4. Makes(ins) = {Reg(k)} /\ Reads(ins) = {}
  BY <1>2, NotTerminators DEF Makes, Reads
<1>5. ins = Reading1(k, x)
  BY <1>1 DEF Reading1
<1> QED BY <1>2, <1>3, <1>4, <1>5, Targets

Nowhere == [b \in Nat |-> {}]

Entry(code, n) == [blocks |-> <<code>>, cur |-> 1, id |-> n, lpad |-> Null]

LEMMA EntrySound ==
  ASSUME NEW code \in Seq(Instrs), NEW n \in Nat,
         \A k \in 1..Len(code) : /\ Shaped(code[k]) /\ code[k].op = "read"
                                 /\ Reads(code[k]) = {} /\ ToSet(code[k].to) = {}
  PROVE  /\ Sound(Entry(code, n), Nowhere, {Entry(code, n).cur}) /\ Entry(code, n).cur = 1
         /\ AtEnd(Entry(code, n), Nowhere, 1) = MadeBy(code)
<1>1. PICK B : B = Entry(code, n)
  OBVIOUS
<1>2. PICK bs : bs = <<code>>
  OBVIOUS
<1>3. /\ B = [blocks |-> bs, cur |-> 1, id |-> n, lpad |-> 0]
      /\ B.cur = 1 /\ B.lpad = 0 /\ B.blocks = bs /\ B.id = n
  BY <1>1, <1>2 DEF Entry, Null
<1>4. bs \in Seq(Seq(Instrs)) /\ Len(bs) = 1 /\ bs[1] = code
  <2>1. PICK S : S = Seq(Instrs)
    OBVIOUS
  <2>2. code \in S
    BY <2>1
  <2>3. bs \in Seq(S) /\ Len(bs) = 1 /\ bs[1] = code
    BY ONLY <1>2, <2>2
  <2> QED BY <2>1, <2>3
<1>5. B \in Builders /\ Size(B) = 1 /\ B.blocks[1] = code
  BY <1>3, <1>4 DEF Builders, Size
<1>6. ASSUME NEW i \in DOMAIN code PROVE InstrAt(B, Nowhere, 1, Nowhere[1], code, i)
  <2>1. /\ Shaped(code[i]) /\ code[i].op = "read" /\ Reads(code[i]) = {} /\ ToSet(code[i].to) = {}
    BY BlockTyped
  <2> QED BY <2>1 DEF InstrAt
<1>7. Open(code)
  <2>1. DOMAIN code = 1..Len(code)
    BY BlockTyped
  <2> QED BY <2>1, NotTerminators DEF Open
<1>8. BlockOK(B, Nowhere, 1, {1})
  BY <1>5, <1>6, <1>7 DEF BlockOK
<1>9. PadOK(B, Nowhere) /\ Nowhere[1] = {}
  BY <1>3 DEF PadOK, Null, Nowhere
<1>10. Sound(B, Nowhere, {1})
  <2>1. \A b \in 1..1 : b = 1
    OBVIOUS
  <2> QED BY <1>3, <1>5, <1>8, <1>9, <2>1 DEF Sound
<1>11. AtEnd(B, Nowhere, 1) = MadeBy(code)
  BY <1>5, <1>9 DEF AtEnd
<1> QED BY <1>1, <1>3, <1>10, <1>11

LEMMA Renewed ==
  ASSUME NEW S, NEW B \in [blocks : S, cur : Nat, id : Nat, lpad : Nat], NEW bs, NEW n, NEW C,
         C = [B EXCEPT !.blocks = bs, !.id = n]
  PROVE  C = [blocks |-> bs, cur |-> B.cur, id |-> n, lpad |-> B.lpad]
  OBVIOUS

LEMMA MainKeeps ==
  ASSUME IInv, Bounds, CodeInv, Main, UNCHANGED runVars PROVE CodeInv'
<1>1. /\ phase = "parse" /\ UNCHANGED parserVars /\ V' = V
      /\ outcome = "none" /\ RunInit /\ Stored /\ ir = Entry(<<>>, 0)
  BY DEF Main, CodeInv, Entry
<1>2. outcome' \in Outcomes /\ Stored' /\ (outcome = "none" /\ RunInit)'
  BY <1>1 DEF runVars, Stored, RunInit, Outcomes
<1>3. CASE HasError \/ NoTree \/ SemanticErrors
  <2>1. phase' = "rejected" /\ ir' = ir
    BY <1>3 DEF Main
  <2> QED BY <1>1, <1>2, <2>1 DEF CodeInv
<1>4. CASE ~(HasError \/ NoTree \/ SemanticErrors)
  <2>1. /\ phase' = "visit" /\ visits' = << Visit(tree) >>
        /\ nameMap' = [x \in {names[k] : k \in DOMAIN names} |->
                         Inst(CHOOSE k \in DOMAIN names : names[k] = x)]
        /\ ir' = [ir EXCEPT !.blocks = << ReadCalls >>, !.id = Len(names)]
    BY <1>4 DEF Main
  <2>2. nodes' = nodes /\ names' = names /\ tree' = tree
    BY <1>1 DEF parserVars
  <2>3. WholeTree /\ WholeTree'
    <3>1. WholeTree
      BY <1>4, Checked DEF IInv
    <3> QED BY <2>2, <3>1 DEF WholeTree
  <2>4. PICK n \in Nat : n = Len(names)
    BY DEF Bounds, TextOK
  <2>5. DOMAIN names = 1..n /\ \A k \in 1..n : names[k] \in Idents
    BY <2>4, ElementOfSeq DEF Bounds, TextOK
  <2>6. PICK code : code = ReadCalls
    OBVIOUS
  <2>7. DOMAIN code = 1..n /\ \A k \in 1..n : code[k] = Reading1(k, names[k])
    BY <2>5, <2>6 DEF ReadCalls, Reading1
  <2>8. /\ code \in Seq(Instrs) /\ Len(code) = n
        /\ \A k \in 1..n : /\ Shaped(code[k]) /\ code[k].op = "read" /\ Makes(code[k]) = {Reg(k)}
                           /\ Reads(code[k]) = {} /\ ToSet(code[k].to) = {}
    <3>1. \A k \in 1..n : /\ code[k] \in Instrs /\ Shaped(code[k]) /\ code[k].op = "read"
                          /\ Makes(code[k]) = {Reg(k)} /\ Reads(code[k]) = {} /\ ToSet(code[k].to) = {}
      <4>1. SUFFICES ASSUME NEW k \in 1..n
                     PROVE  /\ code[k] \in Instrs /\ Shaped(code[k]) /\ code[k].op = "read"
                            /\ Makes(code[k]) = {Reg(k)} /\ Reads(code[k]) = {} /\ ToSet(code[k].to) = {}
        OBVIOUS
      <4>2. PICK x \in Idents : code[k] = Reading1(k, x)
        BY <2>5, <2>7
      <4> QED BY <4>2, Calls
    <3>2. code \in [1..n -> Instrs]
      <4>1. code = [k \in 1..n |-> code[k]]
        BY <2>5, <2>6, <2>7 DEF ReadCalls
      <4> QED BY <3>1, <4>1
    <3>3. code \in Seq(Instrs)
      BY <3>2, FunctionSeq
    <3>4. Len(code) = n
      BY <2>7, <3>3, LenProperties
    <3> QED BY <3>1, <3>3, <3>4
  <2>9. PICK C : C = Entry(code, n)
    OBVIOUS
  <2>10. ir' = C
    <3>1. PICK bs, old : bs = <<code>> /\ old = << <<>> >>
      OBVIOUS
    <3>2. ir = [blocks |-> old, cur |-> 1, id |-> 0, lpad |-> Null]
      BY <1>1, <3>1 DEF Entry
    <3>3. ir' = [ir EXCEPT !.blocks = bs, !.id = n]
      BY <2>1, <2>4, <2>6, <3>1
    <3>4. C = [blocks |-> bs, cur |-> 1, id |-> n, lpad |-> Null]
      BY <2>9, <3>1 DEF Entry
    <3>5. ir.cur = 1 /\ ir.lpad = Null
      BY <3>2
    <3>6. ir \in [blocks : {old}, cur : Nat, id : Nat, lpad : Nat]
      BY <3>2 DEF Null
    <3>7. C = [blocks |-> bs, cur |-> ir.cur, id |-> n, lpad |-> ir.lpad]
      BY <3>4, <3>5
    <3>8. ir' = [blocks |-> bs, cur |-> ir.cur, id |-> n, lpad |-> ir.lpad]
      BY ONLY <3>3, <3>6, Renewed
    <3> QED BY <3>7, <3>8
  <2>11. Sound(C, Nowhere, {C.cur}) /\ AtEnd(C, Nowhere, C.cur) = MadeBy(code)
    BY <2>8, <2>9, EntrySound
  <2>12. ASSUME NEW x \in DOMAIN nameMap' PROVE Fits(C, Nowhere, nameMap'[x])
    <3>1. PICK k \in 1..n : nameMap'[x] = Inst(k)
      BY <2>1, <2>5, <2>12
    <3>2. Reg(k) \in MadeBy(code)
      BY <2>7, <2>8, Membership
    <3> QED BY <2>11, <3>1, <3>2 DEF Fits, Inst, Values, Needs
  <2>13. Variables(C, Nowhere)'
    <3>1. DOMAIN nameMap' = {names[k] : k \in DOMAIN names}
      BY <2>1
    <3> QED BY <2>2, <2>12, <3>1 DEF Variables, Fits
  <2>14. VisitsOK(C, Nowhere, visits, V)'
    <3>1. PICK S, e : S = VisitFrames /\ e = Visit(tree)
      OBVIOUS
    <3>2. e \in S /\ e.at = "enter"
      BY <2>3, <3>1, Visits DEF WholeTree
    <3>3. <<e>> \in Seq(S) /\ Len(<<e>>) = 1 /\ <<e>>[1] = e /\ <<e>> # <<>>
      BY ONLY <3>2
    <3>4. visits' = <<e>>
      BY <2>1, <3>1
    <3>5. VisitFrames' = S
      BY <2>2, <3>1 DEF VisitFrames
    <3>6. VisitFrame(C, Nowhere, e)
      BY <3>2 DEF VisitFrame
    <3>7. \A k \in 1..1 : k = 1
      OBVIOUS
    <3>8. \A k \in 1..1 - 1 : FALSE
      OBVIOUS
    <3> QED BY <3>2, <3>3, <3>4, <3>5, <3>7, <3>8 DEF VisitsOK, VisitFrame
  <2>15. Generated(ir, Nowhere, visits, V)'
    BY <2>10, <2>11, <2>13, <2>14 DEF Generated, Variables, VisitsOK
  <2>16. (\E A : Generated(ir, A, visits, V))'
    BY <2>15
  <2> QED BY <1>2, <2>1, <2>3, <2>16 DEF CodeInv
<1> QED BY <1>3, <1>4

\* The code at the end of main.
LEMMA EndMainKeeps ==
  ASSUME CodeInv, EndMain, UNCHANGED runVars PROVE CodeInv'
<1>1. phase = "visit" /\ visits = <<>> /\ phase' = "run" /\ UNCHANGED parserVars
  BY DEF EndMain
<1>2. PICK A : Generated(ir, A, visits, V)
  BY <1>1 DEF CodeInv
<1>3. Sound(ir, A, {ir.cur}) /\ Fits(ir, A, V)
  BY <1>1, <1>2 DEF Generated, VisitsOK
<1>4. PICK p, q, to : to = <<>> /\ p = Instr("write", Null, V, Zero, to) /\ q = Instr("ret", Null, Zero, Zero, <<>>)
  OBVIOUS
<1>5. /\ p \in Instrs /\ Shaped(p) /\ p.op = "write" /\ Makes(p) = {}
      /\ Reads(p) = Needs(V) /\ ToSet(p.to) = {} /\ "write" \notin Terminators
  <2>1. V \in Values \cup Named /\ V \in Values /\ to \in Seq(Nat) /\ Null \in Nat
    BY <1>3, <1>4, Targets, Numerals DEF Fits
  <2>2. "write" \in {"read", "set", "write"} \cup Terminators
    OBVIOUS
  <2>3. p \in Instrs /\ p.op = "write" /\ p.a = V /\ p.to = to
    <3>1. PICK v, n : v = V /\ n = Null
      OBVIOUS
    <3>2. p = Instr("write", n, v, Zero, to) /\ v \in Values \cup Named /\ n \in Nat
      BY <1>4, <2>1, <3>1
    <3>3. p \in Instrs /\ p.op = "write" /\ p.a = v /\ p.to = to
      BY ONLY <2>1, <2>2, <3>2, Plains, Numerals
    <3> QED BY <3>1, <3>3
  <2>4. Shaped(p)
    BY <1>4, <2>1, <2>3, NotTerminators DEF Shaped
  <2>5. Makes(p) = {} /\ Reads(p) = Needs(V)
    BY <2>3, NotTerminators DEF Makes, Reads
  <2> QED BY <1>4, <2>3, <2>4, <2>5, Targets, NotTerminators
<1>6. /\ q \in Instrs /\ Shaped(q) /\ q.op = "ret" /\ "ret" \in Terminators
      /\ Makes(q) = {} /\ Reads(q) = {} /\ ToSet(q.to) = {}
  BY <1>4, Ending
<1>7. PICK code : code = <<p, q>>
  OBVIOUS
<1>8. /\ code \in Seq(Instrs) /\ Len(code) = 2 /\ code[1] = p /\ code[2] = q
      /\ Before(code, 1) = {} /\ Goes(code) = {} /\ Terminated(code)
  <2>1. Goes(code) = ToSet(p.to) \cup ToSet(q.to)
    BY <1>5, <1>6, <1>7, Code2
  <2> QED BY <1>5, <1>6, <1>7, <2>1, Code2
<1>9. PICK B, C : B = ir /\ C = ir'
  OBVIOUS
<1>10. /\ B \in Builders /\ B.cur \in 1..Size(B) /\ PadOK(B, A) /\ Sound(B, A, {B.cur})
       /\ 1 \in 1..Size(B)
  BY <1>3, <1>9 DEF Sound
<1>11. /\ C.blocks = Extended(B, code) /\ C.cur = B.cur /\ C.id = B.id /\ C.lpad = B.lpad
       /\ C = [blocks |-> C.blocks, cur |-> B.cur, id |-> B.id, lpad |-> B.lpad]
  <2>1. C = Emit(B, code)
    BY <1>4, <1>7, <1>9 DEF EndMain, Return0
  <2> QED BY <1>10, <2>1 DEF Emit, Extended, Builders
<1>12. Grown(B, C, code, <<>>)
  BY <1>8, <1>10, <1>11, EmittedOnly
<1>13. C \in Builders /\ Size(C) = Size(B)
  <2>1. C.blocks \in Seq(Seq(Instrs)) /\ Size(C) = Size(B) + Len(<<>>) /\ Size(B) \in Nat
    BY <1>10, <1>12, BuilderTyped DEF Grown
  <2>2. B.cur \in Nat /\ B.id \in Nat /\ B.lpad \in Nat
    BY <1>10 DEF Builders
  <2> QED BY <1>11, <2>1, <2>2 DEF Builders
<1>14. Growth(B, A, C, code, <<>>)
  <2>1. NewOnly(B, code, <<>>)
    BY <1>8 DEF NewOnly
  <2> QED BY <1>10, <1>11, <1>12, <2>1 DEF Growth
<1>15. NewOK(B, A, C, A, code, <<>>, {})
  <2>1. PadOK(C, A)
    <3>1. SUFFICES ASSUME B.lpad # Null PROVE PadOK(C, A)
      BY <1>11 DEF PadOK
    <3>2. /\ B.lpad \in 1..Size(B) /\ B.lpad + 1 \in 1..Size(B) /\ B.cur \notin {B.lpad, B.lpad + 1}
          /\ B.blocks[B.lpad] = LandingPad[1] /\ B.blocks[B.lpad + 1] = LandingPad[2]
          /\ A[B.lpad] = {} /\ A[B.lpad + 1] = {}
      BY <1>10, <3>1 DEF PadOK
    <3>3. C.blocks[B.lpad] = B.blocks[B.lpad] /\ C.blocks[B.lpad + 1] = B.blocks[B.lpad + 1]
      BY <1>12, <3>2 DEF Grown
    <3> QED BY <1>11, <1>13, <3>2, <3>3 DEF PadOK
  <2>2. ASSUME NEW j \in 1..Len(code) PROVE InstrAt(C, A, B.cur, AtEnd(B, A, B.cur), code, j)
    <3>1. CASE j = 1
      BY <1>3, <1>5, <1>8, <1>9, <3>1 DEF InstrAt, Fits
    <3>2. CASE j = 2
      BY <1>6, <1>8, <3>2 DEF InstrAt
    <3> QED BY <1>8, <3>1, <3>2
  <2> QED BY <1>8, <1>10, <1>11, <1>13, <2>1, <2>2 DEF NewOK
<1>16. Sound(C, A, {})
  <2>1. Keeps(B, A, A)
    BY DEF Keeps
  <2> QED BY <1>14, <1>15, <2>1, GrownSound
<1>17. RunOK(A)'
  <2>1. pc' = [block |-> 1, i |-> 1, from |-> 0]
    BY <1>1 DEF CodeInv, RunInit, runVars
  <2>2. PICK block : block = C.blocks[1]
    OBVIOUS
  <2>3. 1 \in 1..Size(C) /\ A[1] = {} /\ block \in Seq(Instrs) /\ Terminated(block)
    <3>1. 1 \in 1..Size(C) /\ A[1] = {} /\ BlockOK(C, A, 1, {})
      BY <1>16 DEF Sound
    <3> QED BY <1>13, <2>2, <3>1, BuilderTyped DEF BlockOK
  <2>4. 1 \in 1..Len(block) /\ Before(block, 1) = {}
    <3>1. block # <<>> /\ Len(block) \in Nat /\ DOMAIN block = 1..Len(block)
      BY <2>3, BlockTyped DEF Terminated
    <3>2. 1 \in 1..Len(block)
      BY <2>3, <3>1
    <3>3. \A j \in 1..Len(block) : ~(j < 1)
      BY <3>1
    <3> QED BY <3>1, <3>2, <3>3, Membership
  <2> QED BY <1>9, <2>1, <2>2, <2>3, <2>4 DEF RunOK
<1>18. outcome' \in Outcomes /\ Stored'
  BY DEF CodeInv, runVars, Stored
<1>19. (\E F : Sound(ir, F, {}) /\ RunOK(F))'
  BY <1>9, <1>16, <1>17
<1> QED BY <1>1, <1>18, <1>19 DEF CodeInv

(* The machine. *)

\* The instruction that is next, and what it may rely on.
LEMMA Executes ==
  ASSUME NEW A, Sound(ir, A, {}), RunOK(A)
  PROVE  /\ Current \in Instrs /\ Shaped(Current) /\ Reads(Current) \subseteq Have
         /\ \A c \in ToSet(Current.to) : c \in 1..Size(ir) /\ A[c] \subseteq Have
         /\ Current.op = "phi" => /\ pc.from \in DOMAIN Current.in
                                  /\ \A p \in DOMAIN Current.in : Current.in[p] \in Values
                                  /\ Needs(Current.in[pc.from]) \subseteq Have
         /\ ir.blocks[pc.block] \in Seq(Instrs)
         /\ Current.op \in Terminators <=> pc.i = Len(ir.blocks[pc.block])
<1>1. PICK block : block = ir.blocks[pc.block]
  OBVIOUS
<1>2. PICK ins : ins = block[pc.i]
  OBVIOUS
<1>3. /\ ir \in Builders /\ pc.block \in 1..Size(ir) /\ block \in Seq(Instrs)
      /\ pc.i \in 1..Len(block) /\ DOMAIN block = 1..Len(block) /\ Current = ins
  <2>1. ir \in Builders /\ pc.block \in 1..Size(ir) /\ pc.i \in 1..Len(block)
    BY <1>1 DEF Sound, RunOK
  <2>2. block \in Seq(Instrs)
    BY <1>1, <2>1, BuilderTyped
  <2> QED BY <1>1, <1>2, <2>1, <2>2, BlockTyped DEF Current
<1>4. InstrAt(ir, A, pc.block, A[pc.block], block, pc.i) /\ Terminated(block)
  BY <1>1, <1>3 DEF Sound, BlockOK
<1>5. ins \in Instrs /\ A[pc.block] \cup Before(block, pc.i) \subseteq Have
  BY <1>1, <1>2, <1>3, BlockTyped DEF RunOK
<1>6. /\ Shaped(ins) /\ Reads(ins) \subseteq Have
      /\ \A c \in ToSet(ins.to) : c \in 1..Size(ir) /\ A[c] \subseteq Have
  BY <1>2, <1>4, <1>5 DEF InstrAt
<1>7. ASSUME ins.op = "phi"
      PROVE  /\ pc.from \in DOMAIN ins.in
             /\ \A p \in DOMAIN ins.in : ins.in[p] \in Values
             /\ Needs(ins.in[pc.from]) \subseteq Have
  <2>1. /\ pc.block # 1 /\ DOMAIN ins.in = SourcesOf(ir, pc.block)
        /\ \A p \in DOMAIN ins.in : Needs(ins.in[p]) \subseteq AtEnd(ir, A, p)
    BY <1>2, <1>4, <1>7 DEF InstrAt
  <2>2. pc.from \in SourcesOf(ir, pc.block) /\ AtEnd(ir, A, pc.from) \subseteq Have
    BY <2>1 DEF RunOK
  <2>3. \A p \in DOMAIN ins.in : ins.in[p] \in Values
    <3>1. ins \in Phis
      BY <1>5, <1>7, NotTerminators DEF Instrs, Plain
    <3> QED BY <3>1 DEF Phis
  <2> QED BY <2>1, <2>2, <2>3
<1>8. ins.op \in Terminators <=> pc.i = Len(block)
  BY <1>2, <1>3, <1>4 DEF Terminated
<1> QED BY <1>1, <1>3, <1>5, <1>6, <1>7, <1>8

\* A value that has been computed, and what it is.
LEMMA Known1 ==
  ASSUME NEW v \in Values, Needs(v) \subseteq Have, Stored
  PROVE  /\ v = Poison \/ Defined(v)
         /\ Defined(v) => Value(v) \in Word
<1>1. CASE v.kind = "const" /\ v.n \in Word
  BY <1>1 DEF Defined, Value
<1>2. CASE v = Poison
  BY <1>2 DEF Defined, Poison
<1>3. CASE v.kind = "inst" /\ v.id \in Nat
  <2>1. Reg(v.id) \in Have
    BY <1>3 DEF Needs
  <2>2. v.id \in DOMAIN regs
    BY <2>1 DEF Have, Reg, Cell
  <2> QED BY <1>3, <2>2 DEF Defined, Value, Stored
<1> QED BY <1>1, <1>2, <1>3 DEF Values

LEMMA OperandsKnown ==
  ASSUME NEW A, Sound(ir, A, {}), RunOK(A), Stored
  PROVE  \A v \in Operands : (v = Poison \/ Defined(v)) /\ (Defined(v) => Value(v) \in Word)
<1>1. PICK ins : ins = Current
  OBVIOUS
<1>2. /\ ins \in Instrs /\ Shaped(ins) /\ Reads(ins) \subseteq Have
      /\ ins.op = "phi" => /\ pc.from \in DOMAIN ins.in
                           /\ \A p \in DOMAIN ins.in : ins.in[p] \in Values
                           /\ Needs(ins.in[pc.from]) \subseteq Have
  BY <1>1, Executes
<1>3. SUFFICES ASSUME NEW v \in Operands PROVE v \in Values /\ Needs(v) \subseteq Have
  BY Known1
<1>4. CASE ins.op = "phi"
  <2>1. v = IF pc.from \in DOMAIN ins.in THEN ins.in[pc.from] ELSE NullValue
    <3>1. Operands = {IF pc.from \in DOMAIN ins.in THEN ins.in[pc.from] ELSE NullValue}
      BY <1>1, <1>4, NotTerminators DEF Operands
    <3> QED BY <3>1
  <2>2. pc.from \in DOMAIN ins.in /\ ins.in[pc.from] \in Values /\ Needs(ins.in[pc.from]) \subseteq Have
    BY <1>2, <1>4
  <2> QED BY <2>1, <2>2
<1>5. CASE ins.op \in Operators
  <2>1. ins.op # "phi"
    BY <1>5, NotTerminators
  <2>2. v \in {ins.a, ins.b}
    BY <1>1, <1>5, <2>1 DEF Operands
  <2>3. ins.b \in Values /\ ins.a \in Values
    BY <1>2, <1>5, <2>1 DEF Shaped, Instrs, Plain, Phis
  <2> QED BY <1>2, <1>5, <2>2, <2>3 DEF Reads
<1>6. CASE ins.op \in {"brzero", "set", "write"}
  <2>1. ins.op # "phi" /\ ins.op \notin Operators
    BY <1>6, NotTerminators
  <2>2. v = ins.a
    BY <1>1, <1>6, <2>1 DEF Operands
  <2> QED BY <1>2, <1>6, <2>1, <2>2 DEF Reads, Shaped
<1>7. CASE ins.op \notin Operators \cup {"phi", "brzero", "set", "write"}
  BY <1>1, <1>7 DEF Operands
<1> QED BY <1>4, <1>5, <1>6, <1>7

LEMMA Sets ==
  ASSUME NEW f, NEW x, NEW n, NEW S
  PROVE  /\ DOMAIN Set(f, x, n) = DOMAIN f \cup {x}
         /\ (\A y \in DOMAIN f : f[y] \in S) /\ n \in S => \A y \in DOMAIN Set(f, x, n) : Set(f, x, n)[y] \in S
  BY DEF Set

\* The next instruction of the block.
LEMMA Proceeds ==
  ASSUME NEW A, Sound(ir, A, {}), RunOK(A), ir' = ir, Current.op \notin Terminators,
         NextInstr, Have \subseteq Have', Makes(Current) \subseteq Have'
  PROVE  RunOK(A)'
<1>1. PICK block : block = ir.blocks[pc.block]
  OBVIOUS
<1>2. PICK i \in Nat : i = pc.i
  BY DEF RunOK
<1>3. /\ pc.block \in 1..Size(ir) /\ i \in 1..Len(block) /\ block \in Seq(Instrs)
      /\ i # Len(block) /\ Len(block) \in Nat /\ DOMAIN block = 1..Len(block)
      /\ pc \in [block : Nat, i : Nat, from : Nat]
  <2>1. block \in Seq(Instrs) /\ (Current.op \in Terminators <=> pc.i = Len(block))
    BY <1>1, Executes
  <2> QED BY <1>1, <1>2, <2>1, BlockTyped DEF RunOK
<1>4. i + 1 \in 1..Len(block) /\ i + 1 \in Nat
  <2>1. PICK m \in Nat : m = Len(block)
    BY <1>3
  <2>2. i \in 1..m /\ i # m
    BY <1>3, <2>1
  <2>3. i + 1 \in 1..m /\ i + 1 \in Nat
    BY ONLY <2>2, i \in Nat, m \in Nat
  <2> QED BY ONLY <2>1, <2>3
<1>5. pc'.block = pc.block /\ pc'.i = i + 1 /\ pc'.from = pc.from /\ pc' \in [block : Nat, i : Nat, from : Nat]
  BY <1>2, <1>3, <1>4 DEF NextInstr
<1>6. A[pc.block] \subseteq Have /\ Before(block, i) \subseteq Have
  BY <1>1, <1>2 DEF RunOK
<1>7. Before(block, i + 1) \subseteq Have'
  <2>1. SUFFICES ASSUME NEW x \in Before(block, i + 1) PROVE x \in Have'
    OBVIOUS
  <2>2. PICK j \in 1..Len(block) : j < i + 1 /\ x \in Makes(block[j])
    BY <1>3, Membership
  <2>3. CASE j < i
    <3>1. x \in Before(block, i)
      BY <1>3, <2>2, <2>3, Membership
    <3> QED BY <1>6, <3>1
  <2>4. CASE j = i
    BY <1>1, <1>2, <2>2, <2>4 DEF Current
  <2> QED BY <1>3, <2>2, <2>3, <2>4
<1>8. pc.from # 0 => pc.from \in SourcesOf(ir, pc.block) /\ AtEnd(ir, A, pc.from) \subseteq Have
  BY DEF RunOK
<1>9. pc.from = 0 => pc.block = 1
  BY DEF RunOK
<1>10. PICK H : H = Have'
  OBVIOUS
<1>11. /\ A[pc.block] \cup Before(block, i + 1) \subseteq H
       /\ pc.from # 0 => AtEnd(ir, A, pc.from) \subseteq H
  BY <1>6, <1>7, <1>8, <1>10
<1> QED BY <1>1, <1>3, <1>4, <1>5, <1>8, <1>9, <1>10, <1>11 DEF RunOK, SourcesOf, AtEnd

\* The first instruction of a block that a terminator goes to.
LEMMA JumpsTo ==
  ASSUME NEW A, Sound(ir, A, {}), RunOK(A), ir' = ir, NEW c \in ToSet(Current.to), Jump(c),
         Have \subseteq Have'
  PROVE  RunOK(A)'
<1>1. PICK block : block = ir.blocks[pc.block]
  OBVIOUS
<1>2. PICK ins : ins = Current
  OBVIOUS
<1>3. /\ ins \in Instrs /\ Shaped(ins) /\ c \in 1..Size(ir) /\ A[c] \subseteq Have /\ c \in ToSet(ins.to)
      /\ ins.op \in Terminators <=> pc.i = Len(block)
      /\ block \in Seq(Instrs) /\ ins = block[pc.i]
  <2>1. ins = block[pc.i]
    BY <1>1, <1>2 DEF Current
  <2> QED BY <1>1, <1>2, <2>1, Executes
<1>4. ins.op \in Terminators
  BY <1>3, Targets DEF Shaped
<1>5. /\ pc.block \in 1..Size(ir) /\ pc.i \in 1..Len(block) /\ pc.i = Len(block)
      /\ Len(block) \in Nat /\ DOMAIN block = 1..Len(block) /\ pc.block \in Nat
      /\ ir \in Builders /\ Size(ir) \in Nat
  <2>1. ir \in Builders /\ pc.block \in 1..Size(ir) /\ pc.i \in 1..Len(block) /\ pc.block \in Nat
    BY <1>1 DEF RunOK, Sound
  <2> QED BY <1>3, <1>4, <2>1, BlockTyped, BuilderTyped
<1>6. AtEnd(ir, A, pc.block) \subseteq Have
  <2>1. A[pc.block] \subseteq Have /\ Before(block, pc.i) \subseteq Have
    BY <1>1 DEF RunOK
  <2>2. Makes(ins) = {}
    BY <1>4, NotTerminators DEF Makes
  <2>3. ASSUME NEW x \in MadeBy(block) PROVE x \in Have
    <3>1. PICK j \in 1..Len(block) : x \in Makes(block[j])
      BY <1>5, <2>3, Membership
    <3>2. j # pc.i
      BY <1>3, <2>2, <3>1
    <3>3. j < pc.i
      <4>1. \A m, n \in Nat : j \in 1..m /\ n = m /\ j # n => j < n
        OBVIOUS
      <4> QED BY <1>5, <3>1, <3>2, <4>1
    <3>4. x \in Before(block, pc.i)
      BY <1>5, <3>1, <3>3, Membership
    <3> QED BY <2>1, <3>4
  <2> QED BY <1>1, <2>1, <2>3 DEF AtEnd
<1>7. pc.block \in SourcesOf(ir, c)
  <2>1. c \in Goes(block)
    BY <1>3, <1>5, Membership
  <2> QED BY <1>1, <1>5, <2>1 DEF SourcesOf
<1>8. PICK next1 : next1 = ir.blocks[c]
  OBVIOUS
<1>9. 1 \in 1..Len(next1) /\ Before(next1, 1) = {}
  <2>1. next1 \in Seq(Instrs) /\ Terminated(next1)
    BY <1>3, <1>5, <1>8, BuilderTyped DEF Sound, BlockOK
  <2>2. next1 # <<>> /\ Len(next1) \in Nat /\ DOMAIN next1 = 1..Len(next1)
    BY <2>1, BlockTyped DEF Terminated
  <2>3. 1 \in 1..Len(next1)
    BY <2>1, <2>2
  <2>4. \A j \in 1..Len(next1) : ~(j < 1)
    BY <2>2
  <2> QED BY <2>2, <2>3, <2>4, Membership
<1>10. PICK H : H = Have'
  OBVIOUS
<1>11. pc' = [block |-> c, i |-> 1, from |-> pc.block] /\ pc.block # 0 /\ c \in Nat
  BY <1>3, <1>5 DEF Jump
<1>12. A[c] \subseteq H /\ AtEnd(ir, A, pc.block) \subseteq H
  BY <1>3, <1>6, <1>10
<1> QED BY <1>3, <1>5, <1>7, <1>8, <1>9, <1>10, <1>11, <1>12 DEF RunOK, SourcesOf, AtEnd

LEMMA HaveKept ==
  ASSUME DOMAIN regs \subseteq DOMAIN regs', DOMAIN counters \subseteq DOMAIN counters'
  PROVE  Have \subseteq Have'
  BY DEF Have

LEMMA Runs ==
  ASSUME CodeInv, phase = "run", phase' = "run", outcome' \in Outcomes, Stored',
         NEW A, Sound(ir, A, {}), ir' = ir, RunOK(A)'
  PROVE  CodeInv'
<1>1. (\E F : Sound(ir, F, {}) /\ RunOK(F))'
  OBVIOUS
<1> QED BY <1>1 DEF CodeInv

LEMMA Stops ==
  ASSUME CodeInv, phase = "run", phase' = "run", ir' = ir, outcome' \in Outcomes,
         UNCHANGED <<pc, regs, counters>>
  PROVE  CodeInv'
<1>1. PICK A : Sound(ir, A, {}) /\ RunOK(A)
  BY DEF CodeInv
<1>2. RunOK(A)'
  BY <1>1 DEF RunOK, Have, SourcesOf, AtEnd
<1>3. Stored'
  BY DEF CodeInv, Stored
<1> QED BY <1>1, <1>2, <1>3, Runs

LEMMA Running1 ==
  ASSUME CodeInv, Running, runOnly
  PROVE  /\ phase = "run" /\ phase' = "run" /\ ir' = ir /\ Stored /\ outcome \in Outcomes
         /\ outcome = "none" /\ \E A : Sound(ir, A, {}) /\ RunOK(A)
  BY DEF CodeInv, Running, runOnly, genVars

LEMMA StuckKeeps == ASSUME CodeInv, Stuck PROVE CodeInv'
<1>1. Running /\ runOnly /\ UNCHANGED <<pc, regs, counters>>
  BY DEF Stuck, Ends
<1>2. PICK A : Sound(ir, A, {}) /\ RunOK(A)
  BY <1>1, Running1
<1>3. Stored
  BY <1>1, Running1
<1>4. PICK v \in Operands : ~Defined(v)
  BY DEF Stuck
<1>5. Poison \in Operands
  BY <1>2, <1>3, <1>4, OperandsKnown
<1>6. outcome' = "poison"
  BY <1>5 DEF Stuck, Ends
<1> QED BY <1>1, <1>6, Running1, Stops DEF Outcomes

\* An instruction that leaves a result behind, or nothing.
LEMMA Results ==
  ASSUME CodeInv, Running, runOnly, Current.op \in Operators \cup {"phi", "read"},
         NextInstr, NEW n \in Word, regs' = Set(regs, Current.id, n), UNCHANGED <<counters, outcome>>
  PROVE  CodeInv'
<1>1. PICK A : Sound(ir, A, {}) /\ RunOK(A)
  BY Running1
<1>2. DOMAIN regs' = DOMAIN regs \cup {Current.id} /\ \A x \in DOMAIN regs' : regs'[x] \in Word
  BY Running1, Sets DEF Stored
<1>3. Have \subseteq Have'
  BY <1>2, HaveKept
<1>4. Makes(Current) \subseteq Have'
  BY <1>2 DEF Makes, Have
<1>5. Current.op \notin Terminators
  BY NotTerminators
<1>6. RunOK(A)'
  BY <1>1, <1>3, <1>4, <1>5, Running1, Proceeds
<1>7. Stored'
  BY <1>2, Running1 DEF Stored
<1> QED BY <1>1, <1>6, <1>7, Running1, Runs

LEMMA DoArithKeeps == ASSUME CodeInv, DoArith PROVE CodeInv'
<1>1. Running /\ runOnly /\ Current.op \in Operators /\ UNCHANGED counters
  BY DEF DoArith, Ready, Executing
<1>2. PICK n : n = Exact(Current.op, Value(Current.a), Value(Current.b))
  OBVIOUS
<1>3. CASE Ends("poison") /\ UNCHANGED regs
  BY <1>1, <1>3, Running1, Stops DEF Ends, Outcomes
<1>4. CASE n \in Word /\ NextInstr /\ regs' = Set(regs, Current.id, n) /\ UNCHANGED outcome
  BY <1>1, <1>4, Results
<1> QED BY <1>2, <1>3, <1>4 DEF DoArith, InWord

LEMMA DoPhiKeeps == ASSUME CodeInv, DoPhi PROVE CodeInv'
<1>1. /\ Running /\ runOnly /\ Current.op = "phi" /\ UNCHANGED counters /\ UNCHANGED outcome /\ NextInstr
      /\ regs' = Set(regs, Current.id, Value(Current.in[pc.from]))
      /\ \A v \in Operands : Defined(v)
  BY DEF DoPhi, Ready, Executing
<1>2. PICK A : Sound(ir, A, {}) /\ RunOK(A)
  BY <1>1, Running1
<1>3. Operands = {Current.in[pc.from]}
  <2>1. pc.from \in DOMAIN Current.in
    BY <1>1, <1>2, Executes
  <2>2. Operands = {IF pc.from \in DOMAIN Current.in THEN Current.in[pc.from] ELSE NullValue}
    BY <1>1, NotTerminators DEF Operands
  <2> QED BY <2>1, <2>2
<1>4. Value(Current.in[pc.from]) \in Word
  BY <1>1, <1>2, <1>3, Running1, OperandsKnown
<1> QED BY <1>1, <1>4, Results

LEMMA calc_readKeeps == ASSUME CodeInv, calc_read PROVE CodeInv'
<1>1. Running /\ runOnly /\ Current.op = "read" /\ UNCHANGED counters
  BY DEF calc_read, Ready, Executing
<1>2. CASE \E n \in Inputs : regs' = Set(regs, Current.id, n) /\ NextInstr /\ UNCHANGED outcome
  <2>1. PICK n \in Word : regs' = Set(regs, Current.id, n) /\ NextInstr /\ UNCHANGED outcome
    BY <1>2, InputsAssumption
  <2> QED BY <1>1, <2>1, Results
<1>3. CASE Ends("no input") /\ UNCHANGED regs
  BY <1>1, <1>3, Running1, Stops DEF Ends, Outcomes
<1> QED BY <1>2, <1>3 DEF calc_read

LEMMA DoSetKeeps == ASSUME CodeInv, DoSet PROVE CodeInv'
<1>1. /\ Running /\ runOnly /\ Current.op = "set" /\ UNCHANGED regs /\ UNCHANGED outcome /\ NextInstr
      /\ counters' = Set(counters, Current.id, Value(Current.a))
      /\ \A v \in Operands : Defined(v)
  BY DEF DoSet, Ready, Executing
<1>2. PICK A : Sound(ir, A, {}) /\ RunOK(A)
  BY <1>1, Running1
<1>3. Value(Current.a) \in Word
  <2>1. Operands = {Current.a}
    BY <1>1, NotTerminators DEF Operands
  <2> QED BY <1>1, <1>2, <2>1, Running1, OperandsKnown
<1>4. DOMAIN counters' = DOMAIN counters \cup {Current.id} /\ \A x \in DOMAIN counters' : counters'[x] \in Word
  BY <1>1, <1>3, Running1, Sets DEF Stored
<1>5. Have \subseteq Have'
  BY <1>1, <1>4, HaveKept
<1>6. Makes(Current) \subseteq Have'
  BY <1>1, <1>4, NotTerminators DEF Makes, Have
<1>7. Current.op \notin Terminators
  BY <1>1, NotTerminators
<1>8. RunOK(A)'
  BY <1>1, <1>2, <1>5, <1>6, <1>7, Running1, Proceeds
<1>9. Stored'
  BY <1>1, <1>4, Running1 DEF Stored
<1> QED BY <1>1, <1>2, <1>8, <1>9, Running1, Runs

LEMMA calc_writeKeeps == ASSUME CodeInv, calc_write PROVE CodeInv'
<1>1. Running /\ runOnly /\ Current.op = "write" /\ UNCHANGED <<regs, counters, outcome>> /\ NextInstr
  BY DEF calc_write, Ready, Executing
<1>2. PICK A : Sound(ir, A, {}) /\ RunOK(A)
  BY <1>1, Running1
<1>3. Have \subseteq Have'
  BY <1>1, HaveKept
<1>4. Makes(Current) \subseteq Have' /\ Current.op \notin Terminators
  BY <1>1, NotTerminators DEF Makes
<1>5. RunOK(A)'
  BY <1>1, <1>2, <1>3, <1>4, Running1, Proceeds
<1>6. Stored'
  BY <1>1, Running1 DEF Stored
<1> QED BY <1>1, <1>2, <1>5, <1>6, Running1, Runs

\* A terminator that goes on in one of its blocks.
LEMMA Leaves ==
  ASSUME CodeInv, Running, runOnly, NEW i \in {1, 2}, i \in DOMAIN Current.to, Jump(Current.to[i]),
         UNCHANGED <<regs, outcome>>, DOMAIN counters \subseteq DOMAIN counters', Stored'
  PROVE  CodeInv'
<1>1. PICK A : Sound(ir, A, {}) /\ RunOK(A)
  BY Running1
<1>2. PICK c \in ToSet(Current.to) : c = Current.to[i]
  BY DEF ToSet
<1>3. Have \subseteq Have'
  BY HaveKept
<1>4. RunOK(A)'
  BY <1>1, <1>2, <1>3, Running1, JumpsTo
<1> QED BY <1>1, <1>4, Running1, Runs

LEMMA DoBranchKeeps == ASSUME CodeInv, DoBranch PROVE CodeInv'
<1>1. /\ Running /\ runOnly /\ UNCHANGED <<regs, counters, outcome>>
      /\ Current.op \in {"br", "brzero"}
      /\ \E i \in {1, 2} : (Current.op = "br" => i = 1) /\ Jump(Current.to[i])
  BY DEF DoBranch, Ready, Executing
<1>2. PICK A : Sound(ir, A, {}) /\ RunOK(A)
  BY <1>1, Running1
<1>3. Shaped(Current)
  BY <1>2, Executes
<1>4. PICK i \in {1, 2} : i \in DOMAIN Current.to /\ Jump(Current.to[i])
  BY <1>1, <1>3 DEF Shaped
<1>5. Stored'
  BY <1>1, Running1 DEF Stored
<1> QED BY <1>1, <1>4, <1>5, Leaves

LEMMA DoWhileKeeps == ASSUME CodeInv, DoWhile PROVE CodeInv'
<1>1. Running /\ runOnly /\ UNCHANGED <<regs, outcome>> /\ Current.op = "while"
  BY DEF DoWhile, Ready, Executing
<1>2. PICK A : Sound(ir, A, {}) /\ RunOK(A)
  BY <1>1, Running1
<1>3. Shaped(Current) /\ Cell(Current.id) \in Have
  BY <1>1, <1>2, Executes, NotTerminators DEF Reads
<1>4. Current.id \in DOMAIN counters
  BY <1>3 DEF Have, Reg, Cell
<1>5. PICK n : n = Wrap(counters[Current.id] - 1)
  OBVIOUS
<1>6. n \in Word
  <2>1. counters[Current.id] \in Word
    BY <1>1, <1>4, Running1 DEF Stored
  <2>2. counters[Current.id] - 1 \in Int
    BY <2>1, WordAssumption DEF Word
  <2> QED BY <1>5, <2>2, Wraps
<1>7. counters' = Set(counters, Current.id, n) /\ Jump(Current.to[IF n > 1 THEN 1 ELSE 2])
  BY <1>5 DEF DoWhile
<1>8. PICK i \in {1, 2} : i \in DOMAIN Current.to /\ Jump(Current.to[i])
  BY <1>1, <1>3, <1>7 DEF Shaped
<1>9. DOMAIN counters' = DOMAIN counters \cup {Current.id} /\ \A x \in DOMAIN counters' : counters'[x] \in Word
  <2>1. PICK f, x : f = counters /\ x = Current.id
    OBVIOUS
  <2>2. \A y \in DOMAIN f : f[y] \in Word
    BY <1>1, <2>1, Running1 DEF Stored
  <2>3. DOMAIN Set(f, x, n) = DOMAIN f \cup {x} /\ \A y \in DOMAIN Set(f, x, n) : Set(f, x, n)[y] \in Word
    BY <1>6, <2>2, Sets
  <2> QED BY <1>7, <2>1, <2>3
<1>10. Stored'
  BY <1>1, <1>9, Running1 DEF Stored
<1> QED BY <1>1, <1>8, <1>9, <1>10, Leaves

LEMMA DoThrowKeeps == ASSUME CodeInv, DoThrow PROVE CodeInv'
<1>1. Running /\ runOnly /\ UNCHANGED <<regs, counters, outcome>> /\ Current.op = "throw" /\ Jump(Current.to[2])
  BY DEF DoThrow, Ready, Executing
<1>2. PICK A : Sound(ir, A, {}) /\ RunOK(A)
  BY <1>1, Running1
<1>3. 2 \in DOMAIN Current.to
  BY <1>1, <1>2, Executes DEF Shaped
<1>4. Stored'
  BY <1>1, Running1 DEF Stored
<1> QED BY <1>1, <1>3, <1>4, Leaves

LEMMA EndKeeps == ASSUME CodeInv, DoCatch \/ DoReturn PROVE CodeInv'
<1>1. Running /\ runOnly /\ UNCHANGED <<regs, counters, pc>> /\ outcome' \in {"divided by zero", "returned"}
  BY DEF DoCatch, DoReturn, Ready, Executing, Ends
<1> QED BY <1>1, Running1, Stops DEF Outcomes

(* The invariant of the whole compiler. *)

CalcInv == IInv /\ Bounds /\ CodeInv

LEMMA CalcInitially == ASSUME Init PROVE CalcInv
<1>1. IInv
  BY Initially
<1>2. Bounds
  <2>1. PICK p \in Patterns : \/ tok = EndOfInput /\ text = <<>>
                              \/ p # <<>> /\ tok \in Head(p) /\ text = Tail(p)
    BY DEF Init, ParserInit
  <2>2. p \in Seq(SUBSET STRING) /\ EndOfInput \in STRING
    BY PatternsAssumption
  <2>3. tok \in STRING /\ text \in Seq(SUBSET STRING)
    <3>1. CASE tok = EndOfInput /\ text = <<>>
      <4>1. <<>> \in Seq(SUBSET STRING)
        OBVIOUS
      <4>2. EndOfInput \in STRING
        BY <2>2
      <4> QED BY <3>1, <4>1, <4>2
    <3>2. CASE p # <<>> /\ tok \in Head(p) /\ text = Tail(p)
      <4>1. Head(p) \in SUBSET STRING /\ Tail(p) \in Seq(SUBSET STRING)
        BY <2>2, <3>2, HeadTailProperties
      <4> QED BY <3>2, <4>1
    <3> QED BY <2>1, <3>1, <3>2
  <2>4. /\ calls = << Frame("parseCalc", "start") >> /\ ret = 0 /\ nodes = <<>> /\ read = <<>>
        /\ tree = 0 /\ names = <<>>
    BY DEF Init, ParserInit, Null
  <2>5. TextOK
    BY <2>3, <2>4 DEF TextOK
  <2>6. Len(nodes) = 0 /\ DOMAIN nodes = {}
    BY <2>4
  <2>7. DOMAIN calls = {1} /\ calls[1].Left = 0
    BY <2>4 DEF Frame, Null
  <2> QED BY <2>4, <2>5, <2>6, <2>7 DEF Bounds, Lefts
<1>3. CodeInv
  <2>1. GenInit /\ RunInit
    BY DEF Init
  <2>2. regs = <<>> /\ counters = <<>>
    BY <2>1 DEF RunInit
  <2>3. Stored
    BY <2>2 DEF Stored
  <2>4. outcome = "none"
    BY <2>1 DEF RunInit
  <2>5. phase = "parse" /\ ir = [blocks |-> << <<>> >>, cur |-> 1, id |-> 0, lpad |-> Null]
    BY <2>1 DEF GenInit
  <2> QED BY <2>1, <2>3, <2>4, <2>5 DEF CodeInv, Outcomes
<1> QED BY <1>1, <1>2, <1>3 DEF CalcInv

LEMMA CodeUnchanged ==
  ASSUME CodeInv, UNCHANGED vars PROVE CodeInv'
<1>1. /\ UNCHANGED <<phase, visits, V, nameMap, ir>> /\ UNCHANGED <<pc, regs, counters, outcome, written>>
      /\ UNCHANGED <<nodes, names, tree>>
  BY DEF vars, genVars, runVars, parserVars
<1>2. outcome' \in Outcomes /\ Stored' /\ (RunInit => RunInit')
  BY <1>1 DEF CodeInv, Stored, RunInit
<1>3. WholeTree => WholeTree'
  BY <1>1 DEF WholeTree
<1>4. \A A : Generated(ir, A, visits, V) => Generated(ir, A, visits, V)'
  BY <1>1 DEF Generated, VisitsOK, VisitFrames, VisitFrame, Fits, Variables
<1>5. \A A : RunOK(A) => RunOK(A)'
  BY <1>1 DEF RunOK, Have, SourcesOf, AtEnd
<1>6. phase' = phase /\ ir' = ir /\ outcome' = outcome
  BY <1>1
<1>7. phase = "visit" => (\E A : Generated(ir, A, visits, V))'
  BY <1>4 DEF CodeInv
<1>8. phase = "run" => (\E A : Sound(ir, A, {}) /\ RunOK(A))'
  BY <1>5, <1>6 DEF CodeInv
<1> QED BY <1>2, <1>3, <1>6, <1>7, <1>8 DEF CodeInv

LEMMA CodeParsing ==
  ASSUME CodeInv, Parsing PROVE CodeInv'
<1>1. phase = "parse" /\ UNCHANGED <<phase, visits, V, nameMap, ir>>
      /\ UNCHANGED <<pc, regs, counters, outcome, written>>
  BY DEF Parsing, genVars, runVars
<1>2. outcome' \in Outcomes /\ Stored' /\ (RunInit => RunInit')
  BY <1>1 DEF CodeInv, Stored, RunInit
<1> QED BY <1>1, <1>2 DEF CodeInv

LEMMA BoundsUnchanged ==
  ASSUME Bounds, UNCHANGED parserVars PROVE Bounds'
  BY DEF Bounds, TextOK, Lefts, NodeBound, parserVars

LEMMA CalcStep == ASSUME CalcInv, [Next]_vars PROVE CalcInv'
<1>0. IInv /\ Bounds /\ CodeInv
  BY DEF CalcInv
<1>1. IInv'
  BY <1>0, Step
<1>2. CASE Parsing
  <2>1. Bounds'
    BY <1>0, <1>2, BoundsOfStep DEF Parsing
  <2> QED BY <1>0, <1>1, <1>2, <2>1, CodeParsing DEF CalcInv
<1>3. CASE Generating
  <2>1. UNCHANGED parserVars
    BY <1>3 DEF Generating, GenStep, VisitFactor, VisitLeft, VisitRight, VisitOperator, Main, EndMain, genOnly
  <2>2. GenStep /\ UNCHANGED runVars
    BY <1>3 DEF Generating
  <2>3. CodeInv'
    BY <1>0, <2>2, VisitFactorKeeps, VisitLeftKeeps, VisitRightKeeps, VisitOperatorKeeps, MainKeeps,
       EndMainKeeps DEF GenStep
  <2> QED BY <1>0, <1>1, <2>1, <2>3, BoundsUnchanged DEF CalcInv
<1>4. CASE MachineStep
  <2>1. UNCHANGED parserVars
    BY <1>4 DEF MachineStep, Stuck, DoArith, DoPhi, DoSet, DoBranch, DoWhile, DoThrow, DoCatch, DoReturn,
       calc_write, calc_read, runOnly
  <2>2. CodeInv'
    BY <1>0, <1>4, StuckKeeps, DoArithKeeps, DoPhiKeeps, DoSetKeeps, DoBranchKeeps, DoWhileKeeps,
       DoThrowKeeps, EndKeeps, calc_writeKeeps, calc_readKeeps DEF MachineStep
  <2> QED BY <1>0, <1>1, <2>1, <2>2, BoundsUnchanged DEF CalcInv
<1>5. CASE Halt \/ UNCHANGED vars
  <2>1. UNCHANGED vars /\ UNCHANGED parserVars
    BY <1>5 DEF Halt, vars
  <2> QED BY <1>0, <1>1, <2>1, CodeUnchanged, BoundsUnchanged DEF CalcInv
<1> QED BY <1>2, <1>3, <1>4, <1>5 DEF Next

(* What follows from it. *)

\* Only the last instruction of a block goes on to others.
LEMMA LastGoes ==
  ASSUME NEW block \in Seq(Instrs), Terminated(block), \A i \in DOMAIN block : Shaped(block[i])
  PROVE  Goes(block) = ToSet(Last(block).to)
<1>1. PICK n : n = Len(block)
  OBVIOUS
<1>2. n \in Nat \ {0} /\ DOMAIN block = 1..n /\ n \in 1..n /\ Last(block) = block[n]
  <2>1. block # <<>>
    BY DEF Terminated
  <2> QED BY <1>1, <2>1, BlockTyped DEF Last
<1>3. \A i \in 1..n : i # n => block[i].to = <<>>
  BY <1>1, <1>2 DEF Terminated, Shaped
<1>4. ASSUME NEW c \in Goes(block) PROVE c \in ToSet(block[n].to)
  <2>1. PICK i \in 1..n : c \in ToSet(block[i].to)
    BY <1>2, <1>4, Membership
  <2>2. i = n
    BY <1>3, <2>1, Targets
  <2> QED BY <2>1, <2>2
<1>5. ASSUME NEW c \in ToSet(block[n].to) PROVE c \in Goes(block)
  BY <1>2, <1>5, Membership
<1> QED BY <1>2, <1>4, <1>5

LEMMA WellFormedHolds == ASSUME CalcInv PROVE WellFormed
<1>1. SUFFICES ASSUME phase = "run" PROVE
    /\ \A b \in DOMAIN ir.blocks :
         /\ Terminated(ir.blocks[b])
         /\ \A i \in DOMAIN ir.blocks[b] :
              ir.blocks[b][i].op = "phi" => DOMAIN ir.blocks[b][i].in = Sources(b)
    /\ \A b, c \in DOMAIN ir.blocks :
         ir.blocks[b][1].op = "catch" /\ ir.blocks[c][1].op = "catch" => b = c
  BY DEF WellFormed
<1>2. PICK A : Sound(ir, A, {})
  BY <1>1 DEF CalcInv, CodeInv
<1>3. /\ ir \in Builders /\ DOMAIN ir.blocks = 1..Size(ir)
      /\ \A b \in 1..Size(ir) : ir.blocks[b] \in Seq(Instrs)
  <2>1. ir \in Builders
    BY <1>2 DEF Sound
  <2> QED BY <2>1, BuilderTyped
<1>4. \A b \in 1..Size(ir) : BlockOK(ir, A, b, {})
  BY <1>2 DEF Sound
<1>5. ASSUME NEW b \in 1..Size(ir)
      PROVE  /\ Terminated(ir.blocks[b])
             /\ \A i \in DOMAIN ir.blocks[b] : InstrAt(ir, A, b, A[b], ir.blocks[b], i)
             /\ \A i \in DOMAIN ir.blocks[b] : Shaped(ir.blocks[b][i])
             /\ 1 \in DOMAIN ir.blocks[b]
  <2>1. Terminated(ir.blocks[b]) /\ \A i \in DOMAIN ir.blocks[b] : InstrAt(ir, A, b, A[b], ir.blocks[b], i)
    BY <1>4, <1>5 DEF BlockOK
  <2>2. PICK block \in Seq(Instrs) : block = ir.blocks[b]
    BY <1>3, <1>5
  <2>3. 1 \in DOMAIN block
    <3>1. block # <<>> /\ Len(block) \in Nat /\ DOMAIN block = 1..Len(block)
      BY <2>1, <2>2, BlockTyped DEF Terminated
    <3> QED BY <3>1
  <2> QED BY <2>1, <2>2, <2>3 DEF InstrAt
<1>6. ASSUME NEW b \in 1..Size(ir) PROVE Sources(b) = SourcesOf(ir, b)
  <2>1. \A p \in 1..Size(ir) : Goes(ir.blocks[p]) = ToSet(Last(ir.blocks[p]).to) /\ ir.blocks[p] # <<>>
    BY <1>3, <1>5, LastGoes DEF Terminated
  <2> QED BY <1>3, <2>1 DEF Sources, SourcesOf
<1>7. ASSUME NEW b \in 1..Size(ir), NEW i \in DOMAIN ir.blocks[b], ir.blocks[b][i].op = "phi"
      PROVE  DOMAIN ir.blocks[b][i].in = Sources(b)
  <2>1. InstrAt(ir, A, b, A[b], ir.blocks[b], i)
    BY <1>5, <1>7
  <2> QED BY <1>6, <1>7, <2>1 DEF InstrAt
<1>8. ASSUME NEW b \in 1..Size(ir), ir.blocks[b][1].op = "catch" PROVE b = ir.lpad
  <2>1. InstrAt(ir, A, b, A[b], ir.blocks[b], 1)
    BY <1>5, <1>8
  <2> QED BY <1>8, <2>1 DEF InstrAt
<1> QED BY <1>3, <1>5, <1>7, <1>8

LEMMA TypeHolds == ASSUME CalcInv PROVE TypeOK
<1>1. /\ tok \in STRING /\ read \in Seq(STRING) /\ names \in Seq(Idents)
      /\ ret \in 0..Len(nodes) /\ tree \in 0..Len(nodes)
      /\ \A k \in DOMAIN calls : calls[k].Left \in 0..Len(nodes)
      /\ \A i \in DOMAIN nodes : Children(nodes[i]) \subseteq 0..i - 1
  BY DEF CalcInv, Bounds, TextOK, Lefts, NodeBound
<1>2. HasError \in BOOLEAN
  BY DEF CalcInv, IInv, Typed
<1>3. /\ phase \in {"parse", "visit", "run", "rejected"} /\ outcome \in Outcomes
      /\ \A x \in DOMAIN regs : InWord(regs[x])
      /\ \A x \in DOMAIN counters : InWord(counters[x])
  BY DEF CalcInv, CodeInv, Stored, InWord
<1>4. ASSUME NEW A, NEW open, Sound(ir, A, open)
      PROVE  /\ ir.cur \in DOMAIN ir.blocks /\ ir.lpad \in 0..Len(ir.blocks) /\ 1 \in DOMAIN ir.blocks
             /\ DOMAIN ir.blocks = 1..Size(ir)
  <2>1. /\ ir \in Builders /\ ir.cur \in 1..Size(ir) /\ 1 \in 1..Size(ir)
        /\ (ir.lpad # 0 => ir.lpad \in 1..Size(ir))
    BY <1>4 DEF Sound, PadOK, Null
  <2>2. Size(ir) \in Nat /\ DOMAIN ir.blocks = 1..Size(ir)
    BY <2>1, BuilderTyped
  <2>3. ir.lpad \in 0..Size(ir)
    BY <2>1, <2>2
  <2> QED BY <2>1, <2>2, <2>3 DEF Size
<1>5. /\ ir.cur \in DOMAIN ir.blocks /\ ir.lpad \in 0..Len(ir.blocks)
      /\ pc.block \in DOMAIN ir.blocks
  <2>1. phase # "run" => pc.block = 1
    BY DEF CalcInv, CodeInv, RunInit
  <2>2. CASE phase \in {"parse", "rejected"}
    <3>1. PICK q, bs : q = <<>> /\ bs = << q >>
      OBVIOUS
    <3>2. ir = [blocks |-> bs, cur |-> 1, id |-> 0, lpad |-> Null]
      BY <2>2, <3>1 DEF CalcInv, CodeInv
    <3>3. DOMAIN bs = {1} /\ Len(bs) = 1
      BY <3>1
    <3>4. ir.blocks = bs /\ ir.cur = 1 /\ ir.lpad = 0
      BY <3>2 DEF Null
    <3>5. 0 \in 0..1 /\ pc.block = 1
      BY <2>1, <2>2
    <3> QED BY <3>3, <3>4, <3>5
  <2>3. CASE phase = "visit"
    <3>1. PICK A : Sound(ir, A, {ir.cur})
      BY <2>3 DEF CalcInv, CodeInv, Generated
    <3> QED BY <1>4, <2>1, <2>3, <3>1
  <2>4. CASE phase = "run"
    <3>1. PICK A : Sound(ir, A, {}) /\ RunOK(A)
      BY <2>4 DEF CalcInv, CodeInv
    <3>2. pc.block \in 1..Size(ir)
      BY <3>1 DEF RunOK
    <3> QED BY <1>4, <3>1, <3>2
  <2> QED BY <1>3, <2>2, <2>3, <2>4
<1> QED BY <1>1, <1>2, <1>3, <1>5 DEF TypeOK, Outcomes

\* The invariant of the compiler and of the program it emits (CodeGen.cpp:50-341).
THEOREM CalcInvariant == Spec => []CalcInv
<1> QED BY CalcInitially, CalcStep, PTL DEF Spec

\* Type correctness of the compiler and of the program it emits, for every text and
\* every input: the insertion point and the landing pad are blocks of main, the Exprs are
\* trees whose operands are older than they are, and what a register or a counter holds
\* is an i32 (CodeGen.cpp:50-341, rtcalc.cpp).
THEOREM CalcTyped == Spec => []TypeOK
<1> QED BY CalcInvariant, TypeHolds, PTL

\* The main that calc emits is well formed, whatever the tree and the operators in it,
\* although calc runs no verifier: every block ends in its only terminator, the phis of an
\* exponent's loop (CodeGen.cpp:259-334) have an operand for each block that branches to
\* theirs and no other, also when the operands themselves have moved the insertion point,
\* and all the checks of divisors share one landing pad (CodeGen.cpp:386, 466).
THEOREM ProgramsWellFormed == Spec => []WellFormed
<1> QED BY CalcInvariant, WellFormedHolds, PTL

\* No run of the program reads a value that its path has not computed, or the null value
\* that nameMap gives a name nobody declared (CodeGen.cpp:127-142): each value is computed
\* on every path to its use, through the blocks that a division and an exponent add.
THEOREM NothingUndefined == Spec => []DefinedBeforeUse
<1>1. ASSUME CalcInv PROVE DefinedBeforeUse
  BY <1>1 DEF CalcInv, CodeInv, Outcomes, DefinedBeforeUse
<1> QED BY <1>1, CalcInvariant, PTL

=============================================================================
