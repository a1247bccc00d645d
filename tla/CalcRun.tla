------------------------------- MODULE CalcRun ------------------------------
(***************************************************************************)
(* The compiler calc with the program it has emitted, run: main goes through   *)
(* the instructions of ir one at a time.  calc_read and calc_write            *)
(* (calc/rtcalc.cpp) are its environment.                                    *)
(*                                                                         *)
(* A result that does not fit an int is poison: from there on nothing is said  *)
(* of the run (outcome "poison").                                            *)
(***************************************************************************)
EXTENDS CalcGen

CONSTANT Inputs         \* what calc_read may return

ASSUME InputsAssumption == Inputs \subseteq Word

VARIABLES pc,         \* block, position and the block control came from
          regs,       \* what the instructions executed so far hold
          counters,   \* the counters of the loops, in memory
          outcome,    \* "none" until main returns, throws, exits or is undefined
          written     \* what calc_write was given

runVars == <<pc, regs, counters, outcome, written>>
vars == <<parserVars, genVars, runVars>>

(* The machine. *)

Running == phase = "run" /\ outcome = "none"
Current == ir.blocks[pc.block][pc.i]
Executing(ops) == Running /\ Current.op \in ops

InWord(n) == n \in Word
Defined(v) == v.kind = "const" \/ (v.kind = "inst" /\ v.id \in DOMAIN regs)
Value(v) == IF v.kind = "const" THEN v.n ELSE regs[v.id]

Set(f, x, n) == [y \in DOMAIN f \cup {x} |-> IF y = x THEN n ELSE f[y]]

NextInstr == pc' = [pc EXCEPT !.i = @ + 1]
Jump(b) == pc' = [block |-> b, i |-> 1, from |-> pc.block]
Ends(how) == outcome' = how /\ UNCHANGED pc

runOnly == UNCHANGED <<parserVars, genVars>>

\* What the instruction reads.  A phi reads the value for the block control came from.
Operands ==
  CASE Current.op = "phi" ->
         {IF pc.from \in DOMAIN Current.in THEN Current.in[pc.from] ELSE NullValue}
    [] Current.op \in Operators -> {Current.a, Current.b}
    [] Current.op \in {"brzero", "set", "write"} -> {Current.a}
    [] OTHER -> {}

\* An operand that is poison, null or was not executed.
Stuck == /\ Running /\ \E v \in Operands : ~Defined(v)
         /\ Ends(IF Poison \in Operands THEN "poison" ELSE "undefined")
         /\ runOnly /\ UNCHANGED <<regs, counters, written>>

Ready(ops) == Executing(ops) /\ \A v \in Operands : Defined(v)

\* Undefined arithmetic stops the run as poison does.
DoArith ==
  /\ Ready(Operators)
  /\ LET a == Value(Current.a)
         b == Value(Current.b)
         n == Exact(Current.op, a, b)
     IN  IF Undefined(Current.op, a, b) \/ ~InWord(n)
           THEN Ends("poison") /\ UNCHANGED regs
           ELSE NextInstr /\ regs' = Set(regs, Current.id, n) /\ UNCHANGED outcome
  /\ runOnly /\ UNCHANGED <<counters, written>>

DoPhi ==
  /\ Ready({"phi"})
  /\ regs' = Set(regs, Current.id, Value(Current.in[pc.from]))
  /\ NextInstr /\ runOnly /\ UNCHANGED <<counters, outcome, written>>

DoSet ==
  /\ Ready({"set"})
  /\ counters' = Set(counters, Current.id, Value(Current.a))
  /\ NextInstr /\ runOnly /\ UNCHANGED <<regs, outcome, written>>

DoBranch ==
  /\ \/ Ready({"br"}) /\ Jump(Current.to[1])
     \/ Ready({"brzero"}) /\ Jump(Current.to[IF Value(Current.a) = 0 THEN 1 ELSE 2])
  /\ runOnly /\ UNCHANGED <<regs, counters, outcome, written>>

\* The counter is decreased, without a check of overflow, and tested.
DoWhile ==
  /\ Ready({"while"})
  /\ LET newCount == Wrap(counters[Current.id] - 1)
     IN  /\ counters' = Set(counters, Current.id, newCount)
         /\ Jump(Current.to[IF newCount > 1 THEN 1 ELSE 2])
  /\ runOnly /\ UNCHANGED <<regs, outcome, written>>

\* __cxa_throw does not return.
DoThrow == /\ Ready({"throw"}) /\ Jump(Current.to[2])
           /\ runOnly /\ UNCHANGED <<regs, counters, outcome, written>>

\* Behind the landing pad the message is put out and main returns.
DoCatch == /\ Ready({"catch"}) /\ Ends("divided by zero")
           /\ runOnly /\ UNCHANGED <<regs, counters, written>>

DoReturn == /\ Ready({"ret"}) /\ Ends("returned")
            /\ runOnly /\ UNCHANGED <<regs, counters, written>>

calc_write == /\ Ready({"write"}) /\ written' = Append(written, Value(Current.a))
              /\ NextInstr /\ runOnly /\ UNCHANGED <<regs, counters, outcome>>

\* The text may be no number, and val then holds anything; at the end of the input
\* the program exits.
calc_read ==
  /\ Ready({"read"})
  /\ \/ \E n \in Inputs : regs' = Set(regs, Current.id, n) /\ NextInstr /\ UNCHANGED outcome
     \/ Ends("no input") /\ UNCHANGED regs
  /\ runOnly /\ UNCHANGED <<counters, written>>

MachineStep ==
  \/ Stuck \/ DoArith \/ DoPhi \/ DoSet \/ DoBranch \/ DoWhile \/ DoThrow \/ DoCatch
  \/ DoReturn \/ calc_write \/ calc_read

RunInit == /\ pc = [block |-> 1, i |-> 1, from |-> 0] /\ regs = <<>> /\ counters = <<>>
           /\ outcome = "none" /\ written = <<>>

Init == ParserInit /\ GenInit /\ RunInit

Parsing == phase = "parse" /\ ParserStep /\ UNCHANGED <<genVars, runVars>>
Generating == GenStep /\ UNCHANGED runVars

\* The compiler has given up, or the program has ended.
Halt == /\ phase = "rejected" \/ outcome # "none"
        /\ UNCHANGED vars

Next == Parsing \/ Generating \/ MachineStep \/ Halt

Spec == Init /\ [][Next]_vars /\ WF_vars(Next)

(* What the text means. *)

\* The value of a node, the first division by zero met from left to right, or beyond
\* what is said here: a result that is no int, a negative exponent.
Num(n) == [is |-> "number", n |-> n]
ByZero == [is |-> "divided by zero"]
Beyond == [is |-> "beyond"]

InRange(n) == IF InWord(n) THEN Num(n) ELSE Beyond

Power(a, n) ==
  LET power[k \in 0..n] ==
        IF k = 0 THEN Num(1)
        ELSE IF power[k - 1] = Beyond THEN Beyond ELSE InRange(power[k - 1].n * a)
  IN  power[n]

Apply(op, a, b) ==
  CASE op \in {"+", "-", "*"} -> InRange(Exact(op, a, b))
    [] op \in {"/", "%"} -> IF b = 0 THEN ByZero
                           ELSE IF Undefined(op, a, b) THEN Beyond ELSE Num(Exact(op, a, b))
    [] op = "^" -> IF b < 0 THEN Beyond ELSE Power(a, b)

Meaning ==
  LET given(x) == regs[CHOOSE k \in DOMAIN names : names[k] = x]
      meaning[i \in DOMAIN nodes] ==
        CASE nodes[i].op = "number" -> InRange(Literal(nodes[i].val))
          [] nodes[i].op = "ident" -> Num(given(nodes[i].val))
          [] nodes[i].op \in Operators ->
               LET l == meaning[nodes[i].left]
                   r == meaning[nodes[i].right]
               IN  IF l.is # "number" THEN l
                   ELSE IF r.is # "number" THEN r
                   ELSE Apply(nodes[i].op, l.n, r.n)
  IN  meaning

\* The generator knows the value of a node.
Known ==
  LET known[i \in DOMAIN nodes] ==
        CASE nodes[i].op = "number" -> TRUE
          [] nodes[i].op = "ident" -> FALSE
          [] nodes[i].op \in Operators \ {"^"} -> known[nodes[i].left] /\ known[nodes[i].right]
          [] nodes[i].op = "^" ->
               /\ known[nodes[i].right]
               /\ LET r == Meaning[nodes[i].right]
                  IN  r = Num(0) \/ (r \in {Num(n) : n \in 1..9} /\ known[nodes[i].left])
  IN  known

\* An exponent of 1 that only the emitted code can see, see PowersRight.
RunTimeOne ==
  \E i \in DOMAIN nodes : /\ nodes[i].op = "^" /\ ~Known[nodes[i].right]
                         /\ Meaning[nodes[i].right] = Num(1)

(* Properties. *)

TypeOK ==
  /\ tok \in STRING /\ read \in Seq(STRING) /\ names \in Seq(Idents)
  /\ HasError \in BOOLEAN /\ ret \in 0..Len(nodes) /\ tree \in 0..Len(nodes)
  /\ \A k \in DOMAIN calls : calls[k].Left \in 0..Len(nodes)
  /\ \A i \in DOMAIN nodes : Children(nodes[i]) \subseteq 0..i - 1
  /\ phase \in {"parse", "visit", "run", "rejected"}
  /\ ir.cur \in DOMAIN ir.blocks /\ ir.lpad \in 0..Len(ir.blocks)
  /\ pc.block \in DOMAIN ir.blocks
  /\ \A x \in DOMAIN regs : InWord(regs[x])
  /\ \A x \in DOMAIN counters : InWord(counters[x])
  /\ outcome \in {"none", "returned", "divided by zero", "no input", "poison", "undefined"}

\* A text without a syntax error has a tree without a hole: each path of parseFactor
\* that returns null has reported an error, the one that falls through included.
Accepted == calls = <<>> /\ ~HasError

TreesWhole == Accepted => tree # Null /\ \A i \in DOMAIN nodes : Null \notin Children(nodes[i])

\* The tree has, in their order, the operands and operators of the text that the
\* functions have taken: none is dropped, doubled or exchanged.  What the loop behind a
\* factor skips (Parser.cpp:156) is not among them.
Spelling ==
  LET spelling[i \in DOMAIN nodes] ==
        IF nodes[i].op \in Operators
          THEN spelling[nodes[i].left] \o <<nodes[i].op>> \o spelling[nodes[i].right]
          ELSE <<nodes[i].val>>
  IN  spelling

Expression ==
  LET clause == IF names = <<>> THEN 0 ELSE 2 * Len(names) + 1
  IN  SelectSeq(SubSeq(read, clause + 1, Len(read)), LAMBDA t : t \notin {"(", ")"})

NothingLost == Accepted => Spelling[tree] = Expression

\* Without parentheses: sums group from the left and hold terms, products group from
\* the left and hold factors, an exponent is the rest of its term.
Precedence ==
  Accepted /\ (\A k \in DOMAIN read : read[k] # "(") =>
    \A i \in DOMAIN nodes : nodes[i].op \in Operators =>
      LET l == nodes[nodes[i].left].op
          r == nodes[nodes[i].right].op
      IN  /\ r \notin AddOperators
          /\ nodes[i].op \in MulOperators => l \notin AddOperators
          /\ nodes[i].op \in {"*", "/", "%"} => r \notin Operators

\* The program is one LLVM accepts, which nothing verifies: every block ends with its
\* only terminator, a phi has a value for each predecessor and no other block, and all
\* divisions share one landing pad.
Sources(b) ==
  {p \in DOMAIN ir.blocks : ir.blocks[p] # <<>> /\ b \in ToSet(Last(ir.blocks[p]).to)}

Terminated(block) ==
  /\ block # <<>>
  /\ \A i \in DOMAIN block : block[i].op \in Terminators <=> i = Len(block)

WellFormed ==
  phase = "run" =>
    /\ \A b \in DOMAIN ir.blocks :
         /\ Terminated(ir.blocks[b])
         /\ \A i \in DOMAIN ir.blocks[b] :
              ir.blocks[b][i].op = "phi" => DOMAIN ir.blocks[b][i].in = Sources(b)
    /\ \A b, c \in DOMAIN ir.blocks :
         ir.blocks[b][1].op = "catch" /\ ir.blocks[c][1].op = "catch" => b = c

\* No path of the program reads what it has not computed, or the null value of a name
\* that the check of declarations has not seen.
DefinedBeforeUse == outcome # "undefined"

\* The program writes the value of the expression, once, and returns; it stops with the
\* message, and writes nothing, if and only if it divides by zero.  A run is left
\* undescribed only where the meaning is.
Computes ==
  outcome \in {"returned", "divided by zero", "poison"} /\ ~RunTimeOne =>
    CASE Meaning[tree].is = "number" -> outcome = "returned" /\ written = <<Meaning[tree].n>>
      [] Meaning[tree] = ByZero -> outcome = "divided by zero" /\ written = <<>>
      [] OTHER -> TRUE

\* Whatever the text and the input, calc ends, and so does the program it emits.
CalcEnds == <>(phase = "rejected" \/ outcome # "none")

\* CodeGen.cpp:199: an exponent is a loop of multiplications; and of an exponent of 1
\* the generator says that the result is the base (line 219).
PowersRight ==
  outcome = "returned" /\ Meaning[tree].is = "number" => written = <<Meaning[tree].n>>
=============================================================================
