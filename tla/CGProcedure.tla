------------------------------ MODULE CGProcedure ------------------------------
(***************************************************************************)
(* Emission of one procedure (tinylang/lib/CodeGen/CGProcedure.cpp:         *)
(* 146-206, 286-654).  The driver walks the statements of the procedure,    *)
(* creates blocks and branches, and asks SSAConstruction for the values of  *)
(* the variables; sealBlock is called where the source calls it.            *)
(*                                                                         *)
(* The program is chosen while it is emitted: the statement at position i   *)
(* is any member of Menu[i], and the first statement of an ELSE part any    *)
(* member of ElseMenu.  A statement is a record                             *)
(*   [kind, dst, reads, els]                                                *)
(* with kind "const" (dst := literal), "copy" (dst := variable), "op"       *)
(* (dst := expression with operators), "if", "while", "return" or "end"     *)
(* (closes the innermost IF or WHILE); reads are the variables the          *)
(* expression mentions, in evaluation order; els says that an IF has an     *)
(* ELSE part, of one statement at least (HasElse).                          *)
(***************************************************************************)
EXTENDS SSAConstruction

CONSTANTS
  Storage,    \* Vars -> "local", "value" (parameter), "var" (parameter), "global"
  Menu,       \* sequence of sets of statements
  ElseMenu    \* the statements an ELSE part may begin with

VARIABLES
  pc,      \* "fetch", "operands", "seal" or "done"
  curr,    \* Curr
  ctl,     \* the IF and WHILE statements being emitted, innermost last
  pos,     \* position of the next statement
  stmt,    \* the statement being emitted or, after EndThen, to be begun; or NoStmt
  vals,    \* the values its operands have been given so far
  sealq,   \* the blocks the statement still has to seal
  next     \* the argument of the setCurr that follows, or NoBlock

driverVars == <<pc, curr, ctl, pos, stmt, vals, sealq, next>>
vars == <<ssaVars, driverVars>>

NoStmt == [kind |-> "none"]
StorageKinds == {"local", "value", "var", "global"}
InRegister(v) == Storage[v] \in {"local", "value"}
Parameters == {v \in Vars : Storage[v] \in {"value", "var"}}

SimpleKinds == {"const", "copy", "op", "return"}
Statements ==
  [kind : SimpleKinds \ {"copy"}, dst : Vars \cup {None}, reads : Seq(Vars),
   els : {FALSE}]
  \cup [kind : {"copy"}, dst : Vars, reads : {<<v>> : v \in Vars}, els : {FALSE}]
  \cup [kind : {"if", "while", "end"}, dst : {None}, reads : Seq(Vars), els : BOOLEAN]

ASSUME StorageAssumption == Storage \in [Vars -> StorageKinds]
ASSUME MenuAssumption == Menu \in Seq(SUBSET Statements)
ASSUME ElseAssumption ==
  /\ ElseMenu # {} /\ ElseMenu \subseteq Statements
  /\ \A s \in ElseMenu : s.kind # "end"

Init ==
  /\ preds = << <<>> >>
  /\ code = << <<>> >>
  /\ phis = <<>> /\ users = <<>> /\ fresh = 1
  /\ defs = << [v \in Parameters |-> Arg(v)] >>
  /\ incomplete = << {} >>
  /\ sealed = {} /\ sealing = NoBlock /\ visited = {}
  /\ calls = <<>> /\ ret = None /\ status = "run"
  /\ pc = "fetch" /\ curr = 1 /\ ctl = <<>> /\ pos = 1
  /\ stmt = NoStmt /\ vals = <<>> /\ sealq = <<>> /\ next = NoBlock

-----------------------------------------------------------------------------
(* Blocks and instructions.                                                 *)

NewBlock(i) == Len(preds) + i

\* n blocks are created, then a branch from the current block adds the edges to
\* the blocks in "to".
Grow(n, to) ==
  LET all    == 1 .. Len(preds) + n
      old(b) == IF b \in Blocks THEN preds[b] ELSE <<>>
  IN  /\ preds' = [b \in all |-> IF b \in to THEN <<curr>> \o old(b) ELSE old(b)]
      /\ defs' = [b \in all |-> IF b \in Blocks THEN defs[b] ELSE <<>>]
      /\ incomplete' = [b \in all |-> IF b \in Blocks THEN incomplete[b] ELSE {}]

\* res is the value the instruction defines, or None.
Instr(kind, dst, rs, vs, to) ==
  [kind |-> kind, dst |-> dst, reads |-> rs, vals |-> vs, res |-> None, to |-> to]
Branch(to) == Instr("br", None, <<>>, <<>>, <<to>>)

\* The code of the function after n blocks are created and es is appended to the
\* current block, where the builder's insert point is.
Emit(es, n) ==
  code' = [b \in 1 .. Len(preds) + n |->
             IF b = curr THEN code[b] \o es ELSE IF b \in Blocks THEN code[b] ELSE <<>>]

\* sealBlock on each of bs, then setCurr(b).
SealThen(bs, b) == pc' = "seal" /\ sealq' = bs /\ next' = b

-----------------------------------------------------------------------------
(* The start of a statement.  A frame of ctl names the blocks the IF or     *)
(* WHILE has not entered yet, and the block of the condition of a WHILE     *)
(* once its body is entered; NoBlock stands for the others.                 *)

At(where) == Idle /\ sealing = NoBlock /\ pc = where

\* The statements that can come next, of these kinds.
Offered(kinds) ==
  IF ~ At("fetch") THEN {}
  ELSE IF stmt # NoStmt THEN {s \in {stmt} : s.kind \in kinds}
  ELSE IF pos <= Len(Menu) THEN {s \in Menu[pos] : s.kind \in kinds}
  ELSE {}

Fetch(s) ==
  /\ pos' = IF stmt = NoStmt THEN pos + 1 ELSE pos
  /\ stmt' = s
  /\ vals' = <<>>

BeginSimple ==
  /\ \E s \in Offered({"const", "copy", "op", "return"}) : Fetch(s)
  /\ pc' = "operands"
  /\ UNCHANGED <<ssaVars, curr, ctl, sealq, next>>

BeginIf ==
  /\ \E s \in Offered({"if"}) :
       /\ Fetch(s)
       /\ LET n == IF s.els THEN 3 ELSE 2
          IN  /\ ctl' = Append(ctl, [kind |-> "then", body |-> NewBlock(1),
                          els |-> IF s.els THEN NewBlock(2) ELSE NoBlock,
                          cond |-> NoBlock, after |-> NewBlock(n)])
              /\ Grow(n, {}) /\ Emit(<<>>, n)
  /\ pc' = "operands"
  /\ UNCHANGED <<phis, users, fresh, sealed, sealing, visited, calls, ret, status,
                 curr, sealq, next>>

WhileFrame ==
  [kind |-> "while", body |-> NewBlock(1), els |-> NoBlock, cond |-> NoBlock,
   after |-> NewBlock(2)]

\* An empty current block becomes the block of the condition.
BeginWhileReusing ==
  /\ \E s \in Offered({"while"}) : Fetch(s)
  /\ Empty(curr)
  /\ ctl' = Append(ctl, WhileFrame)
  /\ Grow(2, {}) /\ Emit(<<>>, 2)
  /\ pc' = "operands"
  /\ UNCHANGED <<phis, users, fresh, sealed, sealing, visited, calls, ret, status,
                 curr, sealq, next>>

\* Faulty variant: the condition is emitted into the block that was sealed.
BeginWhileStaying ==
  /\ \E s \in Offered({"while"}) : Fetch(s)
  /\ ~ Empty(curr)
  /\ ctl' = Append(ctl, WhileFrame)
  /\ Grow(3, {NewBlock(3)}) /\ Emit(<<Branch(NewBlock(3))>>, 3)
  /\ SealThen(<<curr>>, curr)
  /\ UNCHANGED <<phis, users, fresh, sealed, sealing, visited, calls, ret, status,
                 curr>>

BeginWhile ==
  /\ \E s \in Offered({"while"}) : Fetch(s)
  /\ ~ Empty(curr)
  /\ ctl' = Append(ctl, WhileFrame)
  /\ Grow(3, {NewBlock(3)}) /\ Emit(<<Branch(NewBlock(3))>>, 3)
  /\ SealThen(<<curr>>, NewBlock(3))
  /\ UNCHANGED <<phis, users, fresh, sealed, sealing, visited, calls, ret, status,
                 curr>>

-----------------------------------------------------------------------------
(* Operands.  vals holds raw pointers: no handle follows them.              *)

NextOperand == stmt.reads[Len(vals) + 1]
Wanted == At("operands") /\ ret = None /\ Len(vals) < Len(stmt.reads)

ReadLocal ==
  /\ Wanted
  /\ InRegister(NextOperand)
  /\ calls' = <<ReadCall(curr, NextOperand)>>
  /\ UNCHANGED <<irVars, defs, incomplete, sealed, sealing, visited, ret, status,
                 driverVars>>

TakeOperand ==
  /\ At("operands")
  /\ ret # None
  /\ vals' = Append(vals, ret)
  /\ ret' = None
  /\ UNCHANGED <<irVars, defs, incomplete, sealed, sealing, visited, calls, status,
                 pc, curr, ctl, pos, stmt, sealq, next>>

\* Globals and VAR parameters live in memory.
LoadMemory ==
  /\ Wanted
  /\ ~ InRegister(NextOperand)
  /\ vals' = Append(vals, Ins(fresh))
  /\ Emit(<<[Instr("load", None, <<>>, <<>>, <<>>) EXCEPT !.res = Ins(fresh)]>>, 0)
  /\ fresh' = fresh + 1
  /\ UNCHANGED <<preds, phis, users, defs, incomplete, sealed, sealing, visited,
                 calls, ret, status, pc, curr, ctl, pos, stmt, sealq, next>>

-----------------------------------------------------------------------------
(* The end of a statement, once its operands are known.                     *)

Complete(kinds) ==
  /\ At("operands")
  /\ ret = None
  /\ stmt.kind \in kinds
  /\ Len(vals) = Len(stmt.reads)

\* What the expression evaluates to: IRBuilder folds operations on constants.
Results ==
  IF stmt.kind = "const" THEN {Lit(k) : k \in Literals}
  ELSE IF stmt.kind = "copy" THEN {vals[1]}
  ELSE IF \A i \in DOMAIN vals : vals[i] \in Constants THEN Constants
  ELSE {Ins(fresh)}

\* A folded expression emits no instruction, like a literal.
AssignCode(val) ==
  LET kind == IF stmt.kind = "op" /\ val \in Constants THEN "const" ELSE stmt.kind
  IN  [Instr(kind, stmt.dst, stmt.reads, vals, <<>>) EXCEPT
         !.res = IF kind = "copy" THEN None ELSE val]

NextStatement == pc' = "fetch" /\ stmt' = NoStmt /\ vals' = <<>>

AssignLocal ==
  /\ Complete({"const", "copy", "op"})
  /\ InRegister(stmt.dst)
  /\ \E val \in Results :
       /\ Emit(<<AssignCode(val)>>, 0)
       /\ IF WriteAsserts(val) THEN WriteLocalVariable(curr, stmt.dst, val)
                                    /\ UNCHANGED status
          ELSE status' = "abort" /\ UNCHANGED defs
  /\ fresh' = fresh + 1
  /\ NextStatement
  /\ UNCHANGED <<preds, phis, users, incomplete, sealed, sealing, visited, calls,
                 ret, curr, ctl, pos, sealq, next>>

AssignGlobal ==
  /\ Complete({"const", "copy", "op"})
  /\ Storage[stmt.dst] = "global"
  /\ Emit(<<Instr("store", stmt.dst, stmt.reads, vals, <<>>)>>, 0)
  /\ fresh' = fresh + 1
  /\ NextStatement
  /\ UNCHANGED <<preds, phis, users, defs, incomplete, sealed, sealing, visited,
                 calls, ret, status, curr, ctl, pos, sealq, next>>

\* The store is emitted, then decorateInst is given the type of V, the null
\* result of the failed cast to VariableDeclaration.
AssignVarParameter ==
  /\ Complete({"const", "copy", "op"})
  /\ Storage[stmt.dst] = "var"
  /\ Emit(<<Instr("store", stmt.dst, stmt.reads, vals, <<>>)>>, 0)
  /\ status' = "crash"
  /\ UNCHANGED <<preds, phis, users, fresh, defs, incomplete, sealed, sealing,
                 visited, calls, ret, driverVars>>

CondBranch(kind, then, else) == Instr(kind, None, stmt.reads, vals, <<then, else>>)

\* Faulty variant: the block that ends in the branch is not sealed.
BranchIfUnsealed ==
  /\ Complete({"if"})
  /\ LET f == Last(ctl)
         other == IF f.els # NoBlock THEN f.els ELSE f.after
     IN  /\ Grow(0, {f.body, other}) /\ Emit(<<CondBranch("ifbr", f.body, other)>>, 0)
         /\ SealThen(<<>>, f.body)
         /\ ctl' = [ctl EXCEPT ![Len(ctl)].body = NoBlock]
  /\ stmt' = NoStmt /\ vals' = <<>>
  /\ UNCHANGED <<phis, users, fresh, sealed, sealing, visited, calls, ret, status,
                 curr, pos>>

BranchIf ==
  /\ Complete({"if"})
  /\ LET f == Last(ctl)
         other == IF f.els # NoBlock THEN f.els ELSE f.after
     IN  /\ Grow(0, {f.body, other}) /\ Emit(<<CondBranch("ifbr", f.body, other)>>, 0)
         /\ SealThen(<<curr>>, f.body)
         /\ ctl' = [ctl EXCEPT ![Len(ctl)].body = NoBlock]
  /\ stmt' = NoStmt /\ vals' = <<>>
  /\ UNCHANGED <<phis, users, fresh, sealed, sealing, visited, calls, ret, status,
                 curr, pos>>

\* Faulty variant: the block of the condition is sealed before the back edge.
BranchWhileSealing ==
  /\ Complete({"while"})
  /\ LET f == Last(ctl)
     IN  /\ Grow(0, {f.body, f.after}) /\ Emit(<<CondBranch("whilebr", f.body, f.after)>>, 0)
         /\ SealThen(<<curr>>, f.body)
         /\ ctl' = [ctl EXCEPT ![Len(ctl)] = [f EXCEPT !.body = NoBlock, !.cond = curr]]
  /\ stmt' = NoStmt /\ vals' = <<>>
  /\ UNCHANGED <<phis, users, fresh, sealed, sealing, visited, calls, ret, status,
                 curr, pos>>

BranchWhile ==
  /\ Complete({"while"})
  /\ LET f == Last(ctl)
     IN  /\ Grow(0, {f.body, f.after}) /\ Emit(<<CondBranch("whilebr", f.body, f.after)>>, 0)
         /\ curr' = f.body
         /\ ctl' = [ctl EXCEPT ![Len(ctl)] = [f EXCEPT !.body = NoBlock, !.cond = curr]]
  /\ NextStatement
  /\ UNCHANGED <<phis, users, fresh, sealed, sealing, visited, calls, ret, status,
                 pos, sealq, next>>

EmitReturn ==
  /\ Complete({"return"})
  /\ Emit(<<Instr("ret", None, stmt.reads, vals, <<>>)>>, 0)
  /\ NextStatement
  /\ UNCHANGED <<preds, phis, users, fresh, defs, incomplete, sealed, sealing,
                 visited, calls, ret, status, curr, ctl, pos, sealq, next>>

-----------------------------------------------------------------------------
(* The end of an IF part, of a WHILE body and of the procedure.             *)

\* The statement list of the innermost IF or WHILE ends here: the program says
\* so, or the menu has run out.
AtEnd(kinds) ==
  /\ At("fetch")
  /\ stmt = NoStmt
  /\ ctl # <<>>
  /\ Last(ctl).kind \in kinds
  /\ \/ pos > Len(Menu) /\ pos' = pos
     \/ Offered({"end"}) # {} /\ pos' = pos + 1

\* A branch to the block after the IF, unless the current block is terminated.
BranchUnlessTerminated(to) ==
  IF Terminated(curr) THEN UNCHANGED <<preds, code, defs, incomplete>>
  ELSE Grow(0, {to}) /\ Emit(<<Branch(to)>>, 0)

EndThen ==
  /\ AtEnd({"then"})
  /\ Last(ctl).els # NoBlock
  /\ BranchUnlessTerminated(Last(ctl).after)
  /\ SealThen(<<curr>>, Last(ctl).els)
  /\ stmt' \in ElseMenu
  /\ ctl' = [ctl EXCEPT ![Len(ctl)] = [@ EXCEPT !.kind = "else", !.els = NoBlock]]
  /\ UNCHANGED <<phis, users, fresh, sealed, sealing, visited, calls, ret, status,
                 curr, vals>>

EndIf ==
  /\ AtEnd({"then", "else"})
  /\ Last(ctl).els = NoBlock
  /\ BranchUnlessTerminated(Last(ctl).after)
  /\ SealThen(<<curr>>, Last(ctl).after)
  /\ ctl' = Front(ctl)
  /\ UNCHANGED <<phis, users, fresh, sealed, sealing, visited, calls, ret, status,
                 curr, stmt, vals>>

\* Unlike EndIf, the branch back is emitted whatever the block ends with.
EndWhile ==
  /\ AtEnd({"while"})
  /\ Grow(0, {Last(ctl).cond}) /\ Emit(<<Branch(Last(ctl).cond)>>, 0)
  /\ SealThen(<<curr, Last(ctl).cond>>, Last(ctl).after)
  /\ ctl' = Front(ctl)
  /\ UNCHANGED <<phis, users, fresh, sealed, sealing, visited, calls, ret, status,
                 curr, stmt, vals>>

EndProcedure ==
  /\ At("fetch")
  /\ ctl = <<>>
  /\ pos > Len(Menu)
  /\ IF Terminated(curr) THEN UNCHANGED code
     ELSE Emit(<<Instr("ret", None, <<>>, <<>>, <<>>)>>, 0)
  /\ SealThen(<<curr>>, NoBlock)
  /\ UNCHANGED <<preds, phis, users, fresh, defs, incomplete, sealed, sealing,
                 visited, calls, ret, status, curr, ctl, pos, stmt, vals>>

-----------------------------------------------------------------------------
(* Calls of sealBlock.                                                      *)

Seal ==
  /\ pc = "seal"
  /\ sealq # <<>>
  /\ SealStart(Head(sealq))
  /\ UNCHANGED driverVars

SealStep ==
  /\ SealPhi
  /\ UNCHANGED driverVars

SealEnd ==
  /\ SealFinish
  /\ sealq' = Tail(sealq)
  /\ UNCHANGED <<pc, curr, ctl, pos, stmt, vals, next>>

\* The innermost statement is a WHILE whose condition is still to be emitted.
Begun == ctl # <<>> /\ Last(ctl).body # NoBlock

\* setCurr after the blocks are sealed; the procedure is done when there is none.
SetCurr ==
  /\ At("seal")
  /\ sealq = <<>>
  /\ curr' = next
  /\ next' = NoBlock
  /\ pc' = IF next = NoBlock THEN "done"
           ELSE IF Begun THEN "operands" ELSE "fetch"
  /\ UNCHANGED <<ssaVars, ctl, pos, stmt, vals, sealq>>

Step == SSAStep /\ UNCHANGED driverVars

Statement ==
  \/ BeginSimple \/ BeginIf \/ BeginWhileReusing \/ BeginWhile
  \/ ReadLocal \/ TakeOperand \/ LoadMemory
  \/ AssignLocal \/ AssignGlobal \/ AssignVarParameter
  \/ BranchIf \/ BranchWhile \/ EmitReturn
  \/ EndThen \/ EndIf \/ EndWhile \/ EndProcedure

Sealing == Seal \/ SealStep \/ SealEnd \/ SetCurr

Stopped == pc = "done" \/ status # "run"
Halt == Stopped /\ UNCHANGED vars

Next == Step \/ Statement \/ Sealing \/ Halt

Spec == Init /\ [][Next]_vars /\ WF_vars(Next)

-----------------------------------------------------------------------------
(* Type invariant.                                                          *)

Frames ==
  [kind : {"then", "else", "while"}, body : Nat, els : Nat, cond : Nat, after : Nat]

\* Blocks are numbered densely, every edge comes from an existing block,
\* CurrentDef has an entry for each block, phis are numbered below fresh.
BlocksOK ==
  /\ preds \in Seq(Seq(Nat))
  /\ \A b \in Blocks : \A i \in DOMAIN preds[b] : preds[b][i] \in Blocks
  /\ DOMAIN code = Blocks /\ DOMAIN defs = Blocks /\ DOMAIN incomplete = Blocks
  /\ fresh \in Nat /\ DOMAIN users = DOMAIN phis
  /\ \A p \in DOMAIN phis : p \in Nat /\ p < fresh
  /\ sealed \subseteq Blocks /\ sealing \in Blocks \cup {NoBlock}
  /\ status \in {"run", "abort", "ub", "crash"}
  /\ pc \in {"fetch", "operands", "seal", "done"} /\ pos \in Nat \ {0}
  /\ stmt \in Statements \cup {NoStmt} /\ ctl \in Seq(Frames)
  /\ curr \in Nat /\ next \in Nat /\ sealq \in Seq(Nat)

\* The calls that read, write or fill a variable do so in an existing block, and
\* incomplete phis are kept for variables of the procedure.
CallsOK ==
  /\ incomplete \in [Blocks -> SUBSET [phi : Nat, var : Vars]]
  /\ calls \in Seq(ToSet(calls)) /\ vals \in Seq(ToSet(vals))
  /\ \A f \in ToSet(calls) :
       f.op \in {"read", "write", "fill"} => f.bb \in Blocks /\ f.var \in Vars

TypeOK == BlocksOK /\ CallsOK

-----------------------------------------------------------------------------
(* Sealing.                                                                 *)

Emitting == pc \in {"fetch", "operands"}

\* The blocks of an unfinished IF or WHILE that a later step enters or seals.
Owed(f) == {f.body, f.els, f.cond, f.after} \ {NoBlock}

\* The block being emitted into, those about to be sealed, the one entered next.
Upcoming ==
  ((IF Emitting THEN {curr} ELSE {}) \cup {next} \cup ToSet(sealq)) \ {NoBlock}

UpcomingOpen == Upcoming \subseteq Blocks \ sealed

OwedOpen ==
  \A i \in DOMAIN ctl : Owed(ctl[i]) \subseteq (Blocks \ sealed) \ Upcoming

OwedOnce ==
  /\ \A i, j \in DOMAIN ctl : i # j => Owed(ctl[i]) \cap Owed(ctl[j]) = {}
  /\ \A i \in DOMAIN ctl : LET f == ctl[i] IN
       /\ f.body # NoBlock => f.body \notin {f.els, f.cond, f.after}
       /\ f.els # NoBlock => f.els \notin {f.cond, f.after}
       /\ f.cond # f.after

QueueOnce ==
  /\ next # NoBlock => next \notin ToSet(sealq)
  /\ \A i, j \in DOMAIN sealq : i # j => sealq[i] # sealq[j]

OpenOwed ==
  \A b \in Blocks \ sealed : b \in Upcoming \/ \E i \in DOMAIN ctl : b \in Owed(ctl[i])

\* Every open block is owed exactly one seal: it is the current block, or queued
\* to be sealed or entered, or belongs to exactly one unfinished statement; and
\* none of these is sealed.  This is why the calls of sealBlock scattered over
\* emitStmt(If), emitStmt(While) and run() add up to one call per block.
SealDiscipline == UpcomingOpen /\ OwedOpen /\ OwedOnce /\ QueueOnce /\ OpenOwed

\* How pc, the statement at hand and the frames fit together.
ControlShape ==
  /\ Emitting => next = NoBlock /\ sealq = <<>> /\ sealing = NoBlock /\ curr # NoBlock
  /\ pc = "done" => ctl = <<>> /\ sealq = <<>> /\ next = NoBlock /\ sealing = NoBlock
  /\ pc = "seal" /\ next = NoBlock => ctl = <<>>
  /\ pc = "operands" => stmt # NoStmt
  /\ pc # "operands" /\ stmt # NoStmt => ctl # <<>>
  /\ sealing # NoBlock => sealq # <<>> /\ sealing = Head(sealq)
  /\ pc = "operands" /\ stmt.kind \in {"if", "while"} =>
       ctl # <<>> /\ ctl[Len(ctl)].body # NoBlock
  /\ \A i \in DOMAIN ctl : LET f == ctl[i] IN
       /\ f.after # NoBlock
       /\ f.body # NoBlock =>
            /\ i = Len(ctl) /\ pc # "fetch"
            /\ stmt.kind = IF f.kind = "while" THEN "while" ELSE "if"
       /\ f.kind = "while" => f.els = NoBlock /\ (f.body = NoBlock <=> f.cond # NoBlock)
       /\ f.kind # "while" => f.cond = NoBlock
       /\ f.els # NoBlock => f.kind = "then"

Ownership == ControlShape /\ SealDiscipline

\* sealBlock's assertion "Attempt to seal already sealed block" never fails.
SealedOnce == pc = "seal" /\ sealing = NoBlock => ToSet(sealq) \cap sealed = {}

\* When the procedure is done every block is sealed and no incomplete phi is
\* left: no block was created and then forgotten by the statement that owns it.
AllSealed == pc = "done" => sealed = Blocks /\ \A b \in Blocks : incomplete[b] = {}

\* The contract of BlockSealing: no predecessor and no incomplete phi is ever
\* added to a sealed block, and no block is sealed twice (CGProcedure.h:38).
Contract == INSTANCE BlockSealing WITH waiting <- incomplete
ImplementsBlockSealing == Contract!Spec

\* sealBlock iterates over IncompletePhis while it calls addPhiOperands, which
\* reads variables in other blocks and possibly, round a loop, in this one: the
\* map it iterates over must not change meanwhile.
NoInsertDuringSeal ==
  [][sealing # NoBlock /\ sealing' = sealing
       => incomplete'[sealing] = incomplete[sealing]]_vars

-----------------------------------------------------------------------------
(* Reading variables.                                                       *)

\* A statement only reads variables in an open block, so a read it makes is a
\* hit or one new phi: it never recurses, and never erases the phi that an
\* operand read before it (Left in emitInfixExpr) still points to.
ReadsStayLocal == pc = "operands" => curr \notin sealed /\ Len(calls) <= 1

\* "An empty phi break potential cycles" (CGProcedure.cpp:61) at every join: while
\* readLocalVariableRecursive fills the phi of a variable at a join, the reads that
\* come back to it round any loops do not begin a second one there, and a phi that
\* sealBlock or a join is filling is the only one of its block and variable.
JoinsBreakCycles ==
  \A i, j \in DOMAIN calls :
    LET f == calls[i]
        h == calls[j]
    IN  i < j /\ f.op = h.op /\ f.op \in {"write", "fill"}
              /\ <<f.bb, f.var>> = <<h.bb, h.var>>
          => f.op = "write" /\ Len(preds[f.bb]) = 1

\* Between calls, a phi in a sealed block has one operand per predecessor, and a
\* phi in an open block has none and is registered to be filled.
PhiComplete == calls = <<>> =>
  \A p \in DOMAIN phis : LET b == phis[p].bb IN
    /\ b \in sealed => Len(phis[p].ops) = Len(preds[b])
    /\ b \notin sealed /\ sealing # b =>
         phis[p].ops = <<>> /\ \E e \in incomplete[b] : e.phi = p

\* optimizePhi never judges a phi by only some of its operands, although it is
\* called on users of an erased phi, which other calls may still be filling.
OptimizesOnlyComplete ==
  Running("opt") /\ Top.phi \in DOMAIN phis
    => Filled(Top.phi) = Len(preds[phis[Top.phi].bb])

\* A phi that addPhiOperands is filling, or that waits in IncompletePhis as a
\* raw pointer, is never erased by an optimizePhi in between.
UnderConstructionAlive ==
  /\ \A i \in DOMAIN calls : calls[i].op = "fill" => calls[i].phi \in DOMAIN phis
  /\ \A b \in Blocks : \A e \in incomplete[b] :
       (sealing = b /\ e \in visited) \/ (e.phi \in DOMAIN phis /\ phis[e.phi].ops = <<>>)

\* What the rest of the procedure is emitted from: the operands a statement holds,
\* the definitions of variables and the operands of phis point to no erased phi.  Nor
\* does the value a call returns, unless sealBlock ignores it: that of addPhiOperands,
\* once the phi has its operands and is being optimized.
UsedValuesAlive ==
  /\ \A i \in DOMAIN vals : Alive(vals[i])
  /\ Alive(ret) \/ (sealing # NoBlock /\ (calls = <<>> \/ calls[1].op # "fill"))
  /\ \A b \in Blocks : \A v \in DOMAIN defs[b] : Alive(defs[b][v])
  /\ \A p \in DOMAIN phis : \A i \in DOMAIN phis[p].ops : Alive(phis[p].ops[i])

\* No pointer dangles, neither those nor the value any call returns or optimizePhi is
\* about to return (its recursive calls could have erased it).
HeldValuesAlive == status = "run" =>
  /\ UsedValuesAlive
  /\ Alive(ret)
  /\ \A i \in DOMAIN calls : calls[i].op = "reopt" => Alive(calls[i].same)

\* A loop is entered whose header nothing branches to before the loop branches back:
\* the entry block, or the block behind an IF that returns in both of its parts.
Unentered == \E i \in DOMAIN ctl : ctl[i].cond # NoBlock /\ preds[ctl[i].cond] = <<>>

\* The translation of a procedure ends, unless it has such a loop: any other header is
\* a join once it is sealed, so the recursion through the predecessors reaches one, a
\* definition or the start of the procedure, and the recursive simplification of phis
\* runs out of phis.  The remaining case is NoReentrantRead.
Termination == <>(Stopped \/ Unentered)

-----------------------------------------------------------------------------
(* What the source says of itself, and the code does not keep.              *)

\* writeLocalVariable: assert(Val && "Value does not exist") (CGProcedure.cpp:14).
NoAssertionFails == status # "abort"

\* No call of readLocalVariableRecursive is active twice for the same block and
\* variable: "an empty phi break potential cycles" (CGProcedure.cpp:61).
NoReentrantRead ==
  \A i, j \in DOMAIN calls :
    calls[i].op = "write" /\ calls[j].op = "write" /\ i # j
      => <<calls[i].bb, calls[i].var>> # <<calls[j].bb, calls[j].var>>

\* optimizePhi erases a phi and goes on "optimizing the others"
\* (CGProcedure.cpp:126-128): it is not called on a phi it has erased.
NoUseAfterErase == status # "ub"

=============================================================================
