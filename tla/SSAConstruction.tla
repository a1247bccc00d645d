---------------------------- MODULE SSAConstruction ----------------------------
(***************************************************************************)
(* On-the-fly SSA construction of tinylang's code generator: the part of   *)
(* CGProcedure that reads and writes local variables, creates phi          *)
(* instructions, fills, simplifies and erases them, and seals blocks       *)
(* (tinylang/lib/CodeGen/CGProcedure.cpp:7-144).                           *)
(*                                                                         *)
(* The mutually recursive functions of the source are a stack machine:     *)
(* "calls" holds one frame per active call, "ret" the value the last call  *)
(* returned.  The driver that emits statements is module CGProcedure.      *)
(***************************************************************************)
EXTENDS Integers, Sequences, FiniteSets, SequencesExt

CONSTANTS
  Vars,       \* declarations the procedure names
  Literals,   \* distinct constants of the program
  AssertsOn   \* TRUE: assertions enabled; FALSE: built with NDEBUG

ASSUME AssertsAssumption == AssertsOn \in BOOLEAN

VARIABLES
  preds,       \* preds[b]: predecessors of block b, newest first (use list of b)
  code,        \* code[b]: what was emitted into b, in order
  phis,        \* the phi instructions in the function: number -> [bb, ops]
  users,       \* users[p]: the phis that use phi p, newest use first
  fresh,       \* number of the next instruction
  defs,        \* CurrentDef[b].Defs
  incomplete,  \* CurrentDef[b].IncompletePhis
  sealed,      \* the blocks with CurrentDef[b].Sealed set
  sealing,     \* the block sealBlock is working on, or NoBlock
  visited,     \* the incomplete phis its loop has already handled
  calls,       \* frames of the active calls, innermost last
  ret,         \* value of the call that returned last, or None
  status       \* "run", or how the compiler died: "abort", "ub", "crash"

irVars == <<preds, code, phis, users, fresh>>
ssaVars == <<irVars, defs, incomplete, sealed, sealing, visited, calls, ret, status>>

-----------------------------------------------------------------------------
(* Values.  A value is tagged with its kind.                                *)

None     == <<"none">>
Null     == <<"null">>           \* nullptr
Undef    == <<"undef">>
Lit(k)   == <<"lit", k>>
Arg(v)   == <<"arg", v>>
Ins(n)   == <<"ins", n>>
Phi(n)   == <<"phi", n>>

NoBlock  == 0
Blocks   == DOMAIN preds
Constants == {Undef} \cup {Lit(k) : k \in Literals}

\* A pointer to an instruction that is still in the function.
Alive(val) == val[1] = "phi" => val[2] \in DOMAIN phis

Bind(f, x, e) == [y \in DOMAIN f \cup {x} |-> IF y = x THEN e ELSE f[y]]

-----------------------------------------------------------------------------
(* Instructions of LLVM as this code uses them.                             *)

Terminators   == {"br", "ifbr", "whilebr", "ret"}
Bookkeeping   == {"const", "copy"}     \* assignments that emit no instruction
Instructions(b) == SelectSeq(code[b], LAMBDA e : e.kind \notin Bookkeeping)

\* BasicBlock::empty()
Empty(b) == Instructions(b) = <<>> /\ \A p \in DOMAIN phis : phis[p].bb # b

\* BasicBlock::getTerminator(): only the last instruction counts.
Terminated(b) ==
  /\ Instructions(b) # <<>>
  /\ Last(Instructions(b)).kind \in Terminators

\* The list s without p.
Without(s, p) ==
  LET kept == {i \in DOMAIN s : s[i] # p}
      rank(i) == Cardinality({j \in kept : j <= i})
  IN  [k \in 1 .. Cardinality(kept) |-> s[CHOOSE i \in kept : rank(i) = k]]

Subst(val, old, new) == IF val = old THEN new ELSE val

SubstAll(vals, old, new) == [i \in DOMAIN vals |-> Subst(vals[i], old, new)]

\* Faulty variant: the phi stays in its block.
ReplaceWithoutErasing(p, new) ==
  /\ phis' = [q \in DOMAIN phis |->
                [bb |-> phis[q].bb, ops |-> SubstAll(phis[q].ops, Phi(p), new)]]
  /\ users' = [q \in DOMAIN users \ {p} |-> Without(users[q], p)]
  /\ defs' = [b \in DOMAIN defs |-> SubstAll(defs[b], Phi(p), new)]
  /\ UNCHANGED code

\* Faulty variant: Defs holds plain pointers, not TrackingVHs.
ReplaceWithoutTracking(p, new) ==
  /\ phis' = [q \in DOMAIN phis \ {p} |->
                [bb |-> phis[q].bb, ops |-> SubstAll(phis[q].ops, Phi(p), new)]]
  /\ users' = [q \in DOMAIN users \ {p} |-> Without(users[q], p)]
  /\ UNCHANGED <<defs, code>>

\* Value::replaceAllUsesWith followed by Instruction::eraseFromParent.  RAUW
\* moves the uses one at a time to the head of the new value's use list, and
\* the TrackingVHs of Defs follow it; erasing drops the operands of the phi.
ReplaceAndErase(p, new) ==
  /\ phis' = [q \in DOMAIN phis \ {p} |->
                [bb |-> phis[q].bb, ops |-> SubstAll(phis[q].ops, Phi(p), new)]]
  /\ users' = [q \in DOMAIN users \ {p} |->
                LET moved == IF new = Phi(q) THEN Reverse(users[p]) ELSE <<>>
                IN  Without(moved \o users[q], p)]
  /\ defs' = [b \in DOMAIN defs |-> SubstAll(defs[b], Phi(p), new)]
  /\ code' = [b \in DOMAIN code |-> [i \in DOMAIN code[b] |->
                [code[b][i] EXCEPT !.vals = SubstAll(@, Phi(p), new)]]]

\* addEmptyPhi(BB): a phi without operands in front of BB.
AddEmptyPhi(b) ==
  /\ phis' = Bind(phis, fresh, [bb |-> b, ops |-> <<>>])
  /\ users' = Bind(users, fresh, <<>>)
  /\ fresh' = fresh + 1

\* PHINode::addIncoming: the use goes to the head of val's use list.
AddIncoming(p, val) ==
  /\ phis' = [phis EXCEPT ![p] = [bb |-> @.bb, ops |-> Append(@.ops, val)]]
  /\ users' = IF val[1] = "phi" /\ val[2] \in DOMAIN users
              THEN [users EXCEPT ![val[2]] = <<p>> \o @]
              ELSE users

-----------------------------------------------------------------------------
(* The call stack.                                                          *)

ReadCall(b, v)    == [op |-> "read", bb |-> b, var |-> v]
WriteBack(b, v)   == [op |-> "write", bb |-> b, var |-> v]
FillCall(b, v, p) == [op |-> "fill", bb |-> b, var |-> v, phi |-> p]
OptCall(p)        == [op |-> "opt", phi |-> p]
ReoptLoop(same, todo) == [op |-> "reopt", same |-> same, todo |-> todo]

Top == Last(calls)
Running(op) == status = "run" /\ calls # <<>> /\ Top.op = op

\* The running call goes on as these frames, the last of them first.
Become(frames) == calls' = Front(calls) \o frames /\ ret' = None

Return(val) == calls' = Front(calls) /\ ret' = val

Die(how) ==
  /\ status' = how
  /\ UNCHANGED <<irVars, defs, incomplete, calls, ret>>

\* writeLocalVariable; its assertion rejects a null value.
WriteLocalVariable(b, v, val) == defs' = [defs EXCEPT ![b] = Bind(@, v, val)]
WriteAsserts(val) == AssertsOn => val # Null

-----------------------------------------------------------------------------
(* readLocalVariable and readLocalVariableRecursive.                        *)

ReadHit ==
  /\ Running("read")
  /\ Top.var \in DOMAIN defs[Top.bb]
  /\ Return(defs[Top.bb][Top.var])
  /\ UNCHANGED <<irVars, defs, incomplete, status>>

ReadMiss == Running("read") /\ Top.var \notin DOMAIN defs[Top.bb]

\* Faulty variant: the new phi is not recorded as the definition of the variable.
ReadUnsealedUnwritten ==
  /\ ReadMiss
  /\ Top.bb \notin sealed
  /\ AddEmptyPhi(Top.bb)
  /\ incomplete' = [incomplete EXCEPT ![Top.bb] =
                      @ \cup {[phi |-> fresh, var |-> Top.var]}]
  /\ Return(Phi(fresh))
  /\ UNCHANGED <<preds, code, defs, status>>

\* Faulty variant: the phi is simplified before it has operands.
ReadUnsealedOptimized ==
  /\ ReadMiss
  /\ Top.bb \notin sealed
  /\ AddEmptyPhi(Top.bb)
  /\ incomplete' = [incomplete EXCEPT ![Top.bb] =
                      @ \cup {[phi |-> fresh, var |-> Top.var]}]
  /\ Become(<<WriteBack(Top.bb, Top.var), OptCall(fresh)>>)
  /\ UNCHANGED <<preds, code, defs, status>>

ReadUnsealed ==
  /\ ReadMiss
  /\ Top.bb \notin sealed
  /\ AddEmptyPhi(Top.bb)
  /\ incomplete' = [incomplete EXCEPT ![Top.bb] =
                      @ \cup {[phi |-> fresh, var |-> Top.var]}]
  /\ WriteLocalVariable(Top.bb, Top.var, Phi(fresh))
  /\ Return(Phi(fresh))
  /\ UNCHANGED <<preds, code, status>>

\* Faulty variant: an open block with one predecessor so far is read through.
ReadSinglePredecessorOpen ==
  /\ ReadMiss
  /\ Len(preds[Top.bb]) = 1
  /\ Become(<<WriteBack(Top.bb, Top.var), ReadCall(preds[Top.bb][1], Top.var)>>)
  /\ UNCHANGED <<irVars, defs, incomplete, status>>

ReadSinglePredecessor ==
  /\ ReadMiss
  /\ Top.bb \in sealed
  /\ Len(preds[Top.bb]) = 1
  /\ Become(<<WriteBack(Top.bb, Top.var), ReadCall(preds[Top.bb][1], Top.var)>>)
  /\ UNCHANGED <<irVars, defs, incomplete, status>>

\* Faulty variant: nothing is written before the operands are read.
ReadJoinUnmarked ==
  /\ ReadMiss
  /\ Top.bb \in sealed
  /\ Len(preds[Top.bb]) # 1
  /\ AddEmptyPhi(Top.bb)
  /\ Become(<<WriteBack(Top.bb, Top.var), FillCall(Top.bb, Top.var, fresh)>>)
  /\ UNCHANGED <<preds, code, defs, incomplete, status>>

\* The phi is created first, but what is written to break cycles is Val, which
\* is still null here.
ReadJoin ==
  /\ ReadMiss
  /\ Top.bb \in sealed
  /\ Len(preds[Top.bb]) # 1
  /\ IF ~ WriteAsserts(Null) THEN Die("abort")
     ELSE /\ AddEmptyPhi(Top.bb)
          /\ WriteLocalVariable(Top.bb, Top.var, Null)
          /\ Become(<<WriteBack(Top.bb, Top.var),
                      FillCall(Top.bb, Top.var, fresh)>>)
          /\ UNCHANGED <<preds, code, incomplete, status>>

\* The writeLocalVariable and return at the end of readLocalVariableRecursive.
WriteAndReturn ==
  /\ Running("write")
  /\ IF ~ WriteAsserts(ret) THEN Die("abort")
     ELSE /\ WriteLocalVariable(Top.bb, Top.var, ret)
          /\ Return(ret)
          /\ UNCHANGED <<irVars, incomplete, status>>

-----------------------------------------------------------------------------
(* addPhiOperands.                                                          *)

\* That the phi is still in the function is UnderConstructionAlive (CGProcedure).
Filled(p) == Len(phis[p].ops)

FillRead ==
  /\ Running("fill")
  /\ ret = None
  /\ \E i \in DOMAIN preds[Top.bb] :
       /\ i = Filled(Top.phi) + 1
       /\ Become(<<Top, ReadCall(preds[Top.bb][i], Top.var)>>)
  /\ UNCHANGED <<irVars, defs, incomplete, status>>

FillAdd ==
  /\ Running("fill")
  /\ ret # None
  /\ AddIncoming(Top.phi, ret)
  /\ ret' = None
  /\ UNCHANGED <<preds, code, fresh, defs, incomplete, calls, status>>

\* Faulty variant: the loop may stop one predecessor short.
FillDoneEarly ==
  /\ Running("fill")
  /\ ret = None
  /\ Filled(Top.phi) + 1 >= Len(preds[Top.bb])
  /\ Become(<<OptCall(Top.phi)>>)
  /\ UNCHANGED <<irVars, defs, incomplete, status>>

FillDone ==
  /\ Running("fill")
  /\ ret = None
  /\ Filled(Top.phi) >= Len(preds[Top.bb])
  /\ Become(<<OptCall(Top.phi)>>)
  /\ UNCHANGED <<irVars, defs, incomplete, status>>

-----------------------------------------------------------------------------
(* optimizePhi.                                                             *)

\* The operands that the loop lets decide: null operands before the first
\* value are skipped (they equal Same, still null), null operands after it count
\* as a different value.
Deciding(p) ==
  LET ops   == phis[p].ops
      other == {i \in DOMAIN ops : ops[i] # Phi(p)}
      first == {i \in other : ops[i] # Null}
  IN  {ops[i] : i \in {j \in other : \E k \in first : k <= j}}

OptErased ==
  /\ Running("opt")
  /\ Top.phi \notin DOMAIN phis
  /\ Die("ub")

OptKeep ==
  /\ Running("opt")
  /\ Top.phi \in DOMAIN phis
  /\ Cardinality(Deciding(Top.phi)) > 1
  /\ Return(Phi(Top.phi))
  /\ UNCHANGED <<irVars, defs, incomplete, status>>

OptReplace ==
  /\ Running("opt")
  /\ Top.phi \in DOMAIN phis
  /\ Cardinality(Deciding(Top.phi)) <= 1
  /\ LET p    == Top.phi
         same == IF Deciding(p) = {} THEN Undef ELSE CHOOSE v \in Deciding(p) : TRUE
     IN  /\ ReplaceAndErase(p, same)
         /\ Become(<<ReoptLoop(same, Without(users[p], p))>>)
  /\ UNCHANGED <<preds, fresh, incomplete, status>>

\* Faulty variant: the loop does not advance.
ReoptNextStuck ==
  /\ Running("reopt")
  /\ Top.todo # <<>>
  /\ Become(<<Top, OptCall(Head(Top.todo))>>)
  /\ UNCHANGED <<irVars, defs, incomplete, status>>

\* The loop over CandidatePhis; what the calls return is ignored.
ReoptNext ==
  /\ Running("reopt")
  /\ Top.todo # <<>>
  /\ Become(<<ReoptLoop(Top.same, Tail(Top.todo)), OptCall(Head(Top.todo))>>)
  /\ UNCHANGED <<irVars, defs, incomplete, status>>

ReoptDone ==
  /\ Running("reopt")
  /\ Top.todo = <<>>
  /\ Return(Top.same)
  /\ UNCHANGED <<irVars, defs, incomplete, status>>

\* A step of the recursive functions; it never touches what sealBlock and the
\* driver own.
SSAStep ==
  /\ \/ ReadHit \/ ReadUnsealed \/ ReadSinglePredecessor \/ ReadJoin
     \/ WriteAndReturn
     \/ FillRead \/ FillAdd \/ FillDone
     \/ OptErased \/ OptKeep \/ OptReplace \/ ReoptNext \/ ReoptDone
  /\ UNCHANGED <<sealed, sealing, visited>>

-----------------------------------------------------------------------------
(* sealBlock.                                                               *)

Idle == status = "run" /\ calls = <<>>

SealStart(b) ==
  /\ Idle
  /\ sealing = NoBlock
  /\ IF AssertsOn /\ b \in sealed
     THEN status' = "abort" /\ UNCHANGED <<sealing, visited>>
     ELSE sealing' = b /\ visited' = {} /\ UNCHANGED status
  /\ UNCHANGED <<irVars, defs, incomplete, sealed, calls, ret>>

\* IncompletePhis is a DenseMap keyed by pointer: any order is possible.
SealPhi ==
  /\ Idle
  /\ sealing # NoBlock
  /\ \E e \in incomplete[sealing] \ visited :
       /\ calls' = <<FillCall(sealing, e.var, e.phi)>>
       /\ visited' = visited \cup {e}
  /\ ret' = None
  /\ UNCHANGED <<irVars, defs, incomplete, sealed, sealing, status>>

\* Faulty variant: phis are left without operands.
SealFinishEarly ==
  /\ Idle
  /\ sealing # NoBlock
  /\ incomplete' = [incomplete EXCEPT ![sealing] = {}]
  /\ sealed' = sealed \cup {sealing}
  /\ sealing' = NoBlock
  /\ visited' = {}
  /\ ret' = None
  /\ UNCHANGED <<irVars, defs, calls, status>>

SealFinish ==
  /\ Idle
  /\ sealing # NoBlock
  /\ incomplete[sealing] \subseteq visited
  /\ incomplete' = [incomplete EXCEPT ![sealing] = {}]
  /\ sealed' = sealed \cup {sealing}
  /\ sealing' = NoBlock
  /\ visited' = {}
  /\ ret' = None
  /\ UNCHANGED <<irVars, defs, calls, status>>

=============================================================================
