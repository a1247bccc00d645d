------------------------- MODULE CGProcedure_proofs --------------------------
(***************************************************************************)
(* The blocks of a procedure are owned and sealed exactly once, for every  *)
(* set of variables and every menu of statements.  The inductive invariant *)
(* IInv says who owes the seal of each open block (SealDiscipline), how    *)
(* the driver's state fits together (ControlShape) and that blocks are     *)
(* numbered densely (BlocksOK); one lemma per action shows that it is      *)
(* kept.  Then CGProcedure implements BlockSealing: the calls of the       *)
(* recursive functions stay within the blocks of the function (CallsOK),   *)
(* every step maps to a step of the contract or to a stutter, and what the *)
(* contract promises follows: when the procedure is done, nothing is left  *)
(* unsealed.  Last, where reading a variable can lead: while a statement   *)
(* is emitted a read never leaves the current block; while a block is      *)
(* sealed no read adds an incomplete phi to it, so sealBlock may iterate   *)
(* over the map it holds.                                                  *)
(***************************************************************************)
EXTENDS CGProcedure, SequenceTheorems, TLAPS

\* Front and Last of a sequence that is not empty: the pop and the top of ctl.
LEMMA FrontLast ==
  ASSUME NEW S, NEW s \in Seq(S), s # <<>>
  PROVE  /\ Front(s) \in Seq(S)
         /\ Len(Front(s)) = Len(s) - 1
         /\ \A i \in 1 .. Len(s) - 1 : Front(s)[i] = s[i]
         /\ Last(s) = s[Len(s)]
         /\ Len(s) \in Nat \ {0}
         /\ Last(s) \in S
<1>1. Len(s) \in Nat /\ Len(s) # 0
  OBVIOUS
<1>2. Last(s) = s[Len(s)] /\ Last(s) \in S
  BY <1>1 DEF Last
<1>3. Front(s) = SubSeq(s, 1, Len(s) - 1)
  BY DEF Front
<1>4. DEFINE n == Len(s) - 1
<1>5. n \in Nat /\ \A i \in 1 .. n : s[i] \in S
  BY <1>1
<1>6. /\ SubSeq(s, 1, n) \in Seq(S)
      /\ Len(SubSeq(s, 1, n)) = n
      /\ \A i \in 1 .. n : SubSeq(s, 1, n)[i] = s[i]
  <2> HIDE DEF n
  <2>1. /\ SubSeq(s, 1, n) \in Seq(S)
        /\ Len(SubSeq(s, 1, n)) = IF 1 <= n THEN n - 1 + 1 ELSE 0
        /\ \A i \in 1 .. n - 1 + 1 : SubSeq(s, 1, n)[i] = s[1 + i - 1]
    BY <1>5, SubSeqProperties
  <2> QED BY <2>1, <1>5
<1> QED BY <1>1, <1>2, <1>3, <1>6

\* A predecessor is added in front of the others.
LEMMA Prepend ==
  ASSUME NEW c \in Nat, NEW s \in Seq(Nat)
  PROVE  /\ Len(<<c>> \o s) = Len(s) + 1
         /\ \A i \in 1 .. Len(s) : (<<c>> \o s)[i + 1] = s[i]
  OBVIOUS

\* What Grow does to the blocks: n of them are added at the end, edges only to "to".
LEMMA GrowFacts ==
  ASSUME BlocksOK, NEW n \in Nat, NEW to, curr \in Blocks, Grow(n, to)
  PROVE  /\ preds' \in Seq(Seq(Nat))
         /\ Len(preds') = Len(preds) + n
         /\ Blocks = 1 .. Len(preds) /\ Blocks' = 1 .. Len(preds) + n
         /\ DOMAIN defs' = Blocks' /\ DOMAIN incomplete' = Blocks'
         /\ \A b \in Blocks' : \A i \in DOMAIN preds'[b] : preds'[b][i] \in Blocks'
         /\ \A b \in Blocks : b \notin to => preds'[b] = preds[b]
         /\ \A b \in Blocks : Contract!Extends(preds'[b], preds[b])
         /\ incomplete' = [b \in Blocks' |-> IF b \in Blocks THEN incomplete[b] ELSE {}]
<1>1. Blocks = 1 .. Len(preds) /\ Len(preds) \in Nat /\ curr \in Nat
      /\ \A b \in Blocks : preds[b] \in Seq(Nat)
  BY DEF BlocksOK, Blocks
<1> DEFINE old(b) == IF b \in Blocks THEN preds[b] ELSE <<>>
           new(b) == IF b \in to THEN <<curr>> \o old(b) ELSE old(b)
<1>2. \A b \in 1 .. Len(preds) + n : 
          /\ old(b) \in Seq(Nat) /\ new(b) \in Seq(Nat)
          /\ \A i \in DOMAIN old(b) : old(b)[i] \in Blocks
  BY <1>1 DEF BlocksOK
<1>3. preds' = [b \in 1 .. Len(preds) + n |-> new(b)]
  BY DEF Grow
<1>4. preds' \in Seq(Seq(Nat)) /\ Len(preds') = Len(preds) + n
  BY <1>1, <1>2, <1>3
<1>5. Blocks' = 1 .. Len(preds) + n
  BY <1>4 DEF Blocks
<1>6. \A b \in Blocks' : \A i \in DOMAIN preds'[b] : preds'[b][i] \in Blocks'
  <2> SUFFICES ASSUME NEW b \in Blocks', NEW i \in DOMAIN new(b)
               PROVE  new(b)[i] \in Blocks'
    BY <1>3, <1>5
  <2>1. \A j \in DOMAIN old(b) : old(b)[j] \in Blocks'
    BY <1>1, <1>2, <1>5
  <2>2. CASE b \in to
    <3>1. i \in 1 .. Len(old(b)) + 1 /\ Len(old(b)) \in Nat
      BY <1>2, <1>5, <2>2
    <3>2. new(b)[i] = IF i = 1 THEN curr ELSE old(b)[i - 1]
      BY <1>2, <1>5, <2>2, <3>1
    <3>3. i # 1 => i - 1 \in DOMAIN old(b)
      BY <3>1, <1>2, <1>5
    <3> QED BY <3>2, <3>3, <2>1, <1>1, <1>5
  <2>3. CASE b \notin to
    BY <2>1, <2>3
  <2> QED BY <2>2, <2>3
<1>7. \A b \in Blocks : Contract!Extends(preds'[b], preds[b])
  <2> TAKE b \in Blocks
  <2>0. preds'[b] = new(b)
    BY <1>1, <1>3
  <2>1. preds[b] \in Seq(Nat) /\ Len(preds[b]) \in Nat /\ old(b) = preds[b]
    BY <1>1
  <2>2. CASE b \in to
    <3>1. preds'[b] = <<curr>> \o preds[b]
      BY <2>0, <2>1, <2>2
    <3>2. curr \in Nat /\ preds[b] \in Seq(Nat)
      BY <1>1, <2>1
    <3>3. /\ Len(<<curr>> \o preds[b]) = Len(preds[b]) + 1
          /\ \A i \in 1 .. Len(preds[b]) : (<<curr>> \o preds[b])[i + 1] = preds[b][i]
      BY ONLY <3>2, Prepend
    <3>4. /\ Len(preds'[b]) = Len(preds[b]) + 1
          /\ \A i \in 1 .. Len(preds[b]) : preds'[b][i + 1] = preds[b][i]
      BY ONLY <3>1, <3>3
    <3>5. Len(preds'[b]) - Len(preds[b]) = 1 /\ DOMAIN preds[b] = 1 .. Len(preds[b])
      BY <3>4, <2>1
    <3>6. Len(preds'[b]) >= Len(preds[b])
      BY <3>4, <2>1
    <3> QED BY ONLY <3>4, <3>5, <3>6 DEF Contract!Extends
  <2>3. CASE b \notin to
    BY <2>0, <2>1, <2>3 DEF Contract!Extends
  <2> QED BY <2>2, <2>3
<1>8. \A b \in Blocks : b \notin to => preds'[b] = preds[b]
  BY <1>1, <1>3
<1>9. /\ DOMAIN defs' = Blocks' /\ DOMAIN incomplete' = Blocks'
      /\ incomplete' = [b \in Blocks' |-> IF b \in Blocks THEN incomplete[b] ELSE {}]
  BY <1>5 DEF Grow
<1> QED BY <1>1, <1>4, <1>5, <1>6, <1>7, <1>8, <1>9

-----------------------------------------------------------------------------
(* What the recursive functions and sealBlock leave alone.                  *)

\* The instructions and definitions a step may touch keep their blocks, and the
\* phis their use lists.
Kept ==
  /\ preds' = preds
  /\ DOMAIN code' = DOMAIN code /\ DOMAIN defs' = DOMAIN defs
  /\ DOMAIN incomplete' = DOMAIN incomplete
  /\ fresh' \in Nat /\ DOMAIN users' = DOMAIN phis'
  /\ \A p \in DOMAIN phis' : p \in Nat /\ p < fresh'
  /\ status' \in {"run", "abort", "ub", "crash"}

\* addEmptyPhi numbers the new phi below the new fresh.
LEMMA AddEmptyPhiKeeps ==
  ASSUME BlocksOK, NEW b, AddEmptyPhi(b)
  PROVE  /\ fresh' \in Nat /\ DOMAIN users' = DOMAIN phis'
         /\ \A p \in DOMAIN phis' : p \in Nat /\ p < fresh'
  BY DEF AddEmptyPhi, Bind, BlocksOK

\* The recursive functions neither create blocks nor seal them.
LEMMA SSAStepKeeps ==
  ASSUME BlocksOK, SSAStep
  PROVE  Kept /\ UNCHANGED <<sealed, sealing>>
<1> USE DEF BlocksOK, Kept, irVars
<1>1. UNCHANGED <<sealed, sealing>>
  BY DEF SSAStep
<1> SUFFICES Kept
  BY <1>1
<1>2. CASE ReadHit
  BY <1>2 DEF ReadHit
<1>3. CASE ReadUnsealed
  <2>1. AddEmptyPhi(Top.bb) /\ UNCHANGED <<preds, code, status>>
    BY <1>3 DEF ReadUnsealed
  <2>2. DOMAIN defs' = DOMAIN defs /\ DOMAIN incomplete' = DOMAIN incomplete
    BY <1>3 DEF ReadUnsealed, WriteLocalVariable
  <2> QED BY <2>1, <2>2, AddEmptyPhiKeeps
<1>4. CASE ReadSinglePredecessor
  BY <1>4 DEF ReadSinglePredecessor
<1>5. CASE ReadJoin
  <2>1. CASE Die("abort")
    BY <2>1 DEF Die
  <2>2. CASE ~ Die("abort")
    <3>1. /\ AddEmptyPhi(Top.bb) /\ WriteLocalVariable(Top.bb, Top.var, Null)
          /\ UNCHANGED <<preds, code, incomplete, status>>
      BY <1>5, <2>2 DEF ReadJoin
    <3> QED BY <3>1, AddEmptyPhiKeeps DEF WriteLocalVariable
  <2> QED BY <2>1, <2>2
<1>6. CASE WriteAndReturn
  BY <1>6 DEF WriteAndReturn, Die, WriteLocalVariable
<1>7. CASE FillRead
  BY <1>7 DEF FillRead
<1>8. CASE FillAdd
  BY <1>8 DEF FillAdd, AddIncoming
<1>9. CASE FillDone
  BY <1>9 DEF FillDone
<1>10. CASE OptErased
  BY <1>10 DEF OptErased, Die
<1>11. CASE OptKeep
  BY <1>11 DEF OptKeep
<1>12. CASE OptReplace
  <2> DEFINE p == Top.phi
             same == IF Deciding(p) = {} THEN Undef ELSE CHOOSE v \in Deciding(p) : TRUE
  <2>1. ReplaceAndErase(p, same) /\ UNCHANGED <<preds, fresh, incomplete, status>>
    BY <1>12 DEF OptReplace
  <2>2. /\ DOMAIN phis' = DOMAIN phis \ {p} /\ DOMAIN users' = DOMAIN users \ {p}
        /\ DOMAIN defs' = DOMAIN defs /\ DOMAIN code' = DOMAIN code
    <3> HIDE DEF same, p
    <3> QED BY <2>1 DEF ReplaceAndErase
  <2> QED BY <2>1, <2>2
<1>13. CASE ReoptNext
  BY <1>13 DEF ReoptNext
<1>14. CASE ReoptDone
  BY <1>14 DEF ReoptDone
<1> QED
  BY <1>1, <1>2, <1>3, <1>4, <1>5, <1>6, <1>7, <1>8, <1>9, <1>10, <1>11, <1>12,
     <1>13, <1>14 DEF SSAStep

\* A step that keeps the blocks and everything the driver and sealBlock own
\* keeps the invariant.
IInv == BlocksOK /\ ControlShape /\ SealDiscipline

\* A step that keeps the blocks and the driver's state keeps the invariant.
LEMMA KeptPreserves ==
  ASSUME IInv, Kept, UNCHANGED <<sealed, driverVars>>,
         sealing' \in Blocks \cup {NoBlock}, 
         sealing' # NoBlock => ~ Emitting /\ sealq # <<>> /\ sealing' = Head(sealq)
  PROVE  IInv'
<1>1. BlocksOK'
  BY DEF IInv, BlocksOK, Kept, driverVars, Blocks
<1>2. ControlShape'
  BY DEF IInv, ControlShape, driverVars, Emitting, Kept
<1>3. SealDiscipline'
  BY ZenonT(60) DEF IInv, SealDiscipline, UpcomingOpen, OwedOpen, OwedOnce, QueueOnce, OpenOwed,
         Kept, driverVars, Blocks, Upcoming, Emitting, Owed
<1> QED BY <1>1, <1>2, <1>3 DEF IInv

-----------------------------------------------------------------------------
(* Sealing.                                                                 *)

\* Taking the head off a queue without repetitions.
LEMMA TailSet ==
  ASSUME NEW S, NEW s \in Seq(S), s # <<>>,
         \A i, j \in DOMAIN s : i # j => s[i] # s[j]
  PROVE  /\ Tail(s) \in Seq(S) /\ Head(s) \in S
         /\ ToSet(Tail(s)) = ToSet(s) \ {Head(s)}
         /\ Head(s) \in ToSet(s)
         /\ \A i, j \in DOMAIN Tail(s) : i # j => Tail(s)[i] # Tail(s)[j]
<1>1. /\ Tail(s) \in Seq(S) /\ Len(Tail(s)) = Len(s) - 1 /\ Head(s) = s[1]
      /\ \A i \in 1 .. Len(s) - 1 : Tail(s)[i] = s[i + 1]
      /\ Len(s) \in Nat \ {0} /\ DOMAIN s = 1 .. Len(s) /\ Head(s) \in S
      /\ DOMAIN Tail(s) = 1 .. Len(s) - 1
  OBVIOUS
<1>2. ASSUME NEW e \in ToSet(s), e # Head(s)
      PROVE  e \in ToSet(Tail(s))
  <2>1. PICK i \in 1 .. Len(s) : e = s[i]
    BY <1>1 DEF ToSet
  <2>2. i - 1 \in 1 .. Len(s) - 1 /\ Tail(s)[i - 1] = e
    BY <1>1, <1>2, <2>1
  <2> QED BY <2>2, <1>1 DEF ToSet
<1>3. ASSUME NEW e \in ToSet(Tail(s))
      PROVE  e \in ToSet(s) /\ e # Head(s)
  <2>1. PICK i \in 1 .. Len(s) - 1 : e = Tail(s)[i]
    BY <1>1, <1>3 DEF ToSet
  <2>2. i + 1 \in DOMAIN s /\ 1 \in DOMAIN s /\ e = s[i + 1]
    BY <1>1, <2>1
  <2> QED BY <2>2, <1>1 DEF ToSet
<1>4. Head(s) \in ToSet(s)
  BY <1>1 DEF ToSet
<1>5. \A i, j \in DOMAIN Tail(s) : i # j => Tail(s)[i] # Tail(s)[j]
  BY <1>1
<1> QED BY <1>1, <1>2, <1>3, <1>4, <1>5

\* sealBlock starts on the block at the head of the queue.
LEMMA SealStartPreserves ==
  ASSUME IInv, Seal
  PROVE  IInv'
<1>1. Kept /\ UNCHANGED <<sealed, driverVars>>
  BY DEF Seal, SealStart, Kept, irVars, IInv, BlocksOK
<1>2. Head(sealq) \in Blocks \cup {NoBlock}
  <2>1. Head(sealq) \in ToSet(sealq)
    BY TailSet DEF IInv, BlocksOK, SealDiscipline, QueueOnce, Seal
  <2> QED BY <2>1 DEF IInv, SealDiscipline, UpcomingOpen, Upcoming
<1>3. sealing' \in {sealing, Head(sealq)}
  BY DEF Seal, SealStart
<1> QED BY <1>1, <1>2, <1>3, KeptPreserves
     DEF IInv, BlocksOK, ControlShape, Seal, Emitting

\* sealBlock's loop fills one incomplete phi.
LEMMA SealPhiPreserves ==
  ASSUME IInv, SealStep
  PROVE  IInv'
<1>1. Kept /\ UNCHANGED <<sealed, sealing, driverVars>>
  BY DEF SealStep, SealPhi, Kept, irVars, IInv, BlocksOK
<1> QED BY <1>1, KeptPreserves DEF IInv, BlocksOK, ControlShape, Emitting

\* readLocalVariable ... optimizePhi.
LEMMA SSAStepPreserves ==
  ASSUME IInv, Step
  PROVE  IInv'
<1>1. Kept /\ UNCHANGED <<sealed, sealing, driverVars>>
  BY SSAStepKeeps DEF Step, IInv
<1> QED BY <1>1, KeptPreserves DEF IInv, BlocksOK, ControlShape, Emitting

\* sealBlock is done: the block leaves the queue and is sealed.
LEMMA SealEndPreserves ==
  ASSUME IInv, SealEnd
  PROVE  IInv'
<1>1. /\ UNCHANGED <<irVars, defs, calls, status, pc, curr, ctl, pos, stmt, vals, next>>
      /\ sealing # NoBlock /\ sealing' = NoBlock /\ sealed' = sealed \cup {sealing}
      /\ incomplete' = [incomplete EXCEPT ![sealing] = {}]
      /\ sealq' = Tail(sealq)
  BY DEF SealEnd, SealFinish
<1>2. sealing = Head(sealq) /\ sealq # <<>> /\ ~ Emitting /\ pc # "done"
  BY <1>1 DEF IInv, ControlShape
<1>3. /\ Tail(sealq) \in Seq(Nat)
      /\ ToSet(Tail(sealq)) = ToSet(sealq) \ {sealing}
      /\ sealing \in ToSet(sealq)
      /\ \A i, j \in DOMAIN Tail(sealq) : i # j => Tail(sealq)[i] # Tail(sealq)[j]
  BY <1>2, TailSet DEF IInv, BlocksOK, SealDiscipline, QueueOnce
<1>4. BlocksOK'
  BY <1>1, <1>3 DEF IInv, BlocksOK, Blocks, irVars
<1>5. ControlShape'
  BY <1>1, <1>2 DEF IInv, ControlShape, Emitting
<1>6. Upcoming' = Upcoming \ {sealing} /\ Blocks' = Blocks /\ sealing \in Upcoming
  BY <1>1, <1>2, <1>3
     DEF Upcoming, Emitting, Blocks, irVars, IInv, SealDiscipline, QueueOnce
<1>7. SealDiscipline'
  <2> USE <1>1, <1>6 DEF IInv, SealDiscipline
  <2>1. UpcomingOpen'
    BY DEF UpcomingOpen
  <2>2. OwedOpen'
    BY DEF UpcomingOpen, OwedOpen, Owed
  <2>3. OwedOnce'
    BY DEF OwedOnce, Owed
  <2>4. QueueOnce'
    BY <1>3 DEF QueueOnce
  <2>5. OpenOwed'
    BY DEF OpenOwed, Owed
  <2> QED BY <2>1, <2>2, <2>3, <2>4, <2>5
<1> QED BY <1>4, <1>5, <1>7 DEF IInv

\* The innermost frame, and the frames around it.
LEMMA LastFrame ==
  ASSUME BlocksOK, ctl # <<>>
  PROVE  /\ Last(ctl) = ctl[Len(ctl)] /\ Last(ctl) \in Frames
         /\ Len(ctl) \in DOMAIN ctl /\ Len(ctl) \in Nat /\ DOMAIN ctl = 1 .. Len(ctl)
         /\ Front(ctl) \in Seq(Frames) /\ DOMAIN Front(ctl) = 1 .. Len(ctl) - 1
         /\ \A i \in 1 .. Len(ctl) - 1 : Front(ctl)[i] = ctl[i]
<1>1. ctl \in Seq(Frames)
  BY DEF BlocksOK
<1>2. /\ Front(ctl) \in Seq(Frames) /\ Len(Front(ctl)) = Len(ctl) - 1
      /\ \A i \in 1 .. Len(ctl) - 1 : Front(ctl)[i] = ctl[i]
      /\ Last(ctl) = ctl[Len(ctl)] /\ Len(ctl) \in Nat \ {0} /\ Last(ctl) \in Frames
  BY <1>1, FrontLast
<1> QED BY <1>1, <1>2

\* setCurr: the block that was next becomes the current one.
LEMMA SetCurrPreserves ==
  ASSUME IInv, SetCurr
  PROVE  IInv'
<1>1. /\ UNCHANGED <<ssaVars, ctl, pos, stmt, vals, sealq>>
      /\ pc = "seal" /\ sealing = NoBlock /\ sealq = <<>>
      /\ curr' = next /\ next' = NoBlock
      /\ pc' = IF next = NoBlock THEN "done"
               ELSE IF Begun THEN "operands" ELSE "fetch"
  BY DEF SetCurr, At
<1>2. BlocksOK'
  BY <1>1 DEF IInv, BlocksOK, Blocks, ssaVars, irVars, NoBlock
<1>3. ControlShape'
  <2>1. ctl # <<>> => Last(ctl) = ctl[Len(ctl)] /\ Len(ctl) \in DOMAIN ctl
    BY LastFrame DEF IInv
  <2> QED
    BY <1>1, <2>1 DEF IInv, ControlShape, Emitting, Begun, ssaVars, irVars, NoStmt
<1>4. Upcoming' = Upcoming /\ Blocks' = Blocks
  BY <1>1 DEF Upcoming, Emitting, Blocks, ssaVars, irVars, ToSet
<1>5. SealDiscipline'
  <2> USE <1>1, <1>4 DEF IInv, SealDiscipline, ssaVars
  <2>1. UpcomingOpen'
    BY DEF UpcomingOpen
  <2>2. OwedOpen'
    BY DEF OwedOpen, Owed
  <2>3. OwedOnce'
    BY DEF OwedOnce, Owed
  <2>4. QueueOnce'
    BY DEF QueueOnce, ToSet
  <2>5. OpenOwed'
    BY DEF OpenOwed, Owed
  <2> QED BY <2>1, <2>2, <2>3, <2>4, <2>5
<1> QED BY <1>2, <1>3, <1>5 DEF IInv

-----------------------------------------------------------------------------
(* Statements that neither create nor leave a block.                        *)

\* Code that goes into existing blocks.
LEMMA EmitKeeps ==
  ASSUME BlocksOK, NEW es, Emit(es, 0)
  PROVE  DOMAIN code' = DOMAIN code
  BY DEF Emit, BlocksOK, Blocks

\* The emitters that create no block and seal none, and leave the frames alone.
LEMMA StraightLinePreserves ==
  ASSUME IInv, Kept, Emitting, Emitting',
         UNCHANGED <<sealed, sealing, curr, ctl, sealq, next>>,
         pos' \in Nat \ {0}, stmt' \in Statements \cup {NoStmt},
         pc' = "fetch" => stmt' = NoStmt, pc' = "operands" => stmt' # NoStmt,
         \/ stmt' = stmt /\ pc' = pc
         \/ {stmt.kind, stmt'.kind} \cap {"if", "while"} = {}
  PROVE  IInv'
<1>1. BlocksOK'
  BY DEF IInv, BlocksOK, Kept, Blocks, Emitting
<1>2. ControlShape'
  BY DEF IInv, ControlShape, Emitting, Kept
<1>3. Upcoming' = Upcoming /\ Blocks' = Blocks
  BY DEF Upcoming, Blocks, Kept
<1>4. SealDiscipline'
  BY <1>3 DEF IInv, SealDiscipline, UpcomingOpen, OwedOpen, OwedOnce, QueueOnce, OpenOwed,
         Owed
<1> QED BY <1>1, <1>2, <1>4 DEF IInv

\* A statement that emit() can take next.
LEMMA OfferedStatement ==
  ASSUME BlocksOK, NEW kinds, NEW s \in Offered(kinds)
  PROVE  /\ s \in Statements /\ s.kind \in kinds
         /\ Idle /\ sealing = NoBlock /\ pc = "fetch"
         /\ {pos, pos + 1} \subseteq Nat \ {0} /\ stmt \in {NoStmt, s}
<1>1. /\ At("fetch") /\ s.kind \in kinds
      /\ \/ stmt # NoStmt /\ s = stmt
         \/ stmt = NoStmt /\ pos <= Len(Menu) /\ s \in Menu[pos]
  BY DEF Offered
<1>2. {pos, pos + 1} \subseteq Nat \ {0}
  BY DEF BlocksOK
<1>3. CASE stmt # NoStmt /\ s = stmt
  BY <1>1, <1>2, <1>3 DEF At, BlocksOK
<1>4. CASE stmt = NoStmt /\ pos <= Len(Menu) /\ s \in Menu[pos]
  <2>1. pos \in 1 .. Len(Menu)
    BY <1>2, <1>4, MenuAssumption
  <2>2. Menu[pos] \in SUBSET Statements
    BY <2>1, MenuAssumption
  <2> QED BY <1>1, <1>2, <1>4, <2>2 DEF At
<1> QED BY <1>1, <1>3, <1>4

\* emit() starts an assignment or a RETURN.
LEMMA BeginSimplePreserves ==
  ASSUME IInv, BeginSimple
  PROVE  IInv'
<1>1. PICK s \in Offered({"const", "copy", "op", "return"}) : Fetch(s)
  BY DEF BeginSimple
<1>2. /\ s \in Statements /\ s.kind \in {"const", "copy", "op", "return"}
      /\ pc = "fetch" /\ stmt' = s /\ pos' \in Nat \ {0} /\ stmt \in {NoStmt, s}
  BY <1>1, OfferedStatement DEF Fetch, IInv
<1>3. stmt' # NoStmt /\ stmt.kind \in {"none", s.kind}
  BY <1>2 DEF NoStmt
<1>4. Kept /\ UNCHANGED <<sealed, sealing, curr, ctl, sealq, next>> /\ pc' = "operands"
  BY DEF BeginSimple, ssaVars, irVars, Kept, IInv, BlocksOK
<1> QED
  BY <1>2, <1>3, <1>4, StraightLinePreserves DEF Emitting, IInv, BlocksOK

\* readVariable of a variable kept in registers.
LEMMA ReadLocalPreserves ==
  ASSUME IInv, ReadLocal
  PROVE  IInv'
  BY KeptPreserves DEF ReadLocal, Wanted, At, irVars, Kept, IInv, BlocksOK

\* The value read becomes an operand.
LEMMA TakeOperandPreserves ==
  ASSUME IInv, TakeOperand
  PROVE  IInv'
<1>1. Kept /\ UNCHANGED <<sealed, sealing, pc, curr, ctl, pos, stmt, sealq, next>>
  BY DEF TakeOperand, irVars, Kept, IInv, BlocksOK
<1> QED
  BY <1>1, StraightLinePreserves DEF TakeOperand, At, Emitting, IInv, BlocksOK, ControlShape

\* readVariable of a variable in memory.
LEMMA LoadMemoryPreserves ==
  ASSUME IInv, LoadMemory
  PROVE  IInv'
<1>1. Kept /\ UNCHANGED <<sealed, sealing, pc, curr, ctl, pos, stmt, sealq, next>>
  BY EmitKeeps DEF LoadMemory, Kept, IInv, BlocksOK
<1> QED
  BY <1>1, StraightLinePreserves
     DEF LoadMemory, Wanted, At, Emitting, IInv, BlocksOK, ControlShape

\* The assignments that succeed, and RETURN.
LEMMA AssignmentPreserves ==
  ASSUME IInv, AssignLocal \/ AssignGlobal \/ EmitReturn
  PROVE  IInv'
<1>1. /\ UNCHANGED <<sealed, sealing, curr, ctl, pos, sealq, next>>
      /\ pc = "operands" /\ pc' = "fetch" /\ stmt' = NoStmt
      /\ stmt.kind \in {"const", "copy", "op", "return"}
  BY DEF AssignLocal, AssignGlobal, EmitReturn, Complete, At, NextStatement
<1>2. DOMAIN code' = DOMAIN code
  BY EmitKeeps DEF AssignLocal, AssignGlobal, EmitReturn, IInv
<1>3. DOMAIN defs' = DOMAIN defs /\ status' \in {"run", "abort", "ub", "crash"}
  BY DEF AssignLocal, AssignGlobal, EmitReturn, WriteLocalVariable, IInv, BlocksOK
<1>4. Kept
  BY <1>2, <1>3 DEF Kept, AssignLocal, AssignGlobal, EmitReturn, IInv, BlocksOK
<1>5. stmt'.kind = "none"
  BY <1>1 DEF NoStmt
<1> QED
  BY <1>1, <1>4, <1>5, StraightLinePreserves DEF Emitting, IInv, BlocksOK

\* The assignment to a VAR parameter stops the compiler.
LEMMA AssignVarParameterPreserves ==
  ASSUME IInv, AssignVarParameter
  PROVE  IInv'
<1>1. Kept /\ UNCHANGED <<sealed, sealing, driverVars>>
  BY EmitKeeps DEF AssignVarParameter, Kept, IInv, BlocksOK
<1> QED
  BY <1>1, KeptPreserves DEF IInv, BlocksOK, ControlShape, Emitting

-----------------------------------------------------------------------------
(* IF and WHILE create blocks and push a frame that owns them.              *)

DistinctParts(f) ==
  /\ f.body # NoBlock => f.body \notin {f.els, f.cond, f.after}
  /\ f.els # NoBlock => f.els \notin {f.cond, f.after}
  /\ f.cond # f.after

\* A new frame owns exactly the blocks created with it, except those in E, which are
\* upcoming.
LEMMA PushDiscipline ==
  ASSUME IInv, NEW f, NEW E, ctl' = Append(ctl, f), sealed' = sealed,
         Blocks \subseteq Blocks', Blocks' \ Blocks = Owed(f) \cup E,
         Owed(f) \cap E = {}, Upcoming' = Upcoming \cup E,
         DistinctParts(f), QueueOnce'
  PROVE  SealDiscipline'
<1>1. /\ Len(ctl) \in Nat /\ DOMAIN ctl = 1 .. Len(ctl) /\ DOMAIN ctl' = 1 .. Len(ctl) + 1
      /\ ctl'[Len(ctl) + 1] = f /\ \A i \in DOMAIN ctl : ctl'[i] = ctl[i]
  BY DEF IInv, BlocksOK
<1>2. /\ UpcomingOpen /\ OwedOpen /\ OwedOnce /\ OpenOwed
      /\ sealed \subseteq Blocks
  BY DEF IInv, SealDiscipline, BlocksOK
<1>3. \A i \in DOMAIN ctl : Owed(ctl[i]) \subseteq Blocks \ sealed
  BY <1>2 DEF OwedOpen
<1>4. \A i \in DOMAIN ctl' : i \in DOMAIN ctl \/ (i = Len(ctl) + 1 /\ i \notin DOMAIN ctl)
  BY <1>1
<1>5. UpcomingOpen'
  BY <1>2 DEF UpcomingOpen
<1>6. OwedOpen'
  <2> SUFFICES ASSUME NEW i \in DOMAIN ctl'
               PROVE  Owed(ctl'[i]) \subseteq (Blocks' \ sealed') \ Upcoming'
    BY DEF OwedOpen, Owed
  <2>1. CASE i \in DOMAIN ctl
    BY <1>1, <1>2, <1>3, <2>1 DEF OwedOpen
  <2>2. CASE i = Len(ctl) + 1
    BY <1>1, <1>2, <2>2 DEF UpcomingOpen
  <2> QED BY <1>4, <2>1, <2>2
<1>7. OwedOnce'
  <2>1. \A i, j \in DOMAIN ctl' : i # j => Owed(ctl'[i]) \cap Owed(ctl'[j]) = {}
    <3> SUFFICES ASSUME NEW i \in DOMAIN ctl', NEW j \in DOMAIN ctl', i # j
                 PROVE  Owed(ctl'[i]) \cap Owed(ctl'[j]) = {}
      OBVIOUS
    <3>1. CASE i \in DOMAIN ctl /\ j \in DOMAIN ctl
      BY <1>1, <1>2, <3>1 DEF OwedOnce
    <3>2. CASE i \in DOMAIN ctl /\ j \notin DOMAIN ctl
      <4>1. ctl'[i] = ctl[i] /\ ctl'[j] = f
        BY <1>1, <1>4, <3>2
      <4> QED BY <1>3, <3>2, <4>1
    <3>3. CASE i \notin DOMAIN ctl /\ j \in DOMAIN ctl
      <4>1. ctl'[j] = ctl[j] /\ ctl'[i] = f
        BY <1>1, <1>4, <3>3
      <4> QED BY <1>3, <3>3, <4>1
    <3> QED BY <1>4, <3>1, <3>2, <3>3
  <2>2. \A i \in DOMAIN ctl : DistinctParts(ctl[i])
    BY <1>2 DEF OwedOnce, DistinctParts
  <2>3. \A i \in DOMAIN ctl' : DistinctParts(ctl'[i])
    <3> HIDE DEF DistinctParts
    <3> QED BY <1>1, <1>4, <2>2
  <2> QED BY <2>1, <2>3 DEF OwedOnce, DistinctParts, Owed
<1>8. OpenOwed'
  <2> SUFFICES ASSUME NEW b \in Blocks' \ sealed', b \notin Upcoming'
               PROVE  \E i \in DOMAIN ctl' : b \in Owed(ctl'[i])
    BY DEF OpenOwed, Owed
  <2>1. CASE b \in Owed(f)
    BY <1>1, <2>1
  <2>2. CASE b \in Blocks
    <3>1. PICK i \in DOMAIN ctl : b \in Owed(ctl[i])
      BY <1>2, <2>2 DEF OpenOwed
    <3> QED BY <1>1, <3>1
  <2> QED BY <2>1, <2>2
<1> QED BY <1>5, <1>6, <1>7, <1>8 DEF SealDiscipline

\* An IF or a WHILE says whether it has an ELSE part.
LEMMA ControlStatement ==
  ASSUME NEW s \in Statements, s.kind \in {"if", "while"}
  PROVE  s.els \in BOOLEAN /\ s # NoStmt
<1>1. s.els \in BOOLEAN
  BY DEF Statements, SimpleKinds
<1> QED BY <1>1 DEF NoStmt

\* What BeginIf, BeginWhileReusing and BeginWhile have in common.
LEMMA PushPreserves ==
  ASSUME IInv, NEW n \in Nat, NEW to, NEW es, NEW f \in Frames, NEW s \in Statements,
         Grow(n, to), Emit(es, n), ctl' = Append(ctl, f),
         pc = "fetch", stmt' = s, pos' \in Nat \ {0},
         s.kind = (IF f.kind = "while" THEN "while" ELSE "if"),
         UNCHANGED <<phis, users, fresh, sealed, sealing, status, curr>>,
         \/ pc' = "operands" /\ UNCHANGED <<sealq, next>>
         \/ pc' = "seal" /\ sealq' = <<curr>> /\ next' \in Blocks' \ Blocks,
         f.body # NoBlock, f.after # NoBlock, f.cond = NoBlock,
         f.kind = "while" => f.els = NoBlock,
         f.els # NoBlock => f.kind = "then",
         Owed(f) \subseteq Blocks' \ Blocks,
         Upcoming' = Upcoming \cup ((Blocks' \ Blocks) \ Owed(f)),
         DistinctParts(f)
  PROVE  IInv'
<1>1. /\ curr \in Blocks /\ next = NoBlock /\ sealq = <<>> /\ curr # NoBlock
      /\ sealing = NoBlock
  BY DEF IInv, ControlShape, SealDiscipline, UpcomingOpen, Upcoming, Emitting
<1>2. /\ preds' \in Seq(Seq(Nat)) /\ Len(preds) \in Nat
      /\ Blocks = 1 .. Len(preds) /\ Blocks' = 1 .. Len(preds) + n
      /\ DOMAIN defs' = Blocks' /\ DOMAIN incomplete' = Blocks'
      /\ \A b \in Blocks' : \A i \in DOMAIN preds'[b] : preds'[b][i] \in Blocks'
  <2>1. BlocksOK /\ Len(preds) \in Nat
    BY DEF IInv, BlocksOK
  <2> QED BY <1>1, <2>1, GrowFacts
<1>3. Blocks \subseteq Blocks' /\ 0 \notin Blocks' /\ Blocks' \subseteq Nat
  BY <1>2
<1>4. DOMAIN code' = Blocks'
  BY <1>2 DEF Emit
<1>5. s # NoStmt /\ s.kind \in {"if", "while"}
  BY ControlStatement
<1>6. pc' \in {"operands", "seal"} /\ sealq' \in Seq(Nat) /\ next' \in Nat /\ curr \in Nat
  <2>1. curr \in Nat /\ <<>> \in Seq(Nat) /\ <<curr>> \in Seq(Nat)
    BY <1>1, <1>3
  <2>2. sealq' \in {<<>>, <<curr>>} /\ next' \in Blocks' \cup {0}
    BY <1>1 DEF NoBlock
  <2>3. sealq' \in Seq(Nat)
    BY <2>1, <2>2, Zenon
  <2>4. next' \in Nat
    BY <1>3, <2>2
  <2> QED BY <2>1, <2>3, <2>4
<1>7. BlocksOK'
  BY <1>2, <1>3, <1>4, <1>6 DEF IInv, BlocksOK
<1>8. ControlShape'
  <2>1. /\ Len(ctl) \in Nat /\ DOMAIN ctl = 1 .. Len(ctl)
        /\ DOMAIN ctl' = 1 .. Len(ctl) + 1 /\ Len(ctl') = Len(ctl) + 1
        /\ ctl'[Len(ctl) + 1] = f /\ \A i \in DOMAIN ctl : ctl'[i] = ctl[i]
        /\ ctl' # <<>>
    <3>1. ctl \in Seq(Frames)
      BY DEF IInv, BlocksOK
    <3> HIDE DEF IInv
    <3> QED BY <3>1
  <2>2. \A i \in DOMAIN ctl : ctl[i].body = NoBlock
    BY DEF IInv, ControlShape
  <2>3. pc' = "seal" => next' # NoBlock
    BY <1>3, <1>6 DEF NoBlock
  <2> QED
    BY <1>1, <1>5, <1>6, <2>1, <2>2, <2>3 DEF IInv, ControlShape, Emitting
<1>9. QueueOnce'
  BY <1>1 DEF QueueOnce, ToSet
<1>10. SealDiscipline'
  <2> DEFINE E == (Blocks' \ Blocks) \ Owed(f)
  <2>1. Blocks' \ Blocks = Owed(f) \cup E /\ Owed(f) \cap E = {}
    OBVIOUS
  <2> HIDE DEF E
  <2>2. Upcoming' = Upcoming \cup E
    BY DEF E
  <2> QED BY <1>3, <1>9, <2>1, <2>2, PushDiscipline
<1> QED BY <1>7, <1>8, <1>10 DEF IInv

\* The blocks of an IF are created.
LEMMA BeginIfPreserves ==
  ASSUME IInv, BeginIf
  PROVE  IInv'
<1>1. PICK s \in Offered({"if"}) :
        /\ Fetch(s)
        /\ LET n == IF s.els THEN 3 ELSE 2
           IN  /\ ctl' = Append(ctl, [kind |-> "then", body |-> NewBlock(1),
                           els |-> IF s.els THEN NewBlock(2) ELSE NoBlock,
                           cond |-> NoBlock, after |-> NewBlock(n)])
               /\ Grow(n, {}) /\ Emit(<<>>, n)
  BY DEF BeginIf
<1> DEFINE n == IF s.els THEN 3 ELSE 2
           f == [kind |-> "then", body |-> NewBlock(1),
                 els |-> IF s.els THEN NewBlock(2) ELSE NoBlock,
                 cond |-> NoBlock, after |-> NewBlock(n)]
<1>2. ctl' = Append(ctl, f) /\ Grow(n, {}) /\ Emit(<<>>, n) /\ n \in Nat
  BY <1>1
<1>3. /\ s \in Statements /\ s.kind = "if" /\ sealing = NoBlock /\ pc = "fetch"
      /\ {pos, pos + 1} \subseteq Nat \ {0}
  BY OfferedStatement DEF IInv
<1>4. s.els \in BOOLEAN
  BY <1>3, ControlStatement
<1>5. /\ UNCHANGED <<phis, users, fresh, sealed, sealing, status, curr, sealq, next>>
      /\ pc' = "operands" /\ stmt' = s /\ pos' \in {pos, pos + 1}
  BY <1>1 DEF BeginIf, Fetch
<1>6. curr \in Blocks
  BY <1>3 DEF IInv, ControlShape, SealDiscipline, UpcomingOpen, Upcoming, Emitting
<1>7. /\ Len(preds) \in Nat /\ Blocks = 1 .. Len(preds) /\ Blocks' = 1 .. Len(preds) + n
  <2> HIDE DEF n
  <2> QED BY <1>2, <1>6, GrowFacts DEF IInv, BlocksOK
<1>8. f \in Frames
  BY <1>4, <1>7 DEF Frames, NewBlock, NoBlock
<1>9. Blocks' \ Blocks = Owed(f)
  <2>1. CASE s.els
    BY <1>7, <2>1 DEF Owed, NewBlock, NoBlock
  <2>2. CASE ~ s.els
    BY <1>7, <2>2 DEF Owed, NewBlock, NoBlock
  <2> QED BY <2>1, <2>2
<1>10. Upcoming' = Upcoming
  BY <1>3, <1>5 DEF Upcoming, Emitting
<1>11. DistinctParts(f) /\ f.body # NoBlock /\ f.after # NoBlock
  BY <1>7 DEF DistinctParts, NewBlock, NoBlock
<1>12. /\ f.kind = "then" /\ f.cond = NoBlock /\ s.kind = (IF f.kind = "while" THEN "while" ELSE "if")
  BY <1>3
<1> HIDE DEF f, n
<1>13. /\ Owed(f) \subseteq Blocks' \ Blocks
       /\ Upcoming' = Upcoming \cup ((Blocks' \ Blocks) \ Owed(f)) /\ pos' \in Nat \ {0}
       /\ f.kind = "while" => f.els = NoBlock
       /\ f.els # NoBlock => f.kind = "then"
       /\ pc' = "operands" /\ UNCHANGED <<sealq, next>>
       /\ UNCHANGED <<phis, users, fresh, sealed, sealing, status, curr>>
  BY <1>3, <1>5, <1>9, <1>10, <1>12
<1> QED
  BY <1>2, <1>3, <1>5, <1>8, <1>11, <1>12, <1>13, PushPreserves, Zenon

\* A WHILE takes over the empty current block for its condition.
LEMMA BeginWhileReusingPreserves ==
  ASSUME IInv, BeginWhileReusing
  PROVE  IInv'
<1>1. PICK s \in Offered({"while"}) : Fetch(s)
  BY DEF BeginWhileReusing
<1>2. /\ ctl' = Append(ctl, WhileFrame) /\ Grow(2, {}) /\ Emit(<<>>, 2)
      /\ UNCHANGED <<phis, users, fresh, sealed, sealing, status, curr, sealq, next>>
      /\ pc' = "operands" /\ stmt' = s /\ pos' \in {pos, pos + 1}
  BY <1>1 DEF BeginWhileReusing, Fetch
<1>3. /\ s \in Statements /\ s.kind = "while" /\ sealing = NoBlock /\ pc = "fetch"
      /\ {pos, pos + 1} \subseteq Nat \ {0}
  BY OfferedStatement DEF IInv
<1>4. curr \in Blocks
  BY <1>3 DEF IInv, ControlShape, SealDiscipline, UpcomingOpen, Upcoming, Emitting
<1>5. /\ Len(preds) \in Nat /\ Blocks = 1 .. Len(preds) /\ Blocks' = 1 .. Len(preds) + 2
  <2>1. BlocksOK /\ Len(preds) \in Nat
    BY DEF IInv, BlocksOK
  <2> QED BY <1>2, <1>4, <2>1, GrowFacts
<1>6. Blocks' \ Blocks = Owed(WhileFrame)
  BY <1>5 DEF Owed, NewBlock, NoBlock, WhileFrame
<1>7. Upcoming' = Upcoming
  BY <1>2, <1>3 DEF Upcoming, Emitting
<1> DEFINE f == WhileFrame
<1>8. /\ f \in Frames /\ f.kind = "while" /\ f.cond = NoBlock /\ f.els = NoBlock
      /\ DistinctParts(f) /\ f.body # NoBlock /\ f.after # NoBlock
  BY <1>5 DEF DistinctParts, NewBlock, NoBlock, WhileFrame, Frames
<1>9. /\ 2 \in Nat /\ ctl' = Append(ctl, f) /\ Owed(f) \subseteq Blocks' \ Blocks
      /\ Upcoming' = Upcoming \cup ((Blocks' \ Blocks) \ Owed(f)) /\ pos' \in Nat \ {0}
      /\ s.kind = (IF f.kind = "while" THEN "while" ELSE "if")
      /\ f.kind = "while" => f.els = NoBlock
      /\ f.els # NoBlock => f.kind = "then"
      /\ pc' = "operands" /\ UNCHANGED <<sealq, next>>
      /\ UNCHANGED <<phis, users, fresh, sealed, sealing, status, curr>>
  BY <1>2, <1>3, <1>6, <1>7, <1>8
<1> HIDE DEF f
<1> QED
  BY <1>2, <1>3, <1>8, <1>9, PushPreserves, Zenon

\* A WHILE gets a block of its own for its condition.
LEMMA BeginWhilePreserves ==
  ASSUME IInv, BeginWhile
  PROVE  IInv'
<1>1. PICK s \in Offered({"while"}) : Fetch(s)
  BY DEF BeginWhile
<1> DEFINE b == NewBlock(3)
           es == <<Branch(b)>>
<1>2. /\ ctl' = Append(ctl, WhileFrame) /\ Grow(3, {b}) /\ Emit(es, 3)
      /\ UNCHANGED <<phis, users, fresh, sealed, sealing, status, curr>>
      /\ pc' = "seal" /\ sealq' = <<curr>> /\ next' = b /\ stmt' = s /\ pos' \in {pos, pos + 1}
  BY <1>1 DEF BeginWhile, Fetch, SealThen
<1>3. /\ s \in Statements /\ s.kind = "while" /\ sealing = NoBlock /\ pc = "fetch"
      /\ {pos, pos + 1} \subseteq Nat \ {0}
  BY OfferedStatement DEF IInv
<1>4. curr \in Blocks /\ next = NoBlock /\ sealq = <<>> /\ curr # NoBlock
  BY <1>3 DEF IInv, ControlShape, SealDiscipline, UpcomingOpen, Upcoming, Emitting
<1>5. /\ Len(preds) \in Nat /\ Blocks = 1 .. Len(preds) /\ Blocks' = 1 .. Len(preds) + 3
  <2>1. BlocksOK /\ Len(preds) \in Nat
    BY DEF IInv, BlocksOK
  <2> QED BY <1>2, <1>4, <2>1, GrowFacts
<1>6. /\ Owed(WhileFrame) \subseteq Blocks' \ Blocks
      /\ (Blocks' \ Blocks) \ Owed(WhileFrame) = {b}
      /\ b \in Blocks' \ Blocks /\ b # NoBlock
  BY <1>5 DEF Owed, NewBlock, NoBlock, WhileFrame
<1>7. Upcoming' = Upcoming \cup ((Blocks' \ Blocks) \ Owed(WhileFrame))
  BY <1>2, <1>3, <1>4, <1>6 DEF Upcoming, Emitting, ToSet
<1> DEFINE f == WhileFrame
<1>8. /\ f \in Frames /\ f.kind = "while" /\ f.cond = NoBlock /\ f.els = NoBlock
      /\ DistinctParts(f) /\ f.body # NoBlock /\ f.after # NoBlock
  BY <1>5 DEF DistinctParts, NewBlock, NoBlock, WhileFrame, Frames
<1> HIDE DEF f, b, es
<1> QED
  BY <1>2, <1>3, <1>6, <1>7, <1>8, PushPreserves, Zenon DEF f

-----------------------------------------------------------------------------
(* Branches and ends of statements hand blocks over from a frame.           *)

\* No block is created; the edges a step adds come from existing blocks.
SameBlocks ==
  /\ preds' \in Seq(Seq(Nat)) /\ Blocks' = Blocks
  /\ \A b \in Blocks' : \A i \in DOMAIN preds'[b] : preds'[b][i] \in Blocks'
  /\ DOMAIN code' = Blocks /\ DOMAIN defs' = Blocks /\ DOMAIN incomplete' = Blocks

\* Edges are added, blocks are not.
LEMMA GrowZero ==
  ASSUME BlocksOK, curr \in Blocks, NEW to, NEW es, Grow(0, to), Emit(es, 0)
  PROVE  SameBlocks
<1>1. Len(preds) \in Nat /\ Len(preds) + 0 = Len(preds)
  BY DEF BlocksOK
<1>2. /\ preds' \in Seq(Seq(Nat))
      /\ Blocks = 1 .. Len(preds) /\ Blocks' = 1 .. Len(preds) + 0
      /\ DOMAIN defs' = Blocks' /\ DOMAIN incomplete' = Blocks'
      /\ \A b \in Blocks' : \A i \in DOMAIN preds'[b] : preds'[b][i] \in Blocks'
  <2>1. 0 \in Nat
    OBVIOUS
  <2> QED BY <2>1, GrowFacts
<1>3. DOMAIN code' = 1 .. Len(preds) + 0
  BY DEF Emit
<1> QED BY <1>1, <1>2, <1>3 DEF SameBlocks

\* While a statement is emitted the current block is the only upcoming one.
LEMMA CurrentBlock ==
  ASSUME IInv, Emitting
  PROVE  /\ curr \in Blocks /\ curr # NoBlock /\ Upcoming = {curr}
         /\ next = NoBlock /\ sealq = <<>> /\ sealing = NoBlock
         /\ Blocks \subseteq Nat
<1>1. curr # NoBlock /\ next = NoBlock /\ sealq = <<>> /\ sealing = NoBlock
  BY DEF IInv, ControlShape
<1>2. Upcoming = {curr}
  BY <1>1 DEF Upcoming, ToSet
<1> QED BY <1>1, <1>2 DEF IInv, SealDiscipline, UpcomingOpen, BlocksOK, Blocks

\* The queues the emitters make have one or two blocks.
LEMMA ShortQueues ==
  ASSUME NEW a \in Nat, NEW b \in Nat
  PROVE  /\ <<a>> \in Seq(Nat) /\ <<a, b>> \in Seq(Nat)
         /\ ToSet(<<a>>) = {a} /\ ToSet(<<a, b>>) = {a, b}
  BY DEF ToSet

\* The innermost frame hands blocks over to the driver, or takes the current one.
LEMMA ReplaceDiscipline ==
  ASSUME IInv, ctl # <<>>, NEW g, ctl' = [ctl EXCEPT ![Len(ctl)] = g],
         sealed' = sealed, Blocks' = Blocks,
         Owed(g) \cup Upcoming' = Owed(Last(ctl)) \cup Upcoming,
         Owed(g) \cap Upcoming' = {},
         DistinctParts(g), QueueOnce'
  PROVE  SealDiscipline'
<1> DEFINE n == Len(ctl)
           f == Last(ctl)
<1>1. /\ n \in DOMAIN ctl /\ DOMAIN ctl' = DOMAIN ctl /\ ctl'[n] = g /\ f = ctl[n]
      /\ \A i \in DOMAIN ctl : i # n => ctl'[i] = ctl[i]
  BY LastFrame DEF IInv, BlocksOK
<1>2. UpcomingOpen /\ OwedOpen /\ OwedOnce /\ OpenOwed
  BY DEF IInv, SealDiscipline
<1>3. \A i \in DOMAIN ctl : Owed(ctl[i]) \subseteq (Blocks \ sealed) \ Upcoming
  BY <1>2 DEF OwedOpen
<1>4. \A i \in DOMAIN ctl : i # n => Owed(ctl[i]) \cap Owed(f) = {}
  BY <1>1, <1>2 DEF OwedOnce
<1> HIDE DEF n, f
<1>5. Owed(g) \cup Upcoming' = Owed(f) \cup Upcoming
  BY DEF f
<1>6. \A i \in DOMAIN ctl : i # n =>
        Owed(ctl[i]) \cap Owed(g) = {} /\ Owed(ctl[i]) \cap Upcoming' = {}
  BY <1>3, <1>4, <1>5
<1>7. UpcomingOpen'
  BY <1>1, <1>2, <1>3, <1>5 DEF UpcomingOpen
<1>8. OwedOpen'
  <2> SUFFICES ASSUME NEW i \in DOMAIN ctl
               PROVE  Owed(ctl'[i]) \subseteq (Blocks' \ sealed') \ Upcoming'
    BY <1>1 DEF OwedOpen, Owed
  <2>1. CASE i = n
    <3>1. Owed(f) \subseteq Blocks \ sealed /\ Upcoming \subseteq Blocks \ sealed
      BY <1>1, <1>2, <1>3 DEF UpcomingOpen
    <3> QED BY <1>1, <1>5, <2>1, <3>1
  <2>2. CASE i # n
    BY <1>1, <1>3, <1>6, <2>2
  <2> QED BY <2>1, <2>2
<1>9. OwedOnce'
  <2>1. \A i, j \in DOMAIN ctl' : i # j => Owed(ctl'[i]) \cap Owed(ctl'[j]) = {}
    <3> SUFFICES ASSUME NEW i \in DOMAIN ctl, NEW j \in DOMAIN ctl, i # j
                 PROVE  Owed(ctl'[i]) \cap Owed(ctl'[j]) = {}
      BY <1>1
    <3>1. CASE i # n /\ j # n
      BY <1>1, <1>2, <3>1 DEF OwedOnce
    <3>2. CASE i = n
      BY <1>1, <1>6, <3>2
    <3>3. CASE j = n
      BY <1>1, <1>6, <3>3
    <3> QED BY <3>1, <3>2, <3>3
  <2>2. \A i \in DOMAIN ctl : DistinctParts(ctl[i])
    BY <1>2 DEF OwedOnce, DistinctParts
  <2>3. \A i \in DOMAIN ctl' : DistinctParts(ctl'[i])
    BY <1>1, <2>2
  <2> QED BY <2>1, <2>3 DEF OwedOnce, DistinctParts, Owed
<1>10. OpenOwed'
  <2> SUFFICES ASSUME NEW b \in Blocks \ sealed, b \notin Upcoming'
               PROVE  \E i \in DOMAIN ctl' : b \in Owed(ctl'[i])
    BY DEF OpenOwed, Owed
  <2>1. CASE b \in Owed(g)
    BY <1>1, <2>1
  <2>2. CASE b \notin Owed(g)
    <3>1. b \notin Upcoming /\ b \notin Owed(f)
      BY <1>5, <2>2
    <3>2. PICK i \in DOMAIN ctl : b \in Owed(ctl[i])
      BY <1>2, <3>1 DEF OpenOwed
    <3> QED BY <1>1, <3>1, <3>2
  <2> QED BY <2>1, <2>2
<1> QED BY <1>7, <1>8, <1>9, <1>10 DEF SealDiscipline

\* The innermost frame hands over all it owns.
LEMMA PopDiscipline ==
  ASSUME IInv, ctl # <<>>, ctl' = Front(ctl), sealed' = sealed, Blocks' = Blocks,
         Upcoming' = Owed(Last(ctl)) \cup Upcoming, QueueOnce'
  PROVE  SealDiscipline'
<1> DEFINE n == Len(ctl)
           f == Last(ctl)
<1>1. /\ n \in DOMAIN ctl /\ f = ctl[n] /\ DOMAIN ctl' = DOMAIN ctl \ {n}
      /\ \A i \in DOMAIN ctl' : ctl'[i] = ctl[i]
  <2>1. /\ f = ctl[n] /\ n \in DOMAIN ctl /\ n \in Nat /\ DOMAIN ctl = 1 .. n
        /\ DOMAIN ctl' = 1 .. n - 1 /\ \A i \in 1 .. n - 1 : ctl'[i] = ctl[i]
    BY LastFrame DEF IInv
  <2> HIDE DEF n, f
  <2> QED BY <2>1
<1>2. UpcomingOpen /\ OwedOpen /\ OwedOnce /\ OpenOwed
  BY DEF IInv, SealDiscipline
<1>3. \A i \in DOMAIN ctl : Owed(ctl[i]) \subseteq (Blocks \ sealed) \ Upcoming
  BY <1>2 DEF OwedOpen
<1>4. \A i \in DOMAIN ctl' : Owed(ctl[i]) \cap Owed(f) = {}
  BY <1>1, <1>2 DEF OwedOnce
<1>5. Upcoming' = Owed(f) \cup Upcoming
  OBVIOUS
<1> HIDE DEF n, f
<1>6. UpcomingOpen'
  BY <1>1, <1>2, <1>3, <1>5 DEF UpcomingOpen
<1>7. OwedOpen'
  <2> SUFFICES ASSUME NEW i \in DOMAIN ctl'
               PROVE  Owed(ctl'[i]) \subseteq (Blocks' \ sealed') \ Upcoming'
    BY DEF OwedOpen, Owed
  <2> QED BY <1>1, <1>3, <1>4, <1>5
<1>8. OwedOnce'
  <2>1. \A i, j \in DOMAIN ctl' : i # j => Owed(ctl'[i]) \cap Owed(ctl'[j]) = {}
    BY <1>1, <1>2 DEF OwedOnce
  <2>2. \A i \in DOMAIN ctl' : DistinctParts(ctl'[i])
    BY <1>1, <1>2 DEF OwedOnce, DistinctParts
  <2> QED BY <2>1, <2>2 DEF OwedOnce, DistinctParts, Owed
<1>9. OpenOwed'
  <2> SUFFICES ASSUME NEW b \in Blocks \ sealed, b \notin Upcoming'
               PROVE  \E i \in DOMAIN ctl' : b \in Owed(ctl'[i])
    BY DEF OpenOwed, Owed
  <2>1. PICK i \in DOMAIN ctl : b \in Owed(ctl[i])
    BY <1>2, <1>5 DEF OpenOwed
  <2>2. i # n
    BY <1>1, <1>5, <2>1
  <2> QED BY <1>1, <2>1, <2>2
<1> QED BY <1>6, <1>7, <1>8, <1>9 DEF SealDiscipline


\* The parts of an action that branches out of a block.
Leaves ==
  /\ SameBlocks
  /\ UNCHANGED <<phis, users, fresh, sealed, sealing, status>>
  /\ pos' \in Nat \ {0} /\ stmt' \in Statements \cup {NoStmt}
  /\ curr' \in Nat /\ next' \in Nat /\ sealq' \in Seq(Nat)

\* What BranchIf, BranchWhile and EndThen have in common.
LEMMA ReplacePreserves ==
  ASSUME IInv, Emitting, ctl # <<>>, Leaves, NEW g \in Frames,
         ctl' = [ctl EXCEPT ![Len(ctl)] = g],
         g.after # NoBlock, g.body = NoBlock,
         g.kind = "while" => g.els = NoBlock /\ g.cond # NoBlock,
         g.kind # "while" => g.cond = NoBlock,
         g.els # NoBlock => g.kind = "then",
         \/ /\ pc' = "fetch" /\ stmt' = NoStmt
            /\ next' = NoBlock /\ sealq' = <<>> /\ curr' # NoBlock
         \/ pc' = "seal" /\ next' # NoBlock,
         Owed(g) \cup Upcoming' = Owed(Last(ctl)) \cup Upcoming,
         Owed(g) \cap Upcoming' = {},
         DistinctParts(g), QueueOnce'
  PROVE  IInv'
<1>1. /\ Len(ctl) \in DOMAIN ctl /\ DOMAIN ctl' = DOMAIN ctl /\ ctl'[Len(ctl)] = g
      /\ \A i \in DOMAIN ctl : i # Len(ctl) => ctl'[i] = ctl[i]
      /\ ctl' \in Seq(Frames) /\ ctl' # <<>>
  <2>1. ctl \in Seq(Frames) /\ Len(ctl) \in DOMAIN ctl /\ Len(ctl) \in Nat
    BY LastFrame DEF IInv, BlocksOK
  <2> HIDE DEF IInv
  <2> QED BY <2>1
<1>2. BlocksOK'
  BY <1>1 DEF IInv, BlocksOK, Leaves, SameBlocks, Statements
<1>3. \A i \in DOMAIN ctl : i # Len(ctl) => ctl[i].body = NoBlock
  BY DEF IInv, ControlShape
<1>4. sealing' = NoBlock
  BY CurrentBlock DEF Leaves
<1>5. ControlShape'
  BY <1>1, <1>3, <1>4 DEF IInv, ControlShape, Emitting
<1>6. SealDiscipline'
  BY ReplaceDiscipline DEF Leaves, SameBlocks
<1> QED BY <1>2, <1>5, <1>6 DEF IInv

\* What EndIf and EndWhile have in common.
LEMMA PopPreserves ==
  ASSUME IInv, Emitting, ctl # <<>>, Leaves, ctl' = Front(ctl),
         Last(ctl).body = NoBlock,
         pc' = "seal" /\ next' # NoBlock /\ stmt' = NoStmt,
         Upcoming' = Owed(Last(ctl)) \cup Upcoming, QueueOnce'
  PROVE  IInv'
<1>1. /\ Last(ctl) = ctl[Len(ctl)] /\ ctl' \in Seq(Frames)
      /\ DOMAIN ctl' = DOMAIN ctl \ {Len(ctl)}
      /\ \A i \in DOMAIN ctl' : ctl'[i] = ctl[i]
  <2>1. /\ Len(ctl) \in Nat /\ DOMAIN ctl = 1 .. Len(ctl) /\ ctl' \in Seq(Frames)
        /\ DOMAIN ctl' = 1 .. Len(ctl) - 1 /\ \A i \in 1 .. Len(ctl) - 1 : ctl'[i] = ctl[i]
        /\ Last(ctl) = ctl[Len(ctl)]
    BY LastFrame DEF IInv
  <2> QED BY <2>1
<1>2. BlocksOK'
  BY <1>1 DEF IInv, BlocksOK, Leaves, SameBlocks
<1>3. \A i \in DOMAIN ctl : ctl[i].body = NoBlock
  BY <1>1 DEF IInv, ControlShape
<1>4. stmt'.kind = "none"
  BY DEF NoStmt
<1>5. sealing' = NoBlock
  BY CurrentBlock DEF Leaves
<1>6. ControlShape'
  BY <1>1, <1>3, <1>4, <1>5 DEF IInv, ControlShape, Emitting
<1>7. SealDiscipline'
  BY PopDiscipline DEF Leaves, SameBlocks
<1> QED BY <1>2, <1>6, <1>7 DEF IInv

\* What the invariant says of the innermost frame.
LEMMA TopFrame ==
  ASSUME IInv, ctl # <<>>, NEW f, f = Last(ctl)
  PROVE  /\ f = ctl[Len(ctl)] /\ f \in Frames /\ DistinctParts(f)
         /\ Owed(f) \cap Upcoming = {} /\ Owed(f) \subseteq Blocks
         /\ f.after # NoBlock
         /\ f.kind = "while" => f.els = NoBlock /\ (f.body = NoBlock <=> f.cond # NoBlock)
         /\ f.kind # "while" => f.cond = NoBlock
         /\ f.els # NoBlock => f.kind = "then"
         /\ f.body # NoBlock =>
              pc # "fetch" /\ stmt.kind = IF f.kind = "while" THEN "while" ELSE "if"
<1>1. f = ctl[Len(ctl)] /\ Len(ctl) \in DOMAIN ctl /\ f \in Frames
  BY LastFrame DEF IInv
<1>2. DistinctParts(f) /\ Owed(f) \cap Upcoming = {} /\ Owed(f) \subseteq Blocks
  BY <1>1 DEF IInv, SealDiscipline, OwedOpen, OwedOnce, DistinctParts
<1> QED BY <1>1, <1>2 DEF IInv, ControlShape

\* The branch on the condition of an IF: the block it ends is sealed, the body
\* entered.
LEMMA BranchIfPreserves ==
  ASSUME IInv, BranchIf
  PROVE  IInv'
<1> DEFINE f == Last(ctl)
           other == IF f.els # NoBlock THEN f.els ELSE f.after
           g == [f EXCEPT !.body = NoBlock]
           to == {f.body, other}
           es == <<CondBranch("ifbr", f.body, other)>>
<1>1. /\ Grow(0, to) /\ Emit(es, 0)
      /\ ctl' = [ctl EXCEPT ![Len(ctl)].body = NoBlock]
      /\ pc' = "seal" /\ sealq' = <<curr>> /\ next' = f.body /\ stmt' = NoStmt
      /\ UNCHANGED <<phis, users, fresh, sealed, sealing, status, curr, pos>>
      /\ pc = "operands" /\ stmt.kind = "if"
  BY DEF BranchIf, Complete, At, SealThen
<1>2. Emitting /\ ctl # <<>> /\ ctl[Len(ctl)].body # NoBlock
  BY <1>1 DEF Emitting, IInv, ControlShape
<1>3. /\ curr \in Blocks /\ curr # NoBlock /\ Upcoming = {curr} /\ Blocks \subseteq Nat
  BY <1>2, CurrentBlock
<1> HIDE DEF f
<1>4. /\ f = ctl[Len(ctl)] /\ f \in Frames /\ DistinctParts(f)
      /\ Owed(f) \cap Upcoming = {} /\ Owed(f) \subseteq Blocks
      /\ f.after # NoBlock /\ f.body # NoBlock /\ f.cond = NoBlock /\ f.kind # "while"
      /\ f.els # NoBlock => f.kind = "then"
  BY <1>1, <1>2, TopFrame DEF f
<1>5. f.body \in Blocks /\ f.body # curr
  BY <1>3, <1>4 DEF Owed
<1>6. SameBlocks
  <2> HIDE DEF to, es
  <2> QED BY <1>1, <1>3, GrowZero DEF IInv
<1>7. /\ sealq' \in Seq(Nat) /\ ToSet(sealq') = {curr}
      /\ Leaves
  <2>1. sealq' \in Seq(Nat) /\ ToSet(sealq') = {curr}
    BY <1>1, <1>3, ShortQueues
  <2> QED BY <1>1, <1>3, <1>5, <1>6, <2>1 DEF Leaves, IInv, BlocksOK
<1>8. g \in Frames /\ g.kind = f.kind /\ g.els = f.els /\ g.cond = f.cond
      /\ g.after = f.after /\ g.body = NoBlock
  BY <1>4 DEF Frames, NoBlock
<1>9. ctl' = [ctl EXCEPT ![Len(ctl)] = g]
  BY <1>1, <1>4
<1> HIDE DEF g
<1>10. Upcoming' = {curr, f.body}
  BY <1>1, <1>3, <1>4, <1>7 DEF Upcoming, Emitting
<1>11. /\ Owed(g) \cup Upcoming' = Owed(Last(ctl)) \cup Upcoming
       /\ Owed(g) \cap Upcoming' = {} /\ DistinctParts(g)
  BY <1>3, <1>4, <1>5, <1>8, <1>10 DEF Owed, DistinctParts, f
<1>12. QueueOnce'
  BY <1>1, <1>5, <1>7 DEF QueueOnce
<1> QED
  BY <1>1, <1>2, <1>4, <1>7, <1>8, <1>9, <1>11, <1>12, ReplacePreserves

\* The branch on the condition of a WHILE: its block stays open for the back edge.
LEMMA BranchWhilePreserves ==
  ASSUME IInv, BranchWhile
  PROVE  IInv'
<1> DEFINE f == Last(ctl)
           g == [f EXCEPT !.body = NoBlock, !.cond = curr]
           to == {f.body, f.after}
           es == <<CondBranch("whilebr", f.body, f.after)>>
<1>1. /\ Grow(0, to) /\ Emit(es, 0)
      /\ ctl' = [ctl EXCEPT ![Len(ctl)] = g]
      /\ pc' = "fetch" /\ stmt' = NoStmt /\ curr' = f.body
      /\ UNCHANGED <<phis, users, fresh, sealed, sealing, status, pos, sealq, next>>
      /\ pc = "operands" /\ stmt.kind = "while"
  BY DEF BranchWhile, Complete, At, NextStatement
<1>2. Emitting /\ ctl # <<>> /\ ctl[Len(ctl)].body # NoBlock
  BY <1>1 DEF Emitting, IInv, ControlShape
<1>3. /\ curr \in Blocks /\ curr # NoBlock /\ Upcoming = {curr} /\ Blocks \subseteq Nat
      /\ next = NoBlock /\ sealq = <<>>
  BY <1>2, CurrentBlock
<1> HIDE DEF f
<1>4. /\ f = ctl[Len(ctl)] /\ f \in Frames /\ DistinctParts(f)
      /\ Owed(f) \cap Upcoming = {} /\ Owed(f) \subseteq Blocks
      /\ f.after # NoBlock /\ f.body # NoBlock /\ f.cond = NoBlock /\ f.kind = "while"
      /\ f.els = NoBlock
  BY <1>1, <1>2, TopFrame DEF f
<1>5. f.body \in Blocks /\ f.body # curr /\ f.after # curr
  BY <1>3, <1>4 DEF Owed
<1>6. SameBlocks
  <2> HIDE DEF to, es, g
  <2> QED BY <1>1, <1>3, GrowZero DEF IInv
<1>7. Leaves
  BY <1>1, <1>3, <1>5, <1>6 DEF Leaves, IInv, BlocksOK
<1>8. g \in Frames /\ g.kind = f.kind /\ g.els = f.els /\ g.cond = curr
      /\ g.after = f.after /\ g.body = NoBlock
  BY <1>3, <1>4 DEF Frames, NoBlock
<1> HIDE DEF g
<1>9. Upcoming' = {f.body}
  BY <1>1, <1>3, <1>4 DEF Upcoming, Emitting, ToSet
<1>10. /\ Owed(g) \cup Upcoming' = Owed(Last(ctl)) \cup Upcoming
       /\ Owed(g) \cap Upcoming' = {} /\ DistinctParts(g)
  BY <1>3, <1>4, <1>5, <1>8, <1>9 DEF Owed, DistinctParts, f
<1>11. QueueOnce'
  BY <1>1, <1>3 DEF QueueOnce
<1> QED
  BY <1>1, <1>2, <1>3, <1>4, <1>7, <1>8, <1>10, <1>11, ReplacePreserves


\* A block that ends without a terminator gets a branch; either way no block is created.
LEMMA BranchUnlessTerminatedFacts ==
  ASSUME BlocksOK, curr \in Blocks, NEW to, BranchUnlessTerminated(to)
  PROVE  SameBlocks
<1>1. CASE Terminated(curr)
  BY <1>1 DEF BranchUnlessTerminated, SameBlocks, BlocksOK, Blocks
<1>2. CASE ~ Terminated(curr)
  <2> DEFINE es == <<Branch(to)>>
             set == {to}
  <2>1. Grow(0, set) /\ Emit(es, 0)
    BY <1>2 DEF BranchUnlessTerminated
  <2> HIDE DEF es, set
  <2> QED BY <2>1, GrowZero
<1> QED BY <1>1, <1>2

\* The ELSE part is entered.
LEMMA EndThenPreserves ==
  ASSUME IInv, EndThen
  PROVE  IInv'
<1> DEFINE f == Last(ctl)
           g == [f EXCEPT !.kind = "else", !.els = NoBlock]
<1>1. /\ ctl # <<>> /\ pc = "fetch" /\ f.kind = "then" /\ f.els # NoBlock
      /\ BranchUnlessTerminated(f.after)
      /\ pc' = "seal" /\ sealq' = <<curr>> /\ next' = f.els /\ stmt' \in ElseMenu
      /\ ctl' = [ctl EXCEPT ![Len(ctl)] = [@ EXCEPT !.kind = "else", !.els = NoBlock]]
      /\ UNCHANGED <<phis, users, fresh, sealed, sealing, status, curr>>
      /\ pos' \in {pos, pos + 1}
  BY DEF EndThen, AtEnd, At, SealThen
<1>2. Emitting
  BY <1>1 DEF Emitting
<1>3. /\ curr \in Blocks /\ curr # NoBlock /\ Upcoming = {curr} /\ Blocks \subseteq Nat
  BY <1>2, CurrentBlock
<1> HIDE DEF f
<1>4. /\ f = ctl[Len(ctl)] /\ f \in Frames /\ DistinctParts(f)
      /\ Owed(f) \cap Upcoming = {} /\ Owed(f) \subseteq Blocks
      /\ f.after # NoBlock /\ f.cond = NoBlock
      /\ f.body # NoBlock => pc # "fetch"
  BY <1>1, <1>2, TopFrame DEF f
<1>5. f.els \in Blocks /\ f.els # curr
  BY <1>1, <1>3, <1>4 DEF Owed
<1>6. SameBlocks
  BY <1>1, <1>3, BranchUnlessTerminatedFacts DEF IInv
<1>7. f.body = NoBlock
  BY <1>1, <1>4
<1>8. sealq' \in Seq(Nat) /\ ToSet(sealq') = {curr}
  BY <1>1, <1>3, ShortQueues
<1>9. stmt' \in Statements
  BY <1>1, ElseAssumption
<1>10. Leaves
  BY <1>1, <1>3, <1>5, <1>6, <1>8, <1>9 DEF Leaves, IInv, BlocksOK
<1>11. g \in Frames /\ g.kind = "else" /\ g.els = NoBlock /\ g.cond = f.cond
       /\ g.after = f.after /\ g.body = f.body
  BY <1>4 DEF Frames, NoBlock
<1>12. ctl' = [ctl EXCEPT ![Len(ctl)] = g]
  BY <1>1, <1>4
<1> HIDE DEF g
<1>13. Upcoming' = {curr, f.els}
  BY <1>1, <1>3, <1>8 DEF Upcoming, Emitting
<1>14. /\ Owed(g) \cup Upcoming' = Owed(Last(ctl)) \cup Upcoming
       /\ Owed(g) \cap Upcoming' = {} /\ DistinctParts(g)
  BY <1>1, <1>3, <1>4, <1>5, <1>7, <1>11, <1>13 DEF Owed, DistinctParts, f
<1>15. QueueOnce'
  BY <1>1, <1>5, <1>8 DEF QueueOnce
<1> QED
  BY <1>1, <1>2, <1>4, <1>7, <1>10, <1>11, <1>12, <1>14, <1>15, ReplacePreserves

\* The block after the IF is entered.
LEMMA EndIfPreserves ==
  ASSUME IInv, EndIf
  PROVE  IInv'
<1> DEFINE f == Last(ctl)
<1>1. /\ ctl # <<>> /\ pc = "fetch" /\ f.kind # "while" /\ f.els = NoBlock
      /\ BranchUnlessTerminated(f.after)
      /\ pc' = "seal" /\ sealq' = <<curr>> /\ next' = f.after
      /\ ctl' = Front(ctl)
      /\ UNCHANGED <<phis, users, fresh, sealed, sealing, status, curr, stmt>>
      /\ stmt = NoStmt
      /\ pos' \in {pos, pos + 1}
  BY DEF EndIf, AtEnd, At, SealThen
<1>2. Emitting
  BY <1>1 DEF Emitting
<1>3. /\ curr \in Blocks /\ curr # NoBlock /\ Upcoming = {curr} /\ Blocks \subseteq Nat
  BY <1>2, CurrentBlock
<1> HIDE DEF f
<1>4. /\ Owed(f) \cap Upcoming = {} /\ Owed(f) \subseteq Blocks
      /\ f.after # NoBlock /\ f.cond = NoBlock
      /\ f.body # NoBlock => pc # "fetch"
  BY <1>1, <1>2, TopFrame DEF f
<1>5. f.body = NoBlock
  BY <1>1, <1>4
<1>6. f.after \in Blocks /\ f.after # curr /\ Owed(f) = {f.after}
  BY <1>1, <1>3, <1>4, <1>5 DEF Owed
<1>7. SameBlocks
  BY <1>1, <1>3, BranchUnlessTerminatedFacts DEF IInv
<1>8. sealq' \in Seq(Nat) /\ ToSet(sealq') = {curr}
  BY <1>1, <1>3, ShortQueues
<1>9. Leaves
  <2>1. stmt' \in Statements \cup {NoStmt}
    BY <1>1
  <2>2. pos' \in Nat \ {0}
    BY <1>1 DEF IInv, BlocksOK
  <2> QED BY <1>1, <1>3, <1>6, <1>7, <1>8, <2>1, <2>2 DEF Leaves
<1>10. Upcoming' = Owed(Last(ctl)) \cup Upcoming
  BY <1>1, <1>3, <1>4, <1>6, <1>8 DEF Upcoming, Emitting, f
<1>11. QueueOnce'
  BY <1>1, <1>6, <1>8 DEF QueueOnce
<1> QED
  BY <1>1, <1>2, <1>4, <1>5, <1>9, <1>10, <1>11, PopPreserves DEF f

\* The back edge is added; the body and the block of the condition are sealed.
LEMMA EndWhilePreserves ==
  ASSUME IInv, EndWhile
  PROVE  IInv'
<1> DEFINE f == Last(ctl)
           to == {f.cond}
           es == <<Branch(f.cond)>>
<1>1. /\ ctl # <<>> /\ pc = "fetch" /\ f.kind = "while"
      /\ Grow(0, to) /\ Emit(es, 0)
      /\ pc' = "seal" /\ sealq' = <<curr, f.cond>> /\ next' = f.after
      /\ ctl' = Front(ctl)
      /\ UNCHANGED <<phis, users, fresh, sealed, sealing, status, curr, stmt>>
      /\ stmt = NoStmt
      /\ pos' \in {pos, pos + 1}
  BY DEF EndWhile, AtEnd, At, SealThen
<1>2. Emitting
  BY <1>1 DEF Emitting
<1>3. /\ curr \in Blocks /\ curr # NoBlock /\ Upcoming = {curr} /\ Blocks \subseteq Nat
  BY <1>2, CurrentBlock
<1> HIDE DEF f
<1>4. /\ Owed(f) \cap Upcoming = {} /\ Owed(f) \subseteq Blocks /\ DistinctParts(f)
      /\ f.after # NoBlock /\ f.els = NoBlock /\ (f.body = NoBlock <=> f.cond # NoBlock)
      /\ f.body # NoBlock => pc # "fetch"
  BY <1>1, <1>2, TopFrame DEF f
<1>5. f.body = NoBlock
  BY <1>1, <1>4
<1>6. /\ Owed(f) = {f.cond, f.after} /\ f.cond # NoBlock
      /\ f.cond \in Blocks /\ f.after \in Blocks /\ f.cond # curr /\ f.after # curr
      /\ f.cond # f.after
  BY <1>3, <1>4, <1>5 DEF Owed, DistinctParts
<1>7. SameBlocks
  <2> HIDE DEF to, es
  <2> QED BY <1>1, <1>3, GrowZero DEF IInv
<1>8. sealq' \in Seq(Nat) /\ ToSet(sealq') = {curr, f.cond}
  BY <1>1, <1>3, <1>6, ShortQueues
<1>9. Leaves
  <2>1. stmt' \in Statements \cup {NoStmt}
    BY <1>1
  <2>2. pos' \in Nat \ {0}
    BY <1>1 DEF IInv, BlocksOK
  <2> QED BY <1>1, <1>3, <1>6, <1>7, <1>8, <2>1, <2>2 DEF Leaves
<1>10. Upcoming' = Owed(Last(ctl)) \cup Upcoming
  BY <1>1, <1>3, <1>4, <1>6, <1>8 DEF Upcoming, Emitting, f
<1>11. QueueOnce'
  BY <1>1, <1>6, <1>8 DEF QueueOnce
<1> QED
  BY <1>1, <1>2, <1>4, <1>5, <1>9, <1>10, <1>11, PopPreserves DEF f

\* The last block is sealed.
LEMMA EndProcedurePreserves ==
  ASSUME IInv, EndProcedure
  PROVE  IInv'
<1>1. /\ ctl = <<>> /\ pc = "fetch" /\ ctl' = ctl
      /\ pc' = "seal" /\ sealq' = <<curr>> /\ next' = NoBlock
      /\ UNCHANGED <<preds, phis, users, fresh, defs, incomplete, sealed, sealing, status,
                     curr, pos, stmt>>
  BY DEF EndProcedure, At, SealThen
<1>2. DOMAIN code' = DOMAIN code
  BY EmitKeeps DEF EndProcedure, IInv
<1>3. /\ curr \in Blocks /\ curr # NoBlock /\ Upcoming = {curr} /\ Blocks \subseteq Nat
      /\ sealing = NoBlock
  BY <1>1, CurrentBlock DEF Emitting
<1>4. sealq' \in Seq(Nat) /\ ToSet(sealq') = {curr}
  BY <1>1, <1>3, ShortQueues
<1>5. stmt.kind = "none"
  BY <1>1 DEF IInv, ControlShape, NoStmt
<1>6. BlocksOK'
  BY <1>1, <1>2, <1>4 DEF IInv, BlocksOK, Blocks, NoBlock
<1>7. ControlShape'
  BY <1>1, <1>3, <1>5 DEF IInv, ControlShape, Emitting
<1>8. Upcoming' = Upcoming /\ Blocks' = Blocks
  BY <1>1, <1>3, <1>4 DEF Upcoming, Emitting, Blocks
<1>9. QueueOnce'
  BY <1>1 DEF QueueOnce
<1>10. SealDiscipline'
  BY <1>1, <1>8, <1>9
     DEF IInv, SealDiscipline, UpcomingOpen, OwedOpen, OwedOnce, OpenOwed, Owed
<1> QED BY <1>6, <1>7, <1>10 DEF IInv


-----------------------------------------------------------------------------
(* The invariant.                                                           *)

\* The entry block is owed by the driver.
LEMMA InitInv == Init => IInv
<1> SUFFICES ASSUME Init PROVE IInv
  OBVIOUS
<1> USE DEF Init
<1>1. Blocks = {1} /\ Upcoming = {1}
  BY DEF Blocks, Upcoming, Emitting, ToSet, NoBlock
<1>2. BlocksOK
  BY <1>1 DEF BlocksOK, Blocks, NoBlock
<1>3. ControlShape
  BY DEF ControlShape, Emitting, NoBlock, NoStmt
<1>4. SealDiscipline
  BY <1>1 DEF SealDiscipline, UpcomingOpen, OwedOpen, OwedOnce, QueueOnce, OpenOwed
<1> QED BY <1>2, <1>3, <1>4 DEF IInv

\* Every emitter keeps the invariant.
LEMMA StatementPreserves ==
  ASSUME IInv, Statement
  PROVE  IInv'
  BY BeginSimplePreserves, BeginIfPreserves, BeginWhileReusingPreserves,
     BeginWhilePreserves, ReadLocalPreserves, TakeOperandPreserves, LoadMemoryPreserves,
     AssignmentPreserves, AssignVarParameterPreserves, BranchIfPreserves,
     BranchWhilePreserves, EndThenPreserves, EndIfPreserves, EndWhilePreserves,
     EndProcedurePreserves DEF Statement

\* A stuttering step keeps the invariant.
LEMMA UnchangedPreserves ==
  ASSUME IInv, UNCHANGED vars
  PROVE  IInv'
<1>1. Kept /\ UNCHANGED <<sealed, sealing, driverVars>>
  BY DEF vars, ssaVars, irVars, Kept, IInv, BlocksOK
<1> QED BY <1>1, KeptPreserves DEF IInv, BlocksOK, ControlShape, Emitting

\* The invariant is inductive.
LEMMA NextInv ==
  ASSUME IInv, [Next]_vars
  PROVE  IInv'
  BY SSAStepPreserves, StatementPreserves, SealStartPreserves, SealPhiPreserves,
     SealEndPreserves, SetCurrPreserves, UnchangedPreserves DEF Next, Sealing, Halt

\* The inductive invariant holds in every reachable state.
LEMMA Invariance == Spec => []IInv
<1>1. IInv /\ [Next]_vars => IInv'
  BY NextInv
<1> QED BY InitInv, <1>1, PTL DEF Spec

\* Every open block is owed exactly one seal, however IF and WHILE nest (Ownership).
THEOREM OwnershipHolds == Spec => []Ownership
<1>1. IInv => Ownership
  BY DEF IInv, Ownership
<1> QED BY Invariance, <1>1, PTL

\* sealBlock is never called on a sealed block: its assertion holds for every program.
THEOREM SealedOnceHolds == Spec => []SealedOnce
<1>1. IInv => SealedOnce
  <2> SUFFICES ASSUME IInv, pc = "seal", sealing = NoBlock
               PROVE  ToSet(sealq) \cap sealed = {}
    BY DEF SealedOnce
  <2>1. \A b \in ToSet(sealq) : b # NoBlock => b \in Upcoming
    BY DEF Upcoming
  <2>2. Upcoming \cap sealed = {} /\ sealed \subseteq Blocks
    BY DEF IInv, SealDiscipline, UpcomingOpen, BlocksOK
  <2>3. NoBlock \notin Blocks
    BY DEF IInv, BlocksOK, Blocks, NoBlock
  <2> QED BY <2>1, <2>2, <2>3
<1> QED BY Invariance, <1>1, PTL

-----------------------------------------------------------------------------
(* The contract, and where reading a variable can lead.                        *)

\* A call that reads, writes or fills one of the variables V in an existing block.
CallIn(f, V) ==
  f.op \in {"read", "write", "fill"} => f.bb \in Blocks /\ f.var \in V

CallsIn(V) ==
  /\ calls \in Seq(ToSet(calls))
  /\ \A f \in ToSet(calls) : CallIn(f, V)

\* A sequence is a sequence of its own elements, whatever they are.
LEMMA SeqOfElements ==
  ASSUME NEW S, NEW s \in Seq(S)
  PROVE  s \in Seq(ToSet(s)) /\ ToSet(s) \subseteq S
  BY DEF ToSet

\* What a sequence of its own elements is.
LEMMA ElementsAreSeq ==
  ASSUME NEW s, s \in Seq(ToSet(s))
  PROVE  Len(s) \in Nat /\ DOMAIN s = 1 .. Len(s) /\ \A i \in 1 .. Len(s) : s[i] \in ToSet(s)
  BY DEF ToSet

\* Returning from a call, and going on with other frames that are in order.
LEMMA ReturnOK ==
  ASSUME NEW V, CallsIn(V), calls # <<>>
  PROVE  /\ Front(calls) \in Seq(ToSet(Front(calls)))
         /\ \A f \in ToSet(Front(calls)) : CallIn(f, V)
         /\ Top \in ToSet(calls) /\ CallIn(Top, V)
<1> DEFINE S == ToSet(calls)
<1>1. calls \in Seq(S) /\ \A f \in S : CallIn(f, V)
  BY DEF CallsIn, CallIn
<1> HIDE DEF S
<1>2. Front(calls) \in Seq(S) /\ Last(calls) \in S
  BY <1>1, FrontLast
<1>3. Front(calls) \in Seq(ToSet(Front(calls))) /\ ToSet(Front(calls)) \subseteq S
  BY <1>2, SeqOfElements
<1> QED BY <1>1, <1>2, <1>3 DEF Top, S

\* Going on with other frames that are in order.
LEMMA BecomeOK ==
  ASSUME NEW V, CallsIn(V), calls # <<>>, NEW fs, fs \in Seq(ToSet(fs)),
         \A f \in ToSet(fs) : CallIn(f, V)
  PROVE  /\ Front(calls) \o fs \in Seq(ToSet(Front(calls) \o fs))
         /\ \A f \in ToSet(Front(calls) \o fs) : CallIn(f, V)
<1> DEFINE A == ToSet(Front(calls))
           B == ToSet(fs)
           c == Front(calls)
<1>1. c \in Seq(A) /\ \A f \in A : CallIn(f, V)
  BY ReturnOK
<1> HIDE DEF A, B, c, CallIn
<1>2. c \in Seq(A \cup B) /\ fs \in Seq(A \cup B)
  <2>1. fs \in Seq(B)
    BY DEF B
  <2> QED BY <1>1, <2>1
<1>3. c \o fs \in Seq(A \cup B)
  BY <1>2
<1>4. c \o fs \in Seq(ToSet(c \o fs)) /\ ToSet(c \o fs) \subseteq A \cup B
  BY <1>3, SeqOfElements
<1>5. \A f \in B : CallIn(f, V)
  BY DEF B
<1> QED BY <1>1, <1>4, <1>5 DEF c

\* The frame lists Become is given have one or two frames.
LEMMA FrameLists ==
  ASSUME NEW a, NEW b
  PROVE  /\ <<a>> \in Seq(ToSet(<<a>>)) /\ ToSet(<<a>>) = {a}
         /\ <<a, b>> \in Seq(ToSet(<<a, b>>)) /\ ToSet(<<a, b>>) = {a, b}
  BY DEF ToSet

-----------------------------------------------------------------------------
(* The recursive functions.                                                 *)

\* What a step of them does to the stack and to the incomplete phis.
LEMMA SSACalls ==
  ASSUME IInv, NEW V, CallsIn(V), SSAStep
  PROVE  /\ calls' \in Seq(ToSet(calls')) /\ \A f \in ToSet(calls') : CallIn(f, V)
         /\ \/ incomplete' = incomplete
            \/ /\ Top.bb \in Blocks \ sealed /\ Top.var \in V
               /\ incomplete' = [incomplete EXCEPT ![Top.bb] =
                                   @ \cup {[phi |-> fresh, var |-> Top.var]}]
<1>1. /\ \A f \in ToSet(calls) : CallIn(f, V)
      /\ calls \in Seq(ToSet(calls))
  BY DEF CallsIn, CallIn
<1>2. ASSUME calls # <<>>
      PROVE  Top \in ToSet(calls) /\ CallIn(Top, V)
  BY <1>2, ReturnOK
<1>3. ASSUME UNCHANGED calls
      PROVE  calls' \in Seq(ToSet(calls')) /\ \A f \in ToSet(calls') : CallIn(f, V)
  BY <1>1, <1>3
<1>4. ASSUME calls # <<>>, calls' = Front(calls)
      PROVE  calls' \in Seq(ToSet(calls')) /\ \A f \in ToSet(calls') : CallIn(f, V)
  BY <1>4, ReturnOK
<1>5. ASSUME calls # <<>>, NEW a, NEW b, CallIn(a, V), CallIn(b, V),
             calls' = Front(calls) \o <<a, b>>
      PROVE  calls' \in Seq(ToSet(calls')) /\ \A f \in ToSet(calls') : CallIn(f, V)
  <2> DEFINE fs == <<a, b>>
  <2>1. fs \in Seq(ToSet(fs)) /\ \A f \in ToSet(fs) : CallIn(f, V)
    <3>1. fs \in Seq(ToSet(fs)) /\ ToSet(fs) = {a, b}
      BY FrameLists
    <3> QED BY <1>5, <3>1
  <2> HIDE DEF fs, CallIn
  <2>2. calls' = Front(calls) \o fs
    BY <1>5 DEF fs
  <2> QED BY <1>5, <2>1, <2>2, BecomeOK
<1>6. ASSUME calls # <<>>, NEW a, CallIn(a, V), calls' = Front(calls) \o <<a>>
      PROVE  calls' \in Seq(ToSet(calls')) /\ \A f \in ToSet(calls') : CallIn(f, V)
  <2> DEFINE fs == <<a>>
  <2>1. fs \in Seq(ToSet(fs)) /\ \A f \in ToSet(fs) : CallIn(f, V)
    <3>1. fs \in Seq(ToSet(fs)) /\ ToSet(fs) = {a}
      BY FrameLists
    <3> QED BY <1>6, <3>1
  <2> HIDE DEF fs, CallIn
  <2>2. calls' = Front(calls) \o fs
    BY <1>6 DEF fs
  <2> QED BY <1>6, <2>1, <2>2, BecomeOK
<1>7. \A b \in Blocks : \A i \in DOMAIN preds[b] : preds[b][i] \in Blocks
  BY DEF IInv, BlocksOK
<1>8. CASE ReadHit
  <2>1. calls # <<>> /\ calls' = Front(calls) /\ incomplete' = incomplete
    BY <1>8 DEF ReadHit, Running, Return
  <2> QED BY <1>4, <2>1
<1>9. CASE ReadUnsealed
  <2>1. /\ calls # <<>> /\ calls' = Front(calls) /\ Top.op = "read" /\ Top.bb \notin sealed
        /\ incomplete' = [incomplete EXCEPT ![Top.bb] =
                            @ \cup {[phi |-> fresh, var |-> Top.var]}]
    BY <1>9 DEF ReadUnsealed, ReadMiss, Running, Return
  <2>2. Top.bb \in Blocks /\ Top.var \in V
    BY <1>2, <2>1 DEF CallIn
  <2> QED BY <1>4, <2>1, <2>2
<1>10. CASE ReadSinglePredecessor
  <2> DEFINE a == WriteBack(Top.bb, Top.var)
             b == ReadCall(preds[Top.bb][1], Top.var)
  <2>1. /\ calls # <<>> /\ calls' = Front(calls) \o <<a, b>> /\ incomplete' = incomplete
        /\ Top.op = "read" /\ Len(preds[Top.bb]) = 1
    BY <1>10 DEF ReadSinglePredecessor, ReadMiss, Running, Become
  <2>2. Top.bb \in Blocks /\ Top.var \in V
    BY <1>2, <2>1 DEF CallIn
  <2>3. preds[Top.bb][1] \in Blocks
    <3>1. DOMAIN preds[Top.bb] = 1 .. Len(preds[Top.bb])
      BY <2>2 DEF IInv, BlocksOK, Blocks
    <3> QED BY <1>7, <2>1, <2>2, <3>1
  <2>4. CallIn(a, V) /\ CallIn(b, V)
    BY <2>2, <2>3 DEF CallIn, WriteBack, ReadCall
  <2> HIDE DEF a, b
  <2> QED BY <1>5, <2>1, <2>4
<1>11. CASE ReadJoin
  <2>1. CASE Die("abort")
    BY <1>3, <2>1 DEF Die
  <2>2. CASE ~ Die("abort")
    <3> DEFINE a == WriteBack(Top.bb, Top.var)
               b == FillCall(Top.bb, Top.var, fresh)
    <3>1. /\ calls # <<>> /\ calls' = Front(calls) \o <<a, b>> /\ incomplete' = incomplete
          /\ Top.op = "read"
      BY <1>11, <2>2 DEF ReadJoin, ReadMiss, Running, Become
    <3>2. CallIn(a, V) /\ CallIn(b, V)
      BY <1>2, <3>1 DEF CallIn, WriteBack, FillCall
    <3> HIDE DEF a, b
    <3> QED BY <1>5, <3>1, <3>2
  <2> QED BY <2>1, <2>2
<1>12. CASE WriteAndReturn
  <2>1. incomplete' = incomplete /\ (UNCHANGED calls \/ (calls # <<>> /\ calls' = Front(calls)))
    BY <1>12 DEF WriteAndReturn, Running, Return, Die
  <2> QED BY <1>3, <1>4, <2>1
<1>13. CASE FillRead
  <2>1. PICK i \in DOMAIN preds[Top.bb] :
          calls' = Front(calls) \o <<Top, ReadCall(preds[Top.bb][i], Top.var)>>
    BY <1>13 DEF FillRead, Become
  <2> DEFINE a == Top
             b == ReadCall(preds[Top.bb][i], Top.var)
  <2>2. calls # <<>> /\ incomplete' = incomplete /\ Top.op = "fill"
    BY <1>13 DEF FillRead, Running
  <2>3. Top.bb \in Blocks /\ Top.var \in V /\ CallIn(Top, V)
    BY <1>2, <2>2 DEF CallIn
  <2>4. CallIn(a, V) /\ CallIn(b, V)
    BY <1>7, <2>3 DEF CallIn, ReadCall
  <2> HIDE DEF a, b
  <2>5. calls' = Front(calls) \o <<a, b>>
    BY <2>1 DEF a, b
  <2> QED BY <1>5, <2>2, <2>4, <2>5
<1>14. CASE FillAdd
  BY <1>3, <1>14 DEF FillAdd
<1>15. CASE FillDone \/ OptReplace
  <2>1. calls # <<>> /\ incomplete' = incomplete
    BY <1>15 DEF FillDone, OptReplace, Running
  <2>2. \E a : CallIn(a, V) /\ calls' = Front(calls) \o <<a>>
    <3>1. CASE FillDone
      <4>1. CallIn(OptCall(Top.phi), V)
        BY DEF CallIn, OptCall
      <4> QED BY <3>1, <4>1 DEF FillDone, Become
    <3>2. CASE OptReplace
      <4>1. \A same, todo : CallIn(ReoptLoop(same, todo), V)
        BY DEF CallIn, ReoptLoop
      <4>2. \E same, todo : calls' = Front(calls) \o <<ReoptLoop(same, todo)>>
        BY <3>2 DEF OptReplace, Become
      <4> QED BY <4>1, <4>2
    <3> QED BY <1>15, <3>1, <3>2
  <2> QED BY <1>6, <2>1, <2>2
<1>16. CASE OptErased
  BY <1>3, <1>16 DEF OptErased, Die
<1>17. CASE OptKeep \/ ReoptDone
  <2>1. calls # <<>> /\ calls' = Front(calls) /\ incomplete' = incomplete
    BY <1>17 DEF OptKeep, ReoptDone, Running, Return
  <2> QED BY <1>4, <2>1
<1>18. CASE ReoptNext
  <2> DEFINE a == ReoptLoop(Top.same, Tail(Top.todo))
             b == OptCall(Head(Top.todo))
  <2>1. /\ calls # <<>> /\ calls' = Front(calls) \o <<a, b>> /\ incomplete' = incomplete
    BY <1>18 DEF ReoptNext, Running, Become
  <2>2. CallIn(a, V) /\ CallIn(b, V)
    BY DEF CallIn, ReoptLoop, OptCall
  <2> HIDE DEF a, b
  <2> QED BY <1>5, <2>1, <2>2
<1> QED
  BY <1>8, <1>9, <1>10, <1>11, <1>12, <1>13, <1>14, <1>15, <1>16, <1>17, <1>18
     DEF SSAStep

-----------------------------------------------------------------------------
(* Every step is a step of BlockSealing, or a stutter.                      *)

Entries == [phi : Nat, var : Vars]

\* Growing the function is the contract's Grow when only open blocks gain edges.
LEMMA GrowRefines ==
  ASSUME BlocksOK, curr \in Blocks, NEW n \in Nat, NEW to, to \cap sealed = {},
         Grow(n, to), sealed' = sealed
  PROVE  Contract!Grow
<1>1. /\ preds' \in Seq(Seq(Nat)) /\ Len(preds') = Len(preds) + n
      /\ \A b \in Blocks : b \notin to => preds'[b] = preds[b]
      /\ \A b \in Blocks : Contract!Extends(preds'[b], preds[b])
      /\ incomplete' = [b \in Blocks' |-> IF b \in Blocks THEN incomplete[b] ELSE {}]
  BY GrowFacts
<1>2. Len(preds') >= Len(preds)
  <2>1. Len(preds) \in Nat
    BY DEF BlocksOK
  <2> QED BY <1>1, <2>1
<1>3. \A b \in sealed : preds'[b] = preds[b]
  BY <1>1 DEF BlocksOK
<1> QED BY <1>1, <1>2, <1>3 DEF Contract!Grow, Blocks

\* The blocks an unfinished statement owns are open.
LEMMA OpenFrame ==
  ASSUME IInv, ctl # <<>>
  PROVE  Owed(Last(ctl)) \cap sealed = {}
<1>1. Last(ctl) = ctl[Len(ctl)] /\ Len(ctl) \in DOMAIN ctl
  BY LastFrame DEF IInv
<1> QED BY <1>1 DEF IInv, SealDiscipline, OwedOpen

\* The start of an IF or WHILE only branches to blocks it created.
LEMMA BeginRefines ==
  ASSUME IInv, BeginIf \/ BeginWhileReusing \/ BeginWhile
  PROVE  Contract!Grow
<1>1. Emitting /\ sealed' = sealed /\ BlocksOK
  BY DEF BeginIf, BeginWhileReusing, BeginWhile, Offered, At, Emitting, IInv
<1>2. curr \in Blocks
  BY <1>1, CurrentBlock
<1>3. CASE BeginIf
  <2>1. PICK n \in {2, 3} : Grow(n, {})
    BY <1>3 DEF BeginIf
  <2> QED BY <1>1, <1>2, <2>1, GrowRefines
<1>4. CASE BeginWhileReusing
  BY <1>1, <1>2, <1>4, GrowRefines DEF BeginWhileReusing
<1>5. CASE BeginWhile
  <2> DEFINE to == {NewBlock(3)}
  <2>1. Grow(3, to)
    BY <1>5 DEF BeginWhile
  <2>2. to \cap sealed = {}
    BY <1>1 DEF NewBlock, BlocksOK, Blocks
  <2> HIDE DEF to
  <2> QED BY <1>1, <1>2, <2>1, <2>2, GrowRefines
<1> QED BY <1>3, <1>4, <1>5

\* The branch on a condition goes to blocks the frame owns.
LEMMA BranchRefines ==
  ASSUME IInv, BranchIf \/ BranchWhile
  PROVE  Contract!Grow
<1> DEFINE f == Last(ctl)
<1>1. /\ Emitting /\ sealed' = sealed /\ BlocksOK /\ ctl # <<>>
      /\ ctl[Len(ctl)].body # NoBlock
  BY DEF BranchIf, BranchWhile, Complete, At, Emitting, IInv, ControlShape
<1>2. curr \in Blocks
  BY <1>1, CurrentBlock
<1>3. f.body # NoBlock /\ f.after # NoBlock /\ Owed(f) \cap sealed = {}
  BY <1>1, TopFrame, OpenFrame
<1>4. \E to : Grow(0, to) /\ to \subseteq {f.body, f.after} \cup ({f.els} \ {NoBlock})
  <2>1. CASE BranchIf
    <3> DEFINE other == IF f.els # NoBlock THEN f.els ELSE f.after
    <3>1. Grow(0, {f.body, other})
      BY <2>1 DEF BranchIf
    <3> QED BY <3>1
  <2>2. CASE BranchWhile
    <3>1. Grow(0, {f.body, f.after})
      BY <2>2 DEF BranchWhile
    <3> QED BY <3>1
  <2> QED BY <2>1, <2>2
<1>5. PICK to : Grow(0, to) /\ to \subseteq Owed(f)
  BY <1>3, <1>4 DEF Owed
<1> QED BY <1>1, <1>2, <1>3, <1>5, GrowRefines

\* The branch at the end of a part goes to a block the frame owns.
LEMMA EndRefines ==
  ASSUME IInv, EndThen \/ EndIf \/ EndWhile
  PROVE  Contract!Grow \/ UNCHANGED <<preds, incomplete, sealed>>
<1> DEFINE f == Last(ctl)
<1>1. Emitting /\ sealed' = sealed /\ BlocksOK /\ ctl # <<>> /\ pc = "fetch"
  BY DEF EndThen, EndIf, EndWhile, AtEnd, At, Emitting, IInv
<1>2. curr \in Blocks
  BY <1>1, CurrentBlock
<1>3. /\ f.after # NoBlock /\ Owed(f) \cap sealed = {}
      /\ f.kind = "while" => (f.body = NoBlock <=> f.cond # NoBlock)
      /\ f.body # NoBlock => pc # "fetch"
  BY <1>1, TopFrame, OpenFrame
<1>4. f.body = NoBlock
  BY <1>1, <1>3
<1>5. CASE UNCHANGED <<preds, incomplete, sealed>>
  BY <1>5
<1>6. CASE Grow(0, {f.after})
  <2> DEFINE to == {f.after}
  <2>1. to \cap sealed = {} /\ Grow(0, to)
    BY <1>3, <1>6 DEF Owed
  <2> HIDE DEF to
  <2> QED BY <1>1, <1>2, <2>1, GrowRefines
<1>7. CASE Grow(0, {f.cond}) /\ f.kind = "while"
  <2> DEFINE to == {f.cond}
  <2>1. to \cap sealed = {} /\ Grow(0, to)
    BY <1>3, <1>4, <1>7 DEF Owed
  <2> HIDE DEF to
  <2> QED BY <1>1, <1>2, <2>1, GrowRefines
<1>8. EndWhile => Grow(0, {f.cond}) /\ f.kind = "while"
  BY DEF EndWhile, AtEnd
<1>9. EndThen \/ EndIf => BranchUnlessTerminated(f.after)
  BY DEF EndThen, EndIf
<1> QED BY <1>1, <1>5, <1>6, <1>7, <1>8, <1>9 DEF BranchUnlessTerminated

\* The other emitters change nothing the contract speaks of.
LEMMA OtherStatementsStutter ==
  ASSUME BeginSimple \/ ReadLocal \/ TakeOperand \/ LoadMemory \/ AssignLocal
           \/ AssignGlobal \/ AssignVarParameter \/ EmitReturn \/ EndProcedure
  PROVE  UNCHANGED <<preds, incomplete, sealed>>
  BY DEF BeginSimple, ReadLocal, TakeOperand, LoadMemory, AssignLocal, AssignGlobal,
         AssignVarParameter, EmitReturn, EndProcedure, ssaVars, irVars

\* The end of sealBlock is the contract's Seal.
LEMMA SealEndRefines ==
  ASSUME IInv, SealEnd
  PROVE  \E b \in Blocks : Contract!Seal(b)
<1>1. /\ sealing # NoBlock /\ UNCHANGED preds
      /\ sealed' = sealed \cup {sealing}
      /\ incomplete' = [incomplete EXCEPT ![sealing] = {}]
  BY DEF SealEnd, SealFinish, irVars
<1>2. sealing \in Blocks \ sealed
  <2>1. sealq # <<>> /\ sealing = Head(sealq)
    BY <1>1 DEF IInv, ControlShape
  <2>2. sealing \in ToSet(sealq)
    BY <2>1, TailSet DEF IInv, BlocksOK, SealDiscipline, QueueOnce
  <2>3. sealing \in Upcoming
    BY <1>1, <2>2 DEF Upcoming
  <2> QED BY <2>3 DEF IInv, SealDiscipline, UpcomingOpen
<1> QED BY <1>1, <1>2 DEF Contract!Seal

\* The recursive functions add at most one incomplete phi, to an open block.
LEMMA SSAStepRefines ==
  ASSUME IInv, CallsOK, SSAStep
  PROVE  \/ UNCHANGED <<preds, incomplete, sealed>>
         \/ \E b \in Blocks : \E e \in Entries \cap incomplete'[b] : Contract!Await(b, e)
<1>1. preds' = preds /\ sealed' = sealed
  BY SSAStepKeeps DEF Kept, IInv
<1>2. CASE incomplete' = incomplete
  BY <1>1, <1>2
<1>3. CASE incomplete' # incomplete
  <2> DEFINE b == Top.bb
             e == [phi |-> fresh, var |-> Top.var]
  <2>1. b \in Blocks \ sealed /\ Top.var \in Vars
        /\ incomplete' = [incomplete EXCEPT ![b] = @ \cup {e}]
    <3>1. CallsIn(Vars)
      BY DEF CallsOK, CallsIn, CallIn
    <3> QED BY <1>3, <3>1, SSACalls
  <2>2. e \in Entries
    BY <2>1 DEF Entries, IInv, BlocksOK
  <2> HIDE DEF b, e
  <2>3. e \in incomplete'[b]
    BY <2>1 DEF IInv, BlocksOK
  <2>4. Contract!Await(b, e)
    BY <1>1, <2>1 DEF Contract!Await
  <2> QED BY <2>1, <2>2, <2>3, <2>4
<1> QED BY <1>2, <1>3

\* Every step is a step of the contract or a stutter.
LEMMA StepRefines ==
  ASSUME IInv, CallsOK, [Next]_vars
  PROVE  \/ Contract!Grow
         \/ UNCHANGED <<preds, incomplete, sealed>>
         \/ \E b \in Blocks : Contract!Seal(b)
         \/ \E b \in Blocks : \E e \in Entries \cap incomplete'[b] : Contract!Await(b, e)
<1>1. CASE Step
  BY <1>1, SSAStepRefines DEF Step
<1>2. CASE Statement
  BY <1>2, BeginRefines, BranchRefines, EndRefines, OtherStatementsStutter DEF Statement
<1>3. CASE SealEnd
  BY <1>3, SealEndRefines
<1>4. CASE Seal \/ SealStep \/ SetCurr \/ UNCHANGED vars
  BY <1>4 DEF Seal, SealStart, SealStep, SealPhi, SetCurr, vars, ssaVars, irVars
<1> QED BY <1>1, <1>2, <1>3, <1>4 DEF Next, Sealing, Halt

-----------------------------------------------------------------------------
(* The type invariant.                                                      *)

\* No block is ever lost, and incomplete phis are of variables of the procedure.
LEMMA ContractKeepsBlocks ==
  ASSUME IInv, CallsOK, [Next]_vars
  PROVE  Blocks \subseteq Blocks' /\ incomplete' \in [Blocks' -> SUBSET Entries]
<1>1. Len(preds) \in Nat /\ Blocks = 1 .. Len(preds) /\ incomplete \in [Blocks -> SUBSET Entries]
  BY DEF IInv, BlocksOK, CallsOK, Blocks, Entries
<1>2. CASE Contract!Grow
  <2>1. Len(preds') \in Nat /\ Blocks' = 1 .. Len(preds') /\ Len(preds') >= Len(preds)
    BY <1>2 DEF Contract!Grow, Blocks
  <2>2. Blocks \subseteq Blocks'
    BY <1>1, <2>1
  <2>3. incomplete' = [b \in Blocks' |-> IF b \in Blocks THEN incomplete[b] ELSE {}]
    BY <1>2 DEF Contract!Grow, Blocks
  <2> QED BY <1>1, <2>2, <2>3
<1>3. CASE UNCHANGED <<preds, incomplete, sealed>>
  BY <1>1, <1>3 DEF Blocks
<1>4. CASE \E b \in Blocks : Contract!Seal(b)
  BY <1>1, <1>4 DEF Contract!Seal, Blocks
<1>5. CASE \E b \in Blocks : \E e \in Entries \cap incomplete'[b] : Contract!Await(b, e)
  <2>1. PICK b \in Blocks, e \in Entries : Contract!Await(b, e)
    BY <1>5
  <2>2. Blocks' = Blocks /\ incomplete' = [incomplete EXCEPT ![b] = @ \cup {e}]
    BY <2>1 DEF Contract!Await, Blocks
  <2> QED BY <1>1, <2>1, <2>2
<1> QED BY StepRefines, <1>2, <1>3, <1>4, <1>5

\* The operands of a statement are variables of the procedure.
LEMMA OperandIsVariable ==
  ASSUME IInv, CallsOK, Wanted
  PROVE  NextOperand \in Vars
<1>1. stmt \in Statements /\ Len(vals) < Len(stmt.reads)
  BY DEF Wanted, At, IInv, BlocksOK, ControlShape
<1>2. stmt.reads \in Seq(Vars)
  <2>1. CASE stmt.kind = "copy"
    <3>1. PICK v \in Vars : stmt.reads = <<v>>
      BY <1>1, <2>1 DEF Statements, SimpleKinds
    <3> QED BY <3>1
  <2>2. CASE stmt.kind # "copy"
    BY <1>1, <2>2 DEF Statements
  <2> QED BY <2>1, <2>2
<1>3. Len(vals) \in Nat
  BY DEF CallsOK
<1>4. Len(vals) + 1 \in 1 .. Len(stmt.reads)
  BY <1>1, <1>2, <1>3
<1> QED BY <1>2, <1>4 DEF NextOperand

\* Every step keeps the calls in order.
LEMMA NextCalls ==
  ASSUME IInv, CallsOK, [Next]_vars
  PROVE  calls' \in Seq(ToSet(calls')) /\ \A f \in ToSet(calls') : CallIn(f, Vars)'
<1>1. SUFFICES calls' \in Seq(ToSet(calls')) /\ \A f \in ToSet(calls') : CallIn(f, Vars)
  BY ContractKeepsBlocks DEF CallIn
<1>2. CASE Step
  <2>1. CallsIn(Vars)
    BY DEF CallsOK, CallsIn, CallIn
  <2> QED BY <1>2, <2>1, SSACalls DEF Step
<1>3. CASE UNCHANGED calls
  BY <1>3 DEF CallsOK, CallIn
<1>4. CASE ReadLocal
  <2> DEFINE a == ReadCall(curr, NextOperand)
  <2>1. Emitting /\ Wanted /\ calls' = <<a>>
    BY <1>4 DEF ReadLocal, Wanted, At, Emitting
  <2>2. CallIn(a, Vars)
    BY <2>1, CurrentBlock, OperandIsVariable DEF CallIn, ReadCall
  <2> HIDE DEF a
  <2>3. <<a>> \in Seq(ToSet(<<a>>)) /\ ToSet(<<a>>) = {a}
    BY FrameLists
  <2> QED BY <2>1, <2>2, <2>3
<1>5. CASE SealStep
  <2>1. PICK e \in incomplete[sealing] : calls' = <<FillCall(sealing, e.var, e.phi)>>
    BY <1>5 DEF SealStep, SealPhi
  <2>2. sealing \in Blocks
    BY <1>5 DEF SealStep, SealPhi, IInv, BlocksOK
  <2>3. e \in Entries
    BY <2>1, <2>2 DEF CallsOK, Entries
  <2> DEFINE a == FillCall(sealing, e.var, e.phi)
  <2>4. CallIn(a, Vars)
    BY <2>2, <2>3 DEF CallIn, FillCall, Entries
  <2> HIDE DEF a
  <2>5. calls' = <<a>>
    BY <2>1 DEF a
  <2>6. <<a>> \in Seq(ToSet(<<a>>)) /\ ToSet(<<a>>) = {a}
    BY FrameLists
  <2> QED BY <2>4, <2>5, <2>6
<1>6. Statement /\ ~ ReadLocal => UNCHANGED calls
  BY DEF Statement, BeginSimple, BeginIf, BeginWhileReusing, BeginWhile, TakeOperand,
         LoadMemory, AssignLocal, AssignGlobal, AssignVarParameter, BranchIf, BranchWhile,
         EmitReturn, EndThen, EndIf, EndWhile, EndProcedure, ssaVars
<1>7. Seal \/ SealEnd \/ SetCurr \/ UNCHANGED vars => UNCHANGED calls
  BY DEF Seal, SealStart, SealEnd, SealFinish, SetCurr, vars, ssaVars
<1> QED BY <1>2, <1>3, <1>4, <1>5, <1>6, <1>7 DEF Next, Sealing, Halt

\* Every step keeps vals a sequence.
LEMMA NextVals ==
  ASSUME CallsOK, [Next]_vars
  PROVE  vals' \in Seq(ToSet(vals'))
<1>1. CASE UNCHANGED vals
  BY <1>1 DEF CallsOK
<1>2. CASE vals' = <<>>
  BY <1>2
<1>3. CASE \E e : vals' = Append(vals, e)
  <2>1. PICK e : vals' = Append(vals, e)
    BY <1>3
  <2> DEFINE S == ToSet(vals) \cup {e}
             s == Append(vals, e)
  <2>2. vals \in Seq(S)
    BY DEF CallsOK
  <2>3. e \in S
    OBVIOUS
  <2> HIDE DEF S
  <2>4. s \in Seq(S)
    BY <2>2, <2>3
  <2> HIDE DEF s
  <2>5. s \in Seq(ToSet(s))
    BY <2>4, SeqOfElements
  <2> QED BY <2>1, <2>5 DEF s
<1>4. Statement => UNCHANGED vals \/ vals' = <<>> \/ \E e : vals' = Append(vals, e)
  BY DEF Statement, BeginSimple, BeginIf, BeginWhileReusing, BeginWhile, ReadLocal,
         TakeOperand, LoadMemory, AssignLocal, AssignGlobal, AssignVarParameter, BranchIf,
         BranchWhile, EmitReturn, EndThen, EndIf, EndWhile, EndProcedure, NextStatement,
         Fetch, driverVars
<1>5. Step \/ Sealing \/ UNCHANGED vars => UNCHANGED vals
  BY DEF Step, Sealing, Seal, SealStep, SealEnd, SetCurr, vars, driverVars
<1> QED BY <1>1, <1>2, <1>3, <1>4, <1>5 DEF Next, Halt

\* No call is active at first.
LEMMA InitCalls == Init => CallsOK
  BY DEF Init, CallsOK, Blocks, ToSet

\* CallsOK is inductive relative to IInv.
LEMMA NextCallsOK ==
  ASSUME IInv, CallsOK, [Next]_vars
  PROVE  CallsOK'
  BY ContractKeepsBlocks, NextCalls, NextVals DEF CallsOK, CallIn, Entries

\* IInv and CallsOK hold in every reachable state.
LEMMA CallsInvariance == Spec => [](IInv /\ CallsOK)
<1>1. Init => IInv /\ CallsOK
  BY InitInv, InitCalls
<1>2. IInv /\ CallsOK /\ [Next]_vars => (IInv /\ CallsOK)'
  BY NextInv, NextCallsOK
<1> QED BY <1>1, <1>2, PTL DEF Spec

\* The type invariant holds for every program: edges stay within the function, each
\* block has its CurrentDef entry, and no call reads, writes or fills outside them.
THEOREM TypeCorrect == Spec => []TypeOK
<1>1. IInv /\ CallsOK => TypeOK
  BY DEF IInv, TypeOK
<1> QED BY CallsInvariance, <1>1, PTL

\* No edge and no incomplete phi is ever added to a sealed block and none is sealed
\* twice: whatever the program, CGProcedure keeps the contract BlockSealing.
THEOREM Refinement == Spec => ImplementsBlockSealing
<1>1. Init => Contract!Init
  BY DEF Init, Contract!Init
<1>2. IInv /\ CallsOK /\ [Next]_vars => [Contract!Next]_(Contract!vars)
  <2> SUFFICES ASSUME IInv, CallsOK, [Next]_vars
               PROVE  Contract!Next \/ UNCHANGED Contract!vars
    OBVIOUS
  <2> QED BY StepRefines DEF Contract!Next, Contract!vars, Blocks
<1> QED
  BY <1>1, <1>2, CallsInvariance, PTL DEF Spec, ImplementsBlockSealing, Contract!Spec

-----------------------------------------------------------------------------
(* What follows from the contract.                                          *)

\* A sealed block waits for nothing; the contract alone keeps it so.
Settled == \A b \in sealed : incomplete[b] = {}

\* A sealed block has no incomplete phi, and keeps none.
LEMMA NextSettled ==
  ASSUME IInv, CallsOK, Settled, [Next]_vars
  PROVE  Settled'
<1>1. sealed \subseteq Blocks /\ incomplete \in [Blocks -> SUBSET Entries]
  BY DEF IInv, BlocksOK, CallsOK, Entries
<1>2. Blocks \subseteq Blocks'
  BY ContractKeepsBlocks
<1>3. CASE Contract!Grow
  BY <1>1, <1>2, <1>3 DEF Contract!Grow, Settled, Blocks
<1>4. CASE UNCHANGED <<preds, incomplete, sealed>>
  BY <1>4 DEF Settled
<1>5. CASE \E b \in Blocks : Contract!Seal(b)
  BY <1>1, <1>5 DEF Contract!Seal, Settled
<1>6. CASE \E b \in Blocks : \E e \in Entries \cap incomplete'[b] : Contract!Await(b, e)
  BY <1>1, <1>6 DEF Contract!Await, Settled
<1> QED BY StepRefines, <1>3, <1>4, <1>5, <1>6

\* When a procedure is done no block was forgotten and no phi is left to be filled.
THEOREM AllSealedHolds == Spec => []AllSealed
<1>1. Init => Settled
  BY DEF Init, Settled
<1>2. IInv /\ CallsOK /\ Settled /\ [Next]_vars => Settled'
  BY NextSettled
<1>3. IInv /\ Settled => AllSealed
  <2> SUFFICES ASSUME IInv, Settled, pc = "done"
               PROVE  sealed = Blocks /\ \A b \in Blocks : incomplete[b] = {}
    BY DEF AllSealed
  <2>1. ctl = <<>> /\ sealq = <<>> /\ next = NoBlock
    BY DEF IInv, ControlShape
  <2>2. Upcoming = {}
    BY <2>1 DEF Upcoming, Emitting, ToSet
  <2>3. Blocks \ sealed = {} /\ sealed \subseteq Blocks
    BY <2>1, <2>2 DEF IInv, SealDiscipline, OpenOwed, BlocksOK
  <2> QED BY <2>3 DEF Settled
<1> QED BY <1>1, <1>2, <1>3, CallsInvariance, PTL DEF Spec

-----------------------------------------------------------------------------
(* Where a read can lead.                                                   *)

\* Between statements no call is active; a statement makes one read at a time, in
\* the current block.
OneRead ==
  Emitting => \/ calls = <<>>
              \/ pc = "operands" /\ \E v : calls = <<ReadCall(curr, v)>>

\* A stack of one call.
LEMMA SingleCall ==
  ASSUME NEW a, calls = <<a>>
  PROVE  Top = a /\ Front(calls) = <<>>
  BY DEF Top, Last, Front

\* The one read a statement makes hits, or returns a new phi: the block is open.
LEMMA StepOneRead ==
  ASSUME IInv, OneRead, Step
  PROVE  OneRead'
<1>1. UNCHANGED driverVars
  BY DEF Step
<1>2. CASE ~ Emitting
  BY <1>1, <1>2 DEF OneRead, Emitting, driverVars
<1>3. CASE Emitting
  <2>1. calls # <<>>
    BY DEF Step, SSAStep, ReadHit, ReadUnsealed, ReadSinglePredecessor, ReadJoin, ReadMiss,
           WriteAndReturn, FillRead, FillAdd, FillDone, OptErased, OptKeep, OptReplace,
           ReoptNext, ReoptDone, Running
  <2>2. PICK v : calls = <<ReadCall(curr, v)>>
    BY <1>3, <2>1 DEF OneRead
  <2>3. Top = ReadCall(curr, v) /\ Front(calls) = <<>>
    BY <2>2, SingleCall
  <2>4. Top.op = "read" /\ Top.bb \notin sealed
    BY <1>3, <2>3, CurrentBlock DEF ReadCall, IInv, SealDiscipline, UpcomingOpen
  <2>5. ReadHit \/ ReadUnsealed
    BY <2>4 DEF Step, SSAStep, ReadHit, ReadUnsealed, ReadSinglePredecessor, ReadJoin,
                ReadMiss, WriteAndReturn, FillRead, FillAdd, FillDone, OptErased, OptKeep,
                OptReplace, ReoptNext, ReoptDone, Running
  <2>6. calls' = <<>>
    BY <2>3, <2>5 DEF ReadHit, ReadUnsealed, Return
  <2> QED BY <2>6 DEF OneRead
<1> QED BY <1>2, <1>3

\* Emitters run between calls.
LEMMA StatementIdle ==
  ASSUME Statement
  PROVE  calls = <<>>
<1>1. \A where : At(where) => calls = <<>>
  BY DEF At, Idle
<1>2. \A kinds : Offered(kinds) # {} => calls = <<>>
  BY <1>1 DEF Offered
<1>3. BeginSimple \/ BeginIf \/ BeginWhileReusing \/ BeginWhile => calls = <<>>
  BY <1>2 DEF BeginSimple, BeginIf, BeginWhileReusing, BeginWhile
<1> QED
  BY <1>1, <1>3
     DEF Statement, ReadLocal, TakeOperand, LoadMemory, Wanted, Complete, AtEnd,
         AssignLocal, AssignGlobal, AssignVarParameter, BranchIf, BranchWhile, EmitReturn,
         EndThen, EndIf, EndWhile, EndProcedure

\* An emitter starts at most one call, the read of an operand.
LEMMA StatementCalls ==
  ASSUME Statement
  PROVE  ReadLocal \/ UNCHANGED calls
  BY DEF Statement, BeginSimple, BeginIf, BeginWhileReusing, BeginWhile, TakeOperand,
         LoadMemory, AssignLocal, AssignGlobal, AssignVarParameter, BranchIf, BranchWhile,
         EmitReturn, EndThen, EndIf, EndWhile, EndProcedure, ssaVars

\* OneRead is inductive relative to IInv.
LEMMA NextOneRead ==
  ASSUME IInv, OneRead, [Next]_vars
  PROVE  OneRead'
<1>1. CASE Step
  BY <1>1, StepOneRead
<1>2. CASE Statement
  <2>1. CASE ReadLocal
    BY <2>1 DEF ReadLocal, Wanted, At, driverVars, OneRead
  <2>2. CASE UNCHANGED calls
    BY <1>2, <2>2, StatementIdle DEF OneRead
  <2> QED BY <1>2, <2>1, <2>2, StatementCalls
<1>3. CASE Seal
  BY <1>3 DEF Seal, driverVars, OneRead, Emitting
<1>4. CASE SealStep \/ SealEnd
  <2>1. sealing # NoBlock /\ UNCHANGED pc
    BY <1>4 DEF SealStep, SealEnd, SealPhi, SealFinish, driverVars
  <2> QED BY <2>1 DEF IInv, ControlShape, OneRead, Emitting
<1>5. CASE SetCurr
  BY <1>5 DEF SetCurr, At, Idle, ssaVars, OneRead
<1>6. CASE UNCHANGED vars
  BY <1>6 DEF vars, ssaVars, driverVars, OneRead, Emitting
<1> QED BY <1>1, <1>2, <1>3, <1>4, <1>5, <1>6 DEF Next, Sealing, Halt

\* A read that a statement makes never recurses into other blocks, so it cannot
\* erase the phi an earlier operand of the same statement points to.
THEOREM ReadsStayLocalHolds == Spec => []ReadsStayLocal
<1>1. Init => OneRead
  BY DEF Init, OneRead
<1>2. IInv /\ OneRead /\ [Next]_vars => OneRead'
  BY NextOneRead
<1>3. IInv /\ OneRead => ReadsStayLocal
  <2> SUFFICES ASSUME IInv, OneRead, pc = "operands"
               PROVE  curr \notin sealed /\ Len(calls) <= 1
    BY DEF ReadsStayLocal
  <2>1. curr \notin sealed
    BY CurrentBlock DEF IInv, SealDiscipline, UpcomingOpen, Emitting
  <2>2. Len(calls) <= 1
    <3>1. CASE calls = <<>>
      BY <3>1
    <3>2. CASE \E v : calls = <<ReadCall(curr, v)>>
      <4>1. PICK v : calls = <<ReadCall(curr, v)>>
        BY <3>2
      <4> QED BY <4>1
    <3> QED BY <3>1, <3>2 DEF OneRead, Emitting
  <2> QED BY <2>1, <2>2
<1> QED BY <1>1, <1>2, <1>3, Invariance, PTL DEF Spec


-----------------------------------------------------------------------------
(* The map sealBlock iterates over.                                         *)

\* A block defines the variables of its incomplete phis, and while a block is sealed
\* every active call works on a variable the block defines.
Covered ==
  /\ \A b \in Blocks : \A e \in incomplete[b] : e.var \in DOMAIN defs[b]
  /\ sealing # NoBlock => CallsIn(DOMAIN defs[sealing])

\* Definitions are replaced, never removed.
LEMMA BindGrows ==
  ASSUME DOMAIN defs = Blocks, NEW b, NEW v, NEW val, WriteLocalVariable(b, v, val)
  PROVE  /\ \A c \in Blocks : DOMAIN defs[c] \subseteq DOMAIN defs'[c]
         /\ b \in Blocks => v \in DOMAIN defs'[b]
  BY DEF WriteLocalVariable, Bind

\* The recursive functions never take a variable out of Defs.
LEMMA SSADefsGrow ==
  ASSUME IInv, SSAStep
  PROVE  \A b \in Blocks : DOMAIN defs[b] \subseteq DOMAIN defs'[b]
<1>1. DOMAIN defs = Blocks
  BY DEF IInv, BlocksOK
<1>2. CASE UNCHANGED defs
  BY <1>2
<1>3. CASE ReadUnsealed \/ ReadJoin \/ WriteAndReturn
  <2>1. UNCHANGED defs \/ \E b, v, val : WriteLocalVariable(b, v, val)
    BY <1>3 DEF ReadUnsealed, ReadJoin, WriteAndReturn, Die
  <2> QED BY <1>1, <1>2, <2>1, BindGrows
<1>4. CASE OptReplace
  <2>1. PICK p, same : ReplaceAndErase(p, same)
    BY <1>4 DEF OptReplace
  <2> QED BY <1>1, <2>1 DEF ReplaceAndErase, SubstAll
<1>5. ReadHit \/ ReadSinglePredecessor \/ FillRead \/ FillAdd \/ FillDone \/ OptErased
        \/ OptKeep \/ ReoptNext \/ ReoptDone => UNCHANGED defs
  BY DEF ReadHit, ReadSinglePredecessor, FillRead, FillAdd, FillDone, OptErased, OptKeep,
         ReoptNext, ReoptDone, Die
<1> QED BY <1>2, <1>3, <1>4, <1>5 DEF SSAStep

\* Incomplete phis are added by reads that find no definition, and only by them.
LEMMA SSAIncomplete ==
  ASSUME IInv, CallsOK, SSAStep
  PROVE  \/ UNCHANGED incomplete
         \/ /\ calls # <<>> /\ Top.op = "read"
            /\ Top.bb \in Blocks /\ Top.var \notin DOMAIN defs[Top.bb]
            /\ incomplete' = [incomplete EXCEPT ![Top.bb] =
                                @ \cup {[phi |-> fresh, var |-> Top.var]}]
            /\ Top.var \in DOMAIN defs'[Top.bb]
<1>1. CASE ReadUnsealed
  <2>1. /\ calls # <<>> /\ Top.op = "read" /\ Top.var \notin DOMAIN defs[Top.bb]
        /\ incomplete' = [incomplete EXCEPT ![Top.bb] =
                            @ \cup {[phi |-> fresh, var |-> Top.var]}]
        /\ WriteLocalVariable(Top.bb, Top.var, Phi(fresh))
    BY <1>1 DEF ReadUnsealed, ReadMiss, Running
  <2>2. Top.bb \in Blocks
    <3>1. CallsIn(Vars)
      BY DEF CallsOK, CallsIn, CallIn
    <3>2. CallIn(Top, Vars)
      BY <2>1, <3>1, ReturnOK
    <3> QED BY <2>1, <3>2 DEF CallIn
  <2>3. DOMAIN defs = Blocks
    BY DEF IInv, BlocksOK
  <2> QED BY <2>1, <2>2, <2>3, BindGrows
<1>2. CASE ~ ReadUnsealed
  BY <1>2
     DEF SSAStep, ReadHit, ReadSinglePredecessor, ReadJoin, WriteAndReturn, FillRead,
         FillAdd, FillDone, OptErased, OptKeep, OptReplace, ReoptNext, ReoptDone, Die
<1> QED BY <1>1, <1>2

\* The recursive functions keep Covered.
LEMMA StepCovered ==
  ASSUME IInv, CallsOK, Covered, Step
  PROVE  Covered'
<1>1. UNCHANGED <<preds, sealing>> /\ SSAStep /\ Blocks' = Blocks
  BY SSAStepKeeps DEF Step, Kept, IInv, Blocks
<1>2. \A b \in Blocks : DOMAIN defs[b] \subseteq DOMAIN defs'[b]
  BY <1>1, SSADefsGrow
<1>3. \A b \in Blocks : \A e \in incomplete'[b] : e.var \in DOMAIN defs'[b]
  <2>1. CASE UNCHANGED incomplete
    BY <1>2, <2>1 DEF Covered
  <2>2. CASE ~ UNCHANGED incomplete
    <3>1. /\ Top.bb \in Blocks
          /\ incomplete' = [incomplete EXCEPT ![Top.bb] =
                              @ \cup {[phi |-> fresh, var |-> Top.var]}]
          /\ Top.var \in DOMAIN defs'[Top.bb]
      BY <1>1, <2>2, SSAIncomplete
    <3>2. DOMAIN incomplete = Blocks
      BY DEF IInv, BlocksOK
    <3> QED BY <1>2, <3>1, <3>2 DEF Covered
  <2> QED BY <2>1, <2>2
<1>4. ASSUME sealing # NoBlock
      PROVE  CallsIn(DOMAIN defs[sealing])'
  <2>1. sealing \in Blocks
    BY <1>4 DEF IInv, BlocksOK
  <2> DEFINE V == DOMAIN defs[sealing]
             W == DOMAIN defs'[sealing]
  <2>2. CallsIn(V) /\ V \subseteq W
    BY <1>2, <1>4, <2>1 DEF Covered
  <2> HIDE DEF V, W
  <2>3. calls' \in Seq(ToSet(calls')) /\ \A f \in ToSet(calls') : CallIn(f, V)
    BY <1>1, <2>2, SSACalls
  <2>4. \A f \in ToSet(calls') :
          f.op \in {"read", "write", "fill"} => f.bb \in Blocks' /\ f.var \in W
    BY <1>1, <2>2, <2>3 DEF CallIn
  <2> QED BY <1>1, <2>3, <2>4 DEF CallsIn, CallIn, W
<1> QED BY <1>1, <1>3, <1>4 DEF Covered

\* The emitters keep Covered.
LEMMA StatementCovered ==
  ASSUME IInv, CallsOK, Covered, Statement
  PROVE  Covered'
<1>1. Len(preds) \in Nat /\ Blocks = 1 .. Len(preds) /\ DOMAIN defs = Blocks
  BY DEF IInv, BlocksOK, Blocks
<1>2. \A b \in Blocks : DOMAIN defs[b] \subseteq DOMAIN defs'[b]
  <2>1. CASE UNCHANGED defs
    BY <2>1
  <2>2. CASE \E n \in {0, 2, 3} : \E to : Grow(n, to)
    <3>1. PICK n \in {0, 2, 3} : \E to : Grow(n, to)
      BY <2>2
    <3>2. \A b \in Blocks : b \in 1 .. Len(preds) + n
      BY <1>1
    <3> QED BY <3>1, <3>2 DEF Grow
  <2>3. CASE AssignLocal
    <3>1. UNCHANGED defs \/ \E val : WriteLocalVariable(curr, stmt.dst, val)
      BY <2>3 DEF AssignLocal
    <3> QED BY <1>1, <3>1, BindGrows
  <2>4. BeginIf \/ BeginWhileReusing \/ BeginWhile
          => \E n \in {0, 2, 3} : \E to : Grow(n, to)
    BY DEF BeginIf, BeginWhileReusing, BeginWhile
  <2>5. BranchIf \/ BranchWhile => \E n \in {0, 2, 3} : \E to : Grow(n, to)
    BY DEF BranchIf, BranchWhile
  <2>6. EndThen \/ EndIf \/ EndWhile => UNCHANGED defs \/ \E n \in {0, 2, 3} : \E to : Grow(n, to)
    BY DEF EndThen, EndIf, EndWhile, BranchUnlessTerminated
  <2>7. BeginSimple \/ ReadLocal \/ TakeOperand \/ LoadMemory \/ AssignGlobal
          \/ AssignVarParameter \/ EmitReturn \/ EndProcedure => UNCHANGED defs
    BY DEF BeginSimple, ReadLocal, TakeOperand, LoadMemory, AssignGlobal,
           AssignVarParameter, EmitReturn, EndProcedure, ssaVars
  <2> QED BY <2>1, <2>2, <2>3, <2>4, <2>5, <2>6, <2>7 DEF Statement
<1>3. \A b \in Blocks' : incomplete'[b] = IF b \in Blocks THEN incomplete[b] ELSE {}
  <2>1. CASE Contract!Grow
    BY <2>1 DEF Contract!Grow, Blocks
  <2>2. CASE UNCHANGED <<preds, incomplete, sealed>>
    BY <2>2 DEF Blocks
  <2> QED
    BY <2>1, <2>2, BeginRefines, BranchRefines, EndRefines, OtherStatementsStutter
       DEF Statement
<1>4. sealing' = NoBlock
  <2>1. \A where : At(where) => sealing = NoBlock
    BY DEF At
  <2>2. \A kinds : Offered(kinds) # {} => sealing = NoBlock
    BY <2>1 DEF Offered
  <2>3. BeginSimple \/ BeginIf \/ BeginWhileReusing \/ BeginWhile => sealing = NoBlock
    BY <2>2 DEF BeginSimple, BeginIf, BeginWhileReusing, BeginWhile
  <2>4. sealing = NoBlock
    BY <2>1, <2>3
       DEF Statement, ReadLocal, TakeOperand, LoadMemory, Wanted, Complete, AtEnd,
           AssignLocal, AssignGlobal, AssignVarParameter, BranchIf, BranchWhile, EmitReturn,
           EndThen, EndIf, EndWhile, EndProcedure
  <2>5. UNCHANGED sealing
    BY DEF Statement, BeginSimple, BeginIf, BeginWhileReusing, BeginWhile, ReadLocal,
           TakeOperand, LoadMemory, AssignLocal, AssignGlobal, AssignVarParameter, BranchIf,
           BranchWhile, EmitReturn, EndThen, EndIf, EndWhile, EndProcedure, ssaVars
  <2> QED BY <2>4, <2>5
<1> QED BY <1>2, <1>3, <1>4 DEF Covered

\* sealBlock and setCurr keep Covered.
LEMMA SealCovered ==
  ASSUME IInv, CallsOK, Covered, Sealing \/ UNCHANGED vars
  PROVE  Covered'
<1>1. CASE SetCurr \/ UNCHANGED vars
  BY <1>1 DEF SetCurr, vars, ssaVars, irVars, Covered, Blocks, CallsIn, CallIn
<1>2. CASE Seal
  <2>1. UNCHANGED <<preds, incomplete, defs, calls>> /\ calls = <<>>
    BY <1>2 DEF Seal, SealStart, Idle, irVars
  <2>2. CallsIn(DOMAIN defs[sealing])'
    BY <2>1 DEF CallsIn, ToSet
  <2> QED BY <2>1, <2>2 DEF Covered, Blocks
<1>3. CASE SealStep
  <2>1. /\ UNCHANGED <<preds, incomplete, defs, sealing>> /\ sealing # NoBlock
        /\ Blocks' = Blocks
    BY <1>3 DEF SealStep, SealPhi, irVars, Blocks
  <2>2. PICK e \in incomplete[sealing] : calls' = <<FillCall(sealing, e.var, e.phi)>>
    BY <1>3 DEF SealStep, SealPhi
  <2>3. sealing \in Blocks
    BY <2>1 DEF IInv, BlocksOK
  <2> DEFINE a == FillCall(sealing, e.var, e.phi)
             V == DOMAIN defs[sealing]
  <2>4. CallIn(a, V)
    BY <2>3 DEF Covered, CallIn, FillCall
  <2>5. calls' = <<a>> /\ V' = V
    BY <2>1, <2>2
  <2> HIDE DEF a, V
  <2>6. <<a>> \in Seq(ToSet(<<a>>)) /\ ToSet(<<a>>) = {a}
    BY FrameLists
  <2>7. CallsIn(V)'
    BY <2>1, <2>4, <2>5, <2>6 DEF CallsIn, CallIn
  <2> QED BY <2>1, <2>7 DEF Covered, V
<1>4. CASE SealEnd
  <2>1. /\ UNCHANGED <<preds, defs>> /\ sealing' = NoBlock
        /\ incomplete' = [incomplete EXCEPT ![sealing] = {}]
    BY <1>4 DEF SealEnd, SealFinish, irVars
  <2>2. DOMAIN incomplete = Blocks
    BY DEF IInv, BlocksOK
  <2> QED BY <2>1, <2>2 DEF Covered, Blocks
<1> QED BY <1>1, <1>2, <1>3, <1>4 DEF Sealing

\* Covered is inductive relative to IInv and CallsOK.
LEMMA NextCovered ==
  ASSUME IInv, CallsOK, Covered, [Next]_vars
  PROVE  Covered'
  BY StepCovered, StatementCovered, SealCovered DEF Next, Halt

\* No step adds an incomplete phi to the block being sealed.
LEMMA NextNoInsert ==
  ASSUME IInv, CallsOK, Covered, [Next]_vars, sealing # NoBlock, sealing' = sealing
  PROVE  incomplete'[sealing] = incomplete[sealing]
<1>1. CASE Step
  <2>1. CASE UNCHANGED incomplete
    BY <2>1
  <2>2. CASE ~ UNCHANGED incomplete
    <3>1. /\ calls # <<>> /\ Top.op = "read" /\ Top.var \notin DOMAIN defs[Top.bb]
          /\ incomplete' = [incomplete EXCEPT ![Top.bb] =
                              @ \cup {[phi |-> fresh, var |-> Top.var]}]
      BY <1>1, <2>2, SSAIncomplete DEF Step
    <3>2. CallsIn(DOMAIN defs[sealing])
      BY DEF Covered
    <3>3. Top.var \in DOMAIN defs[sealing]
      <4> DEFINE V == DOMAIN defs[sealing]
      <4>1. CallsIn(V)
        BY <3>2
      <4> HIDE DEF V
      <4>2. CallIn(Top, V)
        BY <3>1, <4>1, ReturnOK
      <4> QED BY <3>1, <4>2 DEF CallIn, V
    <3>4. Top.bb # sealing
      BY <3>1, <3>3
    <3> QED BY <3>1, <3>4
  <2> QED BY <2>1, <2>2
<1>2. CASE Statement
  <2>1. ~ Emitting
    BY DEF IInv, ControlShape
  <2>2. \A where : At(where) => sealing = NoBlock
    BY DEF At
  <2>3. \A kinds : Offered(kinds) = {}
    BY <2>2 DEF Offered
  <2> QED
    BY <1>2, <2>2, <2>3
       DEF Statement, BeginSimple, BeginIf, BeginWhileReusing, BeginWhile, ReadLocal,
           TakeOperand, LoadMemory, Wanted, Complete, AtEnd, AssignLocal, AssignGlobal,
           AssignVarParameter, BranchIf, BranchWhile, EmitReturn, EndThen, EndIf, EndWhile,
           EndProcedure
<1>3. CASE Sealing \/ UNCHANGED vars
  BY <1>3 DEF Sealing, Seal, SealStart, SealStep, SealPhi, SealEnd, SealFinish, SetCurr,
              vars, ssaVars
<1> QED BY <1>1, <1>2, <1>3 DEF Next, Halt

\* While sealBlock iterates over the incomplete phis of a block, no read it causes, in
\* this block or round a loop, inserts another: the iteration is over a fixed map.
THEOREM NoInsertHolds == Spec => NoInsertDuringSeal
<1>1. Init => Covered
  BY DEF Init, Covered, Blocks
<1>2. IInv /\ CallsOK /\ Covered /\ [Next]_vars => Covered'
  BY NextCovered
<1>3. IInv /\ CallsOK /\ Covered /\ [Next]_vars
        => [sealing # NoBlock /\ sealing' = sealing
              => incomplete'[sealing] = incomplete[sealing]]_vars
  BY NextNoInsert
<1> QED
  BY <1>1, <1>2, <1>3, CallsInvariance, PTL DEF Spec, NoInsertDuringSeal

=============================================================================
