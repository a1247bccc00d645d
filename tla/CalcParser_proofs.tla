-------------------------- MODULE CalcParser_proofs --------------------------
(***************************************************************************)
(* What the parser of calc makes of a text, for all patterns of tokens: a     *)
(* text that is accepted has a whole tree, grouped as its operators demand.   *)
(*                                                                         *)
(* A value that a frame holds, or that was returned to one, is fit for what    *)
(* the function that made it promises (Fit); which function that was follows   *)
(* from the frame itself (Callee).                                          *)
(***************************************************************************)
EXTENDS CalcRun, SequenceTheorems, TLAPS

Functions == {"parseCalc", "parseExpr", "parseTerm", "parseFactor"}
Places == {"start", "name", "names", "_error", "end", "operand", "joined", "operator",
           "close", "behind"}
Frames == [fn : Functions, at : Places, Left : Nat, Op : Operators \cup {"none"}]
Nodes == [op : Operators, left : Nat, right : Nat]
         \cup [op : {"ident", "number"}, val : Idents \cup Numbers]
AllTokens == STRING \cup {EndOfInput}

Typed ==
  /\ calls \in Seq(Frames) /\ nodes \in Seq(Nodes) /\ ret \in Nat /\ tree \in Nat
  /\ HasError \in BOOLEAN
  /\ tok \in AllTokens /\ text \in Seq(SUBSET AllTokens) /\ read \in Seq(AllTokens)

NoParen == \A k \in DOMAIN read : read[k] # "("

\* What the function fn returns, if nothing has been reported.
Fit(fn, E) ==
  /\ E \in DOMAIN nodes
  /\ NoParen => /\ fn = "parseTerm" => nodes[E].op \notin AddOperators
                /\ fn = "parseFactor" => nodes[E].op \notin Operators

\* A frame that waits for the result of a call, and of which function.
Awaits(f) == f.at \in {"joined", "close", "end"}
Callee(f) == IF f.at = "joined" THEN Operand(f.fn, f.Op) ELSE "parseExpr"

\* A frame by itself: its operator is one of its function, it has reported what it
\* should, and its Left is fit when it holds one.
Holds(f) == \/ f.fn \in {"parseExpr", "parseTerm"} /\ (f.Op # "none" \/ f.at = "operator")
            \/ f.fn = "parseFactor" /\ f.at = "behind"

FrameOK(f) ==
  /\ f.fn = "parseExpr" => f.Op \in AddOperators \cup {"none"}
  /\ f.fn = "parseTerm" => f.Op \in MulOperators \cup {"none"}
  /\ f.at = "_error" => HasError
  /\ f.at = "close" => ~NoParen
  /\ ~HasError /\ Holds(f) => Fit(f.fn, f.Left)

FramesOK == \A k \in DOMAIN calls : FrameOK(calls[k])

StackOK ==
  /\ calls # <<>> => calls[1].fn = "parseCalc"
  /\ \A k \in 1..Len(calls) - 1 : Awaits(calls[k]) /\ calls[k + 1].fn = Callee(calls[k])

RetOK == ~HasError /\ calls # <<>> /\ Awaits(Top) => Fit(Callee(Top), ret)

TreeOK == ~HasError /\ calls = <<>> => tree \in DOMAIN nodes

\* A node: its operands come before it, and it is grouped right.
Grouped(n) ==
  LET l == nodes[n.left].op
      r == nodes[n.right].op
  IN  /\ r \notin AddOperators
      /\ n.op \in MulOperators => l \notin AddOperators
      /\ n.op \in {"*", "/", "%"} => r \notin Operators

NodeOK(i) ==
  nodes[i].op \in Operators =>
    /\ nodes[i].left \in 1..i - 1 /\ nodes[i].right \in 1..i - 1
    /\ NoParen => Grouped(nodes[i])

NodesOK == ~HasError => \A i \in DOMAIN nodes : NodeOK(i)

IInv == Typed /\ FramesOK /\ StackOK /\ RetOK /\ TreeOK /\ NodesOK

(* Sequences. *)

LEMMA Appended ==
  ASSUME NEW S, NEW q \in Seq(S), NEW e \in S
  PROVE  /\ Append(q, e) \in Seq(S)
         /\ Len(q) \in Nat /\ DOMAIN q = 1..Len(q)
         /\ Len(Append(q, e)) = Len(q) + 1
         /\ DOMAIN Append(q, e) = 1..Len(q) + 1
         /\ Append(q, e)[Len(q) + 1] = e
         /\ \A i \in 1..Len(q) : Append(q, e)[i] = q[i]
  OBVIOUS

LEMMA Below ==
  ASSUME NEW n \in Nat \ {0}
  PROVE  /\ n \in 1..n /\ n # n + 1 /\ n + 1 \notin 1..n /\ 1 \in 1..n /\ (n - 1) + 1 = n
         /\ \A i \in 1..n - 1 : i \in 1..n /\ i # n /\ i + 1 \in 1..n
         /\ \A i \in 1..n : i # n => i \in 1..n - 1 /\ i + 1 \in 1..n
         /\ \A i \in 1..n + 1 : i # n /\ i # n + 1 => i \in 1..n - 1
         /\ n # 1 => 1 \in 1..n - 1 /\ n - 1 \in 1..n - 1
         /\ \A i \in 1..n - 2 : i \in 1..n - 1 /\ i + 1 \in 1..n - 1
  OBVIOUS

LEMMA FunctionSeq ==
  ASSUME NEW S, NEW n \in Nat, NEW r \in [1..n -> S]
  PROVE  r \in Seq(S)
  BY SeqDef

LEMMA Replaced ==
  ASSUME NEW S, NEW q \in Seq(S), q # <<>>, NEW e \in S,
         NEW r, r = [q EXCEPT ![Len(q)] = e]
  PROVE  /\ r \in Seq(S) /\ Len(r) = Len(q) /\ Len(q) \in Nat \ {0}
         /\ r[Len(q)] = e
         /\ \A i \in 1..Len(q) - 1 : r[i] = q[i]
<1>1. Len(q) \in Nat \ {0} /\ DOMAIN q = 1..Len(q)
  OBVIOUS
<1>2. \A i \in 1..Len(q) : q[i] \in S
  BY ElementOfSeq
<1>3. r \in [1..Len(q) -> S]
  BY <1>1, <1>2
<1>4. \A i \in 1..Len(q) : r[i] = IF i = Len(q) THEN e ELSE q[i]
  BY <1>1
<1>5. r \in Seq(S)
  BY <1>1, <1>3, FunctionSeq
<1>6. Len(r) = Len(q)
  <2>1. Len(r) \in Nat /\ 1..Len(r) = 1..Len(q)
    BY <1>3, <1>5, LenProperties
  <2>2. \A i \in Int : i \in 1..Len(r) <=> i \in 1..Len(q)
    BY <2>1
  <2> HIDE <1>3, <1>4
  <2> QED BY <1>1, <2>1, <2>2
<1>7. Len(q) \in 1..Len(q) /\ \A i \in 1..Len(q) - 1 : i \in 1..Len(q) /\ i # Len(q)
  BY <1>1, Below
<1> QED BY <1>1, <1>4, <1>5, <1>6, <1>7

LEMMA Shortened ==
  ASSUME NEW S, NEW q \in Seq(S), q # <<>>, NEW r, r = SubSeq(q, 1, Len(q) - 1)
  PROVE  /\ r \in Seq(S) /\ Len(r) = Len(q) - 1 /\ Len(q) \in Nat \ {0}
         /\ \A i \in 1..Len(q) - 1 : r[i] = q[i]
<1>1. Len(q) \in Nat \ {0} /\ DOMAIN q = 1..Len(q)
  OBVIOUS
<1>2. \A i \in 1..Len(q) : q[i] \in S
  BY ElementOfSeq
<1>3. r = [i \in 1..Len(q) - 1 |-> q[i]]
  BY <1>1, <1>2, SubSeqProperties
<1> QED BY <1>1, <1>2, <1>3

\* The frames of the stack.
LEMMA TopTyped ==
  ASSUME Typed, calls # <<>>
  PROVE  /\ Len(calls) \in Nat \ {0} /\ DOMAIN calls = 1..Len(calls)
         /\ Top \in Frames /\ \A k \in 1..Len(calls) : calls[k] \in Frames
<1>1. Len(calls) \in Nat \ {0} /\ DOMAIN calls = 1..Len(calls)
  BY DEF Typed
<1>2. \A k \in 1..Len(calls) : calls[k] \in Frames
  BY ElementOfSeq DEF Typed
<1> QED BY <1>1, <1>2 DEF Top

\* The stack with another innermost frame.
SetTop(f) == [calls EXCEPT ![Len(calls)] = f]
Push(f, g) == Append(SetTop(f), g)

LEMMA SetTopIs ==
  ASSUME Typed, calls # <<>>, NEW f \in Frames
  PROVE  /\ SetTop(f) \in Seq(Frames) /\ Len(SetTop(f)) = Len(calls)
         /\ SetTop(f)[Len(calls)] = f
         /\ \A i \in 1..Len(calls) - 1 : SetTop(f)[i] = calls[i]
<1>1. calls \in Seq(Frames)
  BY DEF Typed
<1> QED BY <1>1, Replaced DEF SetTop

(* What a step may do to the rest of the state: read on, report, make nodes. *)

Grows ==
  /\ HasError => HasError'
  /\ NoParen' => NoParen
  /\ DOMAIN nodes \subseteq DOMAIN nodes'
  /\ \A i \in DOMAIN nodes : nodes'[i] = nodes[i]

LEMMA Reading ==
  ASSUME Typed, stay \/ advance \/ skip
  PROVE  /\ tok' \in AllTokens /\ text' \in Seq(SUBSET AllTokens) /\ read' \in Seq(AllTokens)
         /\ NoParen' => NoParen
         /\ advance /\ tok = "(" => ~NoParen'
<1>1. CASE stay /\ ~advance
  BY <1>1 DEF stay, Typed, NoParen
<1>2. ASSUME next PROVE tok' \in AllTokens /\ text' \in Seq(SUBSET AllTokens)
  <2>1. CASE text # <<>>
    <3>1. text[1] \in SUBSET AllTokens
      BY <2>1, ElementOfSeq DEF Typed
    <3>2. Head(text) = text[1] /\ Tail(text) \in Seq(SUBSET AllTokens)
      BY <2>1 DEF Typed
    <3>3. <<>> \in Seq(SUBSET AllTokens) /\ EndOfInput \in AllTokens
      BY DEF AllTokens
    <3> QED BY <1>2, <3>1, <3>2, <3>3 DEF next
  <2>2. CASE text = <<>>
    BY <1>2, <2>2 DEF next, AllTokens
  <2> QED BY <2>1, <2>2
<1>3. CASE advance
  <2>1. tok \in AllTokens /\ read \in Seq(AllTokens) /\ read' = Append(read, tok) /\ next
    BY <1>3 DEF Typed, advance
  <2>2. /\ read' \in Seq(AllTokens) /\ DOMAIN read = 1..Len(read) /\ Len(read) \in Nat
        /\ DOMAIN read' = 1..Len(read) + 1 /\ read'[Len(read) + 1] = tok
        /\ \A i \in 1..Len(read) : read'[i] = read[i]
    BY <2>1, Appended
  <2>3. NoParen' => NoParen
    BY <2>2 DEF NoParen
  <2>4. tok = "(" => ~NoParen'
    BY <2>2 DEF NoParen
  <2> QED BY <1>2, <2>1, <2>2, <2>3, <2>4
<1>4. CASE skip /\ ~advance
  BY <1>2, <1>4 DEF skip, Typed, NoParen
<1> QED BY <1>1, <1>3, <1>4

LEMMA FitKept ==
  ASSUME Grows
  PROVE  /\ \A fn, E : Fit(fn, E) => Fit(fn, E)'
         /\ \A f : FrameOK(f) => FrameOK(f)'
<1>1. \A fn, E : Fit(fn, E) => Fit(fn, E)'
  BY DEF Grows, Fit
<1>2. \A f : FrameOK(f) => FrameOK(f)'
  BY <1>1 DEF FrameOK, Grows
<1> QED BY <1>1, <1>2

LEMMA NodesKept ==
  ASSUME Typed, NodesOK, Grows,
         ~HasError' => \A i \in DOMAIN nodes' \ DOMAIN nodes : NodeOK(i)'
  PROVE  NodesOK'
<1>1. SUFFICES ASSUME ~HasError', NEW i \in DOMAIN nodes PROVE NodeOK(i)'
  BY DEF NodesOK
<1>2. NodeOK(i) /\ DOMAIN nodes = 1..Len(nodes) /\ Len(nodes) \in Nat
  BY <1>1 DEF NodesOK, Grows, Typed
<1>3. nodes'[i] = nodes[i] /\ (NoParen' => NoParen)
  BY DEF Grows
<1>4. ASSUME nodes[i].op \in Operators
      PROVE /\ nodes'[nodes[i].left] = nodes[nodes[i].left]
            /\ nodes'[nodes[i].right] = nodes[nodes[i].right]
  BY <1>2, <1>4 DEF NodeOK, Grows
<1> QED BY <1>2, <1>3, <1>4 DEF NodeOK, Grouped

(* What a step may do to the stack. *)

LEMMA ChangesTop ==
  ASSUME IInv, Grows, calls # <<>>, NEW f \in Frames, f.fn = Top.fn,
         calls' = SetTop(f), FrameOK(f)'
  PROVE  /\ calls' \in Seq(Frames) /\ calls' # <<>> /\ Top' = f /\ FramesOK' /\ StackOK'
<1>1. /\ Len(calls) \in Nat \ {0} /\ DOMAIN calls = 1..Len(calls)
      /\ \A k \in 1..Len(calls) : calls[k] \in Frames
  BY TopTyped DEF IInv
<1>2. /\ calls' \in Seq(Frames) /\ Len(calls') = Len(calls) /\ calls'[Len(calls)] = f
      /\ \A i \in 1..Len(calls) - 1 : calls'[i] = calls[i]
  BY SetTopIs DEF IInv
<1>3. calls' # <<>> /\ Top' = f /\ DOMAIN calls' = 1..Len(calls)
  BY <1>1, <1>2 DEF Top
<1>4. FramesOK'
  <2>1. SUFFICES ASSUME NEW k \in 1..Len(calls) PROVE FrameOK(calls[k])'
    BY <1>3 DEF FramesOK
  <2>2. CASE k = Len(calls)
    BY <1>2, <2>2 DEF FrameOK, Fit
  <2>3. CASE k # Len(calls)
    <3>1. calls'[k] = calls[k] /\ FrameOK(calls[k])
      BY <1>1, <1>2, <2>3 DEF IInv, FramesOK
    <3>2. FrameOK(calls[k])'
      BY <3>1, FitKept DEF FrameOK, Fit, NoParen
    <3> QED BY <3>2
  <2> QED BY <2>2, <2>3
<1>5. StackOK'
  <2>1. \A k \in 1..Len(calls) - 1 : k + 1 \in 1..Len(calls) /\ k \in 1..Len(calls)
    BY <1>1
  <2>2. \A k \in 1..Len(calls) : calls'[k].fn = calls[k].fn
    BY <1>1, <1>2 DEF Top
  <2>3. \A k \in 1..Len(calls) - 1 : Awaits(calls[k]) /\ calls[k + 1].fn = Callee(calls[k])
    BY DEF IInv, StackOK
  <2> QED BY <1>1, <1>2, <2>1, <2>2, <2>3 DEF IInv, StackOK
<1> QED BY <1>2, <1>3, <1>4, <1>5

LEMMA Pushes ==
  ASSUME IInv, Grows, calls # <<>>, NEW f \in Frames, f.fn = Top.fn, Awaits(f),
         NEW g \in Frames, g.fn = Callee(f),
         calls' = Push(f, g), FrameOK(f)', FrameOK(g)'
  PROVE  /\ calls' \in Seq(Frames) /\ calls' # <<>> /\ Top' = g /\ FramesOK' /\ StackOK'
<1>1. /\ Len(calls) \in Nat \ {0} /\ DOMAIN calls = 1..Len(calls)
      /\ \A k \in 1..Len(calls) : calls[k] \in Frames
  BY TopTyped DEF IInv
<1>2. /\ calls' \in Seq(Frames) /\ Len(calls') = Len(calls) + 1
      /\ DOMAIN calls' = 1..Len(calls) + 1
      /\ calls'[Len(calls) + 1] = g /\ calls'[Len(calls)] = f
      /\ \A i \in 1..Len(calls) - 1 : calls'[i] = calls[i]
  <2>1. /\ SetTop(f) \in Seq(Frames) /\ Len(SetTop(f)) = Len(calls)
        /\ SetTop(f)[Len(calls)] = f
        /\ \A i \in 1..Len(calls) - 1 : SetTop(f)[i] = calls[i]
    BY SetTopIs DEF IInv
  <2>2. /\ calls' \in Seq(Frames) /\ Len(calls') = Len(calls) + 1
        /\ DOMAIN calls' = 1..Len(calls) + 1 /\ calls'[Len(calls) + 1] = g
        /\ \A i \in 1..Len(calls) : calls'[i] = SetTop(f)[i]
    BY <2>1, Appended DEF Push
  <2> QED BY <1>1, <2>1, <2>2, Below
<1>3. calls' # <<>> /\ Top' = g
  BY <1>1, <1>2 DEF Top
<1>4. FramesOK'
  <2>1. SUFFICES ASSUME NEW k \in 1..Len(calls) + 1 PROVE FrameOK(calls[k])'
    BY <1>2 DEF FramesOK
  <2>2. CASE k = Len(calls) + 1
    BY <1>2, <2>2 DEF FrameOK, Fit
  <2>3. CASE k = Len(calls)
    BY <1>2, <2>3 DEF FrameOK, Fit
  <2>4. CASE k # Len(calls) /\ k # Len(calls) + 1
    <3>1. calls'[k] = calls[k] /\ FrameOK(calls[k])
      BY <1>1, <1>2, <2>4, Below DEF IInv, FramesOK
    <3>2. FrameOK(calls[k])'
      BY <3>1, FitKept DEF FrameOK, Fit, NoParen
    <3> QED BY <3>2
  <2> QED BY <2>2, <2>3, <2>4
<1>5. StackOK'
  <2>1. calls'[1].fn = "parseCalc"
    BY <1>1, <1>2, Below DEF IInv, StackOK, Top
  <2>2. SUFFICES ASSUME NEW k \in 1..Len(calls)
                 PROVE Awaits(calls'[k]) /\ calls'[k + 1].fn = Callee(calls'[k])
    <3>1. Len(calls') - 1 = Len(calls)
      BY <1>1, <1>2
    <3> QED BY <2>1, <3>1 DEF StackOK
  <2>3. CASE k = Len(calls)
    BY <1>2, <2>3
  <2>4. CASE k # Len(calls)
    <3>1. k \in 1..Len(calls) - 1 /\ k + 1 \in 1..Len(calls)
      BY <1>1, <2>4, Below
    <3>2. Awaits(calls[k]) /\ calls[k + 1].fn = Callee(calls[k])
      BY <3>1 DEF IInv, StackOK
    <3>3. calls'[k + 1].fn = calls[k + 1].fn
      BY <1>1, <1>2, <3>1, Below DEF Top
    <3> QED BY <1>2, <3>1, <3>2, <3>3
  <2> QED BY <2>3, <2>4
<1> QED BY <1>2, <1>3, <1>4, <1>5

LEMMA Pops ==
  ASSUME IInv, calls # <<>>, Top.fn # "parseCalc", Return(Top.Left), Grows,
         ~HasError' => Fit(Top.fn, Top.Left)
  PROVE  /\ calls' \in Seq(Frames) /\ calls' # <<>> /\ ret' \in Nat
         /\ FramesOK' /\ StackOK' /\ RetOK'
<1>1. /\ Len(calls) \in Nat \ {0} /\ DOMAIN calls = 1..Len(calls) /\ Top \in Frames
      /\ \A k \in 1..Len(calls) : calls[k] \in Frames
  BY TopTyped DEF IInv
<1>2. /\ calls' \in Seq(Frames) /\ Len(calls') = Len(calls) - 1
      /\ \A i \in 1..Len(calls) - 1 : calls'[i] = calls[i]
  <2>1. calls \in Seq(Frames) /\ calls' = SubSeq(calls, 1, Len(calls) - 1)
    BY DEF IInv, Typed, Return
  <2> QED BY ZenonT(60), <2>1, Shortened
<1>3. Len(calls) # 1
  BY DEF IInv, StackOK, Top
<1>4. /\ calls' # <<>> /\ DOMAIN calls' = 1..Len(calls) - 1
      /\ Len(calls) - 1 \in 1..Len(calls) - 1
  BY <1>1, <1>2, <1>3
<1>5. ret' = Top.Left /\ Top.Left \in Nat
  BY <1>1 DEF Return, Frames
<1>6. FramesOK'
  <2>1. SUFFICES ASSUME NEW k \in 1..Len(calls) - 1 PROVE FrameOK(calls[k])'
    BY <1>4 DEF FramesOK
  <2>2. calls'[k] = calls[k] /\ FrameOK(calls[k])
    BY <1>1, <1>2 DEF IInv, FramesOK
  <2>3. FrameOK(calls[k])'
    BY <2>2, FitKept DEF FrameOK, Fit, NoParen
  <2> QED BY <2>3
<1>7. StackOK'
  <2>1. \A k \in 1..Len(calls) - 2 : k \in 1..Len(calls) - 1 /\ k + 1 \in 1..Len(calls) - 1
    BY <1>1
  <2>2. calls'[1] = calls[1]
    BY <1>1, <1>2, <1>3
  <2> QED BY <1>1, <1>2, <2>1, <2>2 DEF IInv, StackOK
<1>8. RetOK'
  <2>1. Top' = calls[Len(calls) - 1]
    BY <1>2, <1>4 DEF Top
  <2>2. Len(calls) - 1 + 1 = Len(calls)
    BY <1>1
  <2>3. Callee(Top') = Top.fn
    BY <1>4, <2>1, <2>2 DEF IInv, StackOK, Top
  <2>4. PICK fn, E : fn = Top.fn /\ E = Top.Left
    OBVIOUS
  <2>5. ~HasError' => Fit(fn, E)'
    BY <2>4, FitKept
  <2> QED BY <1>5, <2>3, <2>4, <2>5 DEF RetOK, Fit
<1> QED BY <1>2, <1>4, <1>5, <1>6, <1>7, <1>8

(* The three kinds of steps. *)

LEMMA GoesOn ==
  ASSUME IInv, Grows, stay \/ advance \/ skip, calls # <<>>,
         NEW f \in Frames, f.fn = Top.fn, ~Awaits(f), calls' = SetTop(f), FrameOK(f)',
         ret' = ret, tree' = tree, HasError' \in BOOLEAN, nodes' \in Seq(Nodes),
         ~HasError' => \A i \in DOMAIN nodes' \ DOMAIN nodes : NodeOK(i)'
  PROVE  IInv'
<1>1. /\ calls' \in Seq(Frames) /\ calls' # <<>> /\ Top' = f /\ FramesOK' /\ StackOK'
  BY ChangesTop
<1>2. Typed'
  BY <1>1, Reading DEF IInv, Typed
<1>3. NodesOK'
  BY NodesKept DEF IInv
<1>4. RetOK' /\ TreeOK'
  BY <1>1 DEF RetOK, TreeOK
<1> QED BY <1>1, <1>2, <1>3, <1>4 DEF IInv

LEMMA GoesDown ==
  ASSUME IInv, stay \/ advance, calls # <<>>,
         NEW f \in Frames, f.fn = Top.fn, Awaits(f), NEW g \in Frames, g.fn = Callee(f),
         ~Awaits(g), calls' = Push(f, g), FrameOK(f)', FrameOK(g)',
         UNCHANGED <<ret, nodes, tree, HasError>>
  PROVE  IInv'
<1>0. Grows
  BY Reading DEF Grows, IInv
<1>1. /\ calls' \in Seq(Frames) /\ calls' # <<>> /\ Top' = g /\ FramesOK' /\ StackOK'
  BY <1>0, Pushes
<1>2. Typed'
  BY <1>1, Reading DEF IInv, Typed
<1>3. NodesOK'
  BY <1>0, NodesKept DEF IInv
<1>4. RetOK' /\ TreeOK'
  BY <1>1 DEF RetOK, TreeOK
<1> QED BY <1>1, <1>2, <1>3, <1>4 DEF IInv

LEMMA ComesBack ==
  ASSUME IInv, stay, calls # <<>>, Top.fn # "parseCalc", Return(Top.Left), Holds(Top),
         UNCHANGED <<nodes, tree, HasError>>
  PROVE  IInv'
<1>0. Grows
  BY Reading DEF Grows, IInv
<1>1. FrameOK(Top)
  BY TopTyped DEF IInv, FramesOK, Top
<1>2. ~HasError' => Fit(Top.fn, Top.Left)
  BY <1>1 DEF FrameOK
<1>3. /\ calls' \in Seq(Frames) /\ calls' # <<>> /\ ret' \in Nat
      /\ FramesOK' /\ StackOK' /\ RetOK'
  BY <1>0, <1>2, Pops
<1>4. Typed'
  BY <1>3, Reading DEF IInv, Typed
<1>5. NodesOK' /\ TreeOK'
  BY <1>0, <1>3, NodesKept DEF IInv, TreeOK
<1> QED BY <1>3, <1>4, <1>5 DEF IInv

(* The frames an action leaves. *)

\* The innermost frame, at another place.
LEMMA Moved ==
  ASSUME Typed, calls # <<>>, NEW at \in Places
  PROVE  /\ [Top EXCEPT !.at = at] \in Frames
         /\ [Top EXCEPT !.at = at].fn = Top.fn /\ [Top EXCEPT !.at = at].at = at
         /\ [Top EXCEPT !.at = at].Left = Top.Left /\ [Top EXCEPT !.at = at].Op = Top.Op
         /\ GoTo(at) => calls' = SetTop([Top EXCEPT !.at = at])
         /\ \A fn, first : Call(fn, first, at) =>
                            calls' = Push([Top EXCEPT !.at = at], Frame(fn, first))
<1>1. Top \in Frames
  BY TopTyped
<1>2. [calls EXCEPT ![Len(calls)].at = at] = SetTop([Top EXCEPT !.at = at])
  BY DEF SetTop, Top
<1> QED BY <1>1, <1>2 DEF Frames, GoTo, Call, Push

\* The innermost frame, at another place and with a value.
Filled(at, left) == [Top EXCEPT !.at = at, !.Left = left]

LEMMA Placed ==
  ASSUME Typed, calls # <<>>, NEW at \in Places, NEW left \in Nat
  PROVE  /\ Filled(at, left) \in Frames /\ Filled(at, left).fn = Top.fn
         /\ Filled(at, left).at = at /\ Filled(at, left).Left = left
         /\ Filled(at, left).Op = Top.Op
  BY TopTyped DEF Frames, Filled

LEMMA Called ==
  ASSUME Typed, calls # <<>>, NEW at \in Places, NEW fn, NEW first, Call(fn, first, at)
  PROVE  \E f, g : /\ f \in Frames /\ f.fn = Top.fn /\ f.at = at /\ f.Left = Top.Left /\ f.Op = Top.Op
                   /\ g = Frame(fn, first) /\ calls' = Push(f, g)
<1>1. PICK f : f = [Top EXCEPT !.at = at]
  OBVIOUS
<1>2. f \in Frames /\ f.fn = Top.fn /\ f.at = at /\ f.Left = Top.Left /\ f.Op = Top.Op
  BY <1>1, Moved
<1>3. calls' = Push(f, Frame(fn, first))
  BY <1>1, Moved
<1> QED BY <1>2, <1>3

LEMMA Started ==
  /\ \A fn \in {"parseExpr", "parseTerm"} :
       Frame(fn, "operand") \in Frames /\ ~Awaits(Frame(fn, "operand"))
       /\ Frame(fn, "operand").fn = fn /\ \A g : g = Frame(fn, "operand") => FrameOK(g)'
  /\ Frame("parseFactor", "start") \in Frames /\ ~Awaits(Frame("parseFactor", "start"))
  /\ Frame("parseFactor", "start").fn = "parseFactor"
  /\ \A g : g = Frame("parseFactor", "start") => FrameOK(g)'
<1>1. ASSUME NEW g, g.Op = "none", g.at \in {"operand", "start"}
      PROVE  FrameOK(g)'
  BY <1>1 DEF FrameOK, Holds
<1>2. \A fn, at : /\ Frame(fn, at).fn = fn /\ Frame(fn, at).at = at
                  /\ Frame(fn, at).Op = "none" /\ Frame(fn, at).Left = 0
  BY DEF Frame, Null
<1>3. \A fn \in Functions, at \in Places : Frame(fn, at) \in Frames
  BY DEF Frame, Frames, Null
<1>4. ASSUME NEW fn \in {"parseExpr", "parseTerm"}
      PROVE  /\ Frame(fn, "operand") \in Frames /\ ~Awaits(Frame(fn, "operand"))
             /\ Frame(fn, "operand").fn = fn /\ \A g : g = Frame(fn, "operand") => FrameOK(g)'
  <2>1. fn \in Functions /\ "operand" \in Places
    BY DEF Functions, Places
  <2>2. Frame(fn, "operand") \in Frames
    BY <1>3, <2>1
  <2>3. ASSUME NEW g, g = Frame(fn, "operand") PROVE FrameOK(g)'
    <3>1. g.Op = "none" /\ g.fn \in {"parseExpr", "parseTerm"} /\ g.at = "operand"
      BY <1>2, <2>3
    <3> QED BY <1>1, <3>1
  <2> QED BY <1>2, <2>2, <2>3 DEF Awaits
<1>5. Frame("parseFactor", "start") \in Frames /\ ~Awaits(Frame("parseFactor", "start"))
  BY <1>2, <1>3 DEF Functions, Places, Awaits
<1>6. ASSUME NEW g, g = Frame("parseFactor", "start") PROVE FrameOK(g)'
  BY <1>1, <1>2, <1>6
<1> QED BY <1>2, <1>4, <1>5, <1>6

LEMMA CalcFrame ==
  \A f : f.fn = "parseCalc" /\ f.at # "close" /\ (f.at = "_error" => HasError') => FrameOK(f)'
  BY DEF FrameOK, Holds

(* parseCalc. *)

LEMMA WithClauseKeeps == ASSUME IInv, WithClause PROVE IInv'
<1>1. calls # <<>> /\ Top.fn = "parseCalc" /\ Typed
  BY DEF WithClause, At, IInv
<1>2. CASE tok = "with" /\ advance /\ GoTo("name")
  <2>1. PICK f \in Frames : f.fn = Top.fn /\ f.at = "name" /\ calls' = SetTop(f)
    BY <1>1, <1>2, Moved DEF Places
  <2>2. FrameOK(f)' /\ ~Awaits(f)
    BY <1>1, <2>1, CalcFrame DEF Awaits
  <2>3. Grows
    BY <1>1, <1>2, Reading DEF WithClause, Grows
  <2> QED BY <1>1, <1>2, <2>1, <2>2, <2>3, GoesOn DEF WithClause, Typed
<1>3. CASE stay /\ Call("parseExpr", "operand", "end")
  <2>0. "end" \in Places
    BY DEF Places
  <2>1. PICK f, g : /\ f \in Frames /\ f.fn = Top.fn /\ f.at = "end"
                    /\ g = Frame("parseExpr", "operand") /\ calls' = Push(f, g)
    BY <1>1, <1>3, <2>0, Called
  <2>2. FrameOK(f)' /\ Awaits(f) /\ Callee(f) = "parseExpr"
    BY <1>1, <2>1, CalcFrame DEF Awaits, Callee
  <2>3. FrameOK(g)' /\ ~Awaits(g) /\ g \in Frames /\ g.fn = "parseExpr"
    BY <2>1, Started
  <2> QED BY <1>1, <1>3, <2>1, <2>2, <2>3, GoesDown DEF WithClause
<1> QED BY <1>2, <1>3 DEF WithClause

LEMMA WithNameKeeps == ASSUME IInv, WithName PROVE IInv'
<1>1. calls # <<>> /\ Top.fn = "parseCalc" /\ Typed /\ advance
  BY DEF WithName, At, IInv
<1>2. PICK f \in Frames : f.fn = Top.fn /\ f.at = "names" /\ calls' = SetTop(f)
  BY <1>1, Moved DEF Places, WithName
<1>3. FrameOK(f)' /\ ~Awaits(f)
  BY <1>1, <1>2, CalcFrame DEF Awaits
<1>4. Grows
  BY <1>1, Reading DEF WithName, Grows
<1> QED BY <1>1, <1>2, <1>3, <1>4, GoesOn DEF WithName, Typed

LEMMA WithNamesKeeps == ASSUME IInv, WithNames PROVE IInv'
<1>1. calls # <<>> /\ Top.fn = "parseCalc" /\ Typed /\ advance
  BY DEF WithNames, At, IInv
<1>2. CASE GoTo("name")
  <2>1. PICK f \in Frames : f.fn = Top.fn /\ f.at = "name" /\ calls' = SetTop(f)
    BY <1>1, <1>2, Moved DEF Places
  <2>2. FrameOK(f)' /\ ~Awaits(f)
    BY <1>1, <2>1, CalcFrame DEF Awaits
  <2>3. Grows
    BY <1>1, Reading DEF WithNames, Grows
  <2> QED BY <1>1, <2>1, <2>2, <2>3, GoesOn DEF WithNames, Typed
<1>3. CASE Call("parseExpr", "operand", "end")
  <2>0. "end" \in Places
    BY DEF Places
  <2>1. PICK f, g : /\ f \in Frames /\ f.fn = Top.fn /\ f.at = "end"
                    /\ g = Frame("parseExpr", "operand") /\ calls' = Push(f, g)
    BY <1>1, <1>3, <2>0, Called
  <2>2. FrameOK(f)' /\ Awaits(f) /\ Callee(f) = "parseExpr"
    BY <1>1, <2>1, CalcFrame DEF Awaits, Callee
  <2>3. FrameOK(g)' /\ ~Awaits(g) /\ g \in Frames /\ g.fn = "parseExpr"
    BY <2>1, Started
  <2> QED BY <1>1, <2>1, <2>2, <2>3, GoesDown DEF WithNames
<1> QED BY <1>2, <1>3 DEF WithNames

LEMMA WithErrorKeeps == ASSUME IInv, WithError PROVE IInv'
<1>1. calls # <<>> /\ Top.fn = "parseCalc" /\ Typed /\ stay /\ HasError' = TRUE
  BY DEF WithError, At, IInv, error
<1>2. PICK f \in Frames : f.fn = Top.fn /\ f.at = "_error" /\ calls' = SetTop(f)
  BY <1>1, Moved DEF Places, WithError
<1>3. FrameOK(f)' /\ ~Awaits(f)
  BY <1>1, <1>2, CalcFrame DEF Awaits
<1>4. Grows
  BY <1>1, Reading DEF WithError, Grows
<1> QED BY <1>1, <1>2, <1>3, <1>4, GoesOn DEF WithError, Typed

LEMMA DrainKeeps == ASSUME IInv, Drain PROVE IInv'
<1>1. Typed'
  BY Reading DEF Drain, IInv, Typed
<1>2. Grows
  BY Reading DEF Drain, IInv, Grows
<1>3. FramesOK' /\ NodesOK'
  <2>1. NodesOK'
    BY <1>2, NodesKept DEF Drain, IInv
  <2>2. SUFFICES ASSUME NEW k \in DOMAIN calls PROVE FrameOK(calls[k])'
    BY <2>1 DEF FramesOK, Drain
  <2> QED BY <1>2, FitKept DEF Drain, IInv, FramesOK, FrameOK, Fit, NoParen
<1>4. StackOK' /\ RetOK' /\ TreeOK'
  BY DEF Drain, IInv, StackOK, RetOK, TreeOK, At, Top, Awaits
<1> QED BY <1>1, <1>3, <1>4 DEF IInv

\* parseCalc returns what parseExpr has returned to it, or has reported an error.
LEMMA FinishKeeps == ASSUME IInv, Finish PROVE IInv'
<1>1. calls # <<>> /\ Top.fn = "parseCalc" /\ stay /\ Typed /\ calls' = <<>>
  BY DEF Finish, At, IInv
<1>2. FrameOK(Top)
  BY <1>1, TopTyped DEF IInv, FramesOK, Top
<1>3. Typed'
  BY <1>1, Reading DEF Finish, Typed, Null
<1>4. Grows
  BY <1>1, Reading DEF Finish, Typed, Grows
<1>5. NodesOK'
  BY <1>4, NodesKept DEF Finish, IInv
<1>6. TreeOK'
  <2>1. CASE Top.at = "end" /\ tree' = ret
    BY <2>1, <1>1 DEF Finish, TreeOK, IInv, RetOK, Awaits, Callee, Fit, Typed
  <2>2. CASE Top.at = "_error"
    BY <2>2, <1>1, <1>2 DEF Finish, TreeOK, FrameOK
  <2> QED BY <2>1, <2>2 DEF Finish, At
<1>7. FramesOK' /\ StackOK' /\ RetOK'
  BY <1>1 DEF FramesOK, StackOK, RetOK
<1> QED BY <1>3, <1>5, <1>6, <1>7 DEF IInv

(* parseExpr and parseTerm. *)

LEMMA ParseOperandKeeps == ASSUME IInv, ParseOperand PROVE IInv'
<1>1. calls # <<>> /\ Top.fn \in {"parseExpr", "parseTerm"} /\ Top.at = "operand" /\ Typed /\ stay
  BY DEF ParseOperand, Joining, IInv
<1>2. PICK callee : callee = Operand(Top.fn, Top.Op)
  OBVIOUS
<1>3. PICK first : first = IF callee = "parseTerm" THEN "operand" ELSE "start"
  OBVIOUS
<1>4. Call(callee, first, "joined") /\ "joined" \in Places
  BY <1>2, <1>3 DEF ParseOperand, Places
<1>5. PICK f, g : /\ f \in Frames /\ f.fn = Top.fn /\ f.at = "joined" /\ f.Left = Top.Left /\ f.Op = Top.Op
                  /\ g = Frame(callee, first) /\ calls' = Push(f, g)
  BY <1>1, <1>4, Called
<1>6. callee \in {"parseTerm", "parseFactor"}
  BY <1>2 DEF Operand
<1>7. FrameOK(g)' /\ ~Awaits(g) /\ g \in Frames /\ g.fn = callee
  <2>1. CASE callee = "parseTerm"
    BY <1>3, <1>5, <2>1, Started
  <2>2. CASE callee = "parseFactor"
    BY <1>3, <1>5, <2>2, Started
  <2> QED BY <1>6, <2>1, <2>2
<1>8. Awaits(f) /\ Callee(f) = callee
  BY <1>2, <1>5 DEF Awaits, Callee
<1>9. FrameOK(f)'
  <2>1. FrameOK(Top) /\ Grows
    BY <1>1, TopTyped, Reading DEF IInv, FramesOK, Top, ParseOperand, Grows
  <2>2. FrameOK(f)
    BY <1>1, <1>5, <2>1 DEF FrameOK, Holds
  <2> QED BY <2>1, <2>2, FitKept
<1> QED BY <1>1, <1>5, <1>7, <1>8, <1>9, GoesDown DEF ParseOperand

LEMMA TakeOperatorKeeps == ASSUME IInv, TakeOperator PROVE IInv'
<1>1. /\ calls # <<>> /\ Top.fn \in {"parseExpr", "parseTerm"} /\ Top.at = "operator"
      /\ Typed /\ advance /\ tok \in OperatorsOf(Top.fn)
  BY DEF TakeOperator, Joining, IInv
<1>2. tok \in Operators
  BY <1>1 DEF OperatorsOf, Operators
<1>3. PICK f : f = [Top EXCEPT !.at = "operand", !.Op = tok]
  OBVIOUS
<1>4. f \in Frames /\ f.fn = Top.fn /\ f.at = "operand" /\ f.Left = Top.Left /\ f.Op = tok
  BY <1>1, <1>2, <1>3, TopTyped DEF Frames, Places
<1>5. calls' = SetTop(f)
  BY <1>3 DEF TakeOperator, SetTop, Top
<1>6. FrameOK(f)' /\ ~Awaits(f) /\ Grows
  <2>1. FrameOK(Top) /\ Grows
    BY <1>1, TopTyped, Reading DEF IInv, FramesOK, Top, TakeOperator, Grows
  <2>2. FrameOK(f)
    BY <1>1, <1>4, <2>1 DEF FrameOK, Holds, OperatorsOf
  <2> QED BY <1>4, <2>1, <2>2, FitKept DEF Awaits
<1> QED BY <1>1, <1>4, <1>5, <1>6, GoesOn DEF TakeOperator, Typed

LEMMA ReturnLeftKeeps == ASSUME IInv, ReturnLeft PROVE IInv'
<1>1. /\ calls # <<>> /\ Top.fn \in {"parseExpr", "parseTerm"} /\ Top.at = "operator"
      /\ Return(Top.Left) /\ stay /\ UNCHANGED <<nodes, tree, HasError>>
  BY DEF ReturnLeft, Joining
<1>2. Holds(Top) /\ Top.fn # "parseCalc"
  BY <1>1 DEF Holds
<1> QED BY <1>1, <1>2, ComesBack

(* A node is made. *)

LEMMA Made ==
  ASSUME Typed, NEW n \in Nodes, nodes' = Append(nodes, n), HasError' = HasError, NoParen' => NoParen
  PROVE  /\ nodes' \in Seq(Nodes) /\ Grows /\ Len(nodes') = Len(nodes) + 1 /\ Len(nodes) \in Nat
         /\ DOMAIN nodes = 1..Len(nodes) /\ DOMAIN nodes' = 1..Len(nodes) + 1
         /\ nodes'[Len(nodes) + 1] = n
         /\ \A i \in DOMAIN nodes' \ DOMAIN nodes : i = Len(nodes) + 1
<1>1. nodes \in Seq(Nodes)
  BY DEF Typed
<1>2. /\ nodes' \in Seq(Nodes) /\ Len(nodes) \in Nat /\ DOMAIN nodes = 1..Len(nodes)
      /\ Len(nodes') = Len(nodes) + 1 /\ DOMAIN nodes' = 1..Len(nodes) + 1
      /\ nodes'[Len(nodes) + 1] = n /\ \A i \in 1..Len(nodes) : nodes'[i] = nodes[i]
  BY <1>1, Appended
<1>3. /\ \A i \in 1..Len(nodes) : i \in 1..Len(nodes) + 1
      /\ \A i \in (1..Len(nodes) + 1) \ (1..Len(nodes)) : i = Len(nodes) + 1
  BY <1>2
<1> QED BY <1>2, <1>3 DEF Grows

\* An operator over two values that fit it.
LEMMA JoinsRight ==
  ASSUME IInv, Join, Top.Op # "none"
  PROVE  IInv'
<1>1. /\ calls # <<>> /\ Top.fn \in {"parseExpr", "parseTerm"} /\ Top.at = "joined"
      /\ Typed /\ stay /\ HasError' = HasError /\ Top \in Frames /\ FrameOK(Top)
  BY TopTyped DEF Join, Joining, IInv, FramesOK, Top
<1>2. PICK n : n = Binary(Top.Op, Top.Left, ret)
  OBVIOUS
<1>3. n.op = Top.Op /\ n.left = Top.Left /\ n.right = ret /\ n \in Nodes /\ n.op \in Operators
  BY <1>1, <1>2 DEF Binary, Nodes, Frames, Typed
<1>4. nodes' = Append(nodes, n)
  BY <1>2 DEF Join
<1>5. /\ nodes' \in Seq(Nodes) /\ Grows /\ Len(nodes') = Len(nodes) + 1 /\ Len(nodes) \in Nat
      /\ DOMAIN nodes = 1..Len(nodes) /\ DOMAIN nodes' = 1..Len(nodes) + 1
      /\ nodes'[Len(nodes) + 1] = n
      /\ \A i \in DOMAIN nodes' \ DOMAIN nodes : i = Len(nodes) + 1
  BY <1>1, <1>3, <1>4, Made, Reading
<1>6. PICK f : f = Filled("operator", Len(nodes) + 1)
  OBVIOUS
<1>7. /\ f \in Frames /\ f.fn = Top.fn /\ f.at = "operator" /\ f.Left = Len(nodes) + 1
      /\ f.Op = Top.Op
  <2>1. Len(nodes) + 1 \in Nat /\ "operator" \in Places
    BY <1>5 DEF Places
  <2> QED BY <1>1, <1>6, <2>1, Placed
<1>8. calls' = SetTop(f)
  BY <1>1, <1>5, <1>6 DEF Join, SetTop, Top, Filled
<1>9. FrameOK(f)'
  <2>1. Top.fn = "parseTerm" => Top.Op \notin AddOperators
    BY <1>1 DEF FrameOK, MulOperators, AddOperators
  <2>2. Len(nodes) + 1 \in DOMAIN nodes'
    BY <1>5
  <2> QED BY <1>1, <1>3, <1>5, <1>7, <2>1, <2>2 DEF FrameOK, Fit
<1>10. ASSUME ~HasError', NEW i \in DOMAIN nodes' \ DOMAIN nodes PROVE NodeOK(i)'
  <2>1. i = Len(nodes) + 1 /\ nodes'[i] = n
    BY <1>5
  <2>2. Fit(Top.fn, Top.Left) /\ Fit(Operand(Top.fn, Top.Op), ret)
    BY <1>1, <1>10 DEF FrameOK, Holds, IInv, RetOK, Awaits, Callee
  <2>3. /\ Top.Left \in DOMAIN nodes /\ ret \in DOMAIN nodes
        /\ nodes'[Top.Left] = nodes[Top.Left] /\ nodes'[ret] = nodes[ret]
    BY <1>5, <2>2 DEF Fit, Grows
  <2>4. Top.Left \in 1..i - 1 /\ ret \in 1..i - 1
    BY <1>5, <2>1, <2>3
  <2>5. CASE Top.fn = "parseExpr"
    <3>1. Top.Op \notin MulOperators
      BY <1>1, <2>5 DEF FrameOK, MulOperators, AddOperators
    <3>2. NoParen => nodes[ret].op \notin AddOperators
      BY <2>2, <2>5 DEF Fit, Operand
    <3> QED BY <1>3, <1>5, <2>1, <2>3, <2>4, <3>1, <3>2
         DEF NodeOK, Grouped, Grows, MulOperators
  <2>6. CASE Top.fn = "parseTerm"
    <3>1. NoParen => nodes[Top.Left].op \notin AddOperators
      BY <2>2, <2>6 DEF Fit
    <3>2. NoParen /\ Top.Op # "^" => nodes[ret].op \notin Operators
      BY <2>2, <2>6 DEF Fit, Operand
    <3>3. NoParen => nodes[ret].op \notin AddOperators
      BY <2>2, <2>6 DEF Fit, Operand, Operators
    <3> QED BY <1>3, <1>5, <2>1, <2>3, <2>4, <3>1, <3>2, <3>3 DEF NodeOK, Grouped, Grows
  <2> QED BY <1>1, <2>5, <2>6
<1>11. ~Awaits(f)
  BY <1>7 DEF Awaits
<1> QED BY <1>1, <1>5, <1>7, <1>8, <1>9, <1>10, <1>11, GoesOn DEF Join, Typed

LEMMA JoinKeeps == ASSUME IInv, Join PROVE IInv'
<1>1. CASE Top.Op = "none"
  <2>1. /\ calls # <<>> /\ Top.fn \in {"parseExpr", "parseTerm"} /\ Top.at = "joined"
        /\ Typed /\ stay /\ HasError' = HasError /\ nodes' = nodes /\ Top \in Frames
    BY <1>1, TopTyped DEF Join, Joining, IInv
  <2>2. PICK f : f = [Top EXCEPT !.at = "operator", !.Left = ret]
    OBVIOUS
  <2>3. f \in Frames /\ f.fn = Top.fn /\ f.at = "operator" /\ f.Left = ret /\ f.Op = "none"
    BY <1>1, <2>1, <2>2 DEF Frames, Places, Typed
  <2>4. calls' = SetTop(f)
    BY <1>1, <2>2 DEF Join, SetTop, Top
  <2>5. Grows
    BY <2>1, Reading DEF Grows
  <2>6. FrameOK(f)
    <3>1. ~HasError => Fit(Operand(Top.fn, "none"), ret)
      BY <1>1, <2>1 DEF IInv, RetOK, Awaits, Callee
    <3>2. ~HasError => Fit(Top.fn, ret)
      BY <2>1, <3>1 DEF Fit, Operand, Operators
    <3> QED BY <2>3, <3>2 DEF FrameOK
  <2>7. FrameOK(f)' /\ ~Awaits(f)
    BY <2>3, <2>5, <2>6, FitKept DEF Awaits
  <2> QED BY <2>1, <2>3, <2>4, <2>5, <2>7, GoesOn DEF Join, Typed
<1> QED BY <1>1, JoinsRight

(* parseFactor. *)

LEMMA LeafKeeps == ASSUME IInv, Leaf PROVE IInv'
<1>1. /\ calls # <<>> /\ Top.fn = "parseFactor" /\ Typed /\ advance /\ HasError' = HasError
      /\ tok \in Idents \cup Numbers
  BY DEF Leaf, At, IInv
<1>2. PICK n : n = Factor(IF tok \in Idents THEN "ident" ELSE "number", tok)
  OBVIOUS
<1>3. n \in Nodes /\ n.op \in {"ident", "number"}
  BY <1>1, <1>2 DEF Factor, Nodes
<1>4. nodes' = Append(nodes, n)
  BY <1>2 DEF Leaf
<1>5. /\ nodes' \in Seq(Nodes) /\ Grows /\ Len(nodes') = Len(nodes) + 1 /\ Len(nodes) \in Nat
      /\ DOMAIN nodes = 1..Len(nodes) /\ DOMAIN nodes' = 1..Len(nodes) + 1
      /\ nodes'[Len(nodes) + 1] = n
      /\ \A i \in DOMAIN nodes' \ DOMAIN nodes : i = Len(nodes) + 1
  BY <1>1, <1>3, <1>4, Made, Reading
<1>6. PICK f : f = Filled("behind", Len(nodes) + 1)
  OBVIOUS
<1>7. /\ f \in Frames /\ f.fn = Top.fn /\ f.at = "behind" /\ f.Left = Len(nodes) + 1
      /\ f.Op = Top.Op
  <2>1. Len(nodes) + 1 \in Nat /\ "behind" \in Places
    BY <1>5 DEF Places
  <2> QED BY <1>1, <1>6, <2>1, Placed
<1>8. calls' = SetTop(f)
  BY <1>5, <1>6 DEF Leaf, SetTop, Top, Filled
<1>9. n.op \notin Operators
  BY <1>3 DEF Operators, AddOperators, MulOperators
<1>10. FrameOK(f)' /\ ~Awaits(f)
  <2>1. Len(nodes) + 1 \in DOMAIN nodes'
    BY <1>5
  <2> QED BY <1>1, <1>5, <1>7, <1>9, <2>1 DEF FrameOK, Fit, Awaits
<1>11. \A i \in DOMAIN nodes' \ DOMAIN nodes : NodeOK(i)'
  BY <1>5, <1>9 DEF NodeOK
<1> QED BY <1>1, <1>5, <1>7, <1>8, <1>10, <1>11, GoesOn DEF Leaf, Typed

LEMMA OpenParenKeeps == ASSUME IInv, OpenParen PROVE IInv'
<1>1. /\ calls # <<>> /\ Top.fn = "parseFactor" /\ Typed /\ advance
      /\ Call("parseExpr", "operand", "close") /\ "close" \in Places
  BY DEF OpenParen, At, IInv, Places
<1>2. PICK f, g : /\ f \in Frames /\ f.fn = Top.fn /\ f.at = "close"
                  /\ g = Frame("parseExpr", "operand") /\ calls' = Push(f, g)
  BY <1>1, Called
<1>3. Awaits(f) /\ Callee(f) = "parseExpr"
  BY <1>2 DEF Awaits, Callee
<1>4. FrameOK(f)'
  <2>1. ~NoParen'
    BY <1>1, Reading DEF OpenParen
  <2> QED BY <1>1, <1>2, <2>1 DEF FrameOK, Holds
<1>5. FrameOK(g)' /\ ~Awaits(g) /\ g \in Frames /\ g.fn = "parseExpr"
  BY <1>2, Started
<1> QED BY <1>1, <1>2, <1>3, <1>4, <1>5, GoesDown DEF OpenParen

\* A value in parentheses fits: the text has a parenthesis.
LEMMA CloseParenKeeps == ASSUME IInv, CloseParen PROVE IInv'
<1>1. /\ calls # <<>> /\ Top.fn = "parseFactor" /\ Top.at = "close" /\ Typed
      /\ (stay \/ advance) /\ nodes' = nodes /\ HasError' \in BOOLEAN /\ (HasError => HasError')
  <2>1. HasError' \in BOOLEAN /\ (HasError => HasError') /\ (stay \/ advance)
    <3>1. CASE tok = ")" /\ advance /\ UNCHANGED HasError
      BY <3>1 DEF IInv, Typed
    <3>2. CASE stay /\ error
      BY <3>2 DEF error
    <3> QED BY <3>1, <3>2 DEF CloseParen
  <2> QED BY <2>1 DEF CloseParen, At, IInv
<1>2. PICK f : f = Filled("behind", ret)
  OBVIOUS
<1>3. f \in Frames /\ f.fn = Top.fn /\ f.at = "behind" /\ f.Left = ret /\ f.Op = Top.Op
  <2>1. ret \in Nat /\ "behind" \in Places
    BY <1>1 DEF Places, Typed
  <2> QED BY <1>1, <1>2, <2>1, Placed
<1>4. calls' = SetTop(f)
  BY <1>2 DEF CloseParen, SetTop, Top, Filled
<1>5. Grows
  BY <1>1, Reading DEF Grows, CloseParen
<1>6. FrameOK(f)
  <2>1. FrameOK(Top)
    BY <1>1, TopTyped DEF IInv, FramesOK, Top
  <2>2. ~NoParen
    BY <1>1, <2>1 DEF FrameOK
  <2>3. ~HasError => Fit("parseExpr", ret)
    BY <1>1 DEF IInv, RetOK, Awaits, Callee
  <2> QED BY <1>1, <1>3, <2>2, <2>3 DEF FrameOK, Fit
<1>7. FrameOK(f)' /\ ~Awaits(f)
  BY <1>3, <1>5, <1>6, FitKept DEF Awaits
<1> QED BY <1>1, <1>3, <1>4, <1>5, <1>7, GoesOn DEF CloseParen, Typed

LEMMA NoFactorKeeps == ASSUME IInv, NoFactor PROVE IInv'
<1>1. /\ calls # <<>> /\ Top.fn = "parseFactor" /\ Typed /\ stay /\ HasError' = TRUE
      /\ nodes' = nodes
  BY DEF NoFactor, At, IInv, error
<1>2. PICK f \in Frames : f.fn = Top.fn /\ f.at = "behind" /\ calls' = SetTop(f)
  BY <1>1, Moved DEF Places, NoFactor
<1>3. FrameOK(f)' /\ ~Awaits(f)
  BY <1>1, <1>2 DEF FrameOK, Awaits
<1>4. Grows
  BY <1>1, Reading DEF Grows
<1> QED BY <1>1, <1>2, <1>3, <1>4, GoesOn DEF NoFactor, Typed

LEMMA SkipKeeps == ASSUME IInv, Skip PROVE IInv'
<1>1. Typed'
  BY Reading DEF Skip, IInv, Typed
<1>2. Grows
  BY Reading DEF Skip, IInv, Grows
<1>3. FramesOK' /\ NodesOK'
  <2>1. NodesOK'
    BY <1>2, NodesKept DEF Skip, IInv
  <2>2. SUFFICES ASSUME NEW k \in DOMAIN calls PROVE FrameOK(calls[k])'
    BY <2>1 DEF FramesOK, Skip
  <2> QED BY <1>2, FitKept DEF Skip, IInv, FramesOK, FrameOK, Fit, NoParen
<1>4. StackOK' /\ RetOK' /\ TreeOK'
  BY DEF Skip, IInv, StackOK, RetOK, TreeOK, At, Top, Awaits
<1> QED BY <1>1, <1>3, <1>4 DEF IInv

LEMMA ReturnFactorKeeps == ASSUME IInv, ReturnFactor PROVE IInv'
<1>1. /\ calls # <<>> /\ Top.fn = "parseFactor" /\ Top.at = "behind"
      /\ Return(Top.Left) /\ stay /\ UNCHANGED <<nodes, tree, HasError>>
  BY DEF ReturnFactor, At
<1>2. Holds(Top) /\ Top.fn # "parseCalc"
  BY <1>1 DEF Holds
<1> QED BY <1>1, <1>2, ComesBack

(* The invariant. *)

LEMMA Initially == ASSUME Init PROVE IInv
<1>1. PICK p \in Patterns : \/ tok = EndOfInput /\ text = <<>>
                            \/ p # <<>> /\ tok \in Head(p) /\ text = Tail(p)
  BY DEF Init, ParserInit
<1>2. tok \in AllTokens /\ text \in Seq(SUBSET AllTokens)
  <2>1. p \in Seq(SUBSET STRING)
    BY PatternsAssumption
  <2>2. SUBSET STRING \subseteq SUBSET AllTokens
    BY DEF AllTokens
  <2>3. p \in Seq(SUBSET AllTokens)
    BY <2>1, <2>2, SeqMonotonic
  <2>4. ASSUME p # <<>> PROVE Tail(p) \in Seq(SUBSET AllTokens) /\ Head(p) \in SUBSET AllTokens
    BY <2>3, <2>4, HeadTailProperties
  <2>5. CASE tok = EndOfInput /\ text = <<>>
    BY <2>5 DEF AllTokens
  <2>6. CASE p # <<>> /\ tok \in Head(p) /\ text = Tail(p)
    BY <2>4, <2>6
  <2> QED BY <1>1, <2>5, <2>6
<1>3. /\ calls = << Frame("parseCalc", "start") >> /\ ret = Null /\ nodes = <<>> /\ read = <<>>
      /\ tree = Null /\ HasError = FALSE
  BY DEF Init, ParserInit
<1>4. Frame("parseCalc", "start") \in Frames
  BY DEF Frame, Frames, Functions, Places, Null
<1>5. Typed
  <2>1. calls \in Seq(Frames) /\ nodes \in Seq(Nodes) /\ read \in Seq(AllTokens)
    BY <1>3, <1>4
  <2> QED BY <1>2, <1>3, <2>1 DEF Typed, Null
<1>6. /\ Len(calls) = 1 /\ DOMAIN calls = {1} /\ calls[1].fn = "parseCalc" /\ calls # <<>>
      /\ calls[1].at = "start"
  BY <1>3 DEF Frame
<1>7. FramesOK /\ StackOK /\ RetOK
  BY <1>6 DEF FramesOK, StackOK, RetOK, FrameOK, Holds, Top, Awaits
<1>8. TreeOK /\ NodesOK
  BY <1>3, <1>6 DEF TreeOK, NodesOK
<1> QED BY <1>5, <1>7, <1>8 DEF IInv

LEMMA Unchanged == ASSUME IInv, UNCHANGED parserVars PROVE IInv'
  BY DEF IInv, parserVars, Typed, FramesOK, StackOK, RetOK, TreeOK, NodesOK, FrameOK, Fit, NoParen,
         NodeOK, Grouped, Top

LEMMA Step == ASSUME IInv, [Next]_vars PROVE IInv'
<1>1. CASE ParserStep
  BY <1>1, WithClauseKeeps, WithNameKeeps, WithNamesKeeps, WithErrorKeeps, DrainKeeps, FinishKeeps,
     ParseOperandKeeps, JoinKeeps, TakeOperatorKeeps, ReturnLeftKeeps, LeafKeeps, OpenParenKeeps,
     CloseParenKeeps, NoFactorKeeps, SkipKeeps, ReturnFactorKeeps DEF ParserStep
<1>2. CASE Generating
  BY <1>2, Unchanged DEF Generating, GenStep, VisitFactor, VisitLeft, VisitRight,
     VisitOperator, Main, EndMain, genOnly
<1>3. CASE MachineStep
  BY <1>3, Unchanged DEF MachineStep, Stuck, DoArith, DoPhi, DoSet, DoBranch, DoWhile, DoThrow,
     DoCatch, DoReturn, calc_write, calc_read, runOnly
<1>4. CASE Halt \/ UNCHANGED vars
  BY <1>4, Unchanged DEF Halt, vars
<1> QED BY <1>1, <1>2, <1>3, <1>4 DEF Next, Parsing

\* The invariant holds of every run of the compiler (Parser.cpp:15-167): what a parse
\* function returns, and what one holds in Left, is an operand its caller may take.
THEOREM ParserInvariant == Spec => []IInv
<1> QED BY Initially, Step, PTL DEF Spec

\* A text without a syntax error has a tree without a hole (Parser.cpp:129-167): no null
\* Expr reaches the visitors of the code generator, and what DeclCheck says of a missing
\* operand is never said.
THEOREM AcceptedTreesWhole == Spec => []TreesWhole
<1>1. ASSUME IInv PROVE TreesWhole
  <2>1. SUFFICES ASSUME Accepted PROVE tree # Null /\ \A i \in DOMAIN nodes : Null \notin Children(nodes[i])
    BY DEF TreesWhole
  <2>2. tree # Null
    BY <1>1, <2>1 DEF IInv, TreeOK, Accepted, Typed, Null
  <2>3. ASSUME NEW i \in DOMAIN nodes PROVE Null \notin Children(nodes[i])
    <3>1. NodeOK(i) /\ i \in Nat
      BY <1>1, <2>1 DEF IInv, NodesOK, Accepted, Typed
    <3> QED BY <3>1 DEF NodeOK, Children, Null
  <2> QED BY <2>2, <2>3
<1> QED BY <1>1, ParserInvariant, PTL

\* The tree of an accepted text without parentheses groups its operators as the functions
\* parseExpr and parseTerm of Parser.cpp do (80-127), for texts of any length.
THEOREM AcceptedPrecedence == Spec => []Precedence
<1>1. ASSUME IInv PROVE Precedence
  <2>1. SUFFICES ASSUME Accepted, NoParen, NEW i \in DOMAIN nodes, nodes[i].op \in Operators
                 PROVE  Grouped(nodes[i])
    BY DEF Precedence, NoParen, Grouped
  <2> QED BY <1>1, <2>1 DEF IInv, NodesOK, NodeOK, Accepted
<1> QED BY <1>1, ParserInvariant, PTL
=============================================================================
