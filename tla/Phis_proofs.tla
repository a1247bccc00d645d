------------------------------ MODULE Phis_proofs ------------------------------
(***************************************************************************)
(* The phi instructions are in order, for every program.  A phi is in one   *)
(* of three states: it waits in IncompletePhis (Pending), addPhiOperands is *)
(* filling it (Filling), or it has an operand per predecessor (Whole).      *)
(*                                                                         *)
(* The argument: a phi that readLocalVariableRecursive creates in a join is *)
(* hidden until optimizePhi has looked at it, since Defs holds a null for   *)
(* it meanwhile.  Nobody can use a hidden phi, so when it is erased there   *)
(* is no user to optimize again: while a phi is being filled, optimizePhi   *)
(* is called on hidden, whole phis alone.  Only when the phi sealBlock      *)
(* asked for is whole and no other is being filled can the optimization     *)
(* spread to other phis.                                                    *)
(***************************************************************************)
EXTENDS CGProcedure_proofs, FiniteSetTheorems

-----------------------------------------------------------------------------
(* The invariant.                                                           *)

Plain == {None, Null, Undef} \cup ({"lit"} \X Literals) \cup ({"arg"} \X Vars)
           \cup ({"ins"} \X Nat)

\* The values in which only the phis D occur.
Values(D) == Plain \cup ({"phi"} \X D)

\* The incomplete phis of b that sealBlock has not handed to addPhiOperands.
Waiting(b) == IF b = sealing THEN incomplete[b] \ visited ELSE incomplete[b]
Pending == {p \in DOMAIN phis : \E b \in Blocks : \E e \in Waiting(b) : e.phi = p}
Filling == {calls[i].phi : i \in {j \in DOMAIN calls : calls[j].op = "fill"}}
Whole(p) ==
  /\ phis[p].bb \in sealed \cup {sealing}
  /\ Filled(p) = Len(preds[phis[p].bb])

\* sealBlock is filling a phi, or the phi is whole and being optimized.
InFill  == calls # <<>> /\ calls[1].op = "fill"
InChain == calls # <<>> /\ calls[1].op \in {"opt", "reopt"}

\* The phis that joins have created and nobody can use yet.
Hidden ==
  {calls[i].phi : i \in {j \in DOMAIN calls :
     InFill /\ j > 1 /\ calls[j].op \in {"fill", "opt"}}}
Usable == Values(DOMAIN phis \ Hidden)

\* What waits to be filled is in the function, without operands, and waits once.
EntriesOK ==
  /\ \A b \in Blocks : \A e \in incomplete[b] : e.phi < fresh
  /\ \A b \in Blocks : \A e \in Waiting(b) :
       e.phi \in DOMAIN phis /\ phis[e.phi] = [bb |-> b, ops |-> <<>>]
  /\ \A b, c \in Blocks : \A e \in incomplete[b], f \in incomplete[c] :
       e.phi = f.phi => b = c /\ e = f

PhisOK ==
  /\ phis \in [DOMAIN phis -> [bb : Blocks, ops : Seq(Usable)]]
  /\ \A p \in DOMAIN phis : p \in Pending \/ p \in Filling \/ Whole(p)

\* A phi that optimizePhi may be called on: it exists or was erased, and does not wait.
Optimizable(p) == p \in Nat /\ p < fresh /\ p \notin Pending

UsersOK ==
  /\ users \in [DOMAIN phis -> Seq(Nat)]
  /\ \A p \in DOMAIN phis : \A u \in ToSet(users[p]) : Optimizable(u)
  /\ \A p \in Hidden : users[p] = <<>>

\* A statement reads; sealBlock fills, and under a fill optimizePhi is called last;
\* once the phi sealBlock filled is being optimized, only optimizePhi is active.
StackOK ==
  /\ calls # <<>> => \/ calls[1].op = "read" /\ Len(calls) = 1 /\ Emitting
                     \/ calls[1].op \in {"fill", "opt", "reopt"} /\ sealing # NoBlock
  /\ \A i \in DOMAIN calls : i < Len(calls) =>
       calls[i].op # "opt" /\ (calls[i].op = "reopt" => InChain)
  /\ InChain => \A i \in DOMAIN calls : calls[i].op \in {"opt", "reopt"}

FrameOK(f) ==
  /\ f.op = "fill" => /\ f.phi \in DOMAIN phis \ Pending
                      /\ phis[f.phi].bb = f.bb /\ f.bb \in sealed \cup {sealing}
                      /\ Filled(f.phi) <= Len(preds[f.bb])
  /\ f.op = "opt" => Optimizable(f.phi) /\ (InFill => f.phi \in DOMAIN phis)
  /\ f.op = "reopt" => /\ f.todo \in Seq(Nat)
                       /\ \A u \in ToSet(f.todo) : Optimizable(u)
                       /\ InFill => f.todo = <<>> /\ f.same \in Usable

\* A fill that waits for a value has room for it, and no two are of the same phi.
FillsOK ==
  /\ \A i \in DOMAIN calls :
       calls[i].op = "fill" /\ (i < Len(calls) \/ ret # None)
         => Filled(calls[i].phi) < Len(preds[calls[i].bb])
  /\ InFill => \A i, j \in DOMAIN calls :
       /\ i # j /\ calls[i].op \in {"fill", "opt"} /\ calls[j].op \in {"fill", "opt"}
       => calls[i].phi # calls[j].phi

FramesOK == \A f \in ToSet(calls) : FrameOK(f)

ValuesOK ==
  /\ \A b \in Blocks : \A v \in DOMAIN defs[b] : defs[b][v] \in Usable
  /\ vals \in Seq(Usable) /\ (pc # "operands" => vals = <<>>)
  /\ ~ InChain /\ (calls = <<>> => sealing = NoBlock) => ret \in Usable

PhiInv ==
  EntriesOK /\ PhisOK /\ UsersOK /\ StackOK /\ FramesOK /\ FillsOK /\ ValuesOK

-----------------------------------------------------------------------------
(* Lists and values.                                                        *)

\* Without(s, p) lists some elements of s, none of them p.
LEMMA WithoutFacts ==
  ASSUME NEW S, NEW s \in Seq(S), NEW p
  PROVE  /\ Without(s, p) \in Seq(S)
         /\ \A u \in ToSet(Without(s, p)) : u \in ToSet(s) /\ u # p
         /\ s = <<>> => Without(s, p) = <<>>
<1> DEFINE kept == {i \in DOMAIN s : s[i] # p}
           rank(i) == Cardinality({j \in kept : j <= i})
           n == Cardinality(kept)
           f == [i \in kept |-> rank(i)]
<1>1. IsFiniteSet(kept) /\ n \in Nat /\ kept \subseteq Nat
  <2>1. DOMAIN s = 1 .. Len(s) /\ Len(s) \in Nat
    OBVIOUS
  <2>2. IsFiniteSet(DOMAIN s)
    BY <2>1, FS_Interval
  <2> QED BY <2>1, <2>2, FS_Subset, FS_CardinalityType
<1> HIDE DEF kept
<1>2. ASSUME NEW i \in kept
      PROVE  /\ IsFiniteSet({j \in kept : j <= i})
             /\ rank(i) \in 1 .. n
  <2>1. {j \in kept : j <= i} \in SUBSET kept
    OBVIOUS
  <2>2. IsFiniteSet({j \in kept : j <= i}) /\ rank(i) <= n
    BY <1>1, <2>1, FS_Subset
  <2>3. rank(i) \in Nat
    BY <2>2, FS_CardinalityType
  <2>4. rank(i) # 0
    <3>1. i \in {j \in kept : j <= i}
      BY <1>1, <1>2
    <3> QED BY <2>2, <3>1, FS_EmptySet
  <2> QED BY <1>1, <2>2, <2>3, <2>4
<1>3. ASSUME NEW i \in kept, NEW k \in kept, i < k
      PROVE  rank(i) # rank(k)
  <2>1. {j \in kept : j <= i} \in SUBSET {j \in kept : j <= k}
    <3>1. i \in Nat /\ k \in Nat /\ \A j \in kept : j \in Nat
      BY <1>1, <1>3
    <3>2. \A j \in kept : j <= i => j <= k
      BY <1>3, <3>1
    <3> QED BY <3>2
  <2>2. k \notin {j \in kept : j <= i} /\ k \in {j \in kept : j <= k}
    BY <1>1, <1>3
  <2> QED BY <1>2, <2>1, <2>2, FS_Subset
<1>4. f \in Injection(kept, 1 .. n)
  <2>1. f \in [kept -> 1 .. n]
    BY <1>2
  <2>2. \A i, k \in kept : f[i] = f[k] => i = k
    BY <1>1, <1>3
  <2> HIDE DEF f
  <2> QED BY <2>1, <2>2 DEF Injection, IsInjective
<1>5. f \in Surjection(kept, 1 .. n)
  <2>1. IsFiniteSet(1 .. n) /\ Cardinality(1 .. n) = n
    BY <1>1, FS_Interval
  <2> HIDE DEF f
  <2> QED BY <1>4, <2>1, FS_Injection
<1>6. \A k \in 1 .. n : \E i \in kept : rank(i) = k
  <2>1. \A k \in 1 .. n : \E i \in kept : f[i] = k
    <3> HIDE DEF f
    <3> QED BY <1>5 DEF Surjection
  <2> QED BY <2>1
<1>7. Without(s, p) = [k \in 1 .. n |-> s[CHOOSE i \in kept : rank(i) = k]]
  BY DEF Without, kept
<1>8. \A k \in 1 .. n : (CHOOSE i \in kept : rank(i) = k) \in kept
  <2> HIDE DEF rank
  <2> QED BY <1>6
<1>9. \A k \in 1 .. n : LET e == Without(s, p)[k] IN e \in S /\ e \in ToSet(s) /\ e # p
  <2> SUFFICES ASSUME NEW k \in 1 .. n
               PROVE  LET e == Without(s, p)[k] IN e \in S /\ e \in ToSet(s) /\ e # p
    OBVIOUS
  <2> DEFINE i == CHOOSE j \in kept : rank(j) = k
  <2>1. Without(s, p)[k] = s[i] /\ i \in kept
    BY <1>7, <1>8
  <2> HIDE DEF i
  <2> QED BY <2>1 DEF kept, ToSet
<1>10. DOMAIN Without(s, p) = 1 .. n
  BY <1>7
<1>11. Without(s, p) \in Seq(S)
  <2> DEFINE w == Without(s, p)
  <2>1. w = [k \in 1 .. n |-> w[k]]
    BY <1>7
  <2>2. \A k \in 1 .. n : w[k] \in S
    BY <1>9
  <2>3. w \in [1 .. n -> S]
    <3> HIDE DEF w
    <3> QED BY <2>1, <2>2
  <2> HIDE DEF w, n
  <2>4. w \in Seq(S)
    BY <1>1, <2>3, SeqDef
  <2> QED BY <2>4 DEF w
<1>12. s = <<>> => Without(s, p) = <<>>
  <2> SUFFICES ASSUME s = <<>> PROVE Without(s, p) = <<>>
    OBVIOUS
  <2>1. kept = {}
    BY DEF kept
  <2>2. n = 0
    BY <2>1, FS_EmptySet
  <2> QED BY <1>10, <1>11, <2>2
<1>13. \A u \in ToSet(Without(s, p)) : u \in ToSet(s) /\ u # p
  BY <1>9, <1>10 DEF ToSet
<1> QED BY <1>11, <1>12, <1>13

\* A sequence over a set is one over every larger set.
LEMMA SeqGrows ==
  ASSUME NEW A, NEW B, A \subseteq B, NEW s \in Seq(A)
  PROVE  s \in Seq(B)
  OBVIOUS

\* Taking a phi out of a value, as replaceAllUsesWith does, leaves the other phis.
LEMMA SubstValue ==
  ASSUME NEW D, NEW p, NEW new \in Values(D \ {p}), NEW val \in Values(D)
  PROVE  Subst(val, Phi(p), new) \in Values(D \ {p})
<1>1. CASE val \in Plain
  BY <1>1 DEF Subst, Values
<1>2. CASE val \in {"phi"} \X D
  <2>1. PICK q \in D : val = <<"phi", q>>
    BY <1>2
  <2>2. CASE q = p
    BY <2>1, <2>2 DEF Subst, Phi
  <2>3. CASE q # p
    <3>1. val # Phi(p)
      BY <2>1, <2>3 DEF Phi
    <3> QED BY <2>1, <2>3, <3>1 DEF Subst, Values
  <2> QED BY <2>2, <2>3
<1> QED BY <1>1, <1>2 DEF Values

\* The same for every value of a list.
LEMMA SubstList ==
  ASSUME NEW D, NEW p, NEW new \in Values(D \ {p}), NEW s \in Seq(Values(D))
  PROVE  /\ SubstAll(s, Phi(p), new) \in Seq(Values(D \ {p}))
         /\ Len(SubstAll(s, Phi(p), new)) = Len(s)
<1> DEFINE t == SubstAll(s, Phi(p), new)
           V == Values(D \ {p})
<1>1. Len(s) \in Nat /\ DOMAIN s = 1 .. Len(s) /\ \A i \in 1 .. Len(s) : s[i] \in Values(D)
  OBVIOUS
<1>2. t = [i \in 1 .. Len(s) |-> Subst(s[i], Phi(p), new)]
  BY <1>1 DEF SubstAll
<1>3. \A i \in 1 .. Len(s) : Subst(s[i], Phi(p), new) \in V
  BY <1>1, SubstValue
<1> HIDE DEF t, V
<1>4. t \in Seq(V) /\ Len(t) = Len(s)
  BY <1>1, <1>2, <1>3
<1> QED BY <1>4 DEF t, V

\* A value that is a phi names one of D.
LEMMA PhiValue ==
  ASSUME NEW D, NEW val \in Values(D), val[1] = "phi"
  PROVE  val[2] \in D /\ val = Phi(val[2])
<1>1. val \notin Plain
  BY DEF Plain, None, Null, Undef
<1>2. val \in {"phi"} \X D
  BY <1>1 DEF Values
<1> QED BY <1>2 DEF Phi

\* More phis, more values; some values name no phi.
LEMMA ValuesFacts ==
  /\ \A D, E : D \subseteq E => Values(D) \subseteq Values(E)
  /\ \A D : Plain \subseteq Values(D) /\ \A p \in D : Phi(p) \in Values(D)
  /\ None \in Plain /\ Null \in Plain /\ Undef \in Plain
  /\ \A k \in Literals : Lit(k) \in Plain
  /\ \A v \in Vars : Arg(v) \in Plain
  /\ \A n \in Nat : Ins(n) \in Plain
<1>1. \A D, E : D \subseteq E => Values(D) \subseteq Values(E)
  BY DEF Values
<1>2. \A D : Plain \subseteq Values(D) /\ \A p \in D : Phi(p) \in Values(D)
  BY DEF Values, Phi
<1>3. None \in Plain /\ Null \in Plain /\ Undef \in Plain
  BY DEF Plain
<1>4. \A k \in Literals : Lit(k) \in Plain
  BY DEF Plain, Lit
<1>5. \A v \in Vars : Arg(v) \in Plain
  BY DEF Plain, Arg
<1>6. \A n \in Nat : Ins(n) \in Plain
  BY DEF Plain, Ins
<1> QED BY <1>1, <1>2, <1>3, <1>4, <1>5, <1>6

\* The length, the elements and the positions of one list after another.
LEMMA Joined ==
  ASSUME NEW S, NEW s \in Seq(S), NEW t \in Seq(S)
  PROVE  /\ s \o t \in Seq(S) /\ Len(s \o t) = Len(s) + Len(t)
         /\ DOMAIN (s \o t) = 1 .. Len(s) + Len(t)
         /\ \A i \in 1 .. Len(s) : (s \o t)[i] = s[i]
         /\ \A i \in 1 .. Len(t) : (s \o t)[Len(s) + i] = t[i]
         /\ ToSet(s \o t) = ToSet(s) \cup ToSet(t)
<1> DEFINE w == s \o t
<1>1. /\ w \in Seq(S) /\ Len(w) = Len(s) + Len(t)
      /\ \A i \in 1 .. Len(s) + Len(t) : w[i] = IF i <= Len(s) THEN s[i] ELSE t[i - Len(s)]
  BY ConcatProperties
<1> HIDE DEF w
<1>2. Len(s) \in Nat /\ Len(t) \in Nat /\ DOMAIN s = 1 .. Len(s) /\ DOMAIN t = 1 .. Len(t)
      /\ DOMAIN w = 1 .. Len(s) + Len(t)
  BY <1>1
<1>3. \A i \in 1 .. Len(s) : w[i] = s[i]
  BY <1>1, <1>2
<1>4. \A i \in 1 .. Len(t) : w[Len(s) + i] = t[i]
  BY <1>1, <1>2
<1>5. ASSUME NEW i \in 1 .. Len(t)
      PROVE  Len(s) + i \in DOMAIN w /\ w[Len(s) + i] = t[i]
  BY <1>2, <1>4
<1>6. ToSet(w) = ToSet(s) \cup ToSet(t)
  <2>1. ToSet(s) \subseteq ToSet(w)
    BY <1>2, <1>3 DEF ToSet
  <2>2. ToSet(t) \subseteq ToSet(w)
    BY <1>2, <1>5 DEF ToSet
  <2>3. ASSUME NEW i \in DOMAIN w
        PROVE  w[i] \in ToSet(s) \cup ToSet(t)
    <3>1. CASE i <= Len(s)
      BY <1>2, <1>3, <3>1 DEF ToSet
    <3>2. CASE ~ i <= Len(s)
      <4>1. i - Len(s) \in DOMAIN t /\ w[i] = t[i - Len(s)]
        BY <1>1, <1>2, <3>2
      <4> QED BY <4>1 DEF ToSet
    <3> QED BY <3>1, <3>2
  <2> QED BY <2>1, <2>2, <2>3 DEF ToSet
<1> QED BY <1>1, <1>2, <1>3, <1>4, <1>6 DEF w

\* The elements of the lists RAUW builds.
LEMMA UseLists ==
  ASSUME NEW s \in Seq(Nat), NEW t \in Seq(Nat), NEW p
  PROVE  /\ Reverse(s) \in Seq(Nat) /\ ToSet(Reverse(s)) \subseteq ToSet(s)
         /\ s \o t \in Seq(Nat) /\ ToSet(s \o t) = ToSet(s) \cup ToSet(t)
         /\ p \in Nat => <<p>> \o s \in Seq(Nat) /\ ToSet(<<p>> \o s) = {p} \cup ToSet(s)
         /\ ToSet(<<>>) = {} /\ Reverse(<<>>) = <<>>
<1>1. Reverse(s) \in Seq(Nat) /\ ToSet(Reverse(s)) \subseteq ToSet(s)
  BY DEF Reverse, ToSet
<1>2. s \o t \in Seq(Nat) /\ ToSet(s \o t) = ToSet(s) \cup ToSet(t)
  BY Joined
<1>3. p \in Nat => <<p>> \in Seq(Nat) /\ ToSet(<<p>>) = {p}
  BY DEF ToSet
<1>4. ASSUME p \in Nat
      PROVE  <<p>> \o s \in Seq(Nat) /\ ToSet(<<p>> \o s) = {p} \cup ToSet(s)
  <2> DEFINE h == <<p>>
  <2>1. h \in Seq(Nat) /\ ToSet(h) = {p}
    BY <1>3, <1>4
  <2> HIDE DEF h
  <2>2. h \o s \in Seq(Nat) /\ ToSet(h \o s) = ToSet(h) \cup ToSet(s)
    BY <2>1, Joined
  <2> QED BY <2>1, <2>2 DEF h
<1>5. ToSet(<<>>) = {} /\ Reverse(<<>>) = <<>>
  BY DEF ToSet, Reverse
<1> QED BY <1>1, <1>2, <1>4, <1>5

-----------------------------------------------------------------------------
(* The stack.                                                               *)

\* Frames are numbered from 1 and the running call is the last.
LEMMA StackFacts ==
  ASSUME CallsOK
  PROVE  /\ Len(calls) \in Nat /\ DOMAIN calls = 1 .. Len(calls)
         /\ calls # <<>> <=> Len(calls) # 0
         /\ calls # <<>> => Top = calls[Len(calls)] /\ Len(calls) \in DOMAIN calls
         /\ calls # <<>> => 1 \in DOMAIN calls
<1> DEFINE S == ToSet(calls)
<1>1. calls \in Seq(S)
  BY DEF CallsOK
<1> HIDE DEF S
<1>2. Len(calls) \in Nat /\ DOMAIN calls = 1 .. Len(calls) /\ (calls # <<>> <=> Len(calls) # 0)
  BY <1>1
<1> QED BY <1>2 DEF Top, Last

\* The running call returns: the others stay.
LEMMA PopFacts ==
  ASSUME CallsOK, calls # <<>>, calls' = Front(calls)
  PROVE  /\ Len(calls') = Len(calls) - 1 /\ DOMAIN calls' = 1 .. Len(calls) - 1
         /\ \A i \in 1 .. Len(calls) - 1 : calls'[i] = calls[i]
         /\ calls' # <<>> <=> Len(calls) # 1
         /\ ToSet(calls') \subseteq ToSet(calls)
<1> DEFINE S == ToSet(calls)
           f == Front(calls)
<1>1. calls \in Seq(S)
  BY DEF CallsOK
<1> HIDE DEF S
<1>2. f \in Seq(S) /\ Len(f) = Len(calls) - 1 /\ \A i \in 1 .. Len(calls) - 1 : f[i] = calls[i]
      /\ Len(calls) \in Nat \ {0}
  BY <1>1, FrontLast
<1> HIDE DEF f
<1>3. DOMAIN f = 1 .. Len(calls) - 1 /\ (f # <<>> <=> Len(calls) # 1)
  BY <1>2
<1>4. calls' = f
  BY DEF f
<1>5. ToSet(calls') \subseteq ToSet(calls)
  BY <1>1, <1>2, <1>3, <1>4 DEF ToSet
<1> QED BY <1>2, <1>3, <1>4, <1>5

\* A list continued by one or two elements.
LEMMA Continued ==
  ASSUME NEW S, NEW f \in Seq(S), NEW a, NEW b
  PROVE  /\ Len(f \o <<a>>) = Len(f) + 1 /\ DOMAIN (f \o <<a>>) = 1 .. Len(f) + 1
         /\ \A i \in 1 .. Len(f) : (f \o <<a>>)[i] = f[i]
         /\ (f \o <<a>>)[Len(f) + 1] = a
         /\ Len(f \o <<a, b>>) = Len(f) + 2 /\ DOMAIN (f \o <<a, b>>) = 1 .. Len(f) + 2
         /\ \A i \in 1 .. Len(f) : (f \o <<a, b>>)[i] = f[i]
         /\ (f \o <<a, b>>)[Len(f) + 1] = a /\ (f \o <<a, b>>)[Len(f) + 2] = b
<1> DEFINE T == S \cup {a, b}
           g == <<a>>
           h == <<a, b>>
<1>1. f \in Seq(T) /\ Len(f) \in Nat
  OBVIOUS
<1>2. g \in Seq(T) /\ h \in Seq(T)
  OBVIOUS
<1>3. Len(g) = 1 /\ g[1] = a /\ Len(h) = 2 /\ h[1] = a /\ h[2] = b
  OBVIOUS
<1> HIDE DEF T, g, h
<1>4. /\ Len(f \o g) = Len(f) + Len(g) /\ DOMAIN (f \o g) = 1 .. Len(f) + Len(g)
      /\ \A i \in 1 .. Len(f) : (f \o g)[i] = f[i]
      /\ \A i \in 1 .. Len(g) : (f \o g)[Len(f) + i] = g[i]
  BY <1>1, <1>2, Joined
<1>5. /\ Len(f \o h) = Len(f) + Len(h) /\ DOMAIN (f \o h) = 1 .. Len(f) + Len(h)
      /\ \A i \in 1 .. Len(f) : (f \o h)[i] = f[i]
      /\ \A i \in 1 .. Len(h) : (f \o h)[Len(f) + i] = h[i]
  BY <1>1, <1>2, Joined
<1> DEFINE v == f \o g
           w == f \o h
<1>6. v = f \o g /\ w = f \o h
  OBVIOUS
<1> HIDE DEF v, w
<1>7. /\ Len(v) = Len(f) + 1 /\ DOMAIN v = 1 .. Len(f) + 1
      /\ \A i \in 1 .. Len(f) : v[i] = f[i]
      /\ v[Len(f) + 1] = a
  BY <1>3, <1>4, <1>6
<1>8. /\ Len(w) = Len(f) + 2 /\ DOMAIN w = 1 .. Len(f) + 2
      /\ \A i \in 1 .. Len(f) : w[i] = f[i]
      /\ w[Len(f) + 1] = a /\ w[Len(f) + 2] = b
  BY <1>3, <1>5, <1>6
<1> QED BY <1>7, <1>8 DEF v, w, g, h

\* The running call goes on as another frame.
LEMMA ReplaceFacts ==
  ASSUME CallsOK, calls # <<>>, NEW a, calls' = Front(calls) \o <<a>>
  PROVE  /\ Len(calls') = Len(calls) /\ DOMAIN calls' = 1 .. Len(calls)
         /\ \A i \in 1 .. Len(calls) - 1 : calls'[i] = calls[i]
         /\ calls'[Len(calls)] = a /\ calls' # <<>>
         /\ ToSet(calls') \subseteq ToSet(calls) \cup {a}
<1> DEFINE S == ToSet(calls)
           f == Front(calls)
           w == Front(calls) \o <<a>>
<1>1. calls \in Seq(S)
  BY DEF CallsOK
<1> HIDE DEF S
<1>2. f \in Seq(S) /\ Len(f) = Len(calls) - 1 /\ \A i \in 1 .. Len(calls) - 1 : f[i] = calls[i]
      /\ Len(calls) \in Nat \ {0}
  BY <1>1, FrontLast
<1>3. /\ Len(w) = Len(f) + 1 /\ DOMAIN w = 1 .. Len(f) + 1
      /\ \A i \in 1 .. Len(f) : w[i] = f[i]
      /\ w[Len(f) + 1] = a
  <2> HIDE DEF f
  <2>1. \A b : /\ Len(f \o <<a>>) = Len(f) + 1 /\ DOMAIN (f \o <<a>>) = 1 .. Len(f) + 1
               /\ \A i \in 1 .. Len(f) : (f \o <<a>>)[i] = f[i]
               /\ (f \o <<a>>)[Len(f) + 1] = a
    BY <1>2, Continued
  <2> QED BY <2>1 DEF f
<1>4. calls' = w
  OBVIOUS
<1> HIDE DEF f, w
<1>5. /\ Len(calls') = Len(calls) /\ DOMAIN calls' = 1 .. Len(calls)
      /\ \A i \in 1 .. Len(calls) - 1 : calls'[i] = calls[i]
      /\ calls'[Len(calls)] = a /\ calls' # <<>>
  BY SMTT(30), <1>2, <1>3, <1>4
<1>6. ToSet(calls') \subseteq ToSet(calls) \cup {a}
  BY <1>1, <1>2, <1>5 DEF ToSet
<1> QED BY <1>5, <1>6

\* The running call goes on and makes another call.
LEMMA CallFacts ==
  ASSUME CallsOK, calls # <<>>, NEW a, NEW b, calls' = Front(calls) \o <<a, b>>
  PROVE  /\ Len(calls') = Len(calls) + 1 /\ DOMAIN calls' = 1 .. Len(calls) + 1
         /\ \A i \in 1 .. Len(calls) - 1 : calls'[i] = calls[i]
         /\ calls'[Len(calls)] = a /\ calls'[Len(calls) + 1] = b /\ calls' # <<>>
         /\ ToSet(calls') \subseteq ToSet(calls) \cup {a, b}
<1> DEFINE S == ToSet(calls)
           f == Front(calls)
           w == Front(calls) \o <<a, b>>
<1>1. calls \in Seq(S)
  BY DEF CallsOK
<1> HIDE DEF S
<1>2. f \in Seq(S) /\ Len(f) = Len(calls) - 1 /\ \A i \in 1 .. Len(calls) - 1 : f[i] = calls[i]
      /\ Len(calls) \in Nat \ {0}
  BY <1>1, FrontLast
<1>3. /\ Len(w) = Len(f) + 2 /\ DOMAIN w = 1 .. Len(f) + 2
      /\ \A i \in 1 .. Len(f) : w[i] = f[i]
      /\ w[Len(f) + 1] = a /\ w[Len(f) + 2] = b
  <2> HIDE DEF f
  <2>1. /\ Len(f \o <<a, b>>) = Len(f) + 2 /\ DOMAIN (f \o <<a, b>>) = 1 .. Len(f) + 2
        /\ \A i \in 1 .. Len(f) : (f \o <<a, b>>)[i] = f[i]
        /\ (f \o <<a, b>>)[Len(f) + 1] = a /\ (f \o <<a, b>>)[Len(f) + 2] = b
    BY <1>2, Continued
  <2> QED BY <2>1 DEF f
<1>4. calls' = w
  OBVIOUS
<1> HIDE DEF f, w
<1>5. Len(f) + 1 = Len(calls) /\ Len(f) + 2 = Len(calls) + 1
  BY <1>2
<1>6. /\ Len(calls') = Len(calls) + 1 /\ DOMAIN calls' = 1 .. Len(calls) + 1
      /\ \A i \in 1 .. Len(calls) - 1 : calls'[i] = calls[i]
      /\ calls'[Len(calls)] = a /\ calls'[Len(calls) + 1] = b
  BY <1>2, <1>3, <1>4, <1>5
<1>7. calls' # <<>>
  BY <1>2, <1>6
<1>8. ToSet(calls') \subseteq ToSet(calls) \cup {a, b}
  BY SMTT(30), <1>1, <1>2, <1>6 DEF ToSet
<1> QED BY <1>6, <1>7, <1>8

-----------------------------------------------------------------------------
(* Steps that only move from call to call.                                  *)

phiVars == <<preds, phis, users, fresh, incomplete, sealed, sealing, visited>>

\* The definitions of variables are left alone, or get usable values.
DefsUsable ==
  \/ UNCHANGED defs
  \/ \A b \in Blocks : \A v \in DOMAIN defs'[b] : defs'[b][v] \in Usable

\* What such a step keeps, when no phi becomes hidden by it.
LEMMA Quiet ==
  ASSUME PhiInv, UNCHANGED <<phiVars, vals, pc>>, DefsUsable, Hidden' \subseteq Hidden,
         \A p \in Filling \ Filling' : p \in DOMAIN phis => Whole(p),
         ~ InChain' /\ (calls' = <<>> => sealing = NoBlock) => ret' \in Usable'
  PROVE  /\ EntriesOK' /\ PhisOK' /\ UsersOK' /\ ValuesOK'
         /\ Usable \subseteq Usable' /\ Pending' = Pending
<1>1. /\ UNCHANGED <<preds, phis, users, fresh, incomplete, sealed, sealing, visited>>
      /\ UNCHANGED <<vals, pc>>
  BY DEF phiVars
<1>2. Blocks' = Blocks /\ \A b : Waiting(b)' = Waiting(b)
  BY <1>1 DEF Blocks, Waiting
<1>3. Pending' = Pending
  BY <1>1, <1>2 DEF Pending
<1>4. Usable \subseteq Usable'
  <2>1. DOMAIN phis \ Hidden \subseteq DOMAIN phis' \ Hidden'
    BY <1>1
  <2> QED BY <2>1, ValuesFacts DEF Usable
<1>5. EntriesOK'
  BY <1>1, <1>2 DEF PhiInv, EntriesOK
<1>6. PhisOK'
  <2>1. \A p : Whole(p)' = Whole(p)
    BY <1>1 DEF Whole, Filled
  <2>2. \A p \in DOMAIN phis : p \in Pending \/ p \in Filling' \/ Whole(p)
    BY DEF PhiInv, PhisOK
  <2>3. phis \in [DOMAIN phis -> [bb : Blocks, ops : Seq(Usable')]]
    <3> DEFINE U == Usable
               V == Usable'
    <3>1. U \subseteq V /\ phis \in [DOMAIN phis -> [bb : Blocks, ops : Seq(U)]]
      BY <1>4 DEF PhiInv, PhisOK
    <3> HIDE DEF U, V
    <3>2. phis \in [DOMAIN phis -> [bb : Blocks, ops : Seq(V)]]
      BY <3>1
    <3> QED BY <3>2 DEF V
  <2> QED BY <1>1, <1>2, <1>3, <2>1, <2>2, <2>3 DEF PhisOK
<1>7. UsersOK'
  BY <1>1, <1>3 DEF PhiInv, UsersOK, Optimizable
<1>8. ValuesOK'
  <2>1. \A b \in Blocks : \A v \in DOMAIN defs'[b] : defs'[b][v] \in Usable'
    BY <1>4 DEF PhiInv, ValuesOK, DefsUsable
  <2>2. vals \in Seq(Usable')
    <3> DEFINE U == Usable
               V == Usable'
    <3>1. U \subseteq V /\ vals \in Seq(U)
      BY <1>4 DEF PhiInv, ValuesOK
    <3> HIDE DEF U, V
    <3>2. vals \in Seq(V)
      BY <3>1
    <3> QED BY <3>2 DEF V
  <2>3. pc # "operands" => vals = <<>>
    BY DEF PhiInv, ValuesOK
  <2> QED BY <1>1, <1>2, <2>1, <2>2, <2>3 DEF ValuesOK
<1> QED BY <1>3, <1>4, <1>5, <1>6, <1>7, <1>8

\* A frame that was in order stays so.
LEMMA FrameKept ==
  ASSUME UNCHANGED phiVars, Usable \subseteq Usable', Pending' = Pending,
         InFill' => InFill, NEW f, FrameOK(f)
  PROVE  FrameOK(f)'
  BY DEF FrameOK, Optimizable, phiVars, Filled

\* A call returns: of the stack, only its frame is lost.
LEMMA PopStack ==
  ASSUME CallsOK, StackOK, FillsOK, calls # <<>>, calls' = Front(calls), UNCHANGED <<sealing, pc>>,
         \A i \in DOMAIN calls : i < Len(calls) /\ calls[i].op = "fill"
           => /\ Len(phis'[calls[i].phi].ops) = Len(phis[calls[i].phi].ops)
              /\ Len(preds'[calls[i].bb]) = Len(preds[calls[i].bb])
  PROVE  /\ StackOK' /\ FillsOK'
         /\ Hidden' \subseteq Hidden /\ (Top.op # "fill" => Filling' = Filling)
         /\ Hidden \subseteq Hidden' \cup {Top.phi}
         /\ Top.op \notin {"fill", "opt"} => Hidden' = Hidden
         /\ InFill /\ Top.op \in {"fill", "opt"} => Top.phi \notin Hidden'
         /\ (InFill' <=> InFill /\ Len(calls) # 1) /\ (InChain' <=> InChain /\ Len(calls) # 1)
<1> DEFINE n == Len(calls)
<1>1. /\ n \in Nat \ {0} /\ DOMAIN calls = 1 .. n /\ Top = calls[n]
      /\ n \in DOMAIN calls /\ 1 \in DOMAIN calls
  BY StackFacts
<1>2. /\ Len(calls') = n - 1 /\ DOMAIN calls' = 1 .. n - 1
      /\ \A i \in 1 .. n - 1 : calls'[i] = calls[i]
      /\ calls' # <<>> <=> n # 1
  BY PopFacts
<1> HIDE DEF n
<1>3. (InFill' <=> InFill /\ n # 1) /\ (InChain' <=> InChain /\ n # 1)
  BY <1>1, <1>2 DEF InFill, InChain
<1>4. StackOK'
  BY <1>1, <1>2, <1>3 DEF StackOK, n, Emitting
<1>5. FillsOK'
  <2>1. ASSUME NEW i \in 1 .. n - 1
        PROVE  calls'[i].op = "fill" => Len(phis'[calls'[i].phi].ops) < Len(preds'[calls'[i].bb])
    <3>1. i \in DOMAIN calls /\ i < n /\ calls'[i] = calls[i]
      BY <1>1, <1>2
    <3> QED BY <3>1 DEF FillsOK, n, Filled
  <2>2. InFill' => \A i, j \in DOMAIN calls' :
          /\ i # j /\ calls'[i].op \in {"fill", "opt"} /\ calls'[j].op \in {"fill", "opt"}
          => calls'[i].phi # calls'[j].phi
    BY <1>1, <1>2, <1>3 DEF FillsOK
  <2> QED BY <1>2, <2>1, <2>2 DEF FillsOK, Filled
<1>6. Hidden' \subseteq Hidden /\ Hidden \subseteq Hidden' \cup {Top.phi}
      /\ (Top.op \notin {"fill", "opt"} => Hidden' = Hidden)
  BY SMTT(30), <1>1, <1>2, <1>3 DEF Hidden
<1>7. Top.op # "fill" => Filling' = Filling
  BY <1>1, <1>2 DEF Filling
<1>8. InFill /\ Top.op \in {"fill", "opt"} => Top.phi \notin Hidden'
  <2> SUFFICES ASSUME InFill, Top.op \in {"fill", "opt"}, NEW i \in DOMAIN calls',
                      calls'[i].op \in {"fill", "opt"}, calls'[i].phi = Top.phi
               PROVE  FALSE
    BY DEF Hidden
  <2>1. i \in DOMAIN calls /\ i # n /\ calls'[i] = calls[i]
    BY <1>1, <1>2
  <2> QED BY <1>1, <2>1 DEF FillsOK
<1> QED BY <1>3, <1>4, <1>5, <1>6, <1>7, <1>8 DEF n

\* readLocalVariable finds a definition, or optimizePhi returns.
LEMMA PopPhis ==
  ASSUME CallsOK, PhiInv, calls # <<>>, calls' = Front(calls), Top.op # "fill",
         UNCHANGED <<phiVars, vals, pc>>, DefsUsable,
         ~ InChain' /\ (calls' = <<>> => sealing = NoBlock) => ret' \in Usable'
  PROVE  PhiInv'
<1>1. /\ StackOK' /\ FillsOK' /\ Hidden' \subseteq Hidden /\ Filling' = Filling
      /\ (InFill' => InFill)
  <2>1. UNCHANGED <<sealing, pc, phis, preds>>
    BY DEF phiVars
  <2> QED BY <2>1, PopStack DEF PhiInv, Filled
<1>2. /\ EntriesOK' /\ PhisOK' /\ UsersOK' /\ ValuesOK'
      /\ Usable \subseteq Usable' /\ Pending' = Pending
  BY <1>1, Quiet
<1>3. FramesOK'
  <2>1. \A f \in ToSet(calls') : FrameOK(f)
    BY PopFacts DEF PhiInv, FramesOK
  <2>2. \A f \in ToSet(calls') : FrameOK(f)'
    BY <1>1, <1>2, <2>1, FrameKept
  <2> QED BY <2>2 DEF FramesOK
<1> QED BY <1>1, <1>2, <1>3 DEF PhiInv

\* What a step of the recursive functions leaves to sealBlock and the driver.
StepKeeps == UNCHANGED <<sealed, sealing, visited, driverVars>>

\* The running call is one of the frames in order.
LEMMA TopInOrder ==
  ASSUME CallsOK, calls # <<>>
  PROVE  /\ Top \in ToSet(calls)
         /\ Top.op \in {"read", "write", "fill"} => Top.bb \in Blocks /\ Top.var \in Vars
<1>1. CallsIn(Vars)
  BY DEF CallsOK, CallsIn, CallIn
<1> QED BY <1>1, ReturnOK DEF CallIn

\* Which phases a call can be running in: optimizePhi and its loop under a fill or in
\* a chain, a read under a fill or for a statement, the others under a fill.
LEMMA Phase ==
  ASSUME CallsOK, StackOK, calls # <<>>
  PROVE  /\ InChain => Top.op \in {"opt", "reopt"} /\ ~ InFill /\ sealing # NoBlock
         /\ InFill => ~ InChain /\ sealing # NoBlock
         /\ ~ InFill /\ ~ InChain => Top.op = "read" /\ Len(calls) = 1 /\ Emitting
         /\ InFill /\ Top.op # "fill" => Len(calls) # 1
  BY StackFacts DEF StackOK, InChain, InFill

\* A usable value stays usable when no phi becomes hidden.
LEMMA UsableGrows ==
  ASSUME UNCHANGED phis, Hidden' \subseteq Hidden
  PROVE  Usable \subseteq Usable'
<1>1. DOMAIN phis \ Hidden \subseteq DOMAIN phis' \ Hidden'
  OBVIOUS
<1> QED BY <1>1, ValuesFacts DEF Usable

\* A read that finds a definition hands on a value that may be used, for definitions
\* hold no other.
LEMMA ReadHitPhis ==
  ASSUME CallsOK, PhiInv, ReadHit, StepKeeps
  PROVE  PhiInv'
<1>1. /\ calls # <<>> /\ Top.op = "read" /\ calls' = Front(calls)
      /\ ret' = defs[Top.bb][Top.var] /\ Top.var \in DOMAIN defs[Top.bb]
      /\ UNCHANGED <<phiVars, defs, vals, pc>>
  BY DEF ReadHit, Running, Return, StepKeeps, driverVars, irVars, phiVars
<1>2. ret' \in Usable
  BY <1>1, TopInOrder DEF PhiInv, ValuesOK
<1>3. Hidden' \subseteq Hidden
  BY <1>1, PopStack DEF PhiInv, phiVars
<1>4. Usable \subseteq Usable'
  BY <1>1, <1>3, UsableGrows DEF phiVars
<1> QED BY <1>1, <1>2, <1>4, PopPhis DEF DefsUsable

\* Under a fill the phi that is kept is no longer hidden; in a chain what optimizePhi
\* returns is ignored.
LEMMA OptKeepPhis ==
  ASSUME CallsOK, PhiInv, OptKeep, StepKeeps
  PROVE  PhiInv'
<1>1. /\ calls # <<>> /\ Top.op = "opt" /\ calls' = Front(calls)
      /\ ret' = Phi(Top.phi) /\ Top.phi \in DOMAIN phis
      /\ UNCHANGED <<phiVars, defs, vals, pc>>
  BY DEF OptKeep, Running, Return, StepKeeps, driverVars, irVars, phiVars
<1>2. /\ Hidden' \subseteq Hidden /\ (InFill => Top.phi \notin Hidden')
      /\ (InChain' <=> InChain /\ Len(calls) # 1)
  BY <1>1, PopStack DEF PhiInv, phiVars
<1>3. InFill => ret' \in Usable'
  <2> SUFFICES ASSUME InFill PROVE ret' \in Usable'
    OBVIOUS
  <2>1. Top.phi \in DOMAIN phis' \ Hidden'
    BY <1>1, <1>2 DEF phiVars
  <2> QED BY <1>1, <2>1, ValuesFacts DEF Usable
<1>4. ~ InFill => InChain /\ sealing # NoBlock
  BY <1>1, Phase DEF PhiInv
<1>5. calls' = <<>> <=> Len(calls) = 1
  BY <1>1, PopFacts
<1> QED BY <1>1, <1>2, <1>3, <1>4, <1>5, PopPhis DEF DefsUsable

\* Under a fill the value that replaced the phi is returned.
LEMMA ReoptDonePhis ==
  ASSUME CallsOK, PhiInv, ReoptDone, StepKeeps
  PROVE  PhiInv'
<1>1. /\ calls # <<>> /\ Top.op = "reopt" /\ calls' = Front(calls) /\ ret' = Top.same
      /\ UNCHANGED <<phiVars, defs, vals, pc>>
  BY DEF ReoptDone, Running, Return, StepKeeps, driverVars, irVars, phiVars
<1>2. Hidden' \subseteq Hidden /\ (InChain' <=> InChain /\ Len(calls) # 1)
  BY <1>1, PopStack DEF PhiInv, phiVars
<1>3. InFill => ret' \in Usable'
  <2> SUFFICES ASSUME InFill PROVE ret' \in Usable'
    OBVIOUS
  <2>1. ret' \in Usable
    BY <1>1, TopInOrder DEF PhiInv, FramesOK, FrameOK
  <2> QED BY <1>1, <1>2, <2>1, UsableGrows DEF phiVars
<1>4. ~ InFill => InChain /\ sealing # NoBlock
  BY <1>1, Phase DEF PhiInv
<1>5. calls' = <<>> <=> Len(calls) = 1
  BY <1>1, PopFacts
<1> QED BY <1>1, <1>2, <1>3, <1>4, <1>5, PopPhis DEF DefsUsable

\* A call under a fill makes a read, to be continued as a fill or a write.
LEMMA PushRead ==
  ASSUME CallsOK, PhiInv, calls # <<>>, InFill, NEW a, NEW b, calls' = Front(calls) \o <<a, b>>,
         b.op = "read", ret' = None,
         \/ a.op = "write" /\ Top.op = "read"
         \/ a = Top /\ a.op = "fill" /\ Filled(a.phi) < Len(preds[a.bb]),
         UNCHANGED <<phiVars, defs, vals, pc>>
  PROVE  PhiInv'
<1> DEFINE n == Len(calls)
<1>1. /\ n \in Nat \ {0} /\ DOMAIN calls = 1 .. n /\ Top = calls[n]
      /\ n \in DOMAIN calls /\ 1 \in DOMAIN calls
  BY StackFacts
<1>2. /\ Len(calls') = n + 1 /\ DOMAIN calls' = 1 .. n + 1
      /\ \A i \in 1 .. n - 1 : calls'[i] = calls[i]
      /\ calls'[n] = a /\ calls'[n + 1] = b /\ calls' # <<>>
      /\ ToSet(calls') \subseteq ToSet(calls) \cup {a, b}
  BY CallFacts
<1>3. n = 1 => Top.op = "fill"
  BY <1>1 DEF InFill
<1>4. ~ InChain /\ sealing # NoBlock
  BY Phase DEF PhiInv
<1> HIDE DEF n
<1>5. InFill' /\ ~ InChain'
  BY <1>1, <1>2, <1>3 DEF InFill, InChain
<1>6. StackOK'
  <2>1. \A i \in 1 .. n : calls'[i].op # "opt" /\ calls'[i].op # "reopt"
    BY SMTT(30), <1>1, <1>2, <1>4 DEF PhiInv, StackOK, n
  <2>2. calls'[1].op = "fill" /\ sealing' # NoBlock
    BY <1>4, <1>5 DEF InFill, phiVars
  <2> QED BY <1>1, <1>2, <1>5, <2>1, <2>2 DEF StackOK
<1>7. FillsOK'
  <2>1. ASSUME NEW i \in 1 .. n + 1
        PROVE  calls'[i].op = "fill" => Len(phis'[calls'[i].phi].ops) < Len(preds'[calls'[i].bb])
    <3>1. CASE i \in 1 .. n - 1
      <4>1. i \in DOMAIN calls /\ i < n /\ calls'[i] = calls[i]
        BY <1>1, <1>2, <3>1
      <4> QED BY <4>1 DEF PhiInv, FillsOK, n, Filled, phiVars
    <3>2. CASE i = n
      BY <1>2, <3>2 DEF Filled, phiVars
    <3> QED BY <1>1, <1>2, <3>1, <3>2
  <2>2. \A i \in DOMAIN calls' :
          calls'[i].op \in {"fill", "opt"} => i \in DOMAIN calls /\ calls'[i] = calls[i]
    BY <1>1, <1>2
  <2>3. \A i, j \in DOMAIN calls' :
          /\ i # j /\ calls'[i].op \in {"fill", "opt"} /\ calls'[j].op \in {"fill", "opt"}
          => calls'[i].phi # calls'[j].phi
    BY SMTT(30), <2>2 DEF PhiInv, FillsOK
  <2> QED BY <1>2, <2>1, <2>3 DEF FillsOK, Filled
<1>8. Hidden' \subseteq Hidden /\ Filling' = Filling
  <2>1. \A i \in DOMAIN calls' :
          calls'[i].op \in {"fill", "opt"} => i \in DOMAIN calls /\ calls'[i] = calls[i]
    BY <1>1, <1>2
  <2>2. \A i \in DOMAIN calls : calls[i].op = "fill" => i \in DOMAIN calls' /\ calls'[i] = calls[i]
    BY <1>1, <1>2
  <2> QED BY SMTT(30), <2>1, <2>2 DEF Hidden, Filling
<1>9. ret' \in Usable'
  BY ValuesFacts DEF Usable
<1>10. /\ EntriesOK' /\ PhisOK' /\ UsersOK' /\ ValuesOK'
       /\ Usable \subseteq Usable' /\ Pending' = Pending
  BY <1>8, <1>9, Quiet DEF DefsUsable
<1>11. FramesOK'
  <2>1. \A f \in ToSet(calls') : FrameOK(f)
    <3>1. Top \in ToSet(calls) /\ FrameOK(Top)
      BY TopInOrder DEF PhiInv, FramesOK
    <3>2. FrameOK(a) /\ FrameOK(b)
      BY <3>1 DEF FrameOK
    <3> QED BY <1>2, <3>2 DEF PhiInv, FramesOK
  <2>2. \A f \in ToSet(calls') : FrameOK(f)'
    BY <1>5, <1>10, <2>1, FrameKept
  <2> QED BY <2>2 DEF FramesOK
<1> QED BY <1>6, <1>7, <1>10, <1>11 DEF PhiInv

\* Reads that go beyond the current block are made under a fill.
LEMMA SealedReadInFill ==
  ASSUME IInv, CallsOK, OneRead, StackOK, calls # <<>>, Top.op = "read", Top.bb \in sealed
  PROVE  InFill
<1> SUFFICES ASSUME ~ InFill PROVE FALSE
  OBVIOUS
<1>1. Emitting
  BY Phase
<1>2. PICK v : calls = <<ReadCall(curr, v)>>
  BY <1>1 DEF OneRead
<1>3. Top.bb = curr
  BY <1>2, SingleCall DEF ReadCall
<1> QED BY <1>1, <1>3, CurrentBlock DEF IInv, SealDiscipline, UpcomingOpen

\* A read that goes on to the only predecessor touches no phi.
LEMMA ReadSinglePredecessorPhis ==
  ASSUME IInv, CallsOK, OneRead, PhiInv, ReadSinglePredecessor, StepKeeps
  PROVE  PhiInv'
<1>1. /\ calls # <<>> /\ Top.op = "read" /\ Top.bb \in sealed /\ ret' = None
      /\ calls' = Front(calls) \o <<WriteBack(Top.bb, Top.var),
                                    ReadCall(preds[Top.bb][1], Top.var)>>
      /\ UNCHANGED <<phiVars, defs, vals, pc>>
  BY DEF ReadSinglePredecessor, ReadMiss, Running, Become, StepKeeps, driverVars, irVars, phiVars
<1>2. InFill
  BY <1>1, SealedReadInFill DEF PhiInv
<1>3. WriteBack(Top.bb, Top.var).op = "write" /\ ReadCall(preds[Top.bb][1], Top.var).op = "read"
  BY DEF WriteBack, ReadCall
<1> QED BY <1>1, <1>2, <1>3, PushRead

\* What is known of the phi that addPhiOperands is filling.
LEMMA TopFill ==
  ASSUME IInv, CallsOK, PhiInv, calls # <<>>, Top.op = "fill"
  PROVE  /\ InFill /\ Top.bb \in Blocks /\ FrameOK(Top)
         /\ preds[Top.bb] \in Seq(Nat) /\ Len(preds[Top.bb]) \in Nat
         /\ phis[Top.phi].ops \in Seq(Usable) /\ Filled(Top.phi) \in Nat
<1>1. InFill
  BY Phase DEF PhiInv
<1>2. Top.bb \in Blocks /\ FrameOK(Top)
  BY TopInOrder DEF PhiInv, FramesOK
<1>3. preds[Top.bb] \in Seq(Nat) /\ Len(preds[Top.bb]) \in Nat
  BY <1>2 DEF IInv, BlocksOK, Blocks
<1>4. Top.phi \in DOMAIN phis
  BY <1>2 DEF FrameOK
<1>5. phis[Top.phi].ops \in Seq(Usable)
  BY <1>4 DEF PhiInv, PhisOK
<1>6. Filled(Top.phi) \in Nat
  <2> DEFINE U == Usable
  <2>1. phis[Top.phi].ops \in Seq(U)
    BY <1>5
  <2> HIDE DEF U
  <2> QED BY <2>1 DEF Filled
<1> QED BY <1>1, <1>2, <1>3, <1>5, <1>6

\* addPhiOperands asks a predecessor for the next operand, and has room for it.
LEMMA FillReadPhis ==
  ASSUME IInv, CallsOK, PhiInv, FillRead, StepKeeps
  PROVE  PhiInv'
<1>1. /\ calls # <<>> /\ Top.op = "fill" /\ ret' = None
      /\ UNCHANGED <<phiVars, defs, vals, pc>>
  BY DEF FillRead, Running, Become, StepKeeps, driverVars, irVars, phiVars
<1>2. PICK i \in DOMAIN preds[Top.bb] :
        /\ i = Filled(Top.phi) + 1
        /\ calls' = Front(calls) \o <<Top, ReadCall(preds[Top.bb][i], Top.var)>>
  BY DEF FillRead, Become
<1>3. InFill
  BY <1>1, Phase DEF PhiInv
<1>4. Filled(Top.phi) < Len(preds[Top.bb])
  <2>1. DOMAIN preds[Top.bb] = 1 .. Len(preds[Top.bb]) /\ Filled(Top.phi) \in Nat
    BY <1>1, TopFill
  <2> QED BY <1>2, <2>1
<1>5. ReadCall(preds[Top.bb][i], Top.var).op = "read"
  BY DEF ReadCall
<1> QED BY <1>1, <1>2, <1>3, <1>4, <1>5, PushRead

\* addPhiOperands is done: the phi has an operand per predecessor.
LEMMA FillDonePhis ==
  ASSUME IInv, CallsOK, PhiInv, FillDone, StepKeeps
  PROVE  PhiInv'
<1> DEFINE n == Len(calls)
           p == Top.phi
           a == OptCall(p)
<1>1. /\ calls # <<>> /\ Top.op = "fill" /\ ret' = None /\ calls' = Front(calls) \o <<a>>
      /\ UNCHANGED <<phiVars, defs, vals, pc>>
      /\ Filled(p) >= Len(preds[Top.bb])
  BY DEF FillDone, Running, Become, StepKeeps, driverVars, irVars, phiVars
<1>2. /\ InFill /\ FrameOK(Top) /\ Filled(p) \in Nat /\ Len(preds[Top.bb]) \in Nat
  BY <1>1, TopFill
<1>3. p \in DOMAIN phis \ Pending /\ Whole(p)
  BY <1>1, <1>2 DEF FrameOK, Whole
<1>4. /\ n \in Nat \ {0} /\ DOMAIN calls = 1 .. n /\ Top = calls[n]
      /\ n \in DOMAIN calls /\ 1 \in DOMAIN calls
  BY <1>1, StackFacts
<1>5. a.op = "opt" /\ a.phi = p
  BY DEF OptCall
<1> HIDE DEF a
<1>6. /\ Len(calls') = n /\ DOMAIN calls' = 1 .. n
      /\ \A i \in 1 .. n - 1 : calls'[i] = calls[i]
      /\ calls'[n] = a /\ calls' # <<>>
      /\ ToSet(calls') \subseteq ToSet(calls) \cup {a}
  BY <1>1, ReplaceFacts
<1>7. ~ InChain /\ sealing # NoBlock
  BY <1>1, <1>2, Phase DEF PhiInv
<1>8. (InFill' <=> n # 1) /\ (InChain' <=> n = 1)
  BY <1>2, <1>4, <1>5, <1>6 DEF InFill, InChain
<1> HIDE DEF n, p
<1>9. StackOK'
  <2>1. \A i \in 1 .. n - 1 : calls'[i].op # "opt" /\ calls'[i].op # "reopt"
    BY <1>4, <1>6, <1>7 DEF PhiInv, StackOK, n
  <2>2. calls'[1].op \in {"fill", "opt"} /\ sealing' # NoBlock
    BY <1>1, <1>2, <1>4, <1>5, <1>6, <1>7 DEF InFill, phiVars
  <2>3. InChain' => calls'[1].op = "opt" /\ DOMAIN calls' = {1}
    BY <1>4, <1>5, <1>6, <1>8
  <2> QED BY <1>6, <2>1, <2>2, <2>3 DEF StackOK
<1>10. \A i \in DOMAIN calls' :
         /\ i \in DOMAIN calls /\ (calls'[i].op = "fill" => i < n /\ calls'[i] = calls[i])
         /\ calls'[i].op \in {"fill", "opt"}
              => calls[i].op \in {"fill", "opt"} /\ calls'[i].phi = calls[i].phi
  BY <1>1, <1>4, <1>5, <1>6 DEF p
<1>11. FillsOK'
  <2>1. \A i \in DOMAIN calls' :
          calls'[i].op = "fill" => Len(phis'[calls'[i].phi].ops) < Len(preds'[calls'[i].bb])
    BY <1>1, <1>10 DEF PhiInv, FillsOK, n, Filled, phiVars
  <2>2. \A i, j \in DOMAIN calls' :
          /\ i # j /\ calls'[i].op \in {"fill", "opt"} /\ calls'[j].op \in {"fill", "opt"}
          => calls'[i].phi # calls'[j].phi
    BY <1>2, <1>10 DEF PhiInv, FillsOK
  <2> QED BY <2>1, <2>2 DEF FillsOK, Filled
<1>12. Hidden' \subseteq Hidden
  BY <1>2, <1>10 DEF Hidden
<1>13. \A q \in Filling \ Filling' : Whole(q)
  <2>1. \A i \in DOMAIN calls : i # n => i \in DOMAIN calls' /\ calls'[i] = calls[i]
    BY <1>4, <1>6
  <2>2. \A q \in Filling \ Filling' : q = p
    BY <1>4, <2>1 DEF Filling, p
  <2> QED BY <1>3, <2>2
<1>14. /\ EntriesOK' /\ PhisOK' /\ UsersOK' /\ ValuesOK'
       /\ Usable \subseteq Usable' /\ Pending' = Pending
  <2>1. ret' \in Usable'
    BY <1>1, ValuesFacts DEF Usable
  <2> QED BY <1>1, <1>12, <1>13, <2>1, Quiet DEF DefsUsable
<1>15. FramesOK'
  <2>1. FrameOK(a)
    BY <1>3, <1>5 DEF FrameOK, Optimizable, IInv, BlocksOK
  <2>2. \A f \in ToSet(calls') : FrameOK(f)
    BY <1>6, <2>1 DEF PhiInv, FramesOK
  <2>3. \A f \in ToSet(calls') : FrameOK(f)'
    BY <1>1, <1>2, <1>14, <2>2, FrameKept
  <2> QED BY <2>3 DEF FramesOK
<1> QED BY <1>9, <1>11, <1>14, <1>15 DEF PhiInv

\* The first and the other elements of the list CandidatePhis.
LEMMA HeadAndTail ==
  ASSUME NEW s \in Seq(Nat), s # <<>>
  PROVE  /\ Tail(s) \in Seq(Nat) /\ ToSet(Tail(s)) \subseteq ToSet(s)
         /\ Head(s) \in ToSet(s)
<1>1. /\ Tail(s) \in Seq(Nat) /\ Len(Tail(s)) = Len(s) - 1 /\ Head(s) = s[1]
      /\ \A i \in 1 .. Len(s) - 1 : Tail(s)[i] = s[i + 1]
      /\ Len(s) \in Nat \ {0} /\ DOMAIN s = 1 .. Len(s)
      /\ DOMAIN Tail(s) = 1 .. Len(s) - 1
  OBVIOUS
<1>2. \A i \in 1 .. Len(s) - 1 : i + 1 \in DOMAIN s
  BY <1>1
<1> QED BY <1>1, <1>2 DEF ToSet

\* optimizePhi calls itself only in a chain: a hidden phi has no user.
LEMMA ReoptNextPhis ==
  ASSUME IInv, CallsOK, PhiInv, ReoptNext, StepKeeps
  PROVE  PhiInv'
<1> DEFINE n == Len(calls)
           a == ReoptLoop(Top.same, Tail(Top.todo))
           b == OptCall(Head(Top.todo))
<1>1. /\ calls # <<>> /\ Top.op = "reopt" /\ Top.todo # <<>> /\ ret' = None
      /\ calls' = Front(calls) \o <<a, b>>
      /\ UNCHANGED <<phiVars, defs, vals, pc>>
  BY DEF ReoptNext, Running, Become, StepKeeps, driverVars, irVars, phiVars
<1>2. FrameOK(Top)
  BY <1>1, TopInOrder DEF PhiInv, FramesOK
<1>3. InChain /\ ~ InFill /\ sealing # NoBlock
  BY <1>1, <1>2, Phase DEF PhiInv, FrameOK
<1>4. /\ n \in Nat \ {0} /\ DOMAIN calls = 1 .. n /\ Top = calls[n]
      /\ n \in DOMAIN calls /\ 1 \in DOMAIN calls
  BY <1>1, StackFacts
<1>5. /\ a.op = "reopt" /\ a.todo = Tail(Top.todo) /\ b.op = "opt" /\ b.phi = Head(Top.todo)
  BY DEF ReoptLoop, OptCall
<1> HIDE DEF a, b
<1>6. /\ Len(calls') = n + 1 /\ DOMAIN calls' = 1 .. n + 1
      /\ \A i \in 1 .. n - 1 : calls'[i] = calls[i]
      /\ calls'[n] = a /\ calls'[n + 1] = b /\ calls' # <<>>
      /\ ToSet(calls') \subseteq ToSet(calls) \cup {a, b}
  BY <1>1, CallFacts
<1> HIDE DEF n
<1>7. InChain' /\ ~ InFill'
  BY <1>3, <1>4, <1>5, <1>6 DEF InFill, InChain
<1>8. \A i \in DOMAIN calls' : calls'[i].op \in {"opt", "reopt"}
  BY <1>3, <1>4, <1>5, <1>6 DEF PhiInv, StackOK
<1>9. StackOK'
  <2>1. \A i \in 1 .. n : calls'[i].op # "opt"
    BY <1>4, <1>5, <1>6 DEF PhiInv, StackOK, n
  <2>2. sealing' # NoBlock
    BY <1>1, <1>3 DEF phiVars
  <2> QED BY <1>4, <1>6, <1>7, <1>8, <2>1, <2>2 DEF StackOK, InChain
<1>10. FillsOK'
  BY <1>7, <1>8 DEF FillsOK
<1>11. Hidden' \subseteq Hidden
  BY <1>7 DEF Hidden
<1>12. Filling = {}
  BY <1>3 DEF Filling, PhiInv, StackOK
<1>13. /\ EntriesOK' /\ PhisOK' /\ UsersOK' /\ ValuesOK'
       /\ Usable \subseteq Usable' /\ Pending' = Pending
  BY <1>1, <1>7, <1>11, <1>12, Quiet DEF DefsUsable
<1>14. FramesOK'
  <2>1. FrameOK(a) /\ FrameOK(b)
    <3>1. Top.todo \in Seq(Nat) /\ \A u \in ToSet(Top.todo) : Optimizable(u)
      BY <1>1, <1>2 DEF FrameOK
    <3>2. /\ Tail(Top.todo) \in Seq(Nat) /\ ToSet(Tail(Top.todo)) \subseteq ToSet(Top.todo)
          /\ Head(Top.todo) \in ToSet(Top.todo)
      BY <1>1, <3>1, HeadAndTail
    <3> QED BY <1>3, <1>5, <3>1, <3>2 DEF FrameOK
  <2>2. \A f \in ToSet(calls') : FrameOK(f)
    BY <1>6, <2>1 DEF PhiInv, FramesOK
  <2>3. \A f \in ToSet(calls') : FrameOK(f)'
    BY <1>1, <1>7, <1>13, <2>2, FrameKept
  <2> QED BY <2>3 DEF FramesOK
<1> QED BY <1>9, <1>10, <1>13, <1>14 DEF PhiInv

\* Nothing moves: an assertion fails, or a call of optimizePhi meets an erased phi.
LEMMA UnmovedPhis ==
  ASSUME PhiInv, UNCHANGED <<phiVars, defs, vals, pc, calls, ret>>
  PROVE  PhiInv'
<1>1. Hidden' = Hidden /\ Filling' = Filling /\ (InFill' <=> InFill) /\ (InChain' <=> InChain)
  BY DEF Hidden, Filling, InFill, InChain
<1>2. ~ InChain /\ (calls = <<>> => sealing = NoBlock) => ret' \in Usable'
  BY <1>1, UsableGrows DEF PhiInv, ValuesOK, phiVars
<1>3. /\ EntriesOK' /\ PhisOK' /\ UsersOK' /\ ValuesOK'
      /\ Usable \subseteq Usable' /\ Pending' = Pending
  BY <1>1, <1>2, Quiet DEF DefsUsable
<1>4. FramesOK'
  <2>1. \A f \in ToSet(calls') : FrameOK(f)'
    BY <1>1, <1>3, FrameKept DEF PhiInv, FramesOK
  <2> QED BY <2>1 DEF FramesOK
<1>5. StackOK' /\ FillsOK'
  BY <1>1 DEF PhiInv, StackOK, FillsOK, Emitting, Filled, phiVars
<1> QED BY <1>3, <1>4, <1>5 DEF PhiInv

\* A step that writes a usable value to Defs.
LEMMA WriteUsable ==
  ASSUME IInv, PhiInv, NEW b, NEW v, NEW val, WriteLocalVariable(b, v, val), val \in Usable
  PROVE  DefsUsable
<1>1. DOMAIN defs = Blocks
  BY DEF IInv, BlocksOK
<1>2. ASSUME NEW c \in Blocks, NEW w \in DOMAIN defs'[c]
      PROVE  defs'[c][w] \in Usable
  <2>1. CASE c # b
    <3>1. defs'[c] = defs[c]
      BY <1>1, <2>1 DEF WriteLocalVariable
    <3> QED BY <1>2, <3>1 DEF PhiInv, ValuesOK
  <2>2. CASE c = b
    <3>1. defs'[c] = [y \in DOMAIN defs[c] \cup {v} |-> IF y = v THEN val ELSE defs[c][y]]
      BY <1>1, <2>2 DEF WriteLocalVariable, Bind
    <3>2. defs'[c][w] = IF w = v THEN val ELSE defs[c][w]
      BY <1>2, <3>1
    <3>3. w # v => w \in DOMAIN defs[c]
      BY <1>2, <3>1
    <3> QED BY <3>2, <3>3 DEF PhiInv, ValuesOK
  <2> QED BY <2>1, <2>2
<1> QED BY <1>2 DEF DefsUsable

\* What was read is written: a definition changes from null to a value that may be
\* used, and nothing else.
LEMMA WriteAndReturnPhis ==
  ASSUME IInv, CallsOK, PhiInv, WriteAndReturn, StepKeeps
  PROVE  PhiInv'
<1>1. calls # <<>> /\ Top.op = "write" /\ UNCHANGED <<phiVars, vals, pc>>
  BY DEF WriteAndReturn, Running, Die, StepKeeps, driverVars, irVars, phiVars
<1>2. CASE Die("abort")
  BY <1>1, <1>2, UnmovedPhis DEF Die
<1>3. CASE ~ Die("abort")
  <2>1. /\ calls' = Front(calls) /\ ret' = ret
        /\ WriteLocalVariable(Top.bb, Top.var, ret)
    BY <1>3 DEF WriteAndReturn, Return
  <2>2. ret \in Usable
    BY <1>1, Phase DEF PhiInv, ValuesOK
  <2>3. DefsUsable
    BY <2>1, <2>2, WriteUsable
  <2>4. Hidden' \subseteq Hidden
    BY <1>1, <2>1, PopStack DEF PhiInv, phiVars
  <2>5. ret' \in Usable'
    BY <1>1, <2>1, <2>2, <2>4, UsableGrows DEF phiVars
  <2> QED BY <1>1, <2>1, <2>3, <2>5, PopPhis
<1> QED BY <1>2, <1>3

-----------------------------------------------------------------------------
(* Steps that create a phi.                                                 *)

\* addEmptyPhi: the number is new, the others are left alone.
LEMMA NewPhi ==
  ASSUME IInv, NEW b \in Blocks, AddEmptyPhi(b)
  PROVE  /\ fresh \in Nat /\ fresh' = fresh + 1 /\ fresh \notin DOMAIN phis
         /\ DOMAIN phis' = DOMAIN phis \cup {fresh} /\ DOMAIN users = DOMAIN phis
         /\ phis'[fresh] = [bb |-> b, ops |-> <<>>] /\ users'[fresh] = <<>>
         /\ \A p \in DOMAIN phis : phis'[p] = phis[p] /\ users'[p] = users[p]
         /\ phis' = [p \in DOMAIN phis' |-> phis'[p]]
         /\ users' = [p \in DOMAIN phis' |-> users'[p]]
<1>1. fresh \in Nat /\ fresh \notin DOMAIN phis /\ DOMAIN users = DOMAIN phis
  BY DEF IInv, BlocksOK
<1>2. /\ phis' = [y \in DOMAIN phis \cup {fresh} |->
                    IF y = fresh THEN [bb |-> b, ops |-> <<>>] ELSE phis[y]]
      /\ users' = [y \in DOMAIN users \cup {fresh} |-> IF y = fresh THEN <<>> ELSE users[y]]
      /\ fresh' = fresh + 1
  BY DEF AddEmptyPhi, Bind
<1> QED BY <1>1, <1>2

\* The hidden phis are in the function.
LEMMA HiddenAlive ==
  ASSUME CallsOK, PhiInv
  PROVE  Hidden \subseteq DOMAIN phis
<1> SUFFICES ASSUME NEW i \in DOMAIN calls, InFill, calls[i].op \in {"fill", "opt"}
             PROVE  calls[i].phi \in DOMAIN phis
  BY DEF Hidden
<1>1. FrameOK(calls[i])
  BY DEF PhiInv, FramesOK, ToSet
<1> QED BY <1>1 DEF FrameOK

\* What stays in order when a phi is created, to wait or to be filled.
LEMMA PhiAdded ==
  ASSUME IInv, CallsOK, PhiInv, NEW b \in Blocks, AddEmptyPhi(b),
         UNCHANGED <<preds, sealed, sealing, visited>>,
         Pending \subseteq Pending', Pending' \subseteq Pending \cup {fresh},
         Filling \subseteq Filling', fresh \in Pending' \cup Filling',
         Hidden' \subseteq Hidden \cup {fresh}, InFill' => InFill
  PROVE  /\ PhisOK' /\ UsersOK' /\ Usable \subseteq Usable'
         /\ \A f : FrameOK(f) => FrameOK(f)'
<1>1. /\ fresh \in Nat /\ fresh' = fresh + 1 /\ fresh \notin DOMAIN phis
      /\ DOMAIN phis' = DOMAIN phis \cup {fresh} /\ DOMAIN users = DOMAIN phis
      /\ phis'[fresh] = [bb |-> b, ops |-> <<>>] /\ users'[fresh] = <<>>
      /\ \A p \in DOMAIN phis : phis'[p] = phis[p] /\ users'[p] = users[p]
      /\ phis' = [p \in DOMAIN phis' |-> phis'[p]]
      /\ users' = [p \in DOMAIN phis' |-> users'[p]]
  BY NewPhi
<1>2. Blocks' = Blocks
  BY DEF Blocks
<1>3. Usable \subseteq Usable'
  <2>1. DOMAIN phis \ Hidden \subseteq DOMAIN phis' \ Hidden'
    BY <1>1
  <2> QED BY <2>1, ValuesFacts DEF Usable
<1>4. PhisOK'
  <2>1. phis' \in [DOMAIN phis' -> [bb : Blocks, ops : Seq(Usable')]]
    <3> DEFINE U == Usable
               V == Usable'
    <3>1. U \subseteq V /\ phis \in [DOMAIN phis -> [bb : Blocks, ops : Seq(U)]]
      BY <1>3 DEF PhiInv, PhisOK
    <3> HIDE DEF U, V
    <3>2. \A p \in DOMAIN phis : phis[p] \in [bb : Blocks, ops : Seq(V)]
      BY <3>1
    <3>3. [bb |-> b, ops |-> <<>>] \in [bb : Blocks, ops : Seq(V)]
      OBVIOUS
    <3>4. \A p \in DOMAIN phis' : phis'[p] \in [bb : Blocks, ops : Seq(V)]
      BY <1>1, <3>2, <3>3
    <3>5. phis' \in [DOMAIN phis' -> [bb : Blocks, ops : Seq(V)]]
      BY <1>1, <3>4
    <3> QED BY <3>5 DEF V
  <2>2. ASSUME NEW p \in DOMAIN phis'
        PROVE  p \in Pending' \/ p \in Filling' \/ Whole(p)'
    <3>1. CASE p = fresh
      BY <3>1
    <3>2. CASE p # fresh
      <4>1. p \in DOMAIN phis /\ phis'[p] = phis[p]
        BY <1>1, <3>2
      <4> QED BY <4>1 DEF PhiInv, PhisOK, Whole, Filled
    <3> QED BY <3>1, <3>2
  <2> QED BY <1>2, <2>1, <2>2 DEF PhisOK
<1>5. \A u : Optimizable(u) => Optimizable(u)'
  BY <1>1 DEF Optimizable
<1>6. UsersOK'
  <2>1. users \in [DOMAIN phis -> Seq(Nat)]
    BY DEF PhiInv, UsersOK
  <2>2. ASSUME NEW p \in DOMAIN phis'
        PROVE  users'[p] \in Seq(Nat)
    <3>1. CASE p = fresh
      BY <1>1, <3>1
    <3>2. CASE p # fresh
      BY <1>1, <2>1, <3>2
    <3> QED BY <3>1, <3>2
  <2>3. users' \in [DOMAIN phis' -> Seq(Nat)]
    BY <1>1, <2>2
  <2>4. \A p \in DOMAIN phis' : \A u \in ToSet(users'[p]) : Optimizable(u)'
    BY <1>1, <1>5 DEF PhiInv, UsersOK, ToSet
  <2>5. \A p \in Hidden' : users'[p] = <<>>
    BY <1>1, HiddenAlive DEF PhiInv, UsersOK
  <2> QED BY <2>3, <2>4, <2>5 DEF UsersOK
<1>7. ASSUME NEW f, FrameOK(f)
      PROVE  FrameOK(f)'
  <2>1. f.op = "fill" => /\ f.phi \in DOMAIN phis' \ Pending'
                         /\ phis'[f.phi].bb = f.bb /\ f.bb \in sealed' \cup {sealing'}
                         /\ Filled(f.phi)' <= Len(preds'[f.bb])
    BY <1>1, <1>7 DEF FrameOK, Filled
  <2>2. f.op = "opt" => Optimizable(f.phi)' /\ (InFill' => f.phi \in DOMAIN phis')
    BY <1>1, <1>5, <1>7 DEF FrameOK
  <2>3. f.op = "reopt" => /\ f.todo \in Seq(Nat)
                          /\ \A u \in ToSet(f.todo) : Optimizable(u)'
                          /\ InFill' => f.todo = <<>> /\ f.same \in Usable'
    BY <1>3, <1>5, <1>7 DEF FrameOK
  <2> QED BY <2>1, <2>2, <2>3 DEF FrameOK
<1> QED BY <1>3, <1>4, <1>6, <1>7

\* vals keeps its usable values.
LEMMA ValsKept ==
  ASSUME PhiInv, UNCHANGED vals, Usable \subseteq Usable'
  PROVE  vals' \in Seq(Usable')
<1> DEFINE U == Usable
           V == Usable'
<1>1. U \subseteq V /\ vals' \in Seq(U)
  BY DEF PhiInv, ValuesOK
<1> HIDE DEF U, V
<1>2. vals' \in Seq(V)
  BY <1>1
<1> QED BY <1>2 DEF V

\* A new phi is written to Defs, and waits.
LEMMA ReadUnsealedPhis ==
  ASSUME IInv, CallsOK, Covered, PhiInv, ReadUnsealed, StepKeeps
  PROVE  PhiInv'
<1> DEFINE new == [phi |-> fresh, var |-> Top.var]
<1>0. PICK b : b = Top.bb
  OBVIOUS
<1>1. /\ calls # <<>> /\ Top.op = "read" /\ calls' = Front(calls) /\ b \notin sealed
      /\ Top.var \notin DOMAIN defs[b]
      /\ AddEmptyPhi(b) /\ WriteLocalVariable(b, Top.var, Phi(fresh)) /\ ret' = Phi(fresh)
      /\ incomplete' = [incomplete EXCEPT ![b] = @ \cup {new}]
      /\ UNCHANGED <<preds, sealed, sealing, visited, vals, pc>>
  BY <1>0 DEF ReadUnsealed, ReadMiss, Running, Return, StepKeeps, driverVars
<1>2. b \in Blocks /\ DOMAIN incomplete = Blocks /\ DOMAIN defs = Blocks /\ Blocks' = Blocks
  BY <1>0, <1>1, TopInOrder DEF IInv, BlocksOK, Blocks
<1>3. b # sealing
  <2> SUFFICES ASSUME b = sealing, sealing # NoBlock PROVE FALSE
    BY <1>2 DEF NoBlock, Blocks, IInv, BlocksOK
  <2> DEFINE V == DOMAIN defs[sealing]
  <2>1. CallsIn(V)
    BY DEF Covered
  <2> HIDE DEF V
  <2>2. CallIn(Top, V)
    BY <1>1, <2>1, ReturnOK
  <2> QED BY <1>0, <1>1, <2>2 DEF CallIn, V
<1>4. /\ fresh \in Nat /\ fresh' = fresh + 1 /\ fresh \notin DOMAIN phis
      /\ DOMAIN phis' = DOMAIN phis \cup {fresh}
      /\ phis'[fresh] = [bb |-> b, ops |-> <<>>]
      /\ \A p \in DOMAIN phis : phis'[p] = phis[p]
  BY <1>1, <1>2, NewPhi
<1>5. Waiting(b)' = Waiting(b) \cup {new} /\ incomplete'[b] = incomplete[b] \cup {new}
  BY <1>1, <1>2, <1>3 DEF Waiting
<1>6. \A c \in Blocks : c # b => Waiting(c)' = Waiting(c) /\ incomplete'[c] = incomplete[c]
  BY <1>1, <1>2 DEF Waiting
<1>7. \A c \in Blocks : Waiting(c) \subseteq incomplete[c]
  BY DEF Waiting
<1>8. \A c \in Blocks : \A e \in incomplete[c] : e.phi # fresh
  BY <1>4 DEF PhiInv, EntriesOK
<1>9. Pending' = Pending \cup {fresh}
  <2>1. \A c \in Blocks : \A e \in Waiting(c)' : e \in Waiting(c) \/ e = new
    BY <1>5, <1>6
  <2>2. \A c \in Blocks : Waiting(c) \subseteq Waiting(c)' /\ new \in Waiting(b)'
    BY <1>5, <1>6
  <2>3. \A c \in Blocks : \A e \in Waiting(c) : e.phi \in DOMAIN phis
    BY DEF PhiInv, EntriesOK
  <2>4. ASSUME NEW p \in Pending'
        PROVE  p \in Pending \/ p = fresh
    <3>1. PICK c \in Blocks : \E e \in Waiting(c)' : e.phi = p
      BY <1>2 DEF Pending
    <3>2. PICK e \in Waiting(c)' : e.phi = p
      BY <3>1
    <3>3. CASE e = new
      BY <3>2, <3>3
    <3>4. CASE e \in Waiting(c)
      BY <2>3, <3>2, <3>4 DEF Pending
    <3> QED BY <2>1, <3>3, <3>4
  <2>5. Pending \subseteq Pending'
    BY <1>2, <1>4, <2>2 DEF Pending
  <2>6. fresh \in Pending'
    BY <1>2, <1>4, <2>2 DEF Pending
  <2> QED BY <2>4, <2>5, <2>6
<1>10. EntriesOK'
  <2>1. \A c \in Blocks : \A e \in incomplete'[c] : e.phi < fresh + 1
    BY <1>4, <1>5, <1>6 DEF PhiInv, EntriesOK, CallsOK
  <2>2. ASSUME NEW c \in Blocks, NEW e \in Waiting(c)'
        PROVE  e.phi \in DOMAIN phis' /\ phis'[e.phi] = [bb |-> c, ops |-> <<>>]
    <3>1. CASE e \in Waiting(c)
      BY <1>4, <3>1 DEF PhiInv, EntriesOK
    <3>2. CASE e = new /\ c = b
      BY <1>4, <3>2
    <3> QED BY <1>5, <1>6, <3>1, <3>2
  <2>3. ASSUME NEW c \in Blocks, NEW d \in Blocks, NEW e \in incomplete'[c],
               NEW f \in incomplete'[d], e.phi = f.phi
        PROVE  c = d /\ e = f
    <3>1. CASE e = new /\ c = b
      <4>1. f.phi = fresh
        BY <2>3, <3>1
      <4>2. f = new /\ d = b
        BY <1>5, <1>6, <1>8, <4>1
      <4> QED BY <3>1, <4>2
    <3>2. CASE e \in incomplete[c]
      <4>1. f.phi # fresh
        BY <1>8, <2>3, <3>2
      <4>2. f \in incomplete[d]
        BY <1>5, <1>6, <4>1
      <4> QED BY <2>3, <3>2, <4>2 DEF PhiInv, EntriesOK
    <3> QED BY <1>5, <1>6, <3>1, <3>2
  <2> QED BY <1>2, <1>4, <2>1, <2>2, <2>3 DEF EntriesOK
<1>11. /\ StackOK' /\ FillsOK' /\ Hidden' = Hidden /\ Filling' = Filling
       /\ (InFill' => InFill)
  <2>1. ASSUME NEW i \in DOMAIN calls, calls[i].op = "fill"
        PROVE  Len(phis'[calls[i].phi].ops) = Len(phis[calls[i].phi].ops)
    <3>1. FrameOK(calls[i])
      BY DEF PhiInv, FramesOK, ToSet
    <3> QED BY <1>4, <2>1, <3>1 DEF FrameOK
  <2> QED BY <1>1, <2>1, PopStack DEF PhiInv
<1>12. /\ PhisOK' /\ UsersOK' /\ Usable \subseteq Usable'
       /\ \A f : FrameOK(f) => FrameOK(f)'
  BY <1>1, <1>2, <1>9, <1>11, PhiAdded
<1>13. FramesOK'
  <2>1. ToSet(calls') \subseteq ToSet(calls)
    BY <1>1, PopFacts
  <2> QED BY <1>12, <2>1 DEF PhiInv, FramesOK
<1>14. ValuesOK'
  <2>1. Phi(fresh) \in Usable'
    <3>1. fresh \in DOMAIN phis' \ Hidden'
      BY <1>4, <1>11, HiddenAlive
    <3> QED BY <3>1, ValuesFacts DEF Usable
  <2>2. ASSUME NEW c \in Blocks, NEW w \in DOMAIN defs'[c]
        PROVE  defs'[c][w] \in Usable'
    <3>1. CASE c # b
      <4>1. defs'[c] = defs[c]
        BY <1>1, <1>2, <3>1 DEF WriteLocalVariable
      <4> QED BY <1>12, <2>2, <4>1 DEF PhiInv, ValuesOK
    <3>2. CASE c = b
      <4>1. defs'[c] = [y \in DOMAIN defs[c] \cup {Top.var} |->
                          IF y = Top.var THEN Phi(fresh) ELSE defs[c][y]]
        BY <1>1, <1>2, <3>2 DEF WriteLocalVariable, Bind
      <4>2. /\ defs'[c][w] = IF w = Top.var THEN Phi(fresh) ELSE defs[c][w]
            /\ w # Top.var => w \in DOMAIN defs[c]
        BY <2>2, <4>1
      <4> QED BY <1>12, <2>1, <4>2 DEF PhiInv, ValuesOK
    <3> QED BY <3>1, <3>2
  <2>3. vals' \in Seq(Usable')
    BY <1>1, <1>12, ValsKept
  <2>4. pc' # "operands" => vals' = <<>>
    BY <1>1 DEF PhiInv, ValuesOK
  <2> QED BY <1>1, <1>2, <2>1, <2>2, <2>3, <2>4 DEF ValuesOK
<1> QED BY <1>10, <1>11, <1>12, <1>13, <1>14 DEF PhiInv

\* A new phi is filled at once; a null is written to Defs, so the phi is hidden.
LEMMA ReadJoinPhis ==
  ASSUME IInv, CallsOK, OneRead, PhiInv, ReadJoin, StepKeeps
  PROVE  PhiInv'
<1>1. /\ calls # <<>> /\ Top.op = "read" /\ Top.bb \in sealed
      /\ UNCHANGED <<preds, sealed, sealing, visited, vals, pc>>
  BY DEF ReadJoin, ReadMiss, Running, Die, StepKeeps, driverVars, irVars
<1>2. CASE Die("abort")
  <2>1. UNCHANGED <<phiVars, defs, vals, pc, calls, ret>>
    BY <1>1, <1>2 DEF Die, irVars, phiVars
  <2> QED BY <2>1, UnmovedPhis
<1>3. CASE ~ Die("abort")
  <2> DEFINE n == Len(calls)
             a == WriteBack(Top.bb, Top.var)
             b == FillCall(Top.bb, Top.var, fresh)
  <2>1. /\ AddEmptyPhi(Top.bb) /\ WriteLocalVariable(Top.bb, Top.var, Null) /\ ret' = None
        /\ calls' = Front(calls) \o <<a, b>> /\ UNCHANGED incomplete
    BY <1>3 DEF ReadJoin, Become
  <2>2. Top.bb \in Blocks
    BY <1>1, TopInOrder
  <2>3. /\ fresh \in Nat /\ fresh' = fresh + 1 /\ fresh \notin DOMAIN phis
        /\ DOMAIN phis' = DOMAIN phis \cup {fresh}
        /\ phis'[fresh] = [bb |-> Top.bb, ops |-> <<>>]
        /\ \A p \in DOMAIN phis : phis'[p] = phis[p]
    BY <2>1, <2>2, NewPhi
  <2>4. /\ n \in Nat \ {0} /\ DOMAIN calls = 1 .. n /\ Top = calls[n]
        /\ n \in DOMAIN calls /\ 1 \in DOMAIN calls
    BY <1>1, StackFacts
  <2>5. InFill /\ ~ InChain /\ sealing # NoBlock /\ n # 1
    BY <1>1, SealedReadInFill, Phase DEF PhiInv
  <2>6. /\ a.op = "write" /\ b.op = "fill" /\ b.phi = fresh /\ b.bb = Top.bb
    BY DEF WriteBack, FillCall
  <2> HIDE DEF a, b
  <2>7. /\ Len(calls') = n + 1 /\ DOMAIN calls' = 1 .. n + 1
        /\ \A i \in 1 .. n - 1 : calls'[i] = calls[i]
        /\ calls'[n] = a /\ calls'[n + 1] = b /\ calls' # <<>>
        /\ ToSet(calls') \subseteq ToSet(calls) \cup {a, b}
    BY <1>1, <2>1, CallFacts
  <2> HIDE DEF n
  <2>8. InFill' /\ ~ InChain'
    BY <2>4, <2>5, <2>7 DEF InFill, InChain
  <2>9. \A i \in DOMAIN calls' :
          calls'[i].op \in {"fill", "opt"}
            => \/ i \in DOMAIN calls /\ i < n /\ calls'[i] = calls[i]
               \/ i = n + 1 /\ calls'[i] = b
    BY <2>4, <2>6, <2>7
  <2>10. \A i \in DOMAIN calls : calls[i].op \in {"fill", "opt"}
           => i \in DOMAIN calls' /\ calls'[i] = calls[i]
    BY <1>1, <2>4, <2>7
  <2>11. Pending' = Pending
    <3>1. Blocks' = Blocks /\ \A c : Waiting(c)' = Waiting(c)
      BY <1>1, <2>1 DEF Blocks, Waiting
    <3>2. \A c \in Blocks : \A e \in Waiting(c) : e.phi \in DOMAIN phis
      BY DEF PhiInv, EntriesOK
    <3> QED BY <2>3, <3>1, <3>2 DEF Pending
  <2>12. Filling \subseteq Filling' /\ fresh \in Filling'
    <3>1. n + 1 \in DOMAIN calls'
      BY <2>4, <2>7
    <3>2. fresh \in Filling'
      BY <2>6, <2>7, <3>1 DEF Filling
    <3>3. Filling \subseteq Filling'
      BY <2>10 DEF Filling
    <3> QED BY <3>2, <3>3
  <2>13. Hidden' = Hidden \cup {fresh}
    <3>1. Hidden' \subseteq Hidden \cup {fresh}
      BY <2>5, <2>6, <2>9 DEF Hidden
    <3>2. Hidden \subseteq Hidden'
      BY <2>5, <2>8, <2>10 DEF Hidden
    <3>3. n + 1 \in DOMAIN calls' /\ n + 1 > 1
      BY <2>4, <2>7
    <3>4. fresh \in Hidden'
      BY <2>6, <2>7, <2>8, <3>3 DEF Hidden
    <3> QED BY <3>1, <3>2, <3>4
  <2>14. StackOK'
    <3>1. \A i \in 1 .. n : calls'[i].op # "opt" /\ calls'[i].op # "reopt"
      BY <2>4, <2>5, <2>6, <2>7 DEF PhiInv, StackOK, n
    <3>2. calls'[1].op = "fill" /\ sealing' # NoBlock
      BY <1>1, <2>5, <2>8 DEF InFill
    <3> QED BY <2>4, <2>7, <2>8, <3>1, <3>2 DEF StackOK
  <2>15. FillsOK'
    <3>1. ASSUME NEW i \in DOMAIN calls, calls[i].op \in {"fill", "opt"}
          PROVE  calls[i].phi \in DOMAIN phis
      <4>1. FrameOK(calls[i])
        BY DEF PhiInv, FramesOK, ToSet
      <4> QED BY <2>5, <3>1, <4>1 DEF FrameOK
    <3>2. ASSUME NEW i \in DOMAIN calls', calls'[i].op = "fill", i < Len(calls') \/ ret' # None
          PROVE  Len(phis'[calls'[i].phi].ops) < Len(preds'[calls'[i].bb])
      <4>1. i \in DOMAIN calls /\ i < n /\ calls'[i] = calls[i]
        BY <2>1, <2>4, <2>7, <2>9, <3>2
      <4>2. phis'[calls[i].phi] = phis[calls[i].phi]
        BY <2>3, <3>1, <3>2, <4>1
      <4> QED BY <1>1, <3>2, <4>1, <4>2 DEF PhiInv, FillsOK, n, Filled
    <3>3. ASSUME NEW i \in DOMAIN calls', NEW j \in DOMAIN calls', i # j,
                 calls'[i].op \in {"fill", "opt"}, calls'[j].op \in {"fill", "opt"}
          PROVE  calls'[i].phi # calls'[j].phi
      <4>1. CASE i < n /\ j < n
        BY <2>4, <2>5, <2>9, <3>3, <4>1 DEF PhiInv, FillsOK
      <4>2. CASE i = n + 1
        BY <2>3, <2>4, <2>6, <2>9, <3>1, <3>3, <4>2
      <4>3. CASE j = n + 1
        BY <2>3, <2>4, <2>6, <2>9, <3>1, <3>3, <4>3
      <4> QED BY <2>9, <3>3, <4>1, <4>2, <4>3
    <3> QED BY <3>2, <3>3 DEF FillsOK, Filled
  <2>16. /\ PhisOK' /\ UsersOK' /\ Usable \subseteq Usable'
         /\ \A f : FrameOK(f) => FrameOK(f)'
    BY <1>1, <2>1, <2>2, <2>5, <2>11, <2>12, <2>13, PhiAdded
  <2>17. FramesOK'
    <3>1. FrameOK(a)
      BY <2>6 DEF FrameOK
    <3>2. \A f \in ToSet(calls) : FrameOK(f)'
      BY <2>16 DEF PhiInv, FramesOK
    <3>3. ASSUME NEW f, f = b
          PROVE  FrameOK(f)'
      <4>1. fresh \notin Pending
        BY <2>3 DEF Pending
      <4>2. preds[Top.bb] \in Seq(Nat)
        BY <2>2 DEF IInv, BlocksOK, Blocks
      <4> QED BY <1>1, <2>3, <2>6, <2>11, <3>3, <4>1, <4>2 DEF FrameOK, Filled
    <3>4. \A f \in ToSet(calls') : FrameOK(f)'
      BY <2>7, <2>16, <3>1, <3>2, <3>3
    <3> QED BY <3>4 DEF FramesOK
  <2>18. EntriesOK'
    <3>1. Blocks' = Blocks /\ \A c : Waiting(c)' = Waiting(c)
      BY <1>1, <2>1 DEF Blocks, Waiting
    <3>2. \A c \in Blocks : \A e \in incomplete[c] : e.phi < fresh + 1
      BY <2>3 DEF PhiInv, EntriesOK, CallsOK
    <3> QED BY <2>1, <2>3, <3>1, <3>2 DEF PhiInv, EntriesOK
  <2>19. ValuesOK'
    <3>1. Null \in Usable /\ ret' \in Usable'
      BY <2>1, ValuesFacts DEF Usable
    <3>2. DefsUsable
      BY <2>1, <3>1, WriteUsable
    <3>3. \A c \in Blocks : \A w \in DOMAIN defs'[c] : defs'[c][w] \in Usable'
      BY <2>16, <3>2 DEF PhiInv, ValuesOK, DefsUsable
    <3>4. vals' \in Seq(Usable')
      BY <1>1, <2>16, ValsKept
    <3> QED BY <1>1, <3>1, <3>3, <3>4 DEF PhiInv, ValuesOK, Blocks
  <2> QED BY <2>14, <2>15, <2>16, <2>17, <2>18, <2>19 DEF PhiInv
<1> QED BY <1>2, <1>3

-----------------------------------------------------------------------------
(* Steps that change operands.                                              *)

\* The value read becomes an operand, for which there is room; a hidden phi gets no
\* user.
LEMMA FillAddPhis ==
  ASSUME IInv, CallsOK, PhiInv, FillAdd, StepKeeps
  PROVE  PhiInv'
<1> DEFINE n == Len(calls)
<1>0. PICK p, r : p = Top.phi /\ r = ret
  OBVIOUS
<1>1. /\ calls # <<>> /\ Top.op = "fill" /\ r # None /\ AddIncoming(p, r) /\ ret' = None
      /\ UNCHANGED <<preds, fresh, incomplete, sealed, sealing, visited>>
      /\ UNCHANGED <<defs, vals, pc, calls>>
  BY <1>0 DEF FillAdd, Running, StepKeeps, driverVars
<1>2. /\ InFill /\ Top.bb \in Blocks /\ FrameOK(Top)
      /\ preds[Top.bb] \in Seq(Nat) /\ Len(preds[Top.bb]) \in Nat
      /\ phis[p].ops \in Seq(Usable) /\ Filled(p) \in Nat
  BY <1>0, <1>1, TopFill
<1>3. /\ n \in Nat \ {0} /\ DOMAIN calls = 1 .. n /\ Top = calls[n]
      /\ n \in DOMAIN calls /\ 1 \in DOMAIN calls
  BY <1>1, StackFacts
<1>4. r \in Usable
  BY <1>0, <1>1, <1>2, Phase DEF PhiInv, ValuesOK
<1>5. /\ p \in DOMAIN phis \ Pending /\ phis[p].bb = Top.bb
      /\ Top.bb \in sealed \cup {sealing} /\ Filled(p) < Len(preds[Top.bb])
  <2>1. calls[n].op = "fill" /\ ret # None
    BY <1>0, <1>1, <1>3
  <2>2. Filled(calls[n].phi) < Len(preds[calls[n].bb])
    BY <1>3, <2>1 DEF PhiInv, FillsOK
  <2> QED BY <1>0, <1>1, <1>2, <1>3, <2>2 DEF FrameOK
<1> DEFINE now == [bb |-> phis[p].bb, ops |-> Append(phis[p].ops, r)]
<1>6. /\ DOMAIN phis' = DOMAIN phis /\ phis'[p] = now
      /\ \A q \in DOMAIN phis : q # p => phis'[q] = phis[q]
      /\ phis' = [q \in DOMAIN phis |-> phis'[q]]
  <2>1. phis' = [phis EXCEPT ![p] = now]
    BY <1>1 DEF AddIncoming
  <2>2. phis = [q \in DOMAIN phis |-> phis[q]]
    BY DEF PhiInv, PhisOK
  <2> HIDE DEF now
  <2> QED BY <1>5, <2>1, <2>2
<1>7. now \in [bb : Blocks, ops : Seq(Usable)] /\ Len(now.ops) = Filled(p) + 1
  <2> DEFINE U == Usable
  <2>1. phis[p].bb \in Blocks /\ r \in U /\ phis[p].ops \in Seq(U)
    BY <1>2, <1>4, <1>5
  <2> HIDE DEF U
  <2>2. Append(phis[p].ops, r) \in Seq(U) /\ Len(Append(phis[p].ops, r)) = Filled(p) + 1
    BY <2>1 DEF Filled
  <2> QED BY <2>1, <2>2 DEF U
<1> HIDE DEF now, n
<1>8. /\ Hidden' = Hidden /\ Filling' = Filling /\ (InFill' <=> InFill)
      /\ (InChain' <=> InChain) /\ Blocks' = Blocks
  BY <1>1 DEF Hidden, Filling, InFill, InChain, Blocks
<1>9. Usable' = Usable /\ (\A b : Waiting(b)' = Waiting(b)) /\ Pending' = Pending
  <2>1. Usable' = Usable
    BY <1>6, <1>8 DEF Usable
  <2>2. \A b : Waiting(b)' = Waiting(b)
    BY <1>1 DEF Waiting
  <2> QED BY <1>6, <1>8, <2>1, <2>2 DEF Pending
<1>10. EntriesOK'
  <2>1. \A b \in Blocks : \A e \in Waiting(b) : e.phi # p
    BY <1>5 DEF Pending
  <2> QED BY <1>1, <1>6, <1>8, <1>9, <2>1 DEF PhiInv, EntriesOK
<1>11. p \in Filling
  BY <1>0, <1>1, <1>3 DEF Filling
<1>12. PhisOK'
  <2>1. phis' \in [DOMAIN phis' -> [bb : Blocks, ops : Seq(Usable')]]
    <3> DEFINE R == [bb : Blocks, ops : Seq(Usable)]
    <3>1. phis \in [DOMAIN phis -> R] /\ now \in R
      BY <1>7 DEF PhiInv, PhisOK
    <3> HIDE DEF R
    <3>2. \A q \in DOMAIN phis : phis'[q] \in R
      BY <1>6, <3>1
    <3>3. phis' \in [DOMAIN phis -> R]
      BY <1>6, <3>2
    <3> QED BY <1>6, <1>9, <3>3 DEF R
  <2>2. \A q \in DOMAIN phis : q # p => (Whole(q) => Whole(q)')
    BY <1>1, <1>6 DEF Whole, Filled
  <2>3. \A q \in DOMAIN phis' : q \in Pending' \/ q \in Filling' \/ Whole(q)'
    BY <1>6, <1>8, <1>9, <1>11, <2>2 DEF PhiInv, PhisOK
  <2> QED BY <1>8, <2>1, <2>3 DEF PhisOK
<1>13. Optimizable(p) /\ \A u : Optimizable(u)' <=> Optimizable(u)
  BY <1>1, <1>5, <1>9 DEF Optimizable, IInv, BlocksOK
<1>14. UsersOK'
  <2>1. DOMAIN users = DOMAIN phis
    BY DEF IInv, BlocksOK
  <2>2. CASE users' = users
    BY <1>6, <1>8, <1>13, <2>2 DEF PhiInv, UsersOK
  <2>3. CASE users' # users
    <3> DEFINE q == r[2]
    <3>1. r[1] = "phi" /\ users' = [users EXCEPT ![q] = <<p>> \o users[q]] /\ q \in DOMAIN users
      BY <1>1, <2>3 DEF AddIncoming
    <3>2. q \in DOMAIN phis \ Hidden
      BY <1>4, <3>1, PhiValue DEF Usable
    <3> HIDE DEF q
    <3>3. p \in Nat /\ users[q] \in Seq(Nat)
      BY <1>13, <3>2 DEF Optimizable, PhiInv, UsersOK
    <3> DEFINE s == <<p>> \o users[q]
    <3>4. s \in Seq(Nat) /\ ToSet(s) = {p} \cup ToSet(users[q])
      BY <3>3, UseLists
    <3>5. /\ users' = [users EXCEPT ![q] = s]
          /\ users \in [DOMAIN phis -> Seq(Nat)]
      BY <3>1 DEF PhiInv, UsersOK
    <3>6. \A u \in ToSet(s) : Optimizable(u)
      BY <1>13, <3>2, <3>4 DEF PhiInv, UsersOK
    <3> HIDE DEF s
    <3>7. /\ users' \in [DOMAIN phis -> Seq(Nat)] /\ users'[q] = s
          /\ \A x \in DOMAIN phis : x # q => users'[x] = users[x]
      BY <2>1, <3>1, <3>4, <3>5
    <3>8. \A x \in DOMAIN phis : \A u \in ToSet(users'[x]) : Optimizable(u)
      BY <3>6, <3>7 DEF PhiInv, UsersOK
    <3>9. \A x \in Hidden : users'[x] = <<>>
      BY <3>2, <3>7, HiddenAlive DEF PhiInv, UsersOK
    <3> QED BY <1>6, <1>8, <1>13, <3>7, <3>8, <3>9 DEF UsersOK
  <2> QED BY <2>2, <2>3
<1>15. \A i \in DOMAIN calls : calls[i].op = "fill" /\ i # n => calls[i].phi # p
  BY <1>0, <1>1, <1>2, <1>3 DEF PhiInv, FillsOK
<1>16. ASSUME NEW i \in DOMAIN calls, calls[i].op = "fill"
       PROVE  calls[i].phi \in DOMAIN phis
  <2>1. FrameOK(calls[i])
    BY DEF PhiInv, FramesOK, ToSet
  <2> QED BY <1>16, <2>1 DEF FrameOK
<1>17. FillsOK'
  <2>1. ASSUME NEW i \in DOMAIN calls, calls[i].op = "fill", i < n
        PROVE  Len(phis'[calls[i].phi].ops) < Len(preds[calls[i].bb])
    <3>1. phis'[calls[i].phi] = phis[calls[i].phi]
      BY <1>3, <1>6, <1>15, <1>16, <2>1
    <3> QED BY <2>1, <3>1 DEF PhiInv, FillsOK, Filled, n
  <2>2. calls' = calls /\ preds' = preds /\ ret' = None
    BY <1>1
  <2>3. InFill => \A i, j \in DOMAIN calls :
          /\ i # j /\ calls[i].op \in {"fill", "opt"} /\ calls[j].op \in {"fill", "opt"}
          => calls[i].phi # calls[j].phi
    BY DEF PhiInv, FillsOK
  <2> QED BY <1>8, <2>1, <2>2, <2>3 DEF FillsOK, Filled, n
<1>18. FramesOK'
  <2>1. ASSUME NEW i \in DOMAIN calls, NEW f, f = calls[i]
        PROVE  FrameOK(f)'
    <3>1. FrameOK(f)
      BY <2>1 DEF PhiInv, FramesOK, ToSet
    <3>2. f.op = "fill" => Len(phis'[f.phi].ops) <= Len(preds'[f.bb]) /\ phis'[f.phi].bb = f.bb
      <4>1. CASE i # n
        <5>1. f.op = "fill" => phis'[f.phi] = phis[f.phi]
          BY <1>6, <1>15, <1>16, <2>1, <4>1
        <5> QED BY <1>1, <3>1, <5>1 DEF FrameOK, Filled
      <4>2. CASE i = n
        <5>1. f.phi = p /\ f.bb = Top.bb
          BY <1>0, <1>3, <2>1, <4>2
        <5>2. now.bb = Top.bb /\ Len(now.ops) <= Len(preds[Top.bb])
          <6>1. now.bb = Top.bb
            BY <1>5 DEF now
          <6> QED BY <1>2, <1>5, <1>7, <6>1
        <5> QED BY <1>1, <1>6, <5>1, <5>2
      <4> QED BY <4>1, <4>2
    <3>3. f.op = "fill" => f.phi \in DOMAIN phis' \ Pending' /\ f.bb \in sealed' \cup {sealing'}
      BY <1>1, <1>6, <1>9, <3>1 DEF FrameOK
    <3>4. f.op = "opt" => Optimizable(f.phi)' /\ (InFill' => f.phi \in DOMAIN phis')
      BY <1>6, <1>8, <1>13, <3>1 DEF FrameOK
    <3>5. f.op = "reopt" => /\ f.todo \in Seq(Nat)
                            /\ \A u \in ToSet(f.todo) : Optimizable(u)'
                            /\ InFill' => f.todo = <<>> /\ f.same \in Usable'
      BY <1>8, <1>9, <1>13, <3>1 DEF FrameOK
    <3> QED BY <3>2, <3>3, <3>4, <3>5 DEF FrameOK, Filled
  <2>2. \A f \in ToSet(calls) : FrameOK(f)'
    BY <2>1 DEF ToSet
  <2> QED BY <1>1, <2>2 DEF FramesOK
<1>19. ValuesOK'
  <2>1. ret' \in Usable'
    BY <1>1, <1>9, ValuesFacts DEF Usable
  <2> QED BY <1>1, <1>8, <1>9, <2>1 DEF PhiInv, ValuesOK
<1>20. StackOK'
  BY <1>1, <1>8 DEF PhiInv, StackOK, Emitting
<1> QED BY <1>10, <1>12, <1>14, <1>17, <1>18, <1>19, <1>20 DEF PhiInv

\* optimizePhi meets an erased phi.
LEMMA OptErasedPhis ==
  ASSUME PhiInv, OptErased, StepKeeps
  PROVE  PhiInv'
<1>1. UNCHANGED <<phiVars, defs, vals, pc, calls, ret>>
  BY DEF OptErased, Die, StepKeeps, driverVars, irVars, phiVars
<1> QED BY <1>1, UnmovedPhis

\* The value a phi is replaced with is usable without the phi.
LEMMA SameUsable ==
  ASSUME NEW D, NEW p \in DOMAIN phis, phis[p].ops \in Seq(Values(D)), NEW same,
         same = IF Deciding(p) = {} THEN Undef ELSE CHOOSE v \in Deciding(p) : TRUE
  PROVE  same \in Values(D \ {p})
<1>1. ASSUME NEW val \in Values(D), val # Phi(p)
      PROVE  val \in Values(D \ {p})
  BY <1>1 DEF Values, Phi
<1>2. \A v \in Deciding(p) : v \in Values(D) /\ v # Phi(p)
  BY DEF Deciding
<1>3. CASE Deciding(p) = {}
  BY <1>3, ValuesFacts
<1>4. CASE Deciding(p) # {}
  <2>1. same \in Deciding(p)
    BY <1>4
  <2> QED BY <1>1, <1>2, <2>1
<1> QED BY <1>3, <1>4

\* Every use of the phi becomes a use of the other value; in a fill the phi is hidden,
\* so there is none to optimize.
LEMMA OptReplacePhis ==
  ASSUME IInv, CallsOK, PhiInv, OptReplace, StepKeeps
  PROVE  PhiInv'
<1> DEFINE n == Len(calls)
<1>0. PICK p, same : p = Top.phi
                     /\ same = IF Deciding(p) = {} THEN Undef
                               ELSE CHOOSE v \in Deciding(p) : TRUE
  OBVIOUS
<1> DEFINE todo == Without(users[p], p)
           a == ReoptLoop(same, todo)
           D == DOMAIN phis \ Hidden
           U == Values(D)
           V == Values(D \ {p})
<1>1. /\ calls # <<>> /\ Top.op = "opt" /\ p \in DOMAIN phis /\ ReplaceAndErase(p, same)
      /\ calls' = Front(calls) \o <<a>> /\ ret' = None
      /\ UNCHANGED <<preds, fresh, incomplete, sealed, sealing, visited, vals, pc>>
  BY <1>0 DEF OptReplace, Running, Become, StepKeeps, driverVars
<1>2. /\ n \in Nat \ {0} /\ DOMAIN calls = 1 .. n /\ Top = calls[n]
      /\ n \in DOMAIN calls /\ 1 \in DOMAIN calls
  BY <1>1, StackFacts
<1>3. FrameOK(Top) /\ Optimizable(p)
  BY <1>0, <1>1, TopInOrder DEF PhiInv, FramesOK, FrameOK
<1>4. /\ sealing # NoBlock /\ (InChain <=> ~ InFill) /\ (InFill => n # 1)
      /\ pc # "operands" /\ vals = <<>>
  <2>1. sealing # NoBlock /\ (InChain <=> ~ InFill) /\ (InFill => n # 1)
    BY <1>1, Phase DEF PhiInv
  <2> QED BY <2>1 DEF IInv, ControlShape, Emitting, PhiInv, ValuesOK
<1>5. Usable = U /\ phis \in [DOMAIN phis -> [bb : Blocks, ops : Seq(U)]]
      /\ DOMAIN users = DOMAIN phis /\ users \in [DOMAIN phis -> Seq(Nat)]
  BY DEF Usable, PhiInv, PhisOK, UsersOK
<1>6. same \in V
  <2>1. phis[p].ops \in Seq(Values(D))
    BY <1>1, <1>5
  <2> HIDE DEF D
  <2> QED BY <1>0, <1>1, <2>1, SameUsable
<1>7. a.op = "reopt" /\ a.same = same /\ a.todo = todo
  BY DEF ReoptLoop
<1> HIDE DEF a
<1>8. /\ Len(calls') = n /\ DOMAIN calls' = 1 .. n
      /\ \A i \in 1 .. n - 1 : calls'[i] = calls[i]
      /\ calls'[n] = a /\ calls' # <<>>
  BY <1>1, ReplaceFacts
<1> HIDE DEF n
<1>9. /\ \A i \in DOMAIN calls' : calls'[i].op \in {"fill", "opt"} => i < n
      /\ \A i \in DOMAIN calls : i < n => calls[i].op # "opt" /\ (calls[i].op = "reopt" => InChain)
      /\ \A i \in DOMAIN calls : i < n => i \in DOMAIN calls' /\ calls'[i] = calls[i]
      /\ \A i \in DOMAIN calls' : i < n => i \in DOMAIN calls /\ calls'[i] = calls[i]
  <2>1. \A i \in DOMAIN calls : i < n => calls[i].op # "opt" /\ (calls[i].op = "reopt" => InChain)
    BY DEF PhiInv, StackOK, n
  <2>2. \A i \in 1 .. n : i = n \/ (i < n /\ i \in 1 .. n - 1)
    BY <1>2
  <2>3. \A i \in 1 .. n - 1 : i < n /\ i \in 1 .. n
    BY <1>2
  <2> QED BY <1>2, <1>7, <1>8, <2>1, <2>2, <2>3
<1>10. (InFill' <=> InFill) /\ (InChain' <=> InChain)
  <2>1. CASE n = 1
    BY <1>1, <1>2, <1>4, <1>7, <1>8, <2>1 DEF InFill, InChain
  <2>2. CASE n # 1
    <3>1. calls'[1] = calls[1]
      BY <1>2, <1>8, <2>2
    <3> QED BY <1>1, <1>8, <3>1 DEF InFill, InChain
  <2> QED BY <2>1, <2>2
<1>11. /\ InFill => p \in Hidden
       /\ \A i \in DOMAIN calls : i < n /\ calls[i].op = "fill" =>
            InFill /\ calls[i].phi # p /\ calls[i].phi \in DOMAIN phis
  <2>1. InFill => p \in Hidden
    BY <1>0, <1>1, <1>2, <1>4 DEF Hidden
  <2>2. ASSUME NEW i \in DOMAIN calls, i < n, calls[i].op = "fill"
        PROVE  InFill /\ calls[i].phi # p /\ calls[i].phi \in DOMAIN phis
    <3>1. InFill
      BY <1>4, <2>2 DEF PhiInv, StackOK
    <3>2. calls[i].phi # p
      BY <1>0, <1>1, <1>2, <2>2, <3>1 DEF PhiInv, FillsOK
    <3>3. FrameOK(calls[i])
      BY DEF PhiInv, FramesOK, ToSet
    <3> QED BY <2>2, <3>1, <3>2, <3>3 DEF FrameOK
  <2> QED BY <2>1, <2>2
<1>12. Hidden' = Hidden \ {p}
  <2>1. ASSUME NEW q \in Hidden'
        PROVE  q \in Hidden /\ q # p
    <3>1. PICK i \in DOMAIN calls' :
            InFill' /\ i > 1 /\ calls'[i].op \in {"fill", "opt"} /\ calls'[i].phi = q
      BY DEF Hidden
    <3>2. i < n /\ i \in DOMAIN calls /\ calls'[i] = calls[i]
      BY <1>9, <3>1
    <3>3. calls[i].op = "fill" /\ calls[i].phi # p
      BY <1>9, <1>11, <3>1, <3>2
    <3> QED BY <1>10, <3>1, <3>2, <3>3 DEF Hidden
  <2>2. ASSUME NEW q \in Hidden, q # p
        PROVE  q \in Hidden'
    <3>1. PICK i \in DOMAIN calls :
            InFill /\ i > 1 /\ calls[i].op \in {"fill", "opt"} /\ calls[i].phi = q
      BY DEF Hidden
    <3>2. i < n
      BY <1>0, <1>2, <2>2, <3>1
    <3>3. i \in DOMAIN calls' /\ calls'[i] = calls[i]
      BY <1>9, <3>2
    <3> QED BY <1>10, <3>1, <3>3 DEF Hidden
  <2> QED BY <2>1, <2>2
<1>13. Filling' = Filling
  <2>1. ASSUME NEW q \in Filling'
        PROVE  q \in Filling
    <3>1. PICK i \in DOMAIN calls' : calls'[i].op = "fill" /\ calls'[i].phi = q
      BY DEF Filling
    <3> QED BY <1>9, <3>1 DEF Filling
  <2>2. ASSUME NEW q \in Filling
        PROVE  q \in Filling'
    <3>1. PICK i \in DOMAIN calls : calls[i].op = "fill" /\ calls[i].phi = q
      BY DEF Filling
    <3>2. i < n
      BY <1>1, <1>2, <3>1
    <3> QED BY <1>9, <3>1, <3>2 DEF Filling
  <2> QED BY <2>1, <2>2
<1> DEFINE subst(s) == SubstAll(s, Phi(p), same)
<1>14. /\ DOMAIN phis' = DOMAIN phis \ {p}
       /\ \A q \in DOMAIN phis' : phis'[q] = [bb |-> phis[q].bb, ops |-> subst(phis[q].ops)]
       /\ phis' = [q \in DOMAIN phis' |-> phis'[q]]
       /\ DOMAIN users' = DOMAIN phis \ {p}
       /\ \A q \in DOMAIN phis' : \E moved :
            /\ moved \in {<<>>, Reverse(users[p])}
            /\ users'[q] = Without(moved \o users[q], p)
       /\ users' = [q \in DOMAIN users' |-> users'[q]]
       /\ defs' = [b \in Blocks |-> subst(defs[b])]
  <2>1. DOMAIN defs = Blocks
    BY DEF IInv, BlocksOK
  <2> QED BY <1>1, <1>5, <2>1 DEF ReplaceAndErase
<1>15. \A s : s \in Seq(U) => subst(s) \in Seq(V) /\ Len(subst(s)) = Len(s)
  <2> HIDE DEF D
  <2> QED BY <1>6, SubstList
<1>16. Usable' = V /\ Blocks' = Blocks
  <2>1. DOMAIN phis' \ Hidden' = D \ {p}
    BY <1>12, <1>14
  <2> QED BY <1>1, <2>1 DEF Usable, Blocks
<1> HIDE DEF subst
<1>17. \A q \in DOMAIN phis' :
         /\ q \in DOMAIN phis /\ phis'[q].bb = phis[q].bb /\ phis[q].ops \in Seq(U)
         /\ phis'[q] = [bb |-> phis[q].bb, ops |-> subst(phis[q].ops)]
         /\ Len(phis'[q].ops) = Len(phis[q].ops)
         /\ phis'[q] \in [bb : Blocks, ops : Seq(V)]
  <2> HIDE DEF U, V
  <2> QED BY <1>5, <1>14, <1>15
<1>18. (\A b : Waiting(b)' = Waiting(b)) /\ Pending' = Pending
  <2>1. \A b : Waiting(b)' = Waiting(b)
    BY <1>1 DEF Waiting
  <2>2. p \notin Pending
    BY <1>3 DEF Optimizable
  <2> QED BY <1>14, <1>16, <2>1, <2>2 DEF Pending
<1>19. EntriesOK'
  <2>1. ASSUME NEW b \in Blocks, NEW e \in Waiting(b)
        PROVE  e.phi \in DOMAIN phis' /\ phis'[e.phi] = [bb |-> b, ops |-> <<>>]
    <3> DEFINE q == e.phi
    <3>1. q \in DOMAIN phis /\ phis[q] = [bb |-> b, ops |-> <<>>]
      BY DEF PhiInv, EntriesOK
    <3>2. q # p
      BY <1>3, <3>1 DEF Optimizable, Pending
    <3> HIDE DEF q
    <3>3. q \in DOMAIN phis'
      BY <1>14, <3>1, <3>2
    <3>4. subst(<<>>) = <<>>
      BY DEF subst, SubstAll
    <3>5. phis'[q] = [bb |-> b, ops |-> <<>>]
      BY <1>17, <3>1, <3>3, <3>4
    <3> QED BY <3>3, <3>5 DEF q
  <2> QED BY <1>1, <1>16, <1>18, <2>1 DEF PhiInv, EntriesOK
<1>20. PhisOK'
  <2>1. phis' \in [DOMAIN phis' -> [bb : Blocks, ops : Seq(V)]]
    <3> HIDE DEF V
    <3> QED BY <1>14, <1>17
  <2>2. \A q \in DOMAIN phis' : Whole(q) => Whole(q)'
    BY <1>1, <1>17 DEF Whole, Filled
  <2>3. \A q \in DOMAIN phis' : q \in Pending' \/ q \in Filling' \/ Whole(q)'
    BY <1>13, <1>14, <1>18, <2>2 DEF PhiInv, PhisOK
  <2> QED BY <1>16, <2>1, <2>3 DEF PhisOK
<1>21. /\ users[p] \in Seq(Nat) /\ \A u \in ToSet(users[p]) : Optimizable(u)
       /\ InFill => users[p] = <<>>
  BY <1>1, <1>5, <1>11 DEF PhiInv, UsersOK
<1>22. \A u : Optimizable(u)' <=> Optimizable(u)
  BY <1>1, <1>18 DEF Optimizable
<1>23. UsersOK'
  <2>1. ASSUME NEW q \in DOMAIN phis'
        PROVE  /\ users'[q] \in Seq(Nat) /\ \A u \in ToSet(users'[q]) : Optimizable(u)
               /\ q \in Hidden => users'[q] = <<>>
    <3>1. PICK moved : /\ moved \in {<<>>, Reverse(users[p])}
                       /\ users'[q] = Without(moved \o users[q], p)
      BY <1>14
    <3>2. moved \in Seq(Nat) /\ ToSet(moved) \subseteq ToSet(users[p])
          /\ (InFill => moved = <<>>)
      <4>1. CASE moved = <<>>
        BY <4>1 DEF ToSet
      <4>2. CASE moved = Reverse(users[p])
        BY <1>21, <4>2, UseLists
      <4> QED BY <3>1, <4>1, <4>2
    <3>3. users[q] \in Seq(Nat) /\ \A u \in ToSet(users[q]) : Optimizable(u)
      BY <1>5, <1>17 DEF PhiInv, UsersOK
    <3> DEFINE s == moved \o users[q]
    <3>4. s \in Seq(Nat) /\ ToSet(s) = ToSet(moved) \cup ToSet(users[q])
      BY <3>2, <3>3, UseLists
    <3>5. q \in Hidden => s = <<>>
      <4>1. q \in Hidden => InFill /\ users[q] = <<>>
        BY <1>17 DEF Hidden, PhiInv, UsersOK
      <4> QED BY <3>2, <4>1
    <3> HIDE DEF s
    <3>6. /\ Without(s, p) \in Seq(Nat)
          /\ \A u \in ToSet(Without(s, p)) : u \in ToSet(s)
          /\ s = <<>> => Without(s, p) = <<>>
      BY <3>4, WithoutFacts
    <3>7. \A u \in ToSet(s) : Optimizable(u)
      BY <1>21, <3>2, <3>3, <3>4
    <3>8. users'[q] = Without(s, p)
      BY <3>1 DEF s
    <3> QED BY <3>5, <3>6, <3>7, <3>8
  <2>2. DOMAIN users' = DOMAIN phis' /\ Hidden' \subseteq DOMAIN phis'
    BY <1>12, <1>14, HiddenAlive
  <2>3. users' \in [DOMAIN phis' -> Seq(Nat)]
    BY <1>14, <2>1, <2>2
  <2> QED BY <1>12, <1>22, <2>1, <2>2, <2>3 DEF UsersOK
<1>24. FillsOK'
  <2>1. ASSUME NEW i \in DOMAIN calls', calls'[i].op = "fill"
        PROVE  Len(phis'[calls'[i].phi].ops) < Len(preds'[calls'[i].bb])
    <3>1. i < n /\ i \in DOMAIN calls /\ calls'[i] = calls[i]
      BY <1>9, <2>1
    <3>2. Len(phis[calls[i].phi].ops) < Len(preds[calls[i].bb])
      BY <2>1, <3>1 DEF PhiInv, FillsOK, Filled, n
    <3>3. calls[i].phi \in DOMAIN phis'
      BY <1>11, <1>14, <2>1, <3>1
    <3>4. Len(phis'[calls[i].phi].ops) = Len(phis[calls[i].phi].ops)
      BY <1>17, <3>3
    <3> QED BY <1>1, <3>1, <3>2, <3>4
  <2>2. InFill' => \A i, j \in DOMAIN calls' :
          /\ i # j /\ calls'[i].op \in {"fill", "opt"} /\ calls'[j].op \in {"fill", "opt"}
          => calls'[i].phi # calls'[j].phi
    BY <1>9, <1>10 DEF PhiInv, FillsOK
  <2> QED BY <2>1, <2>2 DEF FillsOK, Filled
<1>25. FramesOK'
  <2>1. ASSUME NEW i \in DOMAIN calls', NEW f, f = calls'[i], i < n
        PROVE  FrameOK(f)'
    <3>1. i \in DOMAIN calls /\ f = calls[i]
      BY <1>9, <2>1
    <3>2. FrameOK(f)
      BY <3>1 DEF PhiInv, FramesOK, ToSet
    <3>3. f.op = "fill" => /\ f.phi \in DOMAIN phis' \ Pending'
                           /\ phis'[f.phi].bb = f.bb /\ f.bb \in sealed' \cup {sealing'}
                           /\ Len(phis'[f.phi].ops) <= Len(preds'[f.bb])
      <4>1. f.op = "fill" => f.phi \in DOMAIN phis'
        BY <1>11, <1>14, <2>1, <3>1
      <4> QED BY <1>1, <1>17, <1>18, <3>2, <4>1 DEF FrameOK, Filled
    <3>4. f.op # "opt" /\ (f.op = "reopt" => ~ InFill')
      BY <1>4, <1>9, <1>10, <2>1, <3>1
    <3>5. f.op = "reopt" => f.todo \in Seq(Nat) /\ \A u \in ToSet(f.todo) : Optimizable(u)'
      BY <1>22, <3>2 DEF FrameOK
    <3> QED BY <3>3, <3>4, <3>5 DEF FrameOK, Filled
  <2>2. ASSUME NEW f, f = a
        PROVE  FrameOK(f)'
    <3>1. /\ todo \in Seq(Nat) /\ \A u \in ToSet(todo) : u \in ToSet(users[p])
          /\ users[p] = <<>> => todo = <<>>
      BY <1>21, WithoutFacts
    <3> QED BY <1>6, <1>7, <1>10, <1>16, <1>21, <1>22, <2>2, <3>1 DEF FrameOK
  <2>3. \A i \in DOMAIN calls' : i < n \/ calls'[i] = a
    BY <1>2, <1>8
  <2>4. \A f \in ToSet(calls') : FrameOK(f)'
    BY <2>1, <2>2, <2>3 DEF ToSet
  <2> QED BY <2>4 DEF FramesOK
<1>26. StackOK'
  <2>1. \A i \in DOMAIN calls' : i < Len(calls') =>
          calls'[i].op # "opt" /\ (calls'[i].op = "reopt" => InChain')
    BY <1>8, <1>9, <1>10
  <2>2. ASSUME InChain', NEW i \in DOMAIN calls'
        PROVE  calls'[i].op \in {"opt", "reopt"}
    <3>1. CASE i < n
      BY <1>9, <1>10, <2>2, <3>1 DEF PhiInv, StackOK
    <3>2. CASE ~ i < n
      BY <1>2, <1>7, <1>8, <3>2
    <3> QED BY <3>1, <3>2
  <2>3. calls'[1].op \in {"fill", "opt", "reopt"} /\ sealing' # NoBlock
    BY <1>1, <1>4, <1>10 DEF InFill, InChain
  <2> QED BY <2>1, <2>2, <2>3 DEF StackOK
<1>27. ValuesOK'
  <2>1. ASSUME NEW b \in Blocks, NEW v \in DOMAIN defs'[b]
        PROVE  defs'[b][v] \in V
    <3>1. defs'[b] = SubstAll(defs[b], Phi(p), same)
      BY <1>14 DEF subst
    <3>2. v \in DOMAIN defs[b] /\ defs'[b][v] = Subst(defs[b][v], Phi(p), same)
      BY <2>1, <3>1 DEF SubstAll
    <3>3. defs[b][v] \in Values(D)
      BY <1>5, <3>2 DEF PhiInv, ValuesOK
    <3> HIDE DEF D
    <3>4. \A val \in Values(D) : Subst(val, Phi(p), same) \in Values(D \ {p})
      BY <1>6, SubstValue
    <3> QED BY <3>2, <3>3, <3>4
  <2>2. vals' = <<>> /\ vals' \in Seq(V)
    BY <1>1, <1>4
  <2>3. ret' \in V
    BY <1>1, ValuesFacts
  <2> QED BY <1>16, <2>1, <2>2, <2>3 DEF ValuesOK
<1> QED BY <1>19, <1>20, <1>23, <1>24, <1>25, <1>26, <1>27 DEF PhiInv

\* Every step of the recursive functions keeps the phis in order.
LEMMA StepPhis ==
  ASSUME IInv, CallsOK, OneRead, Covered, PhiInv, Step
  PROVE  PhiInv'
<1>1. StepKeeps
  BY DEF Step, SSAStep, StepKeeps
<1>2. ReadHit \/ ReadUnsealed \/ ReadSinglePredecessor \/ ReadJoin \/ WriteAndReturn => PhiInv'
  BY <1>1, ReadHitPhis, ReadUnsealedPhis, ReadSinglePredecessorPhis, ReadJoinPhis,
     WriteAndReturnPhis
<1>3. FillRead \/ FillAdd \/ FillDone => PhiInv'
  BY <1>1, FillReadPhis, FillAddPhis, FillDonePhis
<1>4. OptErased \/ OptKeep \/ OptReplace \/ ReoptNext \/ ReoptDone => PhiInv'
  BY <1>1, OptErasedPhis, OptKeepPhis, OptReplacePhis, ReoptNextPhis, ReoptDonePhis
<1> QED BY <1>2, <1>3, <1>4 DEF Step, SSAStep

-----------------------------------------------------------------------------
(* sealBlock and the statements.                                            *)

\* Between calls there is nothing hidden; blocks may be added, and a phi that is whole
\* stays so when the edges into its block stay.
LEMMA IdlePhis ==
  ASSUME IInv, PhiInv, calls = <<>>,
         calls' = <<>> \/ \E f : f.op = "read" /\ calls' = <<f>> /\ Emitting',
         UNCHANGED <<phis, users>>, fresh' \in {fresh, fresh + 1}, Blocks \subseteq Blocks',
         \A b \in Blocks' \ Blocks : incomplete'[b] = {},
         \A b \in Blocks : incomplete'[b] \subseteq incomplete[b] /\ Waiting(b)' = Waiting(b),
         \A p \in DOMAIN phis : Whole(p) => Whole(p)',
         \A b \in Blocks' : \A v \in DOMAIN defs'[b] : defs'[b][v] \in Usable,
         vals' \in Seq(Usable), pc' # "operands" => vals' = <<>>,
         sealing' = NoBlock \/ calls' # <<>> => ret' \in Usable,
         \A e : \A b \in Blocks : e \in incomplete[b] => e.phi \in Nat
  PROVE  PhiInv'
<1>1. Hidden = {} /\ Filling = {} /\ ~ InFill /\ ~ InChain
  BY DEF Hidden, Filling, InFill, InChain
<1>2. /\ \A i \in DOMAIN calls' : calls'[i].op = "read" /\ i = 1 /\ Len(calls') = 1
      /\ calls' # <<>> => 1 \in DOMAIN calls' /\ Emitting'
      /\ \A f \in ToSet(calls') : f.op = "read"
  BY DEF ToSet
<1>3. Hidden' = {} /\ Filling' = {} /\ ~ InFill' /\ ~ InChain'
  BY <1>2 DEF Hidden, Filling, InFill, InChain
<1>4. Usable' = Usable
  BY <1>1, <1>3 DEF Usable
<1>5. \A b \in Blocks' \ Blocks : Waiting(b)' = {}
  BY DEF Waiting
<1>6. Pending' = Pending
  BY <1>5 DEF Pending
<1>7. fresh \in Nat /\ DOMAIN users = DOMAIN phis
  BY DEF IInv, BlocksOK
<1>8. EntriesOK'
  <2>1. \A b \in Blocks : \A e \in incomplete'[b] : e.phi < fresh'
    BY <1>7 DEF PhiInv, EntriesOK
  <2>2. \A b, c \in Blocks' : \A e \in incomplete'[b], f \in incomplete'[c] :
          e.phi = f.phi => b = c /\ e = f
    BY DEF PhiInv, EntriesOK
  <2>3. ASSUME NEW b \in Blocks', NEW e \in Waiting(b)'
        PROVE  e.phi \in DOMAIN phis' /\ phis'[e.phi] = [bb |-> b, ops |-> <<>>]
    <3>1. b \in Blocks /\ e \in Waiting(b)
      BY <1>5, <2>3
    <3>2. e.phi \in DOMAIN phis /\ phis[e.phi] = [bb |-> b, ops |-> <<>>]
      BY <3>1 DEF PhiInv, EntriesOK
    <3> QED BY <3>2
  <2>4. \A b \in Blocks' : \A e \in incomplete'[b] : e.phi < fresh'
    BY <2>1
  <2> QED BY <2>2, <2>3, <2>4 DEF EntriesOK
<1>9. PhisOK'
  <2>1. phis' \in [DOMAIN phis' -> [bb : Blocks', ops : Seq(Usable')]]
    <3> DEFINE U == Usable
               B == Blocks
               C == Blocks'
    <3>1. B \subseteq C /\ phis \in [DOMAIN phis -> [bb : B, ops : Seq(U)]]
      BY DEF PhiInv, PhisOK
    <3> HIDE DEF U, B, C
    <3>2. phis \in [DOMAIN phis -> [bb : C, ops : Seq(U)]]
      BY <3>1
    <3> QED BY <1>4, <3>2 DEF U, C
  <2>2. \A p \in DOMAIN phis' : p \in Pending' \/ Whole(p)'
    BY <1>1, <1>6 DEF PhiInv, PhisOK
  <2> QED BY <2>1, <2>2 DEF PhisOK
<1>10. UsersOK'
  <2>1. \A u : Optimizable(u) => Optimizable(u)'
    BY <1>6, <1>7 DEF Optimizable
  <2> QED BY <1>3, <2>1 DEF PhiInv, UsersOK
<1>11. StackOK' /\ FillsOK' /\ FramesOK'
  BY <1>2, <1>3 DEF StackOK, FillsOK, FramesOK, FrameOK, InChain
<1>12. ValuesOK'
  BY <1>4 DEF ValuesOK
<1> QED BY <1>8, <1>9, <1>10, <1>11, <1>12 DEF PhiInv

\* The entries of IncompletePhis name phis by their numbers.
LEMMA EntryNumbers ==
  ASSUME CallsOK
  PROVE  \A b \in Blocks : \A e \in incomplete[b] : e.phi \in Nat
  BY DEF CallsOK

\* Until sealBlock takes the first phi, it has only chosen the block.
LEMMA SealPhis ==
  ASSUME IInv, CallsOK, PhiInv, Seal
  PROVE  PhiInv'
<1>1. /\ calls = <<>> /\ sealing = NoBlock /\ sealing' \in {NoBlock, Head(sealq)}
      /\ (sealing' = NoBlock \/ visited' = {})
      /\ UNCHANGED <<preds, phis, users, fresh, defs, incomplete, sealed, calls, ret>>
      /\ UNCHANGED <<vals, pc>>
  BY DEF Seal, SealStart, Idle, irVars, driverVars
<1>2. NoBlock \notin Blocks
  BY DEF NoBlock, Blocks, IInv, BlocksOK
<1>3. \A b \in Blocks : incomplete'[b] \subseteq incomplete[b] /\ Waiting(b)' = Waiting(b)
  BY <1>1, <1>2 DEF Waiting
<1>4. \A p \in DOMAIN phis : Whole(p) => Whole(p)'
  BY <1>1, <1>2 DEF Whole, Filled, PhiInv, PhisOK
<1>5. ret \in Usable
  BY <1>1 DEF PhiInv, ValuesOK, InChain
<1>6. Blocks' = Blocks
  BY <1>1 DEF Blocks
<1>7. /\ \A b \in Blocks' : \A v \in DOMAIN defs'[b] : defs'[b][v] \in Usable
      /\ vals' \in Seq(Usable) /\ (pc' # "operands" => vals' = <<>>)
  BY <1>1, <1>6 DEF PhiInv, ValuesOK
<1> QED BY <1>1, <1>3, <1>4, <1>5, <1>6, <1>7, EntryNumbers, IdlePhis

\* sealBlock is done: the phis of the block are whole, and no longer wait.
LEMMA SealEndPhis ==
  ASSUME IInv, CallsOK, PhiInv, SealEnd
  PROVE  PhiInv'
<1>1. /\ calls = <<>> /\ sealing # NoBlock /\ sealing' = NoBlock /\ visited' = {}
      /\ incomplete[sealing] \subseteq visited /\ sealed' = sealed \cup {sealing}
      /\ incomplete' = [incomplete EXCEPT ![sealing] = {}] /\ ret' = None
      /\ UNCHANGED <<preds, phis, users, fresh, defs, calls>>
      /\ UNCHANGED <<vals, pc>>
  BY DEF SealEnd, SealFinish, Idle, irVars
<1>2. NoBlock \notin Blocks /\ DOMAIN incomplete = Blocks
  BY DEF NoBlock, Blocks, IInv, BlocksOK
<1>3. \A b \in Blocks : incomplete'[b] \subseteq incomplete[b] /\ Waiting(b)' = Waiting(b)
  BY <1>1, <1>2 DEF Waiting
<1>4. \A p \in DOMAIN phis : Whole(p) => Whole(p)'
  BY <1>1 DEF Whole, Filled
<1>5. ret' \in Usable
  BY <1>1, ValuesFacts DEF Usable
<1>6. Blocks' = Blocks
  BY <1>1 DEF Blocks
<1>7. /\ \A b \in Blocks' : \A v \in DOMAIN defs'[b] : defs'[b][v] \in Usable
      /\ vals' \in Seq(Usable) /\ (pc' # "operands" => vals' = <<>>)
  BY <1>1, <1>6 DEF PhiInv, ValuesOK
<1> QED BY <1>1, <1>3, <1>4, <1>5, <1>6, <1>7, EntryNumbers, IdlePhis

\* setCurr.
LEMMA SetCurrPhis ==
  ASSUME IInv, CallsOK, PhiInv, SetCurr
  PROVE  PhiInv'
<1>1. /\ calls = <<>> /\ sealing = NoBlock /\ pc = "seal"
      /\ UNCHANGED <<preds, phis, users, fresh, defs, incomplete, sealed, sealing, visited>>
      /\ UNCHANGED <<vals, calls, ret>>
  BY DEF SetCurr, At, Idle, ssaVars, irVars
<1>2. \A b \in Blocks : incomplete'[b] \subseteq incomplete[b] /\ Waiting(b)' = Waiting(b)
  BY <1>1 DEF Waiting
<1>3. \A p \in DOMAIN phis : Whole(p) => Whole(p)'
  BY <1>1 DEF Whole, Filled
<1>4. ret \in Usable
  BY <1>1 DEF PhiInv, ValuesOK, InChain
<1>5. Blocks' = Blocks
  BY <1>1 DEF Blocks
<1>6. /\ \A b \in Blocks' : \A v \in DOMAIN defs'[b] : defs'[b][v] \in Usable
      /\ vals' \in Seq(Usable) /\ (pc' # "operands" => vals' = <<>>)
  BY <1>1, <1>5 DEF PhiInv, ValuesOK
<1> QED BY <1>1, <1>2, <1>3, <1>4, <1>5, <1>6, EntryNumbers, IdlePhis

\* sealBlock hands one of the phis that wait to addPhiOperands.
LEMMA SealStepPhis ==
  ASSUME IInv, CallsOK, PhiInv, SealStep
  PROVE  PhiInv'
<1>1. PICK e \in incomplete[sealing] \ visited :
        calls' = <<FillCall(sealing, e.var, e.phi)>> /\ visited' = visited \cup {e}
  BY DEF SealStep, SealPhi
<1> DEFINE a == FillCall(sealing, e.var, e.phi)
           p == e.phi
<1>2. /\ calls = <<>> /\ sealing # NoBlock /\ ret' = None /\ calls' = <<a>>
      /\ UNCHANGED <<preds, phis, users, fresh, defs, incomplete, sealed, sealing>>
      /\ UNCHANGED <<vals, pc>>
  BY <1>1 DEF SealStep, SealPhi, Idle, irVars, driverVars
<1>3. a.op = "fill" /\ a.phi = p /\ a.bb = sealing
  BY DEF FillCall
<1> HIDE DEF a
<1>4. sealing \in Blocks /\ Blocks' = Blocks /\ preds[sealing] \in Seq(Nat)
  BY <1>2 DEF IInv, BlocksOK, Blocks
<1>5. e \in Waiting(sealing) /\ p \in DOMAIN phis /\ phis[p] = [bb |-> sealing, ops |-> <<>>]
  BY <1>1, <1>4 DEF Waiting, PhiInv, EntriesOK
<1>6. /\ \A b \in Blocks : b = sealing => Waiting(b)' = Waiting(b) \ {e}
      /\ \A b \in Blocks : b # sealing => Waiting(b)' = Waiting(b)
      /\ \A b \in Blocks : Waiting(b) \subseteq incomplete[b]
  BY <1>1, <1>2 DEF Waiting
<1>7. Pending' = Pending \ {p}
  <2>1. ASSUME NEW q \in Pending'
        PROVE  q \in Pending /\ q # p
    <3>1. PICK b \in Blocks : \E f \in Waiting(b)' : f.phi = q
      BY <1>4 DEF Pending
    <3>2. PICK f \in Waiting(b)' : f.phi = q
      BY <3>1
    <3>3. f \in Waiting(b) /\ ~ (b = sealing /\ f = e)
      BY <1>6, <3>2
    <3>4. q # p
      BY <1>1, <1>4, <1>6, <3>2, <3>3 DEF PhiInv, EntriesOK
    <3> QED BY <1>2, <3>2, <3>3, <3>4 DEF Pending
  <2>2. ASSUME NEW q \in Pending, q # p
        PROVE  q \in Pending'
    <3>1. PICK b \in Blocks : \E f \in Waiting(b) : f.phi = q
      BY DEF Pending
    <3>2. PICK f \in Waiting(b) : f.phi = q
      BY <3>1
    <3>3. f \in Waiting(b)'
      BY <1>6, <2>2, <3>2
    <3> QED BY <1>2, <1>4, <3>2, <3>3 DEF Pending
  <2> QED BY <2>1, <2>2
<1>8. DOMAIN calls' = {1} /\ calls'[1] = a /\ Len(calls') = 1 /\ calls' # <<>>
      /\ ToSet(calls') = {a}
  BY <1>2 DEF ToSet
<1>9. Hidden = {} /\ Filling = {} /\ Hidden' = {} /\ Filling' = {p} /\ InFill' /\ ~ InChain'
  <2>1. Hidden = {} /\ Filling = {}
    BY <1>2 DEF Hidden, Filling, InFill
  <2>2. InFill' /\ ~ InChain'
    BY <1>3, <1>8 DEF InFill, InChain
  <2>3. Hidden' = {}
    BY <1>8 DEF Hidden
  <2>4. Filling' = {p}
    BY <1>3, <1>8 DEF Filling
  <2> QED BY <2>1, <2>2, <2>3, <2>4
<1>10. Usable' = Usable
  BY <1>2, <1>9 DEF Usable
<1>11. EntriesOK'
  BY <1>2, <1>4, <1>6 DEF PhiInv, EntriesOK
<1>12. PhisOK'
  <2>1. \A q : Whole(q)' <=> Whole(q)
    BY <1>2 DEF Whole, Filled
  <2>2. \A q \in DOMAIN phis : q \in Pending' \/ q \in Filling' \/ Whole(q)'
    BY <1>7, <1>9, <2>1 DEF PhiInv, PhisOK
  <2> QED BY <1>2, <1>4, <1>10, <2>2 DEF PhiInv, PhisOK
<1>13. UsersOK'
  BY <1>2, <1>7, <1>9 DEF PhiInv, UsersOK, Optimizable
<1>14. StackOK' /\ FillsOK'
  BY <1>2, <1>3, <1>8, <1>9 DEF StackOK, FillsOK
<1>15. FramesOK'
  <2>1. ASSUME NEW f, f = a
        PROVE  FrameOK(f)'
    BY <1>2, <1>3, <1>4, <1>5, <1>7, <2>1 DEF FrameOK, Filled
  <2> QED BY <1>8, <2>1 DEF FramesOK
<1>16. ValuesOK'
  <2>1. ret' \in Usable'
    BY <1>2, ValuesFacts DEF Usable
  <2> QED BY <1>2, <1>4, <1>10, <2>1 DEF PhiInv, ValuesOK
<1> QED BY <1>11, <1>12, <1>13, <1>14, <1>15, <1>16 DEF PhiInv

\* The emitters run outside of sealBlock, and leave the phis to it.
LEMMA StatementKeepsPhis ==
  ASSUME Statement
  PROVE  /\ sealing = NoBlock /\ Emitting
         /\ UNCHANGED <<phis, users, sealed, sealing, visited>>
         /\ fresh' \in {fresh, fresh + 1}
<1>1. \A where : At(where) => sealing = NoBlock /\ pc = where
  BY DEF At
<1>2. \A kinds : Offered(kinds) # {} => sealing = NoBlock /\ pc = "fetch"
  BY <1>1 DEF Offered
<1>3. BeginSimple \/ BeginIf \/ BeginWhileReusing \/ BeginWhile
        => sealing = NoBlock /\ pc = "fetch"
  BY <1>2 DEF BeginSimple, BeginIf, BeginWhileReusing, BeginWhile
<1>4. sealing = NoBlock /\ Emitting
  BY <1>1, <1>3
     DEF Statement, ReadLocal, TakeOperand, LoadMemory, Wanted, Complete, AtEnd,
         AssignLocal, AssignGlobal, AssignVarParameter, BranchIf, BranchWhile, EmitReturn,
         EndThen, EndIf, EndWhile, EndProcedure, Emitting
<1>5. UNCHANGED <<phis, users, sealed, sealing, visited>> /\ fresh' \in {fresh, fresh + 1}
  BY DEF Statement, BeginSimple, BeginIf, BeginWhileReusing, BeginWhile, ReadLocal,
         TakeOperand, LoadMemory, AssignLocal, AssignGlobal, AssignVarParameter, BranchIf,
         BranchWhile, EmitReturn, EndThen, EndIf, EndWhile, EndProcedure, ssaVars, irVars
<1> QED BY <1>4, <1>5

\* What a simple statement assigns: a copy has one operand.
LEMMA ResultUsable ==
  ASSUME IInv, PhiInv, Complete({"const", "copy", "op"}), NEW val \in Results
  PROVE  val \in Usable
<1>1. stmt \in Statements /\ Len(vals) = Len(stmt.reads) /\ stmt.kind \in {"const", "copy", "op"}
  <2>1. stmt.kind \in {"const", "copy", "op"} /\ Len(vals) = Len(stmt.reads)
    BY DEF Complete
  <2>2. stmt # NoStmt
    BY <2>1 DEF NoStmt
  <2> QED BY <2>1, <2>2 DEF IInv, BlocksOK
<1>2. CASE stmt.kind = "copy"
  <2>1. PICK v : stmt.reads = <<v>>
    BY <1>1, <1>2 DEF Statements
  <2>2. Len(vals) = 1
    BY <1>1, <2>1
  <2> DEFINE U == Usable
  <2>3. vals \in Seq(U) /\ val = vals[1]
    BY <1>2 DEF Results, PhiInv, ValuesOK
  <2> HIDE DEF U
  <2>4. val \in U
    BY <2>2, <2>3
  <2> QED BY <2>4 DEF U
<1>3. CASE stmt.kind # "copy"
  <2>1. val \in {Undef, Ins(fresh)} \/ \E k \in Literals : val = Lit(k)
    BY <1>3 DEF Results, Constants
  <2>2. fresh \in Nat
    BY DEF IInv, BlocksOK
  <2> QED BY <2>1, <2>2, ValuesFacts DEF Usable
<1> QED BY <1>2, <1>3

\* Definitions after the step of an emitter: a new block has none.
LEMMA StatementDefs ==
  ASSUME IInv, PhiInv, Statement
  PROVE  \A b \in Blocks' : \A v \in DOMAIN defs'[b] : defs'[b][v] \in Usable
<1> DEFINE Good == \A b \in Blocks' : \A v \in DOMAIN defs'[b] : defs'[b][v] \in Usable
<1>1. DOMAIN defs = Blocks
  BY DEF IInv, BlocksOK
<1>2. CASE UNCHANGED <<preds, defs>>
  BY <1>2 DEF PhiInv, ValuesOK, Blocks
<1>3. CASE \E n \in {0, 2, 3} : \E to : Grow(n, to)
  <2>1. PICK n \in {0, 2, 3} : \E to : Grow(n, to)
    BY <1>3
  <2> DEFINE all == 1 .. Len(preds) + n
  <2>2. /\ DOMAIN preds' = all
        /\ \A b \in all : defs'[b] = IF b \in Blocks THEN defs[b] ELSE <<>>
    BY <2>1 DEF Grow
  <2> QED BY <2>2 DEF PhiInv, ValuesOK, Blocks
<1>4. CASE AssignLocal
  <2>1. PICK val \in Results :
          IF WriteAsserts(val) THEN WriteLocalVariable(curr, stmt.dst, val)
          ELSE status' = "abort" /\ UNCHANGED defs
    BY <1>4 DEF AssignLocal
  <2>2. val \in Usable /\ UNCHANGED preds
    BY <1>4, <2>1, ResultUsable DEF AssignLocal
  <2>3. DefsUsable
    <3>1. CASE UNCHANGED defs
      BY <3>1 DEF DefsUsable
    <3>2. CASE WriteLocalVariable(curr, stmt.dst, val)
      BY <2>2, <3>2, WriteUsable
    <3> QED BY <2>1, <3>1, <3>2
  <2> QED BY <2>2, <2>3 DEF DefsUsable, PhiInv, ValuesOK, Blocks
<1>5. BeginIf \/ BeginWhileReusing \/ BeginWhile \/ BranchIf \/ BranchWhile
        => \E n \in {0, 2, 3} : \E to : Grow(n, to)
  BY DEF BeginIf, BeginWhileReusing, BeginWhile, BranchIf, BranchWhile
<1>6. EndThen \/ EndIf \/ EndWhile
        => UNCHANGED <<preds, defs>> \/ \E n \in {0, 2, 3} : \E to : Grow(n, to)
  BY DEF EndThen, EndIf, EndWhile, BranchUnlessTerminated
<1>7. BeginSimple \/ ReadLocal \/ TakeOperand \/ LoadMemory \/ AssignGlobal
        \/ AssignVarParameter \/ EmitReturn \/ EndProcedure => UNCHANGED <<preds, defs>>
  BY DEF BeginSimple, ReadLocal, TakeOperand, LoadMemory, AssignGlobal,
         AssignVarParameter, EmitReturn, EndProcedure, ssaVars, irVars
<1> QED BY <1>2, <1>3, <1>4, <1>5, <1>6, <1>7 DEF Statement

\* The operands of a statement are the values it has read so far.
LEMMA StatementVals ==
  ASSUME IInv, PhiInv, Statement
  PROVE  /\ vals' \in Seq(Usable) /\ (pc' # "operands" => vals' = <<>>)
         /\ ret \in Usable /\ ret' \in Usable
<1> DEFINE U == Usable
<1>1. calls = <<>> /\ sealing = NoBlock /\ Emitting
  BY StatementIdle, StatementKeepsPhis
<1>2. vals \in Seq(U) /\ ret \in U /\ (pc # "operands" => vals = <<>>)
  BY <1>1 DEF PhiInv, ValuesOK, InChain
<1>3. None \in U /\ Ins(fresh) \in U
  BY ValuesFacts DEF Usable, IInv, BlocksOK
<1> HIDE DEF U
<1>4. CASE vals' = <<>>
  <2>1. ret' = ret \/ ret' = None
    BY DEF Statement, BeginSimple, BeginIf, BeginWhileReusing, BeginWhile, ReadLocal,
           TakeOperand, LoadMemory, AssignLocal, AssignGlobal, AssignVarParameter, BranchIf,
           BranchWhile, EmitReturn, EndThen, EndIf, EndWhile, EndProcedure, ssaVars
  <2> QED BY <1>2, <1>3, <1>4, <2>1 DEF U
<1>5. CASE ReadLocal \/ AssignVarParameter
  BY <1>2, <1>5 DEF ReadLocal, AssignVarParameter, driverVars, U
<1>6. CASE TakeOperand
  <2>1. vals' = Append(vals, ret) /\ ret' = None /\ pc = "operands" /\ pc' = pc
    BY <1>6 DEF TakeOperand, At
  <2>2. Append(vals, ret) \in Seq(U)
    BY <1>2
  <2> QED BY <1>2, <1>3, <2>1, <2>2 DEF U
<1>7. CASE LoadMemory
  <2>1. vals' = Append(vals, Ins(fresh)) /\ ret' = ret /\ pc = "operands" /\ pc' = pc
    BY <1>7 DEF LoadMemory, Wanted, At
  <2>2. Append(vals, Ins(fresh)) \in Seq(U)
    BY <1>2, <1>3
  <2> QED BY <1>2, <2>1, <2>2 DEF U
<1>8. BeginSimple \/ BeginIf \/ BeginWhileReusing \/ BeginWhile \/ AssignLocal \/ AssignGlobal
        \/ BranchIf \/ BranchWhile \/ EmitReturn => vals' = <<>>
  BY DEF BeginSimple, BeginIf, BeginWhileReusing, BeginWhile, Fetch, AssignLocal,
         AssignGlobal, NextStatement, BranchIf, BranchWhile, EmitReturn
<1>9. EndThen \/ EndIf \/ EndWhile \/ EndProcedure => pc = "fetch" /\ vals' = vals
  BY DEF EndThen, EndIf, EndWhile, EndProcedure, AtEnd, At
<1> QED BY <1>2, <1>4, <1>5, <1>6, <1>7, <1>8, <1>9 DEF Statement

\* An emitter adds blocks and edges, none of them to a sealed block.
LEMMA StatementPhis ==
  ASSUME IInv, CallsOK, PhiInv, Statement
  PROVE  PhiInv'
<1>1. /\ calls = <<>> /\ sealing = NoBlock /\ Emitting
      /\ UNCHANGED <<phis, users, sealed, sealing, visited>> /\ fresh' \in {fresh, fresh + 1}
  BY StatementIdle, StatementKeepsPhis
<1>2. \/ Contract!Grow
      \/ UNCHANGED <<preds, incomplete, sealed>>
  BY BeginRefines, BranchRefines, EndRefines, OtherStatementsStutter DEF Statement
<1>3. /\ \A b \in sealed : preds'[b] = preds[b]
      /\ \A b \in Blocks' : incomplete'[b] = IF b \in Blocks THEN incomplete[b] ELSE {}
  BY <1>2 DEF Contract!Grow, Blocks
<1>4. Blocks \subseteq Blocks'
  BY ContractKeepsBlocks DEF Next
<1>5. NoBlock \notin Blocks
  BY DEF NoBlock, Blocks, IInv, BlocksOK
<1>6. \A b \in Blocks : incomplete'[b] \subseteq incomplete[b] /\ Waiting(b)' = Waiting(b)
  BY <1>1, <1>3, <1>4 DEF Waiting
<1>7. \A p \in DOMAIN phis : Whole(p) => Whole(p)'
  BY <1>1, <1>3, <1>5 DEF Whole, Filled, PhiInv, PhisOK
<1>8. calls' = <<>> \/ \E f : f.op = "read" /\ calls' = <<f>> /\ Emitting'
  <2>1. CASE UNCHANGED calls
    BY <1>1, <2>1
  <2>2. CASE ReadLocal
    <3>1. Emitting'
      BY <1>1, <2>2 DEF ReadLocal, driverVars, Emitting
    <3>2. \A b, v : ReadCall(b, v).op = "read"
      BY DEF ReadCall
    <3> QED BY <2>2, <3>1, <3>2 DEF ReadLocal
  <2> QED BY <2>1, <2>2, StatementCalls
<1>9. /\ vals' \in Seq(Usable) /\ (pc' # "operands" => vals' = <<>>) /\ ret' \in Usable
      /\ \A b \in Blocks' : \A v \in DOMAIN defs'[b] : defs'[b][v] \in Usable
  BY StatementVals, StatementDefs
<1> QED BY <1>1, <1>3, <1>4, <1>6, <1>7, <1>8, <1>9, EntryNumbers, IdlePhis

-----------------------------------------------------------------------------
(* The theorems.                                                            *)

\* At the start there is no phi.
LEMMA InitPhis == Init => PhiInv
<1> SUFFICES ASSUME Init PROVE PhiInv
  OBVIOUS
<1>1. /\ phis = <<>> /\ users = <<>> /\ calls = <<>> /\ vals = <<>> /\ ret = None
      /\ incomplete = << {} >> /\ preds = << <<>> >> /\ sealing = NoBlock
      /\ defs = << [v \in Parameters |-> Arg(v)] >>
  BY DEF Init
<1>2. Blocks = {1} /\ incomplete[1] = {} /\ DOMAIN phis = {} /\ DOMAIN calls = {}
  BY <1>1 DEF Blocks
<1>3. EntriesOK
  BY <1>1, <1>2 DEF EntriesOK, Waiting, NoBlock
<1>4. PhisOK /\ UsersOK
  <2>1. Hidden = {}
    BY <1>2 DEF Hidden
  <2>2. phis = [p \in {} |-> phis[p]] /\ users = [p \in {} |-> users[p]]
    BY <1>1
  <2>3. phis \in [DOMAIN phis -> [bb : Blocks, ops : Seq(Usable)]]
    BY <1>2, <2>2
  <2>4. users \in [DOMAIN phis -> Seq(Nat)]
    BY <1>2, <2>2
  <2> QED BY <1>2, <2>1, <2>3, <2>4 DEF PhisOK, UsersOK
<1>5. StackOK /\ FramesOK /\ FillsOK
  BY <1>1, <1>2 DEF StackOK, FramesOK, FillsOK, InChain, InFill, ToSet
<1>6. ValuesOK
  <2>1. \A v \in Parameters : Arg(v) \in Usable
    BY ValuesFacts DEF Usable, Parameters
  <2>2. vals \in Seq(Usable) /\ ret \in Usable
    BY <1>1, ValuesFacts DEF Usable
  <2> QED BY <1>1, <1>2, <2>1, <2>2 DEF ValuesOK
<1> QED BY <1>3, <1>4, <1>5, <1>6 DEF PhiInv

\* PhiInv is inductive relative to the earlier invariants.
LEMMA NextPhis ==
  ASSUME IInv, CallsOK, OneRead, Covered, PhiInv, [Next]_vars
  PROVE  PhiInv'
<1>1. CASE Step
  BY <1>1, StepPhis
<1>2. CASE Statement
  BY <1>2, StatementPhis
<1>3. CASE Sealing
  BY <1>3, SealPhis, SealStepPhis, SealEndPhis, SetCurrPhis DEF Sealing
<1>4. CASE UNCHANGED vars
  <2>1. UNCHANGED <<phiVars, defs, vals, pc, calls, ret>>
    BY <1>4 DEF vars, ssaVars, irVars, driverVars, phiVars
  <2> QED BY <2>1, UnmovedPhis
<1> QED BY <1>1, <1>2, <1>3, <1>4 DEF Next, Halt

\* The phis are in order in every reachable state.
LEMMA PhiInvariance == Spec => [](IInv /\ CallsOK /\ PhiInv)
<1>1. Init => OneRead /\ Covered
  BY DEF Init, OneRead, Covered, Blocks
<1>2. Init => PhiInv
  BY InitPhis
<1>3. IInv /\ OneRead /\ [Next]_vars => OneRead'
  BY NextOneRead
<1>4. IInv /\ CallsOK /\ Covered /\ [Next]_vars => Covered'
  BY NextCovered
<1>5. IInv /\ CallsOK /\ OneRead /\ Covered /\ PhiInv /\ [Next]_vars => PhiInv'
  BY NextPhis
<1> QED BY <1>1, <1>2, <1>3, <1>4, <1>5, CallsInvariance, PTL DEF Spec

\* Between calls every phi in a sealed block has one operand per predecessor, and every
\* phi in an open block waits for its operands, in whatever order sealBlock has taken
\* the incomplete ones.
THEOREM PhiCompleteHolds == Spec => []PhiComplete
<1>1. Init => Settled
  BY DEF Init, Settled
<1>2. IInv /\ CallsOK /\ Settled /\ [Next]_vars => Settled'
  BY NextSettled
<1>3. PhiInv /\ Settled => PhiComplete
  <2> SUFFICES ASSUME PhiInv, Settled, calls = <<>>, NEW p \in DOMAIN phis,
                      NEW b, b = phis[p].bb
               PROVE  /\ b \in sealed => Len(phis[p].ops) = Len(preds[b])
                      /\ b \notin sealed /\ sealing # b =>
                           phis[p].ops = <<>> /\ \E e \in incomplete[b] : e.phi = p
    BY DEF PhiComplete
  <2>1. Filling = {}
    BY DEF Filling
  <2>2. CASE Whole(p)
    BY <2>2 DEF Whole, Filled
  <2>3. CASE p \in Pending
    <3>1. PICK c \in Blocks : \E e \in Waiting(c) : e.phi = p
      BY <2>3 DEF Pending
    <3>2. PICK e \in Waiting(c) : e.phi = p
      BY <3>1
    <3>3. c = b /\ phis[p].ops = <<>> /\ e \in incomplete[b]
      <4>1. phis[p] = [bb |-> c, ops |-> <<>>]
        BY <3>2 DEF PhiInv, EntriesOK
      <4>2. e \in incomplete[c]
        BY <3>2 DEF Waiting
      <4> QED BY <4>1, <4>2
    <3> QED BY <3>2, <3>3 DEF Settled
  <2> QED BY <2>1, <2>2, <2>3 DEF PhiInv, PhisOK
<1> QED BY <1>1, <1>2, <1>3, PhiInvariance, CallsInvariance, PTL DEF Spec

\* optimizePhi never judges a phi that still lacks operands, though it is called on
\* whoever uses an erased phi.
THEOREM OptimizesOnlyCompleteHolds == Spec => []OptimizesOnlyComplete
<1>1. CallsOK /\ PhiInv => OptimizesOnlyComplete
  <2> SUFFICES ASSUME CallsOK, PhiInv, Running("opt"), Top.phi \in DOMAIN phis
               PROVE  Filled(Top.phi) = Len(preds[phis[Top.phi].bb])
    BY DEF OptimizesOnlyComplete
  <2>1. calls # <<>> /\ Top.op = "opt"
    BY DEF Running
  <2>2. Top = calls[Len(calls)] /\ Len(calls) \in DOMAIN calls
    BY <2>1, StackFacts
  <2>3. Top.phi \notin Pending
    BY <2>1, TopInOrder DEF PhiInv, FramesOK, FrameOK, Optimizable
  <2>4. ASSUME NEW i \in DOMAIN calls, calls[i].op = "fill"
        PROVE  calls[i].phi # Top.phi
    <3>1. InFill
      BY <2>1, <2>4, Phase DEF PhiInv, StackOK
    <3> QED BY <2>1, <2>2, <2>4, <3>1 DEF PhiInv, FillsOK
  <2>5. Top.phi \notin Filling
    BY <2>4 DEF Filling
  <2> QED BY <2>3, <2>5 DEF PhiInv, PhisOK, Whole
<1> QED BY <1>1, PhiInvariance, PTL

\* Simplifying phis never erases one that is being filled, nor one that sealBlock still
\* holds as a raw pointer in IncompletePhis.
THEOREM UnderConstructionAliveHolds == Spec => []UnderConstructionAlive
<1>1. PhiInv => UnderConstructionAlive
  <2> SUFFICES ASSUME PhiInv PROVE UnderConstructionAlive
    OBVIOUS
  <2>1. ASSUME NEW i \in DOMAIN calls, calls[i].op = "fill"
        PROVE  calls[i].phi \in DOMAIN phis
    <3>1. FrameOK(calls[i])
      BY DEF PhiInv, FramesOK, ToSet
    <3> QED BY <2>1, <3>1 DEF FrameOK
  <2>2. ASSUME NEW b \in Blocks, NEW e \in incomplete[b], ~ (sealing = b /\ e \in visited)
        PROVE  e.phi \in DOMAIN phis /\ phis[e.phi].ops = <<>>
    <3>1. e \in Waiting(b)
      BY <2>2 DEF Waiting
    <3>2. e.phi \in DOMAIN phis /\ phis[e.phi] = [bb |-> b, ops |-> <<>>]
      BY <3>1 DEF PhiInv, EntriesOK
    <3> QED BY <3>2
  <2> QED BY <2>1, <2>2 DEF UnderConstructionAlive
<1> QED BY <1>1, PhiInvariance, PTL

\* No value the rest of the procedure is emitted from points to an erased phi: whatever
\* optimizePhi erases, operands, definitions and phis follow.
THEOREM UsedValuesAliveHolds == Spec => []UsedValuesAlive
<1>1. PhiInv => UsedValuesAlive
  <2> SUFFICES ASSUME PhiInv PROVE UsedValuesAlive
    OBVIOUS
  <2>1. ASSUME NEW val \in Usable
        PROVE  Alive(val)
    BY PhiValue DEF Usable, Alive
  <2> DEFINE U == Usable
  <2>2. vals \in Seq(U) /\ phis \in [DOMAIN phis -> [bb : Blocks, ops : Seq(U)]]
    BY DEF PhiInv, ValuesOK, PhisOK
  <2>3. \A val \in U : Alive(val)
    BY <2>1
  <2> HIDE DEF U
  <2>4. /\ \A i \in DOMAIN vals : Alive(vals[i])
        /\ \A p \in DOMAIN phis : \A i \in DOMAIN phis[p].ops : Alive(phis[p].ops[i])
    <3>1. \A s \in Seq(U) : \A i \in DOMAIN s : s[i] \in U
      OBVIOUS
    <3>2. \A p \in DOMAIN phis : phis[p].ops \in Seq(U)
      BY <2>2
    <3> QED BY <2>2, <2>3, <3>1, <3>2
  <2>5. \A b \in Blocks : \A v \in DOMAIN defs[b] : Alive(defs[b][v])
    BY <2>1 DEF PhiInv, ValuesOK
  <2>6. Alive(ret) \/ (sealing # NoBlock /\ (calls = <<>> \/ calls[1].op # "fill"))
    <3>1. InChain => sealing # NoBlock /\ calls[1].op # "fill"
      BY DEF PhiInv, StackOK, InChain
    <3> QED BY <2>1, <3>1 DEF PhiInv, ValuesOK
  <2> QED BY <2>4, <2>5, <2>6 DEF UsedValuesAlive
<1> QED BY <1>1, PhiInvariance, PTL

-----------------------------------------------------------------------------
(* Joins break cycles.  A call that has begun a phi has also written what   *)
(* stops a read from coming back to it, even when that is a null: whoever   *)
(* reads the variable there meanwhile finds a definition.                   *)

\* A call that fills a phi, or waits behind one at a join.
Marked(f) == f.op = "fill" \/ (f.op = "write" /\ Len(preds[f.bb]) # 1)

\* Where such a call works, its variable has a definition.
Seen ==
  \A i \in DOMAIN calls : Marked(calls[i]) => calls[i].var \in DOMAIN defs[calls[i].bb]

\* A step that begins no phi and removes no definition.
LEMMA NoNewMark ==
  ASSUME CallsOK, Seen, JoinsBreakCycles, UNCHANGED preds,
         \A b \in Blocks : DOMAIN defs[b] \subseteq DOMAIN defs'[b],
         \A i \in DOMAIN calls' : Marked(calls'[i]) => i \in DOMAIN calls /\ calls'[i] = calls[i]
  PROVE  (Seen /\ JoinsBreakCycles)'
<1>1. \A f : Marked(f)' <=> Marked(f)
  BY DEF Marked
<1>2. \A i \in DOMAIN calls : Marked(calls[i]) => calls[i].bb \in Blocks
  BY DEF CallsOK, ToSet, Marked
<1>3. Seen'
  BY <1>1, <1>2 DEF Seen, Marked
<1>4. JoinsBreakCycles'
  <2> SUFFICES ASSUME NEW i \in DOMAIN calls', NEW j \in DOMAIN calls', i < j,
                      calls'[i].op = calls'[j].op, calls'[i].op \in {"write", "fill"},
                      <<calls'[i].bb, calls'[i].var>> = <<calls'[j].bb, calls'[j].var>>,
                      ~ (calls'[i].op = "write" /\ Len(preds[calls'[i].bb]) = 1)
               PROVE  FALSE
    BY DEF JoinsBreakCycles
  <2>1. Marked(calls'[i]) /\ Marked(calls'[j])
    BY DEF Marked
  <2>2. i \in DOMAIN calls /\ j \in DOMAIN calls /\ calls'[i] = calls[i] /\ calls'[j] = calls[j]
    BY <2>1
  <2> QED BY <2>2 DEF JoinsBreakCycles
<1> QED BY <1>3, <1>4

\* readLocalVariableRecursive begins a phi at a join: no call there has begun one for
\* the variable, which had no definition.
LEMMA JoinMarked ==
  ASSUME CallsOK, DOMAIN defs = Blocks, Seen, JoinsBreakCycles, ReadJoin, ~ Die("abort")
  PROVE  (Seen /\ JoinsBreakCycles)'
<1> DEFINE n == Len(calls)
           b == Top.bb
           v == Top.var
           w == WriteBack(b, v)
           f == FillCall(b, v, fresh)
<1>1. /\ calls # <<>> /\ b \in Blocks /\ v \notin DOMAIN defs[b] /\ Len(preds[b]) # 1
      /\ WriteLocalVariable(b, v, Null) /\ UNCHANGED preds
      /\ calls' = Front(calls) \o <<w, f>>
  <2>1. calls # <<>> /\ Top.op = "read" /\ v \notin DOMAIN defs[b] /\ Len(preds[b]) # 1
    BY DEF ReadJoin, ReadMiss, Running
  <2> QED BY <2>1, TopInOrder DEF ReadJoin, Become
<1>2. n \in Nat \ {0} /\ DOMAIN calls = 1 .. n
  BY <1>1, StackFacts
<1>3. /\ DOMAIN calls' = 1 .. n + 1 /\ \A i \in 1 .. n - 1 : calls'[i] = calls[i]
      /\ calls'[n] = w /\ calls'[n + 1] = f
  <2> HIDE DEF w, f
  <2> QED BY <1>1, CallFacts
<1>4. /\ w.op = "write" /\ w.bb = b /\ w.var = v
      /\ f.op = "fill" /\ f.bb = b /\ f.var = v
  BY DEF WriteBack, FillCall
<1>5. /\ \A c \in Blocks : DOMAIN defs[c] \subseteq DOMAIN defs'[c]
      /\ v \in DOMAIN defs'[b]
  BY <1>1, BindGrows
<1> HIDE DEF n, b, v, w, f
<1>6. \A i \in 1 .. n - 1 : Marked(calls[i]) =>
        /\ calls[i].bb \in Blocks /\ calls[i].var \in DOMAIN defs[calls[i].bb]
        /\ <<calls[i].bb, calls[i].var>> # <<b, v>>
  <2> SUFFICES ASSUME NEW i \in 1 .. n - 1, Marked(calls[i])
               PROVE  /\ calls[i].bb \in Blocks /\ calls[i].var \in DOMAIN defs[calls[i].bb]
                      /\ <<calls[i].bb, calls[i].var>> # <<b, v>>
    OBVIOUS
  <2>1. i \in DOMAIN calls /\ calls[i].op \in {"write", "fill"}
    BY <1>2 DEF Marked
  <2>2. calls[i].bb \in Blocks /\ calls[i].var \in DOMAIN defs[calls[i].bb]
    BY <2>1 DEF CallsOK, ToSet, Seen
  <2> QED BY <1>1, <2>2
<1>7. \A i \in DOMAIN calls' : i \in 1 .. n - 1 \/ i = n \/ i = n + 1
  BY <1>2, <1>3
<1>8. Seen'
  <2> SUFFICES ASSUME NEW i \in DOMAIN calls', Marked(calls'[i])
               PROVE  calls'[i].var \in DOMAIN defs'[calls'[i].bb]
    BY <1>1 DEF Seen, Marked
  <2>1. CASE i \in 1 .. n - 1
    <3>1. Marked(calls[i]) /\ calls'[i] = calls[i]
      BY <1>3, <2>1
    <3> QED BY <1>5, <1>6, <2>1, <3>1
  <2>2. CASE i = n \/ i = n + 1
    BY <1>3, <1>4, <1>5, <2>2
  <2> QED BY <1>7, <2>1, <2>2
<1>9. JoinsBreakCycles'
  <2> SUFFICES ASSUME NEW i \in DOMAIN calls', NEW j \in DOMAIN calls', i < j,
                      calls'[i].op = calls'[j].op, calls'[i].op \in {"write", "fill"},
                      <<calls'[i].bb, calls'[i].var>> = <<calls'[j].bb, calls'[j].var>>,
                      ~ (calls'[i].op = "write" /\ Len(preds[calls'[i].bb]) = 1)
               PROVE  FALSE
    BY <1>1 DEF JoinsBreakCycles
  <2>1. Marked(calls'[i])
    BY DEF Marked
  <2>2. CASE j \in 1 .. n - 1
    <3>1. i \in 1 .. n - 1 /\ i \in DOMAIN calls /\ j \in DOMAIN calls
      BY <1>2, <1>3, <2>2
    <3> QED BY <1>3, <2>2, <3>1 DEF JoinsBreakCycles
  <2>3. CASE j \in {n, n + 1} /\ i \in 1 .. n - 1
    <3>1. calls'[i] = calls[i] /\ <<calls[i].bb, calls[i].var>> = <<b, v>>
      BY <1>3, <1>4, <2>3
    <3> QED BY <1>6, <2>1, <2>3, <3>1
  <2>4. CASE i = n /\ j = n + 1
    BY <1>3, <1>4, <2>4
  <2> QED BY <1>2, <1>3, <1>7, <2>2, <2>3, <2>4
<1> QED BY <1>8, <1>9

\* The other steps of the recursive functions begin no phi.
LEMMA StepMarks ==
  ASSUME IInv, CallsOK, Seen, JoinsBreakCycles, SSAStep
  PROVE  (Seen /\ JoinsBreakCycles)'
<1> DEFINE n == Len(calls)
           Known == \A i \in DOMAIN calls' :
                      Marked(calls'[i]) => i \in DOMAIN calls /\ calls'[i] = calls[i]
<1>1. DOMAIN defs = Blocks
  BY DEF IInv, BlocksOK
<1>2. CASE ReadJoin /\ ~ Die("abort")
  BY <1>1, <1>2, JoinMarked
<1>3. /\ UNCHANGED preds
      /\ \A b \in Blocks : DOMAIN defs[b] \subseteq DOMAIN defs'[b]
  <2>1. UNCHANGED preds
    BY DEF SSAStep, ReadHit, ReadUnsealed, ReadSinglePredecessor, ReadJoin, WriteAndReturn,
           FillRead, FillAdd, FillDone, OptErased, OptKeep, OptReplace, ReoptNext, ReoptDone,
           Die, irVars
  <2> QED BY <2>1, SSADefsGrow
<1>4. CASE UNCHANGED calls
  BY <1>3, <1>4, NoNewMark
<1>5. calls # <<>> => n \in Nat \ {0} /\ DOMAIN calls = 1 .. n /\ Top = calls[n]
  BY StackFacts
<1>6. ASSUME calls # <<>>, calls' = Front(calls)
      PROVE  Known
  BY <1>5, <1>6, PopFacts
<1>7. ASSUME calls # <<>>, NEW a, calls' = Front(calls) \o <<a>>, ~ Marked(a)
      PROVE  Known
  <2>1. /\ DOMAIN calls' = 1 .. n /\ calls'[n] = a
        /\ \A i \in 1 .. n - 1 : calls'[i] = calls[i]
    BY <1>7, ReplaceFacts
  <2> HIDE DEF n
  <2>2. \A i \in 1 .. n : i = n \/ (i \in 1 .. n - 1 /\ i \in DOMAIN calls)
    BY <1>5, <1>7
  <2> QED BY <1>7, <2>1, <2>2
<1>8. ASSUME calls # <<>>, NEW a, NEW b, calls' = Front(calls) \o <<a, b>>,
             a = Top \/ ~ Marked(a), ~ Marked(b)
      PROVE  Known
  <2>1. /\ DOMAIN calls' = 1 .. n + 1 /\ calls'[n] = a /\ calls'[n + 1] = b
        /\ \A i \in 1 .. n - 1 : calls'[i] = calls[i]
    BY <1>8, CallFacts
  <2> HIDE DEF n
  <2>2. \A i \in 1 .. n + 1 : i = n \/ i = n + 1 \/ (i \in 1 .. n - 1 /\ i \in DOMAIN calls)
    BY <1>5, <1>8
  <2>3. n \in DOMAIN calls /\ Top = calls[n]
    BY <1>5, <1>8
  <2> QED BY <1>8, <2>1, <2>2, <2>3
<1>9. CASE ReadHit \/ ReadUnsealed \/ WriteAndReturn \/ OptKeep \/ ReoptDone
  <2>1. calls # <<>> /\ (UNCHANGED calls \/ calls' = Front(calls))
    BY <1>9 DEF ReadHit, ReadUnsealed, ReadMiss, WriteAndReturn, OptKeep, ReoptDone, Running,
                Return, Die
  <2> QED BY <1>3, <1>4, <1>6, <2>1, NoNewMark
<1>10. CASE ReadSinglePredecessor
  <2> DEFINE a == WriteBack(Top.bb, Top.var)
             b == ReadCall(preds[Top.bb][1], Top.var)
  <2>1. calls # <<>> /\ calls' = Front(calls) \o <<a, b>> /\ Len(preds[Top.bb]) = 1
    BY <1>10 DEF ReadSinglePredecessor, ReadMiss, Running, Become
  <2>2. ~ Marked(a) /\ ~ Marked(b)
    BY <2>1 DEF Marked, WriteBack, ReadCall
  <2> HIDE DEF a, b
  <2>3. Known
    BY <1>8, <2>1, <2>2
  <2> QED BY <1>3, <2>3, NoNewMark
<1>11. CASE FillRead
  <2>1. PICK i \in DOMAIN preds[Top.bb] :
          Become(<<Top, ReadCall(preds[Top.bb][i], Top.var)>>)
    BY <1>11 DEF FillRead
  <2> DEFINE b == ReadCall(preds[Top.bb][i], Top.var)
  <2>2. calls # <<>> /\ calls' = Front(calls) \o <<Top, b>>
    BY <1>11, <2>1 DEF FillRead, Running, Become
  <2>3. ~ Marked(b)
    BY DEF Marked, ReadCall
  <2> HIDE DEF b
  <2>4. Known
    BY <1>8, <2>2, <2>3
  <2> QED BY <1>3, <2>4, NoNewMark
<1>12. CASE FillDone \/ OptReplace
  <2>1. PICK a : calls # <<>> /\ calls' = Front(calls) \o <<a>> /\ a.op \in {"opt", "reopt"}
    <3>1. CASE FillDone
      <4>1. calls # <<>> /\ \E p : Become(<<OptCall(p)>>)
        BY <3>1 DEF FillDone, Running
      <4>2. \A p : OptCall(p).op = "opt"
        BY DEF OptCall
      <4> QED BY <4>1, <4>2 DEF Become
    <3>2. CASE OptReplace
      <4>1. calls # <<>> /\ \E same, todo : Become(<<ReoptLoop(same, todo)>>)
        BY <3>2 DEF OptReplace, Running
      <4>2. \A same, todo : ReoptLoop(same, todo).op = "reopt"
        BY DEF ReoptLoop
      <4> QED BY <4>1, <4>2 DEF Become
    <3> QED BY <1>12, <3>1, <3>2
  <2>2. Known
    BY <1>7, <2>1 DEF Marked
  <2> QED BY <1>3, <2>2, NoNewMark
<1>13. CASE ReoptNext
  <2> DEFINE a == ReoptLoop(Top.same, Tail(Top.todo))
             b == OptCall(Head(Top.todo))
  <2>1. calls # <<>> /\ calls' = Front(calls) \o <<a, b>>
    BY <1>13 DEF ReoptNext, Running, Become
  <2>2. ~ Marked(a) /\ ~ Marked(b)
    BY DEF Marked, ReoptLoop, OptCall
  <2> HIDE DEF a, b
  <2>3. Known
    BY <1>8, <2>1, <2>2
  <2> QED BY <1>3, <2>3, NoNewMark
<1>14. (ReadJoin /\ Die("abort")) \/ FillAdd \/ OptErased => UNCHANGED calls
  BY DEF FillAdd, OptErased, Die
<1> QED BY <1>2, <1>4, <1>9, <1>10, <1>11, <1>12, <1>13, <1>14 DEF SSAStep

\* Outside the recursive functions there is at most one call.
LEMMA NextMarks ==
  ASSUME IInv, CallsOK, Covered, Seen, JoinsBreakCycles, [Next]_vars
  PROVE  (Seen /\ JoinsBreakCycles)'
<1>1. CASE Step
  BY <1>1, StepMarks DEF Step
<1>2. ASSUME calls' = <<>>
      PROVE  (Seen /\ JoinsBreakCycles)'
  BY <1>2 DEF Seen, JoinsBreakCycles
<1>3. ASSUME NEW a, calls' = <<a>>,
             a.op = "fill" => a.var \in DOMAIN defs'[a.bb], a.op # "write"
      PROVE  (Seen /\ JoinsBreakCycles)'
  <2>1. DOMAIN calls' = {1} /\ calls'[1] = a
    BY <1>3
  <2> QED BY <1>3, <2>1 DEF Seen, JoinsBreakCycles, Marked
<1>4. CASE Statement
  <2>1. calls = <<>> /\ (ReadLocal \/ UNCHANGED calls)
    BY <1>4, StatementIdle, StatementCalls
  <2>2. CASE ReadLocal
    <3>1. \A b, v : ReadCall(b, v).op = "read"
      BY DEF ReadCall
    <3> QED BY <1>3, <2>2, <3>1 DEF ReadLocal
  <2> QED BY <1>2, <2>1, <2>2
<1>5. CASE Seal \/ SealEnd
  <2>1. calls' = <<>>
    BY <1>5 DEF Seal, SealEnd, SealStart, SealFinish, Idle
  <2> QED BY <1>2, <2>1
<1>6. CASE SealStep
  <2>1. PICK e \in incomplete[sealing] : calls' = <<FillCall(sealing, e.var, e.phi)>>
    BY <1>6 DEF SealStep, SealPhi
  <2>2. sealing \in Blocks /\ UNCHANGED defs
    BY <1>6 DEF SealStep, SealPhi, IInv, BlocksOK
  <2> DEFINE a == FillCall(sealing, e.var, e.phi)
  <2>3. a.op = "fill" /\ a.var \in DOMAIN defs'[a.bb]
    BY <2>2 DEF FillCall, Covered
  <2>4. calls' = <<a>>
    BY <2>1
  <2> HIDE DEF a
  <2> QED BY <1>3, <2>3, <2>4
<1>7. CASE SetCurr \/ UNCHANGED vars
  <2>1. UNCHANGED <<preds, defs, calls>>
    BY <1>7 DEF SetCurr, vars, ssaVars, irVars
  <2> QED BY <2>1, NoNewMark
<1> QED BY <1>1, <1>4, <1>5, <1>6, <1>7 DEF Next, Sealing, Halt

\* At a join the recursion through the predecessors comes back to a definition, never to
\* a variable it is already building a phi for, whatever loops the procedure has.
THEOREM JoinsBreakCyclesHolds == Spec => []JoinsBreakCycles
<1>1. Init => Covered /\ Seen /\ JoinsBreakCycles
  BY DEF Init, Covered, Seen, JoinsBreakCycles, Blocks
<1>2. IInv /\ CallsOK /\ Covered /\ [Next]_vars => Covered'
  BY NextCovered
<1>3. IInv /\ CallsOK /\ Covered /\ Seen /\ JoinsBreakCycles /\ [Next]_vars
        => (Seen /\ JoinsBreakCycles)'
  BY NextMarks
<1> QED BY <1>1, <1>2, <1>3, CallsInvariance, PTL DEF Spec

=============================================================================
