----------------------------- MODULE Driver_proofs -----------------------------
(***************************************************************************)
(* What holds of the parser holds in the driver, which runs it on one file    *)
(* after the other.                                                         *)
(***************************************************************************)
EXTENDS Driver, Parser_proofs

LEMMA DriverStepCoherent == ASSUME Coherence, [DriverNext]_driverVars PROVE Coherence'
<1>1. CASE ReadFile
  <2>1. /\ calls' = <<Frame("parse", Locals, None)>> /\ scopes' = InitialScopes
        /\ decls' = InitialDecls /\ current' = Null
    BY <1>1, Zenon DEF ReadFile
  <2> QED BY <2>1, StartCoherent, Zenon DEF Coherence
<1>2. CASE Parse
  BY <1>2, StepCoherent, Zenon DEF Parse, Next
<1>3. CASE UNCHANGED vars
  BY <1>3, UnchangedCoherent DEF vars, semaVars
<1>4. ReadError \/ EndParse \/ Generate \/ FatalError \/ Emit \/ DriverHalt \/ UNCHANGED driverVars
      => UNCHANGED vars
  BY Zenon DEF ReadError, EndParse, Generate, FatalError, Emit, DriverHalt, driverVars, parserVars
<1> QED BY <1>1, <1>2, <1>3, <1>4, Zenon DEF DriverNext

LEMMA DriverCoherenceHolds == DriverSpec => []Coherence
<1>1. DriverInit => Coherence
  BY StartCoherent, Zenon DEF DriverInit, initialize, Coherence
<1>2. Coherence /\ [DriverNext]_driverVars => Coherence'
  BY DriverStepCoherent
<1> QED BY <1>1, <1>2, PTL DEF DriverSpec

\* A file that is parsed after another one starts with scopes of its own.
THEOREM DriverScopesMatchCalls == DriverSpec => [](ScopesMatchCalls /\ ScopesHoldOwn)
<1>1. Coherence => ScopesMatchCalls /\ ScopesHoldOwn
  BY SameScopes DEF Coherence, Coherent, Matches, Holds, ScopesMatchCalls, ScopesHoldOwn
<1> QED BY <1>1, DriverCoherenceHolds, PTL

-----------------------------------------------------------------------------
(* What types are made of.                                                  *)

TypeDecls(d) == {t \in DOMAIN d : d[t].kind \in {"Alias", "Pervasive", "Pointer", "Record"}}
Owners(d) == {t \in DOMAIN d : d[t].kind \in {"Proc", "Module"}}

\* The types that the declaration x names.
MadeOf(x) ==
  IF x.kind \in {"Var", "Param", "Alias", "Pointer"} THEN {x.type}
  ELSE IF x.kind = "Record" THEN {x.fields[i].type : i \in DOMAIN x.fields} ELSE {}

Founded(d) == \A i \in DOMAIN d : \A t \in MadeOf(d[i]) : t \in TypeDecls(d) /\ t < i

\* What a call knows of declarations: the name it has looked up, and the fields it has
\* read, have types; what has a scope of its own is a procedure or a module.
TypedLocals(x, d) ==
  /\ x.D \in DOMAIN d \cup {Null} /\ x.Ret \in DOMAIN d \cup {Null}
  /\ IsSeq(x.Fields) /\ \A i \in DOMAIN x.Fields : x.Fields[i].type \in TypeDecls(d)
TypedFrame(f, d) ==
  /\ TypedLocals(f.locals, d)
  /\ f.scoped \/ Enters(f.rest) => f.locals.D \in Owners(d)

Typed(c, d) == Founded(d) /\ \A k \in DOMAIN c : TypedFrame(c[k], d)

\* The declarations that were there are of the class they were.
Kinded(d, d2) == DOMAIN d \subseteq DOMAIN d2 /\ \A i \in DOMAIN d : d2[i].kind = d[i].kind

LEMMA KindedItself == ASSUME NEW d PROVE Kinded(d, d)
  BY DEF Kinded

LEMMA LocalsGrow ==
  ASSUME NEW d, NEW d2, Kinded(d, d2), NEW x, TypedLocals(x, d)
  PROVE  TypedLocals(x, d2)
<1>1. TypeDecls(d) \subseteq TypeDecls(d2) /\ DOMAIN d \subseteq DOMAIN d2
  BY DEF Kinded, TypeDecls
<1> QED BY <1>1 DEF TypedLocals

LEMMA FrameGrows ==
  ASSUME NEW d, NEW d2, Kinded(d, d2), NEW f, TypedFrame(f, d)
  PROVE  TypedFrame(f, d2)
<1>1. Owners(d) \subseteq Owners(d2)
  BY DEF Kinded, Owners
<1> QED BY <1>1, LocalsGrow DEF TypedFrame

\* The innermost call goes on, calls another function, or returns.
LEMMA ReplacedTyped ==
  ASSUME NEW c, IsSeq(c), NEW d, Typed(c, d), NEW g, NEW c2, Replaced(c, g, c2),
         NEW d2, Kinded(d, d2), Founded(d2), TypedFrame(g, d2)
  PROVE  Typed(c2, d2)
<1>1. PICK n \in Nat : n = Len(c) /\ DOMAIN c = 1..n /\ DOMAIN c2 = 1..n
  BY SeqFacts DEF Replaced
<1>2. \A k \in 1..n : k = n \/ k \in 1..(n - 1)
  OBVIOUS
<1>3. \A k \in 1..n : c2[k] = g \/ c2[k] = c[k]
  BY <1>1, <1>2 DEF Replaced
<1>4. \A k \in 1..n : TypedFrame(c[k], d2)
  BY <1>1, FrameGrows DEF Typed
<1> QED BY <1>1, <1>3, <1>4 DEF Typed

LEMMA PushedTyped ==
  ASSUME NEW c, IsSeq(c), NEW d, Typed(c, d), NEW g, NEW h, NEW c2, Pushed(c, g, h, c2),
         TypedFrame(g, d), TypedFrame(h, d)
  PROVE  Typed(c2, d)
<1>1. PICK n \in Nat : n = Len(c) /\ DOMAIN c = 1..n /\ DOMAIN c2 = 1..(n + 1)
  BY SeqFacts DEF Pushed
<1>2. \A k \in 1..(n + 1) : k = n + 1 \/ k = n \/ (k \in 1..(n - 1) /\ k \in 1..n)
  OBVIOUS
<1>3. \A k \in 1..(n + 1) : c2[k] = g \/ c2[k] = h \/ (k \in 1..n /\ c2[k] = c[k])
  BY <1>1, <1>2 DEF Pushed
<1>4. \A k \in 1..n : TypedFrame(c[k], d)
  BY <1>1 DEF Typed
<1> QED BY <1>1, <1>3, <1>4 DEF Typed

LEMMA PoppedTyped ==
  ASSUME NEW c, IsSeq(c), c # <<>>, NEW d, Typed(c, d), NEW g, NEW c2, Popped(c, g, c2),
         Len(c) > 1 => TypedFrame(g, d)
  PROVE  Typed(c2, d)
<1>1. PICK n \in Nat : n = Len(c) /\ DOMAIN c = 1..n /\ DOMAIN c2 = 1..(n - 1)
  BY SeqFacts DEF Popped
<1>2. \A k \in 1..(n - 1) : n > 1 /\ (k = n - 1 \/ (k \in 1..(n - 2) /\ k \in 1..n))
  OBVIOUS
<1>3. \A k \in 1..(n - 1) : (n > 1 /\ c2[k] = g) \/ (k \in 1..n /\ c2[k] = c[k])
  BY <1>1, <1>2 DEF Popped
<1>4. \A k \in 1..n : TypedFrame(c[k], d)
  BY <1>1 DEF Typed
<1> QED BY <1>1, <1>3, <1>4 DEF Typed

\* What is declared anew is made of what was there.
LEMMA FoundedAppended ==
  ASSUME NEW d, IsSeq(d), Founded(d), NEW ds, IsSeq(ds),
         \A i \in DOMAIN ds : MadeOf(ds[i]) \subseteq TypeDecls(d)
  PROVE  Kinded(d, d \o ds) /\ Founded(d \o ds)
<1>1. PICK S : d \in Seq(S)
  BY DEF IsSeq
<1>2. PICK T : ds \in Seq(T)
  BY DEF IsSeq
<1>3. d \in Seq(S \cup T) /\ ds \in Seq(S \cup T)
  BY <1>1, <1>2, SeqMonotonic
<1>4. PICK d2 : d2 = d \o ds
  OBVIOUS
<1>5. /\ d2 \in Seq(S \cup T) /\ Len(d2) = Len(d) + Len(ds)
      /\ \A i \in 1..Len(d2) : d2[i] = IF i <= Len(d) THEN d[i] ELSE ds[i - Len(d)]
  BY <1>3, <1>4, ConcatProperties
<1>6. PICK m \in Nat, n \in Nat : m = Len(d) /\ n = Len(ds)
  BY <1>3, LenProperties
<1>7. DOMAIN d2 = 1..(m + n) /\ DOMAIN d = 1..m /\ DOMAIN ds = 1..n
  BY <1>3, <1>5, <1>6, LenProperties
<1>8. \A i \in 1..m : i \in 1..(m + n) /\ d2[i] = d[i]
  BY <1>5, <1>6, <1>7
<1>9. \A j \in 1..(m + n) : j \in 1..m \/ (j - m \in 1..n /\ d2[j] = ds[j - m] /\ j > m)
  <2> SUFFICES ASSUME NEW j \in 1..(m + n), j \notin 1..m
               PROVE  j - m \in 1..n /\ d2[j] = ds[j - m] /\ j > m
    OBVIOUS
  <2>1. j - m \in 1..n /\ j > m /\ ~(j <= m)
    OBVIOUS
  <2> QED BY <1>5, <1>6, <1>7, <2>1
<1>10. Kinded(d, d2) /\ TypeDecls(d) \subseteq TypeDecls(d2) /\ TypeDecls(d) \subseteq 1..m
  BY <1>7, <1>8 DEF Kinded, TypeDecls
<1>11. ASSUME NEW j \in 1..(m + n), NEW t \in MadeOf(d2[j]) PROVE t \in TypeDecls(d2) /\ t < j
  <2>1. CASE j \in 1..m
    <3>1. t \in MadeOf(d[j]) /\ j \in DOMAIN d
      BY <1>7, <1>8, <1>11, <2>1
    <3> QED BY <1>10, <3>1 DEF Founded
  <2>2. CASE j - m \in 1..n /\ d2[j] = ds[j - m] /\ j > m
    <3>1. t \in TypeDecls(d)
      BY <1>7, <1>11, <2>2
    <3>2. t \in 1..m
      BY <1>10, <3>1
    <3> QED BY <1>10, <2>2, <3>1, <3>2
  <2> QED BY <1>9, <2>1, <2>2
<1> QED BY <1>4, <1>7, <1>10, <1>11 DEF Founded

(* The steps. *)

TypesHold == Coherence /\ Typed(calls, decls)

LEMMA TopTyped ==
  ASSUME TypesHold, calls # <<>>
  PROVE  /\ TypedFrame(Top, decls) /\ v = Top.locals /\ TypedLocals(v, decls)
         /\ IsSeq(calls) /\ IsSeq(decls) /\ Founded(decls)
         /\ \A t \in DOMAIN decls : IsType(t) <=> t \in TypeDecls(decls)
<1>1. DOMAIN calls = 1..Len(calls) /\ Len(calls) \in Nat /\ Len(calls) >= 1 /\ IsSeq(calls)
  BY TopFrame DEF TypesHold
<1>2. TypedFrame(Top, decls) /\ Founded(decls)
  BY <1>1 DEF TypesHold, Typed, Top
<1>3. IsSeq(decls)
  BY DEF TypesHold, Coherence, Coherent, Declared
<1>4. \A t \in DOMAIN decls : IsType(t) <=> t \in TypeDecls(decls)
  BY DEF IsType, TypeDecls
<1> QED BY <1>1, <1>2, <1>3, <1>4 DEF TypedFrame, v

\* The innermost call has done something that opens nothing.
LEMMA DoneTyped ==
  ASSUME TypesHold, NEW op, Doing(op), op \notin Opening, NEW locals, Done(locals),
         op # "lookup" => locals.D = v.D,
         Kinded(decls, decls'), Founded(decls'), TypedLocals(locals, decls')
  PROVE  Typed(calls', decls')
<1>1. calls # <<>>
  BY DEF Doing
<1>2. PICK f, g : f = Top /\ g = [f EXCEPT !.rest = Tail(f.rest), !.locals = locals]
  OBVIOUS
<1>3. /\ WellFormed(f, decls) /\ f.rest # <<>> /\ op = f.rest[1].op /\ TypedFrame(f, decls)
      /\ v = f.locals /\ IsSeq(calls)
  BY <1>1, <1>2, TopFrame, TopTyped DEF Doing, TypesHold
<1>4. /\ g.rest = Tail(f.rest) /\ g.locals = locals /\ g.scoped = f.scoped /\ f.scoped \in BOOLEAN
  BY <1>2, <1>3 DEF WellFormed
<1>5. /\ f.scoped => op # "lookup"
      /\ ~f.scoped => ~Enters(g.rest)
  BY <1>3, <1>4, NextOperation, LeftEntersNot
<1>6. f.scoped => locals.D \in Owners(decls')
  <2>1. Owners(decls) \subseteq Owners(decls')
    BY DEF Kinded, Owners
  <2> QED BY <1>3, <1>5, <2>1 DEF TypedFrame
<1>7. TypedFrame(g, decls')
  BY <1>4, <1>5, <1>6 DEF TypedFrame
<1>8. Replaced(calls, g, calls')
  <2>1. calls' = [calls EXCEPT ![Len(calls)] = g]
    BY <1>2 DEF Done, SetTop
  <2> QED BY <1>1, <1>3, <2>1, LastReplaced
<1>9. Typed(calls, decls)
  BY DEF TypesHold
<1> QED BY <1>3, <1>7, <1>8, <1>9, ReplacedTyped

\* A procedure or a module has been created, and its scope is entered next.
LEMMA CreatedTyped ==
  ASSUME TypesHold, NEW op, Doing(op), op \in {"newModule", "newProcedure"},
         NEW locals, Done(locals), locals = [v EXCEPT !.D = Len(decls) + 1],
         Kinded(decls, decls'), Founded(decls'), Len(decls) + 1 \in Owners(decls')
  PROVE  Typed(calls', decls')
<1>1. calls # <<>>
  BY DEF Doing
<1>2. PICK f, g : f = Top /\ g = [f EXCEPT !.rest = Tail(f.rest), !.locals = locals]
  OBVIOUS
<1>3. /\ WellFormed(f, decls) /\ f.rest # <<>> /\ op = f.rest[1].op /\ TypedFrame(f, decls)
      /\ v = f.locals /\ IsSeq(calls)
  BY <1>1, <1>2, TopFrame, TopTyped DEF Doing, TypesHold
<1>4. /\ g.rest = Tail(f.rest) /\ g.locals = locals /\ g.scoped = f.scoped
  BY <1>2, <1>3 DEF WellFormed
<1>5. /\ locals.D = Len(decls) + 1 /\ locals.Ret = v.Ret /\ locals.Fields = v.Fields
  BY <1>3 DEF WellFormed, Locals
<1>6. TypedLocals(locals, decls')
  <2>1. TypedLocals(v, decls')
    BY <1>3, LocalsGrow DEF TypedFrame
  <2> QED BY <1>5, <2>1 DEF TypedLocals, Owners
<1>7. TypedFrame(g, decls')
  BY <1>4, <1>5, <1>6 DEF TypedFrame
<1>8. Replaced(calls, g, calls')
  <2>1. calls' = [calls EXCEPT ![Len(calls)] = g]
    BY <1>2 DEF Done, SetTop
  <2> QED BY <1>1, <1>3, <2>1, LastReplaced
<1>9. Typed(calls, decls)
  BY DEF TypesHold
<1> QED BY <1>3, <1>7, <1>8, <1>9, ReplacedTyped

LEMMA EnterTyped == ASSUME TypesHold, EnterDeclScope PROVE Typed(calls', decls')
<1>1. calls # <<>> /\ decls' = decls
  BY DEF EnterDeclScope, Doing
<1>2. PICK f, g : f = Top /\ g = [f EXCEPT !.rest = Tail(f.rest), !.scoped = TRUE]
  OBVIOUS
<1>3. /\ WellFormed(f, decls) /\ f.rest # <<>> /\ f.rest[1].op = "enterScope"
      /\ TypedFrame(f, decls) /\ IsSeq(calls) /\ Founded(decls)
  BY <1>1, <1>2, TopFrame, TopTyped DEF EnterDeclScope, Doing, TypesHold
<1>4. Enters(f.rest)
  BY <1>3, NextOperation
<1>5. g.locals = f.locals /\ g.scoped = TRUE
  BY <1>2, <1>3 DEF WellFormed
<1>6. TypedFrame(g, decls)
  BY <1>3, <1>4, <1>5 DEF TypedFrame
<1>7. Replaced(calls, g, calls')
  <2>1. calls' = [calls EXCEPT ![Len(calls)] = g]
    BY <1>2 DEF EnterDeclScope, SetTop
  <2> QED BY <1>1, <1>3, <2>1, LastReplaced
<1>8. Typed(calls', decls)
  BY <1>3, <1>6, <1>7, KindedItself, ReplacedTyped DEF TypesHold
<1> QED BY <1>1, <1>8, Zenon

\* The innermost call does something else next.
LEMMA RestTyped ==
  ASSUME TypesHold, calls # <<>>, NEW r, SetTop([Top EXCEPT !.rest = r]),
         IF Top.scoped THEN r \in Seq(Own) ELSE r \in Seq(Inner), decls' = decls
  PROVE  Typed(calls', decls')
<1>1. PICK f, g : f = Top /\ g = [f EXCEPT !.rest = r]
  OBVIOUS
<1>2. WellFormed(f, decls) /\ TypedFrame(f, decls) /\ IsSeq(calls) /\ Founded(decls)
  BY <1>1, TopFrame, TopTyped DEF TypesHold
<1>3. g.rest = r /\ g.locals = f.locals /\ g.scoped = f.scoped
  BY <1>1, <1>2 DEF WellFormed
<1>4. ~f.scoped => ~Enters(r)
  BY <1>1, InnerEntersNot
<1>5. TypedFrame(g, decls)
  BY <1>2, <1>3, <1>4 DEF TypedFrame
<1>6. Replaced(calls, g, calls')
  <2>1. calls' = [calls EXCEPT ![Len(calls)] = g]
    BY <1>1 DEF SetTop
  <2> QED BY <1>2, <2>1, LastReplaced
<1>7. Typed(calls', decls)
  BY <1>2, <1>5, <1>6, KindedItself, ReplacedTyped DEF TypesHold
<1> QED BY <1>7, Zenon

LEMMA UnchangedTyped ==
  ASSUME TypesHold, calls' = calls, decls' = decls
  PROVE  Typed(calls', decls')
  BY DEF TypesHold

\* What the reference parameters of a call refer to.
LEMMA OutTyped ==
  ASSUME NEW out \in Outs
  PROVE  /\ "D" \in DOMAIN out => out["D"] \in {"D", "Ret"}
         /\ "Ret" \in DOMAIN out => out["Ret"] = "Ret"
         /\ "Fields" \in DOMAIN out => out["Fields"] = "Fields"
         /\ \A p \in DOMAIN out : /\ out[p] = "D" => p = "D"
                                  /\ out[p] = "Ret" => p \in {"D", "Ret"}
                                  /\ out[p] = "Fields" => p = "Fields"
  BY DEF Outs, OwnOuts, None

LEMMA CallTyped == ASSUME TypesHold, DoCall PROVE Typed(calls', decls')
<1>1. Doing("call") /\ calls # <<>> /\ Coherence /\ decls' = decls
  BY DEF DoCall, Doing, TypesHold, semaVars
<1>2. PICK S, r, out : /\ S = IF Top.scoped THEN Own ELSE Inner
                       /\ r = Tail(Top.rest) /\ r \in Seq(S)
                       /\ out = Top.rest[1].out
                       /\ Top.rest[1].fn \in DOMAIN Rules /\ out \in Outs
  BY <1>1, PartsOf
<1>3. PICK passed : passed = [x \in DOMAIN Locals |->
                      IF x \in DOMAIN out THEN v[out[x]] ELSE Locals[x]]
  OBVIOUS
<1>4. PICK f, g : f = Top /\ g = [f EXCEPT !.rest = r]
  OBVIOUS
<1>5. /\ WellFormed(f, decls) /\ TypedFrame(f, decls) /\ v = f.locals /\ TypedLocals(v, decls)
      /\ IsSeq(calls)
  BY <1>1, <1>4, TopFrame, TopTyped
<1>6. PICK h : h = Frame(Top.rest[1].fn, passed, out)
  OBVIOUS
<1>7. g.rest = r /\ g.locals = f.locals /\ g.scoped = f.scoped /\ f.scoped \in BOOLEAN
  BY <1>4, <1>5 DEF WellFormed
<1>8. TypedFrame(g, decls)
  <2>1. ~f.scoped => ~Enters(r)
    BY <1>2, <1>4, InnerEntersNot
  <2> QED BY <1>5, <1>7, <2>1 DEF TypedFrame
<1>9. /\ h.locals = passed /\ h.scoped = FALSE /\ h.rest = Rules[Top.rest[1].fn].body
  BY <1>6 DEF Frame
<1>10. TypedLocals(passed, decls)
  <2>1. /\ "D" \in DOMAIN Locals /\ "Ret" \in DOMAIN Locals /\ "Fields" \in DOMAIN Locals
        /\ Locals.D = Null /\ Locals.Ret = Null /\ Locals.Fields = <<>>
    BY DEF Locals
  <2>2. passed.D \in {v.D, v.Ret, Null}
    BY <1>2, <1>3, <2>1, OutTyped
  <2>3. passed.Ret \in {v.Ret, Null}
    BY <1>2, <1>3, <2>1, OutTyped
  <2>4. passed.Fields \in {v.Fields, <<>>}
    BY <1>2, <1>3, <2>1, OutTyped
  <2>5. IsSeq(<<>>) /\ DOMAIN <<>> = {}
    <3>1. <<>> \in Seq({})
      OBVIOUS
    <3> QED BY <3>1 DEF IsSeq
  <2> QED BY <1>5, <2>2, <2>3, <2>4, <2>5 DEF TypedLocals
<1>11. TypedFrame(h, decls)
  <2>1. Left(h.rest)
    BY <1>2, <1>9, Bodies DEF Left
  <2> QED BY <1>9, <1>10, <2>1, LeftEntersNot DEF TypedFrame
<1>12. Pushed(calls, g, h, calls')
  <2>1. calls' = Append([calls EXCEPT ![Len(calls)] = g], h)
    <3>1. g = [calls[Len(calls)] EXCEPT !.rest = Tail(calls[Len(calls)].rest)]
      BY <1>2, <1>4 DEF Top
    <3>2. [calls EXCEPT ![Len(calls)].rest = Tail(@)] = [calls EXCEPT ![Len(calls)] = g]
      BY <3>1
    <3> QED BY <1>2, <1>3, <1>6, <3>2 DEF DoCall
  <2> QED BY <1>1, <1>5, <2>1, LastPushed
<1>13. Typed(calls', decls)
  BY <1>5, <1>8, <1>11, <1>12, PushedTyped DEF TypesHold
<1> QED BY <1>1, <1>13, Zenon

LEMMA WhenTyped == ASSUME TypesHold, DoWhen PROVE Typed(calls', decls')
<1>1. Doing("when") /\ calls # <<>> /\ Coherence
  BY DEF DoWhen, Doing, TypesHold
<1>2. PICK S : /\ S = IF Top.scoped THEN Own ELSE Inner
               /\ Tail(Top.rest) \in Seq(S)
               /\ Top.rest[1].then \in Seq(S) /\ Top.rest[1].otherwise \in Seq(S)
  BY <1>1, PartsOf
<1>3. PICK p, r : /\ p = IF Is(Top.rest[1].kinds) THEN Top.rest[1].then ELSE Top.rest[1].otherwise
                  /\ r = p \o Tail(Top.rest)
  OBVIOUS
<1>4. p \in Seq(S)
  BY <1>2, <1>3
<1>5. r \in Seq(S)
  BY <1>2, <1>3, <1>4, ConcatProperties
<1>6. SetTop([Top EXCEPT !.rest = r]) /\ decls' = decls
  BY <1>3 DEF DoWhen, semaVars
<1>7. IF Top.scoped THEN r \in Seq(Own) ELSE r \in Seq(Inner)
  BY <1>2, <1>5
<1> QED BY <1>1, <1>6, <1>7, RestTyped

LEMMA WhileTyped == ASSUME TypesHold, DoWhile PROVE Typed(calls', decls')
<1>1. Doing("while") /\ calls # <<>> /\ Coherence
  BY DEF DoWhile, Doing, TypesHold
<1>2. PICK S : /\ S = IF Top.scoped THEN Own ELSE Inner
               /\ Top.rest \in Seq(S) /\ Tail(Top.rest) \in Seq(S) /\ Top.rest[1].body \in Seq(S)
  BY <1>1, PartsOf
<1>3. PICK r : r = IF Is(Top.rest[1].kinds) THEN Top.rest[1].body \o Top.rest ELSE Tail(Top.rest)
  OBVIOUS
<1>4. r \in Seq(S)
  <2>1. Top.rest[1].body \o Top.rest \in Seq(S)
    BY <1>2, ConcatProperties
  <2> QED BY <1>2, <1>3, <2>1
<1>5. SetTop([Top EXCEPT !.rest = r]) /\ decls' = decls
  BY <1>3 DEF DoWhile, semaVars
<1>6. IF Top.scoped THEN r \in Seq(Own) ELSE r \in Seq(Inner)
  BY <1>2, <1>4
<1> QED BY <1>1, <1>5, <1>6, RestTyped

LEMMA RecoverTyped ==
  ASSUME TypesHold, calls # <<>>, Recover, decls' = decls
  PROVE  Typed(calls', decls')
  BY RestTyped, HandlerRest DEF Recover

\* The results of a call are declarations or fields like the ones it had.
LEMMA WrittenTyped ==
  ASSUME NEW out \in Outs, NEW inner, NEW outer, NEW d,
         DOMAIN inner = DOMAIN Locals, TypedLocals(inner, d), TypedLocals(outer, d)
  PROVE  TypedLocals(Written(out, inner, outer), d)
<1>1. "D" \in DOMAIN inner /\ "Ret" \in DOMAIN inner /\ "Fields" \in DOMAIN inner
  BY DEF Locals
<1>2. ASSUME NEW x \in DOMAIN inner
      PROVE  \/ Written(out, inner, outer)[x] = outer[x]
             \/ \E p \in DOMAIN out : out[p] = x /\ Written(out, inner, outer)[x] = inner[p]
  <2>1. PICK R : R = {p \in DOMAIN out : out[p] = x}
    OBVIOUS
  <2>2. Written(out, inner, outer)[x] = IF R = {} THEN outer[x] ELSE inner[CHOOSE p \in R : TRUE]
    BY <2>1 DEF Written
  <2>3. R # {} => (CHOOSE p \in R : TRUE) \in R
    OBVIOUS
  <2> QED BY <2>1, <2>2, <2>3
<1>3. Written(out, inner, outer).D \in {outer.D, inner.D}
  BY <1>1, <1>2, OutTyped
<1>4. Written(out, inner, outer).Ret \in {outer.Ret, inner.D, inner.Ret}
  BY <1>1, <1>2, OutTyped
<1>5. Written(out, inner, outer).Fields \in {outer.Fields, inner.Fields}
  BY <1>1, <1>2, OutTyped
<1> QED BY <1>3, <1>4, <1>5 DEF TypedLocals

\* A caller that has entered a scope keeps its declaration.
LEMMA CallerTyped ==
  ASSUME NEW c, NEW d, NEW cur, Active(c, d, cur), Typed(c, d),
         NEW n \in Nat, n = Len(c), n > 1,
         NEW b, b = c[n - 1], NEW r, (r = <<Handler>>) \/ (r = b.rest),
         NEW g, g = Caller(b, c[n], r)
  PROVE  TypedFrame(g, d)
<1>1. n \in DOMAIN c /\ n - 1 \in DOMAIN c
  BY SeqFacts DEF Active
<1>2. PICK f, w : f = c[n] /\ w = Written(f.out, f.locals, b.locals)
  OBVIOUS
<1>3. WellFormed(f, d) /\ WellFormed(b, d) /\ TypedFrame(f, d) /\ TypedFrame(b, d)
  BY <1>1, <1>2 DEF Active, Typed
<1>4. WellFormed(g, d) /\ Waits(g) /\ (g.scoped <=> b.scoped)
      /\ (g.scoped => g.locals.D = b.locals.D)
  BY CallerGoesOn
<1>5. g.locals = w
  <2>1. g = [b EXCEPT !.locals = w, !.rest = r]
    BY <1>2 DEF Caller
  <2>2. DOMAIN b = {"fn", "rest", "locals", "out", "scoped"}
    BY <1>3, Zenon DEF WellFormed
  <2> QED BY <2>1, <2>2
<1>6. TypedLocals(w, d)
  <2>1. f.out \in Outs /\ DOMAIN f.locals = DOMAIN Locals
    BY <1>3, Zenon DEF WellFormed
  <2>2. TypedLocals(f.locals, d) /\ TypedLocals(b.locals, d)
    BY <1>3, Zenon DEF TypedFrame
  <2> QED BY <1>2, <2>1, <2>2, WrittenTyped, Zenon
<1>7. ~g.scoped => ~Enters(g.rest)
  BY <1>4, InnerEntersNot DEF Waits
<1> QED BY <1>3, <1>4, <1>5, <1>6, <1>7 DEF TypedFrame

LEMMA LeaveTyped == ASSUME TypesHold, calls # <<>>, NEW failed, Leave(failed) PROVE Typed(calls', decls')
<1>1. PICK n \in Nat : n = Len(calls) /\ n >= 1 /\ DOMAIN calls = 1..n
  BY TopFrame DEF TypesHold
<1>2. /\ Active(calls, decls, current) /\ IsSeq(calls) /\ Typed(calls, decls)
      /\ Top = calls[n] /\ v = calls[n].locals /\ decls' = decls
  BY <1>1, TopFrame, Zenon DEF TypesHold, Coherence, Coherent, Top, v, Leave
<1>3. PICK b, r, g : /\ b = calls[n - 1]
                     /\ r = IF failed THEN <<Handler>> ELSE b.rest
                     /\ g = Caller(b, calls[n], r)
  OBVIOUS
<1>4. calls' = IF n = 1 THEN <<>> ELSE Append(SubSeq(calls, 1, n - 2), g)
  <2>1. calls' = IF n = 1 THEN <<>>
                 ELSE Append(SubSeq(calls, 1, n - 2),
                        [b EXCEPT !.locals = Written(calls[n].out, calls[n].locals, @),
                                  !.rest = IF failed THEN <<Handler>> ELSE @])
    BY <1>1, <1>2, <1>3 DEF Leave
  <2> QED BY <1>3, <2>1, Zenon DEF Caller
<1>5. Popped(calls, g, calls')
  <2>1. Popped(calls, g, IF n = 1 THEN <<>> ELSE Append(SubSeq(calls, 1, n - 2), g))
    BY <1>1, <1>2, LastPopped
  <2> QED BY <1>4, <2>1, Zenon
<1>6. n > 1 => TypedFrame(g, decls)
  <2>1. (r = <<Handler>>) \/ (r = b.rest)
    BY <1>3
  <2>2. \A c, d, cur : Active(c, d, cur) /\ Typed(c, d) /\ Len(c) = n /\ n > 1 /\ b = c[n - 1] =>
          TypedFrame(Caller(b, c[n], r), d)
    BY <2>1, CallerTyped
  <2> QED BY <1>1, <1>2, <1>3, <2>2, Zenon
<1>7. Typed(calls', decls)
  <2>1. \A c, d, c2 : /\ IsSeq(c) /\ c # <<>> /\ Typed(c, d) /\ Popped(c, g, c2)
                      /\ Len(c) = n /\ (n > 1 => TypedFrame(g, d))
          => Typed(c2, d)
    BY PoppedTyped
  <2> QED BY <1>1, <1>2, <1>5, <1>6, <2>1, Zenon
<1> QED BY <1>2, <1>7, Zenon

\* A name stands for a declaration, or for nothing.
LEMMA LookupDeclared == ASSUME Coherence, NEW name PROVE lookup(name) \in DOMAIN decls \cup {Null}
<1>1. PICK K : K = {k \in DOMAIN scopes : name \in DOMAIN scopes[k]}
  OBVIOUS
<1>2. PICK n : n = Len(scopes)
  OBVIOUS
<1>3. /\ DOMAIN scopes = 1..n /\ n \in Nat
      /\ \A k \in DOMAIN scopes : \A x \in DOMAIN scopes[k] : scopes[k][x] \in DOMAIN decls
  BY <1>2, SeqFacts DEF Coherence, Coherent, Bound
<1>4. lookup(name) = IF K = {} THEN Null
                     ELSE scopes[CHOOSE k \in K : \A j \in K : j <= k][name]
  BY <1>1 DEF lookup
<1>5. CASE K = {}
  BY <1>4, <1>5
<1>6. CASE K # {}
  <2>1. K \subseteq 1..n
    BY <1>1, <1>3
  <2>2. PICK k \in K : \A j \in K : j <= k
    BY <1>3, <1>6, <2>1, Largest
  <2>3. PICK m : m = CHOOSE l \in K : \A j \in K : j <= l
    OBVIOUS
  <2>4. m \in K
    BY <2>2, <2>3
  <2>5. lookup(name) = scopes[m][name]
    BY <1>4, <1>6, <2>3
  <2> QED BY <1>1, <1>3, <2>4, <2>5
<1> QED BY <1>5, <1>6

\* Fields are appended only of a type.
LEMMA FieldsTyped ==
  ASSUME NEW x, TypedLocals(x, decls), NEW ids, IsSeq(ids), NEW D \in DOMAIN decls
  PROVE  LET fields == x.Fields \o FieldsOf(ids, D)
         IN  /\ IsSeq(fields)
             /\ \A i \in DOMAIN fields : fields[i].type \in TypeDecls(decls)
<1>1. PICK fs, ds, new : /\ fs = x.Fields /\ ds = FieldsOf(ids, D) /\ new = fs \o ds
  OBVIOUS
<1>2. IsSeq(fs) /\ \A i \in DOMAIN fs : fs[i].type \in TypeDecls(decls)
  BY <1>1 DEF TypedLocals
<1>3. IsSeq(ds) /\ \A i \in DOMAIN ds : ds[i].type \in TypeDecls(decls)
  <2>1. CASE IsType(D)
    <3>1. /\ DOMAIN ds = DOMAIN ids /\ ds = [i \in DOMAIN ids |-> ds[i]]
          /\ \A i \in DOMAIN ids : ds[i].type = D
      BY <1>1, <2>1 DEF FieldsOf
    <3>2. DOMAIN ids = 1..Len(ids) /\ Len(ids) \in Nat
      BY SeqFacts
    <3>3. PICK T : T = {ds[i] : i \in DOMAIN ids}
      OBVIOUS
    <3>4. ds \in [1..Len(ids) -> T]
      BY <3>1, <3>2, <3>3
    <3>5. IsSeq(ds)
      BY <3>2, <3>4, SeqDef DEF IsSeq
    <3>6. D \in TypeDecls(decls)
      BY <2>1 DEF IsType, TypeDecls
    <3> QED BY <3>1, <3>5, <3>6
  <2>2. CASE ~IsType(D)
    <3>1. ds = <<>>
      BY <1>1, <2>2 DEF FieldsOf
    <3>2. <<>> \in Seq({}) /\ DOMAIN <<>> = {}
      OBVIOUS
    <3> QED BY <3>1, <3>2 DEF IsSeq
  <2> QED BY <2>1, <2>2
<1>4. PICK S, T : fs \in Seq(S) /\ ds \in Seq(T)
  BY <1>2, <1>3 DEF IsSeq
<1>5. fs \in Seq(S \cup T) /\ ds \in Seq(S \cup T)
  BY <1>4, SeqMonotonic
<1>6. PICK m \in Nat, n \in Nat : m = Len(fs) /\ n = Len(ds)
  BY <1>5, LenProperties
<1>7. /\ new \in Seq(S \cup T) /\ DOMAIN new = 1..(m + n)
      /\ \A i \in 1..(m + n) : new[i] = IF i <= m THEN fs[i] ELSE ds[i - m]
      /\ DOMAIN fs = 1..m /\ DOMAIN ds = 1..n
  BY <1>1, <1>5, <1>6, ConcatProperties, LenProperties
<1>8. \A i \in 1..(m + n) : IF i <= m THEN i \in 1..m ELSE i - m \in 1..n
  OBVIOUS
<1>9. \A i \in DOMAIN new : new[i].type \in TypeDecls(decls)
  BY <1>2, <1>3, <1>7, <1>8
<1>10. IsSeq(new)
  BY <1>7 DEF IsSeq
<1> QED BY <1>1, <1>9, <1>10

LEMMA QuietTyped ==
  ASSUME TypesHold, Quietly, Doing("field") => v.D # Null
  PROVE  Typed(calls', decls')
<1>1. PICK op, locals : /\ op \notin Opening /\ Kept(op, locals) /\ Doing(op) /\ Done(locals)
                        /\ decls' = decls
  BY DEF Quietly
<1>2. calls # <<>> /\ Coherence
  BY <1>1 DEF Doing, TypesHold
<1>3. TypedLocals(v, decls) /\ Founded(decls) /\ IsSeq(v.Ids)
  BY <1>2, TopTyped, VFacts
<1>4. TypedLocals(locals, decls)
  <2>1. CASE op = "lookup"
    <3>1. locals.D = lookup(tok) /\ locals.Ret = v.Ret /\ locals.Fields = v.Fields
      BY <1>1, <2>1 DEF Kept
    <3> QED BY <1>2, <1>3, <3>1, LookupDeclared DEF TypedLocals
  <2>2. CASE op = "field"
    <3>1. locals.D = v.D /\ locals.Ret = v.Ret /\ locals.Fields = v.Fields \o FieldsOf(v.Ids, v.D)
      BY <1>1, <2>2 DEF Kept
    <3>2. v.D \in DOMAIN decls
      BY <1>1, <1>3, <2>2 DEF TypedLocals
    <3> QED BY <1>3, <3>1, <3>2, FieldsTyped DEF TypedLocals
  <2>3. CASE op # "lookup" /\ op # "field"
    <3>1. locals.D = v.D /\ locals.Ret = v.Ret /\ locals.Fields = v.Fields
      BY <1>1, <2>3 DEF Kept
    <3> QED BY <1>3, <3>1 DEF TypedLocals
  <2> QED BY <2>1, <2>2, <2>3
<1>5. op # "lookup" => locals.D = v.D
  BY <1>1 DEF Kept
<1> QED BY <1>1, <1>3, <1>4, <1>5, KindedItself, DoneTyped

(* Declarations. *)

\* The declarations a step leaves: those that were there, and new ones made of them.
Grown == Kinded(decls, decls') /\ Founded(decls')

LEMMA GrownNone == ASSUME TypesHold, decls' = decls PROVE Grown
  BY KindedItself, Zenon DEF TypesHold, Typed, Grown

LEMMA GrownInserted ==
  ASSUME TypesHold, NEW ds, IsSeq(ds), \A i \in DOMAIN ds : MadeOf(ds[i]) \subseteq TypeDecls(decls),
         decls' = decls \o ds
  PROVE  Grown
<1>1. IsSeq(decls) /\ Founded(decls)
  BY DEF TypesHold, Typed, Coherence, Coherent, Declared
<1> QED BY <1>1, FoundedAppended DEF Grown

LEMMA GrownTyped ==
  ASSUME TypesHold, NEW ds, IsSeq(ds), NEW D \in DOMAIN decls,
         \A i \in DOMAIN ds : MadeOf(ds[i]) = {D}, DeclareTyped(ds, D)
  PROVE  Grown
<1>1. CASE IsType(D)
  <2>1. D \in TypeDecls(decls)
    BY <1>1 DEF IsType, TypeDecls
  <2>2. decls' = decls \o ds
    BY <1>1 DEF DeclareTyped, insert
  <2> QED BY <2>1, <2>2, GrownInserted
<1>2. CASE ~IsType(D)
  BY <1>2, GrownNone DEF DeclareTyped
<1> QED BY <1>1, <1>2

LEMMA One == ASSUME NEW x PROVE IsSeq(<<x>>) /\ DOMAIN <<x>> = {1} /\ <<x>>[1] = x
<1>1. <<x>> \in Seq({x}) /\ DOMAIN <<x>> = {1} /\ <<x>>[1] = x
  OBVIOUS
<1> QED BY <1>1 DEF IsSeq

\* An action that declares something and keeps the locals the types depend on.
LEMMA DeclaresTyped ==
  ASSUME TypesHold, NEW op, op \notin Setting, NEW locals, Kept(op, locals),
         Doing(op), Done(locals), Grown
  PROVE  Typed(calls', decls')
<1>1. op \notin Opening /\ op # "lookup" /\ op # "field" /\ calls # <<>>
  BY DEF Setting, Doing
<1>2. locals.D = v.D /\ locals.Ret = v.Ret /\ locals.Fields = v.Fields
  BY <1>1 DEF Kept
<1>3. TypedLocals(v, decls')
  BY <1>1, TopTyped, LocalsGrow DEF Grown
<1>4. TypedLocals(locals, decls')
  BY <1>2, <1>3 DEF TypedLocals
<1> QED BY <1>1, <1>2, <1>4, DoneTyped DEF Grown

LEMMA DeclarationTyped ==
  ASSUME TypesHold, calls # <<>>, ~NullUse, Declaration
  PROVE  Typed(calls', decls')
<1>1. Coherence /\ \A op : op \notin Setting => Kept(op, v)
  BY KeptNames DEF TypesHold
<1>2. /\ IsSeq(v.Ids) /\ IsSeq(v.Fields) /\ v.D \in DOMAIN decls \cup {Null}
      /\ \A i \in DOMAIN v.Fields : v.Fields[i].type \in TypeDecls(decls)
  BY <1>1, VFacts, TopTyped DEF TypedLocals
<1>3. \A op : op \in {"alias", "pointer", "field", "variable"} /\ Doing(op) => v.D \in DOMAIN decls
  BY <1>2 DEF NullUse
<1>4. CASE Declares("constant", v, actOnConstantDeclaration(v.Name, v.E))
  <2>1. PICK x : x = [Decl("Const", v.Name, current) EXCEPT !.expr = v.E]
    OBVIOUS
  <2>2. x.kind = "Const"
    BY <2>1 DEF Decl
  <2>3. MadeOf(x) = {}
    BY <2>2 DEF MadeOf
  <2>4. decls' = decls \o <<x>>
    BY <1>4, <2>1 DEF Declares, actOnConstantDeclaration, insert
  <2>5. Grown
    BY <2>3, <2>4, One, GrownInserted
  <2> QED BY <1>1, <1>4, <2>5, DeclaresTyped, NotSetting DEF Declares
<1>5. ASSUME NEW kind \in {"Alias", "Pointer"}, NEW op \in {"alias", "pointer"},
             Declares(op, v, actOnTypeDeclaration(kind, v.Name, v.D))
      PROVE  Typed(calls', decls')
  <2>1. PICK x : x = [Decl(kind, v.Name, current) EXCEPT !.type = v.D]
    OBVIOUS
  <2>2. x.kind = kind /\ x.type = v.D
    BY <2>1 DEF Decl
  <2>3. MadeOf(x) = {v.D}
    BY <2>2 DEF MadeOf
  <2>4. v.D \in DOMAIN decls /\ DeclareTyped(<<x>>, v.D)
    BY <1>3, <1>5, <2>1, Zenon DEF Declares, actOnTypeDeclaration
  <2>5. Grown
    BY <2>3, <2>4, One, GrownTyped
  <2> QED BY <1>1, <1>5, <2>5, DeclaresTyped, NotSetting DEF Declares
<1>6. CASE Declares("record", v, actOnRecordTypeDeclaration(v.Name, v.Fields))
  <2>1. PICK x : x = [Decl("Record", v.Name, current) EXCEPT !.fields = v.Fields]
    OBVIOUS
  <2>2. x.kind = "Record" /\ x.fields = v.Fields
    BY <2>1 DEF Decl
  <2>3. MadeOf(x) \subseteq TypeDecls(decls)
    BY <1>2, <2>2 DEF MadeOf
  <2>4. decls' = decls \o <<x>> \/ decls' = decls
    BY <1>6, <2>1 DEF Declares, actOnRecordTypeDeclaration, insert
  <2>5. Grown
    BY <2>3, <2>4, One, GrownInserted, GrownNone
  <2> QED BY <1>1, <1>6, <2>5, DeclaresTyped, NotSetting DEF Declares
<1>7. CASE Declares("variable", v, actOnVariableDeclaration(v.Ids, v.D))
  <2>1. PICK ds : ds = Variables(v.Ids, v.D)
    OBVIOUS
  <2>2. IsSeq(ds)
    BY <1>2, <2>1, VariablesFresh DEF Fresh
  <2>3. \A i \in DOMAIN ds : ds[i].kind = "Var" /\ ds[i].type = v.D
    BY <2>1 DEF Variables, Decl
  <2>4. \A i \in DOMAIN ds : MadeOf(ds[i]) = {v.D}
    BY <2>3 DEF MadeOf
  <2>5. v.D \in DOMAIN decls /\ DeclareTyped(ds, v.D)
    BY <1>3, <1>7, <2>1 DEF Declares, actOnVariableDeclaration
  <2>6. Grown
    BY <2>2, <2>4, <2>5, GrownTyped
  <2> QED BY <1>1, <1>7, <2>6, DeclaresTyped, NotSetting DEF Declares
<1>8. CASE Evaluates("field", [v EXCEPT !.Fields = @ \o FieldsOf(v.Ids, v.D)],
                     ~IsType(v.D) /\ v.Ids # <<>>)
  <2>1. Quietly
    BY <1>1, <1>8, FieldQuiet, Zenon
  <2>2. Doing("field") => v.D # Null
    BY DEF NullUse
  <2> QED BY <2>1, <2>2, QuietTyped
<1> QED BY <1>4, <1>5, <1>6, <1>7, <1>8 DEF Declaration

\* A heading is of the procedure whose scope has been entered.
LEMMA HeadingScoped == ASSUME Coherence, Doing("heading") PROVE Top.scoped
<1>1. calls # <<>> /\ Top.rest # <<>> /\ Top.rest[1].op = "heading"
  BY DEF Doing
<1>2. WellFormed(Top, decls)
  BY <1>1, TopFrame
<1>3. Top.rest \notin Seq(Inner)
  <2>1. SUFFICES ASSUME Top.rest \in Seq(Inner) PROVE FALSE
    OBVIOUS
  <2>2. Top.rest[1] \in Inner
    BY <1>1, <2>1, TailOf, ElementOfSeq
  <2> QED BY <1>1, <2>2, InnerSound DEF Sound, InnerActs, MildActs, UserActs
<1>4. ~Left(Top.rest) /\ ~Enters(Top.rest)
  BY <1>1, <1>3 DEF Left, Begins, Names_, Creates, Asks, Looks, Expect, Enters
<1> QED BY <1>2, <1>4 DEF WellFormed

LEMMA HeadingOwner == ASSUME TypesHold, Doing("heading") PROVE v.D \in Owners(decls)
<1>1. calls # <<>> /\ Coherence
  BY DEF Doing, TypesHold
<1>2. TypedFrame(Top, decls) /\ v = Top.locals
  BY <1>1, TopTyped
<1> QED BY <1>1, <1>2, HeadingScoped DEF TypedFrame

LEMMA GrownHeading ==
  ASSUME TypesHold, NEW P \in Owners(decls), NEW params, NEW Ret,
         actOnProcedureHeading(P, params, Ret)
  PROVE  Grown
<1>1. PICK t : decls' = [decls EXCEPT ![P].params = params, ![P].type = t]
  <2>1. PICK t : t = IF Ret = Null \/ IsType(Ret) THEN Ret ELSE decls[P].type
    OBVIOUS
  <2> QED BY <2>1 DEF actOnProcedureHeading
<1>2. /\ \A i \in DOMAIN decls : DOMAIN decls[i] = DeclFields
      /\ Founded(decls) /\ P \in DOMAIN decls /\ decls[P].kind \in {"Proc", "Module"}
  BY DEF TypesHold, Typed, Coherence, Coherent, Declared, Owners
<1>3. /\ DOMAIN decls' = DOMAIN decls
      /\ \A i \in DOMAIN decls : decls'[i].kind = decls[i].kind
      /\ \A i \in DOMAIN decls : i # P => decls'[i] = decls[i]
  BY <1>1, <1>2 DEF DeclFields
<1>4. MadeOf(decls'[P]) = {}
  BY <1>2, <1>3 DEF MadeOf
<1>5. TypeDecls(decls') = TypeDecls(decls)
  BY <1>3 DEF TypeDecls
<1>6. Founded(decls')
  BY <1>2, <1>3, <1>4, <1>5 DEF Founded
<1> QED BY <1>3, <1>6 DEF Grown, Kinded

\* What is created is a procedure or a module.
LEMMA CreatedOwner ==
  ASSUME TypesHold, NEW x, DOMAIN x = DeclFields, x.outer = current,
         x.kind \in {"Proc", "Module"}, decls' = decls \o <<x>>
  PROVE  Grown /\ Len(decls) + 1 \in Owners(decls')
<1>1. MadeOf(x) = {}
  BY DEF MadeOf
<1>2. Grown
  BY <1>1, One, GrownInserted
<1>3. PICK S : decls \in Seq(S)
  BY DEF TypesHold, Coherence, Coherent, Declared, IsSeq
<1>4. decls \in Seq(S \cup {x}) /\ x \in S \cup {x}
  BY <1>3, SeqMonotonic
<1>5. decls' = Append(decls, x)
  BY <1>4, AppendIsConcat
<1>6. decls'[Len(decls) + 1] = x
  BY <1>4, <1>5, AppendProperties
<1>7. Len(decls) + 1 \in DOMAIN decls'
  BY CreatedOne DEF TypesHold
<1> QED BY <1>2, <1>6, <1>7 DEF Owners

LEMMA ProcedureTyped ==
  ASSUME TypesHold, calls # <<>>, ~NullUse, Procedure
  PROVE  Typed(calls', decls')
<1>1. /\ Coherence
      /\ \A op : op \notin Setting => Kept(op, v)
      /\ \A op, x : op \notin Setting => Kept(op, [v EXCEPT !.Params = x])
  BY KeptNames DEF TypesHold
<1>2. IsSeq(v.Ids) /\ v.D \in DOMAIN decls \cup {Null}
  BY <1>1, VFacts, TopTyped DEF TypedLocals
<1>3. CASE Declares("newProcedure", [v EXCEPT !.D = Len(decls) + 1], actOnProcedureDeclaration(tok))
  <2>1. PICK x : x = [Decl("Proc", tok, current) EXCEPT !.type = Unset]
    OBVIOUS
  <2>2. DOMAIN x = DeclFields /\ x.outer = current /\ x.kind = "Proc"
    BY <2>1 DEF Decl, DeclFields
  <2>3. decls' = decls \o <<x>>
    BY <1>3, <2>1 DEF Declares, actOnProcedureDeclaration, insert
  <2>4. Grown /\ Len(decls) + 1 \in Owners(decls')
    BY <2>2, <2>3, CreatedOwner
  <2> QED BY <1>3, <2>4, CreatedTyped DEF Declares, Grown
<1>4. CASE Declares("parameter",
                    [v EXCEPT !.Params = @ \o (IF IsType(v.D)
                                                 THEN InsertedDecls(Parameters(v.Ids, v.D, v.IsVar))
                                                 ELSE <<>>)],
                    actOnFormalParameterDeclaration(v.Ids, v.D, v.IsVar))
  <2>1. PICK x : x = v.Params \o (IF IsType(v.D)
                                    THEN InsertedDecls(Parameters(v.Ids, v.D, v.IsVar)) ELSE <<>>)
    OBVIOUS
  <2>2. PICK ds : ds = Parameters(v.Ids, v.D, v.IsVar)
    OBVIOUS
  <2>3. IsSeq(ds)
    BY <1>2, <2>2, ParametersFresh DEF Fresh
  <2>4. \A i \in DOMAIN ds : ds[i].kind = "Param" /\ ds[i].type = v.D
    BY <2>2 DEF Parameters, Decl
  <2>5. \A i \in DOMAIN ds : MadeOf(ds[i]) = {v.D}
    BY <2>4 DEF MadeOf
  <2>6. Doing("parameter") /\ Done([v EXCEPT !.Params = x]) /\ DeclareTyped(ds, v.D)
    BY <1>4, <2>1, <2>2, Zenon DEF Declares, actOnFormalParameterDeclaration
  <2>7. v.D \in DOMAIN decls
    BY <1>2, <2>6 DEF NullUse
  <2>8. Grown
    BY <2>3, <2>5, <2>6, <2>7, GrownTyped
  <2> QED BY <1>1, <2>6, <2>8, DeclaresTyped, NotSetting
<1>5. CASE Declares("heading", v, actOnProcedureHeading(v.D, v.Params, v.Ret) /\ UNCHANGED scopes)
  <2>1. Doing("heading") /\ Done(v) /\ actOnProcedureHeading(v.D, v.Params, v.Ret)
    BY <1>5, Zenon DEF Declares
  <2>2. Grown
    BY <2>1, HeadingOwner, GrownHeading, Zenon
  <2> QED BY <1>1, <2>1, <2>2, DeclaresTyped, NotSetting
<1>6. CASE Evaluates("endProcedure", v, tok # decls[v.D].name)
  <2>1. Quietly
    BY <1>1, <1>6, EvaluatesPlain, NotSetting, Zenon
  <2>2. Doing("field") => v.D # Null
    BY DEF NullUse
  <2> QED BY <2>1, <2>2, QuietTyped
<1> QED BY <1>3, <1>4, <1>5, <1>6, Zenon DEF Procedure

LEMMA ModuleTyped ==
  ASSUME TypesHold, calls # <<>>, ~NullUse, Module
  PROVE  Typed(calls', decls')
<1>1. Coherence /\ \A op : op \notin Setting => Kept(op, v)
  BY KeptNames DEF TypesHold
<1>2. Doing("field") => v.D # Null
  BY DEF NullUse
<1>3. CASE Declares("newModule", [v EXCEPT !.D = Len(decls) + 1],
                    decls' = Append(decls, Decl("Module", tok, current))
                    /\ UNCHANGED <<scopes, errors>>)
  <2>1. PICK x : x = Decl("Module", tok, current)
    OBVIOUS
  <2>2. DOMAIN x = DeclFields /\ x.outer = current /\ x.kind = "Module"
    BY <2>1 DEF Decl, DeclFields
  <2>3. decls' = Append(decls, x)
    BY <1>3, <2>1 DEF Declares
  <2>4. decls' = decls \o <<x>>
    <3>1. PICK S : decls \in Seq(S)
      BY DEF TypesHold, Coherence, Coherent, Declared, IsSeq
    <3>2. decls \in Seq(S \cup {x}) /\ x \in S \cup {x}
      BY <3>1, SeqMonotonic
    <3>3. Append(decls, x) = decls \o <<x>>
      BY <3>2, AppendIsConcat
    <3> QED BY <2>3, <3>3
  <2>5. Grown /\ Len(decls) + 1 \in Owners(decls')
    BY <2>2, <2>4, CreatedOwner
  <2> QED BY <1>3, <2>5, CreatedTyped DEF Declares, Grown
<1>4. CASE Evaluates("import", v, TRUE)
  <2>1. Quietly
    BY <1>1, <1>4, EvaluatesPlain, NotSetting, Zenon
  <2> QED BY <1>2, <2>1, QuietTyped
<1>5. CASE Evaluates("endModule", v, tok # decls[v.D].name)
  <2>1. Quietly
    BY <1>1, <1>5, EvaluatesPlain, NotSetting, Zenon
  <2> QED BY <1>2, <2>1, QuietTyped
<1> QED BY <1>3, <1>4, <1>5, Zenon DEF Module

LEMMA AnalyseTyped == ASSUME TypesHold, Analyse PROVE Typed(calls', decls')
<1>1. CASE calls # <<>>
  <2>1. ~NullUse /\ Coherence
    BY DEF Analyse, TypesHold
  <2>2. \/ TakeToken \/ LookUp \/ Operand \/ Operation \/ Statement
        \/ Declaration \/ Procedure \/ Module \/ EnterDeclScope
    BY DEF Analyse
  <2>3. TakeToken \/ LookUp \/ Operand \/ Operation \/ Statement => Quietly
    BY <1>1, <2>1, TakeTokenQuiet, LookUpQuiet, OperandQuiet, OperationQuiet, StatementQuiet, Zenon
  <2>4. Doing("field") => v.D # Null
    BY <2>1 DEF NullUse
  <2> QED BY <1>1, <2>1, <2>2, <2>3, <2>4, QuietTyped, DeclarationTyped, ProcedureTyped,
             ModuleTyped, EnterTyped, Zenon
<1>2. CASE calls = <<>>
  <2>1. ~\E op : Doing(op)
    BY <1>2 DEF Doing
  <2> QED BY <2>1, Zenon DEF Analyse, TakeToken, LookUp, Operand, Operation, Statement,
             Declaration, Procedure, Module, EnterDeclScope, Evaluates, Declares
<1> QED BY <1>1, <1>2

\* A token is taken, or the one that is there is another one.
LEMMA TokenTyped ==
  ASSUME TypesHold, NEW op \in {"advance", "expect", "consume"}, Doing(op), Done(v) \/ Recover,
         decls' = decls, scopes' = scopes, current' = current
  PROVE  Typed(calls', decls')
<1>1. calls # <<>> /\ Coherence /\ Top.rest[1].op = op
  BY DEF Doing, TypesHold
<1>2. CASE Done(v)
  <2>1. Quietly
    BY <1>1, <1>2, DoneQuiet
  <2>2. ~Doing("field")
    BY <1>1 DEF Doing
  <2> QED BY <2>1, <2>2, QuietTyped
<1> QED BY <1>1, <1>2, RecoverTyped

LEMMA StepTyped == ASSUME TypesHold, [Next]_vars PROVE Typed(calls', decls')
<1>1. CASE DoAdvance
  BY <1>1, TokenTyped DEF DoAdvance, semaVars
<1>2. CASE DoExpect
  <2>1. Doing("expect") /\ (Done(v) \/ Recover)
        /\ decls' = decls /\ scopes' = scopes /\ current' = current
    BY <1>2 DEF DoExpect
  <2> QED BY <2>1, TokenTyped
<1>3. CASE DoConsume
  <2>1. Doing("consume") /\ (Done(v) \/ Recover)
        /\ decls' = decls /\ scopes' = scopes /\ current' = current
    BY <1>3 DEF DoConsume, semaVars
  <2> QED BY <2>1, TokenTyped
<1>4. CASE DoWhen
  BY <1>4, WhenTyped
<1>5. CASE DoWhile
  BY <1>5, WhileTyped
<1>6. CASE DoCall
  BY <1>6, CallTyped
<1>7. CASE DoFail
  BY <1>7, RecoverTyped DEF DoFail, Doing, semaVars
<1>8. CASE DoReturn
  BY <1>8, LeaveTyped DEF DoReturn
<1>9. CASE Resynchronise
  BY <1>9, LeaveTyped DEF Resynchronise, Doing
<1>10. CASE Skip
  BY <1>10, LeaveTyped, UnchangedTyped DEF Skip, Doing, semaVars
<1>11. CASE Crash
  BY <1>11, UnchangedTyped DEF Crash, semaVars
<1>12. CASE Analyse
  BY <1>12, AnalyseTyped
<1>13. CASE UNCHANGED vars
  BY <1>13, UnchangedTyped DEF vars, semaVars
<1> QED BY <1>1, <1>2, <1>3, <1>4, <1>5, <1>6, <1>7, <1>8, <1>9, <1>10, <1>11, <1>12, <1>13, Zenon
        DEF Next, Step, Halt

LEMMA StartTyped ==
  /\ Typed(<<Frame("parse", Locals, None)>>, InitialDecls)
  /\ Typed(<<>>, InitialDecls)
<1>1. PICK f, c, e, d : /\ f = Frame("parse", Locals, None) /\ c = <<f>> /\ e = <<>>
                        /\ d = InitialDecls
  OBVIOUS
<1>2. DOMAIN c = {1} /\ c[1] = f /\ DOMAIN e = {}
  BY <1>1
<1>3. DOMAIN d = 1..4 /\ \A i \in 1..4 : MadeOf(d[i]) = {}
  <2>1. PICK x1, x2, x3, x4 :
          /\ x1 = Decl("Pervasive", "INTEGER", Null)
          /\ x2 = Decl("Pervasive", "BOOLEAN", Null)
          /\ x3 = [Decl("Const", "TRUE", Null) EXCEPT !.expr = BooleanLiteral(TRUE)]
          /\ x4 = [Decl("Const", "FALSE", Null) EXCEPT !.expr = BooleanLiteral(FALSE)]
    OBVIOUS
  <2>2. \A x \in {x1, x2, x3, x4} : x.kind \in {"Pervasive", "Const"}
    <3>1. x1.kind = "Pervasive" /\ x2.kind = "Pervasive"
      BY <2>1 DEF Decl
    <3>2. x3.kind = "Const"
      BY <2>1 DEF Decl
    <3>3. x4.kind = "Const"
      BY <2>1 DEF Decl
    <3> QED BY <3>1, <3>2, <3>3
  <2>3. d = <<x1, x2, x3, x4>>
    BY <1>1, <2>1 DEF InitialDecls
  <2>4. DOMAIN d = 1..4 /\ \A i \in 1..4 : d[i] \in {x1, x2, x3, x4}
    BY <2>3
  <2> QED BY <2>2, <2>4 DEF MadeOf
<1>4. Founded(d)
  BY <1>3 DEF Founded
<1>5. f.locals = Locals /\ f.scoped = FALSE /\ f.rest = Rules["parse"].body
  BY <1>1 DEF Frame
<1>6. ~Enters(f.rest)
  <2>1. "parse" \in DOMAIN Rules
    BY DEF Rules
  <2>2. Left(f.rest)
    BY <1>5, <2>1, Bodies DEF Left
  <2> QED BY <2>2, LeftEntersNot
<1>7. TypedLocals(Locals, d)
  <2>1. Locals.D = Null /\ Locals.Ret = Null /\ Locals.Fields = <<>>
    BY DEF Locals
  <2>2. <<>> \in Seq({}) /\ DOMAIN <<>> = {}
    OBVIOUS
  <2> QED BY <2>1, <2>2 DEF TypedLocals, IsSeq
<1>8. TypedFrame(f, d)
  BY <1>5, <1>6, <1>7 DEF TypedFrame
<1>9. Typed(c, d) /\ Typed(e, d)
  BY <1>2, <1>4, <1>8 DEF Typed
<1> QED BY <1>1, <1>9, Zenon

LEMMA DriverStepTyped == ASSUME TypesHold, [DriverNext]_driverVars PROVE TypesHold'
<1>1. Coherence'
  BY DriverStepCoherent DEF TypesHold
<1>2. Typed(calls', decls')
  <2>1. CASE ReadFile
    <3>1. calls' = <<Frame("parse", Locals, None)>> /\ decls' = InitialDecls
      BY <2>1, Zenon DEF ReadFile
    <3> QED BY <3>1, StartTyped, Zenon
  <2>2. CASE Parse
    BY <2>2, StepTyped, Zenon DEF Parse, Next
  <2>3. CASE UNCHANGED vars
    BY <2>3, UnchangedTyped DEF vars, semaVars
  <2>4. ReadError \/ EndParse \/ Generate \/ FatalError \/ Emit \/ DriverHalt \/ UNCHANGED driverVars
        => UNCHANGED vars
    BY Zenon DEF ReadError, EndParse, Generate, FatalError, Emit, DriverHalt, driverVars, parserVars
  <2> QED BY <2>1, <2>2, <2>3, <2>4, Zenon DEF DriverNext
<1> QED BY <1>1, <1>2, Zenon DEF TypesHold

LEMMA FoundedTypes == ASSUME TypesHold PROVE TypesWellFounded
<1>1. IsSeq(decls) /\ Founded(decls)
  BY DEF TypesHold, Typed, Coherence, Coherent, Declared
<1>2. DOMAIN decls = 1..Len(decls) /\ Len(decls) \in Nat
  BY <1>1, SeqFacts
<1>3. ASSUME NEW d \in DOMAIN decls, NEW t \in MadeOf(decls[d])
      PROVE  t \in 1..d - 1 /\ IsType(t)
  <2>1. t \in TypeDecls(decls) /\ t < d
    BY <1>1, <1>3 DEF Founded
  <2>2. t \in DOMAIN decls /\ IsType(t)
    BY <2>1 DEF TypeDecls, IsType
  <2> QED BY <1>2, <2>1, <2>2
<1>4. ASSUME NEW d \in DOMAIN decls
      PROVE  (IF decls[d].kind \in {"Var", "Param"} THEN {decls[d].type} ELSE Parts(d))
               = MadeOf(decls[d])
  <2>1. CASE decls[d].kind \in {"Var", "Param"}
    BY <2>1 DEF MadeOf
  <2>2. CASE decls[d].kind \in {"Alias", "Pointer"}
    BY <2>2 DEF MadeOf, Parts
  <2>3. CASE decls[d].kind = "Record"
    BY <2>3 DEF MadeOf, Parts
  <2>4. CASE decls[d].kind \notin {"Var", "Param", "Alias", "Pointer", "Record"}
    BY <2>4 DEF MadeOf, Parts
  <2> QED BY <2>1, <2>2, <2>3, <2>4
<1> QED BY <1>3, <1>4 DEF TypesWellFounded

\* Whatever the files, and even if errors were reported, a type is made of types that
\* were declared before it and a variable or a parameter has a type: the conversion of
\* a type (CGModule.cpp:39-87) ends, and what it casts is a type.
THEOREM DriverTypesWellFounded == DriverSpec => []TypesWellFounded
<1>1. DriverInit => TypesHold
  BY StartCoherent, StartTyped, Zenon DEF DriverInit, initialize, TypesHold, Coherence
<1>2. TypesHold /\ [DriverNext]_driverVars => TypesHold'
  BY DriverStepTyped
<1>3. TypesHold => TypesWellFounded
  BY FoundedTypes
<1> QED BY <1>1, <1>2, <1>3, PTL DEF DriverSpec

-----------------------------------------------------------------------------
(* What the innermost call does.                                            *)

\* An error that has been reported is not forgotten.
LEMMA ErrorsStay == ASSUME [Next]_vars, errors PROVE errors'
<1>1. ASSUME NEW b, Report(b) PROVE errors'
  BY <1>1 DEF Report
<1>2. ASSUME NEW ds, insert(ds) PROVE errors'
  BY <1>1, <1>2 DEF insert
<1>3. ASSUME NEW ds, NEW D, DeclareTyped(ds, D) PROVE errors'
  BY <1>1, <1>2, <1>3 DEF DeclareTyped
<1>4. ASSUME NEW op, NEW locals, NEW b, Evaluates(op, locals, b) PROVE errors'
  BY <1>1, <1>4 DEF Evaluates
<1>5. CASE TakeToken \/ LookUp \/ Operand \/ Operation \/ Statement
  BY <1>4, <1>5, Zenon DEF TakeToken, LookUp, Operand, Operation, Statement
<1>6. CASE Declaration
  <2>1. CASE Declares("constant", v, actOnConstantDeclaration(v.Name, v.E))
    BY <1>2, <2>1, Zenon DEF Declares, actOnConstantDeclaration
  <2>2. CASE \/ Declares("alias", v, actOnTypeDeclaration("Alias", v.Name, v.D))
             \/ Declares("pointer", v, actOnTypeDeclaration("Pointer", v.Name, v.D))
    BY <1>3, <2>2, Zenon DEF Declares, actOnTypeDeclaration
  <2>3. CASE Declares("record", v, actOnRecordTypeDeclaration(v.Name, v.Fields))
    BY <1>1, <1>2, <2>3 DEF Declares, actOnRecordTypeDeclaration
  <2>4. CASE Declares("variable", v, actOnVariableDeclaration(v.Ids, v.D))
    BY <1>3, <2>4, Zenon DEF Declares, actOnVariableDeclaration
  <2> QED BY <1>4, <1>6, <2>1, <2>2, <2>3, <2>4, Zenon DEF Declaration
<1>7. CASE Procedure
  <2>1. CASE Declares("newProcedure", [v EXCEPT !.D = Len(decls) + 1], actOnProcedureDeclaration(tok))
    BY <1>2, <2>1, Zenon DEF Declares, actOnProcedureDeclaration
  <2>2. ASSUME NEW x, Declares("parameter", x, actOnFormalParameterDeclaration(v.Ids, v.D, v.IsVar))
        PROVE  errors'
    BY <1>3, <2>2, Zenon DEF Declares, actOnFormalParameterDeclaration
  <2>3. CASE Declares("heading", v, actOnProcedureHeading(v.D, v.Params, v.Ret) /\ UNCHANGED scopes)
    BY <1>1, <2>3 DEF Declares, actOnProcedureHeading
  <2> QED BY <1>4, <1>7, <2>1, <2>2, <2>3, Zenon DEF Procedure
<1>8. CASE Module
  <2>1. ASSUME NEW x, NEW y, Declares("newModule", x, decls' = y /\ UNCHANGED <<scopes, errors>>)
        PROVE  errors'
    BY <2>1 DEF Declares
  <2> QED BY <1>4, <1>8, <2>1, Zenon DEF Module
<1>9. CASE EnterDeclScope
  BY <1>9 DEF EnterDeclScope
<1>10. CASE DoExpect
  BY <1>1, <1>10 DEF DoExpect
<1>11. CASE \/ DoAdvance \/ DoConsume \/ DoWhen \/ DoWhile \/ DoCall
            \/ DoFail \/ DoReturn \/ Resynchronise \/ Skip \/ Crash \/ UNCHANGED vars
  BY <1>11 DEF DoAdvance, DoConsume, DoWhen, DoWhile, DoCall, DoFail, DoReturn, Resynchronise,
     Skip, Crash, Leave, semaVars, vars
<1> QED BY <1>5, <1>6, <1>7, <1>8, <1>9, <1>10, <1>11, Zenon DEF Next, Step, Halt, Analyse

\* The declarations whose type is not the one that is uninitialised.
Determined(d) == {i \in DOMAIN d : d[i].type # Unset}

LEMMA InsertStays ==
  ASSUME Coherence, NEW ds, IsSeq(ds), insert(ds) \/ decls' = decls \o ds
  PROVE  Determined(decls) \subseteq Determined(decls')
<1>1. PICK d : d = decls /\ IsSeq(d)
  BY DEF Coherence, Coherent, Declared
<1>2. PICK S, T : d \in Seq(S) /\ ds \in Seq(T)
  BY <1>1 DEF IsSeq
<1>3. d \in Seq(S \cup T) /\ ds \in Seq(S \cup T)
  BY <1>2, SeqMonotonic
<1>4. decls' = d \o ds
  BY <1>1 DEF insert
<1>5. \A i \in DOMAIN d : i \in DOMAIN decls' /\ decls'[i] = d[i]
  BY <1>3, <1>4, ConcatProperties, LenProperties
<1> QED BY <1>1, <1>5 DEF Determined

LEMMA TypedStays ==
  ASSUME Coherence, NEW ds, IsSeq(ds), NEW D, DeclareTyped(ds, D)
  PROVE  Determined(decls) \subseteq Determined(decls')
  BY InsertStays DEF DeclareTyped

LEMMA HeadingStays ==
  ASSUME TypesHold, NEW P \in DOMAIN decls, NEW params, NEW Ret \in DOMAIN decls \cup {Null},
         actOnProcedureHeading(P, params, Ret)
  PROVE  /\ Determined(decls) \subseteq Determined(decls')
         /\ errors' \/ P \in Determined(decls')
<1>1. /\ \A i \in DOMAIN decls : DOMAIN decls[i] = DeclFields
      /\ DOMAIN decls = 1..Len(decls)
  BY SeqFacts DEF TypesHold, Coherence, Coherent, Declared
<1>2. Ret # Unset
  BY <1>1 DEF Unset, Null
<1>3. PICK t : /\ t = IF Ret = Null \/ IsType(Ret) THEN Ret ELSE decls[P].type
               /\ decls' = [decls EXCEPT ![P].params = params, ![P].type = t]
  BY DEF actOnProcedureHeading
<1>4. /\ DOMAIN decls' = DOMAIN decls /\ decls'[P].type = t
      /\ \A i \in DOMAIN decls : i # P => decls'[i] = decls[i]
  BY <1>1, <1>3 DEF DeclFields
<1>5. errors' \/ t # Unset
  BY <1>2, <1>3 DEF actOnProcedureHeading, Report
<1>6. decls[P].type # Unset => t # Unset
  BY <1>2, <1>3
<1> QED BY <1>4, <1>5, <1>6 DEF Determined

LEMMA HeadingSets ==
  ASSUME TypesHold, Declares("heading", v, actOnProcedureHeading(v.D, v.Params, v.Ret) /\ UNCHANGED scopes)
  PROVE  /\ Determined(decls) \subseteq Determined(decls')
         /\ errors' \/ v.D \in Determined(decls')
<1>1. Doing("heading") /\ calls # <<>> /\ actOnProcedureHeading(v.D, v.Params, v.Ret)
  BY DEF Declares, Doing
<1>2. v.D \in DOMAIN decls /\ v.Ret \in DOMAIN decls \cup {Null}
  BY <1>1, HeadingOwner, TopTyped DEF Owners, TypedLocals
<1> QED BY <1>1, <1>2, HeadingStays

LEMMA DeclarationStays ==
  ASSUME TypesHold, calls # <<>>, Declaration
  PROVE  Determined(decls) \subseteq Determined(decls')
<1>1. Coherence /\ IsSeq(v.Ids)
  BY VFacts DEF TypesHold
<1>2. ASSUME NEW x, insert(<<x>>) PROVE Determined(decls) \subseteq Determined(decls')
  BY <1>1, <1>2, One, InsertStays
<1>3. ASSUME NEW x, NEW D, DeclareTyped(<<x>>, D) PROVE Determined(decls) \subseteq Determined(decls')
  BY <1>1, <1>3, One, TypedStays
<1>4. CASE Declares("constant", v, actOnConstantDeclaration(v.Name, v.E))
  BY <1>2, <1>4, Zenon DEF Declares, actOnConstantDeclaration
<1>5. CASE \/ Declares("alias", v, actOnTypeDeclaration("Alias", v.Name, v.D))
           \/ Declares("pointer", v, actOnTypeDeclaration("Pointer", v.Name, v.D))
  BY <1>3, <1>5, Zenon DEF Declares, actOnTypeDeclaration
<1>6. CASE Declares("record", v, actOnRecordTypeDeclaration(v.Name, v.Fields))
  <2>1. actOnRecordTypeDeclaration(v.Name, v.Fields)
    BY <1>6 DEF Declares
  <2> QED BY <1>2, <2>1 DEF actOnRecordTypeDeclaration
<1>7. CASE Declares("variable", v, actOnVariableDeclaration(v.Ids, v.D))
  <2>1. actOnVariableDeclaration(v.Ids, v.D)
    BY <1>7 DEF Declares
  <2>2. IsSeq(Variables(v.Ids, v.D))
    BY <1>1, VariablesFresh DEF Fresh
  <2> QED BY <1>1, <2>1, <2>2, TypedStays DEF actOnVariableDeclaration
<1>8. CASE Evaluates("field", [v EXCEPT !.Fields = @ \o FieldsOf(v.Ids, v.D)],
                     ~IsType(v.D) /\ v.Ids # <<>>)
  <2>1. decls' = decls
    BY <1>8, Zenon DEF Evaluates
  <2> QED BY <2>1
<1> QED BY <1>4, <1>5, <1>6, <1>7, <1>8, Zenon DEF Declaration

LEMMA ProcedureStays ==
  ASSUME TypesHold, calls # <<>>, Procedure \/ Module
  PROVE  Determined(decls) \subseteq Determined(decls')
<1>1. Coherence /\ IsSeq(v.Ids) /\ IsSeq(decls)
  BY VFacts DEF TypesHold, Coherence, Coherent, Declared
<1>2. CASE Declares("newProcedure", [v EXCEPT !.D = Len(decls) + 1], actOnProcedureDeclaration(tok))
  BY <1>1, <1>2, One, InsertStays DEF Declares, actOnProcedureDeclaration
<1>3. ASSUME NEW locals, Declares("parameter", locals, actOnFormalParameterDeclaration(v.Ids, v.D, v.IsVar))
      PROVE  Determined(decls) \subseteq Determined(decls')
  <2>1. actOnFormalParameterDeclaration(v.Ids, v.D, v.IsVar)
    BY <1>3, Zenon DEF Declares
  <2>2. IsSeq(Parameters(v.Ids, v.D, v.IsVar))
    BY <1>1, ParametersFresh DEF Fresh
  <2> QED BY <1>1, <2>1, <2>2, TypedStays DEF actOnFormalParameterDeclaration
<1>4. CASE Declares("heading", v, actOnProcedureHeading(v.D, v.Params, v.Ret) /\ UNCHANGED scopes)
  BY <1>4, HeadingSets
<1>5. ASSUME NEW op, NEW b, Evaluates(op, v, b)
      PROVE  Determined(decls) \subseteq Determined(decls')
  <2>1. decls' = decls
    BY <1>5, Zenon DEF Evaluates
  <2> QED BY <2>1
<1>6. ASSUME NEW locals, NEW x, Declares("newModule", locals, decls' = Append(decls, x) /\ UNCHANGED <<scopes, errors>>)
      PROVE  Determined(decls) \subseteq Determined(decls')
  <2>1. decls' = Append(decls, x)
    BY <1>6, Zenon DEF Declares
  <2>2. PICK S : decls \in Seq(S)
    BY <1>1 DEF IsSeq
  <2>3. decls \in Seq(S \cup {x}) /\ x \in S \cup {x}
    BY <2>2, SeqMonotonic
  <2>4. decls' = decls \o <<x>>
    BY <2>1, <2>3, AppendIsConcat
  <2> QED BY <1>1, <2>4, One, InsertStays
<1>7. CASE Procedure
  BY <1>2, <1>3, <1>4, <1>5, <1>7, Zenon DEF Procedure
<1>8. CASE Module
  BY <1>5, <1>6, <1>8, Zenon DEF Module
<1> QED BY <1>7, <1>8

\* A type that is known is not forgotten.
LEMMA TypesStay ==
  ASSUME TypesHold, [Next]_vars
  PROVE  Determined(decls) \subseteq Determined(decls')
<1>1. CASE decls' = decls
  BY <1>1
<1>2. ASSUME NEW op, NEW locals, NEW b, Evaluates(op, locals, b) PROVE decls' = decls
  BY <1>2, Zenon DEF Evaluates
<1>3. CASE TakeToken \/ LookUp \/ Operand \/ Operation \/ Statement
  <2>1. decls' = decls
    BY <1>2, <1>3, Zenon DEF TakeToken, LookUp, Operand, Operation, Statement
  <2> QED BY <1>1, <2>1
<1>4. CASE Declaration \/ Procedure \/ Module
  <2>1. calls # <<>>
    <3>1. ASSUME NEW op, Doing(op) PROVE calls # <<>>
      BY <3>1 DEF Doing
    <3> QED BY <1>4, <3>1, Zenon DEF Declaration, Procedure, Module, Evaluates, Declares
  <2> QED BY <1>4, <2>1, DeclarationStays, ProcedureStays
<1>5. CASE EnterDeclScope \/ DoExpect \/ DoAdvance \/ DoConsume \/ DoWhen \/ DoWhile \/ DoCall
           \/ DoFail \/ DoReturn \/ Resynchronise \/ Skip \/ Crash \/ UNCHANGED vars
  <2>1. decls' = decls
    BY <1>5 DEF EnterDeclScope, DoExpect, DoAdvance, DoConsume, DoWhen, DoWhile, DoCall, DoFail,
       DoReturn, Resynchronise, Skip, Crash, Leave, semaVars, vars
  <2> QED BY <1>1, <2>1
<1> QED BY <1>3, <1>4, <1>5, Zenon DEF Next, Step, Halt, Analyse

\* What a call does that neither enters a scope nor calls another function.
Actions ==
  {"advance", "expect", "consume", "lookup",
   "takeName", "takeId", "takeOperator", "takePrefix", "byRef", "isModule", "integer",
   "designator", "fieldSelector", "functionCall", "relation", "sum", "product", "not", "sign",
   "argument", "target", "assignment", "procCall", "condition", "return", "constant",
   "alias", "pointer", "record", "variable", "field", "newProcedure", "parameter", "heading",
   "endProcedure", "newModule", "import", "endModule"}

\* Only the creation of a procedure or a module, and the lookup, set the declaration D,
\* and a lookup that finds nothing reports it; a heading gives its procedure a type, or
\* reports that there is none.
Does ==
  \E op, locals :
    /\ op \in Actions /\ Doing(op) /\ Done(locals)
    /\ op \in {"newModule", "newProcedure"} => locals.D = Len(decls) + 1 /\ locals.D # Null
    /\ op = "lookup" => locals.D = lookup(tok) /\ (locals.D # Null \/ errors')
    /\ op \notin {"newModule", "newProcedure", "lookup"} => locals.D = v.D
    /\ op = "heading" => errors' \/ v.D \in Determined(decls')

LEMMA ActionNames ==
  ASSUME TakeToken \/ Operand \/ Operation \/ Statement
  PROVE  \E op \in Actions \ {"lookup", "heading"} : Doing(op)
<1>1. \/ Doing("takeName") \/ Doing("takeId") \/ Doing("takeOperator") \/ Doing("takePrefix")
      \/ Doing("byRef") \/ Doing("integer") \/ Doing("designator")
      \/ Doing("fieldSelector") \/ Doing("functionCall") \/ Doing("relation")
      \/ Doing("sum") \/ Doing("product") \/ Doing("not") \/ Doing("sign")
      \/ Doing("argument") \/ Doing("target") \/ Doing("assignment") \/ Doing("procCall")
      \/ Doing("condition") \/ Doing("return")
  BY Zenon DEF TakeToken, Operand, Operation, Statement, Evaluates
<1> QED BY <1>1 DEF Actions

LEMMA OneDoing == ASSUME NEW a, NEW b, Doing(a), Doing(b) PROVE a = b
  BY DEF Doing

LEMMA QuietDoes ==
  ASSUME Quietly, \E op \in Actions \ {"lookup", "heading"} : Doing(op)
  PROVE  Does
<1>1. PICK op, locals : op \notin Opening /\ Kept(op, locals) /\ Doing(op) /\ Done(locals)
  BY DEF Quietly
<1>2. op \in Actions /\ op # "lookup" /\ op # "heading"
  BY <1>1, OneDoing
<1>3. op \notin {"newModule", "newProcedure"} /\ locals.D = v.D
  BY <1>1, <1>2 DEF Kept, Opening
<1> QED BY <1>1, <1>2, <1>3 DEF Does

LEMMA LookUpDoes == ASSUME Coherence, calls # <<>>, LookUp PROVE Does
<1>1. CASE Evaluates("lookup", [v EXCEPT !.D = lookup(tok)], lookup(tok) = Null)
  <2>1. PICK x, locals : x = lookup(tok) /\ locals = [v EXCEPT !.D = x]
    OBVIOUS
  <2>2. Doing("lookup") /\ Done(locals) /\ Report(x = Null)
    BY <1>1, <2>1, Zenon DEF Evaluates
  <2>3. locals.D = x
    BY <2>1, VFacts DEF Locals
  <2>4. locals.D # Null \/ errors'
    BY <2>2, <2>3 DEF Report
  <2>5. "lookup" \in Actions
    BY DEF Actions
  <2> QED BY <2>1, <2>2, <2>3, <2>4, <2>5 DEF Does
<1>2. CASE Evaluates("isModule", v, FALSE)
  <2>1. Quietly
    BY <1>2, KeptNames, EvaluatesPlain, NotSetting, Zenon
  <2>2. Doing("isModule") /\ "isModule" \in Actions
    BY <1>2 DEF Evaluates, Actions
  <2> QED BY <2>1, <2>2, QuietDoes
<1> QED BY <1>1, <1>2 DEF LookUp

Plain == Actions \ {"newModule", "newProcedure", "lookup", "heading"}

LEMMA PlainDoes ==
  ASSUME NEW op \in Plain, Doing(op),
         NEW locals, Done(locals), locals.D = v.D
  PROVE  Does
  BY DEF Does, Plain

LEMMA DeclarationDoes == ASSUME Coherence, calls # <<>>, Declaration PROVE Does
<1>1. CASE Evaluates("field", [v EXCEPT !.Fields = @ \o FieldsOf(v.Ids, v.D)],
                     ~IsType(v.D) /\ v.Ids # <<>>)
  <2>1. Quietly
    BY <1>1, FieldQuiet, Zenon
  <2>2. Doing("field")
    BY <1>1, Zenon DEF Evaluates
  <2>3. "field" \in Actions
    BY DEF Actions
  <2> QED BY <2>1, <2>2, <2>3, QuietDoes
<1>2. ASSUME NEW op \in {"constant", "alias", "pointer", "record", "variable"}, Doing(op), Done(v)
      PROVE  Does
  <2>1. op \in Plain
    BY DEF Actions, Plain
  <2> QED BY <1>2, <2>1, PlainDoes
<1> QED BY <1>1, <1>2, Zenon DEF Declaration, Declares

LEMMA ProcedureDoes == ASSUME TypesHold, calls # <<>>, Procedure \/ Module PROVE Does
<1>0. Coherence
  BY DEF TypesHold
<1>1. ASSUME NEW op \in {"newProcedure", "newModule"}, Doing(op),
             Done([v EXCEPT !.D = Len(decls) + 1])
      PROVE  Does
  <2>1. PICK locals : locals = [v EXCEPT !.D = Len(decls) + 1]
    OBVIOUS
  <2>2. Len(decls) \in Nat
    BY <1>0, SeqFacts DEF Coherence, Coherent, Declared
  <2>3. locals.D = Len(decls) + 1 /\ locals.D # Null
    BY <1>0, <2>1, <2>2, VFacts DEF Null, Locals
  <2>4. op \in Actions
    BY DEF Actions
  <2> QED BY <1>1, <2>1, <2>3, <2>4 DEF Does
<1>2. ASSUME NEW op \in {"endProcedure", "import", "endModule"}, Doing(op), Done(v)
      PROVE  Does
  <2>1. op \in Plain
    BY DEF Actions, Plain
  <2> QED BY <1>2, <2>1, PlainDoes
<1>3. ASSUME NEW x, Doing("parameter"), Done([v EXCEPT !.Params = x])
      PROVE  Does
  <2>1. [v EXCEPT !.Params = x].D = v.D
    BY <1>0, VFacts DEF Locals
  <2> QED BY <1>3, <2>1, PlainDoes DEF Actions, Plain
<1>4. ASSUME Declares("parameter",
                      [v EXCEPT !.Params = @ \o (IF IsType(v.D)
                                                   THEN InsertedDecls(Parameters(v.Ids, v.D, v.IsVar))
                                                   ELSE <<>>)],
                      actOnFormalParameterDeclaration(v.Ids, v.D, v.IsVar))
      PROVE  Does
  BY <1>3, <1>4, Zenon DEF Declares
<1>5. CASE Declares("heading", v, actOnProcedureHeading(v.D, v.Params, v.Ret) /\ UNCHANGED scopes)
  <2>1. Doing("heading") /\ Done(v)
    BY <1>5, Zenon DEF Declares
  <2>2. errors' \/ v.D \in Determined(decls')
    BY <1>5, HeadingSets
  <2> QED BY <2>1, <2>2 DEF Does, Actions
<1>6. ASSUME NEW op \in {"endProcedure", "import", "endModule"}, NEW b, Evaluates(op, v, b)
      PROVE  Does
  BY <1>2, <1>6, Zenon DEF Evaluates
<1>7. CASE Procedure
  BY <1>1, <1>4, <1>5, <1>6, <1>7, Zenon DEF Procedure, Declares
<1>8. CASE Module
  BY <1>1, <1>6, <1>8, Zenon DEF Module, Declares
<1> QED BY <1>7, <1>8

LEMMA AnalyseDoes == ASSUME TypesHold, Analyse PROVE Does \/ EnterDeclScope
<1>0. Coherence
  BY DEF TypesHold
<1>1. CASE calls # <<>>
  <2>1. \/ TakeToken \/ LookUp \/ Operand \/ Operation \/ Statement
        \/ Declaration \/ Procedure \/ Module \/ EnterDeclScope
    BY DEF Analyse
  <2>2. ASSUME TakeToken \/ Operand \/ Operation \/ Statement PROVE Does
    <3>1. Quietly
      BY <1>0, <1>1, <2>2, TakeTokenQuiet, OperandQuiet, OperationQuiet, StatementQuiet, Zenon
    <3>2. \E op \in Actions \ {"lookup", "heading"} : Doing(op)
      BY <2>2, ActionNames
    <3> QED BY <3>1, <3>2, QuietDoes
  <2> QED BY <1>0, <1>1, <2>1, <2>2, LookUpDoes, DeclarationDoes, ProcedureDoes, Zenon
<1>2. CASE calls = <<>>
  <2>1. ~\E op : Doing(op)
    BY <1>2 DEF Doing
  <2> QED BY <2>1, Zenon DEF Analyse, TakeToken, LookUp, Operand, Operation, Statement,
             Declaration, Procedure, Module, EnterDeclScope, Evaluates, Declares
<1> QED BY <1>1, <1>2

\* A token is taken, or was the one that is expected.
LEMMA TokenDoes == ASSUME NEW op \in {"advance", "expect", "consume"}, Doing(op), Done(v) PROVE Does
<1>1. op \in Plain
  BY DEF Actions, Plain
<1> QED BY <1>1, PlainDoes

-----------------------------------------------------------------------------
(* Null declarations.                                                       *)

\* What is left of a function that is going to create a declaration of its own, or to
\* look one up.
Unopened(r) == Begins(r) \/ Names_(r) \/ Creates(r) \/ Asks(r) \/ Looks(r)

\* What is left of parseQualident until the name has been looked up.
NotYet(r) == r = parseQualident.body \/ r = Tail(parseQualident.body)

\* Unless an error has been reported (e), a call that has no declaration is not going to
\* take one before it has looked one up, and parseQualident has found one.
NullFrame(f, e) == e \/ f.locals.D # Null \/ f.rest \in Guarded \/ Unopened(f.rest)
Found(f, e) == f.fn = "parseQualident" => e \/ f.locals.D # Null

\* The call f that goes on; the call f that waits for g.
NullActing(f, e) == NullFrame(f, e) /\ (NotYet(f.rest) \/ Found(f, e))
NullWaiting(f, g, e) == (NullFrame(f, e) \/ g.out = [D |-> "D"]) /\ Found(f, e)

Nulls(c, e) ==
  /\ \A k \in DOMAIN c : c[k].out = [D |-> "D"] => c[k].fn = "parseQualident"
  /\ c # <<>> => NullActing(c[Len(c)], e)
  /\ \A k \in DOMAIN c : k < Len(c) => NullWaiting(c[k], c[k + 1], e)

LEMMA NullLater ==
  ASSUME NEW f, NEW g, NEW h, NEW e, NEW e2, e => e2, g.out = h.out, NullWaiting(f, g, e)
  PROVE  NullWaiting(f, h, e2)
  BY DEF NullWaiting, NullFrame, Found

LEMMA ReplacedNull ==
  ASSUME NEW c, IsSeq(c), c # <<>>, NEW e, NEW e2, e => e2, Nulls(c, e),
         NEW g, NEW c2, Replaced(c, g, c2),
         g.out = c[Len(c)].out, g.fn = c[Len(c)].fn, NullActing(g, e2)
  PROVE  Nulls(c2, e2)
<1>1. PICK n \in Nat : n = Len(c) /\ DOMAIN c = 1..n /\ DOMAIN c2 = 1..n /\ Len(c2) = n
  BY SeqFacts DEF Replaced
<1>2. n >= 1 /\ n \in 1..n
  BY <1>1, LastReplaced
<1>3. \A k \in 1..n : k = n \/ (k \in 1..(n - 1) /\ k < n /\ k + 1 \in 1..n)
  OBVIOUS
<1>4. c2[n] = g /\ \A k \in 1..(n - 1) : c2[k] = c[k]
  BY <1>1 DEF Replaced
<1>5. \A k \in 1..n : c2[k].out = c[k].out /\ c2[k].fn = c[k].fn
  BY <1>1, <1>3, <1>4
<1>6. ASSUME NEW k \in 1..n, k < n PROVE NullWaiting(c2[k], c2[k + 1], e2)
  <2>1. c2[k] = c[k] /\ k + 1 \in 1..n
    BY <1>3, <1>4, <1>6
  <2>2. c2[k + 1].out = c[k + 1].out
    BY <1>5, <2>1
  <2>3. NullWaiting(c[k], c[k + 1], e)
    BY <1>1, <1>6 DEF Nulls
  <2> QED BY <2>1, <2>2, <2>3, NullLater
<1> QED BY <1>1, <1>4, <1>5, <1>6 DEF Nulls

LEMMA PushedNull ==
  ASSUME NEW c, IsSeq(c), c # <<>>, NEW e, Nulls(c, e), NEW g, NEW h, NEW c2, Pushed(c, g, h, c2),
         g.out = c[Len(c)].out, g.fn = c[Len(c)].fn, NullWaiting(g, h, e), NullActing(h, e),
         h.out = [D |-> "D"] => h.fn = "parseQualident"
  PROVE  Nulls(c2, e)
<1>1. PICK n \in Nat : n = Len(c) /\ DOMAIN c = 1..n /\ DOMAIN c2 = 1..(n + 1) /\ Len(c2) = n + 1
  BY SeqFacts DEF Pushed
<1>2. n >= 1 /\ n \in 1..n
  BY <1>1, LastReplaced
<1>3. \A k \in 1..(n + 1) : \/ k = n + 1
                            \/ k = n
                            \/ (k \in 1..(n - 1) /\ k < n /\ k \in 1..n /\ k + 1 \in 1..n)
  OBVIOUS
<1>4. c2[n] = g /\ c2[n + 1] = h /\ \A k \in 1..(n - 1) : c2[k] = c[k]
  BY <1>1 DEF Pushed
<1>5. \A k \in 1..n : c2[k].out = c[k].out /\ c2[k].fn = c[k].fn
  BY <1>1, <1>3, <1>4
<1>6. ASSUME NEW k \in 1..(n + 1), k < n + 1 PROVE NullWaiting(c2[k], c2[k + 1], e)
  <2>1. CASE k = n
    BY <1>4, <2>1
  <2>2. CASE k \in 1..(n - 1) /\ k < n /\ k \in 1..n /\ k + 1 \in 1..n
    <3>1. c2[k] = c[k] /\ c2[k + 1].out = c[k + 1].out
      BY <1>4, <1>5, <2>2
    <3>2. NullWaiting(c[k], c[k + 1], e)
      BY <1>1, <2>2 DEF Nulls
    <3> QED BY <3>1, <3>2, NullLater
  <2> QED BY <1>3, <1>6, <2>1, <2>2
<1>7. \A k \in 1..(n + 1) : c2[k].out = [D |-> "D"] => c2[k].fn = "parseQualident"
  BY ZenonT(60), <1>1, <1>2, <1>3, <1>4, <1>5 DEF Nulls
<1> QED BY <1>1, <1>4, <1>6, <1>7 DEF Nulls

LEMMA PoppedNull ==
  ASSUME NEW c, IsSeq(c), c # <<>>, NEW e, Nulls(c, e), NEW g, NEW c2, Popped(c, g, c2),
         Len(c) > 1 => /\ NullActing(g, e)
                       /\ g.out = c[Len(c) - 1].out /\ g.fn = c[Len(c) - 1].fn
  PROVE  Nulls(c2, e)
<1>1. PICK n \in Nat : n = Len(c) /\ DOMAIN c = 1..n /\ DOMAIN c2 = 1..(n - 1) /\ Len(c2) = n - 1
  BY SeqFacts DEF Popped
<1>2. c2 # <<>> => n > 1
  <2>1. PICK S : c2 \in Seq(S)
    BY DEF Popped, IsSeq
  <2>2. n >= 1
    BY <1>1, LastReplaced
  <2> QED BY <1>1, <2>1, <2>2, EmptySeq
<1>3. \A k \in 1..(n - 1) : /\ n > 1 /\ k \in 1..n /\ k < n
                            /\ k = n - 1 \/ (k \in 1..(n - 2) /\ k + 1 \in 1..(n - 1))
  OBVIOUS
<1>4. (n > 1 => c2[n - 1] = g) /\ \A k \in 1..(n - 2) : c2[k] = c[k]
  BY <1>1 DEF Popped
<1>5. \A k \in 1..(n - 1) : c2[k].out = c[k].out /\ c2[k].fn = c[k].fn
  BY <1>1, <1>3, <1>4
<1>6. ASSUME NEW k \in 1..(n - 1), k < n - 1 PROVE NullWaiting(c2[k], c2[k + 1], e)
  <2>1. k \in 1..(n - 2) /\ k + 1 \in 1..(n - 1) /\ k \in 1..n /\ k < n
    BY <1>3, <1>6
  <2>2. c2[k] = c[k] /\ c2[k + 1].out = c[k + 1].out
    BY <1>4, <1>5, <2>1
  <2>3. NullWaiting(c[k], c[k + 1], e)
    BY <1>1, <2>1 DEF Nulls
  <2> QED BY <2>2, <2>3, NullLater
<1>7. \A k \in 1..(n - 1) : c2[k].out = [D |-> "D"] => c2[k].fn = "parseQualident"
  BY <1>1, <1>3, <1>5 DEF Nulls
<1>8. c2 # <<>> => NullActing(c2[Len(c2)], e)
  BY <1>1, <1>2, <1>4
<1> QED BY <1>1, <1>6, <1>7, <1>8 DEF Nulls

(* The steps. *)

NullsHold == TypesHold /\ Nulls(calls, errors)

LEMMA TopNull ==
  ASSUME NullsHold, calls # <<>>
  PROVE  /\ NullActing(Top, errors) /\ Top = calls[Len(calls)] /\ v = Top.locals
         /\ Top.out = [D |-> "D"] => Top.fn = "parseQualident"
         /\ IsSeq(calls) /\ WellFormed(Top, decls)
         /\ DOMAIN calls = 1..Len(calls) /\ Len(calls) \in Nat /\ Len(calls) >= 1
<1>1. /\ DOMAIN calls = 1..Len(calls) /\ Len(calls) \in Nat /\ Len(calls) >= 1
      /\ IsSeq(calls) /\ WellFormed(Top, decls)
  BY TopFrame DEF NullsHold, TypesHold
<1>2. Top = calls[Len(calls)] /\ v = Top.locals /\ Len(calls) \in DOMAIN calls
  BY <1>1 DEF Top, v
<1> QED BY <1>1, <1>2 DEF NullsHold, Nulls

\* The innermost call is replaced.
LEMMA TopReplacedNull ==
  ASSUME NullsHold, calls # <<>>, NEW g, SetTop(g), g.out = Top.out, g.fn = Top.fn,
         errors => errors', NullActing(g, errors')
  PROVE  Nulls(calls', errors')
<1>1. IsSeq(calls) /\ Top = calls[Len(calls)] /\ Nulls(calls, errors)
  BY TopNull DEF NullsHold
<1>2. Replaced(calls, g, calls')
  BY <1>1, LastReplaced DEF SetTop
<1> QED BY <1>1, <1>2, ReplacedNull

LEMMA QualidentBody ==
  /\ \A r : NotYet(r) => r # <<>> /\ r[1].op \in {"expect", "lookup"}
  /\ \A r : NotYet(r) /\ r[1].op # "lookup" => NotYet(Tail(r))
  /\ Rules["parseQualident"].body = parseQualident.body
<1>1. PICK b : b = parseQualident.body
  OBVIOUS
<1>2. b = << Expect("identifier"), Act("lookup"), Advance, Act("isModule") >>
  BY <1>1 DEF parseQualident, Rule
<1>3. Tail(b) = << Act("lookup"), Advance, Act("isModule") >>
  BY <1>2
<1>4. b # <<>> /\ b[1].op = "expect"
  BY <1>2 DEF Expect
<1>5. Tail(b) # <<>> /\ Tail(b)[1].op = "lookup"
  <2>1. PICK c : c = << Act("lookup"), Advance, Act("isModule") >>
    OBVIOUS
  <2>2. c # <<>> /\ c[1] = Act("lookup")
    BY <2>1
  <2>3. Act("lookup").op = "lookup"
    BY DEF Act
  <2> QED BY <1>3, <2>1, <2>2, <2>3
<1>6. Rules["parseQualident"].body = b
  BY <1>1 DEF Rules
<1> QED BY <1>1, <1>4, <1>5, <1>6 DEF NotYet

LEMMA DoneNull == ASSUME NullsHold, Does, errors => errors' PROVE Nulls(calls', errors')
<1>0. PICK op, locals :
        /\ op \in Actions /\ Doing(op) /\ Done(locals)
        /\ op \in {"newModule", "newProcedure"} => locals.D # Null
        /\ op = "lookup" => locals.D # Null \/ errors'
        /\ op \notin {"newModule", "newProcedure", "lookup"} => locals.D = v.D
  BY Zenon DEF Does
<1>1. calls # <<>> /\ Top.rest # <<>> /\ Top.rest[1].op = op /\ op # "call"
  BY <1>0 DEF Doing, Actions
<1>2. PICK f, g : f = Top /\ g = [f EXCEPT !.rest = Tail(f.rest), !.locals = locals]
  OBVIOUS
<1>3. WellFormed(f, decls) /\ NullActing(f, errors) /\ v = f.locals
  BY <1>1, <1>2, TopNull
<1>4. g.rest = Tail(f.rest) /\ g.locals = locals /\ g.out = f.out /\ g.fn = f.fn
  BY <1>2, <1>3 DEF WellFormed
<1>5. NullFrame(g, errors')
  <2>1. CASE op \in {"newModule", "newProcedure", "lookup"}
    BY <1>0, <1>4, <2>1 DEF NullFrame
  <2>2. CASE op \notin {"newModule", "newProcedure", "lookup"}
    <3>1. f.rest \in Guarded => g.rest \in Guarded
      <4>1. f.rest[1] # Qualident
        BY <1>1, <1>2 DEF Qualident, Call
      <4> QED BY <1>1, <1>2, <1>4, <4>1, GuardedNext
    <3>2. Unopened(f.rest) => Unopened(g.rest)
      BY <1>1, <1>2, <1>4, <2>2 DEF Unopened, Begins, Names_, Creates, Asks, Looks, Expect
    <3> QED BY <1>0, <1>3, <1>4, <2>2, <3>1, <3>2 DEF NullActing, NullFrame
  <2> QED BY <2>1, <2>2
<1>6. NotYet(g.rest) \/ Found(g, errors')
  <2>1. CASE op \in {"newModule", "newProcedure", "lookup"}
    BY <1>0, <1>4, <2>1 DEF Found
  <2>2. CASE op \notin {"newModule", "newProcedure", "lookup"}
    <3>1. NotYet(f.rest) => NotYet(g.rest)
      BY <1>1, <1>2, <1>4, <2>2, QualidentBody
    <3> QED BY <1>0, <1>3, <1>4, <2>2, <3>1 DEF NullActing, Found
  <2> QED BY <2>1, <2>2
<1>7. SetTop(g)
  BY <1>0, <1>2 DEF Done
<1> QED BY <1>1, <1>2, <1>4, <1>5, <1>6, <1>7, TopReplacedNull DEF NullActing

\* The innermost call does something else next.
LEMMA RestNull ==
  ASSUME NullsHold, calls # <<>>, NEW r, SetTop([Top EXCEPT !.rest = r]), errors => errors',
         Top.rest \in Guarded \/ Unopened(Top.rest) => r \in Guarded,
         NotYet(Top.rest) => errors'
  PROVE  Nulls(calls', errors')
<1>1. PICK f, g : f = Top /\ g = [f EXCEPT !.rest = r]
  OBVIOUS
<1>2. WellFormed(f, decls) /\ NullActing(f, errors)
  BY <1>1, TopNull
<1>3. g.rest = r /\ g.locals = f.locals /\ g.out = f.out /\ g.fn = f.fn
  BY <1>1, <1>2 DEF WellFormed
<1>4. NullActing(g, errors')
  BY <1>1, <1>2, <1>3 DEF NullActing, NullFrame, Found
<1> QED BY <1>1, <1>3, <1>4, TopReplacedNull

LEMMA HandlerGuarded == <<Handler>> \in Guarded
<1>1. Handler \in Mild
  BY Basics, Levels
<1>2. <<Handler>> \in Seq(Mild)
  BY <1>1
<1> QED BY <1>2, Paths

LEMMA RecoverNull ==
  ASSUME NullsHold, calls # <<>>, Recover, errors => errors',
         errors' \/ (\E op : Doing(op) /\ op \notin {"expect", "lookup"})
  PROVE  Nulls(calls', errors')
<1>1. NotYet(Top.rest) => errors'
  BY QualidentBody DEF Doing
<1> QED BY <1>1, RestNull, HandlerGuarded DEF Recover

\* Whoever opens a scope does not start with a condition, a loop or a call.
LEMMA UnopenedNext == ASSUME NEW r, Unopened(r) PROVE r[1].op \notin {"when", "while", "call"}
  BY DEF Unopened, Begins, Names_, Creates, Asks, Looks, Expect

LEMMA WhenNull == ASSUME NullsHold, DoWhen PROVE Nulls(calls', errors')
<1>1. Doing("when") /\ calls # <<>> /\ Top.rest # <<>> /\ Top.rest[1].op = "when"
      /\ errors' = errors
  BY DEF DoWhen, Doing, semaVars
<1>2. PICK p, r : /\ p = IF Is(Top.rest[1].kinds) THEN Top.rest[1].then ELSE Top.rest[1].otherwise
                  /\ r = p \o Tail(Top.rest)
  OBVIOUS
<1>3. SetTop([Top EXCEPT !.rest = r])
  BY <1>2 DEF DoWhen
<1>4. Top.rest[1] # Qualident
  BY <1>1 DEF Qualident, Call
<1>5. Top.rest \in Guarded => r \in Guarded
  <2>1. Top.rest \in Guarded => p \in Guarded /\ Tail(Top.rest) \in Guarded
    BY <1>1, <1>2, <1>4, GuardedNext
  <2> QED BY <1>2, <2>1, GuardsConcat DEF Guarded
<1>6. ~Unopened(Top.rest) /\ ~NotYet(Top.rest)
  BY <1>1, UnopenedNext, QualidentBody
<1> QED BY <1>1, <1>3, <1>5, <1>6, RestNull

LEMMA WhileNull == ASSUME NullsHold, DoWhile PROVE Nulls(calls', errors')
<1>1. Doing("while") /\ calls # <<>> /\ Top.rest # <<>> /\ Top.rest[1].op = "while"
      /\ errors' = errors
  BY DEF DoWhile, Doing, semaVars
<1>2. PICK r : r = IF Is(Top.rest[1].kinds) THEN Top.rest[1].body \o Top.rest ELSE Tail(Top.rest)
  OBVIOUS
<1>3. SetTop([Top EXCEPT !.rest = r])
  BY <1>2 DEF DoWhile
<1>4. Top.rest[1] # Qualident
  BY <1>1 DEF Qualident, Call
<1>5. Top.rest \in Guarded => r \in Guarded
  <2>1. Top.rest \in Guarded => Top.rest[1].body \in Guarded /\ Tail(Top.rest) \in Guarded
    BY <1>1, <1>4, GuardedNext
  <2>2. Top.rest \in Guarded => Top.rest[1].body \o Top.rest \in Guarded
    BY <2>1, GuardsConcat DEF Guarded
  <2> QED BY <1>2, <2>1, <2>2
<1>6. ~Unopened(Top.rest) /\ ~NotYet(Top.rest)
  BY <1>1, UnopenedNext, QualidentBody
<1> QED BY <1>1, <1>3, <1>5, <1>6, RestNull

LEMMA CallNull == ASSUME NullsHold, DoCall PROVE Nulls(calls', errors')
<1>1. Doing("call") /\ calls # <<>> /\ Top.rest # <<>> /\ Top.rest[1].op = "call"
      /\ errors' = errors /\ Coherence
  BY DEF DoCall, Doing, semaVars, NullsHold, TypesHold
<1>2. PICK r, fn, out : /\ r = Tail(Top.rest) /\ fn = Top.rest[1].fn /\ out = Top.rest[1].out
                        /\ fn \in DOMAIN Rules
                        /\ out = [D |-> "D"] => fn = "parseQualident"
  <2>1. \A o : o = [D |-> "D"] => "D" \in DOMAIN o
    OBVIOUS
  <2>2. Top.rest[1].fn \in DOMAIN Rules
        /\ ("D" \in DOMAIN Top.rest[1].out => Top.rest[1].fn = "parseQualident")
    BY <1>1, PartsOf
  <2>3. Top.rest[1].out = [D |-> "D"] => Top.rest[1].fn = "parseQualident"
    BY <2>1, <2>2
  <2> QED BY <2>2, <2>3
<1>3. PICK passed : passed = [x \in DOMAIN Locals |->
                      IF x \in DOMAIN out THEN v[out[x]] ELSE Locals[x]]
  OBVIOUS
<1>4. PICK f, g : f = Top /\ g = [f EXCEPT !.rest = r]
  OBVIOUS
<1>5. PICK h : h = Frame(fn, passed, out)
  OBVIOUS
<1>6. WellFormed(f, decls) /\ NullActing(f, errors) /\ IsSeq(calls) /\ f = calls[Len(calls)]
  BY <1>1, <1>4, TopNull
<1>7. g.rest = r /\ g.locals = f.locals /\ g.out = f.out /\ g.fn = f.fn
  BY <1>4, <1>6 DEF WellFormed
<1>8. h.fn = fn /\ h.out = out /\ h.rest = Rules[fn].body
  BY <1>5 DEF Frame
<1>9. NullWaiting(g, h, errors)
  <2>1. ~NotYet(f.rest) /\ ~Unopened(f.rest)
    BY <1>1, <1>4, UnopenedNext, QualidentBody
  <2>2. f.rest[1] = Qualident => h.out = [D |-> "D"]
    BY <1>2, <1>4, <1>8 DEF Qualident, Call
  <2>3. f.rest \in Guarded /\ f.rest[1] # Qualident => r \in Guarded
    BY <1>1, <1>2, <1>4, GuardedNext
  <2> QED BY <1>6, <1>7, <2>1, <2>2, <2>3 DEF NullWaiting, NullActing, NullFrame, Found
<1>10. NullActing(h, errors)
  <2>1. h.rest \in Guarded \/ Unopened(h.rest)
    BY <1>2, <1>8, GuardedBodies DEF Unopened
  <2>2. fn = "parseQualident" => NotYet(h.rest)
    BY <1>8, QualidentBody DEF NotYet
  <2> QED BY <1>8, <2>1, <2>2 DEF NullActing, NullFrame, Found
<1>11. Pushed(calls, g, h, calls')
  <2>1. calls' = Append([calls EXCEPT ![Len(calls)] = g], h)
    <3>1. g = [calls[Len(calls)] EXCEPT !.rest = Tail(calls[Len(calls)].rest)]
      BY <1>2, <1>4 DEF Top
    <3>2. [calls EXCEPT ![Len(calls)].rest = Tail(@)] = [calls EXCEPT ![Len(calls)] = g]
      BY <3>1
    <3> QED BY <1>2, <1>3, <1>5, <3>2 DEF DoCall
  <2> QED BY <1>1, <1>6, <2>1, LastPushed
<1>12. Nulls(calls', errors)
  BY <1>1, <1>2, <1>6, <1>7, <1>8, <1>9, <1>10, <1>11, PushedNull DEF NullsHold
<1> QED BY <1>1, <1>12, Zenon

\* D of the caller is what parseQualident has found, or what it was.
LEMMA WrittenNull ==
  ASSUME NEW out \in Outs, NEW inner, NEW outer, DOMAIN inner = DOMAIN Locals
  PROVE  Written(out, inner, outer).D = IF out = [D |-> "D"] THEN inner.D ELSE outer.D
<1>1. PICK R : R = {p \in DOMAIN out : out[p] = "D"}
  OBVIOUS
<1>2. Written(out, inner, outer).D = IF R = {} THEN outer.D ELSE inner[CHOOSE p \in R : TRUE]
  <2>1. "D" \in DOMAIN inner
    BY DEF Locals
  <2> QED BY <1>1, <2>1 DEF Written
<1>3. out = [D |-> "D"] => R = {"D"}
  BY <1>1
<1>4. out # [D |-> "D"] => R = {}
  <2>1. [D |-> "Ret"]["D"] # "D" /\ [E |-> "E"]["E"] # "D" /\ [E |-> "R"]["E"] # "D"
    OBVIOUS
  <2> QED BY <1>1 DEF Outs, OwnOuts, None
<1> QED BY <1>2, <1>3, <1>4

LEMMA LeaveNull ==
  ASSUME NullsHold, calls # <<>>, ~NotYet(Top.rest), NEW failed, Leave(failed)
  PROVE  Nulls(calls', errors')
<1>1. PICK n \in Nat : n = Len(calls) /\ n >= 1 /\ DOMAIN calls = 1..n
  BY TopNull
<1>2. /\ Active(calls, decls, current) /\ IsSeq(calls) /\ Nulls(calls, errors)
      /\ Top = calls[n] /\ v = calls[n].locals /\ errors' = errors
  BY <1>1, TopNull, Zenon DEF NullsHold, TypesHold, Coherence, Coherent, Leave
<1>3. PICK b, r, g : /\ b = calls[n - 1]
                     /\ r = IF failed THEN <<Handler>> ELSE b.rest
                     /\ g = Caller(b, calls[n], r)
  OBVIOUS
<1>4. calls' = IF n = 1 THEN <<>> ELSE Append(SubSeq(calls, 1, n - 2), g)
  <2>1. calls' = IF n = 1 THEN <<>>
                 ELSE Append(SubSeq(calls, 1, n - 2),
                        [b EXCEPT !.locals = Written(calls[n].out, calls[n].locals, @),
                                  !.rest = IF failed THEN <<Handler>> ELSE @])
    BY <1>1, <1>2, <1>3 DEF Leave
  <2> QED BY <1>3, <2>1, Zenon DEF Caller
<1>5. Popped(calls, g, calls')
  <2>1. Popped(calls, g, IF n = 1 THEN <<>> ELSE Append(SubSeq(calls, 1, n - 2), g))
    BY <1>1, <1>2, LastPopped
  <2> QED BY <1>4, <2>1, Zenon
<1>6. ASSUME n > 1 PROVE NullActing(g, errors) /\ g.out = b.out /\ g.fn = b.fn
  <2>1. n \in DOMAIN calls /\ n - 1 \in DOMAIN calls /\ n - 1 < n /\ (n - 1) + 1 = n
    BY <1>1, <1>6
  <2>2. PICK f, w : f = calls[n] /\ w = Written(f.out, f.locals, b.locals)
    OBVIOUS
  <2>3. WellFormed(f, decls) /\ WellFormed(b, decls)
    BY <1>2, <1>3, <2>1, <2>2, Zenon DEF Active
  <2>4. g.locals = w /\ g.rest = r /\ g.out = b.out /\ g.fn = b.fn
    <3>1. g = [b EXCEPT !.locals = w, !.rest = r]
      BY <1>3, <2>2 DEF Caller
    <3>2. DOMAIN b = {"fn", "rest", "locals", "out", "scoped"}
      BY <2>3, Zenon DEF WellFormed
    <3> QED BY <3>1, <3>2
  <2>5. w.D = IF f.out = [D |-> "D"] THEN f.locals.D ELSE b.locals.D
    BY <2>2, <2>3, WrittenNull DEF WellFormed
  <2>6. Found(f, errors) /\ (f.out = [D |-> "D"] => f.fn = "parseQualident")
    BY <1>2, <2>2, TopNull DEF NullActing
  <2>7. NullWaiting(b, f, errors)
    <3>1. NullWaiting(calls[n - 1], calls[(n - 1) + 1], errors)
      BY <1>1, <1>2, <2>1, Zenon DEF Nulls
    <3> QED BY <1>3, <2>1, <2>2, <3>1
  <2>8. CASE f.out = [D |-> "D"]
    BY <2>4, <2>5, <2>6, <2>8 DEF NullActing, NullFrame, Found
  <2>9. CASE f.out # [D |-> "D"]
    <3>1. g.locals.D = b.locals.D
      BY <2>4, <2>5, <2>9
    <3>2. b.rest \in Guarded \/ Unopened(b.rest) => r \in Guarded \/ Unopened(r)
      BY <1>3, HandlerGuarded
    <3> QED BY <2>4, <2>7, <2>9, <3>1, <3>2 DEF NullWaiting, NullActing, NullFrame, Found
  <2> QED BY <2>4, <2>8, <2>9
<1>7. Nulls(calls', errors)
  BY <1>1, <1>2, <1>3, <1>5, <1>6, PoppedNull
<1> QED BY <1>2, <1>7, Zenon

\* The call has entered the scope of the declaration it has created.
LEMMA EnterNull ==
  ASSUME NullsHold, EnterDeclScope
  PROVE  Nulls(calls', errors')
<1>1. calls # <<>> /\ Top.rest # <<>> /\ Top.rest[1].op = "enterScope" /\ errors' = errors
  BY DEF EnterDeclScope, Doing
<1>2. PICK f, g : f = Top /\ g = [f EXCEPT !.rest = Tail(f.rest), !.scoped = TRUE]
  OBVIOUS
<1>3. WellFormed(f, decls) /\ NullActing(f, errors) /\ TypedFrame(f, decls)
  BY <1>1, <1>2, TopNull, TopTyped DEF NullsHold
<1>4. g.locals = f.locals /\ g.out = f.out /\ g.fn = f.fn
  BY <1>2, <1>3 DEF WellFormed
<1>5. f.locals.D # Null
  <2>1. Enters(f.rest)
    BY <1>1, <1>2, <1>3, NextOperation
  <2>2. f.locals.D \in DOMAIN decls
    BY <1>3, <2>1 DEF TypedFrame, Owners
  <2>3. DOMAIN decls = 1..Len(decls)
    BY SeqFacts DEF NullsHold, TypesHold, Coherence, Coherent, Declared
  <2> QED BY <2>2, <2>3 DEF Null
<1>6. NullActing(g, errors')
  BY <1>4, <1>5 DEF NullActing, NullFrame, Found
<1>7. SetTop(g)
  BY <1>2 DEF EnterDeclScope
<1> QED BY <1>1, <1>2, <1>4, <1>6, <1>7, TopReplacedNull

LEMMA AnalyseNull == ASSUME NullsHold, Analyse, errors => errors' PROVE Nulls(calls', errors')
  BY AnalyseDoes, DoneNull, EnterNull DEF NullsHold

LEMMA UnchangedNull ==
  ASSUME NullsHold, calls' = calls, errors' = errors
  PROVE  Nulls(calls', errors')
  BY DEF NullsHold

LEMMA StepNull == ASSUME NullsHold, [Next]_vars PROVE Nulls(calls', errors')
<1> USE ErrorsStay
<1>1. CASE DoAdvance
  BY <1>1, TokenDoes, DoneNull DEF DoAdvance
<1>2. CASE DoExpect
  <2>1. Doing("expect") /\ calls # <<>>
    BY <1>2 DEF DoExpect, Doing
  <2>2. CASE Is({Top.rest[1].kind})
    BY <1>2, <2>1, <2>2, TokenDoes, DoneNull DEF DoExpect
  <2>3. CASE ~Is({Top.rest[1].kind})
    <3>1. Recover /\ errors'
      BY <1>2, <2>3 DEF DoExpect, Report
    <3> QED BY <2>1, <3>1, RecoverNull
  <2> QED BY <2>2, <2>3
<1>3. CASE DoConsume
  <2>1. Doing("consume") /\ calls # <<>> /\ (Done(v) \/ Recover)
    BY <1>3 DEF DoConsume, Doing
  <2> QED BY <2>1, TokenDoes, DoneNull, RecoverNull
<1>4. CASE DoWhen
  BY <1>4, WhenNull
<1>5. CASE DoWhile
  BY <1>5, WhileNull
<1>6. CASE DoCall
  BY <1>6, CallNull
<1>7. CASE DoFail
  <2>1. Doing("fail") /\ calls # <<>> /\ Recover
    BY <1>7 DEF DoFail, Doing
  <2> QED BY <2>1, RecoverNull
<1>8. CASE DoReturn
  <2>1. calls # <<>> /\ Top.rest = <<>> /\ Leave(FALSE)
    BY <1>8 DEF DoReturn
  <2> QED BY <2>1, LeaveNull, QualidentBody
<1>9. ASSUME Doing("handler") PROVE calls # <<>> /\ ~NotYet(Top.rest)
  BY <1>9, QualidentBody DEF Doing
<1>10. CASE Resynchronise
  BY <1>9, <1>10, LeaveNull DEF Resynchronise
<1>11. CASE Skip
  BY <1>9, <1>11, LeaveNull, UnchangedNull DEF Skip, semaVars
<1>12. CASE Crash \/ UNCHANGED vars
  BY <1>12, UnchangedNull DEF Crash, semaVars, vars
<1>13. CASE Analyse
  BY <1>13, AnalyseNull
<1> QED BY <1>1, <1>2, <1>3, <1>4, <1>5, <1>6, <1>7, <1>8, <1>10, <1>11, <1>12, <1>13, Zenon
        DEF Next, Step, Halt

LEMMA StartNull ==
  /\ Nulls(<<Frame("parse", Locals, None)>>, FALSE)
  /\ Nulls(<<>>, FALSE)
<1>1. PICK f, c, e : f = Frame("parse", Locals, None) /\ c = <<f>> /\ e = <<>>
  OBVIOUS
<1>2. DOMAIN c = {1} /\ c[1] = f /\ Len(c) = 1 /\ DOMAIN e = {}
  BY <1>1
<1>3. f.fn = "parse" /\ f.out = None /\ f.rest = Rules["parse"].body
  BY <1>1 DEF Frame
<1>4. f.rest \in Guarded \/ Unopened(f.rest)
  BY <1>3, RuleNames, GuardedBodies DEF Unopened
<1>5. f.out # [D |-> "D"]
  BY <1>3, OutNames
<1>6. NullActing(f, FALSE)
  BY <1>3, <1>4 DEF NullActing, NullFrame, Found
<1>7. Nulls(c, FALSE)
  <2>1. \A k \in DOMAIN c : k = 1 /\ ~(k < Len(c))
    BY <1>2
  <2> QED BY <1>2, <1>5, <1>6, <2>1, Zenon DEF Nulls
<1>8. Nulls(e, FALSE)
  BY <1>1, <1>2, Zenon DEF Nulls
<1> QED BY <1>1, <1>7, <1>8, Zenon

LEMMA DriverStepNull == ASSUME NullsHold, [DriverNext]_driverVars PROVE NullsHold'
<1>1. TypesHold'
  BY DriverStepTyped DEF NullsHold
<1>2. Nulls(calls', errors')
  <2>1. CASE ReadFile
    <3>1. calls' = <<Frame("parse", Locals, None)>> /\ errors' = FALSE
      BY <2>1, Zenon DEF ReadFile
    <3> QED BY <3>1, StartNull, Zenon
  <2>2. CASE Parse
    BY <2>2, StepNull, Zenon DEF Parse, Next
  <2>3. CASE UNCHANGED vars
    BY <2>3, UnchangedNull DEF vars, semaVars
  <2>4. ReadError \/ EndParse \/ Generate \/ FatalError \/ Emit \/ DriverHalt \/ UNCHANGED driverVars
        => UNCHANGED vars
    BY Zenon DEF ReadError, EndParse, Generate, FatalError, Emit, DriverHalt, driverVars, parserVars
  <2> QED BY <2>1, <2>2, <2>3, <2>4, Zenon DEF DriverNext
<1> QED BY <1>1, <1>2, Zenon DEF NullsHold

\* What takes the declaration D has looked it up, or an error has been reported.
LEMMA TakesReported == ASSUME NullsHold PROVE NullReported
<1>1. SUFFICES ASSUME NEW op \in UserActs, Doing(op), v.D = Null PROVE errors
  BY Zenon DEF NullReported, UserActs
<1>2. calls # <<>> /\ Top.rest # <<>> /\ Top.rest[1].op = op
  BY <1>1 DEF Doing
<1>3. NullFrame(Top, errors) /\ v = Top.locals
  BY <1>2, TopNull DEF NullActing
<1>4. ~Unopened(Top.rest)
  BY <1>2 DEF Unopened, Begins, Names_, Creates, Asks, Looks, Expect, UserActs
<1>5. Top.rest \notin Guarded
  <2>1. Top.rest[1] # Qualident
    BY <1>2 DEF Qualident, Call, UserActs
  <2> QED BY <1>2, <2>1, GuardedNext
<1> QED BY <1>1, <1>3, <1>4, <1>5 DEF NullFrame

\* Whatever the files, a declaration that a name does not stand for is taken only after
\* the name has been reported: in every function of the parser the lookup comes before
\* the use on every path, and recovery from an error does not bring back what was
\* skipped (Parser.cpp:277-293, 376-380, 402-406,
\* 539-542, 585-618, 1175-1192).
THEOREM DriverNullReported == DriverSpec => []NullReported
<1>1. DriverInit => NullsHold
  BY StartCoherent, StartTyped, StartNull, Zenon DEF DriverInit, initialize, NullsHold, TypesHold, Coherence
<1>2. NullsHold /\ [DriverNext]_driverVars => NullsHold'
  BY DriverStepNull
<1>3. NullsHold => NullReported
  BY TakesReported
<1> QED BY <1>1, <1>2, <1>3, PTL DEF DriverSpec

-----------------------------------------------------------------------------
(* The headings of procedures.                                              *)

FormalParameters == Call("parseFormalParameters", [Params |-> "Params", Ret |-> "Ret"])
FormalPart == When({"("}, << FormalParameters >>, <<>>)

\* What parseProcedureDeclaration does before the heading; what is left of it until then.
Early ==
  { Consume("PROCEDURE"), Expect("identifier"), Act("newProcedure"), Act("enterScope"), Advance,
    FormalParameters, FormalPart }
ToHeading(r) == IsSeq(r) /\ Before(Early, Act("heading"), r)

\* The return type of the procedure whose scope f has entered is known.
Known(f, d) == f.scoped /\ f.locals.D \in Determined(d)

\* Unless an error has been reported (e), a call of parseProcedureDeclaration knows the
\* return type, has not read the heading, or has failed: what goes on, and what waits
\* for the call g.
HeadActing(f, d, e) ==
  f.fn = "parseProcedureDeclaration" =>
    e \/ Known(f, d) \/ ToHeading(f.rest) \/ f.rest = <<Handler>>
HeadWaiting(f, g, d, e) ==
  f.fn = "parseProcedureDeclaration" =>
    e \/ Known(f, d) \/ (ToHeading(f.rest) /\ g.fn # "parseBlock")

Headed(c, d, e) ==
  /\ c # <<>> => HeadActing(c[Len(c)], d, e)
  /\ \A k \in DOMAIN c : k < Len(c) => HeadWaiting(c[k], c[k + 1], d, e)

LEMMA EarlyNames ==
  /\ \A i \in Early : /\ i.op \notin {"while", "handler"}
                      /\ i.op = "when" => i = FormalPart
                      /\ i.op = "call" => i = FormalParameters
  /\ FormalPart.then = << FormalParameters >> /\ FormalPart.otherwise = <<>>
  /\ FormalParameters.fn = "parseFormalParameters"
  /\ Act("heading").op = "heading"
<1>1. /\ Consume("PROCEDURE").op = "consume" /\ Expect("identifier").op = "expect"
      /\ Act("newProcedure").op = "newProcedure" /\ Act("enterScope").op = "enterScope"
      /\ Advance.op = "advance" /\ Act("heading").op = "heading"
  BY DEF Consume, Expect, Act, Advance
<1>2. FormalParameters.op = "call" /\ FormalParameters.fn = "parseFormalParameters"
  BY DEF FormalParameters, Call
<1>3. /\ FormalPart.op = "when" /\ FormalPart.then = << FormalParameters >>
      /\ FormalPart.otherwise = <<>>
  BY DEF FormalPart, When
<1> QED BY <1>1, <1>2, <1>3 DEF Early

LEMMA ToHeadingBody == ToHeading(Rules["parseProcedureDeclaration"].body)
<1>1. PICK b : b = parseProcedureDeclaration.body
  OBVIOUS
<1>2. b = << Consume("PROCEDURE"), Expect("identifier"), Act("newProcedure"), Act("enterScope"),
             Advance, FormalPart, Act("heading"), Expect(semi), Advance,
             Call("parseBlock", None), Expect("identifier"), Act("endProcedure"), Advance >>
  BY <1>1 DEF parseProcedureDeclaration, Rule, FormalPart, FormalParameters
<1>3. PICK U : U = Early \cup {Act("heading"), Expect(semi), Call("parseBlock", None), Act("endProcedure")}
  OBVIOUS
<1>4. b \in Seq(U) /\ DOMAIN b = 1..13 /\ b[7] = Act("heading")
  BY <1>2, <1>3 DEF Early
<1>5. b[1] \in Early /\ b[2] \in Early /\ b[3] \in Early /\ b[4] \in Early /\ b[5] \in Early /\ b[6] \in Early
  BY <1>2 DEF Early
<1>6. \A j \in 1..(7 - 1) : j = 1 \/ j = 2 \/ j = 3 \/ j = 4 \/ j = 5 \/ j = 6
  OBVIOUS
<1>7. Before(Early, Act("heading"), b)
  BY <1>4, <1>5, <1>6 DEF Before
<1>8. Rules["parseProcedureDeclaration"].body = b
  BY <1>1 DEF Rules
<1> QED BY <1>4, <1>7, <1>8 DEF ToHeading, IsSeq

\* On the way to the heading there are the parameters, and no block.
LEMMA ToHeadingNext ==
  ASSUME NEW r, ToHeading(r), r[1].op # "heading"
  PROVE  /\ r # <<>> /\ ToHeading(Tail(r)) /\ r[1].op \notin {"while", "handler"}
         /\ r[1].op = "when" => /\ ToHeading(r[1].then \o Tail(r))
                                /\ ToHeading(r[1].otherwise \o Tail(r))
         /\ r[1].op = "call" => r[1].fn # "parseBlock"
<1>1. PICK U : r \in Seq(U) /\ Before(Early, Act("heading"), r)
  BY DEF ToHeading, IsSeq
<1>2. r # <<>> /\ r[1] # Act("heading")
  BY <1>1, EarlyNames DEF Before
<1>3. r[1] \in Early /\ Before(Early, Act("heading"), Tail(r)) /\ Tail(r) \in Seq(U)
  BY <1>1, <1>2, BeforeTail, TailOf
<1>4. PICK W : W = U \cup Early
  OBVIOUS
<1>5. Tail(r) \in Seq(W) /\ Early \subseteq W
  BY <1>3, <1>4, SeqMonotonic
<1>6. ASSUME NEW p \in Seq(Early) PROVE ToHeading(p \o Tail(r))
  <2>1. p \in Seq(W)
    BY <1>5, SeqMonotonic
  <2>2. Before(Early, Act("heading"), p \o Tail(r)) /\ p \o Tail(r) \in Seq(W)
    BY <1>3, <1>5, <2>1, BeforeConcat, ConcatProperties
  <2> QED BY <2>2 DEF ToHeading, IsSeq
<1>7. << FormalParameters >> \in Seq(Early) /\ <<>> \in Seq(Early)
  BY DEF Early
<1>8. r[1].op = "when" => /\ ToHeading(r[1].then \o Tail(r))
                          /\ ToHeading(r[1].otherwise \o Tail(r))
  BY <1>3, <1>6, <1>7, EarlyNames
<1> QED BY <1>2, <1>3, <1>8, EarlyNames DEF ToHeading, IsSeq

LEMMA HeadLater ==
  ASSUME NEW f, NEW g, NEW h, NEW d, NEW d2, Determined(d) \subseteq Determined(d2),
         NEW e, NEW e2, e => e2, g.fn = h.fn, HeadWaiting(f, g, d, e)
  PROVE  HeadWaiting(f, h, d2, e2)
  BY DEF HeadWaiting, Known

LEMMA ReplacedHeaded ==
  ASSUME NEW c, IsSeq(c), c # <<>>, NEW d, NEW d2, Determined(d) \subseteq Determined(d2),
         NEW e, NEW e2, e => e2, Headed(c, d, e), NEW g, NEW c2, Replaced(c, g, c2),
         g.fn = c[Len(c)].fn, HeadActing(g, d2, e2)
  PROVE  Headed(c2, d2, e2)
<1>1. PICK n \in Nat : n = Len(c) /\ DOMAIN c = 1..n /\ DOMAIN c2 = 1..n /\ Len(c2) = n
  BY SeqFacts DEF Replaced
<1>2. \A k \in 1..n : k = n \/ (k \in 1..(n - 1) /\ k < n /\ k + 1 \in 1..n)
  OBVIOUS
<1>3. c2[n] = g /\ \A k \in 1..(n - 1) : c2[k] = c[k]
  BY <1>1 DEF Replaced
<1>4. \A k \in 1..n : c2[k].fn = c[k].fn
  BY <1>1, <1>2, <1>3
<1>5. ASSUME NEW k \in 1..n, k < n PROVE HeadWaiting(c2[k], c2[k + 1], d2, e2)
  <2>1. c2[k] = c[k] /\ c2[k + 1].fn = c[k + 1].fn
    BY <1>2, <1>3, <1>4, <1>5
  <2>2. HeadWaiting(c[k], c[k + 1], d, e)
    BY <1>1, <1>5 DEF Headed
  <2> QED BY <2>1, <2>2, HeadLater
<1> QED BY <1>1, <1>3, <1>5 DEF Headed

LEMMA PushedHeaded ==
  ASSUME NEW c, IsSeq(c), c # <<>>, NEW d, NEW e, Headed(c, d, e),
         NEW g, NEW h, NEW c2, Pushed(c, g, h, c2),
         g.fn = c[Len(c)].fn, HeadWaiting(g, h, d, e), HeadActing(h, d, e)
  PROVE  Headed(c2, d, e)
<1>1. PICK n \in Nat : n = Len(c) /\ DOMAIN c = 1..n /\ DOMAIN c2 = 1..(n + 1) /\ Len(c2) = n + 1
  BY SeqFacts DEF Pushed
<1>2. \A k \in 1..(n + 1) : \/ k = n + 1
                            \/ k = n
                            \/ (k \in 1..(n - 1) /\ k < n /\ k \in 1..n /\ k + 1 \in 1..n)
  OBVIOUS
<1>3. c2[n] = g /\ c2[n + 1] = h /\ \A k \in 1..(n - 1) : c2[k] = c[k]
  BY <1>1 DEF Pushed
<1>4. \A k \in 1..n : k = n \/ k \in 1..(n - 1)
  OBVIOUS
<1>5. \A k \in 1..n : c2[k].fn = c[k].fn
  BY <1>1, <1>3, <1>4
<1>6. ASSUME NEW k \in 1..(n + 1), k < n + 1 PROVE HeadWaiting(c2[k], c2[k + 1], d, e)
  <2>1. CASE k = n
    BY <1>3, <2>1
  <2>2. CASE k \in 1..(n - 1) /\ k < n /\ k \in 1..n /\ k + 1 \in 1..n
    <3>1. c2[k] = c[k] /\ c2[k + 1].fn = c[k + 1].fn
      BY <1>3, <1>5, <2>2
    <3>2. HeadWaiting(c[k], c[k + 1], d, e)
      BY <1>1, <2>2 DEF Headed
    <3> QED BY <3>1, <3>2, HeadLater
  <2> QED BY <1>2, <1>6, <2>1, <2>2
<1> QED BY <1>1, <1>3, <1>6 DEF Headed

LEMMA PoppedHeaded ==
  ASSUME NEW c, IsSeq(c), c # <<>>, NEW d, NEW e, Headed(c, d, e), NEW g, NEW c2, Popped(c, g, c2),
         Len(c) > 1 => HeadActing(g, d, e) /\ g.fn = c[Len(c) - 1].fn
  PROVE  Headed(c2, d, e)
<1>1. PICK n \in Nat : n = Len(c) /\ DOMAIN c = 1..n /\ DOMAIN c2 = 1..(n - 1) /\ Len(c2) = n - 1
  BY SeqFacts DEF Popped
<1>2. c2 # <<>> => n > 1
  <2>1. PICK S : c2 \in Seq(S)
    BY DEF Popped, IsSeq
  <2>2. n >= 1
    BY <1>1, LastReplaced
  <2> QED BY <1>1, <2>1, <2>2, EmptySeq
<1>3. \A k \in 1..(n - 1) : /\ n > 1 /\ k \in 1..n /\ k < n
                            /\ k = n - 1 \/ (k \in 1..(n - 2) /\ k + 1 \in 1..(n - 1))
  OBVIOUS
<1>4. (n > 1 => c2[n - 1] = g) /\ \A k \in 1..(n - 2) : c2[k] = c[k]
  BY <1>1 DEF Popped
<1>5. \A k \in 1..(n - 1) : c2[k].fn = c[k].fn
  BY <1>1, <1>3, <1>4
<1>6. ASSUME NEW k \in 1..(n - 1), k < n - 1 PROVE HeadWaiting(c2[k], c2[k + 1], d, e)
  <2>1. k \in 1..(n - 2) /\ k + 1 \in 1..(n - 1) /\ k \in 1..n /\ k < n
    BY <1>3, <1>6
  <2>2. c2[k] = c[k] /\ c2[k + 1].fn = c[k + 1].fn
    BY <1>4, <1>5, <2>1
  <2>3. HeadWaiting(c[k], c[k + 1], d, e)
    BY <1>1, <2>1 DEF Headed
  <2> QED BY <2>2, <2>3, HeadLater
<1>7. c2 # <<>> => HeadActing(c2[Len(c2)], d, e)
  BY <1>1, <1>2, <1>4
<1> QED BY <1>1, <1>6, <1>7 DEF Headed

(* The steps. *)

HeadsHold == TypesHold /\ Headed(calls, decls, errors)

\* What is not forgotten from one state to the next.
Remembers == (errors => errors') /\ Determined(decls) \subseteq Determined(decls')

LEMMA TopHeaded ==
  ASSUME HeadsHold, calls # <<>>
  PROVE  /\ HeadActing(Top, decls, errors) /\ Top = calls[Len(calls)] /\ v = Top.locals
         /\ IsSeq(calls) /\ WellFormed(Top, decls)
         /\ DOMAIN calls = 1..Len(calls) /\ Len(calls) \in Nat /\ Len(calls) >= 1
<1>1. /\ DOMAIN calls = 1..Len(calls) /\ Len(calls) \in Nat /\ Len(calls) >= 1
      /\ IsSeq(calls) /\ WellFormed(Top, decls)
  BY TopFrame DEF HeadsHold, TypesHold
<1>2. Top = calls[Len(calls)] /\ v = Top.locals
  BY <1>1 DEF Top, v
<1> QED BY <1>1, <1>2 DEF HeadsHold, Headed

LEMMA TopReplacedHeaded ==
  ASSUME HeadsHold, calls # <<>>, NEW g, SetTop(g), g.fn = Top.fn, Remembers,
         HeadActing(g, decls', errors')
  PROVE  Headed(calls', decls', errors')
<1>1. IsSeq(calls) /\ Top = calls[Len(calls)] /\ Headed(calls, decls, errors)
  BY TopHeaded DEF HeadsHold
<1>2. Replaced(calls, g, calls')
  BY <1>1, LastReplaced DEF SetTop
<1> QED BY <1>1, <1>2, ReplacedHeaded DEF Remembers

LEMMA HandlerNext == <<Handler>>[1].op = "handler"
  BY DEF Handler

LEMMA DoneHeaded == ASSUME HeadsHold, Does, Remembers PROVE Headed(calls', decls', errors')
<1>0. PICK op, locals :
        /\ op \in Actions /\ Doing(op) /\ Done(locals)
        /\ op \notin {"newModule", "newProcedure", "lookup"} => locals.D = v.D
        /\ op = "heading" => errors' \/ v.D \in Determined(decls')
  BY Zenon DEF Does
<1>1. calls # <<>> /\ Top.rest # <<>> /\ Top.rest[1].op = op /\ op # "handler"
  BY <1>0 DEF Doing, Actions
<1>2. PICK f, g : f = Top /\ g = [f EXCEPT !.rest = Tail(f.rest), !.locals = locals]
  OBVIOUS
<1>3. WellFormed(f, decls) /\ HeadActing(f, decls, errors) /\ v = f.locals
  BY <1>1, <1>2, TopHeaded
<1>4. g.rest = Tail(f.rest) /\ g.locals = locals /\ g.scoped = f.scoped /\ g.fn = f.fn
  BY <1>2, <1>3 DEF WellFormed
<1>5. Known(f, decls) => Known(g, decls')
  <2>1. f.scoped => op \notin {"newModule", "newProcedure", "lookup"}
    BY <1>1, <1>2, <1>3, NextOperation
  <2> QED BY <1>0, <1>3, <1>4, <2>1 DEF Known, Remembers
<1>6. ToHeading(f.rest) => errors' \/ Known(g, decls') \/ ToHeading(g.rest)
  <2>1. CASE op = "heading"
    <3>1. g.scoped /\ g.locals.D = v.D
      BY <1>0, <1>2, <1>4, <2>1, HeadingScoped DEF HeadsHold, TypesHold
    <3> QED BY <1>0, <2>1, <3>1 DEF Known
  <2>2. CASE op # "heading"
    BY <1>1, <1>2, <1>4, <2>2, ToHeadingNext
  <2> QED BY <2>1, <2>2
<1>7. f.rest # <<Handler>>
  BY <1>1, <1>2, HandlerNext
<1>8. HeadActing(g, decls', errors')
  BY <1>3, <1>4, <1>5, <1>6, <1>7 DEF HeadActing, Remembers
<1>9. SetTop(g)
  BY <1>0, <1>2 DEF Done
<1> QED BY <1>1, <1>2, <1>4, <1>8, <1>9, TopReplacedHeaded

\* The innermost call does something else next.
LEMMA RestHeaded ==
  ASSUME HeadsHold, calls # <<>>, NEW r, SetTop([Top EXCEPT !.rest = r]), Remembers,
         r = <<Handler>> \/ (Top.rest # <<Handler>> /\ (ToHeading(Top.rest) => ToHeading(r)))
  PROVE  Headed(calls', decls', errors')
<1>1. PICK f, g : f = Top /\ g = [f EXCEPT !.rest = r]
  OBVIOUS
<1>2. WellFormed(f, decls) /\ HeadActing(f, decls, errors)
  BY <1>1, TopHeaded
<1>3. g.rest = r /\ g.locals = f.locals /\ g.scoped = f.scoped /\ g.fn = f.fn
  BY <1>1, <1>2 DEF WellFormed
<1>4. HeadActing(g, decls', errors')
  BY <1>1, <1>2, <1>3 DEF HeadActing, Known, Remembers
<1> QED BY <1>1, <1>3, <1>4, TopReplacedHeaded

LEMMA RecoverHeaded ==
  ASSUME HeadsHold, calls # <<>>, Recover, Remembers
  PROVE  Headed(calls', decls', errors')
  BY RestHeaded DEF Recover

LEMMA WhenHeaded == ASSUME HeadsHold, DoWhen, Remembers PROVE Headed(calls', decls', errors')
<1>1. calls # <<>> /\ Top.rest # <<>> /\ Top.rest[1].op = "when"
  BY DEF DoWhen, Doing
<1>2. PICK p, r : /\ p = IF Is(Top.rest[1].kinds) THEN Top.rest[1].then ELSE Top.rest[1].otherwise
                  /\ r = p \o Tail(Top.rest)
  OBVIOUS
<1>3. SetTop([Top EXCEPT !.rest = r])
  BY <1>2 DEF DoWhen
<1>4. ToHeading(Top.rest) => ToHeading(r)
  BY <1>1, <1>2, ToHeadingNext
<1>5. Top.rest # <<Handler>>
  BY <1>1, HandlerNext
<1> QED BY <1>1, <1>3, <1>4, <1>5, RestHeaded

LEMMA WhileHeaded == ASSUME HeadsHold, DoWhile, Remembers PROVE Headed(calls', decls', errors')
<1>1. calls # <<>> /\ Top.rest # <<>> /\ Top.rest[1].op = "while"
  BY DEF DoWhile, Doing
<1>2. PICK r : r = IF Is(Top.rest[1].kinds) THEN Top.rest[1].body \o Top.rest ELSE Tail(Top.rest)
  OBVIOUS
<1>3. SetTop([Top EXCEPT !.rest = r])
  BY <1>2 DEF DoWhile
<1>4. ~ToHeading(Top.rest) /\ Top.rest # <<Handler>>
  BY <1>1, ToHeadingNext, HandlerNext
<1> QED BY <1>1, <1>3, <1>4, RestHeaded

LEMMA CallHeaded == ASSUME HeadsHold, DoCall PROVE Headed(calls', decls', errors')
<1>1. Doing("call") /\ calls # <<>> /\ Top.rest # <<>> /\ Top.rest[1].op = "call"
      /\ errors' = errors /\ decls' = decls
  BY DEF DoCall, Doing, semaVars
<1>2. PICK r, fn, out : r = Tail(Top.rest) /\ fn = Top.rest[1].fn /\ out = Top.rest[1].out
  OBVIOUS
<1>3. PICK passed : passed = [x \in DOMAIN Locals |->
                      IF x \in DOMAIN out THEN v[out[x]] ELSE Locals[x]]
  OBVIOUS
<1>4. PICK f, g : f = Top /\ g = [f EXCEPT !.rest = r]
  OBVIOUS
<1>5. PICK h : h = Frame(fn, passed, out)
  OBVIOUS
<1>6. WellFormed(f, decls) /\ HeadActing(f, decls, errors) /\ IsSeq(calls) /\ f = calls[Len(calls)]
  BY <1>1, <1>4, TopHeaded
<1>7. g.rest = r /\ g.locals = f.locals /\ g.scoped = f.scoped /\ g.fn = f.fn
  BY <1>4, <1>6 DEF WellFormed
<1>8. h.fn = fn /\ h.rest = Rules[fn].body
  BY <1>5 DEF Frame
<1>9. HeadWaiting(g, h, decls, errors)
  <2>1. f.rest # <<Handler>>
    BY <1>1, <1>4, HandlerNext
  <2>2. ToHeading(f.rest) => ToHeading(r) /\ fn # "parseBlock"
    BY <1>1, <1>2, <1>4, ToHeadingNext
  <2> QED BY <1>6, <1>7, <1>8, <2>1, <2>2 DEF HeadWaiting, HeadActing, Known
<1>10. HeadActing(h, decls, errors)
  BY <1>8, ToHeadingBody DEF HeadActing
<1>11. Pushed(calls, g, h, calls')
  <2>1. calls' = Append([calls EXCEPT ![Len(calls)] = g], h)
    <3>1. g = [calls[Len(calls)] EXCEPT !.rest = Tail(calls[Len(calls)].rest)]
      BY <1>2, <1>4 DEF Top
    <3>2. [calls EXCEPT ![Len(calls)].rest = Tail(@)] = [calls EXCEPT ![Len(calls)] = g]
      BY <3>1
    <3> QED BY <1>2, <1>3, <1>5, <3>2 DEF DoCall
  <2> QED BY <1>1, <1>6, <2>1, LastPushed
<1>12. Headed(calls', decls, errors)
  BY <1>1, <1>6, <1>7, <1>9, <1>10, <1>11, PushedHeaded DEF HeadsHold
<1> QED BY <1>1, <1>12, Zenon

LEMMA LeaveHeaded ==
  ASSUME HeadsHold, calls # <<>>, NEW failed, Leave(failed)
  PROVE  Headed(calls', decls', errors')
<1>1. PICK n \in Nat : n = Len(calls) /\ n >= 1 /\ DOMAIN calls = 1..n
  BY TopHeaded
<1>2. /\ Active(calls, decls, current) /\ IsSeq(calls) /\ Headed(calls, decls, errors)
      /\ Top = calls[n] /\ v = calls[n].locals /\ errors' = errors /\ decls' = decls
  BY <1>1, TopHeaded, Zenon DEF HeadsHold, TypesHold, Coherence, Coherent, Leave
<1>3. PICK b, r, g : /\ b = calls[n - 1]
                     /\ r = IF failed THEN <<Handler>> ELSE b.rest
                     /\ g = Caller(b, calls[n], r)
  OBVIOUS
<1>4. calls' = IF n = 1 THEN <<>> ELSE Append(SubSeq(calls, 1, n - 2), g)
  <2>1. calls' = IF n = 1 THEN <<>>
                 ELSE Append(SubSeq(calls, 1, n - 2),
                        [b EXCEPT !.locals = Written(calls[n].out, calls[n].locals, @),
                                  !.rest = IF failed THEN <<Handler>> ELSE @])
    BY <1>1, <1>2, <1>3 DEF Leave
  <2> QED BY <1>3, <2>1, Zenon DEF Caller
<1>5. Popped(calls, g, calls')
  <2>1. Popped(calls, g, IF n = 1 THEN <<>> ELSE Append(SubSeq(calls, 1, n - 2), g))
    BY <1>1, <1>2, LastPopped
  <2> QED BY <1>4, <2>1, Zenon
<1>6. ASSUME n > 1 PROVE HeadActing(g, decls, errors) /\ g.fn = b.fn
  <2>1. n - 1 \in DOMAIN calls /\ n - 1 < n /\ (n - 1) + 1 = n
    BY <1>1, <1>6
  <2>2. (r = <<Handler>>) \/ (r = b.rest)
    BY <1>3
  <2>3. (g.scoped <=> b.scoped) /\ (g.scoped => g.locals.D = b.locals.D)
    BY <1>1, <1>2, <1>3, <1>6, <2>2, CallerGoesOn
  <2>4. g.rest = r /\ g.fn = b.fn
    <3>1. DOMAIN b = {"fn", "rest", "locals", "out", "scoped"}
      BY <1>2, <1>3, <2>1, Zenon DEF Active, WellFormed
    <3> QED BY <1>3, <3>1 DEF Caller
  <2>5. HeadWaiting(b, calls[n], decls, errors)
    <3>1. HeadWaiting(calls[n - 1], calls[(n - 1) + 1], decls, errors)
      BY <1>1, <1>2, <2>1, Zenon DEF Headed
    <3> QED BY <1>3, <2>1, <3>1
  <2> QED BY <2>2, <2>3, <2>4, <2>5 DEF HeadActing, HeadWaiting, Known
<1>7. Headed(calls', decls, errors)
  BY <1>1, <1>2, <1>3, <1>5, <1>6, PoppedHeaded
<1> QED BY <1>2, <1>7, Zenon

\* The call has entered the scope of the declaration it has created.
LEMMA EnterHeaded ==
  ASSUME HeadsHold, EnterDeclScope, Remembers
  PROVE  Headed(calls', decls', errors')
<1>1. calls # <<>> /\ Top.rest # <<>> /\ Top.rest[1].op = "enterScope"
  BY DEF EnterDeclScope, Doing
<1>2. PICK f, g : f = Top /\ g = [f EXCEPT !.rest = Tail(f.rest), !.scoped = TRUE]
  OBVIOUS
<1>3. WellFormed(f, decls) /\ HeadActing(f, decls, errors)
  BY <1>1, <1>2, TopHeaded
<1>4. g.rest = Tail(f.rest) /\ g.locals = f.locals /\ g.scoped /\ g.fn = f.fn
  BY <1>2, <1>3 DEF WellFormed
<1>5. f.rest # <<Handler>> /\ (ToHeading(f.rest) => ToHeading(g.rest))
  BY <1>1, <1>2, <1>4, ToHeadingNext, HandlerNext
<1>6. HeadActing(g, decls', errors')
  BY <1>3, <1>4, <1>5 DEF HeadActing, Known, Remembers
<1>7. SetTop(g)
  BY <1>2 DEF EnterDeclScope
<1> QED BY <1>1, <1>2, <1>4, <1>6, <1>7, TopReplacedHeaded

LEMMA UnchangedHeaded ==
  ASSUME HeadsHold, calls' = calls, Remembers
  PROVE  Headed(calls', decls', errors')
<1>1. Headed(calls, decls, errors)
  BY DEF HeadsHold
<1> QED BY <1>1, HeadLater DEF Headed, HeadActing, Known, Remembers

LEMMA StepHeaded == ASSUME HeadsHold, [Next]_vars PROVE Headed(calls', decls', errors')
<1>0. Remembers /\ TypesHold
  BY ErrorsStay, TypesStay DEF Remembers, HeadsHold
<1>1. CASE DoAdvance
  BY <1>0, <1>1, TokenDoes, DoneHeaded DEF DoAdvance
<1>2. CASE DoExpect \/ DoConsume
  <2>1. calls # <<>>
    BY <1>2 DEF DoExpect, DoConsume, Doing
  <2>2. CASE Recover
    BY <1>0, <2>1, <2>2, RecoverHeaded
  <2>3. CASE ~Recover
    <3>1. Does
      BY <1>2, <2>3, TokenDoes DEF DoExpect, DoConsume
    <3> QED BY <1>0, <3>1, DoneHeaded
  <2> QED BY <2>2, <2>3
<1>3. CASE DoWhen
  BY <1>0, <1>3, WhenHeaded
<1>4. CASE DoWhile
  BY <1>0, <1>4, WhileHeaded
<1>5. CASE DoCall
  BY <1>5, CallHeaded
<1>6. CASE DoFail
  <2>1. calls # <<>> /\ Recover
    BY <1>6 DEF DoFail, Doing
  <2> QED BY <1>0, <2>1, RecoverHeaded
<1>7. CASE DoReturn
  BY <1>7, LeaveHeaded DEF DoReturn
<1>8. CASE Resynchronise
  BY <1>8, LeaveHeaded DEF Resynchronise, Doing
<1>9. CASE Skip
  BY <1>0, <1>9, LeaveHeaded, UnchangedHeaded DEF Skip, Doing, semaVars
<1>10. CASE Crash \/ UNCHANGED vars
  BY <1>0, <1>10, UnchangedHeaded DEF Crash, semaVars, vars
<1>11. CASE Analyse
  BY <1>0, <1>11, AnalyseDoes, DoneHeaded, EnterHeaded
<1> QED BY <1>1, <1>2, <1>3, <1>4, <1>5, <1>6, <1>7, <1>8, <1>9, <1>10, <1>11, Zenon
        DEF Next, Step, Halt

LEMMA StartHeaded ==
  /\ Headed(<<Frame("parse", Locals, None)>>, InitialDecls, FALSE)
  /\ Headed(<<>>, InitialDecls, FALSE)
<1>1. PICK f, c, e : f = Frame("parse", Locals, None) /\ c = <<f>> /\ e = <<>>
  OBVIOUS
<1>2. DOMAIN c = {1} /\ c[1] = f /\ Len(c) = 1 /\ DOMAIN e = {}
  BY <1>1
<1>3. f.fn = "parse"
  BY <1>1 DEF Frame
<1>4. \A d : HeadActing(f, d, FALSE)
  BY <1>3 DEF HeadActing
<1>5. \A d : Headed(c, d, FALSE)
  <2>1. \A k \in DOMAIN c : k = 1 /\ ~(k < Len(c))
    BY <1>2
  <2> QED BY <1>2, <1>4, <2>1, Zenon DEF Headed
<1>6. \A d : Headed(e, d, FALSE)
  BY <1>1, <1>2, Zenon DEF Headed
<1> QED BY <1>1, <1>5, <1>6, Zenon

LEMMA DriverStepHeaded == ASSUME HeadsHold, [DriverNext]_driverVars PROVE HeadsHold'
<1>1. TypesHold'
  BY DriverStepTyped DEF HeadsHold
<1>2. Headed(calls', decls', errors')
  <2>1. CASE ReadFile
    <3>1. calls' = <<Frame("parse", Locals, None)>> /\ decls' = InitialDecls /\ errors' = FALSE
      BY <2>1, Zenon DEF ReadFile
    <3> QED BY <3>1, StartHeaded, Zenon
  <2>2. CASE Parse
    BY <2>2, StepHeaded, Zenon DEF Parse, Next
  <2>3. CASE UNCHANGED vars
    BY <2>3, StepHeaded
  <2>4. ReadError \/ EndParse \/ Generate \/ FatalError \/ Emit \/ DriverHalt \/ UNCHANGED driverVars
        => UNCHANGED vars
    BY Zenon DEF ReadError, EndParse, Generate, FatalError, Emit, DriverHalt, driverVars, parserVars
  <2> QED BY <2>1, <2>2, <2>3, <2>4, Zenon DEF DriverNext
<1> QED BY <1>1, <1>2, Zenon DEF HeadsHold

\* A block is parsed after the heading.
LEMMA ReturnTypeRead == ASSUME HeadsHold PROVE ReturnTypeKnown
<1>1. SUFFICES ASSUME NEW k \in DOMAIN calls, k > 1, calls[k].fn = "parseBlock",
                      calls[k - 1].fn = "parseProcedureDeclaration", ~errors
               PROVE  decls[calls[k - 1].locals.D].type # Unset
  BY DEF ReturnTypeKnown
<1>2. DOMAIN calls = 1..Len(calls) /\ Len(calls) \in Nat
  BY SeqFacts DEF HeadsHold, TypesHold, Coherence, Coherent, Active
<1>3. k - 1 \in DOMAIN calls /\ k - 1 < Len(calls) /\ (k - 1) + 1 = k
  BY <1>1, <1>2
<1>4. HeadWaiting(calls[k - 1], calls[k], decls, errors)
  <2>1. HeadWaiting(calls[k - 1], calls[(k - 1) + 1], decls, errors)
    BY <1>3, Zenon DEF HeadsHold, Headed
  <2> QED BY <1>3, <2>1
<1> QED BY <1>1, <1>4 DEF HeadWaiting, Known, Determined

\* Whatever the files, the return type of a procedure, which its constructor leaves
\* uninitialised, has been set by its heading when its body is parsed, unless an error
\* has been reported (Parser.cpp:429-451, Sema.cpp:280-292).
THEOREM DriverReturnTypeKnown == DriverSpec => []ReturnTypeKnown
<1>1. DriverInit => HeadsHold
  BY StartCoherent, StartTyped, StartHeaded, Zenon DEF DriverInit, initialize, HeadsHold, TypesHold, Coherence
<1>2. HeadsHold /\ [DriverNext]_driverVars => HeadsHold'
  BY DriverStepHeaded
<1>3. HeadsHold => ReturnTypeKnown
  BY ReturnTypeRead
<1> QED BY <1>1, <1>2, <1>3, PTL DEF DriverSpec

-----------------------------------------------------------------------------
(* The types of operands.                                                   *)

\* What a call does that reads formal parameters, and parseQualident: neither reads an
\* operand nor declares a procedure.
Naming == {Expect("identifier"), Act("lookup"), Advance, Act("isModule"), Handler}
Formals ==
  {"parseFormalParameters", "parseFormalParameterList", "parseFormalParameter",
   "parseIdentList", "parseQualident"}
FormalActs ==
  {"advance", "fail", "handler", "takeId", "byRef", "lookup", "isModule", "parameter"}
Formal0 == {i \in Simple(FormalActs, Outs) : i.op = "call" => i.fn \in Formals}
Formal == Control(Formal0)

\* What parseProcedureDeclaration does between the creation of the procedure and its
\* heading.
OnWay(r) ==
  IsSeq(r) /\ Before({Act("enterScope"), Advance, FormalParameters, FormalPart}, Act("heading"), r)

\* What is left of a function that creates a declaration, until it has.
Starts(b) == {b, Tail(b), Tail(Tail(b))}
Starting == Starts(parseProcedureDeclaration.body) \cup Starts(parseCompilationUnit.body)

\* Only parseQualident sets the declaration D of its caller, or the return type.
Shaped(f) ==
  /\ "D" \in DOMAIN f.out => ~f.scoped /\ f.rest \in Seq(Naming)
  /\ ~f.scoped /\ (Begins(f.rest) \/ Names_(f.rest) \/ Creates(f.rest)) => f.rest \in Starting

\* The call f cannot make an operand of a procedure without a type.
Knows(f, d) ==
  \/ f.locals.D \in Determined(d) \cup {Null}
  \/ f.scoped \/ Enters(f.rest)
  \/ f.out = [D |-> "Ret"]

\* Every procedure has a type, or no name can be looked up.
Calm(c, d, t) ==
  /\ Determined(d) = DOMAIN d \/ t = "eof"
  /\ \A k \in DOMAIN c : Knows(c[k], d)

\* The heading of a procedure is being read, whose type is the only one that is not set.
Heading(c, d, k) ==
  /\ OnWay(c[k].rest) /\ (c[k].scoped \/ Enters(c[k].rest))
  /\ \A i \in DOMAIN d : i \in Determined(d) \/ i = c[k].locals.D
  /\ \A j \in DOMAIN c : IF j > k THEN ~c[j].scoped /\ c[j].rest \in Seq(Formal)
                         ELSE j < k => Knows(c[j], d)

\* A name is looked up only where there is one.
Searches(r) == r # <<>> /\ r[1].op = "lookup"
Asked(c, t) == c # <<>> /\ Searches(c[Len(c)].rest) => Kind(t) = "identifier"
Ending == text \in Seq(Tokens) /\ (tok = "eof" => text = <<>>)

\* An operand has a type.
Good(E, d) ==
  /\ DOMAIN E = {"kind", "type", "const", "value"}
  /\ E = NoExpr \/ E.type \in TypeDecls(d)
GoodLocals(x, d) ==
  /\ Good(x.E, d) /\ Good(x.L, d) /\ Good(x.R, d)
  /\ IsSeq(x.Exprs) /\ \A i \in DOMAIN x.Exprs : Good(x.Exprs[i], d)
GoodDecls(d) ==
  /\ {IntegerType, BooleanType} \subseteq TypeDecls(d)
  /\ \A i \in DOMAIN d : /\ Good(d[i].expr, d) /\ IsSeq(d[i].fields)
                         /\ d[i].kind = "Proc" => d[i].type \in TypeDecls(d) \cup {Unset, Null}

LEMMA FormalSound ==
  \A i \in Formal :
    /\ i.op \in FormalActs \cup {"expect", "consume", "call", "when", "while"}
    /\ i.op = "when" => i.then \in Seq(Formal) /\ i.otherwise \in Seq(Formal)
    /\ i.op = "while" => i.body \in Seq(Formal)
    /\ i.op = "call" => i.fn \in Formals
<1>1. \A s \in Seq(Formal0) : s \in Seq(Formal)
  BY Nested DEF Formal
<1>2. ASSUME NEW i \in Formal0
      PROVE  /\ i.op \in FormalActs \cup {"expect", "consume", "call"}
             /\ i.op = "call" => i.fn \in Formals
  <2>1. CASE i \in [op : FormalActs]
    BY <1>2, <2>1 DEF Formal0
  <2>2. CASE i \in [op : {"expect", "consume"}, kind : Kinds]
    BY <2>2
  <2>3. CASE i \in [op : {"call"}, fn : DOMAIN Rules, out : Outs]
    BY <1>2, <2>3 DEF Formal0
  <2> QED BY <1>2, <2>1, <2>2, <2>3 DEF Formal0, Simple
<1>3. \A i \in Formal0 : i.op # "when" /\ i.op # "while"
  BY <1>2 DEF FormalActs
<1>4. SUFFICES ASSUME NEW i \in Formal
               PROVE  /\ i.op \in FormalActs \cup {"expect", "consume", "call", "when", "while"}
                      /\ i.op = "when" => i.then \in Seq(Formal) /\ i.otherwise \in Seq(Formal)
                      /\ i.op = "while" => i.body \in Seq(Formal)
                      /\ i.op = "call" => i.fn \in Formals
  OBVIOUS
<1>5. CASE i \in Formal0
  BY <1>2, <1>3, <1>5
<1>6. CASE i \in [op : {"when"}, kinds : SUBSET Kinds, then : Seq(Formal0), otherwise : Seq(Formal0)]
  <2>1. i.op = "when" /\ i.then \in Seq(Formal0) /\ i.otherwise \in Seq(Formal0)
    BY <1>6
  <2> QED BY <1>1, <2>1
<1>7. CASE i \in [op : {"while"}, kinds : SUBSET Kinds, body : Seq(Formal0)]
  <2>1. i.op = "while" /\ i.body \in Seq(Formal0)
    BY <1>7
  <2> QED BY <1>1, <2>1
<1> QED BY <1>4, <1>5, <1>6, <1>7 DEF Formal, Control

LEMMA FormalInstructions ==
  /\ Advance \in Formal0 /\ Handler \in Formal0 /\ Act("takeId") \in Formal0
  /\ Act("byRef") \in Formal0 /\ Act("lookup") \in Formal0 /\ Act("isModule") \in Formal0
  /\ Act("parameter") \in Formal0 /\ Expect("identifier") \in Formal0
  /\ Consume("(") \in Formal0 /\ Consume(")") \in Formal0 /\ Consume(":") \in Formal0
  /\ \A fn \in Formals :
       /\ Call(fn, [Params |-> "Params"]) \in Formal0 /\ Call(fn, [Ids |-> "Ids"]) \in Formal0
  /\ \A x \in {"D", "Ret"} : Call("parseQualident", [D |-> x]) \in Formal0
<1>1. /\ Advance \in Formal0 /\ Handler \in Formal0 /\ Act("takeId") \in Formal0
      /\ Act("byRef") \in Formal0 /\ Act("lookup") \in Formal0 /\ Act("isModule") \in Formal0
      /\ Act("parameter") \in Formal0
  BY DEF Advance, Handler, Act, Formal0, Simple, FormalActs
<1>2. /\ Expect("identifier") \in Formal0
      /\ Consume("(") \in Formal0 /\ Consume(")") \in Formal0 /\ Consume(":") \in Formal0
  BY KindNames DEF Expect, Consume, Formal0, Simple
<1>3. ASSUME NEW fn \in Formals, NEW out \in Outs, "D" \in DOMAIN out => fn = "parseQualident"
      PROVE  Call(fn, out) \in Formal0
  BY <1>3, RuleNames DEF Call, Formal0, Simple, Formals
<1>4. /\ [Params |-> "Params"] \in Outs /\ [Ids |-> "Ids"] \in Outs
      /\ [D |-> "D"] \in Outs /\ [D |-> "Ret"] \in Outs
  BY OutNames
<1>5. "D" \notin DOMAIN [Params |-> "Params"] /\ "D" \notin DOMAIN [Ids |-> "Ids"]
  OBVIOUS
<1>6. "parseQualident" \in Formals
  BY DEF Formals
<1> QED BY <1>1, <1>2, <1>3, <1>4, <1>5, <1>6

LEMMA FormalBodies == \A fn \in Formals : Rules[fn].body \in Seq(Formal)
<1> USE FormalInstructions
<1>0. Formal0 \subseteq Formal /\ \A fn \in Formals : fn \in DOMAIN Rules
  BY Nested, RuleNames DEF Formal, Formals
<1>1. parseFormalParameters.body \in Seq(Formal)
  <2>1. When({"VAR", "identifier"},
          << Call("parseFormalParameterList", [Params |-> "Params"]) >>, <<>>) \in Formal
    BY KindSets DEF When, Control, Formal, Formals
  <2>2. When({":"}, << Advance, Call("parseQualident", [D |-> "Ret"]) >>, <<>>) \in Formal
    BY KindSets DEF When, Control, Formal
  <2> QED BY <1>0, <2>1, <2>2 DEF parseFormalParameters, Rule
<1>2. parseFormalParameterList.body \in Seq(Formal)
  <2>1. Call("parseFormalParameter", [Params |-> "Params"]) \in Formal0
    BY DEF Formals
  <2>2. While({semi}, << Advance, Call("parseFormalParameter", [Params |-> "Params"]) >>) \in Formal
    BY <2>1, KindSets DEF While, Control, Formal
  <2> QED BY <1>0, <2>1, <2>2 DEF parseFormalParameterList, Rule
<1>3. parseFormalParameter.body \in Seq(Formal)
  <2>1. When({"VAR"}, << Act("byRef"), Advance >>, <<>>) \in Formal
    BY KindSets DEF When, Control, Formal
  <2>2. << When({"VAR"}, << Act("byRef"), Advance >>, <<>>) >> \in Seq(Formal)
    BY <2>1
  <2>3. TypedNames("parameter") \in Seq(Formal)
    <3>1. Call("parseIdentList", [Ids |-> "Ids"]) \in Formal0
      BY DEF Formals
    <3> QED BY <1>0, <3>1 DEF TypedNames
  <2>4. parseFormalParameter.body =
          << When({"VAR"}, << Act("byRef"), Advance >>, <<>>) >> \o TypedNames("parameter")
    BY DEF parseFormalParameter, Rule
  <2> QED BY <2>2, <2>3, <2>4, ConcatProperties
<1>4. parseIdentList.body \in Seq(Formal)
  <2>1. While({comma}, << Advance, Expect("identifier"), Act("takeId"), Advance >>) \in Formal
    BY KindSets DEF While, Control, Formal
  <2> QED BY <1>0, <2>1 DEF parseIdentList, Rule
<1>5. parseQualident.body \in Seq(Formal)
  BY <1>0 DEF parseQualident, Rule
<1>6. /\ Rules["parseFormalParameters"] = parseFormalParameters
      /\ Rules["parseFormalParameterList"] = parseFormalParameterList
      /\ Rules["parseFormalParameter"] = parseFormalParameter
      /\ Rules["parseIdentList"] = parseIdentList /\ Rules["parseQualident"] = parseQualident
  BY DEF Rules
<1> QED BY <1>1, <1>2, <1>3, <1>4, <1>5, <1>6 DEF Formals

\* What a call of parseQualident does is done in one sequence, and calls nothing.
LEMMA NamingSound ==
  /\ Rules["parseQualident"].body \in Seq(Naming) /\ <<Handler>> \in Seq(Naming)
  /\ <<Handler>> \in Seq(Formal)
  /\ \A i \in Naming : i.op \in {"expect", "lookup", "advance", "isModule", "handler"}
<1>1. Rules["parseQualident"].body \in Seq(Naming)
  <2>1. parseQualident.body \in Seq(Naming)
    BY DEF parseQualident, Rule, Naming
  <2>2. Rules["parseQualident"] = parseQualident
    BY DEF Rules
  <2> QED BY <2>1, <2>2
<1>2. <<Handler>> \in Seq(Naming)
  BY DEF Naming
<1>3. <<Handler>> \in Seq(Formal)
  <2>1. Handler \in Formal
    BY FormalInstructions, Nested DEF Formal
  <2> QED BY <2>1
<1>4. \A i \in Naming : i.op \in {"expect", "lookup", "advance", "isModule", "handler"}
  BY DEF Naming, Expect, Act, Advance, Handler
<1> QED BY <1>1, <1>2, <1>3, <1>4

LEMMA SeqNext == ASSUME NEW S, NEW r \in Seq(S), r # <<>> PROVE r[1] \in S /\ Tail(r) \in Seq(S)
  BY TailOf, ElementOfSeq

(* What is left of a call.                                                  *)

LEMMA HeadOf == ASSUME NEW r, NEW S, r \in Seq(S), r # <<>> PROVE r[1] \in S
  BY TailOf, ElementOfSeq

\* What a call does that has entered a scope, or that will not enter one.
LEMMA InnerFirst ==
  ASSUME NEW r \in Seq(Inner), r # <<>>
  PROVE  r[1].op \in InnerActs \cup {"expect", "consume", "call", "when", "while"}
<1>1. r[1] \in Inner
  BY HeadOf
<1> QED BY <1>1, InnerSound DEF Sound

LEMMA OwnFirst ==
  ASSUME NEW r \in Seq(Own), r # <<>>
  PROVE  r[1].op \in OwnActs \cup {"expect", "consume", "call", "when", "while"}
<1>1. r[1] \in Own
  BY HeadOf
<1> QED BY <1>1, OwnSound DEF Sound

LEMMA InnerNeither ==
  ASSUME NEW r, r \in Seq(Inner) \/ r \in Seq(Own)
  PROVE  ~Begins(r) /\ ~Names_(r) /\ ~Creates(r) /\ ~Enters(r) /\ ~Searches(r)
<1>1. CASE r = <<>>
  BY <1>1 DEF Begins, Names_, Creates, Enters, Searches
<1>2. CASE r # <<>>
  <2>1. r[1].op \notin {"enterScope", "newModule", "newProcedure", "lookup"}
    BY <1>2, InnerFirst, OwnFirst DEF InnerActs, MildActs, UserActs, OwnActs
  <2>2. ~Creates(r) /\ ~Enters(r) /\ ~Searches(r)
    BY <2>1 DEF Creates, Enters, Searches
  <2>3. Tail(r) \in Seq(Inner) \/ Tail(r) \in Seq(Own)
    BY <1>2, TailOf
  <2>4. ASSUME NEW s, s \in Seq(Inner) \/ s \in Seq(Own), s # <<>>
        PROVE  s[1].op \notin {"newModule", "newProcedure"}
    BY <2>4, InnerFirst, OwnFirst DEF InnerActs, MildActs, UserActs, OwnActs
  <2>5. ~Creates(Tail(r))
    BY <2>3, <2>4 DEF Creates
  <2>6. ~Names_(r)
    BY <2>5 DEF Names_
  <2>7. ~Begins(r)
    <3>1. SUFFICES ASSUME Tail(r) # <<>> PROVE ~Names_(Tail(r))
      BY DEF Begins, Names_
    <3>2. Tail(Tail(r)) \in Seq(Inner) \/ Tail(Tail(r)) \in Seq(Own)
      BY <2>3, <3>1, TailOf
    <3>3. ~Creates(Tail(Tail(r)))
      BY <2>4, <3>2 DEF Creates
    <3> QED BY <3>3 DEF Names_
  <2> QED BY <2>2, <2>6, <2>7
<1> QED BY <1>1, <1>2

\* A name is searched only after it has been expected.
LEMMA SearchesNext ==
  ASSUME NEW f, NEW d, WellFormed(f, d), f.rest # <<>>, Searches(Tail(f.rest))
  PROVE  f.rest[1] = Expect("identifier")
<1>1. Tail(f.rest) \notin Seq(Inner) /\ Tail(f.rest) \notin Seq(Own)
  BY InnerNeither
<1>2. f.rest \notin Seq(Inner) /\ f.rest \notin Seq(Own)
  BY <1>1, TailOf
<1>3. Tail(f.rest)[1].op = "lookup"
  BY DEF Searches
<1>4. ~Begins(f.rest) /\ ~Names_(f.rest) /\ ~Creates(f.rest) /\ ~Enters(f.rest)
  BY <1>1, <1>3 DEF Begins, Names_, Creates, Enters
<1>5. ~Looks(f.rest)
  <2>1. Seq(Mild) \subseteq Seq(Inner)
    BY Levels, SeqMonotonic
  <2> QED BY <1>1, <2>1 DEF Looks
<1>6. Asks(f.rest)
  BY <1>2, <1>4, <1>5 DEF WellFormed, Left
<1> QED BY <1>6 DEF Asks

\* The two functions that create a declaration, up to then.
LEMMA StartingBodies ==
  /\ \A r \in Starting : /\ Begins(r) => Tail(r) \in Starting
                         /\ Names_(r) => Tail(r) \in Starting
  /\ \A r \in Starting : r # <<>> /\ r[1].op = "newProcedure" => OnWay(Tail(r))
  /\ \A fn \in {"parseCompilationUnit", "parseProcedureDeclaration"} : Rules[fn].body \in Starting
<1>1. PICK p, u : p = parseProcedureDeclaration.body /\ u = parseCompilationUnit.body
  OBVIOUS
<1>2. p = << Consume("PROCEDURE"), Expect("identifier"), Act("newProcedure"), Act("enterScope"),
             Advance, FormalPart, Act("heading"), Expect(semi), Advance,
             Call("parseBlock", None), Expect("identifier"), Act("endProcedure"), Advance >>
  BY <1>1 DEF parseProcedureDeclaration, Rule, FormalPart, FormalParameters
<1>3. PICK w : w = While({"FROM", "IMPORT"}, << Call("parseImport", None) >>)
  OBVIOUS
<1>4. u = << Consume("MODULE"), Expect("identifier"), Act("newModule"), Act("enterScope"),
             Advance, Consume(semi), w, Call("parseBlock", None), Expect("identifier"),
             Act("endModule"), Advance, Consume(".") >>
  BY <1>1, <1>3 DEF parseCompilationUnit, Rule
<1>5. PICK E, U :
        /\ E = {Act("enterScope"), Advance, FormalParameters, FormalPart}
        /\ U = E \cup {Act("heading"), Expect(semi), Call("parseBlock", None), Expect("identifier"),
                       Act("endProcedure"), Consume("PROCEDURE"), Act("newProcedure"), w,
                       Act("newModule"), Consume("MODULE"), Consume(semi), Act("endModule"), Consume(".")}
  OBVIOUS
<1>6. PICK p1, p2, p3, u1, u2 : p1 = Tail(p) /\ p2 = Tail(p1) /\ p3 = Tail(p2) /\ u1 = Tail(u) /\ u2 = Tail(u1)
  OBVIOUS
<1>7. /\ p \in Seq(U) /\ Len(p) = 13
      /\ p[1] = Consume("PROCEDURE") /\ p[2] = Expect("identifier") /\ p[3] = Act("newProcedure")
      /\ p[4] = Act("enterScope") /\ p[5] = Advance /\ p[6] = FormalPart /\ p[7] = Act("heading")
  BY <1>2, <1>5
<1>8. /\ u \in Seq(U) /\ Len(u) = 12
      /\ u[1] = Consume("MODULE") /\ u[2] = Expect("identifier") /\ u[3] = Act("newModule")
  BY <1>4, <1>5
<1>9. ASSUME NEW s \in Seq(U), NEW n \in Nat, Len(s) = n + 1
      PROVE  Tail(s) \in Seq(U) /\ Len(Tail(s)) = n /\ \A i \in 1..n : Tail(s)[i] = s[i + 1]
  <2>1. s # <<>>
    BY <1>9
  <2>2. /\ Tail(s) \in Seq(U) /\ Len(Tail(s)) = Len(s) - 1
        /\ \A i \in 1..Len(s) - 1 : Tail(s)[i] = s[i + 1]
    BY <2>1, TailOf
  <2>3. Len(s) - 1 = n
    BY <1>9
  <2> QED BY <2>2, <2>3
<1>10. /\ p1 \in Seq(U) /\ Len(p1) = 12 /\ \A i \in 1..12 : p1[i] = p[i + 1]
       /\ u1 \in Seq(U) /\ Len(u1) = 11 /\ \A i \in 1..11 : u1[i] = u[i + 1]
  <2>1. Len(p) = 12 + 1 /\ Len(u) = 11 + 1
    BY <1>7, <1>8
  <2>2. Tail(p) \in Seq(U) /\ Len(Tail(p)) = 12 /\ \A i \in 1..12 : Tail(p)[i] = p[i + 1]
    BY <1>7, <1>9, <2>1
  <2>3. Tail(u) \in Seq(U) /\ Len(Tail(u)) = 11 /\ \A i \in 1..11 : Tail(u)[i] = u[i + 1]
    BY <1>8, <1>9, <2>1
  <2> QED BY <1>6, <2>2, <2>3
<1>10a. /\ p2 \in Seq(U) /\ Len(p2) = 11 /\ \A i \in 1..11 : p2[i] = p1[i + 1]
        /\ \A i \in 1..10 : u2[i] = u1[i + 1]
  <2>0. Len(p1) = 11 + 1 /\ Len(u1) = 10 + 1
    BY <1>10
  <2>1. Tail(p1) \in Seq(U) /\ Len(Tail(p1)) = 11 /\ \A i \in 1..11 : Tail(p1)[i] = p1[i + 1]
    BY <1>9, <1>10, <2>0
  <2>2. \A i \in 1..10 : Tail(u1)[i] = u1[i + 1]
    BY <1>9, <1>10, <2>0
  <2> QED BY <1>6, <2>1, <2>2
<1>10b. p3 \in Seq(U) /\ Len(p3) = 10 /\ \A i \in 1..10 : p3[i] = p2[i + 1]
  <2>0. Len(p2) = 10 + 1
    BY <1>10a
  <2>1. Tail(p2) \in Seq(U) /\ Len(Tail(p2)) = 10 /\ \A i \in 1..10 : Tail(p2)[i] = p2[i + 1]
    BY <1>9, <1>10a, <2>0
  <2> QED BY <1>6, <2>1
<1>11. /\ p[1].op = "consume" /\ u[1].op = "consume" /\ p1[1].op = "expect" /\ u1[1].op = "expect"
       /\ p2[1].op = "newProcedure" /\ u2[1].op = "newModule"
  <2>1. /\ p1[1] = Expect("identifier") /\ u1[1] = Expect("identifier")
        /\ p2[1] = Act("newProcedure") /\ u2[1] = Act("newModule")
    BY <1>7, <1>8, <1>10, <1>10a
  <2> QED BY <1>7, <1>8, <2>1 DEF Consume, Expect, Act
<1>12. Starting = {p, p1, p2, u, u1, u2}
  BY <1>1, <1>6 DEF Starting, Starts
<1>13. OnWay(p3)
  <2>1. p3[1] = Act("enterScope") /\ p3[2] = Advance /\ p3[3] = FormalPart /\ p3[4] = Act("heading")
    BY <1>7, <1>10, <1>10a, <1>10b
  <2>2. p3[1] \in E /\ p3[2] \in E /\ p3[3] \in E
    BY <1>5, <2>1
  <2>3. \A j \in 1..(4 - 1) : j = 1 \/ j = 2 \/ j = 3
    OBVIOUS
  <2>4. 4 \in DOMAIN p3
    BY <1>10b
  <2>5. Before(E, Act("heading"), p3)
    BY <2>1, <2>2, <2>3, <2>4 DEF Before
  <2> QED BY <1>5, <1>10b, <2>5 DEF OnWay, IsSeq
<1>14. ASSUME NEW r \in Starting
       PROVE  /\ Begins(r) => Tail(r) \in Starting
              /\ Names_(r) => Tail(r) \in Starting
  <2>1. Begins(r) => r[1].op = "consume"
    BY DEF Begins
  <2>2. Names_(r) => r[1].op = "expect"
    BY DEF Names_
  <2> QED BY <1>6, <1>11, <1>12, <2>1, <2>2
<1>15. ASSUME NEW r \in Starting, r[1].op = "newProcedure" PROVE OnWay(Tail(r))
  <2>1. r = p2
    BY <1>11, <1>12, <1>15
  <2> QED BY <1>6, <1>13, <2>1
<1>16. /\ Rules["parseProcedureDeclaration"].body = p /\ Rules["parseCompilationUnit"].body = u
  BY <1>1 DEF Rules
<1> QED BY <1>12, <1>14, <1>15, <1>16

\* Before the heading nothing is read but formal parameters.
LEMMA OnWayNext ==
  ASSUME NEW r, OnWay(r)
  PROVE  /\ r # <<>> /\ r[1].op \in {"enterScope", "advance", "when", "call", "heading"}
         /\ r[1].op # "heading" => OnWay(Tail(r))
         /\ r[1].op = "when" => OnWay(r[1].then \o Tail(r)) /\ OnWay(r[1].otherwise \o Tail(r))
         /\ r[1].op = "call" => r[1].fn = "parseFormalParameters"
<1>1. PICK E : E = {Act("enterScope"), Advance, FormalParameters, FormalPart}
  OBVIOUS
<1>2. PICK U : r \in Seq(U) /\ Before(E, Act("heading"), r)
  BY <1>1 DEF OnWay, IsSeq
<1>3. r # <<>>
  BY <1>2 DEF Before
<1>4. /\ Act("enterScope").op = "enterScope" /\ Advance.op = "advance" /\ Act("heading").op = "heading"
      /\ FormalParameters.op = "call" /\ FormalPart.op = "when"
  BY DEF Act, Advance, FormalParameters, FormalPart, Call, When
<1>5. CASE r[1] = Act("heading")
  BY <1>3, <1>4, <1>5
<1>6. CASE r[1] # Act("heading")
  <2>1. r[1] \in E /\ Before(E, Act("heading"), Tail(r)) /\ Tail(r) \in Seq(U)
    BY <1>2, <1>3, <1>6, BeforeTail, TailOf
  <2>2. PICK W : W = U \cup E
    OBVIOUS
  <2>3. Tail(r) \in Seq(W) /\ E \subseteq W
    BY <2>1, <2>2, SeqMonotonic
  <2>4. ASSUME NEW p \in Seq(E) PROVE OnWay(p \o Tail(r))
    <3>1. p \in Seq(W)
      BY <2>3, SeqMonotonic
    <3>2. Before(E, Act("heading"), p \o Tail(r)) /\ p \o Tail(r) \in Seq(W)
      BY <2>1, <2>3, <2>4, <3>1, BeforeConcat, ConcatProperties
    <3> QED BY <1>1, <3>2 DEF OnWay, IsSeq
  <2>5. << FormalParameters >> \in Seq(E) /\ <<>> \in Seq(E)
    BY <1>1
  <2>6. OnWay(Tail(r))
    BY <1>1, <2>1 DEF OnWay, IsSeq
  <2> QED BY <1>1, <1>3, <1>4, <2>1, <2>4, <2>5, <2>6, EarlyNames
<1> QED BY <1>5, <1>6

(* What a step does to the calls.                                           *)

\* The innermost call goes on with r.
Goes(r, locals, scoped) ==
  \E g : /\ Replaced(calls, g, calls') /\ g.fn = Top.fn /\ g.out = Top.out
         /\ g.rest = r /\ g.locals = locals /\ g.scoped = scoped

\* It does the instruction op.
Advances(op, locals) ==
  /\ op \in Actions /\ Doing(op) /\ Goes(Tail(Top.rest), locals, Top.scoped)
  /\ op \in {"newModule", "newProcedure"} => locals.D = Len(decls) + 1
  /\ op = "lookup" => locals.D = lookup(tok)
  /\ op \notin {"newModule", "newProcedure", "lookup"} => locals.D = v.D
  /\ op = "heading" => errors' \/ v.D \in Determined(decls')
  /\ op = "expect" => tok' = tok /\ Is({Top.rest[1].kind})

\* It enters the scope of its declaration.
Entering ==
  /\ Doing("enterScope") /\ Goes(Tail(Top.rest), v, TRUE)
  /\ decls' = decls /\ tok' = tok /\ errors' = errors

\* It fails.
Recovers ==
  /\ Doing("expect") \/ Doing("consume") \/ Doing("fail")
  /\ Goes(<<Handler>>, v, Top.scoped) /\ decls' = decls /\ tok' = tok

\* It goes into the parts of a condition or of a loop, or past the loop.
Branches(r) ==
  /\ \/ Doing("when") /\ \E s \in {Top.rest[1].then, Top.rest[1].otherwise} : r = s \o Tail(Top.rest)
     \/ Doing("while") /\ (r = Top.rest[1].body \o Top.rest \/ r = Tail(Top.rest))
  /\ Goes(r, v, Top.scoped) /\ decls' = decls /\ tok' = tok /\ errors' = errors

\* What a call gets in its reference parameters.
Passed(out) == [x \in DOMAIN Locals |-> IF x \in DOMAIN out THEN v[out[x]] ELSE Locals[x]]

\* It calls another function.
CallsOn ==
  /\ Doing("call") /\ decls' = decls /\ tok' = tok /\ errors' = errors
  /\ \E g, h :
       /\ Pushed(calls, g, h, calls')
       /\ g.fn = Top.fn /\ g.out = Top.out /\ g.rest = Tail(Top.rest)
       /\ g.locals = v /\ g.scoped = Top.scoped
       /\ h.fn = Top.rest[1].fn /\ h.out = Top.rest[1].out /\ h.rest = Rules[h.fn].body
       /\ h.locals = Passed(h.out) /\ h.scoped = FALSE

\* It returns to the call b.
Returned(b, failed, g) ==
  /\ g.fn = b.fn /\ g.out = b.out /\ g.scoped = b.scoped
  /\ g.rest = (IF failed THEN <<Handler>> ELSE b.rest)
  /\ g.locals = Written(Top.out, v, b.locals)
Leaves(failed) ==
  /\ calls # <<>> /\ decls' = decls /\ errors' = errors
  /\ tok' = IF failed THEN "eof" ELSE tok
  /\ Top.rest = <<>> \/ Doing("handler")
  /\ \E g : /\ Popped(calls, g, calls')
            /\ Len(calls) > 1 => Returned(calls[Len(calls) - 1], failed, g)

\* Nothing happens, or a token is skipped.
Idles ==
  /\ calls' = calls /\ decls' = decls /\ errors' = errors
  /\ tok' = tok \/ Doing("handler")

LEMMA GoesTop ==
  ASSUME Coherence, calls # <<>>, NEW g, SetTop(g), g.fn = Top.fn, g.out = Top.out
  PROVE  Goes(g.rest, g.locals, g.scoped)
<1>1. IsSeq(calls)
  BY TopFrame
<1>2. Replaced(calls, g, calls')
  BY <1>1, LastReplaced DEF SetTop
<1> QED BY <1>2 DEF Goes

LEMMA GoesDone ==
  ASSUME Coherence, NEW op, Doing(op), NEW locals, Done(locals)
  PROVE  Goes(Tail(Top.rest), locals, Top.scoped)
<1>1. calls # <<>>
  BY DEF Doing
<1>2. PICK f, g : f = Top /\ g = [f EXCEPT !.rest = Tail(f.rest), !.locals = locals]
  OBVIOUS
<1>3. DOMAIN f = {"fn", "rest", "locals", "out", "scoped"}
  BY <1>1, <1>2, TopFrame DEF WellFormed
<1>4. g.rest = Tail(f.rest) /\ g.locals = locals /\ g.scoped = f.scoped /\ g.fn = f.fn /\ g.out = f.out
  BY <1>2, <1>3
<1>5. SetTop(g)
  BY <1>2 DEF Done
<1>6. Goes(g.rest, g.locals, g.scoped)
  BY <1>1, <1>2, <1>4, <1>5, GoesTop
<1> QED BY <1>2, <1>4, <1>6

LEMMA GoesRest ==
  ASSUME Coherence, calls # <<>>, NEW r, SetTop([Top EXCEPT !.rest = r])
  PROVE  Goes(r, v, Top.scoped)
<1>2. PICK f, g : f = Top /\ g = [f EXCEPT !.rest = r]
  OBVIOUS
<1>3. DOMAIN f = {"fn", "rest", "locals", "out", "scoped"} /\ v = f.locals
  BY <1>2, TopFrame DEF WellFormed, v
<1>4. g.rest = r /\ g.locals = v /\ g.scoped = f.scoped /\ g.fn = f.fn /\ g.out = f.out
  BY <1>2, <1>3
<1>6. Goes(g.rest, g.locals, g.scoped)
  BY <1>2, <1>4, GoesTop
<1> QED BY <1>2, <1>4, <1>6

LEMMA EnterMoves == ASSUME Coherence, EnterDeclScope PROVE Entering
<1>1. Doing("enterScope") /\ decls' = decls /\ tok' = tok /\ errors' = errors
  BY DEF EnterDeclScope, lexVars
<1>2. PICK f, g : f = Top /\ g = [f EXCEPT !.rest = Tail(f.rest), !.scoped = TRUE]
  OBVIOUS
<1>3. DOMAIN f = {"fn", "rest", "locals", "out", "scoped"} /\ v = f.locals /\ calls # <<>>
  BY <1>1, <1>2, TopFrame DEF WellFormed, v, Doing
<1>4. g.rest = Tail(f.rest) /\ g.locals = v /\ g.scoped = TRUE /\ g.fn = f.fn /\ g.out = f.out
  BY <1>2, <1>3
<1>5. SetTop(g)
  BY <1>2 DEF EnterDeclScope
<1>6. Goes(g.rest, g.locals, g.scoped)
  BY <1>2, <1>3, <1>4, <1>5, GoesTop
<1> QED BY <1>1, <1>2, <1>4, <1>6 DEF Entering

LEMMA WhenMoves == ASSUME Coherence, DoWhen PROVE \E r : Branches(r)
<1>1. /\ Doing("when") /\ calls # <<>>
      /\ decls' = decls /\ tok' = tok /\ errors' = errors
  BY DEF DoWhen, Doing, lexVars, semaVars
<1>2. PICK p, r : /\ p = IF Is(Top.rest[1].kinds) THEN Top.rest[1].then ELSE Top.rest[1].otherwise
                  /\ r = p \o Tail(Top.rest)
  OBVIOUS
<1>3. SetTop([Top EXCEPT !.rest = r])
  BY <1>2 DEF DoWhen
<1>4. Goes(r, v, Top.scoped)
  BY <1>1, <1>3, GoesRest
<1> QED BY <1>1, <1>2, <1>4 DEF Branches

LEMMA WhileMoves == ASSUME Coherence, DoWhile PROVE \E r : Branches(r)
<1>1. /\ Doing("while") /\ calls # <<>>
      /\ decls' = decls /\ tok' = tok /\ errors' = errors
  BY DEF DoWhile, Doing, lexVars, semaVars
<1>2. PICK r : r = IF Is(Top.rest[1].kinds) THEN Top.rest[1].body \o Top.rest ELSE Tail(Top.rest)
  OBVIOUS
<1>3. SetTop([Top EXCEPT !.rest = r])
  BY <1>2 DEF DoWhile
<1>4. Goes(r, v, Top.scoped)
  BY <1>1, <1>3, GoesRest
<1> QED BY <1>1, <1>2, <1>4 DEF Branches

LEMMA CallMoves == ASSUME Coherence, DoCall PROVE CallsOn
<1>1. /\ Doing("call") /\ calls # <<>>
      /\ decls' = decls /\ tok' = tok /\ errors' = errors
  BY DEF DoCall, Doing, lexVars, semaVars
<1>2. PICK r, fn, out : r = Tail(Top.rest) /\ fn = Top.rest[1].fn /\ out = Top.rest[1].out
  OBVIOUS
<1>3. PICK passed : passed = Passed(out)
  OBVIOUS
<1>4. PICK f, g : f = Top /\ g = [f EXCEPT !.rest = r]
  OBVIOUS
<1>5. PICK h : h = Frame(fn, passed, out)
  OBVIOUS
<1>6. WellFormed(f, decls) /\ IsSeq(calls) /\ f = calls[Len(calls)] /\ v = f.locals
  BY <1>1, <1>4, TopFrame DEF Top, v
<1>7. g.rest = r /\ g.locals = v /\ g.scoped = f.scoped /\ g.fn = f.fn /\ g.out = f.out
  BY <1>4, <1>6 DEF WellFormed
<1>8. h.fn = fn /\ h.rest = Rules[fn].body /\ h.out = out /\ h.locals = passed /\ h.scoped = FALSE
  BY <1>5 DEF Frame
<1>11. Pushed(calls, g, h, calls')
  <2>1. calls' = Append([calls EXCEPT ![Len(calls)] = g], h)
    <3>1. g = [calls[Len(calls)] EXCEPT !.rest = Tail(calls[Len(calls)].rest)]
      BY <1>2, <1>4 DEF Top
    <3>2. [calls EXCEPT ![Len(calls)].rest = Tail(@)] = [calls EXCEPT ![Len(calls)] = g]
      BY <3>1
    <3> QED BY <1>2, <1>3, <1>5, <3>2 DEF DoCall, Passed
  <2> QED BY <1>1, <1>6, <2>1, LastPushed
<1> QED BY <1>1, <1>2, <1>3, <1>4, <1>7, <1>8, <1>11 DEF CallsOn

LEMMA LeaveMoves ==
  ASSUME Coherence, calls # <<>>, NEW failed, Leave(failed), Top.rest = <<>> \/ Doing("handler"),
         tok' = IF failed THEN "eof" ELSE tok
  PROVE  Leaves(failed)
<1>1. PICK n \in Nat : n = Len(calls) /\ n >= 1 /\ DOMAIN calls = 1..n
  BY TopFrame
<1>2. /\ Active(calls, decls, current) /\ IsSeq(calls)
      /\ Top = calls[n] /\ v = calls[n].locals /\ errors' = errors /\ decls' = decls
  BY <1>1, TopFrame, Zenon DEF Coherence, Coherent, Leave, Top, v
<1>3. PICK b, r, g : /\ b = calls[n - 1]
                     /\ r = IF failed THEN <<Handler>> ELSE b.rest
                     /\ g = Caller(b, calls[n], r)
  OBVIOUS
<1>4. calls' = IF n = 1 THEN <<>> ELSE Append(SubSeq(calls, 1, n - 2), g)
  <2>1. calls' = IF n = 1 THEN <<>>
                 ELSE Append(SubSeq(calls, 1, n - 2),
                        [b EXCEPT !.locals = Written(calls[n].out, calls[n].locals, @),
                                  !.rest = IF failed THEN <<Handler>> ELSE @])
    BY <1>1, <1>2, <1>3 DEF Leave
  <2> QED BY <1>3, <2>1, Zenon DEF Caller
<1>5. Popped(calls, g, calls')
  <2>1. Popped(calls, g, IF n = 1 THEN <<>> ELSE Append(SubSeq(calls, 1, n - 2), g))
    BY <1>1, <1>2, LastPopped
  <2> QED BY <1>4, <2>1, Zenon
<1>6. ASSUME n > 1 PROVE Returned(b, failed, g)
  <2>1. n - 1 \in DOMAIN calls
    BY <1>1, <1>6
  <2>2. DOMAIN b = {"fn", "rest", "locals", "out", "scoped"}
    BY <1>2, <1>3, <2>1, Zenon DEF Active, WellFormed
  <2> QED BY <1>2, <1>3, <2>2 DEF Caller, Returned
<1> QED BY <1>1, <1>2, <1>3, <1>5, <1>6 DEF Leaves

LEMMA DoesMoves ==
  ASSUME TypesHold, Does, Doing("expect") => tok' = tok /\ Is({Top.rest[1].kind})
  PROVE  \E op, locals : Advances(op, locals)
<1>1. PICK op, locals :
        /\ op \in Actions /\ Doing(op) /\ Done(locals)
        /\ op \in {"newModule", "newProcedure"} => locals.D = Len(decls) + 1 /\ locals.D # Null
        /\ op = "lookup" => locals.D = lookup(tok) /\ (locals.D # Null \/ errors')
        /\ op \notin {"newModule", "newProcedure", "lookup"} => locals.D = v.D
        /\ op = "heading" => errors' \/ v.D \in Determined(decls')
  BY Zenon DEF Does
<1>2. Goes(Tail(Top.rest), locals, Top.scoped)
  BY <1>1, GoesDone DEF TypesHold
<1>3. Advances(op, locals)
  BY <1>1, <1>2 DEF Advances
<1> QED BY <1>3

\* The semantic actions are none of the parser's own steps.
LEMMA AnalyseNames == ASSUME Analyse PROVE ~Doing("expect")
<1>1. \/ Doing("takeName") \/ Doing("takeId") \/ Doing("takeOperator") \/ Doing("takePrefix")
      \/ Doing("byRef") \/ Doing("lookup") \/ Doing("isModule") \/ Doing("integer")
      \/ Doing("designator") \/ Doing("fieldSelector") \/ Doing("functionCall")
      \/ Doing("relation") \/ Doing("sum") \/ Doing("product") \/ Doing("not") \/ Doing("sign")
      \/ Doing("argument") \/ Doing("target") \/ Doing("assignment") \/ Doing("procCall")
      \/ Doing("condition") \/ Doing("return") \/ Doing("constant") \/ Doing("alias")
      \/ Doing("pointer") \/ Doing("record") \/ Doing("variable") \/ Doing("field")
      \/ Doing("newProcedure") \/ Doing("parameter") \/ Doing("heading")
      \/ Doing("endProcedure") \/ Doing("newModule") \/ Doing("import") \/ Doing("endModule")
      \/ Doing("enterScope")
  BY Zenon DEF Analyse, TakeToken, LookUp, Operand, Operation, Statement, Declaration, Procedure,
     Module, EnterDeclScope, Evaluates, Declares
<1> QED BY <1>1 DEF Doing

LEMMA RecoverMoves ==
  ASSUME Coherence, Recover, Doing("expect") \/ Doing("consume") \/ Doing("fail"),
         decls' = decls, tok' = tok
  PROVE  Recovers
<1>1. calls # <<>>
  BY DEF Doing
<1>2. Goes(<<Handler>>, v, Top.scoped)
  BY <1>1, GoesRest DEF Recover
<1> QED BY <1>2 DEF Recovers

LEMMA StepMoves ==
  ASSUME TypesHold, [Next]_vars
  PROVE  \/ \E op, locals : Advances(op, locals)
         \/ Entering \/ Recovers \/ (\E r : Branches(r)) \/ CallsOn
         \/ (\E failed \in BOOLEAN : Leaves(failed)) \/ Idles
<1>0. Coherence
  BY DEF TypesHold
<1>1. CASE DoAdvance
  <2>1. Does /\ ~Doing("expect")
    BY <1>1, TokenDoes, OneDoing DEF DoAdvance
  <2> QED BY <2>1, DoesMoves
<1>2. CASE DoExpect
  <2>1. Doing("expect") /\ decls' = decls /\ tok' = tok
    BY <1>2 DEF DoExpect, lexVars
  <2>2. CASE Is({Top.rest[1].kind})
    <3>1. Does
      BY <1>2, <2>1, <2>2, TokenDoes DEF DoExpect
    <3> QED BY <2>1, <2>2, <3>1, DoesMoves
  <2>3. CASE ~Is({Top.rest[1].kind})
    BY <1>0, <1>2, <2>1, <2>3, RecoverMoves DEF DoExpect
  <2> QED BY <2>2, <2>3
<1>3. CASE DoConsume
  <2>1. Doing("consume") /\ decls' = decls
    BY <1>3 DEF DoConsume, semaVars
  <2>2. CASE Is({Top.rest[1].kind})
    <3>1. Does /\ ~Doing("expect")
      BY <1>3, <2>1, <2>2, TokenDoes, OneDoing DEF DoConsume
    <3> QED BY <3>1, DoesMoves
  <2>3. CASE ~Is({Top.rest[1].kind})
    BY <1>0, <1>3, <2>1, <2>3, RecoverMoves DEF DoConsume, lexVars
  <2> QED BY <2>2, <2>3
<1>4. CASE DoWhen \/ DoWhile
  BY <1>0, <1>4, WhenMoves, WhileMoves
<1>5. CASE DoCall
  BY <1>0, <1>5, CallMoves
<1>6. CASE DoFail
  BY <1>0, <1>6, RecoverMoves DEF DoFail, lexVars, semaVars
<1>7. CASE DoReturn
  <2>1. Leaves(FALSE)
    BY <1>0, <1>7, LeaveMoves DEF DoReturn, lexVars
  <2> QED BY <2>1
<1>8. CASE Resynchronise
  <2>1. Leaves(FALSE)
    BY <1>0, <1>8, LeaveMoves DEF Resynchronise, lexVars, Doing
  <2> QED BY <2>1
<1>9. CASE Skip
  <2>1. Doing("handler") /\ calls # <<>>
    BY <1>9 DEF Skip, Doing
  <2>2. CASE tok' = "eof" /\ "eof" \notin Sync
    <3>1. Leaves(TRUE)
      BY <1>0, <1>9, <2>1, <2>2, LeaveMoves DEF Skip
    <3> QED BY <3>1
  <2>3. CASE ~(tok' = "eof" /\ "eof" \notin Sync)
    BY <1>9, <2>1, <2>3 DEF Skip, Idles, semaVars
  <2> QED BY <2>2, <2>3
<1>10. CASE Crash \/ UNCHANGED vars
  BY <1>10 DEF Crash, semaVars, vars, lexVars, Idles
<1>11. CASE Analyse
  <2>1. CASE Does
    BY <1>11, <2>1, DoesMoves, AnalyseNames, Zenon
  <2>2. CASE EnterDeclScope
    BY <1>0, <2>2, EnterMoves
  <2> QED BY <1>11, <2>1, <2>2, AnalyseDoes
<1> QED BY <1>1, <1>2, <1>3, <1>4, <1>5, <1>6, <1>7, <1>8, <1>9, <1>10, <1>11, Zenon
        DEF Next, Step, Halt

\* The calls after a step, by their places.
LEMMA ReplacedAt ==
  ASSUME NEW c, IsSeq(c), c # <<>>, NEW g, NEW c2, Replaced(c, g, c2)
  PROVE  /\ DOMAIN c2 = DOMAIN c /\ DOMAIN c = 1..Len(c) /\ Len(c) \in DOMAIN c /\ Len(c) \in Nat
         /\ Len(c2) = Len(c) /\ IsSeq(c2) /\ c2[Len(c)] = g
         /\ \A k \in DOMAIN c2 : k # Len(c) => k < Len(c) /\ c2[k] = c[k]
<1>1. DOMAIN c = 1..Len(c) /\ Len(c) \in Nat /\ Len(c) >= 1
  BY LastReplaced
<1>2. IsSeq(c2) /\ Len(c2) = Len(c) /\ DOMAIN c2 = 1..Len(c)
  BY SeqFacts DEF Replaced
<1> QED BY <1>1, <1>2 DEF Replaced

LEMMA PushedAt ==
  ASSUME NEW c, IsSeq(c), c # <<>>, NEW g, NEW h, NEW c2, Pushed(c, g, h, c2)
  PROVE  /\ DOMAIN c = 1..Len(c) /\ Len(c) \in DOMAIN c /\ Len(c) \in Nat
         /\ Len(c2) = Len(c) + 1 /\ IsSeq(c2) /\ c2 # <<>>
         /\ DOMAIN c2 = 1..Len(c) + 1
         /\ c2[Len(c)] = g /\ c2[Len(c) + 1] = h
         /\ \A k \in DOMAIN c2 :
              k = Len(c) \/ k = Len(c) + 1 \/ (k < Len(c) /\ k \in DOMAIN c /\ c2[k] = c[k])
<1>1. DOMAIN c = 1..Len(c) /\ Len(c) \in Nat /\ Len(c) >= 1
  BY LastReplaced
<1>2. IsSeq(c2) /\ Len(c2) = Len(c) + 1 /\ DOMAIN c2 = 1..Len(c) + 1
  BY SeqFacts DEF Pushed
<1>3. c2 # <<>>
  BY <1>1, <1>2
<1> QED BY <1>1, <1>2, <1>3 DEF Pushed

LEMMA PoppedAt ==
  ASSUME NEW c, IsSeq(c), c # <<>>, NEW g, NEW c2, Popped(c, g, c2)
  PROVE  /\ DOMAIN c = 1..Len(c) /\ Len(c) \in DOMAIN c /\ Len(c) \in Nat
         /\ Len(c2) = Len(c) - 1 /\ IsSeq(c2)
         /\ c2 # <<>> => Len(c) > 1 /\ Len(c) - 1 \in DOMAIN c /\ c2[Len(c) - 1] = g
         /\ \A k \in DOMAIN c2 : k < Len(c) /\ k \in DOMAIN c /\ Len(c) > 1
         /\ \A k \in DOMAIN c2 : IF k = Len(c) - 1 THEN c2[k] = g ELSE c2[k] = c[k]
<1>1. DOMAIN c = 1..Len(c) /\ Len(c) \in Nat /\ Len(c) >= 1
  BY LastReplaced
<1>2. IsSeq(c2) /\ Len(c2) = Len(c) - 1 /\ DOMAIN c2 = 1..Len(c) - 1
  BY SeqFacts DEF Popped
<1>3. c2 # <<>> => Len(c2) # 0
  BY <1>2, EmptySeq DEF IsSeq
<1> QED BY <1>1, <1>2, <1>3 DEF Popped

LEMMA TopFacts ==
  ASSUME Coherence, calls # <<>>
  PROVE  /\ IsSeq(calls) /\ Top = calls[Len(calls)] /\ v = Top.locals /\ WellFormed(Top, decls)
         /\ Len(calls) \in DOMAIN calls /\ Len(calls) \in Nat /\ DOMAIN calls = 1..Len(calls)
  BY TopFrame DEF Top, v

(* The shape of the calls.                                                  *)

\* What goes on with instructions of its own, none of which takes a declaration.
LEMMA ShapedRest ==
  ASSUME NEW f, Shaped(f), NEW g, g.out = f.out, g.scoped = f.scoped,
         g.rest \in Seq(Inner) \/ g.rest \in Seq(Own),
         "D" \in DOMAIN f.out => g.rest \in Seq(Naming)
  PROVE  Shaped(g)
<1>1. ~Begins(g.rest) /\ ~Names_(g.rest) /\ ~Creates(g.rest)
  BY InnerNeither
<1> QED BY <1>1 DEF Shaped

LEMMA ShapedTail ==
  ASSUME NEW f, NEW d, WellFormed(f, d), f.rest # <<>>, Shaped(f),
         NEW g, g.out = f.out, g.scoped = f.scoped, g.rest = Tail(f.rest)
  PROVE  Shaped(g)
<1>0. "D" \in DOMAIN f.out => g.rest \in Seq(Naming)
  BY TailOf DEF Shaped
<1>1. CASE f.scoped
  BY <1>0, <1>1 DEF Shaped
<1>2. CASE f.rest \in Seq(Inner) \/ Enters(f.rest) \/ Looks(f.rest)
  <2>1. Seq(Mild) \subseteq Seq(Inner)
    BY Levels, SeqMonotonic
  <2>2. g.rest \in Seq(Inner) \/ g.rest \in Seq(Own)
    BY <1>2, <2>1, TailOf DEF Enters, Looks
  <2> QED BY <1>0, <2>2, ShapedRest
<1>3. CASE ~f.scoped /\ (Begins(f.rest) \/ Names_(f.rest))
  <2>1. f.rest \in Starting
    BY <1>3 DEF Shaped
  <2>2. g.rest \in Starting
    BY <1>3, <2>1, StartingBodies
  <2> QED BY <1>0, <1>3, <2>2 DEF Shaped
<1>4. CASE Creates(f.rest) \/ Asks(f.rest)
  <2>1. g.rest[1].op \in {"enterScope", "lookup"}
    BY <1>4 DEF Creates, Enters, Asks, Looks
  <2>2. ~Begins(g.rest) /\ ~Names_(g.rest) /\ ~Creates(g.rest)
    BY <2>1 DEF Begins, Names_, Creates
  <2>3. ~f.scoped \/ f.scoped
    OBVIOUS
  <2> QED BY <1>0, <1>1, <2>2 DEF Shaped
<1> QED BY <1>1, <1>2, <1>3, <1>4 DEF WellFormed, Left

LEMMA ShapedCalled ==
  ASSUME NEW h, h.fn \in DOMAIN Rules, h.rest = Rules[h.fn].body, h.scoped = FALSE,
         "D" \in DOMAIN h.out => h.fn = "parseQualident"
  PROVE  Shaped(h)
<1>1. "D" \in DOMAIN h.out => h.rest \in Seq(Naming)
  BY NamingSound
<1>2. CASE h.rest \in Guarded
  <2>1. ~Begins(h.rest) /\ ~Names_(h.rest) /\ ~Creates(h.rest)
    BY <1>2, Paths, InnerNeither
  <2> QED BY <1>1, <2>1 DEF Shaped
<1>3. CASE h.fn \in {"parseCompilationUnit", "parseProcedureDeclaration"}
  BY <1>1, <1>3, StartingBodies DEF Shaped
<1>4. CASE Asks(h.rest)
  <2>1. h.rest[1].op = "expect" /\ Tail(h.rest)[1].op = "lookup"
    BY <1>4 DEF Asks, Looks, Expect
  <2>2. ~Begins(h.rest) /\ ~Names_(h.rest) /\ ~Creates(h.rest)
    BY <2>1 DEF Begins, Names_, Creates
  <2> QED BY <1>1, <2>2 DEF Shaped
<1> QED BY <1>2, <1>3, <1>4, GuardedBodies

Shapes(c) == \A k \in DOMAIN c : Shaped(c[k])

\* What the parts of a condition or of a loop are made of.
LEMMA BranchParts ==
  ASSUME Coherence, NEW r, Branches(r)
  PROVE  /\ IF Top.scoped THEN r \in Seq(Own) ELSE r \in Seq(Inner)
         /\ calls # <<>> /\ Top.rest # <<>> /\ Top.rest[1].op \in {"when", "while"}
<1>0. PICK o \in {"when", "while"} : Doing(o)
  BY DEF Branches
<1>1. calls # <<>> /\ Top.rest # <<>> /\ Top.rest[1].op = o
  BY <1>0 DEF Doing
<1>2. PICK S : /\ S = IF Top.scoped THEN Own ELSE Inner
               /\ Top.rest \in Seq(S) /\ Tail(Top.rest) \in Seq(S)
               /\ o = "when" => Top.rest[1].then \in Seq(S) /\ Top.rest[1].otherwise \in Seq(S)
               /\ o = "while" => Top.rest[1].body \in Seq(S)
  BY <1>0, PartsOf
<1>3. r \in Seq(S)
  <2>1. o = "when" => \E s \in {Top.rest[1].then, Top.rest[1].otherwise} : r = s \o Tail(Top.rest)
    BY <1>0, OneDoing DEF Branches
  <2>2. o = "while" => r = Top.rest[1].body \o Top.rest \/ r = Tail(Top.rest)
    BY <1>0, OneDoing DEF Branches
  <2>3. \A s, t \in Seq(S) : s \o t \in Seq(S)
    BY ConcatProperties
  <2>4. CASE o = "when"
    <3>1. PICK s \in {Top.rest[1].then, Top.rest[1].otherwise} : r = s \o Tail(Top.rest)
      BY <2>1, <2>4
    <3>2. s \in Seq(S)
      BY <1>2, <2>4, <3>1
    <3> QED BY <1>2, <2>3, <3>1, <3>2
  <2>5. CASE o = "while"
    BY <1>2, <2>2, <2>3, <2>5
  <2> QED BY <2>4, <2>5
<1> QED BY <1>1, <1>2, <1>3

LEMMA ShapesReplaced ==
  ASSUME NEW c, IsSeq(c), c # <<>>, Shapes(c), NEW g, NEW c2, Replaced(c, g, c2), Shaped(g)
  PROVE  Shapes(c2)
  BY ReplacedAt DEF Shapes

LEMMA ShapesPushed ==
  ASSUME NEW c, IsSeq(c), c # <<>>, Shapes(c), NEW g, NEW h, NEW c2, Pushed(c, g, h, c2),
         Shaped(g), Shaped(h)
  PROVE  Shapes(c2)
<1>1. c2[Len(c)] = g /\ c2[Len(c) + 1] = h
  BY DEF Pushed
<1>2. \A k \in DOMAIN c2 :
        k = Len(c) \/ k = Len(c) + 1 \/ (k < Len(c) /\ k \in DOMAIN c /\ c2[k] = c[k])
  BY PushedAt
<1> QED BY <1>1, <1>2 DEF Shapes

LEMMA ShapesGo ==
  ASSUME Coherence, calls # <<>>, Shapes(calls), NEW r, NEW locals, NEW scoped, Goes(r, locals, scoped),
         \A g : g.out = Top.out /\ g.rest = r /\ g.scoped = scoped => Shaped(g)
  PROVE  Shapes(calls')
<1>1. IsSeq(calls)
  BY TopFacts
<1>2. PICK g : Replaced(calls, g, calls') /\ g.out = Top.out /\ g.rest = r /\ g.scoped = scoped
  BY DEF Goes
<1>3. Shaped(g)
  BY <1>2
<1> QED BY <1>1, <1>2, <1>3, ShapesReplaced

LEMMA StepShapes ==
  ASSUME TypesHold, Shapes(calls), [Next]_vars
  PROVE  Shapes(calls')
<1>0. Coherence
  BY DEF TypesHold
<1>t. ASSUME calls # <<>> PROVE Shaped(Top) /\ WellFormed(Top, decls)
  BY <1>0, <1>t, TopFacts DEF Shapes
<1>1. ASSUME NEW op, NEW locals, Advances(op, locals) PROVE Shapes(calls')
  <2>1. calls # <<>> /\ Top.rest # <<>>
    BY <1>1 DEF Advances, Doing
  <2>2. \A g : g.out = Top.out /\ g.rest = Tail(Top.rest) /\ g.scoped = Top.scoped => Shaped(g)
    BY <1>t, <2>1, ShapedTail
  <2>3. Goes(Tail(Top.rest), locals, Top.scoped)
    BY <1>1 DEF Advances
  <2> QED BY <1>0, <2>1, <2>2, <2>3, ShapesGo
<1>2. CASE Entering
  <2>1. calls # <<>> /\ Top.rest # <<>> /\ Top.rest[1].op = "enterScope"
    BY <1>2 DEF Entering, Doing
  <2>2. "D" \notin DOMAIN Top.out
    <3>1. Top.rest \notin Seq(Naming)
      BY <2>1, NamingSound, HeadOf
    <3> QED BY <1>t, <2>1, <3>1 DEF Shaped
  <2>3. \A g : g.out = Top.out /\ g.scoped = TRUE => Shaped(g)
    BY <2>2 DEF Shaped
  <2>4. Goes(Tail(Top.rest), v, TRUE)
    BY <1>2 DEF Entering
  <2> QED BY <1>0, <2>1, <2>3, <2>4, ShapesGo
<1>3. CASE Recovers
  <2>1. calls # <<>>
    BY <1>3 DEF Recovers, Doing
  <2>2. \A g : g.out = Top.out /\ g.rest = <<Handler>> /\ g.scoped = Top.scoped => Shaped(g)
    BY <1>t, <2>1, NamingSound, HandlerRest, ShapedRest
  <2>3. Goes(<<Handler>>, v, Top.scoped)
    BY <1>3 DEF Recovers
  <2> QED BY <1>0, <2>1, <2>2, <2>3, ShapesGo
<1>4. ASSUME NEW r, Branches(r) PROVE Shapes(calls')
  <2>1. /\ r \in Seq(Inner) \/ r \in Seq(Own)
        /\ calls # <<>> /\ Top.rest # <<>> /\ Top.rest[1].op \in {"when", "while"}
    BY <1>0, <1>4, BranchParts
  <2>2. "D" \notin DOMAIN Top.out
    <3>1. Top.rest \notin Seq(Naming)
      BY <2>1, NamingSound, HeadOf
    <3> QED BY <1>t, <2>1, <3>1 DEF Shaped
  <2>3. \A g : g.out = Top.out /\ g.rest = r /\ g.scoped = Top.scoped => Shaped(g)
    BY <1>t, <2>1, <2>2, ShapedRest
  <2>4. Goes(r, v, Top.scoped)
    BY <1>4 DEF Branches
  <2> QED BY <1>0, <2>1, <2>3, <2>4, ShapesGo
<1>5. CASE CallsOn
  <2>0. Doing("call") /\ calls # <<>> /\ Top.rest # <<>>
    BY <1>5 DEF CallsOn, Doing
  <2>1. PICK g, h :
       /\ Pushed(calls, g, h, calls')
       /\ g.out = Top.out /\ g.rest = Tail(Top.rest) /\ g.scoped = Top.scoped
       /\ h.fn = Top.rest[1].fn /\ h.out = Top.rest[1].out /\ h.rest = Rules[h.fn].body
       /\ h.scoped = FALSE
    BY <1>5 DEF CallsOn
  <2>2. Shaped(g)
    BY <1>t, <2>0, <2>1, ShapedTail
  <2>3. h.fn \in DOMAIN Rules /\ ("D" \in DOMAIN h.out => h.fn = "parseQualident")
    BY <1>0, <2>0, <2>1, PartsOf
  <2>4. Shaped(h)
    BY <2>1, <2>3, ShapedCalled
  <2>5. IsSeq(calls)
    BY <1>0, <2>0, TopFacts
  <2>6. Pushed(calls, g, h, calls')
    BY <2>1
  <2> QED BY <2>0, <2>2, <2>4, <2>5, <2>6, ShapesPushed
<1>6. ASSUME NEW failed, Leaves(failed) PROVE Shapes(calls')
  <2>1. PICK g : /\ Popped(calls, g, calls')
                 /\ Len(calls) > 1 => Returned(calls[Len(calls) - 1], failed, g)
    BY <1>6 DEF Leaves
  <2>2. calls # <<>>
    BY <1>6 DEF Leaves
  <2>3. IsSeq(calls)
    BY <1>0, <2>2, TopFacts
  <2>4. ASSUME Len(calls) > 1, Len(calls) - 1 \in DOMAIN calls PROVE Shaped(g)
    <3>1. PICK b : b = calls[Len(calls) - 1]
      OBVIOUS
    <3>2. Shaped(b) /\ Returned(b, failed, g)
      BY <2>1, <2>4, <3>1 DEF Shapes
    <3>3. CASE failed
      <4>1. g.rest = <<Handler>> /\ g.out = b.out /\ g.scoped = b.scoped
        BY <3>2, <3>3 DEF Returned
      <4> QED BY <3>2, <4>1, NamingSound, HandlerRest, ShapedRest
    <3>4. CASE ~failed
      BY <3>2, <3>4 DEF Returned, Shaped
    <3> QED BY <3>3, <3>4
  <2> QED BY <2>1, <2>2, <2>3, <2>4, PoppedAt DEF Shapes
<1>7. CASE Idles
  BY <1>7 DEF Idles
<1> QED BY <1>1, <1>2, <1>3, <1>4, <1>5, <1>6, <1>7, StepMoves

(* The end of a text.                                                       *)

LEMMA TakeEnds ==
  ASSUME NEW s \in Seq(Tokens), Take(s)
  PROVE  Ending' /\ (s = <<>> => tok' = "eof")
<1>1. CASE s = <<>>
  BY <1>1 DEF Take, Ending
<1>2. CASE s # <<>>
  <2>1. tok' \in Tokens /\ text' \in Seq(Tokens)
    BY <1>2, HeadTailProperties DEF Take
  <2> QED BY <1>2, <2>1 DEF Ending, Tokens
<1> QED BY <1>1, <1>2

LEMMA LexEnds == ASSUME Ending, Lex PROVE Ending' /\ (tok = "eof" => tok' = "eof")
<1>1. CASE UNCHANGED lexVars
  BY <1>1 DEF Ending, lexVars
<1>2. CASE Take(text)
  BY <1>2, TakeEnds DEF Ending
<1>3. CASE Edit
  <2>1. tok # "eof" /\ text \in Seq(Tokens)
    BY <1>3 DEF Edit, Ending
  <2>2. CASE text # <<>> /\ Take(Tail(text))
    <3>1. Tail(text) \in Seq(Tokens)
      BY <2>1, <2>2
    <3> QED BY <2>1, <2>2, <3>1, TakeEnds
  <2>3. ASSUME NEW t \in Alphabet, tok' = t, text' = text \/ (text # <<>> /\ text' = Tail(text))
        PROVE  Ending'
    <3>1. t \in Tokens
      BY TokensAssumption
    <3>2. text' \in Seq(Tokens)
      BY <2>1, <2>3
    <3> QED BY <2>3, <3>1, <3>2 DEF Ending, Tokens
  <2>4. CASE Take(<<>>)
    <3>1. <<>> \in Seq(Tokens)
      OBVIOUS
    <3> QED BY <2>1, <2>4, <3>1, TakeEnds
  <2> QED BY <1>3, <2>1, <2>2, <2>3, <2>4 DEF Edit
<1> QED BY <1>1, <1>2, <1>3 DEF Lex

LEMMA StepEnds ==
  ASSUME Ending, [Next]_vars
  PROVE  Ending' /\ (tok = "eof" => tok' = "eof")
<1>1. Lex \/ UNCHANGED lexVars
  BY Zenon DEF Next, Step, Halt, DoAdvance, DoExpect, DoConsume, DoWhen, DoWhile, DoCall, DoFail,
     DoReturn, Resynchronise, Skip, Crash, Analyse, TakeToken, LookUp, Operand, Operation,
     Statement, Declaration, Procedure, Module, EnterDeclScope, Evaluates, Declares, vars, lexVars
<1>2. CASE UNCHANGED lexVars
  BY <1>2 DEF Ending, lexVars
<1> QED BY <1>1, <1>2, LexEnds

LEMMA KindOfEnd == Kind("eof") # "identifier"
  BY TokensAssumption DEF Kind, Tokens

(* A name is looked up only where there is one.                             *)

LEMMA AskedGo ==
  ASSUME Coherence, calls # <<>>, NEW r, NEW locals, NEW scoped, Goes(r, locals, scoped),
         Searches(r) => Kind(tok') = "identifier"
  PROVE  Asked(calls', tok')
<1>1. IsSeq(calls)
  BY TopFacts
<1>2. PICK g : Replaced(calls, g, calls') /\ g.rest = r
  BY DEF Goes
<1>3. Len(calls') = Len(calls) /\ calls'[Len(calls)] = g
  BY <1>2 DEF Replaced
<1>4. calls'[Len(calls')].rest = r
  BY <1>2, <1>3
<1> QED BY <1>4 DEF Asked

LEMMA StepAsked ==
  ASSUME TypesHold, Asked(calls, tok), [Next]_vars
  PROVE  Asked(calls', tok')
<1>0. Coherence
  BY DEF TypesHold
<1>1. ASSUME NEW op, NEW locals, Advances(op, locals) PROVE Asked(calls', tok')
  <2>1. calls # <<>> /\ Top.rest # <<>> /\ Top.rest[1].op = op
    BY <1>1 DEF Advances, Doing
  <2>2. ASSUME Searches(Tail(Top.rest)) PROVE Kind(tok') = "identifier"
    <3>1. WellFormed(Top, decls)
      BY <1>0, <2>1, TopFacts
    <3>2. Top.rest[1] = Expect("identifier")
      BY <2>1, <2>2, <3>1, SearchesNext
    <3>3. op = "expect" /\ Top.rest[1].kind = "identifier"
      BY <2>1, <3>2 DEF Expect
    <3> QED BY <1>1, <3>3 DEF Advances, Is
  <2>3. Goes(Tail(Top.rest), locals, Top.scoped)
    BY <1>1 DEF Advances
  <2> QED BY <1>0, <2>1, <2>2, <2>3, AskedGo
<1>2. CASE Entering
  <2>1. calls # <<>> /\ Top.rest # <<>> /\ Top.rest[1].op = "enterScope"
    BY <1>2 DEF Entering, Doing
  <2>2. WellFormed(Top, decls)
    BY <1>0, <2>1, TopFacts
  <2>3. Tail(Top.rest) \in Seq(Own)
    BY <2>1, <2>2, NextOperation DEF Enters
  <2>4. ~Searches(Tail(Top.rest))
    BY <2>3, InnerNeither
  <2>5. Goes(Tail(Top.rest), v, TRUE)
    BY <1>2 DEF Entering
  <2> QED BY <1>0, <2>1, <2>4, <2>5, AskedGo
<1>3. CASE Recovers
  <2>1. calls # <<>>
    BY <1>3 DEF Recovers, Doing
  <2>2. ~Searches(<<Handler>>)
    BY HandlerRest, InnerNeither
  <2>3. Goes(<<Handler>>, v, Top.scoped)
    BY <1>3 DEF Recovers
  <2> QED BY <1>0, <2>1, <2>2, <2>3, AskedGo
<1>4. ASSUME NEW r, Branches(r) PROVE Asked(calls', tok')
  <2>1. /\ r \in Seq(Inner) \/ r \in Seq(Own)
        /\ calls # <<>>
    BY <1>0, <1>4, BranchParts
  <2>2. ~Searches(r)
    BY <2>1, InnerNeither
  <2>3. Goes(r, v, Top.scoped)
    BY <1>4 DEF Branches
  <2> QED BY <1>0, <2>1, <2>2, <2>3, AskedGo
<1>5. CASE CallsOn
  <2>0. Doing("call") /\ calls # <<>>
    BY <1>5 DEF CallsOn, Doing
  <2>1. PICK g, h : /\ Pushed(calls, g, h, calls')
                    /\ h.fn = Top.rest[1].fn /\ h.rest = Rules[h.fn].body
    BY <1>5 DEF CallsOn
  <2>2. h.fn \in DOMAIN Rules
    BY <1>0, <2>0, <2>1, PartsOf
  <2>3. ~Searches(h.rest)
    <3>1. CASE h.rest \in Guarded
      BY <3>1, Paths, InnerNeither
    <3>2. CASE Begins(h.rest) \/ Asks(h.rest)
      BY <3>2 DEF Begins, Asks, Expect, Searches
    <3> QED BY <2>1, <2>2, <3>1, <3>2, GuardedBodies
  <2>4. calls'[Len(calls')] = h
    BY <2>1 DEF Pushed
  <2> QED BY <2>3, <2>4 DEF Asked
<1>6. ASSUME NEW failed, Leaves(failed) PROVE Asked(calls', tok')
  <2>1. PICK g : /\ Popped(calls, g, calls')
                 /\ Len(calls) > 1 => Returned(calls[Len(calls) - 1], failed, g)
    BY <1>6 DEF Leaves
  <2>2. calls # <<>>
    BY <1>6 DEF Leaves
  <2>3. IsSeq(calls)
    BY <1>0, <2>2, TopFacts
  <2>4. SUFFICES ASSUME calls' # <<>> PROVE ~Searches(calls'[Len(calls')].rest)
    BY DEF Asked
  <2>5. /\ Len(calls) > 1 /\ Len(calls) - 1 \in DOMAIN calls /\ Len(calls') = Len(calls) - 1
        /\ calls'[Len(calls) - 1] = g /\ Len(calls) \in Nat
    BY <2>1, <2>2, <2>3, <2>4, PoppedAt
  <2>6. PICK b : b = calls[Len(calls) - 1]
    OBVIOUS
  <2>7. WellFormed(b, decls) /\ Waits(b)
    <3>1. Len(calls) - 1 < Len(calls)
      BY <2>5
    <3> QED BY <1>0, <2>5, <2>6, <3>1 DEF Coherence, Coherent, Active
  <2>8. b.rest \in Seq(Inner) \/ b.rest \in Seq(Own)
    BY <2>7 DEF Waits, WellFormed
  <2>9. g.rest = <<Handler>> \/ g.rest = b.rest
    BY <2>1, <2>5, <2>6 DEF Returned
  <2>10. ~Searches(g.rest)
    BY <2>8, <2>9, HandlerRest, InnerNeither
  <2> QED BY <2>5, <2>10
<1>7. CASE Idles
  <2>1. Doing("handler") => calls # <<>> /\ ~Searches(calls[Len(calls)].rest)
    BY DEF Doing, Searches, Top
  <2> QED BY <1>7, <2>1 DEF Idles, Asked
<1> QED BY <1>1, <1>2, <1>3, <1>4, <1>5, <1>6, <1>7, StepMoves

(* What a step declares.                                                    *)

\* What is declared anew has no type that is not set, but a procedure.
New(x) ==
  /\ x.expr \in {NoExpr, v.E} /\ x.fields \in {<<>>, v.Fields}
  /\ x.kind = "Proc" => x.type = Unset
  /\ x.type = Unset => Doing("newProcedure")
Additions(ds) ==
  /\ IsSeq(ds) /\ decls' = decls \o ds /\ \A i \in DOMAIN ds : New(ds[i])
  /\ Doing("newProcedure") => DOMAIN ds = {1}
Adding == decls' = decls \/ \E ds : Additions(ds)
Headings ==
  /\ Doing("heading") /\ actOnProcedureHeading(v.D, v.Params, v.Ret)
  /\ v.D \in DOMAIN decls /\ v.Ret \in DOMAIN decls \cup {Null}

LEMMA AddsOne == ASSUME NEW x, New(x), decls' = decls \o <<x>> PROVE Adding
<1>1. IsSeq(<<x>>) /\ DOMAIN <<x>> = {1} /\ <<x>>[1] = x
  BY One
<1>2. Additions(<<x>>)
  BY <1>1 DEF Additions
<1> QED BY <1>2 DEF Adding

LEMMA AddsMany ==
  ASSUME NEW ds, IsSeq(ds), \A i \in DOMAIN ds : New(ds[i]), NEW D, DeclareTyped(ds, D),
         ~Doing("newProcedure")
  PROVE  Adding
<1>1. decls' = decls \/ decls' = decls \o ds
  BY DEF DeclareTyped, insert
<1>2. decls' = decls \o ds => Additions(ds)
  BY DEF Additions
<1> QED BY <1>1, <1>2 DEF Adding

LEMMA DeclNumbers ==
  ASSUME TypesHold
  PROVE  Len(decls) \in Nat /\ DOMAIN decls = 1..Len(decls) /\ Unset \notin DOMAIN decls \cup {Null}
<1>1. DOMAIN decls = 1..Len(decls) /\ Len(decls) \in Nat
  BY SeqFacts DEF TypesHold, Coherence, Coherent, Declared
<1> QED BY <1>1 DEF Unset, Null

LEMMA DeclarationAdds == ASSUME TypesHold, calls # <<>>, ~NullUse, Declaration PROVE Adding
<1>1. /\ IsSeq(v.Ids) /\ v.D \in DOMAIN decls \cup {Null}
      /\ Unset \notin DOMAIN decls \cup {Null}
  BY VFacts, TopTyped, DeclNumbers DEF TypedLocals, TypesHold
<1>2. PICK D : D = v.D /\ D # Unset
  BY <1>1
<1>3. CASE Declares("constant", v, actOnConstantDeclaration(v.Name, v.E))
  <2>1. PICK x : x = [Decl("Const", v.Name, current) EXCEPT !.expr = v.E]
    OBVIOUS
  <2>2. x.kind = "Const" /\ x.expr = v.E /\ x.fields = <<>> /\ x.type = Null
    BY <2>1 DEF Decl
  <2>3. New(x)
    BY <1>1, <2>2 DEF New
  <2>4. decls' = decls \o <<x>>
    BY <1>3, <2>1 DEF Declares, actOnConstantDeclaration, insert
  <2> QED BY <2>3, <2>4, AddsOne
<1>4. ASSUME NEW kind \in {"Alias", "Pointer"}, NEW op \in {"alias", "pointer"},
             Declares(op, v, actOnTypeDeclaration(kind, v.Name, v.D))
      PROVE  Adding
  <2>1. PICK x : x = [Decl(kind, v.Name, current) EXCEPT !.type = D]
    OBVIOUS
  <2>2. x.kind = kind /\ x.expr = NoExpr /\ x.fields = <<>> /\ x.type = D
    BY <2>1 DEF Decl
  <2>3. New(x)
    BY <1>2, <2>2 DEF New
  <2>4. decls' = decls \/ decls' = decls \o <<x>>
    BY <1>2, <1>4, <2>1 DEF Declares, actOnTypeDeclaration, DeclareTyped, insert
  <2> QED BY <2>3, <2>4, AddsOne DEF Adding
<1>5. CASE Declares("record", v, actOnRecordTypeDeclaration(v.Name, v.Fields))
  <2>1. PICK x : x = [Decl("Record", v.Name, current) EXCEPT !.fields = v.Fields]
    OBVIOUS
  <2>2. x.kind = "Record" /\ x.expr = NoExpr /\ x.fields = v.Fields /\ x.type = Null
    BY <2>1 DEF Decl
  <2>3. New(x)
    BY <1>1, <2>2 DEF New
  <2>4. decls' = decls \/ decls' = decls \o <<x>>
    BY <1>5, <2>1 DEF Declares, actOnRecordTypeDeclaration, insert
  <2> QED BY <2>3, <2>4, AddsOne DEF Adding
<1>6. CASE Declares("variable", v, actOnVariableDeclaration(v.Ids, v.D))
  <2>1. PICK ds : ds = Variables(v.Ids, v.D)
    OBVIOUS
  <2>2. IsSeq(ds)
    BY <1>1, <2>1, VariablesFresh DEF Fresh
  <2>3. \A i \in DOMAIN ds : ds[i].kind = "Var" /\ ds[i].type = D /\ ds[i].expr = NoExpr /\ ds[i].fields = <<>>
    BY <1>2, <2>1 DEF Variables, Decl
  <2>4. \A i \in DOMAIN ds : New(ds[i])
    BY <1>2, <2>3 DEF New
  <2>5. DeclareTyped(ds, v.D) /\ ~Doing("newProcedure")
    BY <1>6, <2>1, OneDoing DEF Declares, actOnVariableDeclaration
  <2> QED BY <2>2, <2>4, <2>5, AddsMany
<1>7. CASE Evaluates("field", [v EXCEPT !.Fields = @ \o FieldsOf(v.Ids, v.D)],
                     ~IsType(v.D) /\ v.Ids # <<>>)
  BY <1>7, Zenon DEF Evaluates, Adding
<1> QED BY <1>3, <1>4, <1>5, <1>6, <1>7, Zenon DEF Declaration

LEMMA ProcedureAdds == ASSUME TypesHold, calls # <<>>, ~NullUse, Procedure PROVE Adding \/ Headings
<1>1. /\ IsSeq(v.Ids) /\ v.D \in DOMAIN decls \cup {Null} /\ v.Ret \in DOMAIN decls \cup {Null}
      /\ Unset \notin DOMAIN decls \cup {Null}
  BY VFacts, TopTyped, DeclNumbers DEF TypedLocals, TypesHold
<1>2. PICK D : D = v.D /\ D # Unset
  BY <1>1
<1>3. CASE Declares("newProcedure", [v EXCEPT !.D = Len(decls) + 1], actOnProcedureDeclaration(tok))
  <2>1. PICK x : x = [Decl("Proc", tok, current) EXCEPT !.type = Unset]
    OBVIOUS
  <2>2. x.kind = "Proc" /\ x.expr = NoExpr /\ x.fields = <<>> /\ x.type = Unset
    BY <2>1 DEF Decl
  <2>3. Doing("newProcedure") /\ decls' = decls \o <<x>>
    BY <1>3, <2>1 DEF Declares, actOnProcedureDeclaration, insert
  <2>4. New(x)
    BY <2>2, <2>3 DEF New
  <2> QED BY <2>3, <2>4, AddsOne
<1>4. CASE Declares("parameter",
                    [v EXCEPT !.Params = @ \o (IF IsType(v.D)
                                                 THEN InsertedDecls(Parameters(v.Ids, v.D, v.IsVar))
                                                 ELSE <<>>)],
                    actOnFormalParameterDeclaration(v.Ids, v.D, v.IsVar))
  <2>1. PICK ds : ds = Parameters(v.Ids, v.D, v.IsVar)
    OBVIOUS
  <2>2. IsSeq(ds)
    BY <1>1, <2>1, ParametersFresh DEF Fresh
  <2>3. \A i \in DOMAIN ds : ds[i].kind = "Param" /\ ds[i].type = D /\ ds[i].expr = NoExpr /\ ds[i].fields = <<>>
    BY <1>2, <2>1 DEF Parameters, Decl
  <2>4. \A i \in DOMAIN ds : New(ds[i])
    BY <1>2, <2>3 DEF New
  <2>5. Doing("parameter") /\ actOnFormalParameterDeclaration(v.Ids, v.D, v.IsVar)
    BY <1>4, Zenon DEF Declares
  <2>6. DeclareTyped(ds, v.D) /\ ~Doing("newProcedure")
    BY <2>1, <2>5, OneDoing DEF actOnFormalParameterDeclaration
  <2> QED BY <2>2, <2>4, <2>6, AddsMany
<1>5. CASE Declares("heading", v, actOnProcedureHeading(v.D, v.Params, v.Ret) /\ UNCHANGED scopes)
  <2>1. Doing("heading") /\ actOnProcedureHeading(v.D, v.Params, v.Ret)
    BY <1>5, Zenon DEF Declares
  <2>2. v.D \in DOMAIN decls
    BY <2>1, HeadingOwner DEF Owners
  <2> QED BY <1>1, <2>1, <2>2 DEF Headings
<1>6. CASE Evaluates("endProcedure", v, tok # decls[v.D].name)
  BY <1>6, Zenon DEF Evaluates, Adding
<1> QED BY <1>3, <1>4, <1>5, <1>6, Zenon DEF Procedure

LEMMA ModuleAdds == ASSUME TypesHold, calls # <<>>, Module PROVE Adding
<1>1. Unset \notin DOMAIN decls \cup {Null}
  BY DeclNumbers
<1>2. CASE Declares("newModule", [v EXCEPT !.D = Len(decls) + 1],
                    decls' = Append(decls, Decl("Module", tok, current))
                    /\ UNCHANGED <<scopes, errors>>)
  <2>1. PICK x : x = Decl("Module", tok, current)
    OBVIOUS
  <2>2. x.kind = "Module" /\ x.expr = NoExpr /\ x.fields = <<>> /\ x.type = Null
    BY <2>1 DEF Decl
  <2>3. decls' = Append(decls, x)
    BY <1>2, <2>1 DEF Declares
  <2>4. decls' = decls \o <<x>>
    <3>1. PICK S : decls \in Seq(S)
      BY DEF TypesHold, Coherence, Coherent, Declared, IsSeq
    <3>2. decls \in Seq(S \cup {x}) /\ x \in S \cup {x}
      BY <3>1, SeqMonotonic
    <3>3. Append(decls, x) = decls \o <<x>>
      BY <3>2, AppendIsConcat
    <3> QED BY <2>3, <3>3
  <2>5. New(x)
    BY <1>1, <2>2 DEF New
  <2> QED BY <2>4, <2>5, AddsOne
<1>3. ASSUME NEW op, NEW b, Evaluates(op, v, b) PROVE Adding
  BY <1>3, Zenon DEF Evaluates, Adding
<1> QED BY <1>2, <1>3, Zenon DEF Module

LEMMA StepAdds == ASSUME TypesHold, [Next]_vars PROVE Adding \/ Headings
<1>1. CASE decls' = decls
  BY <1>1 DEF Adding
<1>2. ASSUME NEW op, NEW locals, NEW b, Evaluates(op, locals, b) PROVE decls' = decls
  BY <1>2, Zenon DEF Evaluates
<1>3. CASE TakeToken \/ LookUp \/ Operand \/ Operation \/ Statement
  <2>1. decls' = decls
    BY <1>2, <1>3, Zenon DEF TakeToken, LookUp, Operand, Operation, Statement
  <2> QED BY <1>1, <2>1
<1>4. CASE ~NullUse /\ (Declaration \/ Procedure \/ Module)
  <2>1. calls # <<>>
    <3>1. ASSUME NEW op, Doing(op) PROVE calls # <<>>
      BY <3>1 DEF Doing
    <3> QED BY <1>4, <3>1, Zenon DEF Declaration, Procedure, Module, Evaluates, Declares
  <2> QED BY <1>4, <2>1, DeclarationAdds, ProcedureAdds, ModuleAdds
<1>5. CASE EnterDeclScope \/ DoExpect \/ DoAdvance \/ DoConsume \/ DoWhen \/ DoWhile \/ DoCall
           \/ DoFail \/ DoReturn \/ Resynchronise \/ Skip \/ Crash \/ UNCHANGED vars
  <2>1. decls' = decls
    BY <1>5 DEF EnterDeclScope, DoExpect, DoAdvance, DoConsume, DoWhen, DoWhile, DoCall, DoFail,
       DoReturn, Resynchronise, Skip, Crash, Leave, semaVars, vars
  <2> QED BY <1>1, <2>1
<1> QED BY <1>3, <1>4, <1>5, Zenon DEF Next, Step, Halt, Analyse

LEMMA Joint ==
  ASSUME NEW d, IsSeq(d), NEW ds, IsSeq(ds)
  PROVE  /\ IsSeq(d \o ds) /\ DOMAIN d \subseteq DOMAIN (d \o ds)
         /\ \A i \in DOMAIN d : (d \o ds)[i] = d[i]
         /\ \A i \in DOMAIN (d \o ds) :
              i \notin DOMAIN d => i - Len(d) \in DOMAIN ds /\ (d \o ds)[i] = ds[i - Len(d)]
<1>1. PICK S : d \in Seq(S)
  BY DEF IsSeq
<1>2. PICK T : ds \in Seq(T)
  BY DEF IsSeq
<1>3. d \in Seq(S \cup T) /\ ds \in Seq(S \cup T)
  BY <1>1, <1>2, SeqMonotonic
<1>4. PICK d2 : d2 = d \o ds
  OBVIOUS
<1>5. /\ d2 \in Seq(S \cup T) /\ Len(d2) = Len(d) + Len(ds)
      /\ \A i \in 1..Len(d2) : d2[i] = IF i <= Len(d) THEN d[i] ELSE ds[i - Len(d)]
  BY <1>3, <1>4, ConcatProperties
<1>6. PICK m \in Nat, n \in Nat : m = Len(d) /\ n = Len(ds)
  BY <1>3, LenProperties
<1>7. DOMAIN d2 = 1..(m + n) /\ DOMAIN d = 1..m /\ DOMAIN ds = 1..n
  BY <1>3, <1>5, <1>6, LenProperties
<1>8. \A i \in 1..m : i \in 1..(m + n) /\ d2[i] = d[i]
  BY <1>5, <1>6, <1>7
<1>9. ASSUME NEW j \in 1..(m + n), j \notin 1..m
      PROVE  j - m \in 1..n /\ d2[j] = ds[j - m]
  <2>1. j - m \in 1..n /\ ~(j <= m)
    BY <1>9
  <2> QED BY <1>5, <1>6, <1>7, <2>1
<1>10. IsSeq(d2)
  BY <1>5 DEF IsSeq
<1> QED BY <1>4, <1>6, <1>7, <1>8, <1>9, <1>10

LEMMA StepDetermines ==
  ASSUME TypesHold, [Next]_vars
  PROVE  \A i \in DOMAIN decls' :
           \/ i \in Determined(decls')
           \/ i \in DOMAIN decls /\ i \notin Determined(decls)
           \/ Doing("newProcedure") /\ i = Len(decls) + 1
<1>1. SUFFICES ASSUME NEW i \in DOMAIN decls', i \notin DOMAIN decls
               PROVE  \/ i \in Determined(decls')
                      \/ Doing("newProcedure") /\ i = Len(decls) + 1
  BY TypesStay
<1>2. IsSeq(decls) /\ \A x \in DOMAIN decls : DOMAIN decls[x] = DeclFields
  BY DEF TypesHold, Coherence, Coherent, Declared
<1>3. CASE Headings
  <2>1. DOMAIN decls' = DOMAIN decls
    BY <1>3 DEF Headings, actOnProcedureHeading
  <2> QED BY <1>1, <2>1
<1>4. CASE Adding
  <2>1. PICK ds : Additions(ds)
    BY <1>1, <1>4 DEF Adding
  <2>2. PICK n : n = Len(decls) /\ n \in Nat
    BY DeclNumbers
  <2>2a. PICK j : j = i - n
    OBVIOUS
  <2>3. j \in DOMAIN ds /\ decls'[i] = ds[j] /\ New(ds[j])
    BY <1>1, <1>2, <2>1, <2>2, <2>2a, Joint DEF Additions
  <2>3a. i \in Int
    <3>1. IsSeq(decls')
      BY <1>2, <2>1, Joint DEF Additions
    <3> QED BY <3>1, SeqFacts
  <2>4. CASE ~Doing("newProcedure")
    BY <2>3, <2>4 DEF New, Determined
  <2>5. CASE Doing("newProcedure")
    <3>1. j = 1
      BY <2>1, <2>3, <2>5 DEF Additions
    <3>2. i = n + 1
      BY <2>2, <2>2a, <2>3a, <3>1
    <3> QED BY <2>2, <2>5, <3>2
  <2> QED BY <2>4, <2>5
<1> QED BY <1>3, <1>4, StepAdds

\* If every procedure had a type, only a new one has none.
LEMMA AllDetermined ==
  ASSUME TypesHold, [Next]_vars, Determined(decls) = DOMAIN decls, ~Doing("newProcedure")
  PROVE  Determined(decls') = DOMAIN decls'
  BY StepDetermines DEF Determined

LEMMA KnowsLater ==
  ASSUME NEW d, NEW d2, Determined(d) \subseteq Determined(d2), NEW f, Knows(f, d)
  PROVE  Knows(f, d2)
  BY DEF Knows

\* The calls know as much as they did, but for the ones that have changed.
LEMMA KnowsReplaced ==
  ASSUME NEW c, IsSeq(c), c # <<>>, NEW d, NEW d2, \A k \in DOMAIN c : k < Len(c) => Knows(c[k], d),
         Determined(d) \subseteq Determined(d2),
         NEW g, NEW c2, Replaced(c, g, c2), Knows(g, d2)
  PROVE  \A k \in DOMAIN c2 : Knows(c2[k], d2)
<1>1. /\ DOMAIN c2 = DOMAIN c /\ c2[Len(c)] = g
      /\ \A k \in DOMAIN c2 : k # Len(c) => k < Len(c) /\ c2[k] = c[k]
  BY ReplacedAt
<1>2. \A k \in DOMAIN c : k < Len(c) => Knows(c[k], d2)
  BY KnowsLater
<1> QED BY <1>1, <1>2

LEMMA KnowsPushed ==
  ASSUME NEW c, IsSeq(c), c # <<>>, NEW d, \A k \in DOMAIN c : k < Len(c) => Knows(c[k], d),
         NEW g, NEW h, NEW c2, Pushed(c, g, h, c2), Knows(g, d), Knows(h, d)
  PROVE  \A k \in DOMAIN c2 : Knows(c2[k], d)
<1>1. c2[Len(c)] = g /\ c2[Len(c) + 1] = h
  BY DEF Pushed
<1>2. \A k \in DOMAIN c2 :
        k = Len(c) \/ k = Len(c) + 1 \/ (k < Len(c) /\ k \in DOMAIN c /\ c2[k] = c[k])
  BY PushedAt
<1> QED BY <1>1, <1>2

LEMMA KnowsPopped ==
  ASSUME NEW c, IsSeq(c), c # <<>>, NEW d, \A k \in DOMAIN c : k < Len(c) - 1 => Knows(c[k], d),
         NEW g, NEW c2, Popped(c, g, c2), Len(c) > 1 => Knows(g, d)
  PROVE  \A k \in DOMAIN c2 : Knows(c2[k], d)
<1>1. /\ Len(c) \in Nat
      /\ \A k \in DOMAIN c2 : k < Len(c) /\ k \in DOMAIN c /\ Len(c) > 1
      /\ \A k \in DOMAIN c2 : IF k = Len(c) - 1 THEN c2[k] = g ELSE c2[k] = c[k]
      /\ DOMAIN c = 1..Len(c)
  BY PoppedAt
<1>2. SUFFICES ASSUME NEW k \in DOMAIN c2 PROVE Knows(c2[k], d)
  OBVIOUS
<1>3. CASE k = Len(c) - 1
  BY <1>1, <1>3
<1>4. CASE k # Len(c) - 1
  <2>1. k \in DOMAIN c /\ k < Len(c) - 1 /\ c2[k] = c[k]
    BY <1>1, <1>4
  <2> QED BY <2>1
<1> QED BY <1>3, <1>4

(* No procedure without a type can be named.                                *)

Grounded == TypesHold /\ Shapes(calls) /\ Asked(calls, tok) /\ Ending

LEMMA GroundedTop ==
  ASSUME Grounded, calls # <<>>
  PROVE  /\ Shaped(Top) /\ WellFormed(Top, decls) /\ IsSeq(calls) /\ Len(calls) \in DOMAIN calls
         /\ Top = calls[Len(calls)] /\ v = Top.locals /\ Len(calls) \in Nat
         /\ TypedLocals(v, decls) /\ Coherence
  BY TopFacts, TopTyped DEF Grounded, Shapes, TypesHold

\* A call that goes on with its declaration knows it, if it did not wait to enter a scope.
LEMMA KnowsOn ==
  ASSUME NEW f, NEW d, Knows(f, d), ~Enters(f.rest), NEW d2, Determined(d) \subseteq Determined(d2),
         NEW g, g.locals.D = f.locals.D, g.scoped = f.scoped, g.out = f.out
  PROVE  Knows(g, d2)
  BY DEF Knows

LEMMA EntersOne == ASSUME NEW op, Doing(op), op # "enterScope" PROVE ~Enters(Top.rest)
  BY DEF Doing, Enters

LEMMA KnowsAdvance ==
  ASSUME Grounded, NEW op, NEW locals, Advances(op, locals), Knows(Top, decls),
         Determined(decls) = DOMAIN decls \/ tok = "eof",
         Determined(decls) \subseteq Determined(decls'),
         NEW g, g.rest = Tail(Top.rest), g.locals = locals, g.scoped = Top.scoped, g.out = Top.out
  PROVE  Knows(g, decls')
<1>1. /\ calls # <<>> /\ Top.rest # <<>> /\ Top.rest[1].op = op /\ op \in Actions /\ Doing(op)
      /\ op \in {"newModule", "newProcedure"} => locals.D = Len(decls) + 1
      /\ op = "lookup" => locals.D = lookup(tok)
      /\ op \notin {"newModule", "newProcedure", "lookup"} => locals.D = v.D
  BY DEF Advances, Doing
<1>2. WellFormed(Top, decls) /\ v = Top.locals /\ Coherence
  BY <1>1, GroundedTop
<1>3. CASE op \in {"newModule", "newProcedure"}
  <2>1. Enters(Tail(Top.rest))
    BY <1>1, <1>2, <1>3, NextOperation
  <2> QED BY <2>1 DEF Knows
<1>4. CASE op = "lookup"
  <2>1. tok # "eof"
    <3>1. Searches(calls[Len(calls)].rest)
      BY <1>1, <1>4 DEF Searches, Top
    <3>2. Kind(tok) = "identifier"
      BY <1>1, <3>1 DEF Grounded, Asked
    <3> QED BY <3>2, KindOfEnd
  <2>2. locals.D \in DOMAIN decls \cup {Null}
    BY <1>1, <1>2, <1>4, LookupDeclared
  <2>3. g.locals.D \in Determined(decls') \cup {Null}
    BY <2>1, <2>2
  <2> QED BY <2>3 DEF Knows
<1>5. CASE op \notin {"newModule", "newProcedure", "lookup"}
  <2>1. op # "enterScope"
    BY <1>1 DEF Actions
  <2>2. ~Enters(Top.rest)
    BY <1>1, <2>1, EntersOne
  <2>3. g.locals.D = Top.locals.D
    BY <1>1, <1>2, <1>5
  <2> QED BY <2>2, <2>3, KnowsOn
<1> QED BY <1>3, <1>4, <1>5

LEMMA CalmAdvances ==
  ASSUME Grounded, [Next]_vars, NEW op, NEW locals, Advances(op, locals), Calm(calls, decls, tok)
  PROVE  Calm(calls', decls', tok') \/ Heading(calls', decls', Len(calls))
<1>1. calls # <<>> /\ Top.rest # <<>> /\ Top.rest[1].op = op /\ Doing(op)
  BY DEF Advances, Doing
<1>2. /\ Shaped(Top) /\ WellFormed(Top, decls) /\ IsSeq(calls) /\ Len(calls) \in DOMAIN calls
      /\ Top = calls[Len(calls)]
  BY <1>1, GroundedTop
<1>3. Determined(decls) \subseteq Determined(decls') /\ (tok = "eof" => tok' = "eof") /\ TypesHold
  BY TypesStay, StepEnds DEF Grounded
<1>4. /\ Determined(decls) = DOMAIN decls \/ tok = "eof"
      /\ \A k \in DOMAIN calls : Knows(calls[k], decls)
  BY DEF Calm
<1>5. PICK g : /\ Replaced(calls, g, calls') /\ g.out = Top.out
               /\ g.rest = Tail(Top.rest) /\ g.locals = locals /\ g.scoped = Top.scoped
  BY DEF Advances, Goes
<1>6. Knows(g, decls')
  BY <1>2, <1>3, <1>4, <1>5, KnowsAdvance
<1>7. \A k \in DOMAIN calls' : Knows(calls'[k], decls')
  BY <1>1, <1>2, <1>3, <1>4, <1>5, <1>6, KnowsReplaced
<1>8. CASE tok = "eof" \/ op # "newProcedure"
  <2>1. op # "newProcedure" => ~Doing("newProcedure")
    BY <1>1, OneDoing
  <2>2. Determined(decls') = DOMAIN decls' \/ tok' = "eof"
    BY <1>3, <1>4, <1>8, <2>1, AllDetermined
  <2> QED BY <1>7, <2>2 DEF Calm
<1>9. CASE tok # "eof" /\ op = "newProcedure"
  <2>1. ~Top.scoped /\ Enters(Tail(Top.rest))
    BY <1>1, <1>2, <1>9, NextOperation
  <2>2. Creates(Top.rest)
    BY <1>1, <1>9, <2>1 DEF Creates
  <2>3. OnWay(Tail(Top.rest))
    BY <1>1, <1>2, <1>9, <2>1, <2>2, StartingBodies DEF Shaped
  <2>4. /\ DOMAIN calls' = DOMAIN calls /\ calls'[Len(calls)] = g
        /\ \A k \in DOMAIN calls' : k # Len(calls) => k < Len(calls) /\ calls'[k] = calls[k]
        /\ DOMAIN calls = 1..Len(calls) /\ Len(calls) \in Nat
    BY <1>1, <1>2, <1>5, ReplacedAt
  <2>5. \A i \in DOMAIN decls' : i \in Determined(decls') \/ i = g.locals.D
    BY <1>3, <1>4, <1>5, <1>9, StepDetermines DEF Advances
  <2>6. \A j \in DOMAIN calls' : ~(j > Len(calls))
    BY <2>4
  <2> QED BY <1>5, <1>7, <2>1, <2>3, <2>4, <2>5, <2>6 DEF Heading
<1> QED BY <1>8, <1>9

\* The innermost call goes on with what it knew.
LEMMA CalmGoes ==
  ASSUME Grounded, Calm(calls, decls, tok), calls # <<>>, ~Enters(Top.rest),
         NEW r, Goes(r, v, Top.scoped), decls' = decls, tok' = tok
  PROVE  Calm(calls', decls', tok')
<1>1. PICK g : /\ Replaced(calls, g, calls') /\ g.out = Top.out
               /\ g.rest = r /\ g.locals = v /\ g.scoped = Top.scoped
  BY DEF Goes
<1>2. IsSeq(calls) /\ v = Top.locals /\ Knows(Top, decls) /\ \A k \in DOMAIN calls : Knows(calls[k], decls)
  BY GroundedTop DEF Calm
<1>3. Knows(g, decls)
  BY <1>1, <1>2, KnowsOn
<1>4. \A k \in DOMAIN calls' : Knows(calls'[k], decls)
  BY <1>1, <1>2, <1>3, KnowsReplaced
<1> QED BY <1>4 DEF Calm

LEMMA CalmEntering ==
  ASSUME Grounded, Calm(calls, decls, tok), Entering
  PROVE  Calm(calls', decls', tok')
<1>0. calls # <<>> /\ decls' = decls /\ tok' = tok
  BY DEF Entering, Doing
<1>1. PICK g : Replaced(calls, g, calls') /\ g.scoped = TRUE
  BY DEF Entering, Goes
<1>2. IsSeq(calls) /\ \A k \in DOMAIN calls : Knows(calls[k], decls)
  BY <1>0, GroundedTop DEF Calm
<1>3. Knows(g, decls)
  BY <1>1 DEF Knows
<1>4. \A k \in DOMAIN calls' : Knows(calls'[k], decls)
  BY <1>0, <1>1, <1>2, <1>3, KnowsReplaced
<1> QED BY <1>0, <1>4 DEF Calm

\* Reference parameters whose D is the declaration of the caller, or its return type.
LEMMA OutForms ==
  ASSUME NEW out \in Outs, "D" \in DOMAIN out
  PROVE  out = [D |-> "D"] \/ out = [D |-> "Ret"]
  BY DEF Outs, OwnOuts, None

LEMMA CalmCallsOn ==
  ASSUME Grounded, Calm(calls, decls, tok), CallsOn
  PROVE  Calm(calls', decls', tok')
<1>0. /\ Doing("call") /\ calls # <<>> /\ Top.rest # <<>> /\ Top.rest[1].op = "call"
      /\ decls' = decls /\ tok' = tok
  BY DEF CallsOn, Doing
<1>1. PICK g, h :
       /\ Pushed(calls, g, h, calls')
       /\ g.out = Top.out /\ g.rest = Tail(Top.rest)
       /\ g.locals = v /\ g.scoped = Top.scoped
       /\ h.out = Top.rest[1].out
       /\ h.locals = Passed(h.out) /\ h.scoped = FALSE
  BY DEF CallsOn
<1>2. /\ IsSeq(calls) /\ v = Top.locals /\ Knows(Top, decls) /\ Coherence /\ Shaped(Top)
      /\ \A k \in DOMAIN calls : Knows(calls[k], decls)
  BY <1>0, GroundedTop DEF Calm
<1>3. ~Enters(Top.rest)
  BY <1>0, EntersOne
<1>4. Knows(g, decls)
  BY <1>1, <1>2, <1>3, KnowsOn
<1>5. h.out \in Outs /\ (Top.scoped => h.out \in OwnOuts)
  BY <1>0, <1>1, <1>2, PartsOf
<1>6. Knows(h, decls)
  <2>1. "D" \in DOMAIN Locals /\ Locals.D = Null
    BY DEF Locals
  <2>2. CASE "D" \notin DOMAIN h.out
    <3>1. h.locals.D = Null
      BY <1>1, <2>1, <2>2 DEF Passed
    <3> QED BY <3>1 DEF Knows
  <2>3. CASE h.out = [D |-> "Ret"]
    BY <2>3 DEF Knows
  <2>4. CASE h.out = [D |-> "D"]
    <3>1. h.locals.D = v.D
      BY <1>1, <2>1, <2>4 DEF Passed
    <3>2. ~Top.scoped
      <4>1. [D |-> "D"]["D"] = "D" /\ "D" \in DOMAIN [D |-> "D"]
        OBVIOUS
      <4> QED BY <1>5, <2>4, <4>1, OutD
    <3>3. Top.out # [D |-> "Ret"]
      <4>1. SUFFICES ASSUME "D" \in DOMAIN Top.out PROVE FALSE
        OBVIOUS
      <4>2. Top.rest \in Seq(Naming)
        BY <1>2, <4>1 DEF Shaped
      <4> QED BY <1>0, <4>2, NamingSound, HeadOf
    <3> QED BY <1>2, <1>3, <3>1, <3>2, <3>3 DEF Knows
  <2> QED BY <1>5, <2>2, <2>3, <2>4, OutForms
<1>7. \A k \in DOMAIN calls' : Knows(calls'[k], decls)
  BY <1>0, <1>1, <1>2, <1>4, <1>6, KnowsPushed
<1> QED BY <1>0, <1>7 DEF Calm

\* The declaration of a caller after the call.
LEMMA WrittenD ==
  ASSUME NEW out \in Outs, NEW inner, NEW outer, DOMAIN inner = DOMAIN Locals
  PROVE  \/ Written(out, inner, outer).D = outer.D
         \/ out = [D |-> "D"] /\ Written(out, inner, outer).D = inner.D
<1>1. "D" \in DOMAIN inner
  BY DEF Locals
<1>2. PICK R : R = {p \in DOMAIN out : out[p] = "D"}
  OBVIOUS
<1>3. Written(out, inner, outer).D = IF R = {} THEN outer.D ELSE inner[CHOOSE p \in R : TRUE]
  BY <1>1, <1>2 DEF Written
<1>4. CASE R # {}
  <2>1. \A p \in R : p = "D"
    BY <1>2, OutTyped
  <2>2. (CHOOSE p \in R : TRUE) = "D"
    BY <1>4, <2>1
  <2>3. "D" \in DOMAIN out /\ out["D"] = "D"
    BY <1>2, <1>4, <2>1
  <2>4. out = [D |-> "D"]
    <3>1. [D |-> "Ret"]["D"] = "Ret"
      OBVIOUS
    <3> QED BY <2>3, <3>1, OutForms
  <2> QED BY <1>3, <1>4, <2>2, <2>4
<1> QED BY <1>3, <1>4

\* The caller of a call that returns.
LEMMA CallerOf ==
  ASSUME Grounded, calls # <<>>, Len(calls) > 1
  PROVE  LET b == calls[Len(calls) - 1]
         IN  /\ Len(calls) - 1 \in DOMAIN calls /\ WellFormed(b, decls) /\ Shaped(b)
             /\ b.scoped \/ b.rest \in Seq(Inner)
             /\ b.scoped => Top.out \in OwnOuts
<1>1. /\ IsSeq(calls) /\ Top = calls[Len(calls)] /\ Len(calls) \in Nat /\ DOMAIN calls = 1..Len(calls)
      /\ Active(calls, decls, current)
  BY TopFacts DEF Grounded, TypesHold, Coherence, Coherent
<1>2. PICK m : m = Len(calls) - 1
  OBVIOUS
<1>2a. m \in DOMAIN calls /\ m < Len(calls) /\ m + 1 = Len(calls)
  BY <1>1, <1>2
<1>3. WellFormed(calls[m], decls) /\ Waits(calls[m]) /\ (calls[m].scoped => calls[m + 1].out \in OwnOuts)
  BY <1>1, <1>2a DEF Active
<1>4. Shaped(calls[m]) /\ (calls[m].scoped \/ calls[m].rest \in Seq(Inner))
  BY <1>2a, <1>3 DEF Grounded, Shapes, Waits
<1>5. calls[m].scoped => Top.out \in OwnOuts
  BY <1>1, <1>2a, <1>3
<1> QED BY <1>2, <1>2a, <1>3, <1>4, <1>5

LEMMA CalmLeaves ==
  ASSUME Grounded, Calm(calls, decls, tok), NEW failed \in BOOLEAN, Leaves(failed)
  PROVE  Calm(calls', decls', tok')
<1>0. /\ calls # <<>> /\ decls' = decls /\ (tok' = "eof" \/ tok' = tok)
      /\ Top.rest = <<>> \/ Doing("handler")
  BY DEF Leaves
<1>1. PICK g : /\ Popped(calls, g, calls')
               /\ Len(calls) > 1 => Returned(calls[Len(calls) - 1], failed, g)
  BY DEF Leaves
<1>2. /\ IsSeq(calls) /\ v = Top.locals /\ Knows(Top, decls) /\ Shaped(Top)
      /\ WellFormed(Top, decls)
      /\ \A k \in DOMAIN calls : Knows(calls[k], decls)
  BY <1>0, GroundedTop DEF Calm
<1>3. ASSUME Len(calls) > 1 PROVE Knows(g, decls)
  <2>1. PICK b : b = calls[Len(calls) - 1]
    OBVIOUS
  <2>2. /\ WellFormed(b, decls) /\ (b.scoped \/ b.rest \in Seq(Inner)) /\ Knows(b, decls)
    BY <1>0, <1>2, <1>3, <2>1, CallerOf
  <2>3. g.out = b.out /\ g.scoped = b.scoped /\ g.locals = Written(Top.out, v, b.locals)
    BY <1>1, <1>3, <2>1 DEF Returned
  <2>4. CASE b.scoped \/ b.out = [D |-> "Ret"]
    BY <2>3, <2>4 DEF Knows
  <2>5. CASE ~b.scoped /\ b.out # [D |-> "Ret"]
    <3>1. ~Enters(b.rest)
      BY <2>2, <2>5, InnerNeither
    <3>2. b.locals.D \in Determined(decls) \cup {Null}
      BY <2>2, <2>5, <3>1 DEF Knows
    <3>3. ASSUME Top.out = [D |-> "D"] PROVE v.D \in Determined(decls) \cup {Null}
      <4>1. "D" \in DOMAIN Top.out /\ Top.out["D"] = "D"
        BY <3>3
      <4>2. ~Top.scoped
        BY <1>2, <4>1 DEF Shaped
      <4>3. ~Enters(Top.rest)
        BY <1>0, EntersOne DEF Enters
      <4>4. Top.out # [D |-> "Ret"]
        BY <4>1
      <4> QED BY <1>2, <4>2, <4>3, <4>4 DEF Knows
    <3>4. g.locals.D \in Determined(decls) \cup {Null}
      BY <1>2, <2>3, <3>2, <3>3, WrittenD DEF WellFormed
    <3> QED BY <3>4 DEF Knows
  <2> QED BY <2>4, <2>5
<1>4. \A k \in DOMAIN calls' : Knows(calls'[k], decls)
  BY <1>0, <1>1, <1>2, <1>3, KnowsPopped
<1> QED BY <1>0, <1>4 DEF Calm

(* While a heading is read.                                                 *)

\* The procedures without a type are the ones there were.
Same(d, d2) ==
  /\ Determined(d) \subseteq Determined(d2)
  /\ \A i \in DOMAIN d2 : i \in Determined(d2) \/ (i \in DOMAIN d /\ i \notin Determined(d))

LEMMA SameItself == ASSUME NEW d PROVE Same(d, d)
  BY DEF Same

LEMMA SameHeld ==
  ASSUME NEW d, NEW d2, Same(d, d2), NEW x, \A i \in DOMAIN d : i \in Determined(d) \/ i = x
  PROVE  \A i \in DOMAIN d2 : i \in Determined(d2) \/ i = x
  BY DEF Same

\* The call that reads the heading.
Reads(f, d) ==
  /\ OnWay(f.rest) /\ (f.scoped \/ Enters(f.rest))
  /\ \A i \in DOMAIN d : i \in Determined(d) \/ i = f.locals.D

\* The calls it has made.
Below(f) == ~f.scoped /\ f.rest \in Seq(Formal)

LEMMA HeadingAs ==
  ASSUME NEW c, NEW d, NEW k \in DOMAIN c
  PROVE  Heading(c, d, k) <=>
           /\ Reads(c[k], d)
           /\ \A j \in DOMAIN c : (j > k => Below(c[j])) /\ (~(j > k) /\ j < k => Knows(c[j], d))
  BY DEF Heading, Reads, Below

LEMMA ReadsLater == ASSUME NEW d, NEW d2, Same(d, d2), NEW f, Reads(f, d) PROVE Reads(f, d2)
  BY SameHeld DEF Reads

LEMMA HeadingReplaced ==
  ASSUME NEW c, IsSeq(c), c # <<>>, NEW d, NEW k \in DOMAIN c, Heading(c, d, k),
         NEW d2, Same(d, d2), NEW g, NEW c2, Replaced(c, g, c2),
         k < Len(c) => Below(g), k = Len(c) => Reads(g, d2)
  PROVE  k \in DOMAIN c2 /\ Heading(c2, d2, k)
<1>1. /\ DOMAIN c2 = DOMAIN c /\ DOMAIN c = 1..Len(c) /\ Len(c) \in Nat /\ c2[Len(c)] = g
      /\ \A j \in DOMAIN c2 : j # Len(c) => j < Len(c) /\ c2[j] = c[j]
  BY ReplacedAt
<1>2. /\ Reads(c[k], d)
      /\ \A j \in DOMAIN c : (j > k => Below(c[j])) /\ (~(j > k) /\ j < k => Knows(c[j], d))
  BY HeadingAs
<1>3. Determined(d) \subseteq Determined(d2)
  BY DEF Same
<1>4. Reads(c2[k], d2)
  <2>1. CASE k = Len(c)
    BY <1>1, <2>1
  <2>2. CASE k # Len(c)
    BY <1>1, <1>2, <2>2, ReadsLater
  <2> QED BY <2>1, <2>2
<1>5. ASSUME NEW j \in DOMAIN c2
      PROVE  (j > k => Below(c2[j])) /\ (~(j > k) /\ j < k => Knows(c2[j], d2))
  <2>1. CASE j = Len(c)
    BY <1>1, <2>1
  <2>2. CASE j # Len(c)
    <3>1. c2[j] = c[j] /\ j \in DOMAIN c
      BY <1>1, <2>2
    <3>2. Knows(c[j], d) => Knows(c[j], d2)
      BY <1>3, KnowsLater
    <3> QED BY <1>2, <3>1, <3>2
  <2> QED BY <2>1, <2>2
<1>6. k \in DOMAIN c2
  BY <1>1
<1> QED BY <1>4, <1>5, <1>6, HeadingAs

LEMMA HeadingPushed ==
  ASSUME NEW c, IsSeq(c), c # <<>>, NEW d, NEW k \in DOMAIN c, Heading(c, d, k),
         NEW g, NEW h, NEW c2, Pushed(c, g, h, c2),
         k < Len(c) => Below(g), k = Len(c) => Reads(g, d), Below(h)
  PROVE  k \in DOMAIN c2 /\ Heading(c2, d, k)
<1>1. c2[Len(c)] = g /\ c2[Len(c) + 1] = h
  BY DEF Pushed
<1>2. /\ DOMAIN c = 1..Len(c) /\ Len(c) \in Nat /\ DOMAIN c2 = 1..Len(c) + 1
      /\ \A j \in DOMAIN c2 :
           j = Len(c) \/ j = Len(c) + 1 \/ (j < Len(c) /\ j \in DOMAIN c /\ c2[j] = c[j])
  BY PushedAt
<1>3. /\ Reads(c[k], d)
      /\ \A j \in DOMAIN c : (j > k => Below(c[j])) /\ (~(j > k) /\ j < k => Knows(c[j], d))
  BY HeadingAs
<1>4. k \in DOMAIN c2 /\ (k = Len(c) \/ k < Len(c)) /\ k # Len(c) + 1
  BY <1>2
<1>5. Reads(c2[k], d)
  BY <1>1, <1>2, <1>3, <1>4
<1>6. ASSUME NEW j \in DOMAIN c2
      PROVE  (j > k => Below(c2[j])) /\ (~(j > k) /\ j < k => Knows(c2[j], d))
  <2>1. CASE j = Len(c)
    BY <1>1, <1>2, <1>4, <2>1
  <2>2. CASE j = Len(c) + 1
    BY <1>1, <1>2, <1>4, <2>2
  <2>3. CASE j < Len(c) /\ j \in DOMAIN c /\ c2[j] = c[j]
    BY <1>3, <2>3
  <2> QED BY <1>2, <2>1, <2>2, <2>3
<1> QED BY <1>4, <1>5, <1>6, HeadingAs

LEMMA HeadingPopped ==
  ASSUME NEW c, IsSeq(c), c # <<>>, NEW d, NEW k \in DOMAIN c, Heading(c, d, k), k < Len(c),
         NEW g, NEW c2, Popped(c, g, c2),
         k < Len(c) - 1 => Below(g), k = Len(c) - 1 => Reads(g, d)
  PROVE  k \in DOMAIN c2 /\ Heading(c2, d, k)
<1>1. /\ Len(c) \in Nat /\ DOMAIN c = 1..Len(c) /\ Len(c2) = Len(c) - 1 /\ IsSeq(c2)
      /\ \A j \in DOMAIN c2 : j < Len(c) /\ j \in DOMAIN c /\ Len(c) > 1
      /\ \A j \in DOMAIN c2 : IF j = Len(c) - 1 THEN c2[j] = g ELSE c2[j] = c[j]
  BY PoppedAt
<1>2. k \in DOMAIN c2 /\ (k = Len(c) - 1 \/ k < Len(c) - 1)
  <2>1. DOMAIN c2 = 1..Len(c2)
    BY <1>1, SeqFacts
  <2> QED BY <1>1, <2>1
<1>3. /\ Reads(c[k], d)
      /\ \A j \in DOMAIN c : (j > k => Below(c[j])) /\ (~(j > k) /\ j < k => Knows(c[j], d))
  BY HeadingAs
<1>4. Reads(c2[k], d)
  BY <1>1, <1>2, <1>3
<1>5. ASSUME NEW j \in DOMAIN c2
      PROVE  (j > k => Below(c2[j])) /\ (~(j > k) /\ j < k => Knows(c2[j], d))
  <2>0. j \in DOMAIN c /\ j < Len(c)
    BY <1>1
  <2>1. CASE j = Len(c) - 1
    <3>1. c2[j] = g
      BY <1>1, <2>1
    <3> QED BY <1>1, <1>2, <2>1, <3>1
  <2>2. CASE j # Len(c) - 1
    <3>1. c2[j] = c[j]
      BY <1>1, <2>2
    <3> QED BY <1>3, <2>0, <3>1
  <2> QED BY <2>1, <2>2
<1> QED BY <1>2, <1>4, <1>5, HeadingAs

LEMMA StepSame == ASSUME TypesHold, [Next]_vars, ~Doing("newProcedure") PROVE Same(decls, decls')
  BY TypesStay, StepDetermines DEF Same

LEMMA BelowTop ==
  ASSUME Grounded, calls # <<>>, NEW k \in DOMAIN calls, Heading(calls, decls, k), k < Len(calls)
  PROVE  /\ Below(Top)
         /\ \A op : Doing(op) => op \in FormalActs \cup {"expect", "consume", "call", "when", "while"}
         /\ Top.rest # <<>> => Top.rest[1] \in Formal /\ Tail(Top.rest) \in Seq(Formal)
<1>1. Top = calls[Len(calls)] /\ Len(calls) \in DOMAIN calls /\ Len(calls) \in Nat /\ DOMAIN calls = 1..Len(calls)
  BY TopFacts DEF Grounded, TypesHold
<1>2. Below(Top)
  BY <1>1, HeadingAs
<1>3. Top.rest # <<>> => Top.rest[1] \in Formal /\ Tail(Top.rest) \in Seq(Formal)
  BY <1>2, SeqNext DEF Below
<1>4. \A op : Doing(op) => op \in FormalActs \cup {"expect", "consume", "call", "when", "while"}
  BY <1>3, FormalSound DEF Doing
<1> QED BY <1>2, <1>3, <1>4

LEMMA ReadsTop ==
  ASSUME Grounded, calls # <<>>, NEW k \in DOMAIN calls, Heading(calls, decls, k), k = Len(calls)
  PROVE  /\ Reads(Top, decls) /\ Top.rest # <<>>
         /\ \A op : Doing(op) => op \in {"enterScope", "advance", "when", "call", "heading"}
         /\ \A op : Doing(op) /\ op # "enterScope" => Top.scoped
<1>1. Top = calls[Len(calls)]
  BY GroundedTop
<1>2. Reads(Top, decls)
  BY <1>1, HeadingAs
<1>3. Top.rest # <<>> /\ Top.rest[1].op \in {"enterScope", "advance", "when", "call", "heading"}
  BY <1>2, OnWayNext DEF Reads
<1>4. \A op : Doing(op) => op = Top.rest[1].op
  BY DEF Doing
<1>5. \A op : Doing(op) /\ op # "enterScope" => Top.scoped
  BY <1>2, EntersOne DEF Reads
<1> QED BY <1>2, <1>3, <1>4, <1>5

LEMMA HeadAdvances ==
  ASSUME Grounded, [Next]_vars, NEW op, NEW locals, Advances(op, locals),
         NEW k \in DOMAIN calls, Heading(calls, decls, k)
  PROVE  \/ errors' \/ Calm(calls', decls', tok')
         \/ k \in DOMAIN calls' /\ Heading(calls', decls', k)
<1>1. /\ calls # <<>> /\ Top.rest # <<>> /\ Top.rest[1].op = op /\ op \in Actions /\ Doing(op)
      /\ op \notin {"newModule", "newProcedure", "lookup"} => locals.D = v.D
      /\ op = "heading" => errors' \/ v.D \in Determined(decls')
  BY DEF Advances, Doing
<1>2. /\ WellFormed(Top, decls) /\ IsSeq(calls) /\ Top = calls[Len(calls)] /\ v = Top.locals
      /\ Coherence /\ TypesHold /\ Len(calls) \in Nat /\ DOMAIN calls = 1..Len(calls)
  BY <1>1, GroundedTop, TopFacts DEF Grounded
<1>3. PICK g : /\ Replaced(calls, g, calls') /\ g.out = Top.out
               /\ g.rest = Tail(Top.rest) /\ g.locals = locals /\ g.scoped = Top.scoped
  BY DEF Advances, Goes
<1>4. k = Len(calls) \/ k < Len(calls)
  BY <1>2
<1>5. CASE k < Len(calls)
  <2>1. op # "newProcedure" /\ Below(g)
    BY <1>1, <1>3, <1>5, BelowTop DEF FormalActs, Below
  <2>2. Same(decls, decls')
    BY <1>1, <1>2, <2>1, OneDoing, StepSame
  <2>3. ~(k = Len(calls))
    BY <1>2, <1>5
  <2> QED BY <1>1, <1>2, <1>3, <2>1, <2>2, <2>3, HeadingReplaced
<1>6. CASE k = Len(calls)
  <2>1. Reads(Top, decls) /\ op \in {"advance", "heading"} /\ Top.scoped
    BY <1>1, <1>6, ReadsTop DEF Actions
  <2>2. Same(decls, decls')
    BY <1>1, <1>2, <2>1, OneDoing, StepSame
  <2>3. locals.D = v.D
    BY <1>1, <2>1
  <2>4. CASE op = "advance"
    <3>1. OnWay(g.rest)
      BY <1>1, <1>3, <2>1, <2>4, OnWayNext DEF Reads
    <3>2. Reads(g, decls')
      BY <1>2, <1>3, <2>1, <2>2, <2>3, <3>1, SameHeld DEF Reads
    <3>3. ~(k < Len(calls))
      BY <1>2, <1>6
    <3> QED BY <1>1, <1>2, <1>3, <2>2, <3>2, <3>3, HeadingReplaced
  <2>5. CASE op = "heading" /\ ~errors'
    <3>1. \A i \in DOMAIN decls' : i \in Determined(decls') \/ i = v.D
      BY <1>2, <2>1, <2>2, SameHeld DEF Reads
    <3>2. Determined(decls') = DOMAIN decls'
      BY <1>1, <2>5, <3>1 DEF Determined
    <3>3. Knows(g, decls')
      BY <1>3, <2>1 DEF Knows
    <3>4. \A j \in DOMAIN calls : j < Len(calls) => Knows(calls[j], decls)
      BY <1>2, <1>6, HeadingAs
    <3>5. \A j \in DOMAIN calls' : Knows(calls'[j], decls')
      BY <1>1, <1>2, <1>3, <2>2, <3>3, <3>4, KnowsReplaced DEF Same
    <3> QED BY <3>2, <3>5 DEF Calm
  <2> QED BY <2>1, <2>4, <2>5
<1> QED BY <1>4, <1>5, <1>6

LEMMA HeadEntering ==
  ASSUME Grounded, Entering, NEW k \in DOMAIN calls, Heading(calls, decls, k)
  PROVE  k \in DOMAIN calls' /\ Heading(calls', decls', k)
<1>1. calls # <<>> /\ Top.rest # <<>> /\ Top.rest[1].op = "enterScope" /\ Doing("enterScope") /\ decls' = decls
  BY DEF Entering, Doing
<1>2. IsSeq(calls) /\ v = Top.locals /\ Len(calls) \in Nat /\ DOMAIN calls = 1..Len(calls)
  BY <1>1, GroundedTop, TopFacts DEF Grounded
<1>3. PICK g : Replaced(calls, g, calls') /\ g.rest = Tail(Top.rest) /\ g.locals = v /\ g.scoped = TRUE
  BY DEF Entering, Goes
<1>4. ~(k < Len(calls))
  BY <1>1, BelowTop DEF FormalActs
<1>5. k = Len(calls)
  BY <1>2, <1>4
<1>6. Reads(Top, decls)
  BY <1>1, <1>5, ReadsTop
<1>7. OnWay(g.rest)
  BY <1>1, <1>3, <1>6, OnWayNext DEF Reads
<1>8. Reads(g, decls)
  BY <1>2, <1>3, <1>6, <1>7 DEF Reads
<1> QED BY <1>1, <1>2, <1>3, <1>4, <1>8, SameItself, HeadingReplaced

\* The innermost call goes on with its declaration.
LEMMA HeadGoes ==
  ASSUME Grounded, NEW k \in DOMAIN calls, Heading(calls, decls, k), calls # <<>>,
         NEW r, Goes(r, v, Top.scoped), decls' = decls,
         k < Len(calls) => r \in Seq(Formal), k = Len(calls) => OnWay(r) /\ Top.scoped
  PROVE  k \in DOMAIN calls' /\ Heading(calls', decls', k)
<1>1. IsSeq(calls) /\ v = Top.locals
  BY GroundedTop
<1>2. PICK g : Replaced(calls, g, calls') /\ g.rest = r /\ g.locals = v /\ g.scoped = Top.scoped
  BY DEF Goes
<1>3. k < Len(calls) => Below(g)
  BY <1>2, BelowTop DEF Below
<1>4. k = Len(calls) => Reads(g, decls)
  BY <1>1, <1>2, ReadsTop DEF Reads
<1> QED BY <1>1, <1>2, <1>3, <1>4, SameItself, HeadingReplaced

LEMMA HeadRecovers ==
  ASSUME Grounded, Recovers, NEW k \in DOMAIN calls, Heading(calls, decls, k)
  PROVE  k \in DOMAIN calls' /\ Heading(calls', decls', k)
<1>1. calls # <<>> /\ decls' = decls /\ Goes(<<Handler>>, v, Top.scoped)
  BY DEF Recovers, Doing
<1>2. PICK op \in {"expect", "consume", "fail"} : Doing(op)
  BY DEF Recovers
<1>3. k # Len(calls)
  BY <1>1, <1>2, ReadsTop
<1> QED BY <1>1, <1>3, NamingSound, HeadGoes

LEMMA HeadBranches ==
  ASSUME Grounded, NEW r, Branches(r), NEW k \in DOMAIN calls, Heading(calls, decls, k)
  PROVE  k \in DOMAIN calls' /\ Heading(calls', decls', k)
<1>1. decls' = decls /\ Goes(r, v, Top.scoped)
  BY DEF Branches
<1>2. PICK o \in {"when", "while"} :
        /\ Doing(o)
        /\ o = "when" => \E s \in {Top.rest[1].then, Top.rest[1].otherwise} : r = s \o Tail(Top.rest)
        /\ o = "while" => r = Top.rest[1].body \o Top.rest \/ r = Tail(Top.rest)
  BY DEF Branches
<1>3. calls # <<>> /\ Top.rest # <<>> /\ Top.rest[1].op = o
  BY <1>2 DEF Doing
<1>4. ASSUME k < Len(calls) PROVE r \in Seq(Formal)
  <2>1. Top.rest \in Seq(Formal) /\ Tail(Top.rest) \in Seq(Formal) /\ Top.rest[1] \in Formal
    BY <1>3, <1>4, BelowTop DEF Below
  <2>2. /\ o = "when" => Top.rest[1].then \in Seq(Formal) /\ Top.rest[1].otherwise \in Seq(Formal)
        /\ o = "while" => Top.rest[1].body \in Seq(Formal)
    BY <1>3, <2>1, FormalSound
  <2>3. \A s, t \in Seq(Formal) : s \o t \in Seq(Formal)
    BY ConcatProperties
  <2>4. CASE o = "when"
    <3>1. PICK s \in {Top.rest[1].then, Top.rest[1].otherwise} : r = s \o Tail(Top.rest)
      BY <1>2, <2>4
    <3>2. s \in Seq(Formal)
      BY <2>2, <2>4, <3>1
    <3> QED BY <2>1, <2>3, <3>1, <3>2
  <2>5. CASE o = "while"
    BY <1>2, <2>1, <2>2, <2>3, <2>5
  <2> QED BY <2>4, <2>5
<1>5. ASSUME k = Len(calls) PROVE OnWay(r) /\ Top.scoped
  <2>1. Reads(Top, decls) /\ Top.scoped /\ o = "when"
    BY <1>2, <1>3, <1>5, ReadsTop
  <2>2. OnWay(Top.rest[1].then \o Tail(Top.rest)) /\ OnWay(Top.rest[1].otherwise \o Tail(Top.rest))
    BY <1>3, <2>1, OnWayNext DEF Reads
  <2> QED BY <1>2, <2>1, <2>2
<1> QED BY <1>1, <1>3, <1>4, <1>5, HeadGoes

LEMMA HeadCallsOn ==
  ASSUME Grounded, CallsOn, NEW k \in DOMAIN calls, Heading(calls, decls, k)
  PROVE  k \in DOMAIN calls' /\ Heading(calls', decls', k)
<1>1. Doing("call") /\ calls # <<>> /\ Top.rest # <<>> /\ Top.rest[1].op = "call" /\ decls' = decls
  BY DEF CallsOn, Doing
<1>2. PICK g, h :
       /\ Pushed(calls, g, h, calls')
       /\ g.rest = Tail(Top.rest) /\ g.locals = v /\ g.scoped = Top.scoped
       /\ h.fn = Top.rest[1].fn /\ h.rest = Rules[h.fn].body /\ h.scoped = FALSE
  BY DEF CallsOn
<1>3. IsSeq(calls) /\ v = Top.locals /\ Len(calls) \in Nat /\ DOMAIN calls = 1..Len(calls)
  BY <1>1, GroundedTop, TopFacts DEF Grounded
<1>4. ASSUME k < Len(calls) PROVE Below(g) /\ h.fn \in Formals
  <2>1. Below(Top) /\ Top.rest[1] \in Formal /\ Tail(Top.rest) \in Seq(Formal)
    BY <1>1, <1>4, BelowTop
  <2> QED BY <1>1, <1>2, <2>1, FormalSound DEF Below
<1>5. ASSUME k = Len(calls) PROVE Reads(g, decls) /\ h.fn \in Formals
  <2>1. Reads(Top, decls) /\ Top.scoped
    BY <1>1, <1>5, ReadsTop
  <2>2. OnWay(Tail(Top.rest)) /\ h.fn = "parseFormalParameters"
    BY <1>1, <1>2, <2>1, OnWayNext DEF Reads
  <2> QED BY <1>2, <1>3, <2>1, <2>2 DEF Reads, Formals
<1>6. Below(h)
  BY <1>2, <1>3, <1>4, <1>5, FormalBodies DEF Below
<1>7. Heading(calls', decls, k) /\ k \in DOMAIN calls'
  BY <1>1, <1>2, <1>3, <1>4, <1>5, <1>6, HeadingPushed
<1> QED BY <1>1, <1>7

LEMMA HeadLeaves ==
  ASSUME Grounded, [Next]_vars, NEW failed \in BOOLEAN, Leaves(failed),
         NEW k \in DOMAIN calls, Heading(calls, decls, k)
  PROVE  \/ Calm(calls', decls', tok')
         \/ k \in DOMAIN calls' /\ Heading(calls', decls', k)
<1>1. /\ calls # <<>> /\ decls' = decls /\ tok' = (IF failed THEN "eof" ELSE tok)
      /\ Top.rest = <<>> \/ Doing("handler")
  BY DEF Leaves
<1>2. PICK g : /\ Popped(calls, g, calls')
               /\ Len(calls) > 1 => Returned(calls[Len(calls) - 1], failed, g)
  BY DEF Leaves
<1>3. /\ IsSeq(calls) /\ v = Top.locals /\ WellFormed(Top, decls)
      /\ Len(calls) \in Nat /\ DOMAIN calls = 1..Len(calls)
  BY <1>1, GroundedTop, TopFacts DEF Grounded
<1>4. k # Len(calls)
  BY <1>1, ReadsTop
<1>5. k < Len(calls) /\ (k = Len(calls) - 1 \/ k < Len(calls) - 1) /\ Len(calls) > 1
  BY <1>3, <1>4
<1>6. PICK b : b = calls[Len(calls) - 1]
  OBVIOUS
<1>7. /\ Len(calls) - 1 \in DOMAIN calls /\ WellFormed(b, decls)
      /\ b.scoped \/ b.rest \in Seq(Inner)
      /\ b.scoped => Top.out \in OwnOuts
  BY <1>1, <1>5, <1>6, CallerOf
<1>8. /\ g.out = b.out /\ g.scoped = b.scoped /\ g.locals = Written(Top.out, v, b.locals)
      /\ g.rest = IF failed THEN <<Handler>> ELSE b.rest
  BY <1>2, <1>5, <1>6 DEF Returned
<1>9. /\ Reads(calls[k], decls)
      /\ \A j \in DOMAIN calls : (j > k => Below(calls[j])) /\ (~(j > k) /\ j < k => Knows(calls[j], decls))
  BY HeadingAs
<1>10. CASE k < Len(calls) - 1
  <2>1. Below(b)
    BY <1>6, <1>7, <1>9, <1>10
  <2>2. Below(g)
    BY <1>8, <2>1, NamingSound DEF Below
  <2>3. ~(k = Len(calls) - 1)
    BY <1>3, <1>10
  <2> QED BY <1>1, <1>2, <1>3, <1>5, <2>2, <2>3, HeadingPopped
<1>11. CASE k = Len(calls) - 1
  <2>1. Reads(b, decls)
    BY <1>6, <1>9, <1>11
  <2>2. b.scoped
    BY <1>7, <2>1, InnerNeither DEF Reads
  <2>3. CASE ~failed
    <3>1. Top.out # [D |-> "D"]
      <4>1. "D" \in DOMAIN [D |-> "D"] /\ [D |-> "D"]["D"] = "D"
        OBVIOUS
      <4> QED BY <1>7, <2>2, <4>1, OutD
    <3>2. g.locals.D = b.locals.D
      BY <1>3, <1>8, <3>1, WrittenD DEF WellFormed
    <3>3. g.rest = b.rest
      BY <1>8, <2>3
    <3>4. Reads(g, decls)
      BY <1>8, <2>1, <3>2, <3>3 DEF Reads
    <3>5. ~(k < Len(calls) - 1)
      BY <1>3, <1>11
    <3> QED BY <1>1, <1>2, <1>3, <1>5, <3>4, <3>5, HeadingPopped
  <2>4. CASE failed
    <3>1. Knows(g, decls)
      BY <1>8, <2>2 DEF Knows
    <3>2. \A j \in DOMAIN calls : j < Len(calls) - 1 => Knows(calls[j], decls)
      <4>1. SUFFICES ASSUME NEW j \in DOMAIN calls, j < Len(calls) - 1 PROVE Knows(calls[j], decls)
        OBVIOUS
      <4>2. ~(j > k) /\ j < k
        BY <1>3, <1>11, <4>1
      <4> QED BY <1>9, <4>2
    <3>3. \A j \in DOMAIN calls' : Knows(calls'[j], decls)
      BY <1>1, <1>2, <1>3, <3>1, <3>2, KnowsPopped
    <3> QED BY <1>1, <2>4, <3>3 DEF Calm
  <2> QED BY <2>3, <2>4
<1> QED BY <1>5, <1>10, <1>11

LEMMA IdlesCalm ==
  ASSUME Idles, Calm(calls, decls, tok), tok = "eof" => tok' = "eof"
  PROVE  Calm(calls', decls', tok')
  BY DEF Idles, Calm

LEMMA IdlesHead ==
  ASSUME Idles, NEW k \in DOMAIN calls, Heading(calls, decls, k)
  PROVE  k \in DOMAIN calls' /\ Heading(calls', decls', k)
  BY DEF Idles

\* The text is rejected, no procedure without a type can be named, or the only one that
\* could be is the one whose heading is being read.
Settled(c, d, t, e) == e \/ Calm(c, d, t) \/ \E k \in DOMAIN c : Heading(c, d, k)

LEMMA StepSettled ==
  ASSUME Grounded, [Next]_vars, Settled(calls, decls, tok, errors)
  PROVE  Settled(calls', decls', tok', errors')
<1>1. TypesHold /\ Ending
  BY DEF Grounded
<1>2. CASE errors
  BY <1>2, ErrorsStay DEF Settled
<1>3. CASE Calm(calls, decls, tok)
  <2>1. ASSUME NEW op, NEW locals, Advances(op, locals)
        PROVE  Settled(calls', decls', tok', errors')
    <3>1. Calm(calls', decls', tok') \/ Heading(calls', decls', Len(calls))
      BY <1>3, <2>1, CalmAdvances
    <3>2. Len(calls) \in DOMAIN calls'
      <4>1. calls # <<>> /\ IsSeq(calls)
        BY <2>1, GroundedTop DEF Advances, Doing
      <4>2. PICK g : Replaced(calls, g, calls')
        BY <2>1 DEF Advances, Goes
      <4> QED BY <4>1, <4>2, ReplacedAt
    <3> QED BY <3>1, <3>2 DEF Settled
  <2>2. CASE Entering
    BY <1>3, <2>2, CalmEntering DEF Settled
  <2>3. CASE Recovers
    <3>1. calls # <<>> /\ ~Enters(Top.rest) /\ Goes(<<Handler>>, v, Top.scoped) /\ decls' = decls /\ tok' = tok
      BY <2>3, EntersOne DEF Recovers, Doing
    <3> QED BY <1>3, <3>1, CalmGoes DEF Settled
  <2>4. ASSUME NEW r, Branches(r) PROVE Settled(calls', decls', tok', errors')
    <3>1. calls # <<>> /\ ~Enters(Top.rest) /\ Goes(r, v, Top.scoped) /\ decls' = decls /\ tok' = tok
      BY <2>4, EntersOne DEF Branches, Doing
    <3> QED BY <1>3, <3>1, CalmGoes DEF Settled
  <2>5. CASE CallsOn
    BY <1>3, <2>5, CalmCallsOn DEF Settled
  <2>6. ASSUME NEW failed \in BOOLEAN, Leaves(failed) PROVE Settled(calls', decls', tok', errors')
    BY <1>3, <2>6, CalmLeaves DEF Settled
  <2>7. CASE Idles
    BY <1>1, <1>3, <2>7, StepEnds, IdlesCalm DEF Settled
  <2> QED BY <1>1, <2>1, <2>2, <2>3, <2>4, <2>5, <2>6, <2>7, StepMoves
<1>4. ASSUME NEW k \in DOMAIN calls, Heading(calls, decls, k)
      PROVE  Settled(calls', decls', tok', errors')
  <2>1. ASSUME NEW op, NEW locals, Advances(op, locals)
        PROVE  Settled(calls', decls', tok', errors')
    BY <1>4, <2>1, HeadAdvances DEF Settled
  <2>2. CASE Entering
    BY <1>4, <2>2, HeadEntering DEF Settled
  <2>3. CASE Recovers
    BY <1>4, <2>3, HeadRecovers DEF Settled, Recovers
  <2>4. ASSUME NEW r, Branches(r) PROVE Settled(calls', decls', tok', errors')
    BY <1>4, <2>4, HeadBranches DEF Settled, Branches
  <2>5. CASE CallsOn
    BY <1>4, <2>5, HeadCallsOn DEF Settled, CallsOn
  <2>6. ASSUME NEW failed \in BOOLEAN, Leaves(failed) PROVE Settled(calls', decls', tok', errors')
    BY <1>4, <2>6, HeadLeaves DEF Settled
  <2>7. CASE Idles
    BY <1>4, <2>7, IdlesHead DEF Settled, Idles
  <2> QED BY <1>1, <2>1, <2>2, <2>3, <2>4, <2>5, <2>6, <2>7, StepMoves
<1> QED BY <1>2, <1>3, <1>4 DEF Settled

(* Operands.                                                                *)

LEMMA GoodLater ==
  ASSUME NEW d, NEW d2, Kinded(d, d2), NEW x
  PROVE  /\ Good(x, d) => Good(x, d2)
         /\ GoodLocals(x, d) => GoodLocals(x, d2)
         /\ TypeDecls(d) \subseteq TypeDecls(d2)
<1>1. TypeDecls(d) \subseteq TypeDecls(d2)
  BY DEF Kinded, TypeDecls
<1>2. \A y : Good(y, d) => Good(y, d2)
  BY <1>1 DEF Good
<1> QED BY <1>1, <1>2 DEF GoodLocals

LEMMA GoodExprs ==
  ASSUME NEW d
  PROVE  /\ Good(NoExpr, d)
         /\ \A k, t, b, x : t \in TypeDecls(d) => Good(Expr(k, t, b, x), d)
<1>1. DOMAIN NoExpr = {"kind", "type", "const", "value"}
  BY DEF NoExpr, Expr
<1>2. ASSUME NEW k, NEW t, NEW b, NEW x
      PROVE  DOMAIN Expr(k, t, b, x) = {"kind", "type", "const", "value"} /\ Expr(k, t, b, x).type = t
  BY DEF Expr
<1> QED BY <1>1, <1>2 DEF Good

\* An operation has a type if its operands have.
LEMMA GoodOperations ==
  ASSUME NEW d, {IntegerType, BooleanType} \subseteq TypeDecls(d), NEW L, NEW R, Good(L, d), Good(R, d)
  PROVE  /\ Good(actOnExpression(L, R), d)
         /\ \A op : Good(Combine(L, R, op), d) /\ Good(actOnPrefixExpression(L, op), d)
<1>1. /\ Good(NoExpr, d)
      /\ \A k, t, b, x : t \in TypeDecls(d) => Good(Expr(k, t, b, x), d)
  BY GoodExprs
<1>2. \A b : Good(BooleanLiteral(b), d)
  BY <1>1 DEF BooleanLiteral
<1>3. L # NoExpr => L.type \in TypeDecls(d)
  BY DEF Good
<1>4. Good(actOnExpression(L, R), d)
  BY <1>1 DEF actOnExpression
<1>5. ASSUME NEW op PROVE Good(Combine(L, R, op), d)
  BY <1>1, <1>2, <1>3 DEF Combine
<1>6. ASSUME NEW op PROVE Good(actOnPrefixExpression(L, op), d)
  BY <1>1, <1>2, <1>3 DEF actOnPrefixExpression
<1> QED BY <1>4, <1>5, <1>6

LEMMA GoodDesignator ==
  ASSUME NEW D, D \in DOMAIN decls \cup {Null}, Founded(decls), GoodDecls(decls), ~DesignatorCrashes(D)
  PROVE  Good(actOnDesignator(D), decls)
<1>1. /\ Good(NoExpr, decls)
      /\ \A k, t, b, x : t \in TypeDecls(decls) => Good(Expr(k, t, b, x), decls)
  BY GoodExprs
<1>2. CASE D = Null
  BY <1>1, <1>2 DEF actOnDesignator
<1>3. CASE D # Null
  <2>1. D \in DOMAIN decls /\ Good(decls[D].expr, decls)
    BY <1>3 DEF GoodDecls
  <2>2. CASE decls[D].kind \in {"Var", "Param"}
    <3>1. decls[D].type \in TypeDecls(decls)
      BY <2>1, <2>2 DEF Founded, MadeOf
    <3>2. decls[D].kind # "Const"
      BY <2>2
    <3> QED BY <1>1, <1>3, <2>1, <2>2, <3>1, <3>2 DEF actOnDesignator
  <2>3. CASE decls[D].kind \notin {"Var", "Param"}
    <3>1. decls[D].kind = "Const" => decls[D].expr.type \in TypeDecls(decls)
      BY <1>3, <2>1 DEF Good, DesignatorCrashes
    <3> QED BY <1>1, <1>3, <2>1, <2>3, <3>1 DEF actOnDesignator
  <2> QED BY <2>2, <2>3
<1> QED BY <1>2, <1>3

LEMMA Smallest ==
  ASSUME NEW A, A \subseteq Nat, A # {}
  PROVE  \E j \in A : \A i \in A : j <= i
<1>1. PICK x \in A : \A y \in A : ~(<<y, x>> \in OpToRel(<, Nat))
  BY WFMin, NatLessThanWellFounded, Zenon
<1>2. \A y \in A : ~(y < x)
  BY <1>1 DEF OpToRel
<1> QED BY <1>2

LEMMA GoodFieldSelector ==
  ASSUME NEW E, NEW name, Good(E, decls), E # NoExpr, Founded(decls), GoodDecls(decls)
  PROVE  Good(actOnFieldSelector(E, name), decls)
<1>1. /\ DOMAIN E = {"kind", "type", "const", "value"}
      /\ E.type \in TypeDecls(decls) /\ E.type \in DOMAIN decls
  BY DEF Good, TypeDecls
<1>2. PICK fields : fields = IF E.kind = "var" /\ decls[E.type].kind = "Record"
                             THEN decls[E.type].fields ELSE <<>>
  OBVIOUS
<1>3. PICK named : named = {i \in DOMAIN fields : fields[i].name = name}
  OBVIOUS
<1>4. actOnFieldSelector(E, name) =
        IF named = {} THEN E
        ELSE [E EXCEPT !.type = fields[CHOOSE i \in named : \A j \in named : i <= j].type]
  BY <1>2, <1>3 DEF actOnFieldSelector
<1>5. CASE named # {}
  <2>1. decls[E.type].kind = "Record" /\ fields = decls[E.type].fields
    BY <1>2, <1>3, <1>5
  <2>2. named \subseteq Nat
    <3>1. IsSeq(fields)
      BY <1>1, <2>1 DEF GoodDecls
    <3> QED BY <1>3, <3>1, SeqFacts
  <2>3. PICK first : first = CHOOSE i \in named : \A j \in named : i <= j
    OBVIOUS
  <2>4. first \in named
    BY <1>5, <2>2, <2>3, Smallest
  <2>5. fields[first].type \in TypeDecls(decls)
    BY <1>1, <1>3, <2>1, <2>4 DEF Founded, MadeOf
  <2>6. PICK t : t = fields[first].type
    OBVIOUS
  <2>7. actOnFieldSelector(E, name) = [E EXCEPT !.type = t]
    BY <1>4, <1>5, <2>3, <2>6
  <2>8. DOMAIN [E EXCEPT !.type = t] = DOMAIN E /\ [E EXCEPT !.type = t].type = t
    BY <1>1
  <2> QED BY <1>1, <2>5, <2>6, <2>7, <2>8 DEF Good
<1>6. CASE named = {}
  BY <1>4, <1>6
<1> QED BY <1>5, <1>6

\* A function that is called has a type.
LEMMA CalledKnown ==
  ASSUME Grounded, Settled(calls, decls, tok, errors), ~errors, Doing("functionCall"),
         v.D \in DOMAIN decls
  PROVE  decls[v.D].type # Unset
<1>1. calls # <<>> /\ Top.rest # <<>> /\ Top.rest[1].op = "functionCall"
  BY DEF Doing
<1>2. Shaped(Top) /\ WellFormed(Top, decls) /\ v = Top.locals /\ Len(calls) \in DOMAIN calls
      /\ Top = calls[Len(calls)] /\ Len(calls) \in Nat /\ DOMAIN calls = 1..Len(calls)
  BY <1>1, GroundedTop, TopFacts DEF Grounded
<1>3. CASE Calm(calls, decls, tok)
  <2>1. Knows(Top, decls)
    BY <1>2, <1>3 DEF Calm
  <2>2. ~Top.scoped
    <3>1. Top.rest \in Seq(Own) => FALSE
      BY <1>1, OwnFirst DEF OwnActs
    <3> QED BY <1>2, <3>1 DEF WellFormed
  <2>3. ~Enters(Top.rest)
    BY EntersOne
  <2>4. Top.out # [D |-> "Ret"]
    <3>1. "D" \in DOMAIN [D |-> "Ret"]
      OBVIOUS
    <3>2. Top.rest \notin Seq(Naming)
      BY <1>1, NamingSound, HeadOf
    <3> QED BY <1>2, <3>1, <3>2 DEF Shaped
  <2>5. v.D \in Determined(decls) \cup {Null}
    BY <1>2, <2>1, <2>2, <2>3, <2>4 DEF Knows
  <2>6. Null \notin DOMAIN decls
    <3>1. DOMAIN decls = 1..Len(decls) /\ Len(decls) \in Nat
      BY DeclNumbers DEF Grounded
    <3> QED BY <3>1 DEF Null
  <2> QED BY <2>5, <2>6 DEF Determined
<1>4. ASSUME NEW k \in DOMAIN calls, Heading(calls, decls, k) PROVE FALSE
  <2>1. k = Len(calls) \/ k < Len(calls)
    BY <1>2
  <2> QED BY <1>1, <1>4, <2>1, ReadsTop, BelowTop DEF FormalActs
<1> QED BY <1>3, <1>4 DEF Settled

LEMMA GoodCall ==
  ASSUME Grounded, Settled(calls, decls, tok, errors), ~errors, GoodDecls(decls),
         Doing("functionCall"), Report(FunctionCallError(v.D, v.Exprs)), ~errors'
  PROVE  Good(actOnFunctionCall(v.D), decls)
<1>1. /\ Good(NoExpr, decls)
      /\ \A k, t, b, x : t \in TypeDecls(decls) => Good(Expr(k, t, b, x), decls)
  BY GoodExprs
<1>2. CASE ~IsProcedure(v.D)
  BY <1>1, <1>2 DEF actOnFunctionCall
<1>3. CASE IsProcedure(v.D)
  <2>1. v.D # Null /\ decls[v.D].kind = "Proc"
    BY <1>3 DEF IsProcedure
  <2>2. calls # <<>>
    BY DEF Doing
  <2>3. v.D \in DOMAIN decls
    BY <2>1, <2>2, GroundedTop DEF TypedLocals
  <2>4. decls[v.D].type # Unset
    BY <2>3, CalledKnown
  <2>5. decls[v.D].type # Null
    <3>1. ~FunctionCallError(v.D, v.Exprs)
      BY DEF Report
    <3> QED BY <1>3, <2>1, <3>1 DEF FunctionCallError
  <2>6. decls[v.D].type \in TypeDecls(decls)
    BY <2>1, <2>3, <2>4, <2>5 DEF GoodDecls
  <2> QED BY <1>1, <1>3, <2>6 DEF actOnFunctionCall
<1> QED BY <1>2, <1>3

\* What the innermost call does leaves it with operands that have a type.
Holding == \E locals : Done(locals) /\ GoodLocals(locals, decls)

LEMMA GoodKept ==
  ASSUME NEW d, NEW x, DOMAIN x = DOMAIN Locals, GoodLocals(x, d)
  PROVE  /\ \A y : /\ GoodLocals([x EXCEPT !.Name = y], d) /\ GoodLocals([x EXCEPT !.Ids = y], d)
                   /\ GoodLocals([x EXCEPT !.Op = y], d) /\ GoodLocals([x EXCEPT !.PrefixOp = y], d)
                   /\ GoodLocals([x EXCEPT !.IsVar = y], d) /\ GoodLocals([x EXCEPT !.D = y], d)
                   /\ GoodLocals([x EXCEPT !.Fields = y], d) /\ GoodLocals([x EXCEPT !.Params = y], d)
         /\ \A y : Good(y, d) => /\ GoodLocals([x EXCEPT !.E = y], d)
                                 /\ GoodLocals([x EXCEPT !.E = y, !.R = NoExpr], d)
                                 /\ GoodLocals([x EXCEPT !.L = y, !.E = NoExpr], d)
         /\ \A y : IsSeq(y) /\ (\A i \in DOMAIN y : Good(y[i], d)) =>
              GoodLocals([x EXCEPT !.Exprs = y, !.E = NoExpr], d)
<1>1. {"D", "E", "L", "R", "Op", "PrefixOp", "Name", "Ids", "Exprs", "Params",
       "Fields", "Ret", "IsVar"} \subseteq DOMAIN x
  BY DEF Locals
<1>2. Good(NoExpr, d)
  BY GoodExprs
<1>3. /\ Good(x.E, d) /\ Good(x.L, d) /\ Good(x.R, d)
      /\ IsSeq(x.Exprs) /\ \A i \in DOMAIN x.Exprs : Good(x.Exprs[i], d)
  BY DEF GoodLocals
<1>4. ASSUME NEW y
      PROVE  /\ GoodLocals([x EXCEPT !.Name = y], d) /\ GoodLocals([x EXCEPT !.Ids = y], d)
             /\ GoodLocals([x EXCEPT !.Op = y], d) /\ GoodLocals([x EXCEPT !.PrefixOp = y], d)
             /\ GoodLocals([x EXCEPT !.IsVar = y], d) /\ GoodLocals([x EXCEPT !.D = y], d)
             /\ GoodLocals([x EXCEPT !.Fields = y], d) /\ GoodLocals([x EXCEPT !.Params = y], d)
  BY <1>1, <1>3 DEF GoodLocals
<1>5. ASSUME NEW y, Good(y, d)
      PROVE  /\ GoodLocals([x EXCEPT !.E = y], d)
             /\ GoodLocals([x EXCEPT !.E = y, !.R = NoExpr], d)
             /\ GoodLocals([x EXCEPT !.L = y, !.E = NoExpr], d)
  BY <1>1, <1>2, <1>3, <1>5 DEF GoodLocals
<1>6. ASSUME NEW y, IsSeq(y), \A i \in DOMAIN y : Good(y[i], d)
      PROVE  GoodLocals([x EXCEPT !.Exprs = y, !.E = NoExpr], d)
  BY <1>1, <1>2, <1>3, <1>6 DEF GoodLocals
<1> QED BY <1>4, <1>5, <1>6

\* What the call knows when it acts.
Prepared ==
  /\ Grounded /\ Settled(calls, decls, tok, errors) /\ ~errors
  /\ GoodDecls(decls) /\ \A k \in DOMAIN calls : GoodLocals(calls[k].locals, decls)

LEMMA PreparedTop ==
  ASSUME Prepared, calls # <<>>
  PROVE  /\ GoodLocals(v, decls) /\ DOMAIN v = DOMAIN Locals /\ TypedLocals(v, decls)
         /\ v.D \in DOMAIN decls \cup {Null} /\ Founded(decls)
         /\ {IntegerType, BooleanType} \subseteq TypeDecls(decls)
<1>1. Grounded /\ GoodDecls(decls) /\ \A k \in DOMAIN calls : GoodLocals(calls[k].locals, decls)
  BY DEF Prepared
<1>2. /\ WellFormed(Top, decls) /\ Len(calls) \in DOMAIN calls /\ Top = calls[Len(calls)]
      /\ v = Top.locals /\ TypedLocals(v, decls)
  BY <1>1, GroundedTop
<1>3. Founded(decls)
  BY <1>1 DEF Grounded, TypesHold, Typed
<1> QED BY <1>1, <1>2, <1>3 DEF WellFormed, TypedLocals, GoodDecls

LEMMA EvaluatesHolding ==
  ASSUME NEW op, NEW locals, NEW b, Evaluates(op, locals, b), GoodLocals(locals, decls)
  PROVE  Holding
<1>1. Done(locals)
  BY Zenon DEF Evaluates
<1> QED BY <1>1 DEF Holding

LEMMA EvaluatesHeld ==
  \A op, locals, b : Evaluates(op, locals, b) /\ GoodLocals(locals, decls) => Holding
  BY EvaluatesHolding

LEMMA DoneHeld ==
  ASSUME NEW locals, Done(locals), GoodLocals(locals, decls) PROVE Holding
  BY DEF Holding

LEMMA TakeTokenHolds == ASSUME Prepared, calls # <<>>, TakeToken \/ LookUp PROVE Holding
<1>1. PICK L : L = lookup(tok)
  OBVIOUS
<1>2. /\ \A y : /\ GoodLocals([v EXCEPT !.Name = y], decls)
                /\ GoodLocals([v EXCEPT !.Op = y], decls) /\ GoodLocals([v EXCEPT !.PrefixOp = y], decls)
                /\ GoodLocals([v EXCEPT !.IsVar = y], decls) /\ GoodLocals([v EXCEPT !.D = y], decls)
                /\ GoodLocals([v EXCEPT !.Ids = y], decls)
      /\ GoodLocals(v, decls)
  BY PreparedTop, GoodKept
<1>3. CASE Evaluates("takeName", [v EXCEPT !.Name = tok], FALSE)
  BY <1>2, <1>3, EvaluatesHeld
<1>4. CASE Evaluates("takeId", [v EXCEPT !.Ids = Append(@, tok)], FALSE)
  <2>1. PICK y : y = Append(v.Ids, tok)
    OBVIOUS
  <2>2. Evaluates("takeId", [v EXCEPT !.Ids = y], FALSE)
    BY <1>4, <2>1
  <2> QED BY <1>2, <2>2, EvaluatesHeld
<1>5. CASE Evaluates("takeOperator", [v EXCEPT !.Op = tok], FALSE)
  BY <1>2, <1>5, EvaluatesHeld
<1>6. CASE Evaluates("takePrefix", [v EXCEPT !.PrefixOp = tok], FALSE)
  BY <1>2, <1>6, EvaluatesHeld
<1>7. CASE Evaluates("byRef", [v EXCEPT !.IsVar = TRUE], FALSE)
  BY <1>2, <1>7, EvaluatesHeld
<1>8. CASE Evaluates("lookup", [v EXCEPT !.D = lookup(tok)], lookup(tok) = Null)
  <2>1. Done([v EXCEPT !.D = lookup(tok)])
    BY <1>8, Zenon DEF Evaluates
  <2> QED BY <1>1, <1>2, <2>1, DoneHeld
<1>9. CASE Evaluates("isModule", v, FALSE)
  BY <1>2, <1>9, EvaluatesHeld
<1> QED BY <1>3, <1>4, <1>5, <1>6, <1>7, <1>8, <1>9, Zenon DEF TakeToken, LookUp

LEMMA OperandHolds == ASSUME Prepared, calls # <<>>, ~NullUse, Operand, ~errors' PROVE Holding
<1>1. \A y : Good(y, decls) => GoodLocals([v EXCEPT !.E = y], decls)
  BY PreparedTop, GoodKept
<1>2. /\ v.D \in DOMAIN decls \cup {Null} /\ Founded(decls)
      /\ IntegerType \in TypeDecls(decls) /\ GoodDecls(decls) /\ Good(v.E, decls)
  BY PreparedTop DEF Prepared, GoodLocals
<1>3. CASE Evaluates("integer", [v EXCEPT !.E = actOnIntegerLiteral], FALSE)
  <2>1. Good(actOnIntegerLiteral, decls)
    BY <1>2, GoodExprs DEF actOnIntegerLiteral
  <2> QED BY <1>1, <1>3, <2>1, EvaluatesHeld
<1>4. CASE Evaluates("designator", [v EXCEPT !.E = actOnDesignator(v.D)], FALSE)
  <2>1. Doing("designator")
    BY <1>4, Zenon DEF Evaluates
  <2>2. ~DesignatorCrashes(v.D)
    BY <2>1, Zenon DEF NullUse
  <2>3. Good(actOnDesignator(v.D), decls)
    BY <1>2, <2>2, GoodDesignator
  <2> QED BY <1>1, <1>4, <2>3, EvaluatesHeld
<1>5. CASE Evaluates("fieldSelector", [v EXCEPT !.E = actOnFieldSelector(@, tok)], FALSE)
  <2>1. Doing("fieldSelector")
    BY <1>5, Zenon DEF Evaluates
  <2>2. v.E # NoExpr
    BY <2>1, Zenon DEF NullUse
  <2>3. Good(actOnFieldSelector(v.E, tok), decls)
    BY <1>2, <2>2, GoodFieldSelector
  <2>4. PICK y : y = actOnFieldSelector(v.E, tok)
    OBVIOUS
  <2>5. Evaluates("fieldSelector", [v EXCEPT !.E = y], FALSE)
    BY <1>5, <2>4
  <2> QED BY <1>1, <2>3, <2>4, <2>5, EvaluatesHeld
<1>6. CASE Evaluates("functionCall", [v EXCEPT !.E = actOnFunctionCall(v.D)],
                     FunctionCallError(v.D, v.Exprs))
  <2>1. /\ Doing("functionCall") /\ Report(FunctionCallError(v.D, v.Exprs))
        /\ Done([v EXCEPT !.E = actOnFunctionCall(v.D)])
    BY <1>6, Zenon DEF Evaluates
  <2>2. Good(actOnFunctionCall(v.D), decls)
    BY <2>1, GoodCall DEF Prepared
  <2> QED BY <1>1, <2>1, <2>2, DoneHeld
<1> QED BY <1>3, <1>4, <1>5, <1>6, Zenon DEF Operand

LEMMA OperationHolds == ASSUME Prepared, calls # <<>>, Operation PROVE Holding
<1>1. \A y : Good(y, decls) => /\ GoodLocals([v EXCEPT !.E = y], decls)
                               /\ GoodLocals([v EXCEPT !.E = y, !.R = NoExpr], decls)
  BY PreparedTop, GoodKept
<1>2. Good(v.E, decls) /\ Good(v.R, decls) /\ {IntegerType, BooleanType} \subseteq TypeDecls(decls)
  BY PreparedTop DEF GoodLocals
<1>3. /\ Good(actOnExpression(v.E, v.R), decls)
      /\ \A op : Good(Combine(v.E, v.R, op), decls) /\ Good(actOnPrefixExpression(v.E, op), decls)
  BY <1>2, GoodOperations
<1>4. CASE Evaluates("relation", [v EXCEPT !.E = actOnExpression(@, v.R), !.R = NoExpr],
                     Incompatible(v.E, v.R))
  <2>1. PICK y : y = actOnExpression(v.E, v.R)
    OBVIOUS
  <2>2. Done([v EXCEPT !.E = y, !.R = NoExpr])
    BY <1>4, <2>1 DEF Evaluates
  <2> QED BY <1>1, <1>3, <2>1, <2>2, DoneHeld
<1>5. ASSUME NEW e, NEW op, Evaluates(op, [v EXCEPT !.E = Combine(@, v.R, v.Op), !.R = NoExpr], e)
      PROVE  Holding
  <2>1. PICK y : y = Combine(v.E, v.R, v.Op)
    OBVIOUS
  <2>2. Done([v EXCEPT !.E = y, !.R = NoExpr])
    BY <1>5, <2>1 DEF Evaluates
  <2> QED BY <1>1, <1>3, <2>1, <2>2, DoneHeld
<1>6. CASE Evaluates("sum", [v EXCEPT !.E = Combine(@, v.R, v.Op), !.R = NoExpr],
                     Incompatible(v.E, v.R))
  BY <1>5, <1>6
<1>7. CASE Evaluates("product", [v EXCEPT !.E = Combine(@, v.R, v.Op), !.R = NoExpr],
                     TermError(v.E, v.R, v.Op))
  BY <1>5, <1>7
<1>8. CASE Evaluates("not", [v EXCEPT !.E = actOnPrefixExpression(@, "NOT")], PrefixError(v.E, "NOT"))
  <2>1. PICK y : y = actOnPrefixExpression(v.E, "NOT")
    OBVIOUS
  <2>2. Done([v EXCEPT !.E = y])
    BY <1>8, <2>1 DEF Evaluates
  <2> QED BY <1>1, <1>3, <2>1, <2>2, DoneHeld
<1>9. CASE Evaluates("sign",
                     [v EXCEPT !.E = IF v.PrefixOp = "none" THEN @
                                     ELSE actOnPrefixExpression(@, v.PrefixOp)],
                     v.PrefixOp # "none" /\ PrefixError(v.E, v.PrefixOp))
  <2>1. PICK y : y = IF v.PrefixOp = "none" THEN v.E ELSE actOnPrefixExpression(v.E, v.PrefixOp)
    OBVIOUS
  <2>2. Done([v EXCEPT !.E = y])
    BY <1>9, <2>1, Zenon DEF Evaluates
  <2>3. Good(y, decls)
    BY <1>2, <1>3, <2>1
  <2> QED BY <1>1, <2>2, <2>3, DoneHeld
<1> QED BY <1>4, <1>6, <1>7, <1>8, <1>9, Zenon DEF Operation

LEMMA StatementHolds == ASSUME Prepared, calls # <<>>, Statement PROVE Holding
<1>1. /\ \A y : Good(y, decls) => GoodLocals([v EXCEPT !.L = y, !.E = NoExpr], decls)
      /\ \A y : IsSeq(y) /\ (\A i \in DOMAIN y : Good(y[i], decls)) =>
           GoodLocals([v EXCEPT !.Exprs = y, !.E = NoExpr], decls)
      /\ GoodLocals(v, decls)
  BY PreparedTop, GoodKept
<1>2. ASSUME NEW op, NEW b, Evaluates(op, v, b) PROVE Holding
  <2>1. Done(v)
    BY <1>2, Zenon DEF Evaluates
  <2> QED BY <1>1, <2>1, DoneHeld
<1>3. CASE Evaluates("argument",
                     [v EXCEPT !.Exprs = IF v.E = NoExpr THEN @ ELSE Append(@, v.E),
                               !.E = NoExpr], FALSE)
  <2>1. PICK y : y = IF v.E = NoExpr THEN v.Exprs ELSE Append(v.Exprs, v.E)
    OBVIOUS
  <2>2. Done([v EXCEPT !.Exprs = y, !.E = NoExpr])
    BY <1>3, <2>1, Zenon DEF Evaluates
  <2>3. IsSeq(v.Exprs) /\ Good(v.E, decls) /\ \A i \in DOMAIN v.Exprs : Good(v.Exprs[i], decls)
    BY <1>1 DEF GoodLocals
  <2>4. PICK z : z = Append(v.Exprs, v.E)
    OBVIOUS
  <2>5. IsSeq(z) /\ \A i \in DOMAIN z : Good(z[i], decls)
    <3>1. PICK S : v.Exprs \in Seq(S)
      BY <2>3 DEF IsSeq
    <3>2. PICK G : G = {x \in S \cup {v.E} : Good(x, decls)}
      OBVIOUS
    <3>3. v.Exprs \in Seq(G)
      <4>1. \A i \in DOMAIN v.Exprs : v.Exprs[i] \in S
        BY <3>1, ElementOfSeq
      <4>2. \A i \in 1..Len(v.Exprs) : v.Exprs[i] \in G
        BY <2>3, <3>1, <3>2, <4>1, LenProperties
      <4> QED BY <3>1, <4>2, IsASeq
    <3>4. z \in Seq(G)
      BY <2>3, <2>4, <3>2, <3>3, AppendProperties
    <3> QED BY <3>2, <3>4, ElementOfSeq DEF IsSeq
  <2>6. IsSeq(y) /\ \A i \in DOMAIN y : Good(y[i], decls)
    BY <2>1, <2>3, <2>4, <2>5
  <2> QED BY <1>1, <2>2, <2>6, DoneHeld
<1>4. CASE Evaluates("target", [v EXCEPT !.L = v.E, !.E = NoExpr], FALSE)
  <2>1. Done([v EXCEPT !.L = v.E, !.E = NoExpr])
    BY <1>4, Zenon DEF Evaluates
  <2>2. Good(v.E, decls)
    BY <1>1 DEF GoodLocals
  <2> QED BY <1>1, <2>1, <2>2, DoneHeld
<1> QED BY <1>2, <1>3, <1>4, Zenon DEF Statement

LEMMA DeclarationHolds == ASSUME Prepared, calls # <<>>, Declaration \/ Procedure \/ Module PROVE Holding
<1>1. /\ \A y : /\ GoodLocals([v EXCEPT !.D = y], decls)
                /\ GoodLocals([v EXCEPT !.Fields = y], decls) /\ GoodLocals([v EXCEPT !.Params = y], decls)
      /\ GoodLocals(v, decls)
  BY PreparedTop, GoodKept
<1>2. ASSUME Done(v) PROVE Holding
  BY <1>1, <1>2, DoneHeld
<1>3. ASSUME NEW op, NEW b, Evaluates(op, v, b) PROVE Holding
  BY <1>2, <1>3, Zenon DEF Evaluates
<1>4. ASSUME NEW y, Done([v EXCEPT !.D = y]) PROVE Holding
  BY <1>1, <1>4, DoneHeld
<1>5. CASE Evaluates("field", [v EXCEPT !.Fields = @ \o FieldsOf(v.Ids, v.D)],
                     ~IsType(v.D) /\ v.Ids # <<>>)
  <2>1. PICK y : y = v.Fields \o FieldsOf(v.Ids, v.D)
    OBVIOUS
  <2>2. Done([v EXCEPT !.Fields = y])
    BY <1>5, <2>1, Zenon DEF Evaluates
  <2> QED BY <1>1, <2>2, DoneHeld
<1>6. CASE Declares("parameter",
              [v EXCEPT !.Params = @ \o (IF IsType(v.D)
                                           THEN InsertedDecls(Parameters(v.Ids, v.D, v.IsVar))
                                           ELSE <<>>)],
              actOnFormalParameterDeclaration(v.Ids, v.D, v.IsVar))
  <2>1. PICK y : y = v.Params \o (IF IsType(v.D) THEN InsertedDecls(Parameters(v.Ids, v.D, v.IsVar))
                                  ELSE <<>>)
    OBVIOUS
  <2>2. Done([v EXCEPT !.Params = y])
    BY <1>6, <2>1, Zenon DEF Declares
  <2> QED BY <1>1, <2>2, DoneHeld
<1>7. CASE Declaration
  BY <1>2, <1>5, <1>7, Zenon DEF Declaration, Declares
<1>8. CASE Procedure
  BY <1>2, <1>3, <1>4, <1>6, <1>8, Zenon DEF Procedure, Declares
<1>9. CASE Module
  BY <1>2, <1>3, <1>4, <1>9, Zenon DEF Module, Declares
<1> QED BY <1>7, <1>8, <1>9

\* The declarations keep operands that have a type.
LEMMA StepGoodDecls ==
  ASSUME Prepared, [Next]_vars
  PROVE  GoodDecls(decls') /\ Kinded(decls, decls')
<1>1. TypesHold /\ GoodDecls(decls) /\ \A k \in DOMAIN calls : GoodLocals(calls[k].locals, decls)
  BY DEF Prepared, Grounded
<1>2. IsSeq(decls) /\ \A x \in DOMAIN decls : DOMAIN decls[x] = DeclFields
  BY <1>1 DEF TypesHold, Coherence, Coherent, Declared
<1>3. CASE decls' = decls
  BY <1>1, <1>3, KindedItself
<1>4. CASE Headings /\ decls' # decls
  <2>1. /\ decls' = [decls EXCEPT ![v.D].params = v.Params,
                                  ![v.D].type = IF v.Ret = Null \/ IsType(v.Ret) THEN v.Ret ELSE @]
        /\ v.D \in DOMAIN decls /\ v.Ret \in DOMAIN decls \cup {Null}
    BY <1>4 DEF Headings, actOnProcedureHeading
  <2>2. PICK t : t = IF v.Ret = Null \/ IsType(v.Ret) THEN v.Ret ELSE decls[v.D].type
    OBVIOUS
  <2>3. DOMAIN decls[v.D] = DeclFields
    BY <1>2, <2>1
  <2>4. /\ DOMAIN decls' = DOMAIN decls
        /\ \A i \in DOMAIN decls : i # v.D => decls'[i] = decls[i]
        /\ decls'[v.D].kind = decls[v.D].kind /\ decls'[v.D].expr = decls[v.D].expr
        /\ decls'[v.D].fields = decls[v.D].fields /\ decls'[v.D].type = t
    BY <2>1, <2>2, <2>3 DEF DeclFields
  <2>5. Kinded(decls, decls')
    BY <2>4 DEF Kinded
  <2>6. TypeDecls(decls) \subseteq TypeDecls(decls') /\ \A x : Good(x, decls) => Good(x, decls')
    BY <2>5, GoodLater
  <2>7. decls[v.D].kind = "Proc" => t \in TypeDecls(decls) \cup {Unset, Null}
    BY <1>1, <2>1, <2>2 DEF GoodDecls, TypeDecls, IsType
  <2>8. ASSUME NEW i \in DOMAIN decls'
        PROVE  /\ Good(decls'[i].expr, decls') /\ IsSeq(decls'[i].fields)
               /\ decls'[i].kind = "Proc" => decls'[i].type \in TypeDecls(decls') \cup {Unset, Null}
    <3>1. /\ Good(decls[i].expr, decls) /\ IsSeq(decls[i].fields)
          /\ decls[i].kind = "Proc" => decls[i].type \in TypeDecls(decls) \cup {Unset, Null}
      BY <1>1, <2>4 DEF GoodDecls
    <3> QED BY <2>4, <2>6, <2>7, <3>1
  <2>9. {IntegerType, BooleanType} \subseteq TypeDecls(decls')
    BY <1>1, <2>6 DEF GoodDecls
  <2> QED BY <2>5, <2>8, <2>9 DEF GoodDecls
<1>5. CASE Adding /\ decls' # decls
  <2>1. PICK ds : Additions(ds)
    BY <1>5 DEF Adding
  <2>2. calls # <<>>
    <3>1. SUFFICES ASSUME calls = <<>> PROVE decls' = decls
      BY <1>5
    <3>2. \A op : ~Doing(op)
      BY <3>1 DEF Doing
    <3> QED BY <3>1, <3>2, Zenon DEF Next, Step, Halt, DoAdvance, DoExpect, DoConsume, DoWhen,
        DoWhile, DoCall, DoFail, DoReturn, Resynchronise, Skip, Crash, semaVars, vars, Analyse,
        TakeToken, LookUp, Operand, Operation, Statement, Declaration, Procedure, Module,
        EnterDeclScope, Evaluates, Declares
  <2>3. Good(v.E, decls) /\ IsSeq(v.Fields) /\ Good(NoExpr, decls) /\ IsSeq(<<>>)
    <3>1. <<>> \in Seq({})
      OBVIOUS
    <3> QED BY <2>2, <3>1, PreparedTop, GoodExprs DEF GoodLocals, TypedLocals, IsSeq
  <2>4. PICK n : n = Len(decls) /\ n \in Nat
    BY <1>1, DeclNumbers
  <2>5. /\ \A i \in DOMAIN decls : i \in DOMAIN decls' /\ decls'[i] = decls[i]
        /\ \A i \in DOMAIN decls' : i \in DOMAIN decls \/ (i - n \in DOMAIN ds /\ decls'[i] = ds[i - n])
    BY <1>2, <2>1, <2>4, Joint DEF Additions
  <2>6. Kinded(decls, decls')
    BY <2>5 DEF Kinded
  <2>7. TypeDecls(decls) \subseteq TypeDecls(decls') /\ \A x : Good(x, decls) => Good(x, decls')
    BY <2>6, GoodLater
  <2>8. ASSUME NEW i \in DOMAIN decls'
        PROVE  /\ Good(decls'[i].expr, decls') /\ IsSeq(decls'[i].fields)
               /\ decls'[i].kind = "Proc" => decls'[i].type \in TypeDecls(decls') \cup {Unset, Null}
    <3>1. CASE i \in DOMAIN decls
      <4>1. /\ Good(decls[i].expr, decls) /\ IsSeq(decls[i].fields)
            /\ decls[i].kind = "Proc" => decls[i].type \in TypeDecls(decls) \cup {Unset, Null}
        BY <1>1, <3>1 DEF GoodDecls
      <4> QED BY <2>5, <2>7, <3>1, <4>1
    <3>2. CASE i \notin DOMAIN decls
      <4>1. PICK j : j \in DOMAIN ds /\ decls'[i] = ds[j]
        BY <2>5, <2>8, <3>2
      <4>2. New(ds[j])
        BY <2>1, <4>1 DEF Additions
      <4> QED BY <2>3, <2>7, <4>1, <4>2 DEF New
    <3> QED BY <3>1, <3>2
  <2>9. {IntegerType, BooleanType} \subseteq TypeDecls(decls')
    BY <1>1, <2>7 DEF GoodDecls
  <2> QED BY <2>6, <2>8, <2>9 DEF GoodDecls
<1> QED BY <1>1, <1>3, <1>4, <1>5, StepAdds

(* Calls.                                                                   *)

\* The operands among what a call gets, and among what it gives back.
LEMMA OutOperands ==
  ASSUME NEW out \in Outs
  PROVE  /\ "E" \in DOMAIN out => out["E"] \in {"E", "R"}
         /\ "Exprs" \in DOMAIN out => out["Exprs"] = "Exprs"
         /\ "L" \notin DOMAIN out /\ "R" \notin DOMAIN out
         /\ \A p \in DOMAIN out : /\ out[p] \in {"E", "R"} => p = "E"
                                  /\ out[p] = "Exprs" => p = "Exprs"
                                  /\ out[p] # "L"
  BY DEF Outs, OwnOuts, None

LEMMA PassedGood ==
  ASSUME NEW out \in Outs, NEW d, GoodLocals(v, d)
  PROVE  GoodLocals(Passed(out), d)
<1>1. {"E", "L", "R", "Exprs"} \subseteq DOMAIN Locals
  BY DEF Locals
<1>2. Locals.E = NoExpr /\ Locals.L = NoExpr /\ Locals.R = NoExpr /\ Locals.Exprs = <<>>
  BY DEF Locals
<1>3. Passed(out).E \in {v.E, v.R, NoExpr} /\ Passed(out).L = NoExpr /\ Passed(out).R = NoExpr
  BY <1>1, <1>2, OutOperands DEF Passed
<1>4. Passed(out).Exprs \in {v.Exprs, <<>>}
  BY <1>1, <1>2, OutOperands DEF Passed
<1>5. Good(NoExpr, d) /\ IsSeq(<<>>)
  <2>1. <<>> \in Seq({})
    OBVIOUS
  <2> QED BY <2>1, GoodExprs DEF IsSeq
<1> QED BY <1>3, <1>4, <1>5 DEF GoodLocals

LEMMA WrittenGood ==
  ASSUME NEW out \in Outs, NEW inner, NEW outer, NEW d, DOMAIN inner = DOMAIN Locals,
         GoodLocals(inner, d), GoodLocals(outer, d)
  PROVE  GoodLocals(Written(out, inner, outer), d)
<1>1. {"E", "L", "R", "Exprs"} \subseteq DOMAIN inner
  BY DEF Locals
<1>2. ASSUME NEW x \in DOMAIN inner
      PROVE  \/ Written(out, inner, outer)[x] = outer[x]
             \/ \E p \in DOMAIN out : out[p] = x /\ Written(out, inner, outer)[x] = inner[p]
  <2>1. PICK R : R = {p \in DOMAIN out : out[p] = x}
    OBVIOUS
  <2>2. Written(out, inner, outer)[x] = IF R = {} THEN outer[x] ELSE inner[CHOOSE p \in R : TRUE]
    BY <2>1 DEF Written
  <2>3. R # {} => (CHOOSE p \in R : TRUE) \in R
    OBVIOUS
  <2> QED BY <2>1, <2>2, <2>3
<1>3. /\ Written(out, inner, outer).E \in {outer.E, inner.E}
      /\ Written(out, inner, outer).R \in {outer.R, inner.E}
      /\ Written(out, inner, outer).L = outer.L
      /\ Written(out, inner, outer).Exprs \in {outer.Exprs, inner.Exprs}
  BY <1>1, <1>2, OutOperands
<1> QED BY <1>3 DEF GoodLocals

AllGood(c, d) == \A k \in DOMAIN c : GoodLocals(c[k].locals, d)

LEMMA GoodReplaced ==
  ASSUME NEW c, IsSeq(c), c # <<>>, NEW d, AllGood(c, d), NEW d2, Kinded(d, d2),
         NEW g, NEW c2, Replaced(c, g, c2), GoodLocals(g.locals, d2)
  PROVE  AllGood(c2, d2)
<1>1. /\ DOMAIN c2 = DOMAIN c /\ c2[Len(c)] = g
      /\ \A k \in DOMAIN c2 : k # Len(c) => k < Len(c) /\ c2[k] = c[k]
  BY ReplacedAt
<1>2. \A k \in DOMAIN c : GoodLocals(c[k].locals, d2)
  BY GoodLater DEF AllGood
<1> QED BY <1>1, <1>2 DEF AllGood

LEMMA GoodPushed ==
  ASSUME NEW c, IsSeq(c), c # <<>>, NEW d, AllGood(c, d),
         NEW g, NEW h, NEW c2, Pushed(c, g, h, c2), GoodLocals(g.locals, d), GoodLocals(h.locals, d)
  PROVE  AllGood(c2, d)
<1>1. c2[Len(c)] = g /\ c2[Len(c) + 1] = h
  BY DEF Pushed
<1>2. \A k \in DOMAIN c2 :
        k = Len(c) \/ k = Len(c) + 1 \/ (k < Len(c) /\ k \in DOMAIN c /\ c2[k] = c[k])
  BY PushedAt
<1> QED BY <1>1, <1>2 DEF AllGood

LEMMA GoodPopped ==
  ASSUME NEW c, IsSeq(c), c # <<>>, NEW d, AllGood(c, d),
         NEW g, NEW c2, Popped(c, g, c2), Len(c) > 1 => GoodLocals(g.locals, d)
  PROVE  AllGood(c2, d)
<1>1. /\ \A k \in DOMAIN c2 : k < Len(c) /\ k \in DOMAIN c /\ Len(c) > 1
      /\ \A k \in DOMAIN c2 : IF k = Len(c) - 1 THEN c2[k] = g ELSE c2[k] = c[k]
  BY PoppedAt
<1> QED BY <1>1 DEF AllGood

\* The semantic actions, and what takes a token.
LEMMA AnalyseHolds == ASSUME Prepared, Analyse, ~errors' PROVE Holding \/ EnterDeclScope
<1>1. EnterDeclScope \/ calls # <<>>
  <2>1. \A op : Doing(op) => calls # <<>>
    BY DEF Doing
  <2> QED BY <2>1, Zenon DEF Analyse, TakeToken, LookUp, Operand, Operation, Statement, Declaration,
      Procedure, Module, Evaluates, Declares
<1> QED BY <1>1, TakeTokenHolds, OperandHolds, OperationHolds, StatementHolds, DeclarationHolds, Zenon
        DEF Analyse

\* The operands of the innermost call after an action of it.
LEMMA TopHolds ==
  ASSUME Prepared, [Next]_vars, ~errors', NEW op, NEW locals, Advances(op, locals)
  PROVE  GoodLocals(locals, decls)
<1>1. calls # <<>> /\ op \in Actions /\ Doing(op)
  BY DEF Advances, Doing
<1>2. /\ IsSeq(calls) /\ Coherence /\ Len(calls) \in DOMAIN calls /\ Top = calls[Len(calls)] /\ v = Top.locals
      /\ GoodLocals(v, decls)
  BY <1>1, GroundedTop, PreparedTop DEF Prepared
<1>3. PICK g : Replaced(calls, g, calls') /\ g.locals = locals
  BY DEF Advances, Goes
<1>4. calls'[Len(calls)].locals = locals
  BY <1>3 DEF Replaced
<1>5. ASSUME NEW r, NEW x, NEW s, Goes(r, x, s) PROVE x = locals
  <2>1. PICK h : Replaced(calls, h, calls') /\ h.locals = x
    BY <1>5 DEF Goes
  <2>2. calls'[Len(calls)].locals = x
    BY <2>1 DEF Replaced
  <2> QED BY <1>4, <2>2
<1>6. CASE Holding
  <2>1. PICK x : Done(x) /\ GoodLocals(x, decls)
    BY <1>6 DEF Holding
  <2>2. Goes(Tail(Top.rest), x, Top.scoped)
    BY <1>1, <1>2, <2>1, GoesDone
  <2> QED BY <1>5, <2>1, <2>2
<1>7. CASE Done(v)
  BY <1>2, <1>6, <1>7 DEF Holding
<1>8. CASE Recover
  <2>1. Goes(<<Handler>>, v, Top.scoped)
    BY <1>1, <1>2, <1>8, GoesRest DEF Recover
  <2> QED BY <1>2, <1>5, <2>1
<1>9. CASE calls' = calls
  BY <1>2, <1>4, <1>9
<1>10. CASE DoAdvance \/ DoExpect \/ DoConsume \/ DoFail
  BY <1>7, <1>8, <1>10, Zenon DEF DoAdvance, DoExpect, DoConsume, DoFail
<1>11. CASE Crash \/ UNCHANGED vars
  BY <1>9, <1>11 DEF Crash, vars
<1>12. CASE DoWhen \/ DoWhile \/ DoCall \/ DoReturn \/ Resynchronise \/ Skip \/ EnterDeclScope
  <2>1. \A o : Doing(o) => o \in Actions
    BY <1>1, OneDoing
  <2>2. Top.rest # <<>>
    BY <1>1 DEF Doing
  <2>3. ~Doing("when") /\ ~Doing("while") /\ ~Doing("call") /\ ~Doing("handler") /\ ~Doing("enterScope")
    BY <2>1 DEF Actions
  <2> QED BY <1>12, <2>2, <2>3 DEF DoWhen, DoWhile, DoCall, DoReturn, Resynchronise, Skip, EnterDeclScope
<1>13. CASE Analyse
  BY <1>6, <1>12, <1>13, AnalyseHolds
<1> QED BY <1>10, <1>11, <1>12, <1>13, Zenon DEF Next, Step, Halt

LEMMA StepAllGood ==
  ASSUME Prepared, [Next]_vars, ~errors'
  PROVE  AllGood(calls', decls')
<1>1. TypesHold /\ Grounded /\ AllGood(calls, decls) /\ Kinded(decls, decls')
  BY StepGoodDecls DEF Prepared, Grounded, AllGood
<1>2. ASSUME calls # <<>>
      PROVE  /\ IsSeq(calls) /\ GoodLocals(v, decls) /\ DOMAIN v = DOMAIN Locals
             /\ WellFormed(Top, decls) /\ Coherence
             /\ \A x : GoodLocals(x, decls) => GoodLocals(x, decls')
  BY <1>1, <1>2, GroundedTop, PreparedTop, GoodLater
<1>3. ASSUME NEW r, NEW x, NEW s, Goes(r, x, s), GoodLocals(x, decls), calls # <<>>
      PROVE  AllGood(calls', decls')
  <2>1. PICK g : Replaced(calls, g, calls') /\ g.locals = x
    BY <1>3 DEF Goes
  <2> QED BY <1>1, <1>2, <1>3, <2>1, GoodReplaced
<1>4. ASSUME NEW op, NEW locals, Advances(op, locals) PROVE AllGood(calls', decls')
  BY <1>3, <1>4, TopHolds DEF Advances, Doing
<1>5. CASE Entering
  BY <1>2, <1>3, <1>5 DEF Entering, Doing
<1>6. CASE Recovers
  BY <1>2, <1>3, <1>6 DEF Recovers, Doing
<1>7. ASSUME NEW r, Branches(r) PROVE AllGood(calls', decls')
  BY <1>2, <1>3, <1>7 DEF Branches, Doing
<1>8. CASE CallsOn
  <2>1. Doing("call") /\ calls # <<>> /\ Top.rest # <<>> /\ Top.rest[1].op = "call" /\ decls' = decls
    BY <1>8 DEF CallsOn, Doing
  <2>2. PICK g, h :
          /\ Pushed(calls, g, h, calls') /\ g.locals = v
          /\ h.out = Top.rest[1].out /\ h.locals = Passed(h.out)
    BY <1>8 DEF CallsOn
  <2>3. h.out \in Outs
    BY <1>2, <2>1, <2>2, PartsOf
  <2>4. GoodLocals(h.locals, decls)
    BY <1>2, <2>1, <2>2, <2>3, PassedGood
  <2> QED BY <1>1, <1>2, <2>1, <2>2, <2>4, GoodPushed
<1>9. ASSUME NEW failed \in BOOLEAN, Leaves(failed) PROVE AllGood(calls', decls')
  <2>1. calls # <<>> /\ decls' = decls
    BY <1>9 DEF Leaves
  <2>2. PICK g : /\ Popped(calls, g, calls')
                 /\ Len(calls) > 1 => Returned(calls[Len(calls) - 1], failed, g)
    BY <1>9 DEF Leaves
  <2>3. ASSUME Len(calls) > 1 PROVE GoodLocals(g.locals, decls)
    <3>1. PICK b : b = calls[Len(calls) - 1]
      OBVIOUS
    <3>2. GoodLocals(b.locals, decls)
      BY <1>1, <2>1, <2>3, <3>1, CallerOf DEF AllGood
    <3>3. g.locals = Written(Top.out, v, b.locals)
      BY <2>2, <2>3, <3>1 DEF Returned
    <3> QED BY <1>2, <2>1, <3>2, <3>3, WrittenGood DEF WellFormed
  <2> QED BY <1>1, <1>2, <2>1, <2>2, <2>3, GoodPopped
<1>10. CASE Idles
  BY <1>1, <1>10 DEF Idles
<1> QED BY <1>1, <1>4, <1>5, <1>6, <1>7, <1>8, <1>9, <1>10, StepMoves

Results == {"rejected", "kept", "not written"}

Operands(c, d, e) == e \/ (GoodDecls(d) /\ AllGood(c, d))

\* The invariant.
KnownHold ==
  /\ Grounded /\ Settled(calls, decls, tok, errors) /\ Operands(calls, decls, errors)
  /\ results \in Seq(Results)

LEMMA StepKnown ==
  ASSUME Grounded, Settled(calls, decls, tok, errors), Operands(calls, decls, errors),
         [Next]_vars, TypesHold'
  PROVE  /\ Grounded' /\ Settled(calls', decls', tok', errors')
         /\ Operands(calls', decls', errors')
<1>1. TypesHold /\ Shapes(calls) /\ Asked(calls, tok) /\ Ending
  BY DEF Grounded
<1>2. Shapes(calls') /\ Asked(calls', tok') /\ Ending'
  BY <1>1, StepShapes, StepAsked, StepEnds
<1>3. Grounded'
  BY <1>2, Zenon DEF Grounded
<1>4. ASSUME ~errors' PROVE GoodDecls(decls') /\ AllGood(calls', decls')
  <2>1. ~errors
    BY <1>4, ErrorsStay
  <2>2. Prepared
    BY <2>1 DEF Operands, Prepared, AllGood
  <2> QED BY <1>4, <2>2, StepGoodDecls, StepAllGood
<1> QED BY <1>3, <1>4, StepSettled DEF Operands

\* The parser and its analysis when they start, and before.
LEMMA StartKnown ==
  ASSUME NEW c \in {<<Frame("parse", Locals, None)>>, <<>>}
  PROVE  /\ Shapes(c) /\ Asked(c, "none") /\ Settled(c, InitialDecls, "none", FALSE)
         /\ Operands(c, InitialDecls, FALSE)
<1>1. PICK f : f = Frame("parse", Locals, None)
  OBVIOUS
<1>2. f.fn = "parse" /\ f.out = None /\ f.rest = parse.body /\ f.locals = Locals /\ f.scoped = FALSE
  BY <1>1 DEF Frame, Rules
<1>3. (DOMAIN c = {1} /\ Len(c) = 1 /\ c[1] = f) \/ (c = <<>> /\ DOMAIN c = {})
  BY <1>1
<1>4. ~Searches(f.rest)
  <2>1. f.rest[1].op = "advance"
    BY <1>2 DEF parse, Rule, Advance
  <2> QED BY <2>1 DEF Searches
<1>5. Asked(c, "none")
  BY <1>3, <1>4 DEF Asked
<1>6. Shapes(c)
  <2>1. f.rest = Rules[f.fn].body /\ f.fn \in DOMAIN Rules /\ DOMAIN f.out = {}
    BY <1>2, RuleNames, OutNames DEF Rules, None
  <2>2. Shaped(f)
    BY <1>2, <2>1, ShapedCalled
  <2> QED BY <1>3, <2>2 DEF Shapes
<1>7. PICK x1, x2, x3, x4 :
        /\ x1 = Decl("Pervasive", "INTEGER", Null)
        /\ x2 = Decl("Pervasive", "BOOLEAN", Null)
        /\ x3 = [Decl("Const", "TRUE", Null) EXCEPT !.expr = BooleanLiteral(TRUE)]
        /\ x4 = [Decl("Const", "FALSE", Null) EXCEPT !.expr = BooleanLiteral(FALSE)]
  OBVIOUS
<1>8. PICK d : d = <<x1, x2, x3, x4>> /\ d = InitialDecls
  BY <1>7 DEF InitialDecls
<1>9. DOMAIN d = 1..4 /\ \A i \in 1..4 : d[i] \in {x1, x2, x3, x4} /\ d[1] = x1 /\ d[2] = x2
  BY <1>8
<1>10. /\ x1.kind = "Pervasive" /\ x1.type = Null /\ x1.expr = NoExpr /\ x1.fields = <<>>
       /\ x2.kind = "Pervasive" /\ x2.type = Null /\ x2.expr = NoExpr /\ x2.fields = <<>>
  BY <1>7 DEF Decl
<1>11. x3.kind = "Const" /\ x3.type = Null /\ x3.expr = BooleanLiteral(TRUE) /\ x3.fields = <<>>
  BY <1>7 DEF Decl
<1>12. x4.kind = "Const" /\ x4.type = Null /\ x4.expr = BooleanLiteral(FALSE) /\ x4.fields = <<>>
  BY <1>7 DEF Decl
<1>13. Determined(d) = DOMAIN d
  <2>1. \A i \in DOMAIN d : d[i].type = Null
    BY <1>9, <1>10, <1>11, <1>12
  <2>2. Null # Unset
    BY DEF Null, Unset
  <2>3. \A i \in DOMAIN d : d[i].type # Unset
    BY <2>1, <2>2
  <2> QED BY <2>3, Zenon DEF Determined
<1>14. {IntegerType, BooleanType} \subseteq TypeDecls(d)
  BY <1>9, <1>10 DEF TypeDecls, IntegerType, BooleanType
<1>15. Good(NoExpr, d) /\ \A b : Good(BooleanLiteral(b), d)
  BY <1>14, GoodExprs DEF BooleanLiteral
<1>16. IsSeq(<<>>)
  <2>1. <<>> \in Seq({})
    OBVIOUS
  <2> QED BY <2>1 DEF IsSeq
<1>17. GoodDecls(d)
  <2>1. \A x \in {x1, x2, x3, x4} : Good(x.expr, d) /\ IsSeq(x.fields) /\ x.kind # "Proc"
    BY <1>10, <1>11, <1>12, <1>15, <1>16
  <2> QED BY <1>9, <1>14, <2>1 DEF GoodDecls
<1>18. AllGood(c, d)
  <2>1. Locals.E = NoExpr /\ Locals.L = NoExpr /\ Locals.R = NoExpr /\ Locals.Exprs = <<>>
    BY DEF Locals
  <2>2. GoodLocals(Locals, d)
    BY <1>15, <1>16, <2>1 DEF GoodLocals
  <2> QED BY <1>2, <1>3, <2>2 DEF AllGood
<1>19. Calm(c, d, "none")
  <2>1. Locals.D = Null
    BY DEF Locals
  <2>2. Knows(f, d)
    BY <1>2, <2>1 DEF Knows
  <2> QED BY <1>3, <1>13, <2>2 DEF Calm
<1> QED BY <1>5, <1>6, <1>8, <1>17, <1>18, <1>19 DEF Settled, Operands

\* A text does not hold what the lexer returns at its end.
LEMMA TextRead ==
  ASSUME results \in Seq(Results), ReadFile PROVE Ending'
<1>1. tok' = "none" /\ File <= Len(Others) + 1
  BY DEF ReadFile
<1>2. text' \in Seq(Tokens)
  <2>1. CASE File = 1
    <3>1. text' \in Programs
      BY <2>1 DEF ReadFile
    <3> QED BY <3>1, TokensAssumption
  <2>2. CASE File # 1
    <3>1. text' = Others[File - 1]
      BY <2>2 DEF ReadFile
    <3>2. Len(results) \in Nat /\ Len(Others) \in Nat
      BY OthersAssumption, LenProperties
    <3>3. File - 1 \in 1..Len(Others)
      BY <1>1, <2>2, <3>2 DEF File
    <3> QED BY <3>1, <3>3, OthersAssumption, ElementOfSeq, LenProperties
  <2> QED BY <2>1, <2>2
<1> QED BY <1>1, <1>2 DEF Ending

LEMMA DriverStepKnown == ASSUME KnownHold, [DriverNext]_driverVars PROVE KnownHold'
<1>1. TypesHold'
  BY DriverStepTyped DEF KnownHold, Grounded
<1>2. results' \in Seq(Results)
  <2>1. ASSUME NEW r \in Results, Becomes(r) PROVE results' \in Seq(Results)
    BY <2>1, AppendProperties DEF Becomes, KnownHold
  <2>2. Becomes("rejected") \/ Becomes("kept") \/ Becomes("not written") \/ results' = results
    BY Zenon DEF DriverNext, ReadError, ReadFile, Parse, EndParse, Generate, FatalError, Emit,
       DriverHalt, driverVars, Dies
  <2> QED BY <2>1, <2>2 DEF KnownHold, Results
<1>3. CASE ReadFile
  <2>1. /\ calls' = <<Frame("parse", Locals, None)>> /\ decls' = InitialDecls /\ errors' = FALSE
        /\ tok' = "none"
    BY <1>3, Zenon DEF ReadFile
  <2>2. PICK c : c = <<Frame("parse", Locals, None)>>
    OBVIOUS
  <2>3. /\ Shapes(c) /\ Asked(c, "none") /\ Settled(c, InitialDecls, "none", FALSE)
        /\ Operands(c, InitialDecls, FALSE)
    BY <2>2, StartKnown
  <2>4. Ending'
    BY <1>3, TextRead DEF KnownHold
  <2>5. Shapes(calls') /\ Asked(calls', tok')
    BY <2>1, <2>2, <2>3
  <2>6. Settled(calls', decls', tok', errors') /\ Operands(calls', decls', errors')
    BY <2>1, <2>2, <2>3
  <2> QED BY <1>1, <1>2, <2>4, <2>5, <2>6, Zenon DEF KnownHold, Grounded
<1>4. CASE [Next]_vars
  <2>1. /\ Grounded' /\ Settled(calls', decls', tok', errors') /\ Operands(calls', decls', errors')
    BY <1>1, <1>4, StepKnown DEF KnownHold
  <2> QED BY <1>2, <2>1, Zenon DEF KnownHold
<1>5. ReadFile \/ [Next]_vars
  <2>1. Parse => Next
    BY Zenon DEF Parse, Next
  <2>2. ReadError \/ EndParse \/ Generate \/ FatalError \/ Emit \/ DriverHalt \/ UNCHANGED driverVars
        => UNCHANGED vars
    BY Zenon DEF ReadError, EndParse, Generate, FatalError, Emit, DriverHalt, driverVars, parserVars
  <2> QED BY <2>1, <2>2, Zenon DEF DriverNext
<1> QED BY <1>3, <1>4, <1>5

LEMMA OperandsTyped == ASSUME KnownHold PROVE TypesKnown
<1>1. SUFFICES ASSUME ~errors PROVE TypesKnown
  BY DEF TypesKnown
<1>2. \A k \in DOMAIN calls : GoodLocals(calls[k].locals, decls)
  BY <1>1 DEF KnownHold, Operands, AllGood
<1>3. \A E : Good(E, decls) => E = NoExpr \/ (E.type \in DOMAIN decls /\ IsType(E.type))
  BY DEF Good, TypeDecls, IsType
<1>4. SUFFICES ASSUME NEW k \in DOMAIN calls, NEW x, x = calls[k].locals
               PROVE  /\ x.E = NoExpr \/ (x.E.type \in DOMAIN decls /\ IsType(x.E.type))
                      /\ x.L = NoExpr \/ (x.L.type \in DOMAIN decls /\ IsType(x.L.type))
                      /\ x.R = NoExpr \/ (x.R.type \in DOMAIN decls /\ IsType(x.R.type))
                      /\ \A i \in DOMAIN x.Exprs :
                           \/ x.Exprs[i] = NoExpr
                           \/ x.Exprs[i].type \in DOMAIN decls /\ IsType(x.Exprs[i].type)
  BY DEF TypesKnown
<1>5. GoodLocals(x, decls)
  BY <1>2, <1>4
<1> QED BY <1>3, <1>5 DEF GoodLocals

\* Whatever the files, and unless an error has been reported, every operand that the
\* parser holds has a type: none is the missing type of a proper procedure's call, and
\* none the type of a procedure whose heading is still being read, which its constructor
\* leaves uninitialised (Sema.cpp:280-292, 594-610, AST.h:388).
THEOREM DriverTypesKnown == DriverSpec => []TypesKnown
<1>1. DriverInit => KnownHold
  <2>1. SUFFICES ASSUME DriverInit PROVE KnownHold
    OBVIOUS
  <2>2. /\ calls = <<>> /\ decls = InitialDecls /\ errors = FALSE /\ tok = "none" /\ text = <<>>
        /\ results = <<>>
    BY <2>1, Zenon DEF DriverInit, initialize
  <2>3. TypesHold
    BY <2>1, StartCoherent, StartTyped, Zenon DEF DriverInit, initialize, TypesHold, Coherence
  <2>4. /\ Shapes(calls) /\ Asked(calls, tok) /\ Settled(calls, decls, tok, errors)
        /\ Operands(calls, decls, errors)
    BY <2>2, StartKnown
  <2>5. Ending /\ results \in Seq(Results)
    BY <2>2 DEF Ending
  <2> QED BY <2>3, <2>4, <2>5 DEF KnownHold, Grounded
<1>2. KnownHold /\ [DriverNext]_driverVars => KnownHold'
  BY DriverStepKnown
<1>3. KnownHold => TypesKnown
  BY OperandsTyped
<1> QED BY <1>1, <1>2, <1>3, PTL DEF DriverSpec

-----------------------------------------------------------------------------
(* The names of symbols.                                                    *)

\* A declaration is enclosed by one that was there before it, or by none.
Inward(d) == \A i \in DOMAIN d : d[i].outer \in Nat /\ d[i].outer < i

\* p says of 0 and the first n declarations what their paths are.
IsPath(p, n) ==
  p = [e \in 0..n |-> IF e = Null THEN <<>> ELSE Append(p[decls[e].outer], decls[e].name)]

LEMMA PathExtended ==
  ASSUME IsSeq(decls), Inward(decls), NEW n \in Nat, n + 1 \in DOMAIN decls,
         NEW p, IsPath(p, n)
  PROVE  \E q : IsPath(q, n + 1)
<1>1. PICK o, x : o = decls[n + 1].outer /\ x = decls[n + 1].name
  OBVIOUS
<1>2. o \in 0..n
  BY <1>1 DEF Inward
<1>3. PICK q : q = [e \in 0..(n + 1) |-> IF e = n + 1 THEN Append(p[o], x) ELSE p[e]]
  OBVIOUS
<1>4. \A e \in 0..n : q[e] = p[e]
  BY <1>3
<1>5. DOMAIN decls = 1..Len(decls) /\ Len(decls) \in Nat
  BY SeqFacts
<1>6. ASSUME NEW e \in 0..(n + 1)
      PROVE  q[e] = IF e = Null THEN <<>> ELSE Append(q[decls[e].outer], decls[e].name)
  <2>1. CASE e = n + 1
    <3>1. q[e] = Append(p[o], x) /\ e # Null /\ q[o] = p[o]
      BY <1>2, <1>3, <1>4, <2>1 DEF Null
    <3>2. decls[e].outer = o /\ decls[e].name = x
      BY <1>1, <2>1
    <3> QED BY <3>1, <3>2
  <2>2. CASE e # n + 1 /\ e # Null
    <3>1. e \in 0..n /\ e \in DOMAIN decls
      BY <1>5, <2>2 DEF Null
    <3>2. decls[e].outer \in 0..n
      BY <3>1 DEF Inward
    <3>3. p[e] = Append(p[decls[e].outer], decls[e].name)
      BY <2>2, <3>1 DEF IsPath
    <3> QED BY <1>4, <2>2, <3>1, <3>2, <3>3
  <2>3. CASE e = Null
    <3>1. e \in 0..n
      BY <2>3 DEF Null
    <3>2. p[e] = <<>>
      BY <2>3, <3>1 DEF IsPath
    <3> QED BY <1>4, <2>3, <3>1, <3>2
  <2> QED BY <2>1, <2>2, <2>3
<1>7. IsPath(q, n + 1)
  BY <1>3, <1>6 DEF IsPath
<1> QED BY <1>7

\* The path of a declaration is defined, as each is enclosed by one before it.
LEMMA PathExists ==
  ASSUME IsSeq(decls), Inward(decls)
  PROVE  \E p : IsPath(p, Len(decls))
<1>1. DOMAIN decls = 1..Len(decls) /\ Len(decls) \in Nat
  BY SeqFacts
<1>2. PICK A : A = {n \in 0..Len(decls) : ~\E p : IsPath(p, n)}
  OBVIOUS
<1>3. CASE A = {}
  BY <1>1, <1>2, <1>3
<1>4. CASE A # {}
  <2>0. A \subseteq Nat
    BY <1>1, <1>2
  <2>1. PICK n \in A : \A i \in A : n <= i
    BY <1>4, <2>0, Smallest
  <2>2. n \in Nat /\ n <= Len(decls) /\ ~\E p : IsPath(p, n)
    BY <1>1, <1>2, <2>1
  <2>3. CASE n = 0
    <3>1. PICK p : p = [e \in 0..0 |-> <<>>]
      OBVIOUS
    <3>2. \A e \in 0..0 : e = Null
      BY DEF Null
    <3>3. [e \in 0..0 |-> IF e = Null THEN <<>> ELSE Append(p[decls[e].outer], decls[e].name)]
            = [e \in 0..0 |-> <<>>]
      BY <3>2, Zenon
    <3>4. IsPath(p, 0)
      BY <3>1, <3>3 DEF IsPath
    <3> QED BY <2>2, <2>3, <3>4
  <2>4. CASE n # 0
    <3>1. PICK m \in Nat : n = m + 1 /\ m \in 0..Len(decls) /\ m + 1 \in DOMAIN decls
      <4>1. n - 1 \in Nat /\ n = (n - 1) + 1
        BY <2>2, <2>4
      <4> QED BY <1>1, <2>2, <4>1
    <3>2. m \notin A
      BY <2>1, <3>1
    <3>3. PICK p : IsPath(p, m)
      BY <1>2, <3>1, <3>2
    <3>4. \E q : IsPath(q, m + 1)
      BY <3>1, <3>3, PathExtended
    <3> QED BY <2>2, <3>1, <3>4
  <2> QED BY <2>3, <2>4
<1> QED BY <1>3, <1>4

LEMMA Mangled ==
  ASSUME IsSeq(decls), Inward(decls), NEW d \in DOMAIN decls
  PROVE  mangleName(d) = Append(IF decls[d].outer = Null THEN <<>> ELSE mangleName(decls[d].outer),
                                decls[d].name)
<1>1. PICK q : IsPath(q, Len(decls))
  BY PathExists
<1>2. PICK p : p = CHOOSE x : IsPath(x, Len(decls))
  OBVIOUS
<1>3. IsPath(p, Len(decls))
  BY <1>1, <1>2
<1>4. \A e : mangleName(e) = p[e]
  BY <1>2, Zenon DEF mangleName, IsPath
<1>5. DOMAIN decls = 1..Len(decls) /\ Len(decls) \in Nat /\ decls[d].outer \in 0..Len(decls)
  BY SeqFacts DEF Inward
<1>6. d \in 0..Len(decls) /\ d # Null
  BY <1>5 DEF Null
<1>7. p[d] = Append(p[decls[d].outer], decls[d].name)
  BY <1>3, <1>6 DEF IsPath
<1>8. decls[d].outer = Null => p[decls[d].outer] = <<>>
  BY <1>3, <1>5 DEF IsPath
<1> QED BY <1>4, <1>7, <1>8

\* A path is a sequence.
LEMMA MangledSeq ==
  ASSUME IsSeq(decls), Inward(decls), NEW d \in DOMAIN decls, NEW N,
         \A i \in DOMAIN decls : decls[i].name \in N
  PROVE  mangleName(d) \in Seq(N)
<1>1. DOMAIN decls = 1..Len(decls) /\ Len(decls) \in Nat
  BY SeqFacts
<1>2. PICK A : A = {i \in DOMAIN decls : mangleName(i) \notin Seq(N)}
  OBVIOUS
<1>3. SUFFICES ASSUME A # {} PROVE FALSE
  BY <1>2
<1>4. PICK n \in A : \A i \in A : n <= i
  BY <1>1, <1>2, <1>3, Smallest
<1>5. n \in DOMAIN decls /\ n \in Nat /\ mangleName(n) \notin Seq(N)
  BY <1>1, <1>2, <1>4
<1>6. PICK o : o = decls[n].outer
  OBVIOUS
<1>7. o \in Nat /\ o < n
  BY <1>5, <1>6 DEF Inward
<1>8. ASSUME o # Null PROVE mangleName(o) \in Seq(N)
  <2>1. o \in DOMAIN decls /\ ~(n <= o)
    BY <1>1, <1>5, <1>7, <1>8 DEF Null
  <2> QED BY <1>2, <1>4, <2>1
<1>9. PICK s : s = IF o = Null THEN <<>> ELSE mangleName(o)
  OBVIOUS
<1>10. s \in Seq(N)
  BY <1>8, <1>9
<1>11. mangleName(n) = Append(s, decls[n].name)
  BY <1>5, <1>6, <1>9, Mangled
<1> QED BY <1>5, <1>10, <1>11, AppendProperties

(* The names of a scope.                                                    *)

\* All declarations but modules are inserted into a scope.
Named(d) == {i \in DOMAIN d : d[i].kind # "Module"}

\* What is enclosed by one declaration has different names.
Distinct(d) ==
  \A i, j \in Named(d) : d[i].outer = d[j].outer /\ d[i].name = d[j].name => i = j

\* The scopes s are those of the declarations o, each enclosed by the one before it, and
\* all that o[p] encloses has its name in s[p].
Enclosers(o, s, d, cur) ==
  /\ o[Len(s)] = cur
  /\ \A p \in 1..Len(s) :
       /\ o[p] \in DOMAIN d \cup {Null} /\ \A q \in 1..(p - 1) : o[q] < o[p]
       /\ p > 1 => d[o[p]].outer = o[p - 1]
       /\ \A i \in Named(d) : d[i].outer = o[p] => d[i].name \in DOMAIN s[p]

\* A declaration whose scope will be entered next encloses nothing yet.
Empty(D, d) == \A i \in DOMAIN d : d[i].outer # D
Unused(c, d) == \A k \in DOMAIN c : ~c[k].scoped /\ Enters(c[k].rest) => Empty(c[k].locals.D, d)

NamesHold ==
  /\ TypesHold /\ Inward(decls) /\ Unused(calls, decls)
  /\ \E o : Enclosers(o, scopes, decls, current)
  /\ errors \/ Distinct(decls)

(* What a step does to the names.                                           *)

Steady ==
  /\ scopes' = scopes /\ current' = current /\ DOMAIN decls' = DOMAIN decls
  /\ \A i \in DOMAIN decls : /\ decls'[i].outer = decls[i].outer /\ decls'[i].kind = decls[i].kind
                             /\ decls'[i].name = decls[i].name
Inserts == \E ds : Fresh(ds) /\ insert(ds) /\ current' = current
Modular ==
  \E x : /\ x.kind = "Module" /\ DOMAIN x = DeclFields /\ x.outer = current
         /\ decls' = decls \o <<x>> /\ scopes' = scopes /\ current' = current
Exits == Top.scoped /\ calls # <<>> /\ decls' = decls /\ leaveScope

LEMMA SteadyStep ==
  ASSUME scopes' = scopes, current' = current, decls' = decls
  PROVE  Steady
  BY DEF Steady

LEMMA TypedSteps ==
  ASSUME NEW ds, Fresh(ds), NEW D, DeclareTyped(ds, D), current' = current
  PROVE  Steady \/ Inserts
  BY SteadyStep, Zenon DEF DeclareTyped, Inserts

LEMMA DeclarationSteps ==
  ASSUME TypesHold, calls # <<>>, Declaration
  PROVE  Steady \/ Inserts
<1>1. IsSeq(v.Ids)
  BY VFacts DEF TypesHold
<1>2. CASE Declares("constant", v, actOnConstantDeclaration(v.Name, v.E))
  <2>1. PICK x : x = [Decl("Const", v.Name, current) EXCEPT !.expr = v.E]
    OBVIOUS
  <2>2. DOMAIN x = DeclFields /\ x.outer = current
    BY <2>1 DEF Decl, DeclFields
  <2>3. insert(<<x>>) /\ current' = current
    BY <1>2, <2>1 DEF Declares, actOnConstantDeclaration
  <2>4. Fresh(<<x>>)
    BY <2>2, FreshOne
  <2> QED BY <2>3, <2>4, Zenon DEF Inserts
<1>3. ASSUME NEW kind, NEW op, Declares(op, v, actOnTypeDeclaration(kind, v.Name, v.D))
      PROVE  Steady \/ Inserts
  <2>1. PICK x : x = [Decl(kind, v.Name, current) EXCEPT !.type = v.D]
    OBVIOUS
  <2>2. DOMAIN x = DeclFields /\ x.outer = current
    BY <2>1 DEF Decl, DeclFields
  <2>3. DeclareTyped(<<x>>, v.D) /\ current' = current
    BY <1>3, <2>1, Zenon DEF Declares, actOnTypeDeclaration
  <2>4. Fresh(<<x>>)
    BY <2>2, FreshOne
  <2> QED BY <2>3, <2>4, TypedSteps
<1>4. CASE Declares("record", v, actOnRecordTypeDeclaration(v.Name, v.Fields))
  <2>1. PICK x : x = [Decl("Record", v.Name, current) EXCEPT !.fields = v.Fields]
    OBVIOUS
  <2>2. DOMAIN x = DeclFields /\ x.outer = current
    BY <2>1 DEF Decl, DeclFields
  <2>3. insert(<<x>>) \/ (decls' = decls /\ scopes' = scopes)
    BY <1>4, <2>1 DEF Declares, actOnRecordTypeDeclaration
  <2>4. Fresh(<<x>>) /\ current' = current
    BY <1>4, <2>2, FreshOne DEF Declares
  <2> QED BY <2>3, <2>4, SteadyStep, Zenon DEF Inserts
<1>5. CASE Declares("variable", v, actOnVariableDeclaration(v.Ids, v.D))
  <2>1. DeclareTyped(Variables(v.Ids, v.D), v.D) /\ current' = current
    BY <1>5, Zenon DEF Declares, actOnVariableDeclaration
  <2> QED BY <1>1, <2>1, VariablesFresh, TypedSteps
<1>6. ASSUME NEW op, NEW x, NEW b, Evaluates(op, x, b) PROVE Steady
  BY <1>6, SteadyStep, Zenon DEF Evaluates
<1> QED BY <1>2, <1>3, <1>4, <1>5, <1>6, Zenon DEF Declaration

LEMMA ProcedureSteps ==
  ASSUME TypesHold, calls # <<>>, Procedure
  PROVE  Steady \/ Inserts
<1>1. IsSeq(v.Ids)
  BY VFacts DEF TypesHold
<1>2. CASE Declares("newProcedure", [v EXCEPT !.D = Len(decls) + 1], actOnProcedureDeclaration(tok))
  <2>1. PICK x : x = [Decl("Proc", tok, current) EXCEPT !.type = Unset]
    OBVIOUS
  <2>2. DOMAIN x = DeclFields /\ x.outer = current
    BY <2>1 DEF Decl, DeclFields
  <2>3. insert(<<x>>) /\ current' = current
    BY <1>2, <2>1 DEF Declares, actOnProcedureDeclaration
  <2>4. Fresh(<<x>>)
    BY <2>2, FreshOne
  <2> QED BY <2>3, <2>4, Zenon DEF Inserts
<1>3. ASSUME NEW x, Declares("parameter", x, actOnFormalParameterDeclaration(v.Ids, v.D, v.IsVar))
      PROVE  Steady \/ Inserts
  <2>1. DeclareTyped(Parameters(v.Ids, v.D, v.IsVar), v.D) /\ current' = current
    BY <1>3, Zenon DEF Declares, actOnFormalParameterDeclaration
  <2> QED BY <1>1, <2>1, ParametersFresh, TypedSteps
<1>4. CASE Declares("heading", v, actOnProcedureHeading(v.D, v.Params, v.Ret) /\ UNCHANGED scopes)
  <2>1. scopes' = scopes /\ current' = current
    BY <1>4, Zenon DEF Declares
  <2>2. PICK t : decls' = [decls EXCEPT ![v.D].params = v.Params, ![v.D].type = t]
    <3>1. PICK t : t = IF v.Ret = Null \/ IsType(v.Ret) THEN v.Ret ELSE decls[v.D].type
      OBVIOUS
    <3> QED BY <1>4, <3>1 DEF Declares, actOnProcedureHeading
  <2>3. \A i \in DOMAIN decls : DOMAIN decls[i] = DeclFields
    BY DEF TypesHold, Coherence, Coherent, Declared
  <2>4. /\ DOMAIN decls' = DOMAIN decls
        /\ \A i \in DOMAIN decls : /\ decls'[i].outer = decls[i].outer
                                   /\ decls'[i].kind = decls[i].kind
                                   /\ decls'[i].name = decls[i].name
    BY <2>2, <2>3 DEF DeclFields
  <2> QED BY <2>1, <2>4 DEF Steady
<1>5. ASSUME NEW op, NEW x, NEW b, Evaluates(op, x, b) PROVE Steady
  BY <1>5, SteadyStep, Zenon DEF Evaluates
<1> QED BY <1>2, <1>3, <1>4, <1>5, Zenon DEF Procedure

LEMMA ModuleSteps == ASSUME TypesHold, calls # <<>>, Module PROVE Steady \/ Modular
<1>1. CASE Declares("newModule", [v EXCEPT !.D = Len(decls) + 1],
                    decls' = Append(decls, Decl("Module", tok, current))
                    /\ UNCHANGED <<scopes, errors>>)
  <2>1. PICK x : x = Decl("Module", tok, current)
    OBVIOUS
  <2>2. x.kind = "Module" /\ DOMAIN x = DeclFields /\ x.outer = current
    BY <2>1 DEF Decl, DeclFields
  <2>3. decls' = Append(decls, x) /\ scopes' = scopes /\ current' = current
    BY <1>1, <2>1 DEF Declares
  <2>4. decls' = decls \o <<x>>
    <3>1. PICK S : decls \in Seq(S)
      BY DEF TypesHold, Coherence, Coherent, Declared, IsSeq
    <3>2. decls \in Seq(S \cup {x}) /\ x \in S \cup {x}
      BY <3>1, SeqMonotonic
    <3> QED BY <2>3, <3>2, AppendIsConcat
  <2> QED BY <2>2, <2>3, <2>4 DEF Modular
<1>2. ASSUME NEW op, NEW x, NEW b, Evaluates(op, x, b) PROVE Steady
  BY <1>2, SteadyStep, Zenon DEF Evaluates
<1> QED BY <1>1, <1>2, Zenon DEF Module

LEMMA LeaveSteps == ASSUME calls # <<>>, NEW failed, Leave(failed) PROVE Steady \/ Exits
  BY SteadyStep DEF Leave, Exits

LEMMA StepNames ==
  ASSUME TypesHold, [Next]_vars
  PROVE  Steady \/ Inserts \/ Modular \/ EnterDeclScope \/ Exits
<1>1. CASE TakeToken \/ LookUp \/ Operand \/ Operation \/ Statement
  <2>1. ASSUME NEW op, NEW locals, NEW b, Evaluates(op, locals, b) PROVE Steady
    BY <2>1, SteadyStep, Zenon DEF Evaluates
  <2> QED BY <1>1, <2>1, Zenon DEF TakeToken, LookUp, Operand, Operation, Statement
<1>2. CASE Declaration \/ Procedure \/ Module
  <2>1. calls # <<>>
    <3>1. ASSUME NEW op, Doing(op) PROVE calls # <<>>
      BY <3>1 DEF Doing
    <3> QED BY <1>2, <3>1, Zenon DEF Declaration, Procedure, Module, Evaluates, Declares
  <2> QED BY <1>2, <2>1, DeclarationSteps, ProcedureSteps, ModuleSteps
<1>3. CASE DoReturn \/ Resynchronise \/ Skip
  <2>1. calls # <<>>
    BY <1>3 DEF DoReturn, Resynchronise, Skip, Doing
  <2>2. CASE \E failed \in BOOLEAN : Leave(failed)
    BY <2>1, <2>2, LeaveSteps
  <2>3. CASE UNCHANGED semaVars
    BY <2>3, SteadyStep DEF semaVars
  <2> QED BY <1>3, <2>2, <2>3 DEF DoReturn, Resynchronise, Skip
<1>4. CASE DoExpect \/ DoAdvance \/ DoConsume \/ DoWhen \/ DoWhile \/ DoCall \/ DoFail \/ Crash
           \/ UNCHANGED vars
  <2>1. scopes' = scopes /\ current' = current /\ decls' = decls
    BY <1>4 DEF DoExpect, DoAdvance, DoConsume, DoWhen, DoWhile, DoCall, DoFail, Crash, semaVars,
       vars
  <2> QED BY <2>1, SteadyStep
<1> QED BY <1>1, <1>2, <1>3, <1>4, Zenon DEF Next, Step, Halt, Analyse

LEMMA Numbers ==
  ASSUME NamesHold
  PROVE  /\ IsSeq(decls) /\ DOMAIN decls = 1..Len(decls) /\ Len(decls) \in Nat
         /\ IsSeq(scopes) /\ Len(scopes) \in Nat /\ Len(scopes) >= 1 /\ DOMAIN scopes = 1..Len(scopes)
         /\ IsSeq(calls)
<1>1. IsSeq(decls) /\ IsSeq(scopes) /\ IsSeq(calls) /\ Len(scopes) = Cardinality(ScopedIn(calls)) + 1
  BY DEF NamesHold, TypesHold, Coherence, Coherent, Declared, Bound, Active, Matches
<1>2. Cardinality(ScopedIn(calls)) \in Nat
  BY <1>1, ScopedFinite
<1> QED BY <1>1, <1>2, SeqFacts

LEMMA CurrentNumber ==
  ASSUME NamesHold
  PROVE  current \in Nat /\ current <= Len(decls) /\ current \in DOMAIN decls \cup {Null}
<1>1. PICK o : Enclosers(o, scopes, decls, current)
  BY DEF NamesHold
<1>2. PICK n : n = Len(scopes) /\ n \in 1..Len(scopes)
  BY Numbers
<1>3. o[n] = current /\ o[n] \in DOMAIN decls \cup {Null}
  BY <1>1, <1>2 DEF Enclosers
<1> QED BY <1>3, Numbers DEF Null

(* An insertion. *)

\* The names of what is declared are bound in the innermost scope, which they were not
\* unless that is reported.
LEMMA InsertBinds ==
  ASSUME NamesHold, NEW ds, IsSeq(ds), insert(ds), NEW n, n = Len(scopes)
  PROVE  /\ Len(scopes') = n
         /\ \A p \in 1..n : p # n => scopes'[p] = scopes[p]
         /\ DOMAIN scopes[n] \subseteq DOMAIN scopes'[n]
         /\ \A i \in DOMAIN ds : ds[i].name \in DOMAIN scopes'[n]
         /\ \/ errors'
            \/ \A i \in DOMAIN ds : /\ ds[i].name \notin DOMAIN scopes[n]
                                    /\ \A j \in 1..i - 1 : ds[j].name # ds[i].name
<1> DEFINE new == Inserted(ds)
           position(x) == CHOOSE i \in new : ds[i].name = x
           bound == [x \in {ds[i].name : i \in new} |-> Len(decls) + position(x)]
<1>1. PICK b : b = bound
  OBVIOUS
<1>2. scopes' = Extended(b)
  <2>1. scopes' = Extended(bound)
    BY DEF insert, Extended
  <2> HIDE DEF bound
  <2> QED BY <1>1, <2>1
<1>3. DOMAIN b = {ds[i].name : i \in Inserted(ds)}
  BY <1>1
<1> HIDE DEF new, position, bound
<1>4. n \in Nat /\ n >= 1 /\ n \in 1..n /\ DOMAIN scopes = 1..n /\ IsSeq(scopes)
  BY Numbers
<1>5. PICK e : e = [x \in DOMAIN scopes[n] \cup DOMAIN b |->
                      IF x \in DOMAIN scopes[n] THEN scopes[n][x] ELSE b[x]]
  OBVIOUS
<1>6. scopes' = [scopes EXCEPT ![n] = e]
  BY <1>2, <1>5 DEF Extended
<1>7. PICK S : scopes \in Seq(S)
  BY <1>4 DEF IsSeq
<1>8. Len(scopes') = n /\ \A p \in 1..n : scopes'[p] = IF p = n THEN e ELSE scopes[p]
  <2>1. scopes \in Seq(S \cup {e}) /\ e \in S \cup {e}
    BY <1>7, SeqMonotonic
  <2> QED BY <1>4, <1>6, <2>1, ExceptSeq
<1>9. scopes'[n] = e /\ DOMAIN e = DOMAIN scopes[n] \cup DOMAIN b
  BY <1>4, <1>5, <1>8
<1>10. DOMAIN ds = 1..Len(ds) /\ Len(ds) \in Nat
  BY SeqFacts
<1>11. ASSUME NEW i \in DOMAIN ds PROVE ds[i].name \in DOMAIN scopes'[n]
  <2>1. PICK A : A = {j \in DOMAIN ds : ds[j].name = ds[i].name}
    OBVIOUS
  <2>2. A \subseteq Nat /\ A # {}
    BY <1>10, <1>11, <2>1
  <2>3. PICK j \in A : \A k \in A : j <= k
    BY <2>2, Smallest
  <2>4. j \in DOMAIN ds /\ ds[j].name = ds[i].name
    BY <2>1, <2>3
  <2>5. \A k \in 1..j - 1 : ds[k].name # ds[j].name
    <3> SUFFICES ASSUME NEW k \in 1..j - 1, ds[k].name = ds[j].name PROVE FALSE
      OBVIOUS
    <3>1. k \in DOMAIN ds /\ ~(j <= k)
      BY <1>10, <2>4
    <3>2. k \in A
      BY <2>1, <2>4, <3>1
    <3> QED BY <2>3, <3>1, <3>2
  <2>6. ds[j].name \in DOMAIN scopes[n] \/ j \in Inserted(ds)
    BY <2>4, <2>5 DEF Inserted, Innermost
  <2> QED BY <1>3, <1>9, <2>4, <2>6
<1>12. \/ errors'
       \/ \A i \in DOMAIN ds : /\ ds[i].name \notin DOMAIN scopes[n]
                               /\ \A j \in 1..i - 1 : ds[j].name # ds[i].name
  <2>1. errors' = (errors \/ Inserted(ds) # DOMAIN ds)
    BY DEF insert, Report
  <2>2. Inserted(ds) = DOMAIN ds =>
          \A i \in DOMAIN ds : /\ ds[i].name \notin DOMAIN scopes[n]
                               /\ \A j \in 1..i - 1 : ds[j].name # ds[i].name
    BY DEF Inserted, Innermost
  <2> QED BY <2>1, <2>2
<1> QED BY <1>8, <1>9, <1>11, <1>12

\* The declarations after ds has been appended to them.
LEMMA JoinedDecls ==
  ASSUME NamesHold, NEW ds, Fresh(ds), decls' = decls \o ds
  PROVE  /\ \A i \in DOMAIN decls : i \in DOMAIN decls' /\ decls'[i] = decls[i]
         /\ \A i \in DOMAIN decls' : i \notin DOMAIN decls =>
              /\ i \in Nat /\ Len(decls) < i /\ i - Len(decls) \in DOMAIN ds
              /\ decls'[i] = ds[i - Len(decls)]
              /\ decls'[i].outer = current
         /\ Inward(decls')
<1>1. IsSeq(decls) /\ DOMAIN decls = 1..Len(decls) /\ Len(decls) \in Nat /\ Inward(decls)
  BY Numbers DEF NamesHold
<1>2. IsSeq(ds) /\ \A i \in DOMAIN ds : ds[i].outer = current
  BY DEF Fresh
<1>3. /\ IsSeq(decls') /\ \A i \in DOMAIN decls : i \in DOMAIN decls' /\ decls'[i] = decls[i]
      /\ \A i \in DOMAIN decls' : i \notin DOMAIN decls =>
           i - Len(decls) \in DOMAIN ds /\ decls'[i] = ds[i - Len(decls)]
  BY <1>1, <1>2, Joint
<1>4. ASSUME NEW i \in DOMAIN decls', i \notin DOMAIN decls
      PROVE  /\ i \in Nat /\ Len(decls) < i /\ i - Len(decls) \in DOMAIN ds
             /\ decls'[i] = ds[i - Len(decls)]
             /\ decls'[i].outer = current
  <2>1. i \in Nat /\ i >= 1
    BY <1>3, <1>4, SeqFacts
  <2> QED BY <1>1, <1>2, <1>3, <1>4, <2>1
<1>5. Inward(decls')
  <2> SUFFICES ASSUME NEW i \in DOMAIN decls' PROVE decls'[i].outer \in Nat /\ decls'[i].outer < i
    BY DEF Inward
  <2>1. CASE i \in DOMAIN decls
    BY <1>1, <1>3, <2>1 DEF Inward
  <2>2. CASE i \notin DOMAIN decls
    BY <1>1, <1>4, <2>2, CurrentNumber
  <2> QED BY <2>1, <2>2
<1> QED BY <1>3, <1>4, <1>5

\* The declarations of d are those of d2 with the same names, kinds and enclosing ones.
SameNamed(d, d2) ==
  \A i \in DOMAIN d : /\ i \in DOMAIN d2 /\ d2[i].outer = d[i].outer
                      /\ d2[i].kind = d[i].kind /\ d2[i].name = d[i].name

\* All the scopes but the outermost one are those of declarations.
LEMMA Inside ==
  ASSUME NamesHold, NEW o, Enclosers(o, scopes, decls, current), NEW p \in 1..Len(scopes), p > 1
  PROVE  o[p] \in DOMAIN decls /\ p - 1 \in 1..Len(scopes)
<1>1. PICK n \in Nat : n = Len(scopes)
  BY Numbers
<1>2. p - 1 \in 1..n /\ p - 1 \in 1..(p - 1) /\ p \in 1..n
  BY <1>1
<1>3. o[p - 1] \in DOMAIN decls \cup {Null} /\ o[p] \in DOMAIN decls \cup {Null} /\ o[p - 1] < o[p]
  BY <1>1, <1>2 DEF Enclosers
<1>4. o[p - 1] \in Nat /\ o[p] \in Nat
  BY <1>3, Numbers DEF Null
<1> QED BY <1>1, <1>2, <1>3, <1>4 DEF Null

\* The scopes that are open stay open; what is declared is enclosed by the current one.
LEMMA EnclosersGrow ==
  ASSUME NamesHold, NEW o, Enclosers(o, scopes, decls, current), current' = current,
         NEW n, n = Len(scopes), Len(scopes') = n,
         \A p \in 1..n : DOMAIN scopes[p] \subseteq DOMAIN scopes'[p],
         SameNamed(decls, decls'),
         \A i \in Named(decls') : i \notin DOMAIN decls =>
           decls'[i].outer = current /\ decls'[i].name \in DOMAIN scopes'[n]
  PROVE  Enclosers(o, scopes', decls', current')
<1>1. n \in Nat /\ n >= 1 /\ n \in 1..n
  BY Numbers
<1>2. o[n] = current
  BY <1>1 DEF Enclosers
<1>3. ASSUME NEW p \in 1..n
      PROVE  /\ o[p] \in DOMAIN decls' \cup {Null} /\ \A q \in 1..(p - 1) : o[q] < o[p]
             /\ p > 1 => decls'[o[p]].outer = o[p - 1]
             /\ \A i \in Named(decls') : decls'[i].outer = o[p] => decls'[i].name \in DOMAIN scopes'[p]
  <2>1. /\ o[p] \in DOMAIN decls \cup {Null} /\ \A q \in 1..(p - 1) : o[q] < o[p]
        /\ p > 1 => decls[o[p]].outer = o[p - 1]
        /\ \A i \in Named(decls) : decls[i].outer = o[p] => decls[i].name \in DOMAIN scopes[p]
    BY <1>1 DEF Enclosers
  <2>2. p > 1 => decls'[o[p]].outer = o[p - 1]
    BY <1>1, <2>1, Inside DEF SameNamed
  <2>3. ASSUME NEW i \in Named(decls'), decls'[i].outer = o[p]
        PROVE  decls'[i].name \in DOMAIN scopes'[p]
    <3>1. CASE i \in DOMAIN decls
      <4>1. i \in Named(decls) /\ decls[i].outer = o[p] /\ decls'[i].name = decls[i].name
        BY <2>3, <3>1 DEF Named, SameNamed
      <4> QED BY <2>1, <4>1
    <3>2. CASE i \notin DOMAIN decls
      <4>1. o[p] = current /\ decls'[i].name \in DOMAIN scopes'[n]
        BY <2>3, <3>2
      <4>2. p = n
        <5>1. SUFFICES ASSUME p # n PROVE FALSE
          OBVIOUS
        <5>2. p \in 1..(n - 1)
          BY <1>1, <5>1
        <5>3. o[p] < o[n]
          BY <1>1, <5>2 DEF Enclosers
        <5> QED BY <1>2, <4>1, <5>3, CurrentNumber
      <4> QED BY <4>1, <4>2
    <3> QED BY <3>1, <3>2
  <2>4. o[p] \in DOMAIN decls' \cup {Null}
    BY <2>1 DEF SameNamed
  <2> QED BY <2>1, <2>2, <2>3, <2>4
<1> QED BY <1>2, <1>3 DEF Enclosers

LEMMA InsertsHold ==
  ASSUME NamesHold, Inserts, errors => errors'
  PROVE  /\ Inward(decls') /\ \E o : Enclosers(o, scopes', decls', current')
         /\ errors' \/ Distinct(decls')
<1>1. PICK ds : Fresh(ds) /\ insert(ds) /\ current' = current
  BY DEF Inserts
<1>2. IsSeq(ds) /\ decls' = decls \o ds
  BY <1>1 DEF Fresh, insert
<1>3. PICK n : n = Len(scopes) /\ n \in Nat /\ n >= 1 /\ n \in 1..n
  BY Numbers
<1>4. PICK o : Enclosers(o, scopes, decls, current)
  BY DEF NamesHold
<1>5. /\ Len(scopes') = n
      /\ \A p \in 1..n : p # n => scopes'[p] = scopes[p]
      /\ DOMAIN scopes[n] \subseteq DOMAIN scopes'[n]
      /\ \A i \in DOMAIN ds : ds[i].name \in DOMAIN scopes'[n]
      /\ \/ errors'
         \/ \A i \in DOMAIN ds : /\ ds[i].name \notin DOMAIN scopes[n]
                                 /\ \A j \in 1..i - 1 : ds[j].name # ds[i].name
  BY <1>1, <1>2, <1>3, InsertBinds
<1>6. /\ \A i \in DOMAIN decls : i \in DOMAIN decls' /\ decls'[i] = decls[i]
      /\ \A i \in DOMAIN decls' : i \notin DOMAIN decls =>
           /\ i \in Nat /\ Len(decls) < i /\ i - Len(decls) \in DOMAIN ds
           /\ decls'[i] = ds[i - Len(decls)]
           /\ decls'[i].outer = current
      /\ Inward(decls')
  BY <1>1, <1>2, JoinedDecls
<1>7. o[n] = current
  BY <1>3, <1>4 DEF Enclosers
<1>8. \A i \in Named(decls') : i \notin DOMAIN decls =>
        decls'[i].outer = current /\ decls'[i].name \in DOMAIN scopes'[n]
  <2> SUFFICES ASSUME NEW i \in DOMAIN decls', i \notin DOMAIN decls
               PROVE  decls'[i].outer = current /\ decls'[i].name \in DOMAIN scopes'[n]
    BY DEF Named
  <2>1. i - Len(decls) \in DOMAIN ds /\ decls'[i] = ds[i - Len(decls)] /\ decls'[i].outer = current
    BY <1>6
  <2> QED BY <1>5, <2>1
<1>9. Enclosers(o, scopes', decls', current')
  <2>1. \A q \in 1..n : DOMAIN scopes[q] \subseteq DOMAIN scopes'[q]
    BY <1>5
  <2>2. SameNamed(decls, decls')
    BY <1>6 DEF SameNamed
  <2> QED BY <1>1, <1>3, <1>4, <1>5, <1>8, <2>1, <2>2, EnclosersGrow
<1>10. ASSUME ~errors' PROVE Distinct(decls')
  <2>1. Distinct(decls)
    BY <1>10 DEF NamesHold
  <2>2. \A i \in Named(decls) : decls[i].outer = current => decls[i].name \in DOMAIN scopes[n]
    BY <1>3, <1>4, <1>7 DEF Enclosers
  <2>3. ASSUME NEW i \in Named(decls'), NEW j \in Named(decls'), decls'[i].outer = decls'[j].outer,
               decls'[i].name = decls'[j].name, i \in DOMAIN decls, j \notin DOMAIN decls
        PROVE  FALSE
    <3>1. i \in Named(decls) /\ decls[i].outer = decls'[i].outer /\ decls[i].name = decls'[i].name
      BY <1>6, <2>3 DEF Named
    <3>2. j - Len(decls) \in DOMAIN ds /\ decls'[j].name = ds[j - Len(decls)].name
          /\ decls'[j].outer = current
      BY <1>6, <2>3 DEF Named
    <3>3. ds[j - Len(decls)].name \notin DOMAIN scopes[n]
      BY <1>5, <1>10, <3>2
    <3> QED BY <2>2, <2>3, <3>1, <3>2, <3>3
  <2>4. ASSUME NEW i \in Named(decls'), NEW j \in Named(decls'), i \notin DOMAIN decls, j \notin DOMAIN decls,
               decls'[i].name = decls'[j].name, i < j
        PROVE  FALSE
    <3>1. PICK l : l = Len(decls) /\ l \in Nat
      BY Numbers
    <3>2. /\ i \in Nat /\ j \in Nat /\ l < i /\ i - l \in DOMAIN ds /\ j - l \in DOMAIN ds
          /\ decls'[i] = ds[i - l] /\ decls'[j] = ds[j - l]
      BY <1>6, <2>4, <3>1 DEF Named
    <3>3. i - l \in 1..(j - l) - 1
      BY <2>4, <3>1, <3>2
    <3> QED BY <1>5, <1>10, <2>4, <3>2, <3>3
  <2>5. ASSUME NEW i \in Named(decls'), NEW j \in Named(decls'), decls'[i].outer = decls'[j].outer,
               decls'[i].name = decls'[j].name
        PROVE  i = j
    <3>1. CASE i \in DOMAIN decls /\ j \in DOMAIN decls
      <4>1. i \in Named(decls) /\ j \in Named(decls) /\ decls'[i] = decls[i] /\ decls'[j] = decls[j]
        BY <1>6, <3>1 DEF Named
      <4> QED BY <2>1, <2>5, <4>1 DEF Distinct
    <3>2. CASE i \notin DOMAIN decls /\ j \notin DOMAIN decls
      <4>1. i \in Nat /\ j \in Nat
        BY <1>6, <3>2 DEF Named
      <4>2. i = j \/ i < j \/ j < i
        BY <4>1
      <4> QED BY <2>4, <2>5, <3>2, <4>2
    <3> QED BY <2>3, <2>5, <3>1, <3>2
  <2> QED BY <2>5 DEF Distinct
<1> QED BY <1>6, <1>9, <1>10

(* The other steps. *)

\* What the steps that do not open or close a scope keep, and those that do.
NamesKept ==
  /\ Inward(decls') /\ (\E o : Enclosers(o, scopes', decls', current'))
  /\ errors' \/ Distinct(decls')
  /\ \A i \in DOMAIN decls' : decls'[i].outer # Len(decls) + 1

LEMMA OutersBelow ==
  ASSUME NamesHold PROVE \A i \in DOMAIN decls : decls[i].outer # Len(decls) + 1
<1>1. DOMAIN decls = 1..Len(decls) /\ Len(decls) \in Nat
  BY Numbers
<1>2. \A i \in DOMAIN decls : decls[i].outer \in Nat /\ decls[i].outer < i
  BY DEF NamesHold, Inward
<1> QED BY <1>1, <1>2

LEMMA SteadyHolds == ASSUME NamesHold, Steady, errors => errors' PROVE NamesKept
<1>1. PICK o : Enclosers(o, scopes, decls, current)
  BY DEF NamesHold
<1>2. SameNamed(decls, decls') /\ DOMAIN decls' = DOMAIN decls /\ scopes' = scopes /\ current' = current
  BY DEF Steady, SameNamed
<1>3. Enclosers(o, scopes', decls', current')
  <2>1. \A i \in Named(decls') : i \in DOMAIN decls
    BY <1>2 DEF Named
  <2>2. PICK n : n = Len(scopes)
    OBVIOUS
  <2> QED BY <1>1, <1>2, <2>1, <2>2, EnclosersGrow
<1>4. Inward(decls')
  BY <1>2 DEF NamesHold, Inward, SameNamed
<1>5. Distinct(decls) => Distinct(decls')
  BY <1>2 DEF Distinct, Named, SameNamed
<1>6. \A i \in DOMAIN decls' : decls'[i].outer # Len(decls) + 1
  BY <1>2, OutersBelow DEF SameNamed
<1> QED BY <1>3, <1>4, <1>5, <1>6 DEF NamesHold, NamesKept

LEMMA NewOuters ==
  ASSUME NamesHold, NEW ds, Fresh(ds), decls' = decls \o ds
  PROVE  \A i \in DOMAIN decls' : decls'[i].outer # Len(decls) + 1
<1>1. current # Len(decls) + 1
  BY CurrentNumber, Numbers
<1> QED BY <1>1, JoinedDecls, OutersBelow

LEMMA ModularHolds == ASSUME NamesHold, Modular, errors => errors' PROVE NamesKept
<1>1. PICK o : Enclosers(o, scopes, decls, current)
  BY DEF NamesHold
<1>2. PICK x : /\ x.kind = "Module" /\ DOMAIN x = DeclFields /\ x.outer = current
               /\ decls' = decls \o <<x>> /\ scopes' = scopes /\ current' = current
  BY DEF Modular
<1>3. PICK ds : ds = <<x>> /\ Fresh(ds) /\ decls' = decls \o ds
  BY <1>2, FreshOne
<1>4. /\ \A i \in DOMAIN decls : i \in DOMAIN decls' /\ decls'[i] = decls[i]
      /\ \A i \in DOMAIN decls' : i \notin DOMAIN decls => decls'[i].kind = "Module"
      /\ Inward(decls')
  <2>1. \A k \in DOMAIN ds : ds[k] = x
    BY <1>3
  <2> QED BY <1>2, <1>3, <2>1, JoinedDecls
<1>5. \A i \in Named(decls') : i \in Named(decls) /\ decls'[i] = decls[i]
  BY <1>4 DEF Named
<1>6. Enclosers(o, scopes', decls', current')
  <2>1. \A i \in Named(decls') : i \in DOMAIN decls
    BY <1>5 DEF Named
  <2>2. PICK n : n = Len(scopes)
    OBVIOUS
  <2>3. SameNamed(decls, decls')
    BY <1>4 DEF SameNamed
  <2> QED BY <1>1, <1>2, <2>1, <2>2, <2>3, EnclosersGrow
<1>7. Distinct(decls) => Distinct(decls')
  BY <1>5 DEF Distinct
<1> QED BY <1>3, <1>4, <1>6, <1>7, NewOuters DEF NamesHold, NamesKept

LEMMA EnterHolds == ASSUME NamesHold, EnterDeclScope, errors => errors' PROVE NamesKept
<1>1. PICK o : Enclosers(o, scopes, decls, current)
  BY DEF NamesHold
<1>2. PICK D : D = v.D
  OBVIOUS
<1>3. /\ Doing("enterScope") /\ decls' = decls /\ current' = D
      /\ scopes' = Append(scopes, [x \in {} |-> Null])
  BY <1>2 DEF EnterDeclScope, enterScope
<1>4. D \in DOMAIN decls /\ decls[D].outer = current /\ Empty(D, decls)
  <2>1. calls # <<>> /\ Top.rest # <<>> /\ Top.rest[1].op = "enterScope" /\ Coherence
    BY <1>3 DEF Doing, NamesHold, TypesHold
  <2>2. /\ DOMAIN calls = 1..Len(calls) /\ Len(calls) \in Nat /\ Len(calls) >= 1
        /\ WellFormed(Top, decls) /\ Ready(Top, decls, current)
    BY <2>1, TopFrame
  <2>3. ~Top.scoped /\ Enters(Top.rest)
    BY <2>1, <2>2, NextOperation
  <2>4. Len(calls) \in DOMAIN calls /\ Top = calls[Len(calls)] /\ v = Top.locals
    BY <2>2 DEF Top, v
  <2>5. Empty(D, decls)
    BY <1>2, <2>3, <2>4 DEF NamesHold, Unused
  <2> QED BY <1>2, <2>2, <2>3, <2>4, <2>5 DEF Ready
<1>5. PICK n \in Nat : n = Len(scopes) /\ n >= 1 /\ IsSeq(scopes) /\ DOMAIN scopes = 1..n
  BY Numbers
<1>6. /\ Len(scopes') = n + 1 /\ \A p \in 1..n : scopes'[p] = scopes[p]
  <2>1. PICK S : scopes \in Seq(S)
    BY <1>5 DEF IsSeq
  <2>2. PICK b : b = [x \in {} |-> Null]
    OBVIOUS
  <2>3. scopes \in Seq(S \cup {b}) /\ b \in S \cup {b}
    BY <2>1, SeqMonotonic
  <2> QED BY <1>3, <1>5, <2>2, <2>3, AppendProperties
<1>7. PICK e : e = [p \in 1..(n + 1) |-> IF p = n + 1 THEN D ELSE o[p]]
  OBVIOUS
<1>8. e[n + 1] = D /\ \A p \in 1..n : e[p] = o[p]
  BY <1>5, <1>7
<1>9. o[n] = current /\ e[n] = current
  BY <1>1, <1>5, <1>8 DEF Enclosers
<1>10. current \in Nat /\ D \in Nat /\ current < D
  BY <1>4, CurrentNumber, Numbers DEF NamesHold, Inward
<1>11. ASSUME NEW p \in 1..(n + 1)
       PROVE  /\ e[p] \in DOMAIN decls \cup {Null} /\ \A q \in 1..(p - 1) : e[q] < e[p]
              /\ p > 1 => decls[e[p]].outer = e[p - 1]
              /\ \A i \in Named(decls) : decls[i].outer = e[p] => decls[i].name \in DOMAIN scopes'[p]
  <2>1. CASE p \in 1..n
    <3>1. /\ o[p] \in DOMAIN decls \cup {Null} /\ \A q \in 1..(p - 1) : o[q] < o[p]
          /\ p > 1 => decls[o[p]].outer = o[p - 1]
          /\ \A i \in Named(decls) : decls[i].outer = o[p] => decls[i].name \in DOMAIN scopes[p]
      BY <1>1, <1>5, <2>1 DEF Enclosers
    <3>2. \A q \in 1..(p - 1) : q \in 1..n /\ e[q] = o[q]
      BY <1>5, <1>8, <2>1
    <3>3. p > 1 => p - 1 \in 1..(p - 1)
      BY <1>5, <2>1
    <3> QED BY <1>6, <1>8, <2>1, <3>1, <3>2, <3>3
  <2>2. CASE p = n + 1
    <3>1. e[p] = D /\ p - 1 = n
      BY <1>5, <1>8, <2>2
    <3>2. ASSUME NEW q \in 1..n PROVE e[q] < D
      <4>1. q = n \/ q \in 1..(n - 1)
        BY <1>5
      <4>2. CASE q = n
        BY <1>9, <1>10, <4>2
      <4>3. CASE q \in 1..(n - 1)
        <5>1. o[q] < o[n]
          BY <1>1, <1>5, <4>3 DEF Enclosers
        <5>2. o[q] \in DOMAIN decls \cup {Null}
          BY <1>1, <1>5 DEF Enclosers
        <5>3. o[q] \in Nat
          BY <5>2, Numbers DEF Null
        <5> QED BY <1>8, <1>9, <1>10, <5>1, <5>3
      <4> QED BY <4>1, <4>2, <4>3
    <3>3. \A i \in Named(decls) : decls[i].outer # D
      BY <1>4 DEF Empty, Named
    <3> QED BY <1>4, <1>9, <3>1, <3>2, <3>3
  <2>3. p \in 1..n \/ p = n + 1
    BY <1>5
  <2> QED BY <2>1, <2>2, <2>3
<1>12. Enclosers(e, scopes', decls', current')
  BY <1>3, <1>6, <1>8, <1>11 DEF Enclosers
<1>13. \A i \in DOMAIN decls' : decls'[i].outer # Len(decls) + 1
  BY <1>3, OutersBelow
<1>14. Inward(decls') /\ (errors' \/ Distinct(decls'))
  BY <1>3 DEF NamesHold
<1> QED BY <1>12, <1>13, <1>14 DEF NamesKept

LEMMA ExitsHolds == ASSUME NamesHold, Exits, errors => errors' PROVE NamesKept
<1>1. PICK o : Enclosers(o, scopes, decls, current)
  BY DEF NamesHold
<1>2. PICK n \in Nat : n = Len(scopes) /\ n >= 1 /\ IsSeq(scopes) /\ DOMAIN scopes = 1..n
  BY Numbers
<1>3. /\ decls' = decls /\ current' = decls[current].outer /\ Top.scoped /\ calls # <<>>
      /\ scopes' = SubSeq(scopes, 1, n - 1)
  BY <1>2 DEF Exits, leaveScope
<1>4. n >= 2
  <2>1. Len(calls) \in DOMAIN calls /\ IsSeq(calls)
    BY <1>3, TopFrame DEF NamesHold, TypesHold
  <2>2. Len(calls) \in ScopedIn(calls)
    BY <1>3, <2>1 DEF ScopedIn, Top
  <2>3. Cardinality(ScopedIn(calls)) \in Nat /\ IsFiniteSet(ScopedIn(calls))
    BY <2>1, ScopedFinite
  <2>4. Cardinality(ScopedIn(calls)) # 0
    BY <2>2, <2>3, FS_EmptySet
  <2>5. n = Cardinality(ScopedIn(calls)) + 1
    BY <1>2 DEF NamesHold, TypesHold, Coherence, Coherent, Matches
  <2> QED BY <2>3, <2>4, <2>5
<1>5. PICK m \in Nat : m = n - 1 /\ m >= 1 /\ m + 1 = n
  BY <1>4
<1>6. Len(scopes') = m /\ \A p \in 1..m : scopes'[p] = scopes[p]
  <2>1. PICK S : scopes \in Seq(S)
    BY <1>2 DEF IsSeq
  <2> QED BY <1>2, <1>3, <1>5, <2>1, SubSeqProperties
<1>7. o[m] = current'
  BY <1>1, <1>2, <1>3, <1>4, <1>5 DEF Enclosers
<1>8. \A p \in 1..m :
        /\ o[p] \in DOMAIN decls \cup {Null} /\ \A q \in 1..(p - 1) : o[q] < o[p]
        /\ p > 1 => decls[o[p]].outer = o[p - 1]
        /\ \A i \in Named(decls) : decls[i].outer = o[p] => decls[i].name \in DOMAIN scopes'[p]
  <2>1. \A p \in 1..m : p \in 1..n
    BY <1>5
  <2> QED BY <1>1, <1>2, <1>6, <2>1 DEF Enclosers
<1>9. Enclosers(o, scopes', decls', current')
  BY <1>3, <1>6, <1>7, <1>8 DEF Enclosers
<1>10. \A i \in DOMAIN decls' : decls'[i].outer # Len(decls) + 1
  BY <1>3, OutersBelow
<1>11. Inward(decls') /\ (errors' \/ Distinct(decls'))
  BY <1>3 DEF NamesHold
<1> QED BY <1>9, <1>10, <1>11 DEF NamesKept

LEMMA StepKept == ASSUME NamesHold, [Next]_vars PROVE NamesKept
<1>1. Steady \/ Inserts \/ Modular \/ EnterDeclScope \/ Exits
  BY StepNames DEF NamesHold
<1>2. errors => errors'
  BY ErrorsStay
<1>3. Inserts => NamesKept
  <2>1. SUFFICES ASSUME Inserts PROVE NamesKept
    OBVIOUS
  <2>2. \A i \in DOMAIN decls' : decls'[i].outer # Len(decls) + 1
    BY <2>1, NewOuters DEF Inserts, insert
  <2> QED BY <1>2, <2>1, <2>2, InsertsHold DEF NamesKept
<1> QED BY <1>1, <1>2, <1>3, SteadyHolds, ModularHolds, EnterHolds, ExitsHolds

(* What is about to enter a scope. *)

\* Only the innermost call can be.
LEMMA InnermostUnused ==
  ASSUME NEW c, NEW d, NEW cur, Active(c, d, cur), NEW n, n = Len(c),
         n \in DOMAIN c /\ ~c[n].scoped /\ Enters(c[n].rest) => Empty(c[n].locals.D, d)
  PROVE  Unused(c, d)
<1> SUFFICES ASSUME NEW k \in DOMAIN c, ~c[k].scoped, Enters(c[k].rest)
             PROVE  Empty(c[k].locals.D, d)
  BY DEF Unused
<1>1. ~(k < n)
  BY InnerEntersNot DEF Active, Waits
<1>2. DOMAIN c = 1..n /\ n \in Nat
  BY SeqFacts DEF Active
<1>3. k = n
  BY <1>1, <1>2
<1> QED BY <1>3

\* The innermost call goes on with something that does not enter a scope, or with a
\* declaration that is new.
LEMMA UnusedGoes ==
  ASSUME NamesHold, Coherence', calls # <<>>, NEW r, NEW x, NEW s, Goes(r, x, s),
         ~s /\ Enters(r) => Empty(x.D, decls')
  PROVE  Unused(calls', decls')
<1>1. PICK g : /\ Replaced(calls, g, calls') /\ g.rest = r /\ g.locals = x /\ g.scoped = s
  BY DEF Goes
<1>2. Len(calls') = Len(calls) /\ calls'[Len(calls)] = g
  BY <1>1 DEF Replaced
<1>3. Active(calls', decls', current')
  BY DEF Coherence, Coherent
<1>4. PICK n : n = Len(calls') /\ calls'[n] = g
  BY <1>2
<1> QED BY <1>1, <1>3, <1>4, InnermostUnused

LEMMA BodyEntersNot == ASSUME NEW fn \in DOMAIN Rules PROVE ~Enters(Rules[fn].body)
  BY Bodies, LeftEntersNot DEF Left

LEMMA StepUnused ==
  ASSUME NamesHold, [Next]_vars, Coherence', NamesKept
  PROVE  Unused(calls', decls')
<1>0. TypesHold /\ Coherence
  BY DEF NamesHold, TypesHold
<1>1. ASSUME calls # <<>>
      PROVE  /\ WellFormed(Top, decls) /\ IsSeq(calls) /\ Top = calls[Len(calls)] /\ v = Top.locals
             /\ Len(calls) \in DOMAIN calls /\ Len(calls) \in Nat
  BY <1>0, <1>1, TopFacts
<1>2. Active(calls', decls', current')
  BY DEF Coherence, Coherent
<1>3. ~Enters(<<Handler>>)
  BY HandlerRest, InnerEntersNot
<1>4. ASSUME NEW op, NEW locals, Advances(op, locals) PROVE Unused(calls', decls')
  <2>1. /\ calls # <<>> /\ Top.rest # <<>> /\ Top.rest[1].op = op /\ op \in Actions
        /\ Goes(Tail(Top.rest), locals, Top.scoped)
        /\ op \in {"newModule", "newProcedure"} => locals.D = Len(decls) + 1
    BY <1>4 DEF Advances, Doing
  <2>2. CASE op \in {"newModule", "newProcedure"}
    <3>1. Empty(locals.D, decls')
      BY <2>1, <2>2 DEF NamesKept, Empty
    <3> QED BY <2>1, <3>1, UnusedGoes
  <2>3. CASE op \notin Opening
    <3>1. ~Top.scoped => ~Enters(Tail(Top.rest))
      BY <1>1, <2>1, <2>3, NextOperation, LeftEntersNot
    <3> QED BY <2>1, <3>1, UnusedGoes
  <2>4. op # "enterScope"
    BY <2>1 DEF Actions
  <2> QED BY <2>2, <2>3, <2>4 DEF Opening
<1>5. CASE Entering
  <2>1. calls # <<>> /\ Goes(Tail(Top.rest), v, TRUE)
    BY <1>5 DEF Entering, Doing
  <2> QED BY <2>1, UnusedGoes
<1>6. CASE Recovers
  <2>1. calls # <<>> /\ Goes(<<Handler>>, v, Top.scoped)
    BY <1>6 DEF Recovers, Doing
  <2> QED BY <1>3, <2>1, UnusedGoes
<1>7. ASSUME NEW r, Branches(r) PROVE Unused(calls', decls')
  <2>1. /\ IF Top.scoped THEN r \in Seq(Own) ELSE r \in Seq(Inner)
        /\ calls # <<>>
    BY <1>0, <1>7, BranchParts
  <2>2. ~Top.scoped => ~Enters(r)
    BY <2>1, InnerEntersNot
  <2>3. Goes(r, v, Top.scoped)
    BY <1>7 DEF Branches
  <2> QED BY <2>1, <2>2, <2>3, UnusedGoes
<1>8. CASE CallsOn
  <2>1. Doing("call") /\ calls # <<>>
    BY <1>8 DEF CallsOn, Doing
  <2>2. PICK g, h : /\ Pushed(calls, g, h, calls')
                    /\ h.fn = Top.rest[1].fn /\ h.rest = Rules[h.fn].body
    BY <1>8 DEF CallsOn
  <2>3. h.fn \in DOMAIN Rules
    BY <1>0, <2>1, <2>2, PartsOf
  <2>4. ~Enters(h.rest)
    BY <2>2, <2>3, BodyEntersNot
  <2>5. PICK n : n = Len(calls') /\ calls'[n] = h
    BY <2>2 DEF Pushed
  <2> QED BY <1>2, <2>4, <2>5, InnermostUnused
<1>9. ASSUME NEW failed \in BOOLEAN, Leaves(failed) PROVE Unused(calls', decls')
  <2>1. calls # <<>>
    BY <1>9 DEF Leaves
  <2>2. PICK g : /\ Popped(calls, g, calls')
                 /\ Len(calls) > 1 => Returned(calls[Len(calls) - 1], failed, g)
    BY <1>9 DEF Leaves
  <2>3. PICK n \in Nat : n = Len(calls) /\ DOMAIN calls = 1..n /\ n >= 1
    BY <1>0, <2>1, TopFrame
  <2>4. PICK m \in Nat : m = n - 1
    BY <2>3
  <2>5. /\ Len(calls') = m /\ DOMAIN calls' = 1..m
        /\ m > 0 => calls'[m] = g /\ Returned(calls[m], failed, g)
    <3>1. IsSeq(calls') /\ Len(calls') = m
      BY <2>2, <2>3, <2>4 DEF Popped
    <3>2. n > 1 <=> m > 0
      BY <2>3, <2>4
    <3> QED BY <2>2, <2>3, <2>4, <3>1, <3>2, SeqFacts DEF Popped
  <2>6. ASSUME m > 0 PROVE g.scoped \/ ~Enters(g.rest)
    <3>1. PICK b : b = calls[m]
      OBVIOUS
    <3>2. Waits(b)
      <4>1. m \in DOMAIN calls /\ m < n
        BY <2>3, <2>4, <2>6
      <4> QED BY <1>0, <2>3, <3>1, <4>1 DEF Coherence, Coherent, Active
    <3>3. g.scoped = b.scoped /\ g.rest = IF failed THEN <<Handler>> ELSE b.rest
      BY <2>5, <2>6, <3>1 DEF Returned
    <3> QED BY <1>3, <3>2, <3>3, InnerEntersNot DEF Waits
  <2>7. m \in DOMAIN calls' => m > 0
    BY <2>5
  <2> QED BY <1>2, <2>5, <2>6, <2>7, InnermostUnused
<1>10. CASE Idles
  BY <1>10 DEF Idles, NamesHold
<1> QED BY <1>0, <1>4, <1>5, <1>6, <1>7, <1>8, <1>9, <1>10, StepMoves

LEMMA StepNamesHold == ASSUME NamesHold, [Next]_vars, TypesHold' PROVE NamesHold'
<1>1. NamesKept
  BY StepKept
<1>2. Unused(calls', decls')
  BY <1>1, StepUnused DEF TypesHold
<1> QED BY <1>1, <1>2 DEF NamesHold, NamesKept

\* The names that are declared in advance.
LEMMA StartNames ==
  ASSUME NEW c \in {<<Frame("parse", Locals, None)>>, <<>>}
  PROVE  /\ Inward(InitialDecls) /\ Unused(c, InitialDecls) /\ Distinct(InitialDecls)
         /\ \E o : Enclosers(o, InitialScopes, InitialDecls, Null)
<1>1. PICK f : f = Frame("parse", Locals, None)
  OBVIOUS
<1>2. f.rest = Rules.parse.body
  BY <1>1 DEF Frame
<1>3. Unused(c, InitialDecls)
  <2>1. ~Enters(f.rest)
    BY <1>2, BodyEntersNot, RuleNames
  <2>2. (DOMAIN c = {1} /\ c[1] = f) \/ DOMAIN c = {}
    BY <1>1
  <2> QED BY <2>1, <2>2 DEF Unused
<1>4. PICK x1, x2, x3, x4 :
        /\ x1 = Decl("Pervasive", "INTEGER", Null)
        /\ x2 = Decl("Pervasive", "BOOLEAN", Null)
        /\ x3 = [Decl("Const", "TRUE", Null) EXCEPT !.expr = BooleanLiteral(TRUE)]
        /\ x4 = [Decl("Const", "FALSE", Null) EXCEPT !.expr = BooleanLiteral(FALSE)]
  OBVIOUS
<1>5. PICK d : d = <<x1, x2, x3, x4>> /\ d = InitialDecls
  BY <1>4 DEF InitialDecls
<1>6. DOMAIN d = 1..4 /\ d[1] = x1 /\ d[2] = x2 /\ d[3] = x3 /\ d[4] = x4
  BY <1>5
<1>7. /\ x1.outer = Null /\ x1.name = "INTEGER" /\ x2.outer = Null /\ x2.name = "BOOLEAN"
      /\ x3.outer = Null /\ x3.name = "TRUE" /\ x4.outer = Null /\ x4.name = "FALSE"
  BY <1>4 DEF Decl
<1>8. Inward(d)
  <2>1. \A i \in 1..4 : d[i].outer = 0
    BY <1>6, <1>7 DEF Null
  <2> QED BY <1>6, <2>1 DEF Inward
<1>9. Distinct(d)
  <2>1. \A i, j \in 1..4 : d[i].name = d[j].name => i = j
    BY <1>6, <1>7
  <2> QED BY <1>6, <2>1 DEF Distinct, Named
<1>10. PICK b : b = [INTEGER |-> IntegerType, BOOLEAN |-> BooleanType,
                     TRUE |-> TrueConst, FALSE |-> FalseConst]
  OBVIOUS
<1>11. PICK s : s = InitialScopes /\ s = <<b>>
  BY <1>10 DEF InitialScopes
<1>12. Len(s) = 1 /\ s[1] = b /\ DOMAIN b = {"INTEGER", "BOOLEAN", "TRUE", "FALSE"}
  BY <1>10, <1>11
<1>13. PICK o : o = <<Null>>
  OBVIOUS
<1>14. Enclosers(o, s, d, Null)
  <2>1. \A i \in 1..4 : d[i].name \in DOMAIN b
    BY <1>6, <1>7, <1>12
  <2>2. o[1] = Null /\ 1..Len(s) = {1} /\ 1..(1 - 1) = {} /\ ~(1 > 1)
    BY <1>12, <1>13
  <2> QED BY <1>6, <1>12, <2>1, <2>2 DEF Enclosers, Named
<1> QED BY <1>3, <1>5, <1>8, <1>9, <1>11, <1>14

LEMMA DriverStepNames == ASSUME NamesHold, [DriverNext]_driverVars PROVE NamesHold'
<1>1. TypesHold'
  BY DriverStepTyped DEF NamesHold
<1>2. CASE ReadFile
  <2>1. /\ calls' = <<Frame("parse", Locals, None)>> /\ decls' = InitialDecls
        /\ scopes' = InitialScopes /\ current' = Null
    BY <1>2, Zenon DEF ReadFile
  <2>2. PICK c : c = <<Frame("parse", Locals, None)>>
    OBVIOUS
  <2>3. /\ Inward(InitialDecls) /\ Unused(c, InitialDecls) /\ Distinct(InitialDecls)
        /\ \E o : Enclosers(o, InitialScopes, InitialDecls, Null)
    BY <2>2, StartNames
  <2> QED BY <1>1, <2>1, <2>2, <2>3 DEF NamesHold
<1>3. CASE [Next]_vars
  BY <1>1, <1>3, StepNamesHold DEF NamesHold
<1>4. ReadFile \/ [Next]_vars
  <2>1. Parse => Next
    BY Zenon DEF Parse, Next
  <2>2. ReadError \/ EndParse \/ Generate \/ FatalError \/ Emit \/ DriverHalt \/ UNCHANGED driverVars
        => UNCHANGED vars
    BY Zenon DEF ReadError, EndParse, Generate, FatalError, Emit, DriverHalt, driverVars, parserVars
  <2> QED BY <2>1, <2>2, Zenon DEF DriverNext
<1> QED BY <1>2, <1>3, <1>4

(* The symbols. *)

\* The symbols of the declarations of M that run has come to.
SymbolsOf(M) ==
  {mangleName(e) : e \in {e \in DOMAIN decls \ todo : decls[e].outer = M /\ IsEmitted(e)}}

SymbolsHold ==
  /\ NamesHold /\ IsSeq(symbols) /\ SymbolsDistinct
  /\ phase \in {"read", "parse"} => todo = {}
  /\ phase = "parse" => symbols = <<>>
  /\ phase = "generate" =>
       /\ ~errors
       /\ \E M : /\ \A e \in todo : e \in DOMAIN decls /\ decls[e].outer = M
                 /\ \A i \in DOMAIN symbols : symbols[i] \in SymbolsOf(M)

\* Of what one declaration encloses, no two are emitted under one name.
LEMMA MangledDistinct ==
  ASSUME NamesHold, ~errors, NEW d \in DOMAIN decls, NEW e \in DOMAIN decls,
         IsEmitted(d), IsEmitted(e), decls[d].outer = decls[e].outer,
         mangleName(d) = mangleName(e)
  PROVE  d = e
<1>1. IsSeq(decls) /\ Inward(decls) /\ Distinct(decls)
  /\ DOMAIN decls = 1..Len(decls) /\ Len(decls) \in Nat
  BY Numbers DEF NamesHold
<1>2. PICK N : N = {decls[i].name : i \in DOMAIN decls}
  OBVIOUS
<1>3. PICK o, p : o = decls[d].outer /\ p = IF o = Null THEN <<>> ELSE mangleName(o)
  OBVIOUS
<1>4. p \in Seq(N)
  <2>1. ASSUME o # Null PROVE o \in DOMAIN decls
    <3>1. o \in Nat /\ o < d
      BY <1>1, <1>3 DEF Inward
    <3> QED BY <1>1, <2>1, <3>1 DEF Null
  <2>2. o # Null => p \in Seq(N)
    BY <1>1, <1>2, <1>3, <2>1, MangledSeq
  <2>3. o = Null => p \in Seq(N)
    BY <1>3
  <2> QED BY <2>2, <2>3
<1>5. mangleName(d) = Append(p, decls[d].name) /\ mangleName(e) = Append(p, decls[e].name)
  BY <1>1, <1>3, Mangled
<1>6. decls[d].name = decls[e].name
  <2>1. PICK x, y : x = decls[d].name /\ y = decls[e].name /\ x \in N /\ y \in N
    BY <1>2
  <2>2. Append(p, x) = Append(p, y)
    BY <1>5, <2>1
  <2>3. Append(p, x)[Len(p) + 1] = x /\ Append(p, y)[Len(p) + 1] = y
    BY <1>4, <2>1, AppendProperties
  <2> QED BY <2>1, <2>2, <2>3
<1>7. d \in Named(decls) /\ e \in Named(decls)
  BY DEF IsEmitted, Named
<1> QED BY <1>1, <1>6, <1>7 DEF Distinct

LEMMA EmitHolds ==
  ASSUME SymbolsHold, phase = "generate", EmitDecl,
         decls' = decls, phase' = phase, errors' = errors, NamesHold'
  PROVE  SymbolsHold'
<1>1. PICK M : /\ \A e \in todo : e \in DOMAIN decls /\ decls[e].outer = M
               /\ \A i \in DOMAIN symbols : symbols[i] \in SymbolsOf(M)
  BY DEF SymbolsHold
<1>2. NamesHold /\ ~errors /\ IsSeq(symbols) /\ SymbolsDistinct
  BY DEF SymbolsHold
<1>3. PICK f : f = First
  OBVIOUS
<1>4. /\ todo # {} /\ todo' = todo \ {f}
      /\ symbols' = IF IsEmitted(f) THEN Append(symbols, mangleName(f)) ELSE symbols
  BY <1>3, Zenon DEF EmitDecl
<1>5. f \in todo
  <2>1. todo \subseteq Nat
    BY <1>1, <1>2, Numbers
  <2>2. \E d \in todo : \A e \in todo : d <= e
    BY <1>4, <2>1, Smallest
  <2> QED BY <1>3, <2>2 DEF First
<1>6. f \in DOMAIN decls /\ decls[f].outer = M
  BY <1>1, <1>5
<1>7. \A d : mangleName(d)' = mangleName(d) /\ (IsEmitted(d)' <=> IsEmitted(d))
  BY DEF mangleName, IsEmitted
<1>8. \A e \in todo' : e \in DOMAIN decls /\ decls[e].outer = M
  BY <1>1, <1>4
<1>9. SymbolsOf(M) \subseteq SymbolsOf(M)'
  BY <1>4, <1>7 DEF SymbolsOf
<1>10. CASE ~IsEmitted(f)
  <2>1. symbols' = symbols
    BY <1>4, <1>10
  <2>2. \A i \in DOMAIN symbols' : symbols'[i] \in SymbolsOf(M)'
    BY <1>1, <1>9, <2>1
  <2>3. SymbolsDistinct'
    BY <1>2, <2>1 DEF SymbolsDistinct
  <2> QED BY <1>2, <1>8, <2>1, <2>2, <2>3 DEF SymbolsHold
<1>11. CASE IsEmitted(f)
  <2>1. PICK x : x = mangleName(f)
    OBVIOUS
  <2>2. symbols' = Append(symbols, x)
    BY <1>4, <1>11, <2>1
  <2>3. PICK n \in Nat : n = Len(symbols) /\ DOMAIN symbols = 1..n
    BY <1>2, SeqFacts
  <2>4. /\ IsSeq(symbols') /\ DOMAIN symbols' = 1..(n + 1)
        /\ symbols'[n + 1] = x /\ \A i \in 1..n : symbols'[i] = symbols[i]
    <3>1. PICK S : symbols \in Seq(S)
      BY <1>2 DEF IsSeq
    <3>2. symbols \in Seq(S \cup {x}) /\ x \in S \cup {x}
      BY <3>1, SeqMonotonic
    <3>3. symbols' \in Seq(S \cup {x})
      BY <2>2, <3>2, AppendProperties
    <3> QED BY <2>2, <2>3, <3>2, <3>3, AppendProperties DEF IsSeq
  <2>5. x \in SymbolsOf(M)'
    <3>1. f \in DOMAIN decls \ todo'
      BY <1>4, <1>6
    <3> QED BY <1>6, <1>7, <1>11, <2>1, <3>1 DEF SymbolsOf
  <2>6. \A i \in DOMAIN symbols' : symbols'[i] \in SymbolsOf(M)'
    BY <1>1, <1>9, <2>3, <2>4, <2>5
  <2>7. ASSUME NEW i \in 1..n PROVE symbols[i] # x
    <3>1. PICK e \in DOMAIN decls \ todo :
            decls[e].outer = M /\ IsEmitted(e) /\ symbols[i] = mangleName(e)
      BY <1>1, <2>3 DEF SymbolsOf
    <3>2. e # f
      BY <1>5, <3>1
    <3> QED BY <1>2, <1>6, <1>11, <2>1, <3>1, <3>2, MangledDistinct
  <2>8. SymbolsDistinct'
    <3>1. \A i, j \in 1..n : symbols[i] = symbols[j] => i = j
      BY <1>2, <2>3 DEF SymbolsDistinct
    <3>2. \A i \in 1..(n + 1) : i \in 1..n \/ i = n + 1
      BY <2>3
    <3> QED BY <2>4, <2>7, <3>1, <3>2 DEF SymbolsDistinct
  <2> QED BY <1>2, <1>8, <2>4, <2>6, <2>8 DEF SymbolsHold
<1> QED BY <1>10, <1>11

LEMMA DriverStepSymbols == ASSUME SymbolsHold, [DriverNext]_driverVars PROVE SymbolsHold'
<1>1. NamesHold'
  BY DriverStepNames DEF SymbolsHold
<1>2. IsSeq(<<>>)
  <2>1. <<>> \in Seq({})
    OBVIOUS
  <2> QED BY <2>1 DEF IsSeq
<1>3. CASE ReadFile
  <2>1. phase' = "parse" /\ todo' = {} /\ symbols' = <<>>
    BY <1>3, Zenon DEF ReadFile
  <2> QED BY <1>1, <1>2, <2>1 DEF SymbolsHold, SymbolsDistinct
<1>4. CASE Parse
  <2>1. phase = "parse" /\ phase' = phase /\ todo' = todo /\ symbols' = symbols
    BY <1>4 DEF Parse, cgVars
  <2> QED BY <1>1, <2>1 DEF SymbolsHold, SymbolsDistinct
<1>5. CASE EndParse
  <2>1. /\ phase = "parse" /\ symbols' = symbols /\ decls' = decls /\ errors' = errors
        /\ \/ phase' = "generate" /\ ~errors /\ (todo' = {} \/ \E M : todo' = getDecls(M))
           \/ phase' = "read" /\ todo' = todo
    BY <1>5 DEF EndParse, parserVars, vars, semaVars, Becomes
  <2>2. symbols = <<>> /\ DOMAIN symbols = {} /\ todo = {}
    BY <2>1 DEF SymbolsHold
  <2>3. CASE phase' = "generate"
    <3>1. PICK M : \A e \in todo' : e \in DOMAIN decls /\ decls[e].outer = M
      BY <2>1, <2>3 DEF getDecls
    <3> QED BY <1>1, <1>2, <2>1, <2>2, <2>3, <3>1 DEF SymbolsHold, SymbolsDistinct
  <2>4. CASE phase' = "read"
    BY <1>1, <1>2, <2>1, <2>2, <2>4 DEF SymbolsHold, SymbolsDistinct
  <2> QED BY <2>1, <2>3, <2>4
<1>6. CASE Generate
  <2>1. phase = "generate" /\ EmitDecl /\ decls' = decls /\ phase' = phase /\ errors' = errors
    BY <1>6 DEF Generate, parserVars, vars, semaVars
  <2> QED BY <1>1, <2>1, EmitHolds
<1>7. CASE FatalError \/ ReadError
  <2>1. phase' = "gone" /\ symbols' = symbols
    BY <1>7 DEF FatalError, ReadError, Dies, cgVars
  <2> QED BY <1>1, <2>1 DEF SymbolsHold, SymbolsDistinct
<1>8. CASE Emit
  <2>1. phase' = "read" /\ symbols' = symbols /\ todo' = todo /\ todo = {}
    BY <1>8 DEF Emit, Becomes, cgVars
  <2> QED BY <1>1, <2>1 DEF SymbolsHold, SymbolsDistinct
<1>9. CASE UNCHANGED driverVars
  <2>1. phase' = phase /\ symbols' = symbols /\ todo' = todo /\ decls' = decls /\ errors' = errors
    BY <1>9 DEF driverVars, cgVars, vars, semaVars
  <2>2. \A d : mangleName(d)' = mangleName(d) /\ (IsEmitted(d)' <=> IsEmitted(d))
    BY <2>1 DEF mangleName, IsEmitted
  <2>3. \A M : SymbolsOf(M) \subseteq SymbolsOf(M)'
    BY <2>1, <2>2 DEF SymbolsOf
  <2>4. SymbolsDistinct'
    BY <2>1 DEF SymbolsHold, SymbolsDistinct
  <2> QED BY <1>1, <2>1, <2>3, <2>4 DEF SymbolsHold
<1> QED BY <1>3, <1>4, <1>5, <1>6, <1>7, <1>8, <1>9, Zenon DEF DriverNext, DriverHalt

\* Whatever the files, no two globals or functions of a module get one name: what is
\* declared twice in a scope is reported (Sema.cpp, Scope.cpp:6-8), a module with an error
\* is not generated, and the mangled name is the path of the names of the enclosing
\* declarations (CGModule.cpp:78-95, 108-138).
THEOREM DriverSymbolsDistinct == DriverSpec => []SymbolsDistinct
<1>1. DriverInit => SymbolsHold
  <2>1. SUFFICES ASSUME DriverInit PROVE SymbolsHold
    OBVIOUS
  <2>2. /\ calls = <<>> /\ decls = InitialDecls /\ scopes = InitialScopes /\ current = Null
        /\ phase = "read" /\ todo = {} /\ symbols = <<>>
    BY <2>1, Zenon DEF DriverInit, initialize, NothingEmitted
  <2>3. TypesHold
    BY <2>1, StartCoherent, StartTyped, Zenon DEF DriverInit, initialize, TypesHold, Coherence
  <2>4. NamesHold
    BY <2>2, <2>3, StartNames DEF NamesHold
  <2>5. IsSeq(<<>>)
    <3>1. <<>> \in Seq({})
      OBVIOUS
    <3> QED BY <3>1 DEF IsSeq
  <2> QED BY <2>2, <2>4, <2>5 DEF SymbolsHold, SymbolsDistinct
<1>2. SymbolsHold /\ [DriverNext]_driverVars => SymbolsHold'
  BY DriverStepSymbols
<1>3. SymbolsHold => SymbolsDistinct
  BY DEF SymbolsHold
<1> QED BY <1>1, <1>2, <1>3, PTL DEF DriverSpec

=============================================================================
