-------------------------------- MODULE Sema --------------------------------
(***************************************************************************)
(* The semantic analysis of tinylang (tinylang/lib/Sema): declarations, the *)
(* chain of scopes, the types of expressions.                               *)
(*                                                                         *)
(* A declaration is an object of the heap decls, and a Decl* its index; 0 is *)
(* the null pointer.  An Expr is a record with what the analysis asks of it: *)
(* its class, its type, whether it is constant, the value of a Boolean       *)
(* literal.  Locations, texts of messages and statements are left out: no    *)
(* check reads a statement after it is built.                                *)
(***************************************************************************)
EXTENDS Integers, Sequences

VARIABLES decls,    \* every Decl allocated so far
          scopes,   \* CurrentScope and its parents, innermost last
          current,  \* CurrentDecl
          errors    \* Diags.numErrors() # 0

semaVars == <<decls, scopes, current, errors>>

Null == 0
IntegerType == 1
BooleanType == 2
TrueConst == 3
FalseConst == 4

Expr(kind, type, const, value) ==
  [kind |-> kind, type |-> type, const |-> const, value |-> value]
NoExpr == Expr("null", Null, FALSE, FALSE)
BooleanLiteral(value) == Expr("bool", BooleanType, TRUE, value)

\* A Decl of a class and a name, enclosed by outer.
Decl(kind, name, outer) ==
  [kind |-> kind, name |-> name, outer |-> outer, type |-> Null, expr |-> NoExpr,
   params |-> <<>>, fields |-> <<>>, byRef |-> FALSE]

\* RetType of a ProcedureDeclaration is not initialised by its constructor.
Unset == -1

InitialDecls ==
  << Decl("Pervasive", "INTEGER", Null),
     Decl("Pervasive", "BOOLEAN", Null),
     [Decl("Const", "TRUE", Null) EXCEPT !.expr = BooleanLiteral(TRUE)],
     [Decl("Const", "FALSE", Null) EXCEPT !.expr = BooleanLiteral(FALSE)] >>

\* The global scope.
InitialScopes ==
  << [INTEGER |-> IntegerType, BOOLEAN |-> BooleanType,
      TRUE |-> TrueConst, FALSE |-> FalseConst] >>

initialize == /\ decls = InitialDecls
              /\ scopes = InitialScopes
              /\ current = Null
              /\ errors = FALSE

\* isa<TypeDeclaration>: the array type is left out, see Parser.
IsType(d) == decls[d].kind \in {"Alias", "Pervasive", "Pointer", "Record"}

Report(b) == errors' = (errors \/ b)

(* Scopes. *)

Innermost == scopes[Len(scopes)]

\* A lookup that does not go to the parents.
lookupInnermost(name) == IF name \in DOMAIN Innermost THEN Innermost[name] ELSE Null

\* Scope::lookup: the nearest scope that binds the name.
lookup(name) ==
  LET binding == {k \in DOMAIN scopes : name \in DOMAIN scopes[k]}
  IN  IF binding = {} THEN Null
      ELSE scopes[CHOOSE k \in binding : \A j \in binding : j <= k][name]

\* Positions of ds that Scope::insert accepts, one after the other: the name is
\* neither bound in the innermost scope nor by an earlier one of ds.
Inserted(ds) ==
  {i \in DOMAIN ds : /\ ds[i].name \notin DOMAIN Innermost
                     /\ \A j \in 1..i - 1 : ds[j].name # ds[i].name}

\* An insertion that replaces what the name was bound to.
insertReplacing(ds) ==
  /\ decls' = decls \o ds
  /\ scopes' = [scopes EXCEPT ![Len(scopes)] =
                  [n \in DOMAIN @ \cup {ds[i].name : i \in DOMAIN ds} |->
                     IF \E i \in DOMAIN ds : ds[i].name = n
                       THEN Len(decls) + CHOOSE i \in DOMAIN ds : ds[i].name = n
                       ELSE @[n]]]
  /\ Report(Inserted(ds) # DOMAIN ds)

\* An insertion into the global scope.
insertOutermost(ds) ==
  /\ decls' = decls \o ds
  /\ scopes' = [scopes EXCEPT ![1] =
                  [n \in DOMAIN @ \cup {ds[i].name : i \in Inserted(ds)} |->
                     IF n \in DOMAIN @ THEN @[n]
                     ELSE Len(decls) + CHOOSE i \in Inserted(ds) : ds[i].name = n]]
  /\ Report(Inserted(ds) # DOMAIN ds)

\* An insertion that binds a name to the declaration before its own.
insertOff(ds) ==
  /\ decls' = decls \o ds
  /\ scopes' = [scopes EXCEPT ![Len(scopes)] =
                  [n \in DOMAIN @ \cup {ds[i].name : i \in Inserted(ds)} |->
                     IF n \in DOMAIN @ THEN @[n]
                     ELSE Len(decls) - 1 + CHOOSE i \in Inserted(ds) : ds[i].name = n]]
  /\ Report(Inserted(ds) # DOMAIN ds)

\* An insertion that does not report a name that is taken.
insertSilently(ds) ==
  /\ decls' = decls \o ds
  /\ scopes' = [scopes EXCEPT ![Len(scopes)] =
                  [n \in DOMAIN @ \cup {ds[i].name : i \in Inserted(ds)} |->
                     IF n \in DOMAIN @ THEN @[n]
                     ELSE Len(decls) + CHOOSE i \in Inserted(ds) : ds[i].name = n]]
  /\ UNCHANGED errors

\* Allocates the declarations ds and inserts them into the innermost scope; a
\* name that is taken is reported.
insert(ds) ==
  LET new == Inserted(ds)
      position(n) == CHOOSE i \in new : ds[i].name = n
      bound == [n \in {ds[i].name : i \in new} |-> Len(decls) + position(n)]
  IN  /\ decls' = decls \o ds
      /\ scopes' = [scopes EXCEPT ![Len(scopes)] =
                      [n \in DOMAIN @ \cup DOMAIN bound |->
                         IF n \in DOMAIN @ THEN @[n] ELSE bound[n]]]
      /\ Report(new # DOMAIN ds)

\* Those it has inserted, in order.
InsertedDecls(ds) ==
  SelectSeq([i \in DOMAIN ds |-> Len(decls) + i], LAMBDA d : d - Len(decls) \in Inserted(ds))

\* enterScope, which EnterDeclScope calls for a declaration just created.
enterScope(d) == /\ scopes' = Append(scopes, [n \in {} |-> Null])
                 /\ current' = d

\* leaveScope, which its destructor calls.
leaveScope == /\ scopes' = SubSeq(scopes, 1, Len(scopes) - 1)
              /\ current' = decls[current].outer

(* Declarations.  Each is an action on decls, scopes and errors. *)

actOnConstantDeclaration(name, E) ==
  insert(<<[Decl("Const", name, current) EXCEPT !.expr = E]>>)

\* The procedure is declared before its heading is read.
actOnProcedureDeclaration(name) ==
  insert(<<[Decl("Proc", name, current) EXCEPT !.type = Unset]>>)

\* A declaration that accepts whatever the name stands for.
DeclareTypedAny(ds, D) == insert(ds)

\* What alias, pointer, variable and parameter declarations share: D must be a
\* type, or the error is reported and nothing declared.
DeclareTyped(ds, D) ==
  IF IsType(D) THEN insert(ds)
  ELSE Report(ds # <<>>) /\ UNCHANGED <<decls, scopes>>

actOnTypeDeclaration(kind, name, D) ==
  DeclareTyped(<<[Decl(kind, name, current) EXCEPT !.type = D]>>, D)

Variables(Ids, D) ==
  [i \in DOMAIN Ids |-> [Decl("Var", Ids[i], current) EXCEPT !.type = D]]

actOnVariableDeclaration(Ids, D) == DeclareTyped(Variables(Ids, D), D)

Parameters(Ids, D, IsVar) ==
  [i \in DOMAIN Ids |->
     [Decl("Param", Ids[i], current) EXCEPT !.type = D, !.byRef = IsVar]]

actOnFormalParameterDeclaration(Ids, D, IsVar) ==
  DeclareTyped(Parameters(Ids, D, IsVar), D)

\* The fields that Fields gains; a record type is declared unless two of them
\* have one name.
FieldsOf(Ids, D) ==
  IF IsType(D) THEN [i \in DOMAIN Ids |-> [name |-> Ids[i], type |-> D]] ELSE <<>>

actOnRecordTypeDeclaration(name, fields) ==
  IF \E i, j \in DOMAIN fields : i # j /\ fields[i].name = fields[j].name
    THEN Report(TRUE) /\ UNCHANGED <<decls, scopes>>
    ELSE insert(<<[Decl("Record", name, current) EXCEPT !.fields = fields]>>)

\* A heading that sets a return type only if there is one.
actOnProcedureHeadingUnset(P, params, Ret) ==
  /\ decls' = [decls EXCEPT ![P].params = params,
                            ![P].type = IF Ret # Null /\ IsType(Ret) THEN Ret ELSE @]
  /\ Report(Ret # Null /\ ~IsType(Ret))

\* The heading: the parameters are kept; the return type is kept only if there is
\* none or it is a type.
actOnProcedureHeading(P, params, Ret) ==
  LET isRet == Ret = Null \/ IsType(Ret)
  IN  /\ decls' = [decls EXCEPT ![P].params = params,
                                ![P].type = IF isRet THEN Ret ELSE @]
      /\ Report(~isRet)

(* Expressions.  Each operator is the Expr the function returns, and has a *)
(* companion for when it reports an error.                                 *)

isOperatorForType(op, type) ==
  CASE op \in {"+", "-", "*", "DIV", "MOD"} -> type = IntegerType
    [] op = "/" -> FALSE
    [] op \in {"AND", "OR", "NOT"} -> type = BooleanType

\* With a null operand the other one is returned, and nothing is checked.
actOnExpression(L, R) ==
  IF L = NoExpr THEN R ELSE IF R = NoExpr THEN L
  ELSE Expr("infix", BooleanType, L.const /\ R.const, FALSE)

Incompatible(L, R) == L # NoExpr /\ R # NoExpr /\ L.type # R.type

\* actOnSimpleExpression and actOnTerm: two constants are folded by OR and AND.
Folds(L, R, op) == L.const /\ R.const /\ op \in {"OR", "AND"}

Combine(L, R, op) ==
  IF L = NoExpr THEN R ELSE IF R = NoExpr THEN L
  ELSE IF Folds(L, R, op)
         THEN BooleanLiteral(IF op = "OR" THEN L.value \/ R.value ELSE L.value /\ R.value)
         ELSE Expr("infix", L.type, L.const /\ R.const, FALSE)

\* actOnTerm also asks whether the type has the operator.
TermError(L, R, op) ==
  L # NoExpr /\ R # NoExpr
  /\ (L.type # R.type \/ ~isOperatorForType(op, L.type))

actOnPrefixExpression(E, op) ==
  IF E = NoExpr THEN NoExpr
  ELSE IF E.const /\ op = "NOT" THEN BooleanLiteral(~E.value)
  ELSE Expr("prefix", E.type, E.const, FALSE)

PrefixError(E, op) == E # NoExpr /\ ~isOperatorForType(op, E.type)

actOnIntegerLiteral == Expr("int", IntegerType, TRUE, FALSE)

actOnDesignator(D) ==
  IF D = Null THEN NoExpr
  ELSE CASE decls[D].kind \in {"Var", "Param"} -> Expr("var", decls[D].type, FALSE, FALSE)
         [] D \in {TrueConst, FalseConst} -> decls[D].expr
         [] decls[D].kind = "Const" /\ D \notin {TrueConst, FalseConst} ->
              Expr("access", decls[D].expr.type, TRUE, FALSE)
         [] OTHER -> NoExpr

\* The designator's type becomes the field's; anything else leaves it alone.
actOnFieldSelector(E, name) ==
  LET fields == IF E.kind = "var" /\ decls[E.type].kind = "Record"
                  THEN decls[E.type].fields ELSE <<>>
      named == {i \in DOMAIN fields : fields[i].name = name}
  IN  IF named = {} THEN E
      ELSE [E EXCEPT !.type = fields[CHOOSE i \in named : \A j \in named : i <= j].type]

\* checkFormalAndActualParameters reports: the number, a type, or a Designator
\* where the parameter is VAR.
ArgumentError(P, args) ==
  LET formals == decls[P].params
  IN  \/ Len(formals) # Len(args)
      \/ \E i \in DOMAIN args :
           \/ decls[formals[i]].type # args[i].type
           \/ decls[formals[i]].byRef /\ args[i].kind = "var"

\* Both kinds of call are checked; only a procedure can be called.
IsProcedure(D) == D # Null /\ decls[D].kind = "Proc"

actOnFunctionCall(D) ==
  IF IsProcedure(D) THEN Expr("call", decls[D].type, FALSE, FALSE) ELSE NoExpr

\* A check that forgets that a proper procedure returns nothing.
FunctionCallErrorForgotten(D, args) == D # Null /\ (IsProcedure(D) => ArgumentError(D, args))

FunctionCallError(D, args) ==
  /\ D # Null
  /\ IsProcedure(D) => ArgumentError(D, args) \/ decls[D].type = Null

ProcCallError(D, args) ==
  IsProcedure(D) => ArgumentError(D, args) \/ decls[D].type # Null

(* Statements: when an error is reported. *)

AssignmentError(L, E) == L.kind = "var" /\ L.type # E.type

\* A condition the parser could not read is FALSE.
ConditionError(E) == E # NoExpr /\ E.type # BooleanType

ReturnError(E) ==
  LET ret == decls[current].type
  IN  IF ret # Null THEN E = NoExpr \/ ret # E.type ELSE E # NoExpr

(* Where the code dereferences a null pointer: dyn_cast and isa of a null  *)
(* Decl or Expr, a dyn_cast that failed, a cast to the wrong class.        *)

AssignmentCrashes(L, E) == L = NoExpr \/ (L.kind = "var" /\ E = NoExpr)

\* L->getValue() || R->getValue() looks at R only if L is FALSE; && if L is TRUE.
FoldCrashes(L, R, op) ==
  /\ Folds(L, R, op)
  /\ L.kind # "bool" \/ (R.kind # "bool" /\ L.value = (op = "AND"))

NotCrashes(E, op) == E.const /\ op = "NOT" /\ E.kind # "bool"

\* ConstantAccess asks for the type of an initialiser that may be null.
DesignatorCrashes(D) ==
  D # Null /\ decls[D].kind = "Const" /\ decls[D].expr = NoExpr

ReturnCrashes == decls[current].kind # "Proc"
=============================================================================
