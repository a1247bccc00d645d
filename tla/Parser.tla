------------------------------- MODULE Parser -------------------------------
(***************************************************************************)
(* The recursive descent parser of tinylang (tinylang/lib/Parser/Parser.cpp) *)
(* over the semantic analysis, with its recovery from errors.               *)
(*                                                                         *)
(* Each parse function is a rule of ParserRules.  calls has one frame per    *)
(* active call.  A rule fails by replacing the rest of its body by Handler:  *)
(* the handler skips to a token of sync and returns FALSE, "no error", or    *)
(* reaches the end of the file and returns TRUE, and then the caller's        *)
(* handler runs.                                                            *)
(*                                                                         *)
(* The text is a program with at most MaxEdits edits, chosen while it is     *)
(* read.  A token is its kind, or the name of an identifier.                 *)
(***************************************************************************)
EXTENDS Sema, ParserRules, FiniteSets

CONSTANTS Programs,     \* sequences of tokens
          Names,        \* the tokens that are identifiers
          Alphabet,     \* tokens an edit may put into the text
          MaxEdits      \* bound on the edits of a text

ASSUME EditsAssumption == MaxEdits \in Nat

\* What the lexer returns at the end of a text is no token of it.
Tokens == STRING \ {"eof"}

ASSUME TokensAssumption ==
  Programs \subseteq Seq(Tokens) /\ Alphabet \subseteq Tokens /\ Names \subseteq Tokens

VARIABLES text,      \* what the lexer has not read
          edits,     \* edits that may still be made
          tok,       \* Tok
          calls,     \* active parse functions, innermost last
          crashed,   \* a null pointer was dereferenced
          dropped    \* a handler has skipped a token

lexVars == <<text, edits, tok>>
vars == <<text, edits, tok, calls, crashed, dropped, semaVars>>

(* Frames. *)

\* The local variables of the parse functions, and their initial values: D and
\* Ret are Decl*, E, L (Desig) and R (Right) Expr*.
Locals ==
  [D |-> Null, E |-> NoExpr, L |-> NoExpr, R |-> NoExpr, Op |-> "none",
   PrefixOp |-> "none", Name |-> "none", Ids |-> <<>>, Exprs |-> <<>>,
   Params |-> <<>>, Fields |-> <<>>, Ret |-> Null, IsVar |-> FALSE]

\* A call of fn that has done nothing yet; out maps its reference parameters to
\* the locals of the caller they refer to.
Frame(fn, locals, out) ==
  [fn |-> fn, rest |-> Rules[fn].body, locals |-> locals, out |-> out, scoped |-> FALSE]

Top == calls[Len(calls)]
v == Top.locals
SetTop(frame) == calls' = [calls EXCEPT ![Len(calls)] = frame]

Kind(t) == IF t \in Names THEN "identifier" ELSE t
Is(kinds) == Kind(tok) \in kinds

\* The next instruction of the innermost call is one of these.
Doing(op) == /\ ~crashed /\ calls # <<>>
             /\ Top.rest # <<>> /\ Top.rest[1].op = op

\* It is done, and the locals are these.
Done(locals) == SetTop([Top EXCEPT !.rest = Tail(@), !.locals = locals])

\* return _errorhandler();
Recover == SetTop([Top EXCEPT !.rest = <<Handler>>])

\* A failing call that leaves its scope open.
LeaveOpen(failed) ==
  LET n == Len(calls)
  IN  /\ calls' = IF n = 1 THEN <<>>
                  ELSE Append(SubSeq(calls, 1, n - 2),
                              [calls[n - 1] EXCEPT !.rest = IF failed THEN <<Handler>> ELSE @])
      /\ IF Top.scoped /\ ~failed THEN leaveScope ELSE UNCHANGED <<scopes, current>>
      /\ UNCHANGED <<decls, errors>>

\* The locals of a caller after the call: those that the reference parameters out
\* refer to have been written.
Written(out, inner, outer) ==
  [x \in DOMAIN inner |->
     LET refers == {p \in DOMAIN out : out[p] = x}
     IN  IF refers = {} THEN outer[x] ELSE inner[CHOOSE p \in refers : TRUE]]

\* Leaves the innermost call, and EnterDeclScope is destroyed.  failed is what it
\* returns.
Leave(failed) ==
  LET n == Len(calls)
  IN  /\ calls' = IF n = 1 THEN <<>>
                  ELSE Append(SubSeq(calls, 1, n - 2),
                              [calls[n - 1] EXCEPT
                                 !.locals = Written(Top.out, v, @),
                                 !.rest = IF failed THEN <<Handler>> ELSE @])
      /\ IF Top.scoped THEN leaveScope ELSE UNCHANGED <<scopes, current>>
      /\ UNCHANGED <<decls, errors>>

(* The lexer: Lex.next(Tok). *)

Take(s) == IF s = <<>> THEN tok' = "eof" /\ text' = <<>>
           ELSE tok' = Head(s) /\ text' = Tail(s)

\* A token is dropped, put in, or replaced, or the text ends here.
Edit ==
  /\ edits > 0 /\ tok # "eof" /\ edits' = edits - 1
  /\ \/ text # <<>> /\ Take(Tail(text))
     \/ \E t \in Alphabet : tok' = t /\ text' = text
     \/ \E t \in Alphabet : text # <<>> /\ tok' = t /\ text' = Tail(text)
     \/ Take(<<>>)

\* A character the lexer does not know stays where it is.
Lex ==
  IF tok = "unknown" THEN UNCHANGED lexVars
  ELSE \/ Take(text) /\ UNCHANGED edits
       \/ Edit

(* The parser's own steps. *)

parserOnly == UNCHANGED <<crashed, dropped>>

DoAdvance == /\ Doing("advance") /\ Lex /\ Done(v)
             /\ parserOnly /\ UNCHANGED semaVars

\* expect checks the token and reports another one.
DoExpect ==
  /\ Doing("expect")
  /\ IF Is({Top.rest[1].kind}) THEN Done(v) ELSE Recover
  /\ Report(~Is({Top.rest[1].kind}))
  /\ parserOnly /\ UNCHANGED <<lexVars, decls, scopes, current>>

\* consume takes the token, and reports nothing if it is another one.
DoConsume ==
  /\ Doing("consume")
  /\ IF Is({Top.rest[1].kind}) THEN Lex /\ Done(v) ELSE Recover /\ UNCHANGED lexVars
  /\ parserOnly /\ UNCHANGED semaVars

DoWhen ==
  /\ Doing("when")
  /\ LET i == Top.rest[1]
     IN  SetTop([Top EXCEPT !.rest =
                   (IF Is(i.kinds) THEN i.then ELSE i.otherwise) \o Tail(@)])
  /\ parserOnly /\ UNCHANGED <<lexVars, semaVars>>

DoWhile ==
  /\ Doing("while")
  /\ LET i == Top.rest[1]
     IN  SetTop([Top EXCEPT !.rest = IF Is(i.kinds) THEN i.body \o @ ELSE Tail(@)])
  /\ parserOnly /\ UNCHANGED <<lexVars, semaVars>>

DoCall ==
  /\ Doing("call")
  /\ LET i == Top.rest[1]
         passed == [x \in DOMAIN Locals |->
                      IF x \in DOMAIN i.out THEN v[i.out[x]] ELSE Locals[x]]
     IN  calls' = Append([calls EXCEPT ![Len(calls)].rest = Tail(@)],
                         Frame(i.fn, passed, i.out))
  /\ parserOnly /\ UNCHANGED <<lexVars, semaVars>>

DoFail == /\ Doing("fail") /\ Recover
          /\ parserOnly /\ UNCHANGED <<lexVars, semaVars>>

DoReturn == /\ ~crashed /\ calls # <<>> /\ Top.rest = <<>> /\ Leave(FALSE)
            /\ parserOnly /\ UNCHANGED lexVars

\* The handler has found a token of sync, and the caller goes on as if nothing
\* had been wrong; or it skips one more.
Sync == Rules[Top.fn].sync

\* The error is forgotten: the caller goes on as if there had been none.
Resynchronise == /\ Doing("handler") /\ Is(Sync) /\ Leave(FALSE)
                 /\ parserOnly /\ UNCHANGED lexVars

\* A handler that does not look for the end of the file.
SkipOn == /\ Doing("handler") /\ ~Is(Sync) /\ Lex /\ dropped' = (tok # "eof" \/ dropped)
          /\ UNCHANGED <<calls, semaVars, crashed>>

Skip ==
  /\ Doing("handler") /\ ~Is(Sync) /\ Lex /\ dropped' = (tok # "eof" \/ dropped)
  /\ IF tok' = "eof" /\ "eof" \notin Sync THEN Leave(TRUE) ELSE UNCHANGED <<calls, semaVars>>
  /\ UNCHANGED crashed

(* The semantic actions.  op computes the locals and reports an error or not. *)

Evaluates(op, locals, error) ==
  /\ Doing(op) /\ Done(locals) /\ Report(error)
  /\ parserOnly /\ UNCHANGED <<lexVars, decls, scopes, current>>

\* op declares something, in an action on decls, scopes and errors.
Declares(op, locals, Action) ==
  /\ Doing(op) /\ Done(locals) /\ Action
  /\ parserOnly /\ UNCHANGED <<lexVars, current>>

\* The step that dereferences a null pointer.
NullUse ==
  \/ /\ \E op \in {"alias", "pointer", "field", "variable", "parameter", "procCall"} : Doing(op)
     /\ v.D = Null
  \/ Doing("isModule") /\ tok = "." /\ v.D = Null
  \/ Doing("designator") /\ DesignatorCrashes(v.D)
  \/ Doing("fieldSelector") /\ v.E = NoExpr
  \/ Doing("assignment") /\ AssignmentCrashes(v.L, v.E)
  \/ (Doing("sum") \/ Doing("product")) /\ FoldCrashes(v.E, v.R, v.Op)
  \/ Doing("not") /\ NotCrashes(v.E, "NOT")
  \/ Doing("return") /\ ReturnCrashes

Crash == /\ NullUse /\ crashed' = TRUE
         /\ UNCHANGED <<lexVars, calls, dropped, semaVars>>

TakeToken ==
  \/ Evaluates("takeName", [v EXCEPT !.Name = tok], FALSE)
  \/ Evaluates("takeId", [v EXCEPT !.Ids = Append(@, tok)], FALSE)
  \/ Evaluates("takeOperator", [v EXCEPT !.Op = tok], FALSE)
  \/ Evaluates("takePrefix", [v EXCEPT !.PrefixOp = tok], FALSE)
  \/ Evaluates("byRef", [v EXCEPT !.IsVar = TRUE], FALSE)

\* A name that is not declared is not reported.
LookUpSilent ==
  \/ Evaluates("lookup", [v EXCEPT !.D = lookup(tok)], FALSE)
  \/ Evaluates("isModule", v, FALSE)

\* actOnQualIdentPart; an undeclared name is null.
LookUp ==
  \/ Evaluates("lookup", [v EXCEPT !.D = lookup(tok)], lookup(tok) = Null)
  \/ Evaluates("isModule", v, FALSE)

Operand ==
  \/ Evaluates("integer", [v EXCEPT !.E = actOnIntegerLiteral], FALSE)
  \/ Evaluates("designator", [v EXCEPT !.E = actOnDesignator(v.D)], FALSE)
  \/ Evaluates("fieldSelector", [v EXCEPT !.E = actOnFieldSelector(@, tok)], FALSE)
  \/ Evaluates("functionCall", [v EXCEPT !.E = actOnFunctionCall(v.D)],
               FunctionCallError(v.D, v.Exprs))

\* The right operand is a local of the loop over operators.
Operation ==
  \/ Evaluates("relation", [v EXCEPT !.E = actOnExpression(@, v.R), !.R = NoExpr],
               Incompatible(v.E, v.R))
  \/ Evaluates("sum", [v EXCEPT !.E = Combine(@, v.R, v.Op), !.R = NoExpr],
               Incompatible(v.E, v.R))
  \/ Evaluates("product", [v EXCEPT !.E = Combine(@, v.R, v.Op), !.R = NoExpr],
               TermError(v.E, v.R, v.Op))
  \/ Evaluates("not", [v EXCEPT !.E = actOnPrefixExpression(@, "NOT")],
               PrefixError(v.E, "NOT"))
  \/ Evaluates("sign",
               [v EXCEPT !.E = IF v.PrefixOp = "none" THEN @
                               ELSE actOnPrefixExpression(@, v.PrefixOp)],
               v.PrefixOp # "none" /\ PrefixError(v.E, v.PrefixOp))

\* An argument that could not be read is left out.
Statement ==
  \/ Evaluates("argument",
               [v EXCEPT !.Exprs = IF v.E = NoExpr THEN @ ELSE Append(@, v.E),
                         !.E = NoExpr], FALSE)
  \/ Evaluates("target", [v EXCEPT !.L = v.E, !.E = NoExpr], FALSE)
  \/ Evaluates("assignment", v, AssignmentError(v.L, v.E))
  \/ Evaluates("procCall", v, ProcCallError(v.D, v.Exprs))
  \/ Evaluates("condition", v, ConditionError(v.E))
  \/ Evaluates("return", v, ReturnError(v.E))

Declaration ==
  \/ Declares("constant", v, actOnConstantDeclaration(v.Name, v.E))
  \/ Declares("alias", v, actOnTypeDeclaration("Alias", v.Name, v.D))
  \/ Declares("pointer", v, actOnTypeDeclaration("Pointer", v.Name, v.D))
  \/ Declares("record", v, actOnRecordTypeDeclaration(v.Name, v.Fields))
  \/ Declares("variable", v, actOnVariableDeclaration(v.Ids, v.D))
  \/ Evaluates("field", [v EXCEPT !.Fields = @ \o FieldsOf(v.Ids, v.D)],
               ~IsType(v.D) /\ v.Ids # <<>>)

Procedure ==
  \/ Declares("newProcedure", [v EXCEPT !.D = Len(decls) + 1], actOnProcedureDeclaration(tok))
  \/ Declares("parameter",
              [v EXCEPT !.Params = @ \o (IF IsType(v.D)
                                           THEN InsertedDecls(Parameters(v.Ids, v.D, v.IsVar))
                                           ELSE <<>>)],
              actOnFormalParameterDeclaration(v.Ids, v.D, v.IsVar))
  \/ Declares("heading", v, actOnProcedureHeading(v.D, v.Params, v.Ret) /\ UNCHANGED scopes)
  \/ Evaluates("endProcedure", v, tok # decls[v.D].name)

\* The module is not inserted into a scope.
Module ==
  \/ Declares("newModule", [v EXCEPT !.D = Len(decls) + 1],
              decls' = Append(decls, Decl("Module", tok, current))
              /\ UNCHANGED <<scopes, errors>>)
  \/ Evaluates("import", v, TRUE)
  \/ Evaluates("endModule", v, tok # decls[v.D].name)

EnterDeclScope ==
  /\ Doing("enterScope")
  /\ SetTop([Top EXCEPT !.rest = Tail(@), !.scoped = TRUE]) /\ enterScope(v.D)
  /\ parserOnly /\ UNCHANGED <<lexVars, decls, errors>>

Analyse ==
  /\ ~NullUse
  /\ \/ TakeToken \/ LookUp \/ Operand \/ Operation \/ Statement
     \/ Declaration \/ Procedure \/ Module \/ EnterDeclScope

Init == /\ text \in Programs /\ edits = MaxEdits /\ tok = "none"
        /\ calls = <<Frame("parse", Locals, None)>>
        /\ crashed = FALSE /\ dropped = FALSE
        /\ initialize

\* The parser has returned, or the compiler is gone.
Halt == /\ crashed \/ calls = <<>>
        /\ UNCHANGED vars

Step == \/ DoAdvance \/ DoExpect \/ DoConsume \/ DoWhen \/ DoWhile \/ DoCall
        \/ DoFail \/ DoReturn \/ Resynchronise \/ Skip \/ Crash \/ Analyse

Next == Step \/ Halt

Spec == Init /\ [][Next]_vars /\ WF_vars(Next)

(* Properties. *)

TypeOK ==
  /\ text \in Seq(STRING) /\ tok \in STRING /\ edits \in 0..MaxEdits
  /\ crashed \in BOOLEAN /\ dropped \in BOOLEAN /\ errors \in BOOLEAN
  /\ current \in 0..Len(decls)
  /\ \A k \in DOMAIN scopes : \A n \in DOMAIN scopes[k] :
       scopes[k][n] \in DOMAIN decls /\ decls[scopes[k][n]].name = n
  /\ \A k \in DOMAIN calls : calls[k].fn \in DOMAIN Rules

\* The calls that have entered a scope; those of them among the first k calls, and the
\* declaration whose scope the last one of them has entered.
Scoped == {k \in DOMAIN calls : calls[k].scoped}
Opened(k) == {j \in Scoped : j <= k}
Enclosing(k) ==
  IF Opened(k) = {} THEN Null
  ELSE calls[CHOOSE j \in Opened(k) : \A i \in Opened(k) : i <= j].locals.D

\* The scopes that are open are those of the calls that have entered one, and the
\* declaration of each is enclosed by that of the call before: a handler that leaves a
\* parse function, by either way, closes what the function had opened.
ScopesMatchCalls ==
  /\ Len(scopes) = Cardinality(Scoped) + 1
  /\ current = Enclosing(Len(calls))
  /\ \A k \in Scoped : decls[calls[k].locals.D].outer = Enclosing(k - 1)

\* What is declared in a scope is enclosed by the declaration the scope is of,
\* even after recovery.
ScopesHoldOwn ==
  \A k \in Scoped \cup {0} :
    LET scope == scopes[Cardinality(Opened(k)) + 1]
    IN  \A n \in DOMAIN scope : decls[scope[n]].outer = Enclosing(k)

\* Until its scope is closed a name keeps the declaration it was bound to first.
NeverRebound ==
  [][\A k \in DOMAIN scopes : Len(scopes') >= k =>
       \A n \in DOMAIN scopes[k] : n \in DOMAIN scopes'[k] /\ scopes'[k][n] = scopes[k][n]]_vars

\* RetType, which the constructor leaves uninitialised, has been set by the heading
\* when the body that may read it is parsed, or the text has been rejected.
ReturnTypeKnown ==
  \A k \in DOMAIN calls :
    /\ k > 1 /\ calls[k].fn = "parseBlock" /\ calls[k - 1].fn = "parseProcedureDeclaration"
    => errors \/ decls[calls[k - 1].locals.D].type # Unset

\* Unless the text has been rejected, every operand, and every argument, that the
\* parser holds has a type the code generator can convert: none is the null type
\* of a call of a proper procedure, or the uninitialised one.
TypesKnown ==
  LET typed(E) == E = NoExpr \/ (E.type \in DOMAIN decls /\ IsType(E.type))
  IN  errors \/ \A k \in DOMAIN calls :
        LET x == calls[k].locals
        IN  /\ typed(x.E) /\ typed(x.L) /\ typed(x.R)
            /\ \A i \in DOMAIN x.Exprs : typed(x.Exprs[i])

\* Whatever the text, the parser ends: no handler and no list goes on at the end of
\* the file.
Termination == <>(crashed \/ calls = <<>>)

\* A program of the language is parsed without an error, and none of it is skipped.
ProgramsCompile ==
  edits = MaxEdits => /\ ~crashed /\ ~errors /\ ~dropped
                      /\ calls = <<>> => text = <<>>

\* What the driver compiles, a module without errors, has been read completely: no
\* token was skipped.  Parser.h:141 says what an IF statement is.
CompiledIsParsed == calls = <<>> /\ ~errors => ~dropped
=============================================================================
