---------------------------- MODULE ParserRules -----------------------------
(***************************************************************************)
(* The parse functions of tinylang (tinylang/lib/Parser/Parser.cpp) as       *)
(* rules: what the body of each does, token by token, and the tokens at      *)
(* which its _errorhandler stops.  Parser runs them.                         *)
(*                                                                         *)
(* The lexer never forms "[", "]" and "^" (Lexer.cpp:134-184), so what comes  *)
(* after them is left out: array types, index and dereference selectors.  No  *)
(* module is ever in scope, so a qualified name has one part.                *)
(***************************************************************************)
EXTENDS Sequences

(* The body of a rule is a sequence of these. *)

Advance == [op |-> "advance"]
Expect(kind) == [op |-> "expect", kind |-> kind]
Consume(kind) == [op |-> "consume", kind |-> kind]
When(kinds, then, otherwise) ==
  [op |-> "when", kinds |-> kinds, then |-> then, otherwise |-> otherwise]
While(kinds, body) == [op |-> "while", kinds |-> kinds, body |-> body]
Call(fn, out) == [op |-> "call", fn |-> fn, out |-> out]
Act(name) == [op |-> name]
Fail == [op |-> "fail"]
Handler == [op |-> "handler"]

\* No argument is passed by reference.
None == [x \in {} |-> x]

Rule(sync, body) == [sync |-> sync, body |-> body]

comma == ","
semi == ";"

(* Sets of tokens the handlers and the lists of isOneOf are made of. *)

Relations == {"#", "<", "<=", "=", ">", ">="}
AddOperators == {"+", "-", "OR"}
MulOperators == {"*", "/", "AND", "DIV", "MOD"}
FactorStart == {"(", "NOT", "identifier", "integer"}
ExpressionStart == FactorStart \cup {"+", "-"}
ExpressionEnd == {")", comma, semi, "DO", "ELSE", "END", "THEN", "]"}
StatementEnd == {semi, "ELSE", "END"}
DeclarationStart == {"CONST", "PROCEDURE", "TYPE", "VAR"}
BlockStart == DeclarationStart \cup {"BEGIN", "END"}

(* Declarations. *)

parse == Rule({}, << Advance, Call("parseCompilationUnit", None) >>)

parseCompilationUnit ==
  Rule({"eof"},
    << Consume("MODULE"), Expect("identifier"), Act("newModule"), Act("enterScope"),
       Advance, Consume(semi),
       While({"FROM", "IMPORT"}, << Call("parseImport", None) >>),
       Call("parseBlock", None), Expect("identifier"), Act("endModule"),
       Advance, Consume(".") >>)

parseImport ==
  Rule(BlockStart \cup {"FROM", "IMPORT"},
    << When({"FROM"}, << Advance, Expect("identifier"), Advance >>, <<>>),
       Consume("IMPORT"), Call("parseIdentList", None), Expect(semi),
       Act("import"), Advance >>)

parseBlock ==
  Rule({"identifier"},
    << While(DeclarationStart, << Call("parseDeclaration", None) >>),
       When({"BEGIN"}, << Advance, Call("parseStatementSequence", None) >>, <<>>),
       Consume("END") >>)

\* Declarations of one section, each ended by a semicolon.
Section(fn) ==
  << Advance, While({"identifier"}, << Call(fn, None), Consume(semi) >>) >>

parseDeclaration ==
  Rule(BlockStart,
    << When({"CONST"}, Section("parseConstantDeclaration"),
       << When({"TYPE"}, Section("parseTypeDeclaration"),
       << When({"VAR"}, Section("parseVariableDeclaration"),
       << When({"PROCEDURE"},
            << Call("parseProcedureDeclaration", None), Consume(semi) >>,
       << Fail >>) >>) >>) >>) >>)

parseConstantDeclaration ==
  Rule({semi},
    << Expect("identifier"), Act("takeName"), Advance, Expect("="), Advance,
       Call("parseExpression", [E |-> "E"]), Act("constant") >>)

parseTypeDeclaration ==
  Rule({semi},
    << Expect("identifier"), Act("takeName"), Advance, Consume("="),
       When({"identifier"},
         << Call("parseQualident", [D |-> "D"]), Act("alias") >>,
       << When({"POINTER"},
         << Advance, Expect("TO"), Advance, Call("parseQualident", [D |-> "D"]),
            Act("pointer") >>,
       << When({"ARRAY"},
         << Advance, Expect("[") >>,
       << When({"RECORD"},
         << Advance, Call("parseFieldList", [Fields |-> "Fields"]), Expect("END"),
            Act("record"), Advance >>,
       << Fail >>) >>) >>) >>) >>)

parseFieldList ==
  Rule({"END"},
    << Call("parseField", [Fields |-> "Fields"]),
       While({semi}, << Advance, Call("parseField", [Fields |-> "Fields"]) >>) >>)

\* "names : type", with which fields, variables and parameters are declared.
TypedNames(act) ==
  << Call("parseIdentList", [Ids |-> "Ids"]), Consume(":"),
     Call("parseQualident", [D |-> "D"]), Act(act) >>

parseField == Rule({semi, "END"}, TypedNames("field"))

parseVariableDeclaration == Rule({semi}, TypedNames("variable"))

parseProcedureDeclaration ==
  Rule({semi},
    << Consume("PROCEDURE"), Expect("identifier"), Act("newProcedure"),
       Act("enterScope"), Advance,
       When({"("},
         << Call("parseFormalParameters", [Params |-> "Params", Ret |-> "Ret"]) >>, <<>>),
       Act("heading"), Expect(semi), Advance, Call("parseBlock", None),
       Expect("identifier"), Act("endProcedure"), Advance >>)

parseFormalParameters ==
  Rule({semi},
    << Consume("("),
       When({"VAR", "identifier"},
         << Call("parseFormalParameterList", [Params |-> "Params"]) >>, <<>>),
       Consume(")"),
       When({":"}, << Advance, Call("parseQualident", [D |-> "Ret"]) >>, <<>>) >>)

parseFormalParameterList ==
  Rule({")"},
    << Call("parseFormalParameter", [Params |-> "Params"]),
       While({semi}, << Advance, Call("parseFormalParameter", [Params |-> "Params"]) >>) >>)

parseFormalParameter ==
  Rule({")", semi},
    << When({"VAR"}, << Act("byRef"), Advance >>, <<>>) >> \o TypedNames("parameter"))

parseIdentList ==
  Rule({":", semi},
    << Expect("identifier"), Act("takeId"), Advance,
       While({comma}, << Advance, Expect("identifier"), Act("takeId"), Advance >>) >>)

(* Statements. *)

parseStatementSequence ==
  Rule({"ELSE", "END"},
    << Call("parseStatement", None),
       While({semi}, << Advance, Call("parseStatement", None) >>) >>)

\* "( arguments )" up to the closing parenthesis.
Arguments ==
  << Advance, When(ExpressionStart, << Call("parseExpList", [Exprs |-> "Exprs"]) >>, <<>>) >>

parseStatement ==
  Rule(StatementEnd,
    << When({"identifier"},
         << Call("parseQualident", [D |-> "D"]),
            When({"("},
              Arguments \o << Consume(")"), Act("procCall") >>,
              << Act("designator"), Call("parseSelectors", [E |-> "E"]), Act("target"),
                 Consume(":="), Call("parseExpression", [E |-> "E"]),
                 Act("assignment") >>) >>,
       << When({"IF"}, << Call("parseIfStatement", None) >>,
       << When({"WHILE"}, << Call("parseWhileStatement", None) >>,
       << When({"RETURN"}, << Call("parseReturnStatement", None) >>,
       << Fail >>) >>) >>) >>) >>)

parseIfStatement ==
  Rule(StatementEnd,
    << Consume("IF"), Call("parseExpression", [E |-> "E"]), Consume("THEN"),
       Call("parseStatementSequence", None),
       When({"ELSE"}, << Advance, Call("parseStatementSequence", None) >>, <<>>),
       Expect("END"), Act("condition"), Advance >>)

parseWhileStatement ==
  Rule(StatementEnd,
    << Consume("WHILE"), Call("parseExpression", [E |-> "E"]), Consume("DO"),
       Call("parseStatementSequence", None), Expect("END"), Act("condition"), Advance >>)

parseReturnStatement ==
  Rule(StatementEnd,
    << Consume("RETURN"),
       When(ExpressionStart, << Call("parseExpression", [E |-> "E"]) >>, <<>>),
       Act("return") >>)

(* Expressions. *)

parseExpList ==
  LET argument == << Call("parseExpression", [E |-> "E"]), Act("argument") >>
  IN  Rule({")"}, argument \o << While({comma}, << Advance >> \o argument) >>)

parseExpression ==
  Rule(ExpressionEnd,
    << Call("parseSimpleExpression", [E |-> "E"]),
       When(Relations,
         << Call("parseRelation", [Op |-> "Op"]),
            Call("parseSimpleExpression", [E |-> "R"]), Act("relation") >>, <<>>) >>)

\* parseRelation, parseAddOperator and parseMulOperator differ in the operators.
Operator(ops, sync) ==
  Rule(sync, << When(ops, << Act("takeOperator"), Advance >>, << Fail >>) >>)

parseRelation == Operator(Relations, ExpressionStart)
parseAddOperator == Operator(AddOperators, FactorStart)
parseMulOperator == Operator(MulOperators, FactorStart)

\* Operands joined by operators of one precedence.
Joined(operand, operator, ops, act) ==
  << Call(operand, [E |-> "E"]),
     While(ops, << Call(operator, [Op |-> "Op"]), Call(operand, [E |-> "R"]), Act(act) >>) >>

parseSimpleExpression ==
  Rule(ExpressionEnd \cup Relations,
    << When({"+", "-"}, << Act("takePrefix"), Advance >>, <<>>) >>
    \o Joined("parseTerm", "parseAddOperator", AddOperators, "sum")
    \o << Act("sign") >>)

TermEnd == ExpressionEnd \cup Relations \cup AddOperators

parseTerm ==
  Rule(TermEnd, Joined("parseFactor", "parseMulOperator", MulOperators, "product"))

FactorEnd == TermEnd \cup MulOperators

parseFactor ==
  Rule(FactorEnd,
    << When({"integer"}, << Act("integer"), Advance >>,
       << When({"identifier"},
         << Call("parseQualident", [D |-> "D"]),
            When({"("},
              Arguments \o << Expect(")"), Act("functionCall"), Advance >>,
              << Act("designator"), Call("parseSelectors", [E |-> "E"]) >>) >>,
       << When({"("},
         << Advance, Call("parseExpression", [E |-> "E"]), Consume(")") >>,
       << When({"NOT"},
         << Advance, Call("parseFactor", [E |-> "E"]), Act("not") >>,
       << Fail >>) >>) >>) >>) >>)

parseSelectors ==
  Rule(FactorEnd \cup {":="},
    << While({"."}, << Advance, Expect("identifier"), Act("fieldSelector"), Advance >>) >>)

\* The second action is the test isa<ModuleDeclaration>(D) after the name.
parseQualident ==
  Rule(FactorEnd \cup {":=", "(", "[", "^"},
    << Expect("identifier"), Act("lookup"), Advance, Act("isModule") >>)

Rules ==
  [parse |-> parse, parseCompilationUnit |-> parseCompilationUnit,
   parseImport |-> parseImport, parseBlock |-> parseBlock,
   parseDeclaration |-> parseDeclaration,
   parseConstantDeclaration |-> parseConstantDeclaration,
   parseTypeDeclaration |-> parseTypeDeclaration,
   parseFieldList |-> parseFieldList, parseField |-> parseField,
   parseVariableDeclaration |-> parseVariableDeclaration,
   parseProcedureDeclaration |-> parseProcedureDeclaration,
   parseFormalParameters |-> parseFormalParameters,
   parseFormalParameterList |-> parseFormalParameterList,
   parseFormalParameter |-> parseFormalParameter, parseIdentList |-> parseIdentList,
   parseStatementSequence |-> parseStatementSequence, parseStatement |-> parseStatement,
   parseIfStatement |-> parseIfStatement, parseWhileStatement |-> parseWhileStatement,
   parseReturnStatement |-> parseReturnStatement, parseExpList |-> parseExpList,
   parseExpression |-> parseExpression, parseRelation |-> parseRelation,
   parseSimpleExpression |-> parseSimpleExpression,
   parseAddOperator |-> parseAddOperator, parseTerm |-> parseTerm,
   parseMulOperator |-> parseMulOperator, parseFactor |-> parseFactor,
   parseSelectors |-> parseSelectors, parseQualident |-> parseQualident]
=============================================================================
