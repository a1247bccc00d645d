---------------------------- MODULE Parser_proofs ----------------------------
(***************************************************************************)
(* What the parse functions of tinylang are made of, as far as scopes go:  *)
(* a function creates a declaration and enters its scope in its first      *)
(* steps, in this order and once, or it never enters one (Bodies).  And    *)
(* what a sequence of calls has to do with a chain of scopes: what it      *)
(* takes for the two to match (Coherent), and that a call which goes on,   *)
(* calls another function, enters the scope of its declaration or returns  *)
(* keeps them so.  Then what the steps of the parser, its error handlers   *)
(* included, do to the chain of scopes: whatever the text, a step opens    *)
(* one, closes the innermost one or binds new names in it (Chain, Keeps),  *)
(* and the scopes that are open stay those of the calls that have entered  *)
(* one (Coherence).                                                        *)
(***************************************************************************)
EXTENDS Parser, SequenceTheorems, FiniteSetTheorems, TLAPS

-----------------------------------------------------------------------------
(* The instructions that the rules are made of.                             *)

Kinds ==
  {"identifier", "integer", semi, comma, ".", ":", ":=", "(", ")", "[", "#", "<", "<=", "=", ">",
   ">=", "+", "-", "*", "/", "AND", "ARRAY", "BEGIN", "CONST", "DIV", "DO", "ELSE", "END",
   "FROM", "IF", "IMPORT", "MOD", "MODULE", "NOT", "OR", "POINTER", "PROCEDURE", "RECORD",
   "RETURN", "THEN", "TO", "TYPE", "VAR", "WHILE"}

Simple(acts, outs) ==
  [op : acts] \cup [op : {"expect", "consume"}, kind : Kinds]
  \cup {c \in [op : {"call"}, fn : DOMAIN Rules, out : outs] :
          "D" \in DOMAIN c.out => c.fn = "parseQualident"}

\* Instructions whose parts are of S.
Control(S) ==
  S \cup [op : {"when"}, kinds : SUBSET Kinds, then : Seq(S), otherwise : Seq(S)]
    \cup [op : {"while"}, kinds : SUBSET Kinds, body : Seq(S)]

\* The arguments that the declaration D of the caller is none of, and all.
OwnOuts == {None, [Params |-> "Params", Ret |-> "Ret"]}
Outs ==
  OwnOuts \cup {[D |-> "D"], [D |-> "Ret"], [E |-> "E"], [E |-> "R"], [Op |-> "Op"],
                [Ids |-> "Ids"], [Params |-> "Params"], [Fields |-> "Fields"],
                [Exprs |-> "Exprs"]}

\* What a call executes that enters no scope and takes no declaration that may be
\* null; conditions are nested four deep.
MildActs ==
  {"advance", "fail", "handler", "takeName", "takeId", "takeOperator", "takePrefix", "byRef",
   "isModule", "integer", "designator", "fieldSelector", "functionCall",
   "relation", "sum", "product", "not", "sign", "argument", "target", "assignment",
   "condition", "return", "constant", "record", "import"}
Mild0 == Simple(MildActs, Outs)
Mild1 == Control(Mild0)
Mild2 == Control(Mild1)
Mild3 == Control(Mild2)
Mild == Control(Mild3)

\* What a call executes that enters no scope.
UserActs == {"alias", "pointer", "field", "variable", "parameter", "procCall"}
InnerActs == MildActs \cup UserActs
Inner0 == Mild \cup [op : UserActs]
Inner1 == Control(Inner0)
Inner == Control(Inner1)

\* What a call executes after it has entered a scope.
OwnActs == {"advance", "handler", "heading", "endProcedure", "endModule"}
Own0 == Simple(OwnActs, OwnOuts)
Own == Control(Own0)

\* What an instruction of S does, and its parts.
Sound(S, acts, outs) ==
  \A i \in S :
    /\ i.op \in acts \cup {"expect", "consume", "call", "when", "while"}
    /\ i.op = "when" => i.then \in Seq(S) /\ i.otherwise \in Seq(S)
    /\ i.op = "while" => i.body \in Seq(S)
    /\ i.op = "call" => /\ i.fn \in DOMAIN Rules /\ i.out \in outs
                        /\ "D" \in DOMAIN i.out => i.fn = "parseQualident"

LEMMA ControlSound ==
  ASSUME NEW S, NEW acts, NEW outs, Sound(S, acts, outs)
  PROVE  Sound(Control(S), acts, outs)
<1> SUFFICES ASSUME NEW i \in Control(S)
             PROVE  /\ i.op \in acts \cup {"expect", "consume", "call", "when", "while"}
                    /\ i.op = "when" => i.then \in Seq(Control(S)) /\ i.otherwise \in Seq(Control(S))
                    /\ i.op = "while" => i.body \in Seq(Control(S))
                    /\ i.op = "call" => /\ i.fn \in DOMAIN Rules /\ i.out \in outs
                                        /\ "D" \in DOMAIN i.out => i.fn = "parseQualident"
  BY DEF Sound
<1>1. \A s \in Seq(S) : s \in Seq(Control(S))
  <2>1. S \subseteq Control(S)
    BY DEF Control
  <2> QED BY <2>1, SeqMonotonic
<1>2. CASE i \in S
  <2>1. /\ i.op \in acts \cup {"expect", "consume", "call", "when", "while"}
        /\ i.op = "when" => i.then \in Seq(S) /\ i.otherwise \in Seq(S)
        /\ i.op = "while" => i.body \in Seq(S)
        /\ i.op = "call" => /\ i.fn \in DOMAIN Rules /\ i.out \in outs
                            /\ "D" \in DOMAIN i.out => i.fn = "parseQualident"
    BY <1>2, Zenon DEF Sound
  <2> QED BY <1>1, <2>1, Zenon
<1>3. CASE i \in [op : {"when"}, kinds : SUBSET Kinds, then : Seq(S), otherwise : Seq(S)]
  <2>1. i.op = "when" /\ i.then \in Seq(S) /\ i.otherwise \in Seq(S)
    BY <1>3
  <2> QED BY <1>1, <2>1
<1>4. CASE i \in [op : {"while"}, kinds : SUBSET Kinds, body : Seq(S)]
  <2>1. i.op = "while" /\ i.body \in Seq(S)
    BY <1>4
  <2> QED BY <1>1, <2>1
<1> QED BY <1>2, <1>3, <1>4 DEF Control

LEMMA SimpleSound ==
  ASSUME NEW acts, acts \cap {"call", "when", "while"} = {}, NEW outs
  PROVE  Sound(Simple(acts, outs), acts, outs)
<1> SUFFICES ASSUME NEW i \in Simple(acts, outs)
             PROVE  /\ i.op \in acts \cup {"expect", "consume", "call"}
                    /\ i.op \notin {"when", "while"}
                    /\ i.op = "call" => /\ i.fn \in DOMAIN Rules /\ i.out \in outs
                                        /\ "D" \in DOMAIN i.out => i.fn = "parseQualident"
  BY DEF Sound
<1>1. CASE i \in [op : acts]
  BY <1>1
<1>2. CASE i \in [op : {"expect", "consume"}, kind : Kinds]
  BY <1>2
<1>3. CASE i \in {c \in [op : {"call"}, fn : DOMAIN Rules, out : outs] :
                   "D" \in DOMAIN c.out => c.fn = "parseQualident"}
  BY <1>3
<1> QED BY <1>1, <1>2, <1>3 DEF Simple

LEMMA MildSound == Sound(Mild, MildActs, Outs)
<1>1. Sound(Mild0, MildActs, Outs)
  BY SimpleSound DEF Mild0, MildActs
<1>2. Sound(Mild1, MildActs, Outs)
  BY <1>1, ControlSound DEF Mild1
<1>3. Sound(Mild2, MildActs, Outs)
  BY <1>2, ControlSound DEF Mild2
<1>4. Sound(Mild3, MildActs, Outs)
  BY <1>3, ControlSound DEF Mild3
<1> QED BY <1>4, ControlSound DEF Mild

LEMMA InnerSound == Sound(Inner, InnerActs, Outs)
<1>1. Sound(Inner0, InnerActs, Outs)
  <2>1. Seq(Mild) \subseteq Seq(Inner0)
    <3>1. Mild \subseteq Inner0
      BY DEF Inner0
    <3> QED BY <3>1, SeqMonotonic
  <2>2. \A i \in [op : UserActs] : i.op \in UserActs
    OBVIOUS
  <2> QED BY <2>1, <2>2, MildSound DEF Sound, Inner0, InnerActs, UserActs
<1>2. Sound(Inner1, InnerActs, Outs)
  BY <1>1, ControlSound DEF Inner1
<1> QED BY <1>2, ControlSound DEF Inner

LEMMA OwnSound == Sound(Own, OwnActs, OwnOuts)
<1>1. Sound(Own0, OwnActs, OwnOuts)
  BY SimpleSound DEF Own0, OwnActs
<1> QED BY <1>1, ControlSound DEF Own

-----------------------------------------------------------------------------
(* The bodies of the rules.                                                 *)

LEMMA Basics ==
  /\ Advance \in Mild0 /\ Fail \in Mild0 /\ Handler \in Mild0
  /\ \A k \in Kinds : Expect(k) \in Mild0 /\ Consume(k) \in Mild0
  /\ \A a \in MildActs : Act(a) \in Mild0
  /\ \A a \in UserActs : Act(a) \in Inner0
  /\ \A f \in DOMAIN Rules, o \in Outs \ {[D |-> "D"], [D |-> "Ret"]} : Call(f, o) \in Mild0
  /\ "parseQualident" \in DOMAIN Rules => /\ Call("parseQualident", [D |-> "D"]) \in Mild0
                                         /\ Call("parseQualident", [D |-> "Ret"]) \in Mild0
<1>1. Advance \in Mild0 /\ Fail \in Mild0 /\ Handler \in Mild0
  BY DEF Advance, Fail, Handler, Mild0, Simple, MildActs
<1>2. \A k \in Kinds : Expect(k) \in Mild0 /\ Consume(k) \in Mild0
  BY DEF Expect, Consume, Mild0, Simple
<1>3. \A a \in MildActs : Act(a) \in Mild0
  BY DEF Act, Mild0, Simple
<1>4. \A a \in UserActs : Act(a) \in Inner0
  BY DEF Act, Inner0
<1>5. \A f \in DOMAIN Rules, o \in Outs \ {[D |-> "D"], [D |-> "Ret"]} : Call(f, o) \in Mild0
  <2>1. \A o \in Outs : "D" \in DOMAIN o => o \in {[D |-> "D"], [D |-> "Ret"]}
    BY DEF Outs, OwnOuts, None
  <2> QED BY <2>1 DEF Call, Mild0, Simple
<1>6. "parseQualident" \in DOMAIN Rules => /\ Call("parseQualident", [D |-> "D"]) \in Mild0
                                          /\ Call("parseQualident", [D |-> "Ret"]) \in Mild0
  <2>1. [D |-> "D"] \in Outs /\ [D |-> "Ret"] \in Outs
    BY DEF Outs
  <2> QED BY <2>1 DEF Call, Mild0, Simple
<1> QED BY <1>1, <1>2, <1>3, <1>4, <1>5, <1>6

LEMMA Nested ==
  ASSUME NEW S
  PROVE  /\ S \subseteq Control(S)
         /\ Seq(S) \subseteq Seq(Control(S))
         /\ \A k \in SUBSET Kinds, t \in Seq(S), o \in Seq(S) : When(k, t, o) \in Control(S)
         /\ \A k \in SUBSET Kinds, t \in Seq(S) : While(k, t) \in Control(S)
<1>1. S \subseteq Control(S)
  BY DEF Control
<1>2. Seq(S) \subseteq Seq(Control(S))
  BY <1>1, SeqMonotonic
<1>3. \A k \in SUBSET Kinds, t \in Seq(S), o \in Seq(S) : When(k, t, o) \in Control(S)
  BY DEF When, Control
<1>4. \A k \in SUBSET Kinds, t \in Seq(S) : While(k, t) \in Control(S)
  BY DEF While, Control
<1> QED BY <1>1, <1>2, <1>3, <1>4

LEMMA Levels ==
  /\ Mild0 \subseteq Mild1 /\ Mild1 \subseteq Mild2 /\ Mild2 \subseteq Mild3
  /\ Mild3 \subseteq Mild
  /\ Seq(Mild0) \subseteq Seq(Mild) /\ Seq(Mild1) \subseteq Seq(Mild)
  /\ Seq(Mild2) \subseteq Seq(Mild) /\ Seq(Mild3) \subseteq Seq(Mild)
  /\ Mild \subseteq Inner0 /\ Inner0 \subseteq Inner1 /\ Inner1 \subseteq Inner
  /\ Seq(Mild) \subseteq Seq(Inner0) /\ Seq(Inner0) \subseteq Seq(Inner1)
  /\ Seq(Inner1) \subseteq Seq(Inner)
<1>1. /\ Mild0 \subseteq Mild1 /\ Mild1 \subseteq Mild2 /\ Mild2 \subseteq Mild3
      /\ Mild3 \subseteq Mild
  BY Nested DEF Mild1, Mild2, Mild3, Mild
<1>2. /\ Seq(Mild0) \subseteq Seq(Mild1) /\ Seq(Mild1) \subseteq Seq(Mild2)
      /\ Seq(Mild2) \subseteq Seq(Mild3) /\ Seq(Mild3) \subseteq Seq(Mild)
  BY Nested DEF Mild1, Mild2, Mild3, Mild
<1>3. Mild \subseteq Inner0 /\ Seq(Mild) \subseteq Seq(Inner0)
  <2>1. Mild \subseteq Inner0
    BY DEF Inner0
  <2> QED BY <2>1, SeqMonotonic
<1>4. /\ Inner0 \subseteq Inner1 /\ Inner1 \subseteq Inner
      /\ Seq(Inner0) \subseteq Seq(Inner1) /\ Seq(Inner1) \subseteq Seq(Inner)
  BY Nested DEF Inner1, Inner
<1> QED BY <1>1, <1>2, <1>3, <1>4

LEMMA KindNames ==
  /\ "identifier" \in Kinds /\ "integer" \in Kinds /\ semi \in Kinds /\ comma \in Kinds
  /\ "." \in Kinds /\ ":" \in Kinds /\ ":=" \in Kinds /\ "(" \in Kinds /\ ")" \in Kinds
  /\ "[" \in Kinds /\ "#" \in Kinds /\ "<" \in Kinds /\ "<=" \in Kinds /\ "=" \in Kinds
  /\ ">" \in Kinds /\ ">=" \in Kinds /\ "+" \in Kinds /\ "-" \in Kinds /\ "*" \in Kinds
  /\ "/" \in Kinds /\ "AND" \in Kinds /\ "ARRAY" \in Kinds /\ "BEGIN" \in Kinds
  /\ "CONST" \in Kinds /\ "DIV" \in Kinds /\ "DO" \in Kinds /\ "ELSE" \in Kinds
  /\ "END" \in Kinds /\ "FROM" \in Kinds /\ "IF" \in Kinds /\ "IMPORT" \in Kinds
  /\ "MOD" \in Kinds /\ "MODULE" \in Kinds /\ "NOT" \in Kinds /\ "OR" \in Kinds
  /\ "POINTER" \in Kinds /\ "PROCEDURE" \in Kinds /\ "RECORD" \in Kinds
  /\ "RETURN" \in Kinds /\ "THEN" \in Kinds /\ "TO" \in Kinds /\ "TYPE" \in Kinds
  /\ "VAR" \in Kinds /\ "WHILE" \in Kinds
  BY DEF Kinds

LEMMA ActNames ==
  /\ "advance" \in MildActs /\ "fail" \in MildActs /\ "handler" \in MildActs
  /\ "takeName" \in MildActs /\ "takeId" \in MildActs /\ "takeOperator" \in MildActs
  /\ "takePrefix" \in MildActs /\ "byRef" \in MildActs
  /\ "isModule" \in MildActs /\ "integer" \in MildActs /\ "designator" \in MildActs
  /\ "fieldSelector" \in MildActs /\ "functionCall" \in MildActs /\ "relation" \in MildActs
  /\ "sum" \in MildActs /\ "product" \in MildActs /\ "not" \in MildActs
  /\ "sign" \in MildActs /\ "argument" \in MildActs /\ "target" \in MildActs
  /\ "assignment" \in MildActs /\ "condition" \in MildActs /\ "return" \in MildActs
  /\ "constant" \in MildActs /\ "record" \in MildActs /\ "import" \in MildActs
  /\ "alias" \in UserActs /\ "pointer" \in UserActs /\ "field" \in UserActs
  /\ "variable" \in UserActs /\ "parameter" \in UserActs /\ "procCall" \in UserActs
  BY DEF MildActs, UserActs

LEMMA RuleNames ==
  /\ "parse" \in DOMAIN Rules /\ "parseCompilationUnit" \in DOMAIN Rules
  /\ "parseImport" \in DOMAIN Rules /\ "parseBlock" \in DOMAIN Rules
  /\ "parseDeclaration" \in DOMAIN Rules /\ "parseConstantDeclaration" \in DOMAIN Rules
  /\ "parseTypeDeclaration" \in DOMAIN Rules /\ "parseFieldList" \in DOMAIN Rules
  /\ "parseField" \in DOMAIN Rules /\ "parseVariableDeclaration" \in DOMAIN Rules
  /\ "parseProcedureDeclaration" \in DOMAIN Rules
  /\ "parseFormalParameters" \in DOMAIN Rules
  /\ "parseFormalParameterList" \in DOMAIN Rules /\ "parseFormalParameter" \in DOMAIN Rules
  /\ "parseIdentList" \in DOMAIN Rules /\ "parseStatementSequence" \in DOMAIN Rules
  /\ "parseStatement" \in DOMAIN Rules /\ "parseIfStatement" \in DOMAIN Rules
  /\ "parseWhileStatement" \in DOMAIN Rules /\ "parseReturnStatement" \in DOMAIN Rules
  /\ "parseExpList" \in DOMAIN Rules /\ "parseExpression" \in DOMAIN Rules
  /\ "parseRelation" \in DOMAIN Rules /\ "parseSimpleExpression" \in DOMAIN Rules
  /\ "parseAddOperator" \in DOMAIN Rules /\ "parseTerm" \in DOMAIN Rules
  /\ "parseMulOperator" \in DOMAIN Rules /\ "parseFactor" \in DOMAIN Rules
  /\ "parseSelectors" \in DOMAIN Rules /\ "parseQualident" \in DOMAIN Rules
  BY DEF Rules

LEMMA OutNames ==
  /\ None \in Outs /\ [D |-> "D"] \in Outs /\ [D |-> "Ret"] \in Outs /\ [E |-> "E"] \in Outs
  /\ [E |-> "R"] \in Outs /\ [Op |-> "Op"] \in Outs /\ [Ids |-> "Ids"] \in Outs
  /\ [Params |-> "Params"] \in Outs /\ [Params |-> "Params", Ret |-> "Ret"] \in Outs
  /\ [Fields |-> "Fields"] \in Outs /\ [Exprs |-> "Exprs"] \in Outs
  /\ \A o \in {None, [E |-> "E"], [E |-> "R"], [Op |-> "Op"],
               [Ids |-> "Ids"], [Params |-> "Params"],
               [Params |-> "Params", Ret |-> "Ret"], [Fields |-> "Fields"],
               [Exprs |-> "Exprs"]} :
       o \notin {[D |-> "D"], [D |-> "Ret"]}
<1>1. /\ None \in Outs /\ [D |-> "D"] \in Outs /\ [D |-> "Ret"] \in Outs /\ [E |-> "E"] \in Outs
      /\ [E |-> "R"] \in Outs /\ [Op |-> "Op"] \in Outs /\ [Ids |-> "Ids"] \in Outs
      /\ [Params |-> "Params"] \in Outs /\ [Params |-> "Params", Ret |-> "Ret"] \in Outs
      /\ [Fields |-> "Fields"] \in Outs /\ [Exprs |-> "Exprs"] \in Outs
  BY Zenon DEF Outs, OwnOuts
<1>2. \A o \in {None, [E |-> "E"], [E |-> "R"], [Op |-> "Op"],
                [Ids |-> "Ids"], [Params |-> "Params"],
                [Params |-> "Params", Ret |-> "Ret"], [Fields |-> "Fields"],
                [Exprs |-> "Exprs"]} :
      o \notin {[D |-> "D"], [D |-> "Ret"]}
  <2>1. \A o \in {[D |-> "D"], [D |-> "Ret"]} : DOMAIN o = {"D"}
    OBVIOUS
  <2>2. /\ DOMAIN None = {} /\ DOMAIN [E |-> "E"] = {"E"} /\ DOMAIN [E |-> "R"] = {"E"}
        /\ DOMAIN [Op |-> "Op"] = {"Op"} /\ DOMAIN [Ids |-> "Ids"] = {"Ids"}
        /\ DOMAIN [Params |-> "Params"] = {"Params"}
        /\ DOMAIN [Params |-> "Params", Ret |-> "Ret"] = {"Params", "Ret"}
        /\ DOMAIN [Fields |-> "Fields"] = {"Fields"} /\ DOMAIN [Exprs |-> "Exprs"] = {"Exprs"}
    BY DEF None
  <2> QED BY <2>1, <2>2
<1> QED BY <1>1, <1>2

LEMMA Instructions ==
  /\ Advance \in Mild0 /\ Fail \in Mild0 /\ Handler \in Mild0 /\ Expect(")") \in Mild0
  /\ Expect(semi) \in Mild0 /\ Expect("=") \in Mild0 /\ Expect("END") \in Mild0
  /\ Expect("TO") \in Mild0 /\ Expect("[") \in Mild0 /\ Expect("identifier") \in Mild0
  /\ Consume("(") \in Mild0 /\ Consume(")") \in Mild0 /\ Consume(".") \in Mild0
  /\ Consume(":") \in Mild0 /\ Consume(":=") \in Mild0 /\ Consume(semi) \in Mild0
  /\ Consume("=") \in Mild0 /\ Consume("DO") \in Mild0 /\ Consume("END") \in Mild0
  /\ Consume("IF") \in Mild0 /\ Consume("IMPORT") \in Mild0 /\ Consume("MODULE") \in Mild0
  /\ Consume("PROCEDURE") \in Mild0 /\ Consume("RETURN") \in Mild0
  /\ Consume("THEN") \in Mild0 /\ Consume("WHILE") \in Mild0 /\ Act("alias") \in Inner0
  /\ Act("argument") \in Mild0 /\ Act("assignment") \in Mild0 /\ Act("byRef") \in Mild0
  /\ Act("condition") \in Mild0 /\ Act("constant") \in Mild0 /\ Act("designator") \in Mild0
  /\ Act("fieldSelector") \in Mild0 /\ Act("field") \in Inner0
  /\ Act("functionCall") \in Mild0 /\ Act("import") \in Mild0 /\ Act("integer") \in Mild0
  /\ Act("isModule") \in Mild0 /\ Act("not") \in Mild0
  /\ Act("parameter") \in Inner0 /\ Act("pointer") \in Inner0 /\ Act("procCall") \in Inner0
  /\ Act("product") \in Mild0 /\ Act("record") \in Mild0 /\ Act("relation") \in Mild0
  /\ Act("return") \in Mild0 /\ Act("sign") \in Mild0 /\ Act("sum") \in Mild0
  /\ Act("takeId") \in Mild0 /\ Act("takeName") \in Mild0 /\ Act("takeOperator") \in Mild0
  /\ Act("takePrefix") \in Mild0 /\ Act("target") \in Mild0 /\ Act("variable") \in Inner0
  /\ Call("parseAddOperator", [Op |-> "Op"]) \in Mild0
  /\ Call("parseBlock", None) \in Mild0 /\ Call("parseCompilationUnit", None) \in Mild0
  /\ Call("parseConstantDeclaration", None) \in Mild0
  /\ Call("parseDeclaration", None) \in Mild0
  /\ Call("parseExpList", [Exprs |-> "Exprs"]) \in Mild0
  /\ Call("parseExpression", [E |-> "E"]) \in Mild0
  /\ Call("parseFactor", [E |-> "E"]) \in Mild0
  /\ Call("parseFactor", [E |-> "R"]) \in Mild0
  /\ Call("parseField", [Fields |-> "Fields"]) \in Mild0
  /\ Call("parseFieldList", [Fields |-> "Fields"]) \in Mild0
  /\ Call("parseFormalParameter", [Params |-> "Params"]) \in Mild0
  /\ Call("parseFormalParameterList", [Params |-> "Params"]) \in Mild0
  /\ Call("parseFormalParameters", [Params |-> "Params", Ret |-> "Ret"]) \in Mild0
  /\ Call("parseIdentList", None) \in Mild0
  /\ Call("parseIdentList", [Ids |-> "Ids"]) \in Mild0
  /\ Call("parseIfStatement", None) \in Mild0 /\ Call("parseImport", None) \in Mild0
  /\ Call("parseMulOperator", [Op |-> "Op"]) \in Mild0
  /\ Call("parseProcedureDeclaration", None) \in Mild0
  /\ Call("parseQualident", [D |-> "D"]) \in Mild0
  /\ Call("parseQualident", [D |-> "Ret"]) \in Mild0
  /\ Call("parseRelation", [Op |-> "Op"]) \in Mild0
  /\ Call("parseReturnStatement", None) \in Mild0
  /\ Call("parseSelectors", [E |-> "E"]) \in Mild0
  /\ Call("parseSimpleExpression", [E |-> "E"]) \in Mild0
  /\ Call("parseSimpleExpression", [E |-> "R"]) \in Mild0
  /\ Call("parseStatement", None) \in Mild0
  /\ Call("parseStatementSequence", None) \in Mild0
  /\ Call("parseTerm", [E |-> "E"]) \in Mild0 /\ Call("parseTerm", [E |-> "R"]) \in Mild0
  /\ Call("parseTypeDeclaration", None) \in Mild0
  /\ Call("parseVariableDeclaration", None) \in Mild0
  /\ Call("parseWhileStatement", None) \in Mild0
  BY Basics, KindNames, ActNames, RuleNames, OutNames

LEMMA KindSets ==
  /\ {"FROM"} \in SUBSET Kinds /\ {"FROM", "IMPORT"} \in SUBSET Kinds
  /\ {"BEGIN"} \in SUBSET Kinds /\ {"CONST"} \in SUBSET Kinds /\ {"TYPE"} \in SUBSET Kinds
  /\ {"VAR"} \in SUBSET Kinds /\ {"PROCEDURE"} \in SUBSET Kinds
  /\ {"identifier"} \in SUBSET Kinds /\ {"VAR", "identifier"} \in SUBSET Kinds
  /\ {"POINTER"} \in SUBSET Kinds /\ {"ARRAY"} \in SUBSET Kinds /\ {"RECORD"} \in SUBSET Kinds
  /\ {semi} \in SUBSET Kinds /\ {"("} \in SUBSET Kinds /\ {":"} \in SUBSET Kinds
  /\ {comma} \in SUBSET Kinds /\ {"."} \in SUBSET Kinds /\ {"+", "-"} \in SUBSET Kinds
  /\ {"IF"} \in SUBSET Kinds /\ {"WHILE"} \in SUBSET Kinds /\ {"RETURN"} \in SUBSET Kinds
  /\ {"ELSE"} \in SUBSET Kinds /\ {"integer"} \in SUBSET Kinds /\ {"NOT"} \in SUBSET Kinds
  /\ DeclarationStart \in SUBSET Kinds /\ ExpressionStart \in SUBSET Kinds
  /\ Relations \in SUBSET Kinds /\ AddOperators \in SUBSET Kinds
  /\ MulOperators \in SUBSET Kinds
  BY DEF Kinds, DeclarationStart, ExpressionStart, FactorStart, Relations, AddOperators,
     MulOperators

LEMMA DeclarationBodies ==
  /\ parse.body \in Seq(Mild) /\ parseImport.body \in Seq(Mild)
  /\ parseBlock.body \in Seq(Mild) /\ parseDeclaration.body \in Seq(Mild)
  /\ parseConstantDeclaration.body \in Seq(Mild)
<1>1. parse.body \in Seq(Mild)
  BY Instructions, Levels DEF parse, Rule
<1>2. parseImport.body \in Seq(Mild)
  <2>1. When({"FROM"}, << Advance, Expect("identifier"), Advance >>, <<>>) \in Mild1
    BY Instructions, KindSets DEF When, Control, Mild1
  <2>2. parseImport.body \in Seq(Mild1)
    BY <2>1, Instructions, Levels DEF parseImport, Rule
  <2> QED BY <2>2, Levels
<1>3. parseBlock.body \in Seq(Mild)
  <2>1. While(DeclarationStart, << Call("parseDeclaration", None) >>) \in Mild1
    BY Instructions, KindSets DEF While, Control, Mild1
  <2>2. When({"BEGIN"}, << Advance, Call("parseStatementSequence", None) >>, <<>>) \in Mild1
    BY Instructions, KindSets DEF When, Control, Mild1
  <2>3. parseBlock.body \in Seq(Mild1)
    BY <2>1, <2>2, Instructions, Levels DEF parseBlock, Rule
  <2> QED BY <2>3, Levels
<1>4. parseDeclaration.body \in Seq(Mild)
  <2>1. ASSUME NEW fn, Call(fn, None) \in Mild0
        PROVE  Section(fn) \in Seq(Mild1)
    <3>1. While({"identifier"}, << Call(fn, None), Consume(semi) >>) \in Mild1
      BY <2>1, Instructions, KindSets DEF While, Control, Mild1
    <3> QED BY <3>1, Instructions, Levels DEF Section
  <2>2. /\ Section("parseConstantDeclaration") \in Seq(Mild1)
        /\ Section("parseTypeDeclaration") \in Seq(Mild1)
        /\ Section("parseVariableDeclaration") \in Seq(Mild1)
    BY <2>1, Instructions
  <2> DEFINE procedure == When({"PROCEDURE"},
               << Call("parseProcedureDeclaration", None), Consume(semi) >>, << Fail >>)
             variable == When({"VAR"}, Section("parseVariableDeclaration"), << procedure >>)
             type == When({"TYPE"}, Section("parseTypeDeclaration"), << variable >>)
             constant == When({"CONST"}, Section("parseConstantDeclaration"), << type >>)
  <2>3. procedure \in Mild1
    BY Instructions, KindSets DEF When, Control, Mild1
  <2>4. variable \in Mild2
    <3> HIDE DEF procedure
    <3> QED BY <2>2, <2>3, KindSets DEF When, Control, Mild2
  <2>5. type \in Mild3
    <3> HIDE DEF variable
    <3>1. Section("parseTypeDeclaration") \in Seq(Mild2)
      BY <2>2, Nested DEF Mild2
    <3> QED BY <2>4, <3>1, KindSets DEF When, Control, Mild3
  <2>6. constant \in Mild
    <3> HIDE DEF type
    <3>1. Section("parseConstantDeclaration") \in Seq(Mild3)
      BY <2>2, Nested DEF Mild2, Mild3
    <3> QED BY <2>5, <3>1, KindSets DEF When, Control, Mild
  <2>7. parseDeclaration.body = << constant >>
    BY DEF parseDeclaration, Rule
  <2> HIDE DEF constant
  <2> QED BY <2>6, <2>7
<1>5. parseConstantDeclaration.body \in Seq(Mild)
  BY Instructions, Levels DEF parseConstantDeclaration, Rule
<1> QED BY <1>1, <1>2, <1>3, <1>4, <1>5


LEMMA TypeBodies == parseFieldList.body \in Seq(Mild) /\ parseIdentList.body \in Seq(Mild)
<1>1. parseFieldList.body \in Seq(Mild)
  <2>1. While({semi}, << Advance, Call("parseField", [Fields |-> "Fields"]) >>) \in Mild1
    BY Instructions, KindSets DEF While, Control, Mild1
  <2> QED BY <2>1, Instructions, Levels DEF parseFieldList, Rule
<1>2. parseIdentList.body \in Seq(Mild)
  <2>1. While({comma}, << Advance, Expect("identifier"), Act("takeId"), Advance >>) \in Mild1
    BY Instructions, KindSets DEF While, Control, Mild1
  <2> QED BY <2>1, Instructions, Levels DEF parseIdentList, Rule
<1> QED BY <1>1, <1>2

LEMMA ParameterBodies ==
  /\ parseFormalParameters.body \in Seq(Mild)
  /\ parseFormalParameterList.body \in Seq(Mild)
<1>1. parseFormalParameters.body \in Seq(Mild)
  <2>1. When({"VAR", "identifier"},
          << Call("parseFormalParameterList", [Params |-> "Params"]) >>, <<>>) \in Mild1
    BY Instructions, KindSets DEF When, Control, Mild1
  <2>2. When({":"}, << Advance, Call("parseQualident", [D |-> "Ret"]) >>, <<>>) \in Mild1
    BY Instructions, KindSets DEF When, Control, Mild1
  <2> QED BY <2>1, <2>2, Instructions, Levels DEF parseFormalParameters, Rule
<1>2. parseFormalParameterList.body \in Seq(Mild)
  <2>1. While({semi}, << Advance, Call("parseFormalParameter", [Params |-> "Params"]) >>)
          \in Mild1
    BY Instructions, KindSets DEF While, Control, Mild1
  <2> QED BY <2>1, Instructions, Levels DEF parseFormalParameterList, Rule
<1> QED BY <1>1, <1>2

LEMMA ArgumentsIn == Arguments \in Seq(Mild1)
<1>1. When(ExpressionStart, << Call("parseExpList", [Exprs |-> "Exprs"]) >>, <<>>) \in Mild1
  BY Instructions, KindSets DEF When, Control, Mild1
<1> QED BY <1>1, Instructions, Levels DEF Arguments

LEMMA StatementBodies ==
  /\ parseStatementSequence.body \in Seq(Mild)
  /\ parseIfStatement.body \in Seq(Mild) /\ parseWhileStatement.body \in Seq(Mild)
  /\ parseReturnStatement.body \in Seq(Mild)
<1>1. parseStatementSequence.body \in Seq(Mild)
  <2>1. While({semi}, << Advance, Call("parseStatement", None) >>) \in Mild1
    BY Instructions, KindSets DEF While, Control, Mild1
  <2> QED BY <2>1, Instructions, Levels DEF parseStatementSequence, Rule
<1>2. parseIfStatement.body \in Seq(Mild)
  <2>1. When({"ELSE"}, << Advance, Call("parseStatementSequence", None) >>, <<>>) \in Mild1
    BY Instructions, KindSets DEF When, Control, Mild1
  <2> QED BY <2>1, Instructions, Levels DEF parseIfStatement, Rule
<1>3. parseWhileStatement.body \in Seq(Mild)
  BY Instructions, Levels DEF parseWhileStatement, Rule
<1>4. parseReturnStatement.body \in Seq(Mild)
  <2>1. When(ExpressionStart, << Call("parseExpression", [E |-> "E"]) >>, <<>>) \in Mild1
    BY Instructions, KindSets DEF When, Control, Mild1
  <2> QED BY <2>1, Instructions, Levels DEF parseReturnStatement, Rule
<1> QED BY <1>1, <1>2, <1>3, <1>4

LEMMA ExpressionBodies ==
  /\ parseExpList.body \in Seq(Mild) /\ parseExpression.body \in Seq(Mild)
  /\ parseRelation.body \in Seq(Mild) /\ parseAddOperator.body \in Seq(Mild)
  /\ parseMulOperator.body \in Seq(Mild) /\ parseSimpleExpression.body \in Seq(Mild)
  /\ parseTerm.body \in Seq(Mild) /\ parseFactor.body \in Seq(Mild)
  /\ parseSelectors.body \in Seq(Mild)
<1>1. parseExpList.body \in Seq(Mild)
  <2> DEFINE argument == << Call("parseExpression", [E |-> "E"]), Act("argument") >>
             more == << Advance >> \o argument
  <2>1. argument \in Seq(Mild0) /\ << Advance >> \in Seq(Mild0)
    BY Instructions
  <2>2. parseExpList.body = argument \o << While({comma}, more) >>
    BY DEF parseExpList, Rule
  <2> HIDE DEF argument
  <2>3. more \in Seq(Mild0)
    BY <2>1, ConcatProperties
  <2> HIDE DEF more
  <2>4. While({comma}, more) \in Mild1
    BY <2>3, KindSets DEF While, Control, Mild1
  <2>5. << While({comma}, more) >> \in Seq(Mild) /\ argument \in Seq(Mild)
    BY <2>1, <2>4, Levels
  <2> QED BY <2>2, <2>5, ConcatProperties
<1>2. parseExpression.body \in Seq(Mild)
  <2>1. When(Relations,
          << Call("parseRelation", [Op |-> "Op"]),
             Call("parseSimpleExpression", [E |-> "R"]), Act("relation") >>, <<>>) \in Mild1
    BY Instructions, KindSets DEF When, Control, Mild1
  <2> QED BY <2>1, Instructions, Levels DEF parseExpression, Rule
<1>3. /\ parseRelation.body \in Seq(Mild) /\ parseAddOperator.body \in Seq(Mild)
      /\ parseMulOperator.body \in Seq(Mild)
  <2>1. ASSUME NEW ops \in SUBSET Kinds, NEW sync
        PROVE  Operator(ops, sync).body \in Seq(Mild)
    <3>1. When(ops, << Act("takeOperator"), Advance >>, << Fail >>) \in Mild1
      BY Instructions DEF When, Control, Mild1
    <3> QED BY <3>1, Levels DEF Operator, Rule
  <2> QED BY <2>1, KindSets DEF parseRelation, parseAddOperator, parseMulOperator
<1>4. ASSUME NEW operand, NEW operator, NEW ops \in SUBSET Kinds, NEW act,
             Call(operand, [E |-> "E"]) \in Mild0, Call(operand, [E |-> "R"]) \in Mild0,
             Call(operator, [Op |-> "Op"]) \in Mild0, Act(act) \in Mild0
      PROVE  Joined(operand, operator, ops, act) \in Seq(Mild)
  <2>1. While(ops, << Call(operator, [Op |-> "Op"]), Call(operand, [E |-> "R"]), Act(act) >>)
          \in Mild1
    BY <1>4 DEF While, Control, Mild1
  <2> QED BY <1>4, <2>1, Levels DEF Joined
<1>5. parseSimpleExpression.body \in Seq(Mild)
  <2> DEFINE sign == << When({"+", "-"}, << Act("takePrefix"), Advance >>, <<>>) >>
             sum == Joined("parseTerm", "parseAddOperator", AddOperators, "sum")
  <2>1. sign \in Seq(Mild)
    <3>1. When({"+", "-"}, << Act("takePrefix"), Advance >>, <<>>) \in Mild1
      BY Instructions, KindSets DEF When, Control, Mild1
    <3> QED BY <3>1, Levels
  <2>2. sum \in Seq(Mild)
    BY <1>4, Instructions, KindSets
  <2>3. << Act("sign") >> \in Seq(Mild)
    BY Instructions, Levels
  <2>4. parseSimpleExpression.body = sign \o sum \o << Act("sign") >>
    BY DEF parseSimpleExpression, Rule
  <2> HIDE DEF sign, sum
  <2> QED BY <2>1, <2>2, <2>3, <2>4, ConcatProperties
<1>6. parseTerm.body \in Seq(Mild)
  <2>1. Joined("parseFactor", "parseMulOperator", MulOperators, "product") \in Seq(Mild)
    BY <1>4, Instructions, KindSets
  <2> QED BY <2>1 DEF parseTerm, Rule
<1>7. parseFactor.body \in Seq(Mild)
  <2> DEFINE negation == When({"NOT"},
               << Advance, Call("parseFactor", [E |-> "E"]), Act("not") >>, << Fail >>)
             nested == When({"("},
               << Advance, Call("parseExpression", [E |-> "E"]), Consume(")") >>,
               << negation >>)
             arguments == Arguments \o << Expect(")"), Act("functionCall"), Advance >>
             designator == << Act("designator"), Call("parseSelectors", [E |-> "E"]) >>
             use == When({"("}, arguments, designator)
             named == When({"identifier"}, << Call("parseQualident", [D |-> "D"]), use >>,
                           << nested >>)
             number == When({"integer"}, << Act("integer"), Advance >>, << named >>)
  <2>1. negation \in Mild1
    BY Instructions, KindSets DEF When, Control, Mild1
  <2>2. nested \in Mild2
    <3> HIDE DEF negation
    <3> QED BY <2>1, Instructions, Levels, KindSets DEF When, Control, Mild2
  <2>3. arguments \in Seq(Mild1)
    <3>1. << Expect(")"), Act("functionCall"), Advance >> \in Seq(Mild1)
      BY Instructions, Levels
    <3> QED BY <3>1, ArgumentsIn, ConcatProperties
  <2>4. designator \in Seq(Mild1)
    BY Instructions, Levels
  <2>5. use \in Mild2
    <3> HIDE DEF arguments, designator
    <3> QED BY <2>3, <2>4, KindSets DEF When, Control, Mild2
  <2>6. named \in Mild3
    <3> HIDE DEF nested, use
    <3> QED BY <2>2, <2>5, Instructions, Levels, KindSets DEF When, Control, Mild3
  <2>7. number \in Mild
    <3> HIDE DEF named
    <3> QED BY <2>6, Instructions, Levels, KindSets DEF When, Control, Mild
  <2>8. parseFactor.body = << number >>
    BY DEF parseFactor, Rule
  <2> HIDE DEF number
  <2> QED BY <2>7, <2>8
<1>8. parseSelectors.body \in Seq(Mild)
  <2>1. While({"."}, << Advance, Expect("identifier"), Act("fieldSelector"), Advance >>)
          \in Mild1
    BY Instructions, KindSets DEF While, Control, Mild1
  <2> QED BY <2>1, Levels DEF parseSelectors, Rule
<1> QED BY <1>1, <1>2, <1>3, <1>5, <1>6, <1>7, <1>8

-----------------------------------------------------------------------------
(* Declarations that may be null.                                           *)

\* The call that looks up the declaration D of the caller.
Qualident == Call("parseQualident", [D |-> "D"])

\* What is left of a body has the instruction m, and only instructions of S before it.
Before(S, m, r) == \E i \in DOMAIN r : r[i] = m /\ \A j \in 1..(i - 1) : r[j] \in S

\* What is left of a body takes no declaration that the body has not looked up before;
\* conditions are nested twice.
Guards(S) == {r \in Seq(Inner) : r \in Seq(S) \/ Before(S, Qualident, r)}
Path(S) == S \cup [op : {"when"}, kinds : SUBSET Kinds, then : Guards(S), otherwise : Guards(S)]
Guarded == Guards(Path(Path(Mild)))

LEMMA TailOf ==
  ASSUME NEW U, NEW s \in Seq(U), s # <<>>
  PROVE  /\ Tail(s) \in Seq(U) /\ Len(Tail(s)) = Len(s) - 1 /\ Len(s) \in Nat /\ Len(s) >= 1
         /\ \A i \in 1..Len(s) - 1 : Tail(s)[i] = s[i + 1]
  BY HeadTailProperties, EmptySeq, LenProperties

LEMMA BeforeTail ==
  ASSUME NEW U, NEW r \in Seq(U), r # <<>>, NEW S, NEW m, Before(S, m, r), r[1] # m
  PROVE  r[1] \in S /\ Before(S, m, Tail(r))
<1>1. PICK i \in DOMAIN r : r[i] = m /\ \A j \in 1..(i - 1) : r[j] \in S
  BY DEF Before
<1>2. PICK n \in Nat : n = Len(r) /\ n >= 1
  BY TailOf
<1>3. /\ DOMAIN r = 1..n /\ DOMAIN Tail(r) = 1..(n - 1)
      /\ \A k \in 1..(n - 1) : Tail(r)[k] = r[k + 1]
  BY <1>2, TailOf, LenProperties
<1>4. i \in 1..n /\ i # 1 /\ i - 1 \in 1..(n - 1) /\ 1 \in 1..(i - 1) /\ (i - 1) + 1 = i
  BY <1>1, <1>3
<1>5. \A j \in 1..((i - 1) - 1) : j + 1 \in 1..(i - 1) /\ j \in 1..(n - 1)
  BY <1>4
<1>6. Tail(r)[i - 1] = m /\ \A j \in 1..((i - 1) - 1) : Tail(r)[j] \in S
  BY <1>1, <1>3, <1>4, <1>5
<1> QED BY <1>1, <1>3, <1>4, <1>6 DEF Before

LEMMA BeforeConcat ==
  ASSUME NEW U, NEW p \in Seq(U), NEW r \in Seq(U), NEW S, NEW m,
         Before(S, m, p) \/ (p \in Seq(S) /\ Before(S, m, r))
  PROVE  Before(S, m, p \o r)
<1>1. PICK a \in Nat, b \in Nat : a = Len(p) /\ b = Len(r)
  BY LenProperties
<1>2. PICK q : q = p \o r
  OBVIOUS
<1>3. /\ DOMAIN p = 1..a /\ DOMAIN r = 1..b /\ DOMAIN q = 1..(a + b)
      /\ \A i \in 1..(a + b) : q[i] = IF i <= a THEN p[i] ELSE r[i - a]
  BY <1>1, <1>2, ConcatProperties, LenProperties
<1>4. CASE Before(S, m, p)
  <2>1. PICK i \in 1..a : p[i] = m /\ \A j \in 1..(i - 1) : p[j] \in S
    BY <1>3, <1>4 DEF Before
  <2>2. i \in 1..(a + b) /\ i <= a /\ \A j \in 1..(i - 1) : j \in 1..(a + b) /\ j <= a
    BY <2>1
  <2>3. q[i] = m /\ \A j \in 1..(i - 1) : q[j] \in S
    BY <1>3, <2>1, <2>2
  <2> QED BY <1>2, <1>3, <2>2, <2>3 DEF Before
<1>5. CASE p \in Seq(S) /\ Before(S, m, r)
  <2>1. PICK i \in 1..b : r[i] = m /\ \A j \in 1..(i - 1) : r[j] \in S
    BY <1>3, <1>5 DEF Before
  <2>2. \A j \in 1..a : p[j] \in S
    BY <1>3, <1>5, ElementOfSeq
  <2>3. PICK k \in Nat : k = a + i /\ k \in 1..(a + b) /\ ~(k <= a) /\ k - a = i
    BY <2>1
  <2>4. \A j \in 1..(k - 1) : /\ j \in 1..(a + b)
                              /\ IF j <= a THEN j \in 1..a ELSE j - a \in 1..(i - 1)
    BY <2>3
  <2>5. q[k] = m /\ \A j \in 1..(k - 1) : q[j] \in S
    BY <1>3, <2>1, <2>2, <2>3, <2>4
  <2> QED BY <1>2, <1>3, <2>3, <2>5 DEF Before
<1> QED BY <1>4, <1>5

LEMMA GuardsMonotonic ==
  ASSUME NEW S, NEW T, S \subseteq T
  PROVE  Guards(S) \subseteq Guards(T)
<1>1. Seq(S) \subseteq Seq(T)
  BY SeqMonotonic
<1> QED BY <1>1 DEF Guards, Before

LEMMA GuardsConcat ==
  ASSUME NEW S, NEW p \in Guards(S), NEW r \in Guards(S)
  PROVE  p \o r \in Guards(S)
<1>1. p \in Seq(Inner) /\ r \in Seq(Inner) /\ p \o r \in Seq(Inner)
  BY ConcatProperties DEF Guards
<1>2. CASE Before(S, Qualident, p)
  BY <1>1, <1>2, BeforeConcat DEF Guards
<1>3. CASE p \in Seq(S)
  <2>1. CASE Before(S, Qualident, r)
    BY <1>1, <1>3, <2>1, BeforeConcat DEF Guards
  <2>2. CASE r \in Seq(S)
    BY <1>1, <1>3, <2>2, ConcatProperties DEF Guards
  <2> QED BY <2>1, <2>2 DEF Guards
<1> QED BY <1>2, <1>3 DEF Guards

LEMMA Paths ==
  /\ Mild \subseteq Path(Mild) /\ Path(Mild) \subseteq Path(Path(Mild))
  /\ Seq(Mild) \subseteq Guards(Mild) /\ Guards(Mild) \subseteq Guards(Path(Mild))
  /\ Guards(Path(Mild)) \subseteq Guarded /\ Guarded \subseteq Seq(Inner)
<1>1. \A S : S \subseteq Path(S)
  BY DEF Path
<1>2. Seq(Mild) \subseteq Guards(Mild)
  BY Levels DEF Guards
<1> QED BY <1>1, <1>2, GuardsMonotonic DEF Guarded, Guards

\* What a body does next, unless that is the lookup.
LEMMA GuardedNext ==
  ASSUME NEW r \in Guarded, r # <<>>, r[1] # Qualident
  PROVE  /\ Tail(r) \in Guarded
         /\ r[1].op \notin UserActs
         /\ r[1].op = "when" => r[1].then \in Guarded /\ r[1].otherwise \in Guarded
         /\ r[1].op = "while" => r[1].body \in Guarded
<1>1. r \in Seq(Inner) /\ Tail(r) \in Seq(Inner)
  BY Paths, TailOf
<1>2. r[1] \in Path(Path(Mild)) /\ Tail(r) \in Guarded
  <2>1. CASE r \in Seq(Path(Path(Mild)))
    BY <1>1, <2>1, TailOf, ElementOfSeq DEF Guarded, Guards
  <2>2. CASE Before(Path(Path(Mild)), Qualident, r)
    BY <1>1, <2>2, BeforeTail DEF Guarded, Guards
  <2> QED BY <2>1, <2>2 DEF Guarded, Guards
<1>3. ASSUME NEW S, NEW i \in [op : {"when"}, kinds : SUBSET Kinds, then : Guards(S), otherwise : Guards(S)]
      PROVE  i.op = "when" /\ i.then \in Guards(S) /\ i.otherwise \in Guards(S)
  BY <1>3
<1>4. CASE r[1] \in Mild
  <2>1. /\ r[1].op \in MildActs \cup {"expect", "consume", "call", "when", "while"}
        /\ r[1].op = "when" => r[1].then \in Seq(Mild) /\ r[1].otherwise \in Seq(Mild)
        /\ r[1].op = "while" => r[1].body \in Seq(Mild)
    BY <1>4, MildSound DEF Sound
  <2>2. r[1].op \notin UserActs
    BY <2>1 DEF MildActs, UserActs
  <2> QED BY <1>2, <2>1, <2>2, Paths
<1>5. CASE \E S \in {Mild, Path(Mild)} : 
             r[1] \in [op : {"when"}, kinds : SUBSET Kinds, then : Guards(S), otherwise : Guards(S)]
  <2>1. r[1].op = "when" /\ r[1].then \in Guarded /\ r[1].otherwise \in Guarded
    BY <1>3, <1>5, Paths
  <2> QED BY <1>2, <2>1 DEF UserActs
<1> QED BY <1>2, <1>4, <1>5 DEF Path

(* The bodies that take a declaration.                                      *)

LEMMA TypedNamesGuarded == ASSUME NEW act \in UserActs PROVE TypedNames(act) \in Guarded
<1>1. PICK b : b = TypedNames(act)
  OBVIOUS
<1>2. b = << Call("parseIdentList", [Ids |-> "Ids"]), Consume(":"), Qualident, Act(act) >>
  BY <1>1 DEF TypedNames, Qualident
<1>3. /\ Call("parseIdentList", [Ids |-> "Ids"]) \in Mild /\ Consume(":") \in Mild
      /\ Qualident \in Mild /\ Act(act) \in Inner0
  BY Instructions, Basics, Levels DEF Qualident
<1>4. b \in Seq(Inner)
  BY <1>2, <1>3, Levels
<1>5. Before(Mild, Qualident, b)
  <2>1. DOMAIN b = 1..4 /\ b[1] \in Mild /\ b[2] \in Mild /\ b[3] = Qualident
    BY <1>2, <1>3
  <2>2. \A j \in 1..(3 - 1) : j = 1 \/ j = 2
    OBVIOUS
  <2> QED BY <2>1, <2>2 DEF Before
<1> QED BY <1>1, <1>4, <1>5, Paths DEF Guards

LEMMA LookedUp ==
  ASSUME NEW b \in Seq(Inner), b # <<>>, b[1] = Qualident
  PROVE  \A S : b \in Guards(S)
<1>1. 1 \in DOMAIN b /\ 1..(1 - 1) = {}
  BY TailOf, LenProperties
<1> QED BY <1>1 DEF Guards, Before

LEMMA ConditionPath ==
  ASSUME NEW S, NEW k \in SUBSET Kinds, NEW t \in Guards(S), NEW o \in Guards(S)
  PROVE  When(k, t, o) \in Path(S)
  BY DEF When, Path

LEMMA UserBodies ==
  /\ parseTypeDeclaration.body \in Guarded
  /\ parseField.body \in Guarded /\ parseVariableDeclaration.body \in Guarded
  /\ parseFormalParameter.body \in Guarded /\ parseStatement.body \in Guarded
<1>1. parseTypeDeclaration.body \in Guarded
  <2> DEFINE record == When({"RECORD"},
               << Advance, Call("parseFieldList", [Fields |-> "Fields"]), Expect("END"),
                  Act("record"), Advance >>, << Fail >>)
             array == When({"ARRAY"}, << Advance, Expect("[") >>, << record >>)
             pointed == << Advance, Expect("TO"), Advance, Qualident, Act("pointer") >>
             pointer == When({"POINTER"}, pointed, << array >>)
             aliased == << Qualident, Act("alias") >>
             alias == When({"identifier"}, aliased, << pointer >>)
  <2>1. record \in Mild1
    BY Instructions, KindSets DEF When, Control, Mild1
  <2>2. array \in Mild
    <3>1. array \in Mild2
      <4> HIDE DEF record
      <4> QED BY <2>1, Instructions, Levels, KindSets DEF When, Control, Mild2
    <3> QED BY <3>1, Levels
  <2>3. /\ Advance \in Mild /\ Expect("TO") \in Mild /\ Qualident \in Mild
        /\ Act("pointer") \in Inner0 /\ Act("alias") \in Inner0
    BY Instructions, Levels DEF Qualident
  <2>4. pointed \in Seq(Inner0) /\ aliased \in Seq(Inner0)
    BY <2>3, Levels
  <2>5. pointer \in Inner1 /\ pointer \in Path(Mild)
    <3>1. << array >> \in Seq(Mild)
      <4> HIDE DEF array
      <4> QED BY <2>2
    <3>2. pointed \in Guards(Mild)
      <4>1. DOMAIN pointed = 1..5 /\ pointed[1] \in Mild /\ pointed[2] \in Mild
            /\ pointed[3] \in Mild /\ pointed[4] = Qualident
        BY <2>3
      <4>2. \A j \in 1..(4 - 1) : j = 1 \/ j = 2 \/ j = 3
        OBVIOUS
      <4>3. Before(Mild, Qualident, pointed)
        <5> HIDE DEF pointed
        <5> QED BY <4>1, <4>2 DEF Before
      <4> HIDE DEF pointed
      <4> QED BY <2>4, <4>3, Levels DEF Guards
    <3> HIDE DEF array, pointed
    <3>3. pointer \in Inner1
      BY <2>4, <3>1, Levels, KindSets, Nested DEF Inner1
    <3> QED BY <3>1, <3>2, <3>3, KindSets, Paths, ConditionPath
  <2>6. alias \in Inner /\ alias \in Path(Path(Mild))
    <3> HIDE DEF pointer
    <3>1. << pointer >> \in Seq(Inner1) /\ << pointer >> \in Guards(Path(Mild))
      BY <2>5, Levels DEF Guards
    <3>2. aliased \in Guards(Path(Mild)) /\ aliased \in Seq(Inner1)
      <4>1. aliased # <<>> /\ aliased[1] = Qualident
        OBVIOUS
      <4> HIDE DEF aliased
      <4> QED BY <2>4, <4>1, LookedUp, Levels
    <3> HIDE DEF aliased
    <3>3. alias \in Inner
      BY <3>1, <3>2, KindSets, Nested DEF Inner
    <3> QED BY <3>1, <3>2, <3>3, KindSets, ConditionPath
  <2>7. parseTypeDeclaration.body =
          << Expect("identifier"), Act("takeName"), Advance, Consume("="), alias >>
    BY DEF parseTypeDeclaration, Rule, Qualident
  <2>8. /\ Expect("identifier") \in Mild /\ Act("takeName") \in Mild /\ Advance \in Mild
        /\ Consume("=") \in Mild
    BY Instructions, Levels
  <2> HIDE DEF alias
  <2>9. parseTypeDeclaration.body \in Seq(Inner) /\ parseTypeDeclaration.body \in Seq(Path(Path(Mild)))
    BY <2>6, <2>7, <2>8, Levels, Paths
  <2> QED BY <2>9 DEF Guarded, Guards
<1>2. parseField.body \in Guarded /\ parseVariableDeclaration.body \in Guarded
  <2>1. "field" \in UserActs /\ "variable" \in UserActs
    BY DEF UserActs
  <2> QED BY <2>1, TypedNamesGuarded DEF parseField, parseVariableDeclaration, Rule
<1>3. parseFormalParameter.body \in Guarded
  <2>1. When({"VAR"}, << Act("byRef"), Advance >>, <<>>) \in Mild1
    BY Instructions, KindSets DEF When, Control, Mild1
  <2>2. << When({"VAR"}, << Act("byRef"), Advance >>, <<>>) >> \in Guarded
    BY <2>1, Levels, Paths
  <2>3. TypedNames("parameter") \in Guarded
    BY TypedNamesGuarded DEF UserActs
  <2>4. parseFormalParameter.body =
          << When({"VAR"}, << Act("byRef"), Advance >>, <<>>) >> \o TypedNames("parameter")
    BY DEF parseFormalParameter, Rule
  <2> QED BY <2>2, <2>3, <2>4, GuardsConcat DEF Guarded
<1>4. parseStatement.body \in Guarded
  <2> DEFINE return == When({"RETURN"}, << Call("parseReturnStatement", None) >>, << Fail >>)
             loop == When({"WHILE"}, << Call("parseWhileStatement", None) >>, << return >>)
             branch == When({"IF"}, << Call("parseIfStatement", None) >>, << loop >>)
             arguments == Arguments \o << Consume(")"), Act("procCall") >>
             assignment == << Act("designator"), Call("parseSelectors", [E |-> "E"]),
                              Act("target"), Consume(":="),
                              Call("parseExpression", [E |-> "E"]), Act("assignment") >>
             use == When({"("}, arguments, assignment)
             taken == << Qualident, use >>
             named == When({"identifier"}, taken, << branch >>)
  <2>1. return \in Mild1
    BY Instructions, KindSets DEF When, Control, Mild1
  <2>2. loop \in Mild2
    <3> HIDE DEF return
    <3> QED BY <2>1, Instructions, Levels, KindSets DEF When, Control, Mild2
  <2>3. branch \in Mild3
    <3> HIDE DEF loop
    <3> QED BY <2>2, Instructions, Levels, KindSets DEF When, Control, Mild3
  <2>4. arguments \in Seq(Inner0)
    <3>1. << Consume(")"), Act("procCall") >> \in Seq(Inner0)
      BY Instructions, Levels
    <3>2. Arguments \in Seq(Inner0)
      BY ArgumentsIn, Levels
    <3> QED BY <3>1, <3>2, ConcatProperties
  <2>5. assignment \in Seq(Mild0)
    BY Instructions
  <2>6. use \in Inner1
    <3> HIDE DEF arguments, assignment
    <3> QED BY <2>4, <2>5, Levels, KindSets, Nested DEF Inner1
  <2>7. taken \in Seq(Inner1) /\ taken \in Guards(Mild)
    <3> HIDE DEF use
    <3>1. Qualident \in Inner1
      BY Instructions, Levels DEF Qualident
    <3>2. taken \in Seq(Inner1) /\ taken # <<>> /\ taken[1] = Qualident
      BY <2>6, <3>1
    <3> HIDE DEF taken
    <3> QED BY <3>2, Levels, LookedUp
  <2>8. << branch >> \in Seq(Mild)
    <3> HIDE DEF branch
    <3> QED BY <2>3, Levels
  <2>9. named \in Inner /\ named \in Path(Mild)
    <3> HIDE DEF branch, taken
    <3>1. << branch >> \in Seq(Inner1) /\ << branch >> \in Guards(Mild)
      BY <2>8, Levels, Paths
    <3>2. named \in Inner
      BY <2>7, <3>1, KindSets, Nested DEF Inner
    <3> QED BY <2>7, <3>1, <3>2, KindSets, ConditionPath
  <2>10. parseStatement.body = << named >>
    BY DEF parseStatement, Rule, Qualident
  <2> HIDE DEF named
  <2>11. parseStatement.body \in Seq(Inner) /\ parseStatement.body \in Seq(Path(Path(Mild)))
    BY <2>9, <2>10, Paths
  <2> QED BY <2>11 DEF Guarded, Guards
<1> QED BY <1>1, <1>2, <1>3, <1>4


\* The two functions that enter a scope: what is left of their bodies before that.
Enters(rest) == rest # <<>> /\ rest[1].op = "enterScope" /\ Tail(rest) \in Seq(Own)
Creates(rest) ==
  rest # <<>> /\ rest[1].op \in {"newModule", "newProcedure"} /\ Enters(Tail(rest))
Names_(rest) == rest # <<>> /\ rest[1].op = "expect" /\ Creates(Tail(rest))
Begins(rest) == rest # <<>> /\ rest[1].op = "consume" /\ Names_(Tail(rest))

\* The function that looks up a name, which it expects first.
Looks(rest) == rest # <<>> /\ rest[1].op = "lookup" /\ Tail(rest) \in Seq(Mild)
Asks(rest) == rest # <<>> /\ rest[1] = Expect("identifier") /\ Looks(Tail(rest))

LEMMA QualidentAsks == Asks(parseQualident.body)
<1>1. PICK b : b = << Expect("identifier"), Act("lookup"), Advance, Act("isModule") >>
  OBVIOUS
<1>2. PICK c : c = << Act("lookup"), Advance, Act("isModule") >>
  OBVIOUS
<1>3. b # <<>> /\ b[1] = Expect("identifier") /\ Tail(b) = c
  BY <1>1, <1>2
<1>4. c # <<>> /\ c[1] = Act("lookup") /\ Tail(c) = << Advance, Act("isModule") >>
  BY <1>2
<1>5. << Advance, Act("isModule") >> \in Seq(Mild)
  BY Instructions, Levels
<1>6. Act("lookup").op = "lookup"
  BY DEF Act
<1>7. parseQualident.body = b
  BY <1>1 DEF parseQualident, Rule
<1> QED BY <1>3, <1>4, <1>5, <1>6, <1>7 DEF Asks, Looks

LEMMA OwnBasics ==
  /\ Advance \in Own0 /\ Act("heading") \in Own0 /\ Act("endProcedure") \in Own0
  /\ Act("endModule") \in Own0 /\ Handler \in Own0
  /\ Expect("identifier") \in Own0 /\ Expect(semi) \in Own0
  /\ Consume(semi) \in Own0 /\ Consume(".") \in Own0
  /\ Call("parseImport", None) \in Own0 /\ Call("parseBlock", None) \in Own0
  /\ Call("parseFormalParameters", [Params |-> "Params", Ret |-> "Ret"]) \in Own0
<1>1. /\ Advance \in Own0 /\ Act("heading") \in Own0 /\ Act("endProcedure") \in Own0
      /\ Act("endModule") \in Own0 /\ Handler \in Own0
  BY DEF Advance, Act, Handler, Own0, Simple, OwnActs
<1>2. /\ Expect("identifier") \in Own0 /\ Expect(semi) \in Own0
      /\ Consume(semi) \in Own0 /\ Consume(".") \in Own0
  BY KindNames DEF Expect, Consume, Own0, Simple
<1>3. None \in OwnOuts /\ [Params |-> "Params", Ret |-> "Ret"] \in OwnOuts
  BY DEF OwnOuts
<1>4. \A o \in OwnOuts, f \in DOMAIN Rules : Call(f, o) \in Own0
  <2>1. \A o \in OwnOuts : "D" \notin DOMAIN o
    BY DEF OwnOuts, None
  <2> QED BY <2>1 DEF Call, Own0, Simple
<1> QED BY <1>1, <1>2, <1>3, <1>4, RuleNames

LEMMA OwnLevels == Own0 \subseteq Own
  BY Nested DEF Own

LEMMA BeginsAs ==
  ASSUME NEW k, NEW e, NEW a, e.op = "expect", k.op = "consume",
         a.op \in {"newModule", "newProcedure"},
         NEW s \in Seq(Own), NEW body, body = << k, e, a, Act("enterScope") >> \o s
  PROVE  Begins(body)
<1>1. PICK b : b = << k, e, a, Act("enterScope") >>
  OBVIOUS
<1>2. PICK U : U = Own \cup {k, e, a, Act("enterScope")}
  OBVIOUS
<1>3. b \in Seq(U) /\ Len(b) = 4 /\ s \in Seq(U)
  <2>1. Own \subseteq U
    BY <1>2
  <2> QED BY <1>1, <1>2, <2>1, SeqMonotonic
<1>4. /\ body \in Seq(U) /\ Len(body) = 4 + Len(s) /\ Len(s) \in Nat
      /\ body[1] = k /\ body[2] = e /\ body[3] = a /\ body[4] = Act("enterScope")
      /\ \A i \in 1..Len(s) : body[4 + i] = s[i]
  <2>1. b[1] = k /\ b[2] = e /\ b[3] = a /\ b[4] = Act("enterScope") /\ body = b \o s
    BY <1>1
  <2> QED BY <1>3, <2>1, ConcatProperties
<1>5. PICK b1 : b1 = Tail(body)
  OBVIOUS
<1>6. PICK b2 : b2 = Tail(b1)
  OBVIOUS
<1>7. PICK b3 : b3 = Tail(b2)
  OBVIOUS
<1>8. /\ b1 \in Seq(U) /\ Len(b1) = 3 + Len(s) /\ b1 # <<>>
      /\ b1[1] = e /\ b1[2] = a /\ b1[3] = Act("enterScope")
      /\ \A i \in 1..Len(s) : b1[3 + i] = s[i]
  <2>1. b1 \in Seq(U) /\ Len(b1) = 3 + Len(s) /\ \A i \in 1..3 + Len(s) : b1[i] = body[i + 1]
    BY <1>4, <1>5, TailOf
  <2> QED BY SMTT(30), <1>4, <2>1
<1>9. /\ b2 \in Seq(U) /\ Len(b2) = 2 + Len(s) /\ b2 # <<>>
      /\ b2[1] = a /\ b2[2] = Act("enterScope")
      /\ \A i \in 1..Len(s) : b2[2 + i] = s[i]
  <2>1. b2 \in Seq(U) /\ Len(b2) = 2 + Len(s) /\ \A i \in 1..2 + Len(s) : b2[i] = b1[i + 1]
    BY <1>4, <1>6, <1>8, TailOf
  <2> QED BY SMTT(30), <1>4, <1>8, <2>1
<1>10. /\ b3 \in Seq(U) /\ Len(b3) = 1 + Len(s) /\ b3 # <<>>
       /\ b3[1] = Act("enterScope")
       /\ \A i \in 1..Len(s) : b3[1 + i] = s[i]
  <2>1. b3 \in Seq(U) /\ Len(b3) = 1 + Len(s) /\ \A i \in 1..1 + Len(s) : b3[i] = b2[i + 1]
    BY <1>4, <1>7, <1>9, TailOf
  <2>2. Len(b3) >= 1 /\ b3 # <<>>
    BY <1>4, <2>1, EmptySeq
  <2>3. b3[1] = b2[2]
    BY <1>4, <2>1
  <2>4. \A i \in 1..Len(s) : b3[1 + i] = b2[2 + i]
    BY <1>4, <2>1
  <2> QED BY <1>9, <2>1, <2>2, <2>3, <2>4
<1>11. Tail(b3) = s
  <2>1. /\ Tail(b3) \in Seq(U) /\ Len(Tail(b3)) = Len(s)
        /\ \A i \in 1..Len(s) : Tail(b3)[i] = b3[i + 1]
    BY <1>4, <1>10, TailOf
  <2>2. \A i \in 1..Len(s) : Tail(b3)[i] = s[i]
    BY <1>4, <1>10, <2>1
  <2> QED BY <1>3, <2>1, <2>2, SeqEqual
<1>12. Enters(b3)
  <2>1. b3[1].op = "enterScope"
    BY <1>10 DEF Act
  <2>2. Tail(b3) \in Seq(Own)
    BY <1>11
  <2> QED BY <1>10, <2>1, <2>2 DEF Enters
<1>13. Creates(b2)
  BY <1>7, <1>9, <1>12 DEF Creates
<1>14. Names_(b1)
  BY <1>6, <1>8, <1>13 DEF Names_
<1> QED BY <1>4, <1>5, <1>14 DEF Begins

LEMMA OpeningBodies ==
  Begins(parseCompilationUnit.body) /\ Begins(parseProcedureDeclaration.body)
<1>1. Begins(parseCompilationUnit.body)
  <2> DEFINE imports == While({"FROM", "IMPORT"}, << Call("parseImport", None) >>)
             s == << Advance, Consume(semi), imports, Call("parseBlock", None),
                     Expect("identifier"), Act("endModule"), Advance, Consume(".") >>
             b == << Consume("MODULE"), Expect("identifier"), Act("newModule"),
                     Act("enterScope") >>
  <2>1. imports \in Own
    BY OwnBasics, KindSets DEF While, Control, Own
  <2>2. s \in Seq(Own)
    <3> HIDE DEF imports
    <3> QED BY <2>1, OwnBasics, OwnLevels
  <2>3. parseCompilationUnit.body = b \o s
    BY DEF parseCompilationUnit, Rule
  <2>4. /\ Consume("MODULE").op = "consume" /\ Expect("identifier").op = "expect"
        /\ Act("newModule").op = "newModule"
    BY DEF Consume, Expect, Act
  <2> HIDE DEF s
  <2> QED BY <2>2, <2>3, <2>4, BeginsAs
<1>2. Begins(parseProcedureDeclaration.body)
  <2> DEFINE formals == When({"("},
               << Call("parseFormalParameters", [Params |-> "Params", Ret |-> "Ret"]) >>, <<>>)
             s == << Advance, formals, Act("heading"), Expect(semi), Advance,
                     Call("parseBlock", None), Expect("identifier"), Act("endProcedure"),
                     Advance >>
             b == << Consume("PROCEDURE"), Expect("identifier"), Act("newProcedure"),
                     Act("enterScope") >>
  <2>1. formals \in Own
    BY OwnBasics, KindSets DEF When, Control, Own
  <2>2. s \in Seq(Own)
    <3> HIDE DEF formals
    <3> QED BY <2>1, OwnBasics, OwnLevels
  <2>3. parseProcedureDeclaration.body = b \o s
    BY DEF parseProcedureDeclaration, Rule
  <2>4. /\ Consume("PROCEDURE").op = "consume" /\ Expect("identifier").op = "expect"
        /\ Act("newProcedure").op = "newProcedure"
    BY DEF Consume, Expect, Act
  <2> HIDE DEF s
  <2> QED BY <2>2, <2>3, <2>4, BeginsAs
<1> QED BY <1>1, <1>2

LEMMA GuardedBodies ==
  \A fn \in DOMAIN Rules :
    \/ Rules[fn].body \in Guarded
    \/ Begins(Rules[fn].body) /\ fn \in {"parseCompilationUnit", "parseProcedureDeclaration"}
    \/ Asks(Rules[fn].body)
<1>1. DOMAIN Rules =
        {"parse", "parseCompilationUnit", "parseImport", "parseBlock", "parseDeclaration", "parseConstantDeclaration", "parseTypeDeclaration", "parseFieldList", "parseField", "parseVariableDeclaration", "parseProcedureDeclaration", "parseFormalParameters", "parseFormalParameterList", "parseFormalParameter", "parseIdentList", "parseStatementSequence", "parseStatement", "parseIfStatement", "parseWhileStatement", "parseReturnStatement", "parseExpList", "parseExpression", "parseRelation", "parseSimpleExpression", "parseAddOperator", "parseTerm", "parseMulOperator", "parseFactor", "parseSelectors", "parseQualident"}
  BY DEF Rules
<1>2. Rules.parse = parse
  BY DEF Rules
<1>3. Rules.parseCompilationUnit = parseCompilationUnit
  BY DEF Rules
<1>4. Rules.parseImport = parseImport
  BY DEF Rules
<1>5. Rules.parseBlock = parseBlock
  BY DEF Rules
<1>6. Rules.parseDeclaration = parseDeclaration
  BY DEF Rules
<1>7. Rules.parseConstantDeclaration = parseConstantDeclaration
  BY DEF Rules
<1>8. Rules.parseTypeDeclaration = parseTypeDeclaration
  BY DEF Rules
<1>9. Rules.parseFieldList = parseFieldList
  BY DEF Rules
<1>10. Rules.parseField = parseField
  BY DEF Rules
<1>11. Rules.parseVariableDeclaration = parseVariableDeclaration
  BY DEF Rules
<1>12. Rules.parseProcedureDeclaration = parseProcedureDeclaration
  BY DEF Rules
<1>13. Rules.parseFormalParameters = parseFormalParameters
  BY DEF Rules
<1>14. Rules.parseFormalParameterList = parseFormalParameterList
  BY DEF Rules
<1>15. Rules.parseFormalParameter = parseFormalParameter
  BY DEF Rules
<1>16. Rules.parseIdentList = parseIdentList
  BY DEF Rules
<1>17. Rules.parseStatementSequence = parseStatementSequence
  BY DEF Rules
<1>18. Rules.parseStatement = parseStatement
  BY DEF Rules
<1>19. Rules.parseIfStatement = parseIfStatement
  BY DEF Rules
<1>20. Rules.parseWhileStatement = parseWhileStatement
  BY DEF Rules
<1>21. Rules.parseReturnStatement = parseReturnStatement
  BY DEF Rules
<1>22. Rules.parseExpList = parseExpList
  BY DEF Rules
<1>23. Rules.parseExpression = parseExpression
  BY DEF Rules
<1>24. Rules.parseRelation = parseRelation
  BY DEF Rules
<1>25. Rules.parseSimpleExpression = parseSimpleExpression
  BY DEF Rules
<1>26. Rules.parseAddOperator = parseAddOperator
  BY DEF Rules
<1>27. Rules.parseTerm = parseTerm
  BY DEF Rules
<1>28. Rules.parseMulOperator = parseMulOperator
  BY DEF Rules
<1>29. Rules.parseFactor = parseFactor
  BY DEF Rules
<1>30. Rules.parseSelectors = parseSelectors
  BY DEF Rules
<1>31. Rules.parseQualident = parseQualident
  BY DEF Rules
<1> SUFFICES ASSUME NEW fn \in DOMAIN Rules
             PROVE  \/ Rules[fn].body \in Guarded
                    \/ Begins(Rules[fn].body) /\ fn \in {"parseCompilationUnit", "parseProcedureDeclaration"}
                    \/ Asks(Rules[fn].body)
  OBVIOUS
<1> QED BY <1>1, <1>2, <1>3, <1>4, <1>5, <1>6, <1>7, <1>8, <1>9, <1>10, <1>11, <1>12, <1>13, <1>14, <1>15, <1>16, <1>17, <1>18, <1>19, <1>20, <1>21, <1>22, <1>23, <1>24, <1>25, <1>26, <1>27, <1>28, <1>29, <1>30, <1>31, DeclarationBodies, TypeBodies,
           ParameterBodies, StatementBodies, ExpressionBodies, UserBodies, OpeningBodies, QualidentAsks, Paths

LEMMA Bodies ==
  \A fn \in DOMAIN Rules :
    Rules[fn].body \in Seq(Inner) \/ Begins(Rules[fn].body) \/ Asks(Rules[fn].body)
  BY GuardedBodies, Paths


-----------------------------------------------------------------------------
(* Calls and the scopes that are open.                                      *)

\* Scoped, Opened and Enclosing of a sequence of calls.
ScopedIn(c) == {k \in DOMAIN c : c[k].scoped}
OpenedIn(c, k) == {j \in ScopedIn(c) : j <= k}
EnclosingIn(c, k) ==
  IF OpenedIn(c, k) = {} THEN Null
  ELSE c[CHOOSE j \in OpenedIn(c, k) : \A i \in OpenedIn(c, k) : i <= j].locals.D

IsSeq(s) == \E S : s \in Seq(S)

\* The chain of scopes s, of declarations d, is the one of the calls c.
Matches(c, s, d, cur) ==
  /\ Len(s) = Cardinality(ScopedIn(c)) + 1
  /\ cur = EnclosingIn(c, Len(c))
  /\ \A k \in ScopedIn(c) : d[c[k].locals.D].outer = EnclosingIn(c, k - 1)

Holds(c, s, d) ==
  \A k \in ScopedIn(c) \cup {0} :
    \A n \in DOMAIN s[Cardinality(OpenedIn(c, k)) + 1] :
      d[s[Cardinality(OpenedIn(c, k)) + 1][n]].outer = EnclosingIn(c, k)

\* A scope binds names to declarations.
Bound(s, d) == IsSeq(s) /\ \A k \in DOMAIN s : \A n \in DOMAIN s[k] : s[k][n] \in DOMAIN d

\* The declarations that were there are enclosed by what they were.
Grows(d, d2) == DOMAIN d \subseteq DOMAIN d2 /\ \A i \in DOMAIN d : d2[i].outer = d[i].outer

LEMMA SeqFacts ==
  ASSUME NEW s, IsSeq(s)
  PROVE  DOMAIN s = 1..Len(s) /\ Len(s) \in Nat
  BY DEF IsSeq

LEMMA ScopedFinite ==
  ASSUME NEW c, IsSeq(c)
  PROVE  /\ IsFiniteSet(ScopedIn(c)) /\ ScopedIn(c) \subseteq 1..Len(c)
         /\ Cardinality(ScopedIn(c)) \in Nat
         /\ \A k : /\ IsFiniteSet(OpenedIn(c, k)) /\ OpenedIn(c, k) \subseteq ScopedIn(c)
                   /\ Cardinality(OpenedIn(c, k)) \in Nat
                   /\ Cardinality(OpenedIn(c, k)) <= Cardinality(ScopedIn(c))
<1>1. ScopedIn(c) \subseteq 1..Len(c) /\ Len(c) \in Nat
  BY SeqFacts DEF ScopedIn
<1>2. IsFiniteSet(ScopedIn(c)) /\ Cardinality(ScopedIn(c)) \in Nat
  <2>1. IsFiniteSet(1..Len(c))
    BY <1>1, FS_Interval
  <2> QED BY <1>1, <2>1, FS_Subset, FS_CardinalityType
<1>3. ASSUME NEW k
      PROVE  /\ IsFiniteSet(OpenedIn(c, k)) /\ OpenedIn(c, k) \subseteq ScopedIn(c)
             /\ Cardinality(OpenedIn(c, k)) \in Nat
             /\ Cardinality(OpenedIn(c, k)) <= Cardinality(ScopedIn(c))
  <2>1. OpenedIn(c, k) \subseteq ScopedIn(c)
    BY DEF OpenedIn
  <2> QED BY <1>2, <2>1, FS_Subset, FS_CardinalityType
<1> QED BY <1>1, <1>2, <1>3

\* A set of numbers up to n has a largest one.
LEMMA Largest ==
  ASSUME NEW n \in Nat, NEW A, A \subseteq 1..n, A # {}
  PROVE  \E j \in A : \A i \in A : i <= j
<1>1. PICK B : B = {n - i : i \in A}
  OBVIOUS
<1>2. B \subseteq Nat /\ B # {}
  <2>1. \A i \in A : n - i \in Nat
    OBVIOUS
  <2> QED BY <1>1, <2>1
<1>3. PICK x \in B : \A y \in B : ~(<<y, x>> \in OpToRel(<, Nat))
  BY <1>2, WFMin, NatLessThanWellFounded, Zenon
<1>4. \A y \in B : ~(y < x)
  BY <1>2, <1>3 DEF OpToRel
<1>5. PICK j \in A : x = n - j
  BY <1>1
<1>6. \A i \in A : n - i \in B /\ i \in 1..n
  BY <1>1
<1> QED BY <1>4, <1>5, <1>6

\* All the calls that have entered a scope are among the first Len(c).
LEMMA OpenedAll == ASSUME NEW c, IsSeq(c) PROVE OpenedIn(c, Len(c)) = ScopedIn(c)
  BY SeqFacts DEF OpenedIn, ScopedIn

\* The declaration of the last call that has entered a scope, of those up to k.
LEMMA EnclosingLast ==
  ASSUME NEW c, IsSeq(c), NEW k, NEW j \in OpenedIn(c, k), \A i \in OpenedIn(c, k) : i <= j
  PROVE  EnclosingIn(c, k) = c[j].locals.D
<1>1. OpenedIn(c, k) \subseteq Nat
  BY ScopedFinite
<1>2. PICK m : m = CHOOSE l \in OpenedIn(c, k) : \A i \in OpenedIn(c, k) : i <= l
  OBVIOUS
<1>3. m \in OpenedIn(c, k) /\ \A i \in OpenedIn(c, k) : i <= m
  BY <1>2
<1>4. m = j
  BY <1>1, <1>3
<1> QED BY <1>2, <1>4 DEF EnclosingIn

\* Calls that have entered the same scopes see the same chain.
LEMMA SameOpened ==
  ASSUME NEW c, IsSeq(c), NEW c2, NEW k, NEW m, OpenedIn(c2, m) = OpenedIn(c, k),
         \A j \in OpenedIn(c, k) : c2[j].locals.D = c[j].locals.D
  PROVE  EnclosingIn(c2, m) = EnclosingIn(c, k)
<1>1. CASE OpenedIn(c, k) = {}
  BY <1>1 DEF EnclosingIn
<1>2. CASE OpenedIn(c, k) # {}
  <2>1. PICK j \in OpenedIn(c, k) : \A i \in OpenedIn(c, k) : i <= j
    <3>1. OpenedIn(c, k) \subseteq 1..Len(c) /\ Len(c) \in Nat
      BY ScopedFinite, SeqFacts
    <3> QED BY <1>2, <3>1, Largest
  <2>2. PICK e : e = CHOOSE l \in OpenedIn(c, k) : \A i \in OpenedIn(c, k) : i <= l
    OBVIOUS
  <2>3. e \in OpenedIn(c, k)
    BY <2>1, <2>2
  <2>4. EnclosingIn(c, k) = c[e].locals.D
    BY <1>2, <2>2 DEF EnclosingIn
  <2>5. EnclosingIn(c2, m) = c2[e].locals.D
    BY <1>2, <2>2 DEF EnclosingIn
  <2> QED BY <2>3, <2>4, <2>5
<1> QED BY <1>1, <1>2

\* The step neither opens nor closes a scope; it may add bindings to the innermost one.
LEMMA ScopesStay ==
  ASSUME NEW c, IsSeq(c), NEW c2, IsSeq(c2), NEW d, NEW d2, Grows(d, d2),
         NEW s, NEW s2, Bound(s, d), NEW cur,
         ScopedIn(c2) = ScopedIn(c),
         \A k \in ScopedIn(c) : c2[k].locals.D = c[k].locals.D /\ c[k].locals.D \in DOMAIN d,
         Len(s2) = Len(s),
         \A k, n : k \in DOMAIN s /\ n \in DOMAIN s2[k] =>
           \/ n \in DOMAIN s[k] /\ s2[k][n] = s[k][n]
           \/ k = Len(s) /\ d2[s2[k][n]].outer = cur,
         Matches(c, s, d, cur), Holds(c, s, d)
  PROVE  Matches(c2, s2, d2, cur) /\ Holds(c2, s2, d2)
<1>1. \A k : OpenedIn(c2, k) = OpenedIn(c, k) /\ OpenedIn(c, k) \subseteq ScopedIn(c)
  BY DEF OpenedIn
<1>2. \A k : EnclosingIn(c2, k) = EnclosingIn(c, k)
  BY <1>1, SameOpened
<1>3. EnclosingIn(c2, Len(c2)) = EnclosingIn(c, Len(c))
  <2>1. OpenedIn(c2, Len(c2)) = OpenedIn(c, Len(c))
    BY OpenedAll
  <2> QED BY <1>1, <2>1, SameOpened
<1>4. Matches(c2, s2, d2, cur)
  <2>1. ASSUME NEW k \in ScopedIn(c2)
        PROVE  d2[c2[k].locals.D].outer = EnclosingIn(c2, k - 1)
    <3>1. d[c[k].locals.D].outer = EnclosingIn(c, k - 1)
      BY <2>1 DEF Matches
    <3>2. c2[k].locals.D = c[k].locals.D /\ c[k].locals.D \in DOMAIN d
      BY <2>1
    <3> QED BY <1>2, <3>1, <3>2 DEF Grows
  <2> QED BY <1>3, <2>1 DEF Matches
<1>5. Holds(c2, s2, d2)
  <2> SUFFICES ASSUME NEW k \in ScopedIn(c) \cup {0}, NEW p,
                      p = Cardinality(OpenedIn(c, k)) + 1, NEW n \in DOMAIN s2[p]
               PROVE  d2[s2[p][n]].outer = EnclosingIn(c, k)
    BY ZenonT(40), <1>1, <1>2 DEF Holds
  <2>1. p \in 1..Len(s) /\ DOMAIN s = 1..Len(s) /\ Len(s) = Cardinality(ScopedIn(c)) + 1
    BY ScopedFinite, SeqFacts DEF Matches, Bound
  <2>2. CASE n \in DOMAIN s[p] /\ s2[p][n] = s[p][n]
    <3>1. d[s[p][n]].outer = EnclosingIn(c, k)
      BY <2>2 DEF Holds
    <3>2. s[p][n] \in DOMAIN d
      BY <2>1, <2>2 DEF Bound
    <3> QED BY <2>2, <3>1, <3>2 DEF Grows
  <2>3. CASE p = Len(s) /\ d2[s2[p][n]].outer = cur
    <3>1. Cardinality(OpenedIn(c, k)) = Cardinality(ScopedIn(c))
      BY <2>1, <2>3, ScopedFinite
    <3>2. OpenedIn(c, k) = ScopedIn(c)
      BY <3>1, ScopedFinite, FS_Subset
    <3>3. EnclosingIn(c, k) = EnclosingIn(c, Len(c))
      BY <3>2, OpenedAll, SameOpened
    <3> QED BY <2>3, <3>3 DEF Matches
  <2> QED BY <2>1, <2>2, <2>3
<1> QED BY <1>4, <1>5

\* The innermost call enters the scope of D.
LEMMA ScopeOpens ==
  ASSUME NEW c, IsSeq(c), NEW c2, IsSeq(c2), NEW d, NEW s, Bound(s, d), NEW cur, NEW D,
         Len(c) > 0, Len(c2) = Len(c), Len(c) \notin ScopedIn(c),
         ScopedIn(c2) = ScopedIn(c) \cup {Len(c)},
         \A k \in ScopedIn(c) : c2[k].locals.D = c[k].locals.D,
         c2[Len(c)].locals.D = D, d[D].outer = cur,
         NEW s2, Len(s2) = Len(s) + 1, \A k \in 1..Len(s) : s2[k] = s[k],
         DOMAIN s2[Len(s) + 1] = {},
         Matches(c, s, d, cur), Holds(c, s, d)
  PROVE  Matches(c2, s2, d, D) /\ Holds(c2, s2, d)
<1>1. DOMAIN s = 1..Len(s) /\ Len(s) \in Nat /\ Len(c) \in Nat
  BY SeqFacts DEF Bound
<1>2. ScopedIn(c) \subseteq 1..(Len(c) - 1)
  BY <1>1, ScopedFinite
<1>3. \A k : k \in 0..(Len(c) - 1) =>
        OpenedIn(c2, k) = OpenedIn(c, k) /\ EnclosingIn(c2, k) = EnclosingIn(c, k)
  <2>1. \A k : k \in 0..(Len(c) - 1) => OpenedIn(c2, k) = OpenedIn(c, k)
    BY <1>1, <1>2 DEF OpenedIn
  <2>2. \A k : OpenedIn(c, k) \subseteq ScopedIn(c)
    BY DEF OpenedIn
  <2> QED BY <2>1, <2>2, SameOpened
<1>4. EnclosingIn(c2, Len(c)) = D
  <2>1. OpenedIn(c2, Len(c)) = ScopedIn(c) \cup {Len(c)}
    BY OpenedAll
  <2> QED BY <1>1, <1>2, <2>1, EnclosingLast
<1>5. EnclosingIn(c2, Len(c) - 1) = cur
  <2>1. OpenedIn(c, Len(c) - 1) = OpenedIn(c, Len(c))
    BY <1>1, <1>2 DEF OpenedIn
  <2>2. EnclosingIn(c, Len(c) - 1) = EnclosingIn(c, Len(c))
    BY <2>1, SameOpened
  <2> QED BY <1>1, <1>3, <2>2 DEF Matches
<1>6. Cardinality(ScopedIn(c2)) = Cardinality(ScopedIn(c)) + 1
  BY ScopedFinite, FS_AddElement
<1>7. Matches(c2, s2, d, D)
  <2>1. ASSUME NEW k \in ScopedIn(c)
        PROVE  d[c2[k].locals.D].outer = EnclosingIn(c2, k - 1)
    <3>1. d[c[k].locals.D].outer = EnclosingIn(c, k - 1)
      BY DEF Matches
    <3>2. k - 1 \in 0..(Len(c) - 1)
      BY <1>1, <1>2
    <3> QED BY <1>3, <3>1, <3>2
  <2> QED BY <1>1, <1>4, <1>5, <1>6, <2>1 DEF Matches
<1>8. Holds(c2, s2, d)
  <2>1. ASSUME NEW k \in ScopedIn(c) \cup {0}, NEW n,
               n \in DOMAIN s2[Cardinality(OpenedIn(c2, k)) + 1]
        PROVE  d[s2[Cardinality(OpenedIn(c2, k)) + 1][n]].outer = EnclosingIn(c2, k)
    <3>1. k \in 0..(Len(c) - 1)
      BY <1>1, <1>2
    <3>2. Cardinality(OpenedIn(c, k)) + 1 \in 1..Len(s)
      BY ScopedFinite DEF Matches
    <3>3. OpenedIn(c2, k) = OpenedIn(c, k) /\ EnclosingIn(c2, k) = EnclosingIn(c, k)
      BY <1>3, <3>1
    <3> QED BY <1>1, <2>1, <3>2, <3>3 DEF Holds
  <2>2. Cardinality(OpenedIn(c2, Len(c))) + 1 = Len(s) + 1
    BY <1>6, OpenedAll DEF Matches
  <2>3. \A n : n \notin DOMAIN s2[Cardinality(OpenedIn(c2, Len(c))) + 1]
    BY <1>1, <2>2
  <2> QED BY <2>1, <2>3 DEF Holds
<1> QED BY <1>7, <1>8

\* The innermost call, which has entered a scope, is left.
LEMMA ScopeCloses ==
  ASSUME NEW c, IsSeq(c), NEW c2, IsSeq(c2), NEW d, NEW s, Bound(s, d), NEW cur,
         Len(c) > 0, Len(c2) = Len(c) - 1, Len(c) \in ScopedIn(c),
         ScopedIn(c2) = ScopedIn(c) \ {Len(c)},
         \A k \in ScopedIn(c2) : c2[k].locals.D = c[k].locals.D,
         NEW s2, Len(s2) = Len(s) - 1, \A k \in 1..(Len(s) - 1) : s2[k] = s[k],
         Matches(c, s, d, cur), Holds(c, s, d)
  PROVE  Matches(c2, s2, d, d[cur].outer) /\ Holds(c2, s2, d)
<1>1. /\ DOMAIN s = 1..Len(s) /\ Len(s) \in Nat /\ Len(c) \in Nat /\ Len(s) >= 2
      /\ Cardinality(ScopedIn(c2)) = Cardinality(ScopedIn(c)) - 1
      /\ Cardinality(ScopedIn(c2)) \in Nat /\ Cardinality(ScopedIn(c)) \in Nat
  <2>1. IsFiniteSet(ScopedIn(c)) /\ Cardinality(ScopedIn(c2)) \in Nat
    BY ScopedFinite
  <2>2. Cardinality(ScopedIn(c2)) = Cardinality(ScopedIn(c)) - 1
    BY <2>1, FS_RemoveElement
  <2>3. Cardinality(ScopedIn(c)) \in Nat
    BY ScopedFinite
  <2>4. DOMAIN s = 1..Len(s) /\ Len(s) \in Nat /\ Len(c) \in Nat
    BY SeqFacts DEF Bound
  <2> QED BY <2>1, <2>2, <2>3, <2>4 DEF Matches
<1>2. Len(s2) = Len(s) - 1 /\ \A k \in 1..(Len(s) - 1) : s2[k] = s[k]
  OBVIOUS
<1>3. ScopedIn(c) \subseteq 1..Len(c) /\ ScopedIn(c2) \subseteq 1..(Len(c) - 1)
  BY <1>1, ScopedFinite
<1>4. \A k : k \in 0..(Len(c) - 1) =>
        OpenedIn(c2, k) = OpenedIn(c, k) /\ EnclosingIn(c2, k) = EnclosingIn(c, k)
  <2>1. \A k : k \in 0..(Len(c) - 1) => OpenedIn(c2, k) = OpenedIn(c, k)
    BY <1>1, <1>3 DEF OpenedIn
  <2>2. \A k : OpenedIn(c2, k) \subseteq ScopedIn(c2)
    BY DEF OpenedIn
  <2> QED BY <2>1, <2>2, SameOpened
<1>5. cur = c[Len(c)].locals.D
  <2>1. OpenedIn(c, Len(c)) = ScopedIn(c)
    BY OpenedAll
  <2>2. \A i \in ScopedIn(c) : i <= Len(c)
    BY <1>1, <1>3
  <2> QED BY <2>1, <2>2, EnclosingLast DEF Matches
<1>6. d[cur].outer = EnclosingIn(c2, Len(c2))
  <2>1. d[cur].outer = EnclosingIn(c, Len(c) - 1)
    BY <1>5 DEF Matches
  <2> QED BY <1>1, <1>4, <2>1
<1>7. Matches(c2, s2, d, d[cur].outer)
  <2>1. ASSUME NEW k \in ScopedIn(c2)
        PROVE  d[c2[k].locals.D].outer = EnclosingIn(c2, k - 1)
    <3>1. d[c[k].locals.D].outer = EnclosingIn(c, k - 1)
      BY DEF Matches
    <3>2. k - 1 \in 0..(Len(c) - 1)
      BY <1>1, <1>3
    <3> QED BY <1>4, <3>1, <3>2
  <2>2. Len(s2) = Cardinality(ScopedIn(c2)) + 1
    <3>1. Len(s) = Cardinality(ScopedIn(c)) + 1
      BY DEF Matches
    <3> QED BY <1>1, <1>2, <3>1
  <2> QED BY <1>6, <2>1, <2>2 DEF Matches
<1>8. Holds(c2, s2, d)
  <2> SUFFICES ASSUME NEW k \in ScopedIn(c2) \cup {0}, NEW p,
                      p = Cardinality(OpenedIn(c2, k)) + 1, NEW n \in DOMAIN s2[p]
               PROVE  d[s2[p][n]].outer = EnclosingIn(c2, k)
    BY Zenon DEF Holds
  <2>1. k \in 0..(Len(c) - 1) /\ k \in ScopedIn(c) \cup {0}
    BY <1>1, <1>3
  <2>2. p = Cardinality(OpenedIn(c, k)) + 1 /\ EnclosingIn(c2, k) = EnclosingIn(c, k)
    BY <1>4, <2>1
  <2>3. p \in 1..(Len(s) - 1)
    <3>1. Cardinality(OpenedIn(c2, k)) \in Nat
          /\ Cardinality(OpenedIn(c2, k)) <= Cardinality(ScopedIn(c2))
      BY ScopedFinite
    <3>2. Len(s) = Cardinality(ScopedIn(c)) + 1
      BY DEF Matches
    <3> QED BY <1>1, <3>1, <3>2
  <2> QED BY <1>2, <2>1, <2>2, <2>3 DEF Holds
<1> QED BY <1>7, <1>8

-----------------------------------------------------------------------------
(* The active calls.                                                        *)

\* What a call that has not entered a scope may still have to do, up to the step that
\* creates its declaration.
Left(r) == r \in Seq(Inner) \/ Begins(r) \/ Names_(r) \/ Creates(r) \/ Asks(r) \/ Looks(r)

WellFormed(f, d) ==
  /\ DOMAIN f = {"fn", "rest", "locals", "out", "scoped"}
  /\ f.scoped \in BOOLEAN /\ f.out \in Outs
  /\ DOMAIN f.locals = DOMAIN Locals /\ IsSeq(f.locals.Ids)
  /\ f.scoped => f.rest \in Seq(Own) /\ f.locals.D \in DOMAIN d
  /\ ~f.scoped => Left(f.rest) \/ Enters(f.rest)

\* What is about to enter the scope of a declaration has just created it.
Ready(f, d, cur) ==
  ~f.scoped /\ Enters(f.rest) => f.locals.D \in DOMAIN d /\ d[f.locals.D].outer = cur

\* A call that waits for another one.
Waits(f) == f.scoped \/ f.rest \in Seq(Inner)

Active(c, d, cur) ==
  /\ IsSeq(c)
  /\ \A k \in DOMAIN c : WellFormed(c[k], d) /\ Ready(c[k], d, cur)
  /\ \A k \in DOMAIN c : k < Len(c) => Waits(c[k])
  /\ \A k \in DOMAIN c : k < Len(c) /\ c[k].scoped => c[k + 1].out \in OwnOuts

DeclFields == {"kind", "name", "outer", "type", "expr", "params", "fields", "byRef"}
Declared(d) == IsSeq(d) /\ \A i \in DOMAIN d : DOMAIN d[i] = DeclFields

Coherent(c, s, d, cur) ==
  /\ Active(c, d, cur) /\ Declared(d) /\ Bound(s, d)
  /\ Matches(c, s, d, cur) /\ Holds(c, s, d)

LEMMA InnerEntersNot == ASSUME NEW r \in Seq(Inner) PROVE ~Enters(r) /\ ~Creates(r)
<1>1. SUFFICES ASSUME r # <<>> PROVE r[1].op \notin {"enterScope", "newModule", "newProcedure"}
  BY DEF Enters, Creates
<1>2. r[1] \in Inner
  BY <1>1, TailOf, ElementOfSeq
<1> QED BY <1>2, InnerSound DEF Sound, InnerActs, MildActs, UserActs

LEMMA LeftEntersNot == ASSUME NEW r, Left(r) PROVE ~Enters(r)
  BY InnerEntersNot DEF Left, Begins, Names_, Creates, Asks, Looks, Expect, Enters

LEMMA HandlerRest == <<Handler>> \in Seq(Inner) /\ <<Handler>> \in Seq(Own)
<1>1. Handler \in Inner /\ Handler \in Own
  BY Basics, Levels, OwnBasics, OwnLevels
<1> QED BY <1>1

\* A declaration more, or a heading, leaves a call well formed.
LEMMA WellFormedGrows ==
  ASSUME NEW f, NEW d, NEW d2, Grows(d, d2), WellFormed(f, d)
  PROVE  WellFormed(f, d2)
  BY DEF WellFormed, Grows

LEMMA WaitsReady ==
  ASSUME NEW f, NEW d, NEW cur, Waits(f)
  PROVE  Ready(f, d, cur)
  BY InnerEntersNot DEF Waits, Ready

\* The frames of c2 are those of c up to m - 1, then one that replaces c[m], then
\* perhaps one more.
LEMMA FramesReplaced ==
  ASSUME NEW c, NEW d, NEW d2, NEW cur, NEW cur2, Active(c, d, cur), Grows(d, d2),
         NEW c2, IsSeq(c2), NEW m \in Nat, m >= 1, m <= Len(c), m <= Len(c2),
         (m = Len(c2)) \/ (Waits(c2[m]) /\ m + 1 = Len(c2)),
         \A k \in 1..(m - 1) : c2[k] = c[k],
         c2[m].out = c[m].out,
         \A k \in m..Len(c2) : WellFormed(c2[k], d2) /\ Ready(c2[k], d2, cur2),
         m < Len(c2) /\ c2[m].scoped => c2[m + 1].out \in OwnOuts
  PROVE  Active(c2, d2, cur2)
<1>1. /\ DOMAIN c = 1..Len(c) /\ Len(c) \in Nat /\ DOMAIN c2 = 1..Len(c2) /\ Len(c2) \in Nat
  BY SeqFacts DEF Active
<1>2. \A k \in 1..(m - 1) : k \in DOMAIN c /\ k < Len(c) /\ c2[k] = c[k]
  BY <1>1
<1>3. \A k \in 1..(m - 1) :
        /\ WellFormed(c2[k], d2) /\ Waits(c2[k])
        /\ c2[k].scoped => c[k + 1].out \in OwnOuts
  BY <1>2, WellFormedGrows DEF Active
<1>4. \A k \in 1..(m - 1) : Ready(c2[k], d2, cur2)
  BY <1>3, WaitsReady
<1>5. \A k \in 1..(m - 1) : k + 1 \in 1..m /\ c2[k + 1].out = c[k + 1].out
  <2> SUFFICES ASSUME NEW k \in 1..(m - 1)
               PROVE  k + 1 \in 1..m /\ c2[k + 1].out = c[k + 1].out
    OBVIOUS
  <2>1. k + 1 = m \/ k + 1 \in 1..(m - 1)
    OBVIOUS
  <2> QED BY <2>1
<1>6. \A k \in DOMAIN c2 :
        /\ k \in 1..(m - 1) \/ k \in m..Len(c2)
        /\ k < Len(c2) => k \in 1..(m - 1) \/ (k = m /\ m < Len(c2))
  <2>1. PICK n \in Nat : n = Len(c2)
    BY <1>1
  <2>2. \A k \in 1..n : k \in 1..(m - 1) \/ k \in m..n
    OBVIOUS
  <2>3. \A k \in 1..n : k < n => k \in 1..(m - 1) \/ (k = m /\ m < n)
    BY <2>1
  <2> QED BY <1>1, <2>1, <2>2, <2>3
<1>7. \A k \in DOMAIN c2 : k < Len(c2) => Waits(c2[k])
  <2>1. m < Len(c2) => Waits(c2[m])
    BY <1>1
  <2> QED BY <1>3, <1>6, <2>1
<1>8. \A k \in DOMAIN c2 : k < Len(c2) /\ c2[k].scoped => c2[k + 1].out \in OwnOuts
  <2> SUFFICES ASSUME NEW k \in DOMAIN c2, k < Len(c2), c2[k].scoped
               PROVE  c2[k + 1].out \in OwnOuts
    OBVIOUS
  <2>1. CASE k \in 1..(m - 1)
    BY <1>3, <1>5, <2>1
  <2>2. CASE k = m /\ m < Len(c2)
    BY <2>2
  <2> QED BY <1>6, <2>1, <2>2
<1> QED BY <1>1, <1>3, <1>4, <1>6, <1>7, <1>8 DEF Active

\* c2 is c with g in the place of its last element.
Replaced(c, g, c2) ==
  /\ IsSeq(c2) /\ Len(c2) = Len(c)
  /\ c2[Len(c)] = g /\ \A k \in 1..(Len(c) - 1) : c2[k] = c[k]

LEMMA LastReplaced ==
  ASSUME NEW c, IsSeq(c), c # <<>>, NEW g
  PROVE  /\ DOMAIN c = 1..Len(c) /\ Len(c) \in Nat /\ Len(c) >= 1
         /\ Replaced(c, g, [c EXCEPT ![Len(c)] = g])
<1>1. PICK S : c \in Seq(S)
  BY DEF IsSeq
<1>2. DOMAIN c = 1..Len(c) /\ Len(c) \in Nat /\ Len(c) >= 1
  BY <1>1, EmptySeq, LenProperties
<1>3. c \in Seq(S \cup {g})
  BY <1>1, SeqMonotonic
<1>4. PICK c2 : c2 = [c EXCEPT ![Len(c)] = g]
  OBVIOUS
<1>5. c2 \in Seq(S \cup {g}) /\ Len(c2) = Len(c)
      /\ \A k \in 1..Len(c) : c2[k] = IF k = Len(c) THEN g ELSE c[k]
  BY <1>2, <1>3, <1>4, ExceptSeq
<1>6. Replaced(c, g, c2)
  <2>1. c2[Len(c)] = g
    BY <1>2, <1>4
  <2>2. \A k \in 1..(Len(c) - 1) : c2[k] = c[k]
    <3>1. \A k \in DOMAIN c : k # Len(c) => c2[k] = c[k]
      BY <1>4
    <3>2. \A k \in 1..(Len(c) - 1) : k \in DOMAIN c /\ k # Len(c)
      <4>1. PICK n \in Nat : n = Len(c)
        BY <1>2
      <4>2. \A k \in 1..(n - 1) : k \in 1..n /\ k # n
        OBVIOUS
      <4> QED BY <1>2, <4>1, <4>2
    <3> QED BY <3>1, <3>2
  <2>3. IsSeq(c2) /\ Len(c2) = Len(c)
    BY <1>5 DEF IsSeq
  <2> QED BY <2>1, <2>2, <2>3, Zenon DEF Replaced
<1> QED BY <1>2, <1>4, <1>6, Zenon

\* c2 is c with g in the place of its last element, and h behind it.
Pushed(c, g, h, c2) ==
  /\ IsSeq(c2) /\ Len(c2) = Len(c) + 1
  /\ c2[Len(c)] = g /\ c2[Len(c) + 1] = h /\ \A k \in 1..(Len(c) - 1) : c2[k] = c[k]

LEMMA LastPushed ==
  ASSUME NEW c, IsSeq(c), c # <<>>, NEW g, NEW h
  PROVE  Pushed(c, g, h, Append([c EXCEPT ![Len(c)] = g], h))
<1>1. PICK e : e = [c EXCEPT ![Len(c)] = g]
  OBVIOUS
<1>2. Replaced(c, g, e) /\ DOMAIN c = 1..Len(c) /\ Len(c) \in Nat /\ Len(c) >= 1
  BY <1>1, LastReplaced
<1>3. PICK S : e \in Seq(S)
  BY <1>2 DEF Replaced, IsSeq
<1>4. PICK c2 : c2 = Append(e, h)
  OBVIOUS
<1>5. e \in Seq(S \cup {h}) /\ h \in S \cup {h}
  BY <1>3, SeqMonotonic
<1>6. c2 \in Seq(S \cup {h}) /\ Len(c2) = Len(e) + 1 /\ c2[Len(e) + 1] = h
      /\ \A k \in 1..Len(e) : c2[k] = e[k]
  BY <1>4, <1>5, AppendProperties
<1>7. Pushed(c, g, h, c2)
  BY <1>2, <1>6 DEF IsSeq, Replaced, Pushed
<1> QED BY <1>1, <1>4, <1>7

\* c2 is c without its last element, and with g in the place of the one before it.
Popped(c, g, c2) ==
  /\ IsSeq(c2) /\ Len(c2) = Len(c) - 1
  /\ Len(c) > 1 => c2[Len(c) - 1] = g
  /\ \A k \in 1..(Len(c) - 2) : c2[k] = c[k]

LEMMA LastPopped ==
  ASSUME NEW c, IsSeq(c), c # <<>>, NEW g
  PROVE  Popped(c, g, IF Len(c) = 1 THEN <<>> ELSE Append(SubSeq(c, 1, Len(c) - 2), g))
<1>1. PICK S : c \in Seq(S)
  BY DEF IsSeq
<1>2. DOMAIN c = 1..Len(c) /\ Len(c) \in Nat /\ Len(c) >= 1
  BY <1>1, EmptySeq, LenProperties
<1>3. CASE Len(c) = 1
  <2>1. PICK c2 : c2 = <<>>
    OBVIOUS
  <2>2. c2 \in Seq(S) /\ Len(c2) = 0
    BY <2>1, EmptySeq
  <2>3. Popped(c, g, c2)
    BY <1>3, <2>2 DEF Popped, IsSeq
  <2> QED BY <1>3, <2>1, <2>3, Zenon
<1>4. CASE Len(c) > 1
  <2>1. c \in Seq(S \cup {g})
    BY <1>1, SeqMonotonic
  <2>2. PICK e : e = SubSeq(c, 1, Len(c) - 2)
    OBVIOUS
  <2>3. e \in Seq(S \cup {g}) /\ Len(e) = Len(c) - 2 /\ \A k \in 1..(Len(c) - 2) : e[k] = c[k]
    <3>1. Len(c) - 2 \in Int /\ \A k \in 1..(Len(c) - 2) : c[k] \in S \cup {g}
      BY <1>2, <2>1, ElementOfSeq
    <3> QED BY <1>2, <1>4, <2>1, <2>2, <3>1, SubSeqProperties
  <2>4. PICK c2 : c2 = Append(e, g)
    OBVIOUS
  <2>5. c2 \in Seq(S \cup {g}) /\ Len(c2) = Len(e) + 1 /\ c2[Len(e) + 1] = g
        /\ \A k \in 1..Len(e) : c2[k] = e[k]
    BY <2>3, <2>4, AppendProperties
  <2>6. Len(e) = Len(c) - 2 /\ Len(e) + 1 = Len(c) - 1
    BY <1>2, <2>3
  <2>7. Popped(c, g, c2)
    BY <2>3, <2>5, <2>6 DEF Popped, IsSeq
  <2>8. Len(c) # 1
    BY <1>2, <1>4
  <2> QED BY <2>2, <2>4, <2>7, <2>8, Zenon
<1> QED BY <1>2, <1>3, <1>4

LEMMA GrowsItself == ASSUME NEW d PROVE Grows(d, d)
  BY DEF Grows

LEMMA ScopedDeclared ==
  ASSUME NEW c, NEW d, NEW cur, Active(c, d, cur)
  PROVE  \A k \in ScopedIn(c) : c[k].locals.D \in DOMAIN d
  BY DEF ScopedIn, Active, WellFormed

\* The innermost call goes on.
LEMMA GoesOn ==
  ASSUME NEW c, NEW s, NEW d, NEW cur, Coherent(c, s, d, cur), NEW n \in Nat, n = Len(c), n >= 1,
         NEW g, NEW c2, Replaced(c, g, c2),
         NEW d2, Grows(d, d2), Declared(d2), NEW s2, Bound(s2, d2), Len(s2) = Len(s),
         \A k, x : k \in DOMAIN s /\ x \in DOMAIN s2[k] =>
           \/ x \in DOMAIN s[k] /\ s2[k][x] = s[k][x]
           \/ k = Len(s) /\ d2[s2[k][x]].outer = cur,
         WellFormed(g, d2), Ready(g, d2, cur), g.out = c[n].out,
         g.scoped <=> c[n].scoped,
         g.scoped => g.locals.D = c[n].locals.D
  PROVE  Coherent(c2, s2, d2, cur)
<1>1. /\ DOMAIN c = 1..n /\ IsSeq(c2) /\ Len(c2) = n /\ DOMAIN c2 = 1..n
      /\ c2[n] = g /\ \A k \in 1..(n - 1) : c2[k] = c[k]
  BY SeqFacts DEF Replaced, Coherent, Active
<1>2. Active(c2, d2, cur)
  <2>1. \A k \in n..n : k = n
    OBVIOUS
  <2>2. \A k \in n..Len(c2) : WellFormed(c2[k], d2) /\ Ready(c2[k], d2, cur)
    BY <1>1, <2>1
  <2> QED BY <1>1, <2>2, FramesReplaced DEF Coherent
<1>3. \A k \in 1..n : k = n \/ k \in 1..(n - 1)
  OBVIOUS
<1>4. ScopedIn(c2) = ScopedIn(c)
  <2>1. \A k \in 1..n : c2[k].scoped <=> c[k].scoped
    BY <1>1, <1>3
  <2> QED BY <1>1, <2>1, Zenon DEF ScopedIn
<1>5. \A k \in ScopedIn(c) : c2[k].locals.D = c[k].locals.D /\ c[k].locals.D \in DOMAIN d
  <2>1. \A k \in ScopedIn(c) : k \in 1..n /\ c[k].scoped
    BY <1>1 DEF ScopedIn
  <2> QED BY <1>1, <1>3, <2>1, ScopedDeclared DEF Coherent
<1>6. Matches(c2, s2, d2, cur) /\ Holds(c2, s2, d2)
  BY <1>1, <1>4, <1>5, ScopesStay DEF Coherent, Active
<1> QED BY <1>2, <1>6 DEF Coherent

\* Another function is called.
LEMMA Calls ==
  ASSUME NEW c, NEW s, NEW d, NEW cur, Coherent(c, s, d, cur), NEW n \in Nat, n = Len(c), n >= 1,
         NEW g, NEW h, NEW c2, Pushed(c, g, h, c2),
         WellFormed(g, d), Waits(g), g.out = c[n].out,
         g.scoped <=> c[n].scoped, g.locals = c[n].locals,
         WellFormed(h, d), Ready(h, d, cur), ~h.scoped, g.scoped => h.out \in OwnOuts
  PROVE  Coherent(c2, s, d, cur)
<1>1. /\ DOMAIN c = 1..n /\ IsSeq(c2) /\ Len(c2) = n + 1 /\ DOMAIN c2 = 1..(n + 1)
      /\ c2[n] = g /\ c2[n + 1] = h /\ \A k \in 1..(n - 1) : c2[k] = c[k]
  BY SeqFacts DEF Pushed, Coherent, Active
<1>2. Active(c2, d, cur)
  <2>1. Grows(d, d) /\ Ready(g, d, cur)
    BY WaitsReady, GrowsItself
  <2>2. \A k \in n..(n + 1) : k = n \/ k = n + 1
    OBVIOUS
  <2>3. \A k \in n..Len(c2) : WellFormed(c2[k], d) /\ Ready(c2[k], d, cur)
    BY <1>1, <2>1, <2>2
  <2> QED BY <1>1, <2>1, <2>3, FramesReplaced DEF Coherent
<1>3. \A k \in 1..(n + 1) : (k = n /\ k \in 1..n) \/ (k = n + 1 /\ k \notin 1..n)
                            \/ (k \in 1..(n - 1) /\ k \in 1..n)
  OBVIOUS
<1>4. ScopedIn(c2) = ScopedIn(c)
  <2>1. \A k \in 1..(n + 1) : c2[k].scoped <=> k \in 1..n /\ c[k].scoped
    BY <1>1, <1>3
  <2>2. \A k \in 1..n : k \in 1..(n + 1)
    OBVIOUS
  <2> QED BY <1>1, <2>1, <2>2, Zenon DEF ScopedIn
<1>5. \A k \in ScopedIn(c) : c2[k].locals.D = c[k].locals.D /\ c[k].locals.D \in DOMAIN d
  <2>1. \A k \in ScopedIn(c) : k \in 1..n /\ c[k].scoped
    BY <1>1 DEF ScopedIn
  <2>2. \A k \in 1..n : k = n \/ k \in 1..(n - 1)
    OBVIOUS
  <2> QED BY <1>1, <2>1, <2>2, ScopedDeclared DEF Coherent
<1>6. Matches(c2, s, d, cur) /\ Holds(c2, s, d)
  BY <1>1, <1>4, <1>5, GrowsItself, ScopesStay DEF Coherent, Active
<1> QED BY <1>2, <1>6 DEF Coherent

\* The innermost call is left; g is its caller, which has got the results.
LEMMA FramesLeft ==
  ASSUME NEW c, NEW s, NEW d, NEW cur, Coherent(c, s, d, cur), NEW n \in Nat, n = Len(c), n >= 1,
         NEW g, NEW c2, Popped(c, g, c2), NEW cur2,
         n > 1 => /\ WellFormed(g, d) /\ Waits(g) /\ g.out = c[n - 1].out
                  /\ g.scoped <=> c[n - 1].scoped
                  /\ g.scoped => g.locals.D = c[n - 1].locals.D
  PROVE  /\ Active(c2, d, cur2) /\ IsSeq(c2) /\ Len(c2) = n - 1
         /\ ScopedIn(c2) = ScopedIn(c) \ {n}
         /\ \A k \in ScopedIn(c2) : c2[k].locals.D = c[k].locals.D
<1>1. PICK m \in Nat : m = n - 1
  OBVIOUS
<1>2. /\ DOMAIN c = 1..n /\ IsSeq(c2) /\ Len(c2) = m /\ DOMAIN c2 = 1..m
      /\ n > 1 => c2[m] = g
      /\ \A k \in 1..(m - 1) : c2[k] = c[k]
  <2>1. n - 2 = m - 1
    BY <1>1
  <2> QED BY <1>1, <2>1, SeqFacts DEF Popped, Coherent, Active
<1>3. \A k \in 1..m : n > 1 /\ (k = m \/ k \in 1..(m - 1))
  BY <1>1
<1>4. Active(c2, d, cur2)
  <2>1. CASE n = 1
    <3>1. DOMAIN c2 = {}
      BY <1>1, <1>2, <2>1
    <3> QED BY <1>2, <3>1 DEF Active
  <2>2. CASE n > 1
    <3>1. Grows(d, d) /\ Ready(g, d, cur2)
      BY <2>2, WaitsReady, GrowsItself
    <3>2. \A k \in m..m : k = m
      OBVIOUS
    <3>3. \A k \in m..Len(c2) : WellFormed(c2[k], d) /\ Ready(c2[k], d, cur2)
      BY <1>2, <2>2, <3>1, <3>2
    <3>4. m >= 1 /\ m <= Len(c) /\ c2[m].out = c[m].out
      BY <1>1, <1>2, <2>2
    <3> QED BY <1>2, <3>1, <3>3, <3>4, FramesReplaced DEF Coherent
  <2> QED BY <2>1, <2>2
<1>5. ScopedIn(c2) = ScopedIn(c) \ {n}
  <2>1. \A k \in 1..m : c2[k].scoped <=> c[k].scoped
    BY <1>1, <1>2, <1>3
  <2>2. \A k : k \in 1..m <=> k \in 1..n /\ k # n
    BY <1>1
  <2> QED BY <1>2, <2>1, <2>2, Zenon DEF ScopedIn
<1>6. \A k \in ScopedIn(c2) : c2[k].locals.D = c[k].locals.D
  <2>1. \A k \in ScopedIn(c2) : k \in 1..m /\ c2[k].scoped
    BY <1>2 DEF ScopedIn
  <2> QED BY <1>1, <1>2, <1>3, <2>1
<1> QED BY <1>1, <1>2, <1>4, <1>5, <1>6

\* A call that has entered a scope returns.
LEMMA ReturnsScoped ==
  ASSUME NEW c, NEW s, NEW d, NEW cur, Coherent(c, s, d, cur), NEW n \in Nat, n = Len(c), n >= 1,
         NEW g, NEW c2, Popped(c, g, c2), c[n].scoped,
         n > 1 => /\ WellFormed(g, d) /\ Waits(g) /\ g.out = c[n - 1].out
                  /\ g.scoped <=> c[n - 1].scoped
                  /\ g.scoped => g.locals.D = c[n - 1].locals.D
  PROVE  Coherent(c2, SubSeq(s, 1, Len(s) - 1), d, d[cur].outer)
<1>1. PICK s2, cur2 : s2 = SubSeq(s, 1, Len(s) - 1) /\ cur2 = d[cur].outer
  OBVIOUS
<1>2. /\ Active(c2, d, cur2) /\ IsSeq(c2) /\ Len(c2) = n - 1
      /\ ScopedIn(c2) = ScopedIn(c) \ {n}
      /\ \A k \in ScopedIn(c2) : c2[k].locals.D = c[k].locals.D
  BY FramesLeft
<1>3. n \in ScopedIn(c)
  BY SeqFacts DEF ScopedIn, Coherent, Active
<1>4. /\ IsSeq(s2) /\ DOMAIN s2 = 1..(Len(s) - 1) /\ Len(s2) = Len(s) - 1
      /\ \A k \in 1..(Len(s) - 1) : s2[k] = s[k] /\ k \in DOMAIN s
  <2>1. PICK S : s \in Seq(S)
    BY DEF Coherent, Bound, IsSeq
  <2>2. Len(s) \in Nat /\ Len(s) >= 1 /\ DOMAIN s = 1..Len(s)
    BY <2>1, ScopedFinite, SeqFacts DEF Coherent, Active, Bound, Matches
  <2>3. Len(s) - 1 \in Int /\ \A k \in 1..(Len(s) - 1) : s[k] \in S
    BY <2>1, <2>2, ElementOfSeq
  <2>4. s2 \in Seq(S) /\ Len(s2) = Len(s) - 1 /\ \A k \in 1..(Len(s) - 1) : s2[k] = s[k]
    BY <1>1, <2>1, <2>2, <2>3, SubSeqProperties
  <2> QED BY <2>2, <2>4, SeqFacts DEF IsSeq
<1>5. Matches(c2, s2, d, d[cur].outer) /\ Holds(c2, s2, d)
  <2>1. /\ IsSeq(c) /\ Bound(s, d) /\ Matches(c, s, d, cur) /\ Holds(c, s, d)
    BY DEF Coherent, Active
  <2>2. /\ Len(c) > 0 /\ Len(c2) = Len(c) - 1 /\ Len(c) \in ScopedIn(c)
        /\ ScopedIn(c2) = ScopedIn(c) \ {Len(c)}
    BY <1>2, <1>3
  <2> QED BY <1>2, <1>4, <2>1, <2>2, ScopeCloses
<1>6. Bound(s2, d)
  <2>1. \A k \in DOMAIN s2 : s2[k] = s[k] /\ k \in DOMAIN s
    BY <1>4
  <2> QED BY <1>4, <2>1 DEF Coherent, Bound
<1> QED BY <1>1, <1>2, <1>5, <1>6 DEF Coherent

\* Another call returns.
LEMMA ReturnsPlain ==
  ASSUME NEW c, NEW s, NEW d, NEW cur, Coherent(c, s, d, cur), NEW n \in Nat, n = Len(c), n >= 1,
         NEW g, NEW c2, Popped(c, g, c2), ~c[n].scoped,
         n > 1 => /\ WellFormed(g, d) /\ Waits(g) /\ g.out = c[n - 1].out
                  /\ g.scoped <=> c[n - 1].scoped
                  /\ g.scoped => g.locals.D = c[n - 1].locals.D
  PROVE  Coherent(c2, s, d, cur)
<1>1. /\ Active(c2, d, cur) /\ IsSeq(c2)
      /\ ScopedIn(c2) = ScopedIn(c) \ {n}
      /\ \A k \in ScopedIn(c2) : c2[k].locals.D = c[k].locals.D
  BY FramesLeft
<1>2. ScopedIn(c2) = ScopedIn(c)
  <2>1. n \notin ScopedIn(c)
    BY DEF ScopedIn
  <2> QED BY <1>1, <2>1
<1>3. \A k \in ScopedIn(c) : c2[k].locals.D = c[k].locals.D /\ c[k].locals.D \in DOMAIN d
  BY <1>1, <1>2, ScopedDeclared DEF Coherent
<1>4. Matches(c2, s, d, cur) /\ Holds(c2, s, d)
  BY <1>1, <1>2, <1>3, GrowsItself, ScopesStay DEF Coherent, Active
<1> QED BY <1>1, <1>4 DEF Coherent

\* The innermost call enters the scope of its declaration D.
LEMMA EntersScope ==
  ASSUME NEW c, NEW s, NEW d, NEW cur, Coherent(c, s, d, cur), NEW n \in Nat, n = Len(c), n >= 1,
         ~c[n].scoped, NEW D, D \in DOMAIN d, d[D].outer = cur,
         NEW g, WellFormed(g, d), g.scoped, g.locals.D = D, g.out = c[n].out,
         NEW c2, Replaced(c, g, c2)
  PROVE  Coherent(c2, Append(s, [x \in {} |-> Null]), d, D)
<1>1. /\ DOMAIN c = 1..n /\ IsSeq(c2) /\ Len(c2) = n /\ DOMAIN c2 = 1..n
      /\ c2[n] = g /\ \A k \in 1..(n - 1) : c2[k] = c[k]
  BY SeqFacts DEF Replaced, Coherent, Active
<1>2. Active(c2, d, D)
  <2>1. Grows(d, d) /\ Ready(g, d, D)
    BY WaitsReady, GrowsItself DEF Waits
  <2>2. \A k \in n..n : k = n
    OBVIOUS
  <2>3. \A k \in n..Len(c2) : WellFormed(c2[k], d) /\ Ready(c2[k], d, D)
    BY <1>1, <2>1, <2>2
  <2> QED BY <1>1, <2>1, <2>3, FramesReplaced DEF Coherent
<1>3. \A k \in 1..n : k = n \/ k \in 1..(n - 1)
  OBVIOUS
<1>4. n \notin ScopedIn(c) /\ ScopedIn(c2) = ScopedIn(c) \cup {n}
  <2>1. \A k \in 1..n : c2[k].scoped <=> (k = n \/ c[k].scoped)
    BY <1>1, <1>3
  <2> QED BY <1>1, <2>1 DEF ScopedIn
<1>5. \A k \in ScopedIn(c) : c2[k].locals.D = c[k].locals.D
  <2>1. \A k \in ScopedIn(c) : k \in 1..n /\ k # n
    BY <1>1, <1>4 DEF ScopedIn
  <2> QED BY <1>1, <1>3, <2>1
<1>6. PICK s2, e : s2 = Append(s, e) /\ e = [x \in {} |-> Null]
  OBVIOUS
<1>7. /\ IsSeq(s2) /\ Len(s2) = Len(s) + 1 /\ DOMAIN s2 = 1..(Len(s) + 1)
      /\ DOMAIN s2[Len(s) + 1] = {}
      /\ \A k \in 1..Len(s) : s2[k] = s[k]
      /\ DOMAIN s = 1..Len(s) /\ Len(s) \in Nat
  <2>1. PICK S : s \in Seq(S)
    BY DEF Coherent, Bound, IsSeq
  <2>2. s \in Seq(S \cup {e}) /\ e \in S \cup {e}
    BY <2>1, SeqMonotonic
  <2>3. s2 \in Seq(S \cup {e}) /\ Len(s2) = Len(s) + 1 /\ s2[Len(s) + 1] = e
        /\ \A k \in 1..Len(s) : s2[k] = s[k]
    BY <1>6, <2>2, AppendProperties
  <2>4. DOMAIN e = {}
    BY <1>6
  <2>5. IsSeq(s2) /\ IsSeq(s)
    BY <2>2, <2>3 DEF IsSeq
  <2> QED BY <2>3, <2>4, <2>5, SeqFacts
<1>8. Matches(c2, s2, d, D) /\ Holds(c2, s2, d)
  <2>1. /\ IsSeq(c) /\ Bound(s, d) /\ Matches(c, s, d, cur) /\ Holds(c, s, d)
    BY DEF Coherent, Active
  <2>2. /\ Len(c) > 0 /\ Len(c2) = Len(c) /\ Len(c) \notin ScopedIn(c)
        /\ ScopedIn(c2) = ScopedIn(c) \cup {Len(c)} /\ c2[Len(c)].locals.D = D
    BY <1>1, <1>4
  <2> QED BY <1>1, <1>5, <1>7, <2>1, <2>2, ScopeOpens
<1>9. Bound(s2, d)
  <2>1. \A k \in DOMAIN s2 : (DOMAIN s2[k] = {}) \/ (k \in DOMAIN s /\ s2[k] = s[k])
    BY <1>7
  <2>2. \A k \in DOMAIN s2 : \A x \in DOMAIN s2[k] : s2[k][x] \in DOMAIN d
    BY <2>1 DEF Coherent, Bound
  <2> QED BY <1>7, <2>2 DEF Bound
<1> QED BY <1>2, <1>6, <1>8, <1>9 DEF Coherent

-----------------------------------------------------------------------------
(* The chain of scopes.                                                     *)

\* CurrentScope and its parents are a sequence.
Chain == \E S : scopes \in Seq(S)

\* What NeverRebound says of a step.
Keeps ==
  \A k \in DOMAIN scopes : Len(scopes') >= k =>
    \A n \in DOMAIN scopes[k] : n \in DOMAIN scopes'[k] /\ scopes'[k][n] = scopes[k][n]

\* The innermost scope with the bindings of b that are new.
Extended(b) ==
  [scopes EXCEPT ![Len(scopes)] =
     [n \in DOMAIN @ \cup DOMAIN b |-> IF n \in DOMAIN @ THEN @[n] ELSE b[n]]]

(* The four things a step does to the chain. *)

LEMMA Stays == ASSUME Chain, scopes' = scopes PROVE Chain' /\ Keeps
  BY DEF Chain, Keeps

LEMMA Extends == ASSUME Chain, NEW b, scopes' = Extended(b) PROVE Chain' /\ Keeps
<1>1. PICK S : scopes \in Seq(S)
  BY DEF Chain
<1>2. PICK e : e = [n \in DOMAIN scopes[Len(scopes)] \cup DOMAIN b |->
                      IF n \in DOMAIN scopes[Len(scopes)] THEN scopes[Len(scopes)][n] ELSE b[n]]
  OBVIOUS
<1>3. scopes' = [scopes EXCEPT ![Len(scopes)] = e]
  BY <1>2 DEF Extended
<1>4. /\ DOMAIN scopes = 1..Len(scopes) /\ Len(scopes) \in Nat
      /\ \A k \in DOMAIN scopes : scopes[k] \in S
  BY <1>1, ElementOfSeq
<1>5. DOMAIN scopes' = 1..Len(scopes)
  BY <1>3, <1>4
<1>6. \A k \in DOMAIN scopes : scopes'[k] = IF k = Len(scopes) THEN e ELSE scopes[k]
  BY <1>3, <1>4
<1>7. Chain'
  <2>1. scopes' \in [1..Len(scopes) -> S \cup {e}]
    BY <1>3, <1>4, <1>6
  <2>2. scopes' \in Seq(S \cup {e})
    BY <1>4, <2>1, SeqDef
  <2> QED BY <2>2 DEF Chain
<1>8. Keeps
  <2>1. SUFFICES ASSUME NEW k \in DOMAIN scopes, NEW n \in DOMAIN scopes[k]
                 PROVE  n \in DOMAIN scopes'[k] /\ scopes'[k][n] = scopes[k][n]
    BY DEF Keeps
  <2>2. CASE k = Len(scopes)
    BY <1>2, <1>6, <2>2
  <2>3. CASE k # Len(scopes)
    BY <1>6, <2>3
  <2> QED BY <2>2, <2>3
<1> QED BY <1>7, <1>8

LEMMA Opens == ASSUME Chain, NEW d, enterScope(d) PROVE Chain' /\ Keeps
<1>1. PICK S : scopes \in Seq(S)
  BY DEF Chain
<1>2. PICK e : e = [n \in {} |-> Null]
  OBVIOUS
<1>3. scopes' = Append(scopes, e) /\ e \in S \cup {e} /\ scopes \in Seq(S \cup {e})
  BY <1>1, <1>2, SeqMonotonic DEF enterScope
<1>4. scopes' \in Seq(S \cup {e}) /\ \A k \in DOMAIN scopes : scopes'[k] = scopes[k]
  BY <1>3
<1> QED BY <1>4 DEF Chain, Keeps

LEMMA Closes == ASSUME Chain, leaveScope PROVE Chain' /\ Keeps
<1>1. PICK S : scopes \in Seq(S)
  BY DEF Chain
<1>2. PICK n : n = Len(scopes) - 1
  OBVIOUS
<1>3. scopes' = SubSeq(scopes, 1, n)
  BY <1>2 DEF leaveScope
<1>4. Len(scopes) \in Nat /\ DOMAIN scopes = 1..Len(scopes) /\ n \in Int
  BY <1>1, <1>2
<1>5. scopes' \in Seq(S) /\ \A k \in 1..Len(scopes') : scopes'[k] = scopes[k]
  <2>1. \A k \in 1..n : scopes[k] \in S
    BY <1>1, <1>2, <1>4, ElementOfSeq
  <2> QED BY <1>3, <1>4, <2>1, SubSeqProperties
<1> QED BY <1>4, <1>5 DEF Chain, Keeps

(* The semantic actions. *)

LEMMA InsertKeeps == ASSUME Chain, NEW ds, insert(ds) PROVE Chain' /\ Keeps
<1>1. PICK b : scopes' = Extended(b)
  BY DEF insert, Extended
<1> QED BY <1>1, Extends

LEMMA DeclareTypedKeeps == ASSUME Chain, NEW ds, NEW D, DeclareTyped(ds, D) PROVE Chain' /\ Keeps
  BY InsertKeeps, Stays DEF DeclareTyped

(* The steps of the parser. *)

LEMMA LeaveKeeps == ASSUME Chain, NEW failed, Leave(failed) PROVE Chain' /\ Keeps
<1>1. leaveScope \/ scopes' = scopes
  BY ZenonT(30) DEF Leave
<1> QED BY <1>1, Stays, Closes

LEMMA EvaluatesStays ==
  ASSUME NEW op, NEW locals, NEW error, Evaluates(op, locals, error)
  PROVE  scopes' = scopes
  BY DEF Evaluates

LEMMA DeclarationKeeps == ASSUME Chain, Declaration PROVE Chain' /\ Keeps
<1>1. CASE \E ds : insert(ds)
  BY <1>1, InsertKeeps
<1>2. CASE \E ds, D : DeclareTyped(ds, D)
  BY <1>2, DeclareTypedKeeps
<1>3. CASE scopes' = scopes
  BY <1>3, Stays
<1>4. \/ \E ds : insert(ds)
      \/ \E ds, D : DeclareTyped(ds, D)
      \/ scopes' = scopes
  <2>1. CASE Declares("constant", v, actOnConstantDeclaration(v.Name, v.E))
    BY <2>1, Zenon DEF Declares, actOnConstantDeclaration
  <2>2. CASE Declares("alias", v, actOnTypeDeclaration("Alias", v.Name, v.D))
    BY <2>2, Zenon DEF Declares, actOnTypeDeclaration
  <2>3. CASE Declares("pointer", v, actOnTypeDeclaration("Pointer", v.Name, v.D))
    BY <2>3, Zenon DEF Declares, actOnTypeDeclaration
  <2>4. CASE Declares("record", v, actOnRecordTypeDeclaration(v.Name, v.Fields))
    <3>1. \/ UNCHANGED <<decls, scopes>>
          \/ insert(<<[Decl("Record", v.Name, current) EXCEPT !.fields = v.Fields]>>)
      BY <2>4, Zenon DEF Declares, actOnRecordTypeDeclaration
    <3> QED BY <3>1, Zenon
  <2>5. CASE Declares("variable", v, actOnVariableDeclaration(v.Ids, v.D))
    BY <2>5, Zenon DEF Declares, actOnVariableDeclaration
  <2>6. CASE Evaluates("field", [v EXCEPT !.Fields = @ \o FieldsOf(v.Ids, v.D)],
                       ~IsType(v.D) /\ v.Ids # <<>>)
    BY <2>6, Zenon DEF Evaluates
  <2> QED BY <2>1, <2>2, <2>3, <2>4, <2>5, <2>6, Zenon DEF Declaration
<1> QED BY <1>1, <1>2, <1>3, <1>4

LEMMA ProcedureKeeps == ASSUME Chain, Procedure PROVE Chain' /\ Keeps
<1>1. CASE \E ds : insert(ds)
  BY <1>1, InsertKeeps
<1>2. CASE \E ds, D : DeclareTyped(ds, D)
  BY <1>2, DeclareTypedKeeps
<1>3. CASE scopes' = scopes
  BY <1>3, Stays
<1>4. \/ \E ds : insert(ds)
      \/ \E ds, D : DeclareTyped(ds, D)
      \/ scopes' = scopes
  BY Zenon DEF Procedure, Declares, Evaluates, actOnProcedureDeclaration,
     actOnFormalParameterDeclaration
<1> QED BY <1>1, <1>2, <1>3, <1>4

LEMMA AnalyseKeeps == ASSUME Chain, Analyse PROVE Chain' /\ Keeps
<1>1. CASE Declaration
  BY <1>1, DeclarationKeeps
<1>2. CASE Procedure
  BY <1>2, ProcedureKeeps
<1>3. CASE EnterDeclScope
  <2>1. enterScope(v.D)
    BY <1>3 DEF EnterDeclScope
  <2> QED BY <2>1, Opens
<1>4. CASE TakeToken \/ LookUp \/ Operand \/ Operation \/ Statement \/ Module
  <2>1. TakeToken => scopes' = scopes
    BY Zenon DEF TakeToken, Evaluates
  <2>2. LookUp => scopes' = scopes
    BY Zenon DEF LookUp, Evaluates
  <2>3. Operand => scopes' = scopes
    BY Zenon DEF Operand, Evaluates
  <2>4. Operation => scopes' = scopes
    BY Zenon DEF Operation, Evaluates
  <2>5. Statement => scopes' = scopes
    BY Zenon DEF Statement, Evaluates
  <2>6. Module => scopes' = scopes
    BY Zenon DEF Module, Declares, Evaluates
  <2> QED BY <1>4, <2>1, <2>2, <2>3, <2>4, <2>5, <2>6, Stays, Zenon
<1> QED BY <1>1, <1>2, <1>3, <1>4, Zenon DEF Analyse

LEMMA StepKeeps == ASSUME Chain, [Next]_vars PROVE Chain' /\ Keeps
<1>1. CASE DoReturn \/ Resynchronise
  <2>1. Leave(FALSE)
    BY <1>1 DEF DoReturn, Resynchronise
  <2> QED BY <2>1, LeaveKeeps
<1>2. CASE Skip
  <2>1. Leave(TRUE) \/ scopes' = scopes
    BY <1>2, Zenon DEF Skip, semaVars
  <2> QED BY <2>1, LeaveKeeps, Stays
<1>3. CASE Analyse
  BY <1>3, AnalyseKeeps
<1>4. CASE \/ DoAdvance \/ DoExpect \/ DoConsume \/ DoWhen \/ DoWhile \/ DoCall \/ DoFail \/ Crash
           \/ Halt \/ UNCHANGED vars
  <2>1. DoAdvance \/ DoConsume \/ DoWhen \/ DoWhile \/ DoCall \/ DoFail => scopes' = scopes
    BY Zenon DEF DoAdvance, DoConsume, DoWhen, DoWhile, DoCall, DoFail, semaVars
  <2>2. DoExpect \/ Crash \/ Halt \/ UNCHANGED vars => scopes' = scopes
    BY Zenon DEF DoExpect, Crash, Halt, vars, semaVars
  <2> QED BY <1>4, <2>1, <2>2, Stays, Zenon
<1> QED BY <1>1, <1>2, <1>3, <1>4, Zenon DEF Next, Step

\* No text, and no recovery from its errors, makes a name mean another declaration
\* while its scope is open: what an earlier statement was checked against is what the
\* code generator finds (Scope.cpp:6-9, Sema.cpp:7-22).
THEOREM NamesNeverRebound == Spec => NeverRebound
<1>1. ASSUME Init PROVE Chain
  <2>1. PICK e : scopes = <<e>>
    BY <1>1, Zenon DEF Init, initialize, InitialScopes
  <2>2. <<e>> \in Seq({e})
    OBVIOUS
  <2> QED BY <2>1, <2>2, Zenon DEF Chain
<1>2. Spec => []Chain
  BY <1>1, StepKeeps, PTL DEF Spec
<1>3. ASSUME Chain, [Next]_vars PROVE [Keeps]_vars
  BY <1>3, StepKeeps
<1>4. [Keeps]_vars => [\A k \in DOMAIN scopes : Len(scopes') >= k =>
         \A n \in DOMAIN scopes[k] : n \in DOMAIN scopes'[k] /\ scopes'[k][n] = scopes[k][n]]_vars
  BY DEF Keeps
<1> QED BY <1>2, <1>3, <1>4, PTL DEF Spec, NeverRebound

-----------------------------------------------------------------------------
(* The steps.                                                               *)

Coherence == Coherent(calls, scopes, decls, current)

\* The three steps with which a function enters the scope of its declaration.
Opening == {"newModule", "newProcedure", "enterScope"}

LEMMA NextOperation ==
  ASSUME NEW f, NEW d, WellFormed(f, d), f.rest # <<>>, NEW o, o = f.rest[1].op
  PROVE  /\ o \notin Opening => /\ f.scoped => Tail(f.rest) \in Seq(Own)
                                /\ ~f.scoped => Left(Tail(f.rest))
         /\ o \in {"newModule", "newProcedure"} => ~f.scoped /\ Enters(Tail(f.rest))
         /\ o = "enterScope" => ~f.scoped /\ Enters(f.rest)
         /\ o = "lookup" => ~f.scoped /\ Looks(f.rest)
         /\ o \in {"when", "while", "call"} =>
              IF f.scoped THEN f.rest \in Seq(Own) ELSE f.rest \in Seq(Inner)
<1>1. CASE f.scoped
  <2>1. f.rest \in Seq(Own) /\ Tail(f.rest) \in Seq(Own) /\ f.rest[1] \in Own
    BY <1>1, TailOf, ElementOfSeq DEF WellFormed
  <2>2. o \in OwnActs \cup {"expect", "consume", "call", "when", "while"}
    BY <2>1, OwnSound DEF Sound
  <2>3. o \notin Opening /\ o # "lookup"
    BY <2>2 DEF OwnActs, Opening
  <2> QED BY <1>1, <2>1, <2>3 DEF Opening
<1>2. CASE ~f.scoped
  <2>1. CASE f.rest \in Seq(Inner)
    <3>1. Tail(f.rest) \in Seq(Inner) /\ f.rest[1] \in Inner
      BY <2>1, TailOf, ElementOfSeq
    <3>2. o \in InnerActs \cup {"expect", "consume", "call", "when", "while"}
      BY <3>1, InnerSound DEF Sound
    <3>3. o \notin Opening /\ o # "lookup"
      BY <3>2 DEF InnerActs, MildActs, UserActs, Opening
    <3> QED BY <1>2, <2>1, <3>1, <3>3 DEF Opening, Left
  <2>2. CASE Begins(f.rest)
    BY <1>2, <2>2 DEF Begins, Opening, Left
  <2>3. CASE Names_(f.rest)
    BY <1>2, <2>3 DEF Names_, Opening, Left
  <2>4. CASE Creates(f.rest)
    BY <1>2, <2>4 DEF Creates, Opening
  <2>5. CASE Enters(f.rest)
    BY <1>2, <2>5 DEF Enters, Opening
  <2>6. CASE Asks(f.rest)
    BY <1>2, <2>6 DEF Asks, Expect, Opening, Left
  <2>7. CASE Looks(f.rest)
    BY <1>2, <2>7, Levels DEF Looks, Opening, Left
  <2> QED BY <1>2, <2>1, <2>2, <2>3, <2>4, <2>5, <2>6, <2>7 DEF WellFormed, Left
<1> QED BY <1>1, <1>2

LEMMA TopFrame ==
  ASSUME Coherence, calls # <<>>
  PROVE  /\ DOMAIN calls = 1..Len(calls) /\ Len(calls) \in Nat /\ Len(calls) >= 1
         /\ WellFormed(Top, decls) /\ Ready(Top, decls, current)
         /\ IsSeq(calls)
<1>1. IsSeq(calls)
  BY DEF Coherence, Coherent, Active
<1>2. DOMAIN calls = 1..Len(calls) /\ Len(calls) \in Nat /\ Len(calls) >= 1
  BY <1>1, LastReplaced
<1> QED BY <1>1, <1>2 DEF Coherence, Coherent, Active, Top

(* What steps do to the declarations and the scopes that are open. *)

Adds ==
  /\ Grows(decls, decls') /\ Declared(decls') /\ Bound(scopes', decls')
  /\ Len(scopes') = Len(scopes)
  /\ \A k, x : k \in DOMAIN scopes /\ x \in DOMAIN scopes'[k] =>
       \/ x \in DOMAIN scopes[k] /\ scopes'[k][x] = scopes[k][x]
       \/ k = Len(scopes) /\ decls'[scopes'[k][x]].outer = current

LEMMA AddsNone == ASSUME Coherence, decls' = decls, scopes' = scopes PROVE Adds
  BY DEF Adds, Coherence, Coherent, Grows

\* Declarations that are all enclosed by the current one.
Fresh(ds) == IsSeq(ds) /\ \A i \in DOMAIN ds : DOMAIN ds[i] = DeclFields /\ ds[i].outer = current

LEMMA Appended ==
  ASSUME Coherence, NEW ds, Fresh(ds), decls' = decls \o ds
  PROVE  /\ Grows(decls, decls') /\ Declared(decls') /\ Len(decls) \in Nat
         /\ \A i \in DOMAIN ds : /\ Len(decls) + i \in DOMAIN decls'
                                 /\ decls'[Len(decls) + i].outer = current
<1>1. PICK S : decls \in Seq(S)
  BY DEF Coherence, Coherent, Declared, IsSeq
<1>2. PICK T : ds \in Seq(T)
  BY DEF Fresh, IsSeq
<1>3. decls \in Seq(S \cup T) /\ ds \in Seq(S \cup T)
  BY <1>1, <1>2, SeqMonotonic
<1>4. PICK d2 : d2 = decls \o ds
  OBVIOUS
<1>5. /\ d2 \in Seq(S \cup T) /\ Len(d2) = Len(decls) + Len(ds)
      /\ \A i \in 1..Len(d2) : d2[i] = IF i <= Len(decls) THEN decls[i] ELSE ds[i - Len(decls)]
  BY <1>3, <1>4, ConcatProperties
<1>6. PICK m \in Nat, n \in Nat : m = Len(decls) /\ n = Len(ds)
  BY <1>3, LenProperties
<1>7. DOMAIN d2 = 1..(m + n) /\ DOMAIN decls = 1..m /\ DOMAIN ds = 1..n
  BY <1>3, <1>5, <1>6, LenProperties
<1>8. \A i \in 1..m : i \in 1..(m + n) /\ d2[i] = decls[i]
  BY <1>5, <1>6, <1>7
<1>9. \A i \in 1..n : m + i \in 1..(m + n) /\ d2[m + i] = ds[i]
  <2> SUFFICES ASSUME NEW i \in 1..n PROVE m + i \in 1..(m + n) /\ d2[m + i] = ds[i]
    OBVIOUS
  <2>1. m + i \in 1..(m + n) /\ ~(m + i <= m) /\ (m + i) - m = i
    OBVIOUS
  <2> QED BY <1>5, <1>6, <1>7, <2>1
<1>10. \A j \in 1..(m + n) : j \in 1..m \/ \E i \in 1..n : j = m + i
  <2> SUFFICES ASSUME NEW j \in 1..(m + n), j \notin 1..m PROVE \E i \in 1..n : j = m + i
    OBVIOUS
  <2>1. j - m \in 1..n /\ j = m + (j - m)
    OBVIOUS
  <2> QED BY <2>1
<1>11. Grows(decls, d2)
  BY <1>7, <1>8 DEF Grows
<1>12. Declared(d2)
  <2>1. \A i \in 1..m : DOMAIN decls[i] = DeclFields
    BY <1>7 DEF Coherence, Coherent, Declared
  <2>2. \A i \in 1..n : DOMAIN ds[i] = DeclFields
    BY <1>7 DEF Fresh
  <2>3. ASSUME NEW j \in 1..(m + n) PROVE DOMAIN d2[j] = DeclFields
    <3>1. CASE j \in 1..m
      BY <1>8, <2>1, <3>1
    <3>2. CASE \E i \in 1..n : j = m + i
      BY <1>9, <2>2, <3>2
    <3> QED BY <1>10, <3>1, <3>2
  <2> QED BY <1>5, <1>7, <2>3 DEF Declared, IsSeq
<1>13. \A i \in 1..n : d2[m + i].outer = current
  BY <1>7, <1>9 DEF Fresh
<1> QED BY <1>4, <1>6, <1>7, <1>9, <1>11, <1>12, <1>13

LEMMA AddsInserted == ASSUME Coherence, NEW ds, Fresh(ds), insert(ds) PROVE Adds
<1> DEFINE new == Inserted(ds)
           position(n) == CHOOSE i \in new : ds[i].name = n
           bound == [n \in {ds[i].name : i \in new} |-> Len(decls) + position(n)]
<1>1. PICK b : b = bound
  OBVIOUS
<1>2. decls' = decls \o ds
  BY Zenon DEF insert
<1>3. scopes' = Extended(b)
  <2>1. scopes' = Extended(bound)
    BY DEF insert, Extended
  <2> HIDE DEF bound
  <2> QED BY <1>1, <2>1
<1>4. \A n \in DOMAIN b : \E i \in DOMAIN ds : b[n] = Len(decls) + i
  <2> SUFFICES ASSUME NEW n \in DOMAIN b PROVE \E i \in DOMAIN ds : b[n] = Len(decls) + i
    OBVIOUS
  <2>1. PICK j \in new : ds[j].name = n
    BY <1>1
  <2>2. position(n) \in new
    BY <2>1
  <2>3. new \subseteq DOMAIN ds
    BY DEF Inserted
  <2>4. b[n] = Len(decls) + position(n)
    BY <1>1
  <2> QED BY <2>2, <2>3, <2>4
<1>5. /\ Grows(decls, decls') /\ Declared(decls')
      /\ \A n \in DOMAIN b : b[n] \in DOMAIN decls' /\ decls'[b[n]].outer = current
  BY <1>2, <1>4, Appended
<1>6. PICK S : scopes \in Seq(S)
  BY DEF Coherence, Coherent, Bound, IsSeq
<1>7. PICK l \in Nat : l = Len(scopes) /\ l >= 1 /\ DOMAIN scopes = 1..l
  BY <1>6, ScopedFinite, SeqFacts DEF Coherence, Coherent, Active, Bound, Matches
<1>8. PICK e : e = [n \in DOMAIN scopes[l] \cup DOMAIN b |->
                      IF n \in DOMAIN scopes[l] THEN scopes[l][n] ELSE b[n]]
  OBVIOUS
<1>9. PICK s2 : s2 = [scopes EXCEPT ![l] = e]
  OBVIOUS
<1>10. scopes' = s2
  BY <1>3, <1>7, <1>8, <1>9 DEF Extended
<1>11. IsSeq(s2) /\ Len(s2) = l /\ \A k \in 1..l : s2[k] = IF k = l THEN e ELSE scopes[k]
  <2>1. scopes \in Seq(S \cup {e})
    BY <1>6, SeqMonotonic
  <2>2. s2 \in Seq(S \cup {e}) /\ Len(s2) = l
        /\ \A k \in 1..l : s2[k] = IF k = l THEN e ELSE scopes[k]
    BY <1>7, <1>9, <2>1, ExceptSeq
  <2> QED BY <2>2 DEF IsSeq
<1>12. DOMAIN s2 = 1..l
  BY <1>11, SeqFacts
<1>13. Bound(scopes, decls)
  BY DEF Coherence, Coherent
<1>14. ASSUME NEW k \in 1..l, NEW x \in DOMAIN s2[k]
       PROVE  /\ s2[k][x] \in DOMAIN decls'
              /\ \/ x \in DOMAIN scopes[k] /\ s2[k][x] = scopes[k][x]
                 \/ k = l /\ decls'[s2[k][x]].outer = current
  <2>1. CASE k = l
    <3>1. s2[k] = e
      BY <1>11, <2>1
    <3>2. CASE x \in DOMAIN scopes[l]
      <4>1. s2[k][x] = scopes[k][x]
        BY <1>8, <2>1, <3>1, <3>2
      <4> QED BY <1>5, <1>7, <1>13, <2>1, <3>2, <4>1 DEF Bound, Grows
    <3>3. CASE x \notin DOMAIN scopes[l]
      <4>1. x \in DOMAIN b /\ s2[k][x] = b[x]
        BY <1>8, <1>14, <3>1, <3>3
      <4> QED BY <1>5, <2>1, <4>1
    <3> QED BY <3>2, <3>3
  <2>2. CASE k # l
    <3>1. s2[k] = scopes[k]
      BY <1>11, <2>2
    <3> QED BY <1>5, <1>7, <1>13, <1>14, <3>1 DEF Bound, Grows
  <2> QED BY <2>1, <2>2
<1>15. Bound(s2, decls')
  BY <1>11, <1>12, <1>14 DEF Bound
<1> QED BY <1>5, <1>7, <1>10, <1>11, <1>14, <1>15 DEF Adds

LEMMA AddsTyped ==
  ASSUME Coherence, NEW ds, Fresh(ds), NEW D, DeclareTyped(ds, D)
  PROVE  Adds
  BY AddsInserted, AddsNone DEF DeclareTyped

LEMMA AddsHeading ==
  ASSUME Coherence, NEW P, NEW params, NEW Ret, actOnProcedureHeading(P, params, Ret),
         scopes' = scopes
  PROVE  Adds
<1>1. PICK S : decls \in Seq(S)
  BY DEF Coherence, Coherent, Declared, IsSeq
<1>2. PICK t : decls' = [decls EXCEPT ![P].params = params, ![P].type = t]
  <2>1. PICK t : t = IF Ret = Null \/ IsType(Ret) THEN Ret ELSE decls[P].type
    OBVIOUS
  <2> QED BY <2>1 DEF actOnProcedureHeading
<1>3. \A i \in DOMAIN decls : DOMAIN decls[i] = DeclFields
  BY DEF Coherence, Coherent, Declared
<1>4. /\ DOMAIN decls' = DOMAIN decls
      /\ \A i \in DOMAIN decls : DOMAIN decls'[i] = DeclFields /\ decls'[i].outer = decls[i].outer
  BY <1>2, <1>3 DEF DeclFields
<1>5. IsSeq(decls')
  <2>1. Len(decls) \in Nat /\ DOMAIN decls = 1..Len(decls)
    BY <1>1
  <2>2. PICK d2 : d2 = decls'
    OBVIOUS
  <2>3. PICK T : T = {d2[i] : i \in 1..Len(decls)}
    OBVIOUS
  <2>4. d2 \in [1..Len(decls) -> T]
    BY <1>2, <1>4, <2>1, <2>2, <2>3
  <2>5. d2 \in Seq(T)
    BY <2>1, <2>4, SeqDef
  <2> QED BY <2>2, <2>5 DEF IsSeq
<1>6. Bound(scopes, decls)
  BY DEF Coherence, Coherent
<1> QED BY <1>4, <1>5, <1>6 DEF Adds, Grows, Declared, Bound

(* The instruction of the innermost call is done. *)

LEMMA DoneCoherent ==
  ASSUME Coherence, NEW op, Doing(op), op \notin Opening, NEW locals, Done(locals),
         DOMAIN locals = DOMAIN Locals, IsSeq(locals.Ids), op # "lookup" => locals.D = v.D,
         Adds, current' = current
  PROVE  Coherence'
<1>1. PICK n \in Nat : n = Len(calls) /\ n >= 1
  BY TopFrame DEF Doing
<1>2. PICK f, g : f = Top /\ g = [f EXCEPT !.rest = Tail(f.rest), !.locals = locals]
  OBVIOUS
<1>3. WellFormed(f, decls) /\ f = calls[n] /\ f.rest # <<>> /\ op = f.rest[1].op
  BY <1>1, <1>2, TopFrame DEF Doing, Top
<1>4. /\ DOMAIN g = DOMAIN f /\ g.rest = Tail(f.rest) /\ g.locals = locals
      /\ g.out = f.out /\ g.scoped = f.scoped
  BY <1>2, <1>3 DEF WellFormed
<1>5. f.scoped => locals.D = f.locals.D
  BY <1>2, <1>3, NextOperation DEF v
<1>6. WellFormed(g, decls)
  BY <1>3, <1>4, <1>5, NextOperation DEF WellFormed
<1>7. WellFormed(g, decls')
  BY <1>6, WellFormedGrows DEF Adds
<1>8. Ready(g, decls', current)
  BY <1>3, <1>4, NextOperation, LeftEntersNot DEF Ready, Left
<1>9. Replaced(calls, g, calls')
  <2>1. calls' = [calls EXCEPT ![Len(calls)] = g]
    BY <1>2 DEF Done, SetTop
  <2> QED BY <2>1, LastReplaced, TopFrame DEF Doing
<1>10. Coherent(calls', scopes', decls', current)
  <2>1. /\ g.out = calls[n].out /\ (g.scoped <=> calls[n].scoped)
        /\ g.scoped => g.locals.D = calls[n].locals.D
    BY <1>3, <1>4, <1>5
  <2>2. Coherent(calls, scopes, decls, current)
    BY DEF Coherence
  <2> QED BY <1>1, <1>7, <1>8, <1>9, <2>1, <2>2, GoesOn DEF Adds
<1> QED BY <1>10 DEF Coherence

\* The declaration whose scope will be entered has been created.
LEMMA CreatedCoherent ==
  ASSUME Coherence, NEW op, Doing(op), op \in {"newModule", "newProcedure"},
         NEW locals, Done(locals), locals = [v EXCEPT !.D = Len(decls) + 1],
         Adds, current' = current,
         Len(decls) + 1 \in DOMAIN decls', decls'[Len(decls) + 1].outer = current
  PROVE  Coherence'
<1>1. PICK n \in Nat : n = Len(calls) /\ n >= 1
  BY TopFrame DEF Doing
<1>2. PICK f, g : f = Top /\ g = [f EXCEPT !.rest = Tail(f.rest), !.locals = locals]
  OBVIOUS
<1>3. WellFormed(f, decls) /\ f = calls[n] /\ f.rest # <<>> /\ op = f.rest[1].op
  BY <1>1, <1>2, TopFrame DEF Doing, Top
<1>4. /\ DOMAIN g = DOMAIN f /\ g.rest = Tail(f.rest) /\ g.locals = locals
      /\ g.out = f.out /\ g.scoped = f.scoped
  BY <1>2, <1>3 DEF WellFormed
<1>5. ~f.scoped /\ Enters(Tail(f.rest))
  BY <1>3, NextOperation
<1>6. DOMAIN f.locals = DOMAIN Locals /\ IsSeq(f.locals.Ids) /\ f.locals = v
  BY <1>2, <1>3 DEF WellFormed, v
<1>7. DOMAIN locals = DOMAIN Locals /\ IsSeq(locals.Ids) /\ locals.D = Len(decls) + 1
  BY <1>6 DEF Locals
<1>8. WellFormed(g, decls') /\ Ready(g, decls', current)
  BY <1>3, <1>4, <1>5, <1>7 DEF WellFormed, Ready
<1>9. Replaced(calls, g, calls')
  <2>1. calls' = [calls EXCEPT ![Len(calls)] = g]
    BY <1>2 DEF Done, SetTop
  <2> QED BY <2>1, LastReplaced, TopFrame DEF Doing
<1>10. Coherent(calls', scopes', decls', current)
  <2>1. /\ g.out = calls[n].out /\ (g.scoped <=> calls[n].scoped) /\ ~g.scoped
    BY <1>3, <1>4, <1>5
  <2>2. Coherent(calls, scopes, decls, current)
    BY DEF Coherence
  <2> QED BY SMTT(30), <1>1, <1>8, <1>9, <2>1, <2>2, GoesOn DEF Adds
<1> QED BY <1>10 DEF Coherence

LEMMA EnterCoherent == ASSUME Coherence, EnterDeclScope PROVE Coherence'
<1>1. PICK n \in Nat : n = Len(calls) /\ n >= 1
  BY TopFrame DEF EnterDeclScope, Doing
<1>2. PICK f, g : f = Top /\ g = [f EXCEPT !.rest = Tail(f.rest), !.scoped = TRUE]
  OBVIOUS
<1>3. /\ WellFormed(f, decls) /\ Ready(f, decls, current) /\ f = calls[n]
      /\ f.rest # <<>> /\ f.rest[1].op = "enterScope"
  BY <1>1, <1>2, TopFrame DEF EnterDeclScope, Doing, Top
<1>4. /\ DOMAIN g = DOMAIN f /\ g.rest = Tail(f.rest) /\ g.locals = f.locals
      /\ g.out = f.out /\ g.scoped = TRUE
  BY <1>2, <1>3 DEF WellFormed
<1>5. ~f.scoped /\ Enters(f.rest)
  BY <1>3, NextOperation
<1>6. PICK D : D = f.locals.D
  OBVIOUS
<1>7. D \in DOMAIN decls /\ decls[D].outer = current
  BY <1>3, <1>5, <1>6 DEF Ready
<1>8. WellFormed(g, decls)
  BY <1>3, <1>4, <1>5, <1>6, <1>7 DEF WellFormed, Enters
<1>9. Replaced(calls, g, calls')
  <2>1. calls' = [calls EXCEPT ![Len(calls)] = g]
    BY <1>2 DEF EnterDeclScope, SetTop
  <2> QED BY <2>1, LastReplaced, TopFrame DEF EnterDeclScope, Doing
<1>10. Coherent(calls', Append(scopes, [x \in {} |-> Null]), decls, D)
  <2>1. /\ ~calls[n].scoped /\ g.scoped /\ g.locals.D = D /\ g.out = calls[n].out
    BY <1>3, <1>4, <1>5, <1>6
  <2>2. Coherent(calls, scopes, decls, current)
    BY DEF Coherence
  <2> QED BY <1>1, <1>7, <1>8, <1>9, <2>1, <2>2, EntersScope
<1>11. decls' = decls /\ scopes' = Append(scopes, [x \in {} |-> Null]) /\ current' = D
  BY <1>2, <1>6 DEF EnterDeclScope, enterScope, v
<1> QED BY <1>10, <1>11, Zenon DEF Coherence

\* The innermost call does something else next.
LEMMA RestCoherent ==
  ASSUME Coherence, calls # <<>>, NEW r, SetTop([Top EXCEPT !.rest = r]),
         IF Top.scoped THEN r \in Seq(Own) ELSE r \in Seq(Inner),
         decls' = decls, scopes' = scopes, current' = current
  PROVE  Coherence'
<1>1. PICK n \in Nat : n = Len(calls) /\ n >= 1
  BY TopFrame
<1>2. PICK f, g : f = Top /\ g = [f EXCEPT !.rest = r]
  OBVIOUS
<1>3. WellFormed(f, decls) /\ f = calls[n]
  BY <1>1, <1>2, TopFrame DEF Top
<1>4. /\ DOMAIN g = DOMAIN f /\ g.rest = r /\ g.locals = f.locals
      /\ g.out = f.out /\ g.scoped = f.scoped
  BY <1>2, <1>3 DEF WellFormed
<1>5. WellFormed(g, decls) /\ Waits(g)
  BY <1>2, <1>3, <1>4 DEF WellFormed, Left, Waits
<1>6. Ready(g, decls, current)
  BY <1>5, WaitsReady
<1>7. Replaced(calls, g, calls')
  <2>1. calls' = [calls EXCEPT ![Len(calls)] = g]
    BY <1>2 DEF SetTop
  <2> QED BY <2>1, LastReplaced, TopFrame
<1>8. Coherent(calls', scopes', decls', current)
  <2>1. /\ g.out = calls[n].out /\ (g.scoped <=> calls[n].scoped)
        /\ g.scoped => g.locals.D = calls[n].locals.D
    BY <1>3, <1>4
  <2>2. Coherent(calls, scopes, decls, current)
    BY DEF Coherence
  <2>3. Adds
    BY AddsNone
  <2>4. WellFormed(g, decls') /\ Ready(g, decls', current)
    BY <1>5, <1>6
  <2> QED BY <1>1, <1>7, <2>1, <2>2, <2>3, <2>4, GoesOn DEF Adds
<1> QED BY <1>8 DEF Coherence

LEMMA RecoverCoherent ==
  ASSUME Coherence, calls # <<>>, Recover, decls' = decls, scopes' = scopes, current' = current
  PROVE  Coherence'
  BY RestCoherent, HandlerRest DEF Recover

LEMMA UnchangedCoherent ==
  ASSUME Coherence, calls' = calls, decls' = decls, scopes' = scopes, current' = current
  PROVE  Coherence'
  BY DEF Coherence

\* The parts of a condition or of a loop.
LEMMA PartsOf ==
  ASSUME Coherence, NEW o \in {"when", "while", "call"}, Doing(o)
  PROVE  \E S : /\ S = IF Top.scoped THEN Own ELSE Inner
                /\ Top.rest \in Seq(S) /\ Tail(Top.rest) \in Seq(S)
                /\ o = "when" => Top.rest[1].then \in Seq(S) /\ Top.rest[1].otherwise \in Seq(S)
                /\ o = "while" => Top.rest[1].body \in Seq(S)
                /\ o = "call" => /\ Top.rest[1].fn \in DOMAIN Rules /\ Top.rest[1].out \in Outs
                                 /\ "D" \in DOMAIN Top.rest[1].out => Top.rest[1].fn = "parseQualident"
                                 /\ Top.scoped => Top.rest[1].out \in OwnOuts
<1>1. PICK S : S = IF Top.scoped THEN Own ELSE Inner
  OBVIOUS
<1>2. /\ WellFormed(Top, decls) /\ Top.rest # <<>> /\ o = Top.rest[1].op
  BY TopFrame DEF Doing
<1>3. Top.rest \in Seq(S)
  BY <1>1, <1>2, NextOperation
<1>4. Tail(Top.rest) \in Seq(S) /\ Top.rest[1] \in S
  BY <1>2, <1>3, TailOf, ElementOfSeq
<1>5. CASE Top.scoped
  <2>1. S = Own /\ OwnOuts \subseteq Outs
    BY <1>1, <1>5 DEF Outs
  <2>2. /\ o = "when" => Top.rest[1].then \in Seq(S) /\ Top.rest[1].otherwise \in Seq(S)
        /\ o = "while" => Top.rest[1].body \in Seq(S)
        /\ o = "call" => /\ Top.rest[1].fn \in DOMAIN Rules /\ Top.rest[1].out \in OwnOuts
                         /\ "D" \in DOMAIN Top.rest[1].out => Top.rest[1].fn = "parseQualident"
    BY <1>2, <1>4, <2>1, OwnSound DEF Sound
  <2> QED BY <1>1, <1>3, <1>4, <2>1, <2>2
<1>6. CASE ~Top.scoped
  <2>1. S = Inner
    BY <1>1, <1>6
  <2>2. /\ o = "when" => Top.rest[1].then \in Seq(S) /\ Top.rest[1].otherwise \in Seq(S)
        /\ o = "while" => Top.rest[1].body \in Seq(S)
        /\ o = "call" => /\ Top.rest[1].fn \in DOMAIN Rules /\ Top.rest[1].out \in Outs
                         /\ "D" \in DOMAIN Top.rest[1].out => Top.rest[1].fn = "parseQualident"
    BY <1>2, <1>4, <2>1, InnerSound DEF Sound
  <2> QED BY <1>1, <1>3, <1>4, <1>6, <2>2
<1> QED BY <1>5, <1>6

LEMMA WhenCoherent == ASSUME Coherence, DoWhen PROVE Coherence'
<1>1. Doing("when") /\ calls # <<>>
  BY DEF DoWhen, Doing
<1>2. PICK S : /\ S = IF Top.scoped THEN Own ELSE Inner
               /\ Tail(Top.rest) \in Seq(S)
               /\ Top.rest[1].then \in Seq(S) /\ Top.rest[1].otherwise \in Seq(S)
  BY <1>1, PartsOf
<1>3. PICK p, r : /\ p = IF Is(Top.rest[1].kinds) THEN Top.rest[1].then ELSE Top.rest[1].otherwise
                  /\ r = p \o Tail(Top.rest)
  OBVIOUS
<1>4. p \in Seq(S)
  BY <1>2, <1>3
<1>5. r \in Seq(S)
  BY <1>2, <1>3, <1>4, ConcatProperties
<1>6. SetTop([Top EXCEPT !.rest = r])
  BY <1>3 DEF DoWhen
<1>7. IF Top.scoped THEN r \in Seq(Own) ELSE r \in Seq(Inner)
  BY <1>2, <1>5
<1>8. decls' = decls /\ scopes' = scopes /\ current' = current
  BY DEF DoWhen, semaVars
<1> QED BY <1>1, <1>6, <1>7, <1>8, RestCoherent

LEMMA WhileCoherent == ASSUME Coherence, DoWhile PROVE Coherence'
<1>1. Doing("while") /\ calls # <<>>
  BY DEF DoWhile, Doing
<1>2. PICK S : /\ S = IF Top.scoped THEN Own ELSE Inner
               /\ Top.rest \in Seq(S) /\ Tail(Top.rest) \in Seq(S) /\ Top.rest[1].body \in Seq(S)
  BY <1>1, PartsOf
<1>3. PICK r : r = IF Is(Top.rest[1].kinds) THEN Top.rest[1].body \o Top.rest ELSE Tail(Top.rest)
  OBVIOUS
<1>4. r \in Seq(S)
  <2>1. Top.rest[1].body \o Top.rest \in Seq(S)
    BY <1>2, ConcatProperties
  <2> QED BY <1>2, <1>3, <2>1
<1>5. SetTop([Top EXCEPT !.rest = r])
  BY <1>3 DEF DoWhile
<1>6. IF Top.scoped THEN r \in Seq(Own) ELSE r \in Seq(Inner)
  BY <1>2, <1>4
<1>7. decls' = decls /\ scopes' = scopes /\ current' = current
  BY DEF DoWhile, semaVars
<1> QED BY <1>1, <1>5, <1>6, <1>7, RestCoherent

\* What the reference parameters of a call refer to.
LEMMA OutIds ==
  ASSUME NEW out \in Outs
  PROVE  /\ "Ids" \in DOMAIN out => out["Ids"] = "Ids"
         /\ \A p \in DOMAIN out : out[p] = "Ids" => p = "Ids"
  BY DEF Outs, OwnOuts, None

LEMMA OutD ==
  ASSUME NEW out \in OwnOuts
  PROVE  \A p \in DOMAIN out : out[p] # "D"
  BY DEF OwnOuts, None

LEMMA CallCoherent == ASSUME Coherence, DoCall PROVE Coherence'
<1>1. Doing("call") /\ calls # <<>>
  BY DEF DoCall, Doing
<1>2. PICK S, r : /\ S = IF Top.scoped THEN Own ELSE Inner
                  /\ r = Tail(Top.rest) /\ r \in Seq(S)
                  /\ Top.rest[1].fn \in DOMAIN Rules /\ Top.rest[1].out \in Outs
                  /\ Top.scoped => Top.rest[1].out \in OwnOuts
  BY <1>1, PartsOf
<1>3. PICK passed : passed = [x \in DOMAIN Locals |->
                      IF x \in DOMAIN Top.rest[1].out THEN v[Top.rest[1].out[x]] ELSE Locals[x]]
  OBVIOUS
<1>4. PICK n \in Nat : n = Len(calls) /\ n >= 1
  BY <1>1, TopFrame
<1>5. PICK f, g : f = Top /\ g = [f EXCEPT !.rest = r]
  OBVIOUS
<1>6. WellFormed(f, decls) /\ f = calls[n]
  BY <1>1, <1>4, <1>5, TopFrame DEF Top
<1>7. PICK h : h = Frame(Top.rest[1].fn, passed, Top.rest[1].out)
  OBVIOUS
<1>8. /\ DOMAIN g = DOMAIN f /\ g.rest = r /\ g.locals = f.locals
      /\ g.out = f.out /\ g.scoped = f.scoped
  BY <1>5, <1>6 DEF WellFormed
<1>9. WellFormed(g, decls) /\ Waits(g)
  BY <1>2, <1>5, <1>6, <1>8 DEF WellFormed, Left, Waits
<1>10. DOMAIN passed = DOMAIN Locals /\ IsSeq(passed.Ids)
  <2>1. v = f.locals /\ IsSeq(v.Ids)
    BY <1>5, <1>6 DEF WellFormed, v
  <2>2. "Ids" \in DOMAIN Locals /\ Locals.Ids = <<>>
    BY DEF Locals
  <2>3. "Ids" \in DOMAIN Top.rest[1].out => Top.rest[1].out["Ids"] = "Ids"
    BY <1>2, OutIds
  <2>4. <<>> \in Seq({})
    OBVIOUS
  <2> QED BY <1>3, <2>1, <2>2, <2>3, <2>4 DEF IsSeq
<1>11. /\ h.fn = Top.rest[1].fn /\ h.locals = passed /\ h.out = Top.rest[1].out
       /\ h.scoped = FALSE /\ h.rest = Rules[Top.rest[1].fn].body
       /\ DOMAIN h = {"fn", "rest", "locals", "out", "scoped"}
  BY <1>7 DEF Frame
<1>12. Left(h.rest)
  BY <1>2, <1>11, Bodies DEF Left
<1>13. WellFormed(h, decls) /\ Ready(h, decls, current) /\ ~h.scoped
  BY <1>2, <1>10, <1>11, <1>12, LeftEntersNot DEF WellFormed, Ready
<1>14. g.scoped => h.out \in OwnOuts
  BY <1>2, <1>5, <1>8, <1>11
<1>15. Pushed(calls, g, h, calls')
  <2>1. calls' = Append([calls EXCEPT ![Len(calls)] = g], h)
    <3>1. g = [calls[Len(calls)] EXCEPT !.rest = Tail(calls[Len(calls)].rest)]
      BY <1>2, <1>5 DEF Top
    <3>2. [calls EXCEPT ![Len(calls)].rest = Tail(@)] = [calls EXCEPT ![Len(calls)] = g]
      BY <3>1
    <3> QED BY <1>3, <1>7, <3>2 DEF DoCall
  <2> QED BY <1>1, <2>1, LastPushed, TopFrame
<1>16. Coherent(calls', scopes, decls, current)
  <2>1. /\ g.out = calls[n].out /\ (g.scoped <=> calls[n].scoped) /\ g.locals = calls[n].locals
    BY <1>6, <1>8
  <2>2. Coherent(calls, scopes, decls, current)
    BY DEF Coherence
  <2> QED BY <1>4, <1>9, <1>13, <1>14, <1>15, <2>1, <2>2, Calls
<1>17. decls' = decls /\ scopes' = scopes /\ current' = current
  BY DEF DoCall, semaVars
<1> QED BY <1>16, <1>17, Zenon DEF Coherence

\* The locals of the caller, whose D is kept by a caller that has entered its scope.
LEMMA WrittenLocals ==
  ASSUME NEW out \in Outs, NEW inner, NEW outer,
         DOMAIN inner = DOMAIN Locals, IsSeq(inner.Ids), IsSeq(outer.Ids)
  PROVE  /\ DOMAIN Written(out, inner, outer) = DOMAIN Locals
         /\ IsSeq(Written(out, inner, outer).Ids)
         /\ out \in OwnOuts => Written(out, inner, outer).D = outer.D
<1>1. "Ids" \in DOMAIN Locals /\ "D" \in DOMAIN Locals
  BY DEF Locals
<1>2. DOMAIN Written(out, inner, outer) = DOMAIN Locals
  BY DEF Written
<1>3. IsSeq(Written(out, inner, outer).Ids)
  <2>1. PICK R : R = {p \in DOMAIN out : out[p] = "Ids"}
    OBVIOUS
  <2>2. Written(out, inner, outer).Ids = IF R = {} THEN outer.Ids ELSE inner[CHOOSE p \in R : TRUE]
    BY <1>1, <2>1 DEF Written
  <2>3. R # {} => (CHOOSE p \in R : TRUE) = "Ids"
    <3>1. \A p \in R : p = "Ids"
      BY <2>1, OutIds
    <3> QED BY <3>1
  <2> QED BY <2>2, <2>3
<1>4. out \in OwnOuts => Written(out, inner, outer).D = outer.D
  <2>1. ASSUME out \in OwnOuts PROVE {p \in DOMAIN out : out[p] = "D"} = {}
    BY <2>1, OutD
  <2> QED BY <1>1, <2>1 DEF Written
<1> QED BY <1>2, <1>3, <1>4

\* The caller b of a call f that returns, which has r left to do.
Caller(b, f, r) == [b EXCEPT !.locals = Written(f.out, f.locals, @), !.rest = r]

LEMMA CallerGoesOn ==
  ASSUME NEW c, NEW d, NEW cur, Active(c, d, cur), NEW n \in Nat, n = Len(c), n > 1,
         NEW b, b = c[n - 1], NEW r, (r = <<Handler>>) \/ (r = b.rest),
         NEW g, g = Caller(b, c[n], r)
  PROVE  /\ WellFormed(g, d) /\ Waits(g) /\ g.out = b.out
         /\ g.scoped <=> b.scoped
         /\ g.scoped => g.locals.D = b.locals.D
<1>1. n \in DOMAIN c /\ n - 1 \in DOMAIN c /\ n - 1 < n /\ (n - 1) + 1 = n
  BY SeqFacts DEF Active
<1>2. PICK f, w : f = c[n] /\ w = Written(f.out, f.locals, b.locals)
  OBVIOUS
<1>3. /\ WellFormed(f, d) /\ WellFormed(b, d) /\ Waits(b)
      /\ b.scoped => f.out \in OwnOuts
  <2>1. /\ WellFormed(c[n], d) /\ WellFormed(c[n - 1], d) /\ Waits(c[n - 1])
        /\ c[n - 1].scoped => c[(n - 1) + 1].out \in OwnOuts
    BY <1>1, Zenon DEF Active
  <2> QED BY <1>1, <1>2, <2>1
<1>4. /\ f.out \in Outs /\ DOMAIN f.locals = DOMAIN Locals /\ IsSeq(f.locals.Ids)
      /\ IsSeq(b.locals.Ids)
  BY <1>3, Zenon DEF WellFormed
<1>5. /\ DOMAIN w = DOMAIN Locals /\ IsSeq(w.Ids)
      /\ f.out \in OwnOuts => w.D = b.locals.D
  <2>1. PICK inner, outer : inner = f.locals /\ outer = b.locals
    OBVIOUS
  <2>2. DOMAIN inner = DOMAIN Locals /\ IsSeq(inner.Ids) /\ IsSeq(outer.Ids)
    BY <1>4, <2>1
  <2>3. /\ DOMAIN Written(f.out, inner, outer) = DOMAIN Locals
        /\ IsSeq(Written(f.out, inner, outer).Ids)
        /\ f.out \in OwnOuts => Written(f.out, inner, outer).D = outer.D
    BY <1>4, <2>2, WrittenLocals, Zenon
  <2> QED BY <1>2, <2>1, <2>3, Zenon
<1>6. /\ DOMAIN g = DOMAIN b /\ g.rest = r /\ g.locals = w
      /\ g.out = b.out /\ g.scoped = b.scoped
  <2>1. g = [b EXCEPT !.locals = w, !.rest = r]
    BY <1>2 DEF Caller
  <2>2. DOMAIN b = {"fn", "rest", "locals", "out", "scoped"}
    BY <1>3, Zenon DEF WellFormed
  <2> QED BY <2>1, <2>2
<1>7. /\ b.scoped => r \in Seq(Own)
      /\ ~b.scoped => r \in Seq(Inner)
  <2>1. /\ b.scoped => b.rest \in Seq(Own)
        /\ ~b.scoped => b.rest \in Seq(Inner)
    BY <1>3, Zenon DEF WellFormed, Waits
  <2>2. <<Handler>> \in Seq(Own) /\ <<Handler>> \in Seq(Inner)
    BY HandlerRest
  <2> QED BY <2>1, <2>2, Zenon
<1>8. /\ b.scoped \in BOOLEAN /\ b.out \in Outs /\ DOMAIN b = {"fn", "rest", "locals", "out", "scoped"}
      /\ b.scoped => b.locals.D \in DOMAIN d
  BY <1>3, Zenon DEF WellFormed
<1>9. b.scoped => w.D = b.locals.D
  BY <1>3, <1>5, Zenon
<1>10. WellFormed(g, d)
  <2>1. g.scoped => g.rest \in Seq(Own) /\ g.locals.D \in DOMAIN d
    BY <1>6, <1>7, <1>8, <1>9
  <2>2. ~g.scoped => Left(g.rest)
    BY <1>6, <1>7 DEF Left
  <2>3. g.scoped \in BOOLEAN /\ g.out \in Outs /\ DOMAIN g = {"fn", "rest", "locals", "out", "scoped"}
        /\ DOMAIN g.locals = DOMAIN Locals /\ IsSeq(g.locals.Ids)
    BY <1>5, <1>6, <1>8
  <2> QED BY <2>1, <2>2, <2>3, Zenon DEF WellFormed
<1>11. Waits(g)
  BY <1>6, <1>7, Zenon DEF Waits
<1> QED BY <1>6, <1>9, <1>10, <1>11

LEMMA LeaveCoherent == ASSUME Coherence, calls # <<>>, NEW failed, Leave(failed) PROVE Coherence'
<1>1. PICK n \in Nat : n = Len(calls) /\ n >= 1 /\ DOMAIN calls = 1..n
  BY TopFrame
<1>2. /\ Active(calls, decls, current) /\ IsSeq(calls)
      /\ Top = calls[n] /\ v = calls[n].locals
  BY <1>1, TopFrame DEF Coherence, Coherent, Top, v
<1>3. PICK b, r, g : /\ b = calls[n - 1]
                     /\ r = IF failed THEN <<Handler>> ELSE b.rest
                     /\ g = Caller(b, calls[n], r)
  OBVIOUS
<1>4. calls' = IF n = 1 THEN <<>> ELSE Append(SubSeq(calls, 1, n - 2), g)
  <2>1. calls' = IF n = 1 THEN <<>>
                 ELSE Append(SubSeq(calls, 1, n - 2),
                        [b EXCEPT !.locals = Written(calls[n].out, calls[n].locals, @),
                                  !.rest = IF failed THEN <<Handler>> ELSE @])
    BY <1>1, <1>2, <1>3 DEF Leave
  <2> QED BY <1>3, <2>1, Zenon DEF Caller
<1>5. Popped(calls, g, calls')
  <2>1. Popped(calls, g, IF n = 1 THEN <<>> ELSE Append(SubSeq(calls, 1, n - 2), g))
    BY <1>1, <1>2, LastPopped
  <2> QED BY <1>4, <2>1, Zenon
<1>6. n > 1 => /\ WellFormed(g, decls) /\ Waits(g) /\ g.out = calls[n - 1].out
               /\ g.scoped <=> calls[n - 1].scoped
               /\ g.scoped => g.locals.D = calls[n - 1].locals.D
  <2>1. (r = <<Handler>>) \/ (r = b.rest)
    BY <1>3
  <2>2. ASSUME n > 1
        PROVE  /\ WellFormed(g, decls) /\ Waits(g) /\ g.out = b.out
               /\ g.scoped <=> b.scoped
               /\ g.scoped => g.locals.D = b.locals.D
    <3>1. b = calls[n - 1]
      BY <1>3
    <3>2. g = Caller(b, calls[n], r)
      BY <1>3, Zenon
    <3>3. Active(calls, decls, current) /\ n = Len(calls)
      BY <1>1, <1>2
    <3>4. \A c, d, cur : Active(c, d, cur) /\ Len(c) = n /\ b = c[n - 1] =>
            LET h == Caller(b, c[n], r)
            IN  /\ WellFormed(h, d) /\ Waits(h) /\ h.out = b.out
                /\ h.scoped <=> b.scoped
                /\ h.scoped => h.locals.D = b.locals.D
      <4> SUFFICES ASSUME NEW c, NEW d, NEW cur, Active(c, d, cur), Len(c) = n, b = c[n - 1],
                          NEW h, h = Caller(b, c[n], r)
                   PROVE  /\ WellFormed(h, d) /\ Waits(h) /\ h.out = b.out
                          /\ h.scoped <=> b.scoped
                          /\ h.scoped => h.locals.D = b.locals.D
        OBVIOUS
      <4> QED BY <2>1, <2>2, CallerGoesOn
    <3> QED BY <3>1, <3>2, <3>3, <3>4, Zenon
  <2> QED BY <1>3, <2>2, Zenon
<1> HIDE <1>3
<1> HIDE <1>4
<1>7. CASE calls[n].scoped
  <2>1. decls' = decls /\ scopes' = SubSeq(scopes, 1, Len(scopes) - 1)
        /\ current' = decls[current].outer
    BY <1>2, <1>7, Zenon DEF Leave, leaveScope
  <2>2. Coherent(calls', SubSeq(scopes, 1, Len(scopes) - 1), decls, decls[current].outer)
    BY <1>1, <1>5, <1>6, <1>7, ReturnsScoped, Zenon DEF Coherence
  <2> QED BY <2>1, <2>2, Zenon DEF Coherence
<1>8. CASE ~calls[n].scoped
  <2>1. decls' = decls /\ scopes' = scopes /\ current' = current
    BY <1>2, <1>8, Zenon DEF Leave
  <2>2. Coherent(calls', scopes, decls, current)
    BY <1>1, <1>5, <1>6, <1>8, ReturnsPlain, Zenon DEF Coherence
  <2> QED BY <2>1, <2>2, Zenon DEF Coherence
<1> QED BY <1>7, <1>8

(* The semantic actions. *)

\* The locals that an action other than the creation of a declaration leaves.
Kept(op, locals) ==
  /\ DOMAIN locals = DOMAIN Locals /\ IsSeq(locals.Ids)
  /\ locals.D = IF op = "lookup" THEN lookup(tok) ELSE v.D
  /\ locals.Ret = v.Ret
  /\ locals.Fields = IF op = "field" THEN v.Fields \o FieldsOf(v.Ids, v.D) ELSE v.Fields

\* A step of the innermost call that declares nothing.
Quietly ==
  \E op, locals : /\ op \notin Opening /\ Kept(op, locals) /\ Doing(op) /\ Done(locals)
                  /\ decls' = decls /\ scopes' = scopes /\ current' = current

LEMMA QuietCoherent == ASSUME Coherence, Quietly PROVE Coherence'
<1>1. PICK op, locals : /\ op \notin Opening /\ Kept(op, locals) /\ Doing(op) /\ Done(locals)
                        /\ decls' = decls /\ scopes' = scopes /\ current' = current
  BY DEF Quietly
<1>2. DOMAIN locals = DOMAIN Locals /\ IsSeq(locals.Ids) /\ (op # "lookup" => locals.D = v.D)
  BY <1>1 DEF Kept
<1> QED BY <1>1, <1>2, AddsNone, DoneCoherent

LEMMA VFacts ==
  ASSUME Coherence, calls # <<>>
  PROVE  DOMAIN v = DOMAIN Locals /\ IsSeq(v.Ids)
  BY TopFrame DEF WellFormed, v

\* The operations that set D or Fields.
Setting == Opening \cup {"lookup", "field"}

LEMMA KeptNames ==
  ASSUME Coherence, calls # <<>>
  PROVE  /\ \A op : op \notin Setting => Kept(op, v)
         /\ \A op, x : op \notin Setting =>
              /\ Kept(op, [v EXCEPT !.Name = x]) /\ Kept(op, [v EXCEPT !.Op = x])
              /\ Kept(op, [v EXCEPT !.PrefixOp = x]) /\ Kept(op, [v EXCEPT !.IsVar = x])
              /\ Kept(op, [v EXCEPT !.E = x]) /\ Kept(op, [v EXCEPT !.Params = x])
         /\ \A op, x, y : op \notin Setting =>
              /\ Kept(op, [v EXCEPT !.E = x, !.R = y])
              /\ Kept(op, [v EXCEPT !.Exprs = x, !.E = y])
              /\ Kept(op, [v EXCEPT !.L = x, !.E = y])
         /\ Kept("lookup", [v EXCEPT !.D = lookup(tok)])
         /\ Kept("field", [v EXCEPT !.Fields = @ \o FieldsOf(v.Ids, v.D)])
         /\ \A op, x : op \notin Setting => Kept(op, [v EXCEPT !.Ids = Append(v.Ids, x)])
<1>1. DOMAIN v = DOMAIN Locals /\ IsSeq(v.Ids)
  BY VFacts
<1>2. DOMAIN Locals = {"D", "E", "L", "R", "Op", "PrefixOp", "Name", "Ids", "Exprs", "Params",
                       "Fields", "Ret", "IsVar"}
  BY DEF Locals
<1>3. ASSUME NEW op, op \notin Setting PROVE op # "lookup" /\ op # "field"
  BY <1>3 DEF Setting
<1>4. \A op : op \notin Setting => Kept(op, v)
  BY <1>1, <1>3 DEF Kept
<1>5. ASSUME NEW op, op \notin Setting, NEW x
      PROVE  /\ Kept(op, [v EXCEPT !.Name = x]) /\ Kept(op, [v EXCEPT !.Op = x])
             /\ Kept(op, [v EXCEPT !.PrefixOp = x]) /\ Kept(op, [v EXCEPT !.IsVar = x])
             /\ Kept(op, [v EXCEPT !.E = x]) /\ Kept(op, [v EXCEPT !.Params = x])
  BY <1>1, <1>2, <1>3, <1>5 DEF Kept
<1>6. ASSUME NEW op, op \notin Setting, NEW x, NEW y
      PROVE  /\ Kept(op, [v EXCEPT !.E = x, !.R = y])
             /\ Kept(op, [v EXCEPT !.Exprs = x, !.E = y])
             /\ Kept(op, [v EXCEPT !.L = x, !.E = y])
  BY <1>1, <1>2, <1>3, <1>6 DEF Kept
<1>7. Kept("lookup", [v EXCEPT !.D = lookup(tok)])
  <2>1. PICK x : x = lookup(tok)
    OBVIOUS
  <2> QED BY <1>1, <1>2, <2>1 DEF Kept
<1>8. Kept("field", [v EXCEPT !.Fields = @ \o FieldsOf(v.Ids, v.D)])
  <2>1. PICK x : x = v.Fields \o FieldsOf(v.Ids, v.D)
    OBVIOUS
  <2>2. [v EXCEPT !.Fields = @ \o FieldsOf(v.Ids, v.D)] = [v EXCEPT !.Fields = x]
    BY <2>1, Zenon
  <2>3. Kept("field", [v EXCEPT !.Fields = x])
    BY <1>1, <1>2, <2>1 DEF Kept
  <2> QED BY <2>2, <2>3, Zenon
<1>9. ASSUME NEW op, op \notin Setting, NEW x PROVE Kept(op, [v EXCEPT !.Ids = Append(v.Ids, x)])
  <2>1. PICK ids : ids = Append(v.Ids, x)
    OBVIOUS
  <2>2. IsSeq(ids)
    <3>1. PICK S : v.Ids \in Seq(S)
      BY <1>1 DEF IsSeq
    <3>2. v.Ids \in Seq(S \cup {x}) /\ x \in S \cup {x}
      BY <3>1, SeqMonotonic
    <3>3. ids \in Seq(S \cup {x})
      BY <2>1, <3>2, AppendProperties
    <3> QED BY <3>3 DEF IsSeq
  <2>3. Kept(op, [v EXCEPT !.Ids = ids])
    BY <1>1, <1>2, <1>3, <1>9, <2>2 DEF Kept
  <2> QED BY <2>1, <2>3
<1> QED BY <1>4, <1>5, <1>6, <1>7, <1>8, <1>9

LEMMA NotSetting ==
  /\ "takeName" \notin Setting /\ "takeId" \notin Setting /\ "takeOperator" \notin Setting
  /\ "takePrefix" \notin Setting /\ "byRef" \notin Setting /\ "isModule" \notin Setting
  /\ "integer" \notin Setting /\ "designator" \notin Setting
  /\ "fieldSelector" \notin Setting /\ "functionCall" \notin Setting
  /\ "relation" \notin Setting /\ "sum" \notin Setting /\ "product" \notin Setting
  /\ "not" \notin Setting /\ "sign" \notin Setting /\ "argument" \notin Setting
  /\ "target" \notin Setting /\ "assignment" \notin Setting /\ "procCall" \notin Setting
  /\ "condition" \notin Setting /\ "return" \notin Setting /\ "constant" \notin Setting
  /\ "alias" \notin Setting /\ "pointer" \notin Setting /\ "record" \notin Setting
  /\ "variable" \notin Setting /\ "parameter" \notin Setting
  /\ "import" \notin Setting /\ "heading" \notin Setting /\ "endProcedure" \notin Setting
  /\ "endModule" \notin Setting /\ "advance" \notin Setting /\ "expect" \notin Setting
  /\ "consume" \notin Setting
  BY DEF Setting, Opening

LEMMA EvaluatesQuiet ==
  \A op, locals, error :
    Evaluates(op, locals, error) /\ op \notin Opening /\ Kept(op, locals) => Quietly
  BY Zenon DEF Evaluates, Quietly

LEMMA EvaluatesPlain ==
  \A op, locals, error :
    Evaluates(op, locals, error) /\ op \notin Setting /\ Kept(op, locals) => Quietly
<1>1. \A op : op \notin Setting => op \notin Opening
  BY DEF Setting
<1> QED BY <1>1, EvaluatesQuiet, Zenon

LEMMA TakeTokenQuiet == ASSUME Coherence, calls # <<>>, TakeToken PROVE Quietly
<1>1. /\ Kept("takeName", [v EXCEPT !.Name = tok])
      /\ Kept("takeOperator", [v EXCEPT !.Op = tok])
      /\ Kept("takePrefix", [v EXCEPT !.PrefixOp = tok])
      /\ Kept("byRef", [v EXCEPT !.IsVar = TRUE])
  BY KeptNames, NotSetting
<1>2. Kept("takeId", [v EXCEPT !.Ids = Append(@, tok)])
  BY KeptNames, NotSetting, Zenon
<1>3. CASE Evaluates("takeName", [v EXCEPT !.Name = tok], FALSE)
  BY <1>1, <1>3, EvaluatesPlain, NotSetting, Zenon
<1>4. CASE Evaluates("takeId", [v EXCEPT !.Ids = Append(@, tok)], FALSE)
  BY <1>2, <1>4, EvaluatesPlain, NotSetting, Zenon
<1>5. CASE Evaluates("takeOperator", [v EXCEPT !.Op = tok], FALSE)
  BY <1>1, <1>5, EvaluatesPlain, NotSetting, Zenon
<1>6. CASE Evaluates("takePrefix", [v EXCEPT !.PrefixOp = tok], FALSE)
  BY <1>1, <1>6, EvaluatesPlain, NotSetting, Zenon
<1>7. CASE Evaluates("byRef", [v EXCEPT !.IsVar = TRUE], FALSE)
  BY <1>1, <1>7, EvaluatesPlain, NotSetting, Zenon
<1> QED BY <1>3, <1>4, <1>5, <1>6, <1>7, Zenon DEF TakeToken

LEMMA LookUpQuiet == ASSUME Coherence, calls # <<>>, LookUp PROVE Quietly
<1>1. CASE Evaluates("lookup", [v EXCEPT !.D = lookup(tok)], lookup(tok) = Null)
  <2>1. Kept("lookup", [v EXCEPT !.D = lookup(tok)]) /\ "lookup" \notin Opening
    BY KeptNames DEF Opening
  <2>2. PICK e \in BOOLEAN : e <=> lookup(tok) = Null
    OBVIOUS
  <2>3. Evaluates("lookup", [v EXCEPT !.D = lookup(tok)], e)
    BY <1>1, <2>2, Zenon DEF Evaluates, Report
  <2> QED BY <2>1, <2>3, EvaluatesQuiet, Zenon
<1>2. CASE Evaluates("isModule", v, FALSE)
  <2>1. Kept("isModule", v)
    BY KeptNames, NotSetting
  <2> QED BY <1>2, <2>1, EvaluatesPlain, NotSetting, Zenon
<1> QED BY <1>1, <1>2, Zenon DEF LookUp

LEMMA OperandQuiet == ASSUME Coherence, calls # <<>>, Operand PROVE Quietly
<1>1. \A op, x : op \notin Setting => Kept(op, [v EXCEPT !.E = x])
  BY KeptNames
<1>2. ASSUME NEW op, op \notin Setting, NEW x, NEW error, Evaluates(op, [v EXCEPT !.E = x], error)
      PROVE  Quietly
  BY <1>1, <1>2, EvaluatesPlain, Zenon
<1>3. CASE Evaluates("integer", [v EXCEPT !.E = actOnIntegerLiteral], FALSE)
  BY <1>2, <1>3, NotSetting
<1>4. CASE Evaluates("designator", [v EXCEPT !.E = actOnDesignator(v.D)], FALSE)
  BY <1>2, <1>4, NotSetting
<1>5. CASE Evaluates("fieldSelector", [v EXCEPT !.E = actOnFieldSelector(@, tok)], FALSE)
  BY <1>2, <1>5, NotSetting
<1>6. CASE Evaluates("functionCall", [v EXCEPT !.E = actOnFunctionCall(v.D)],
                     FunctionCallError(v.D, v.Exprs))
  BY <1>2, <1>6, NotSetting, Zenon
<1> QED BY <1>3, <1>4, <1>5, <1>6, Zenon DEF Operand

LEMMA OperationQuiet == ASSUME Coherence, calls # <<>>, Operation PROVE Quietly
<1>1. /\ \A op, x : op \notin Setting => Kept(op, [v EXCEPT !.E = x])
      /\ \A op, x, y : op \notin Setting => Kept(op, [v EXCEPT !.E = x, !.R = y])
  BY KeptNames
<1>2. ASSUME NEW op, op \notin Setting, NEW x, NEW error, Evaluates(op, [v EXCEPT !.E = x], error)
      PROVE  Quietly
  BY <1>1, <1>2, EvaluatesPlain, Zenon
<1>3. ASSUME NEW op, op \notin Setting, NEW x, NEW y, NEW error,
             Evaluates(op, [v EXCEPT !.E = x, !.R = y], error)
      PROVE  Quietly
  BY <1>1, <1>3, EvaluatesPlain, Zenon
<1>4. CASE Evaluates("relation", [v EXCEPT !.E = actOnExpression(@, v.R), !.R = NoExpr],
                     Incompatible(v.E, v.R))
  BY <1>3, <1>4, NotSetting
<1>5. CASE Evaluates("sum", [v EXCEPT !.E = Combine(@, v.R, v.Op), !.R = NoExpr],
                     Incompatible(v.E, v.R))
  BY <1>3, <1>5, NotSetting
<1>6. CASE Evaluates("product", [v EXCEPT !.E = Combine(@, v.R, v.Op), !.R = NoExpr],
                     TermError(v.E, v.R, v.Op))
  BY <1>3, <1>6, NotSetting
<1>7. CASE Evaluates("not", [v EXCEPT !.E = actOnPrefixExpression(@, "NOT")],
                     PrefixError(v.E, "NOT"))
  <2>1. PICK x, e : x = actOnPrefixExpression(v.E, "NOT") /\ e = PrefixError(v.E, "NOT")
    OBVIOUS
  <2>2. Evaluates("not", [v EXCEPT !.E = x], e)
    BY <1>7, <2>1, Zenon
  <2> QED BY <1>2, <2>2, NotSetting, Zenon
<1>8. CASE Evaluates("sign",
                     [v EXCEPT !.E = IF v.PrefixOp = "none" THEN @
                                     ELSE actOnPrefixExpression(@, v.PrefixOp)],
                     v.PrefixOp # "none" /\ PrefixError(v.E, v.PrefixOp))
  <2>1. PICK x : x = IF v.PrefixOp = "none" THEN v.E ELSE actOnPrefixExpression(v.E, v.PrefixOp)
    OBVIOUS
  <2>2. PICK e \in BOOLEAN : e <=> v.PrefixOp # "none" /\ PrefixError(v.E, v.PrefixOp)
    OBVIOUS
  <2>3. Evaluates("sign", [v EXCEPT !.E = x], e)
    BY <1>8, <2>1, <2>2, Zenon DEF Evaluates, Report
  <2> QED BY <1>2, <2>3, NotSetting, Zenon
<1> QED BY <1>4, <1>5, <1>6, <1>7, <1>8, Zenon DEF Operation

LEMMA StatementQuiet == ASSUME Coherence, calls # <<>>, Statement PROVE Quietly
<1>1. /\ \A op : op \notin Setting => Kept(op, v)
      /\ \A op, x, y : op \notin Setting => /\ Kept(op, [v EXCEPT !.Exprs = x, !.E = y])
                                           /\ Kept(op, [v EXCEPT !.L = x, !.E = y])
  BY KeptNames
<1>2. ASSUME NEW op, op \notin Setting, NEW error, Evaluates(op, v, error)
      PROVE  Quietly
  BY <1>1, <1>2, EvaluatesPlain, Zenon
<1>3. CASE Evaluates("argument",
                     [v EXCEPT !.Exprs = IF v.E = NoExpr THEN @ ELSE Append(@, v.E),
                               !.E = NoExpr], FALSE)
  <2>1. ASSUME NEW x, Evaluates("argument", [v EXCEPT !.Exprs = x, !.E = NoExpr], FALSE)
        PROVE  Quietly
    <3>1. Kept("argument", [v EXCEPT !.Exprs = x, !.E = NoExpr])
      BY <1>1, NotSetting
    <3> QED BY <2>1, <3>1, EvaluatesPlain, NotSetting, Zenon
  <2> QED BY <1>3, <2>1
<1>4. CASE Evaluates("target", [v EXCEPT !.L = v.E, !.E = NoExpr], FALSE)
  <2>1. Kept("target", [v EXCEPT !.L = v.E, !.E = NoExpr])
    BY <1>1, NotSetting
  <2> QED BY <1>4, <2>1, EvaluatesPlain, NotSetting, Zenon
<1>5. CASE Evaluates("assignment", v, AssignmentError(v.L, v.E))
  BY <1>2, <1>5, NotSetting, Zenon
<1>6. CASE Evaluates("procCall", v, ProcCallError(v.D, v.Exprs))
  BY <1>2, <1>6, NotSetting, Zenon
<1>7. CASE Evaluates("condition", v, ConditionError(v.E))
  BY <1>2, <1>7, NotSetting, Zenon
<1>8. CASE Evaluates("return", v, ReturnError(v.E))
  BY <1>2, <1>8, NotSetting, Zenon
<1> QED BY <1>3, <1>4, <1>5, <1>6, <1>7, <1>8, Zenon DEF Statement

\* An action that declares something, in the innermost scope or not at all.
LEMMA DeclaresCoherent ==
  ASSUME Coherence, NEW op, op \notin Setting, NEW locals, Kept(op, locals),
         Doing(op), Done(locals), Adds, current' = current
  PROVE  Coherence'
<1>1. op \notin Opening /\ op # "lookup"
  BY DEF Setting
<1>2. DOMAIN locals = DOMAIN Locals /\ IsSeq(locals.Ids) /\ locals.D = v.D
  BY <1>1 DEF Kept
<1> QED BY <1>1, <1>2, DoneCoherent

LEMMA FreshOne ==
  ASSUME NEW x, DOMAIN x = DeclFields, x.outer = current
  PROVE  Fresh(<<x>>)
<1>1. <<x>> \in Seq({x}) /\ DOMAIN <<x>> = {1} /\ <<x>>[1] = x
  OBVIOUS
<1> QED BY <1>1 DEF Fresh, IsSeq

LEMMA FreshMany ==
  ASSUME NEW ids, IsSeq(ids), NEW ds, DOMAIN ds = DOMAIN ids,
         ds = [i \in DOMAIN ids |-> ds[i]],
         \A i \in DOMAIN ids : DOMAIN ds[i] = DeclFields /\ ds[i].outer = current
  PROVE  Fresh(ds)
<1>1. DOMAIN ids = 1..Len(ids) /\ Len(ids) \in Nat
  BY SeqFacts
<1>2. PICK T : T = {ds[i] : i \in DOMAIN ids}
  OBVIOUS
<1>3. ds \in [1..Len(ids) -> T]
  BY <1>1, <1>2
<1>4. ds \in Seq(T)
  BY <1>1, <1>3, SeqDef
<1> QED BY <1>4 DEF Fresh, IsSeq

LEMMA VariablesFresh ==
  ASSUME NEW ids, IsSeq(ids), NEW D
  PROVE  Fresh(Variables(ids, D))
<1>1. PICK ds : ds = Variables(ids, D)
  OBVIOUS
<1>2. /\ DOMAIN ds = DOMAIN ids
      /\ \A i \in DOMAIN ids : ds[i] = [Decl("Var", ids[i], current) EXCEPT !.type = D]
      /\ ds = [i \in DOMAIN ids |-> ds[i]]
  BY <1>1 DEF Variables
<1>3. \A i \in DOMAIN ids : DOMAIN ds[i] = DeclFields /\ ds[i].outer = current
  BY <1>2 DEF Decl, DeclFields
<1>4. Fresh(ds)
  BY <1>2, <1>3, FreshMany
<1> QED BY <1>1, <1>4

LEMMA ParametersFresh ==
  ASSUME NEW ids, IsSeq(ids), NEW D, NEW IsVar
  PROVE  Fresh(Parameters(ids, D, IsVar))
<1>1. PICK ds : ds = Parameters(ids, D, IsVar)
  OBVIOUS
<1>2. /\ DOMAIN ds = DOMAIN ids
      /\ \A i \in DOMAIN ids :
           ds[i] = [Decl("Param", ids[i], current) EXCEPT !.type = D, !.byRef = IsVar]
      /\ ds = [i \in DOMAIN ids |-> ds[i]]
  BY <1>1 DEF Parameters
<1>3. \A i \in DOMAIN ids : DOMAIN ds[i] = DeclFields /\ ds[i].outer = current
  BY <1>2 DEF Decl, DeclFields
<1>4. Fresh(ds)
  BY <1>2, <1>3, FreshMany
<1> QED BY <1>1, <1>4

LEMMA FieldQuiet ==
  ASSUME Coherence, calls # <<>>,
         Evaluates("field", [v EXCEPT !.Fields = @ \o FieldsOf(v.Ids, v.D)],
                   ~IsType(v.D) /\ v.Ids # <<>>)
  PROVE  Quietly
<1>1. Kept("field", [v EXCEPT !.Fields = @ \o FieldsOf(v.Ids, v.D)])
  BY KeptNames, Zenon
<1>2. PICK x : x = [v EXCEPT !.Fields = @ \o FieldsOf(v.Ids, v.D)]
  OBVIOUS
<1>3. PICK e \in BOOLEAN : e <=> ~IsType(v.D) /\ v.Ids # <<>>
  OBVIOUS
<1>4. Evaluates("field", x, e)
  BY <1>2, <1>3, Zenon DEF Evaluates, Report
<1>5. "field" \notin Opening
  BY DEF Opening
<1> QED BY <1>1, <1>2, <1>4, <1>5, EvaluatesQuiet, Zenon

LEMMA DeclarationCoherent == ASSUME Coherence, calls # <<>>, Declaration PROVE Coherence'
<1>1. \A op : op \notin Setting => Kept(op, v)
  BY KeptNames
<1>2. IsSeq(v.Ids)
  BY VFacts
<1>3. CASE Declares("constant", v, actOnConstantDeclaration(v.Name, v.E))
  <2>1. Fresh(<<[Decl("Const", v.Name, current) EXCEPT !.expr = v.E]>>)
    <3>1. PICK x : x = [Decl("Const", v.Name, current) EXCEPT !.expr = v.E]
      OBVIOUS
    <3>2. DOMAIN x = DeclFields /\ x.outer = current
      BY <3>1 DEF Decl, DeclFields
    <3> QED BY <3>1, <3>2, FreshOne, Zenon
  <2>2. Adds
    BY <1>3, <2>1, AddsInserted DEF Declares, actOnConstantDeclaration
  <2> QED BY <1>1, <1>3, <2>2, DeclaresCoherent, NotSetting DEF Declares
<1>4. ASSUME NEW kind, NEW op, op \notin Setting,
             Declares(op, v, actOnTypeDeclaration(kind, v.Name, v.D))
      PROVE  Coherence'
  <2>1. Fresh(<<[Decl(kind, v.Name, current) EXCEPT !.type = v.D]>>)
    <3>1. PICK x : x = [Decl(kind, v.Name, current) EXCEPT !.type = v.D]
      OBVIOUS
    <3>2. DOMAIN x = DeclFields /\ x.outer = current
      BY <3>1 DEF Decl, DeclFields
    <3> QED BY <3>1, <3>2, FreshOne, Zenon
  <2>2. Adds
    BY <1>4, <2>1, AddsTyped DEF Declares, actOnTypeDeclaration
  <2> QED BY <1>1, <1>4, <2>2, DeclaresCoherent DEF Declares
<1>5. CASE Declares("record", v, actOnRecordTypeDeclaration(v.Name, v.Fields))
  <2>1. Fresh(<<[Decl("Record", v.Name, current) EXCEPT !.fields = v.Fields]>>)
    <3>1. PICK x : x = [Decl("Record", v.Name, current) EXCEPT !.fields = v.Fields]
      OBVIOUS
    <3>2. DOMAIN x = DeclFields /\ x.outer = current
      BY <3>1 DEF Decl, DeclFields
    <3> QED BY <3>1, <3>2, FreshOne, Zenon
  <2>2. Adds
    BY <1>5, <2>1, AddsInserted, AddsNone DEF Declares, actOnRecordTypeDeclaration
  <2> QED BY <1>1, <1>5, <2>2, DeclaresCoherent, NotSetting DEF Declares
<1>6. CASE Declares("variable", v, actOnVariableDeclaration(v.Ids, v.D))
  <2>1. Adds
    BY <1>2, <1>6, VariablesFresh, AddsTyped DEF Declares, actOnVariableDeclaration
  <2> QED BY <1>1, <1>6, <2>1, DeclaresCoherent, NotSetting DEF Declares
<1>7. CASE Evaluates("field", [v EXCEPT !.Fields = @ \o FieldsOf(v.Ids, v.D)],
                     ~IsType(v.D) /\ v.Ids # <<>>)
  <2>1. Quietly
    BY <1>7, FieldQuiet, Zenon
  <2> QED BY <2>1, QuietCoherent
<1> QED BY <1>3, <1>4, <1>5, <1>6, <1>7, NotSetting, Zenon DEF Declaration

\* What is created is the declaration after the ones that were there.
LEMMA CreatedOne ==
  ASSUME Coherence, NEW x, DOMAIN x = DeclFields, x.outer = current, decls' = decls \o <<x>>
  PROVE  /\ Len(decls) + 1 \in DOMAIN decls' /\ decls'[Len(decls) + 1].outer = current
         /\ Grows(decls, decls') /\ Declared(decls')
<1>1. Fresh(<<x>>) /\ 1 \in DOMAIN <<x>>
  BY FreshOne
<1> QED BY <1>1, Appended

LEMMA ProcedureCoherent == ASSUME Coherence, calls # <<>>, Procedure PROVE Coherence'
<1>1. /\ \A op : op \notin Setting => Kept(op, v)
      /\ \A op, x : op \notin Setting => Kept(op, [v EXCEPT !.Params = x])
  BY KeptNames
<1>2. IsSeq(v.Ids)
  BY VFacts
<1>3. CASE Declares("newProcedure", [v EXCEPT !.D = Len(decls) + 1], actOnProcedureDeclaration(tok))
  <2>1. PICK x : x = [Decl("Proc", tok, current) EXCEPT !.type = Unset]
    OBVIOUS
  <2>2. DOMAIN x = DeclFields /\ x.outer = current
    BY <2>1 DEF Decl, DeclFields
  <2>3. insert(<<x>>) /\ current' = current
    BY <1>3, <2>1 DEF Declares, actOnProcedureDeclaration
  <2>4. Adds
    BY <2>2, <2>3, FreshOne, AddsInserted
  <2>5. decls' = decls \o <<x>>
    BY <2>3 DEF insert
  <2>6. Len(decls) + 1 \in DOMAIN decls' /\ decls'[Len(decls) + 1].outer = current
    BY <2>2, <2>5, CreatedOne
  <2> QED BY <1>3, <2>3, <2>4, <2>6, CreatedCoherent DEF Declares
<1>4. CASE Declares("parameter",
                    [v EXCEPT !.Params = @ \o (IF IsType(v.D)
                                                 THEN InsertedDecls(Parameters(v.Ids, v.D, v.IsVar))
                                                 ELSE <<>>)],
                    actOnFormalParameterDeclaration(v.Ids, v.D, v.IsVar))
  <2>1. PICK x : x = v.Params \o (IF IsType(v.D)
                                    THEN InsertedDecls(Parameters(v.Ids, v.D, v.IsVar)) ELSE <<>>)
    OBVIOUS
  <2>2. Adds
    BY <1>2, <1>4, ParametersFresh, AddsTyped DEF Declares, actOnFormalParameterDeclaration
  <2>3. Doing("parameter") /\ Done([v EXCEPT !.Params = x]) /\ current' = current
    BY <1>4, <2>1, Zenon DEF Declares
  <2> QED BY <1>1, <2>2, <2>3, DeclaresCoherent, NotSetting
<1>5. CASE Declares("heading", v, actOnProcedureHeading(v.D, v.Params, v.Ret) /\ UNCHANGED scopes)
  <2>1. Adds
    BY <1>5, AddsHeading, Zenon DEF Declares
  <2> QED BY <1>1, <1>5, <2>1, DeclaresCoherent, NotSetting DEF Declares
<1>6. CASE Evaluates("endProcedure", v, tok # decls[v.D].name)
  <2>1. Quietly
    BY <1>1, <1>6, EvaluatesPlain, NotSetting, Zenon
  <2> QED BY <2>1, QuietCoherent
<1> QED BY <1>3, <1>4, <1>5, <1>6, Zenon DEF Procedure

LEMMA ModuleCoherent == ASSUME Coherence, calls # <<>>, Module PROVE Coherence'
<1>1. \A op : op \notin Setting => Kept(op, v)
  BY KeptNames
<1>2. CASE Declares("newModule", [v EXCEPT !.D = Len(decls) + 1],
                    decls' = Append(decls, Decl("Module", tok, current))
                    /\ UNCHANGED <<scopes, errors>>)
  <2>1. PICK x : x = Decl("Module", tok, current)
    OBVIOUS
  <2>2. DOMAIN x = DeclFields /\ x.outer = current
    BY <2>1 DEF Decl, DeclFields
  <2>3. decls' = Append(decls, x) /\ scopes' = scopes /\ current' = current
    BY <1>2, <2>1 DEF Declares
  <2>4. decls' = decls \o <<x>>
    <3>1. PICK S : decls \in Seq(S)
      BY DEF Coherence, Coherent, Declared, IsSeq
    <3>2. decls \in Seq(S \cup {x}) /\ x \in S \cup {x}
      BY <3>1, SeqMonotonic
    <3>3. Append(decls, x) = decls \o <<x>>
      BY <3>2, AppendIsConcat
    <3> QED BY <2>3, <3>3
  <2>5. /\ Len(decls) + 1 \in DOMAIN decls' /\ decls'[Len(decls) + 1].outer = current
        /\ Grows(decls, decls') /\ Declared(decls')
    BY <2>2, <2>4, CreatedOne
  <2>6. Bound(scopes, decls')
    BY <2>5 DEF Coherence, Coherent, Bound, Grows
  <2>7. Adds
    BY <2>3, <2>5, <2>6 DEF Adds
  <2> QED BY <1>2, <2>3, <2>5, <2>7, CreatedCoherent DEF Declares
<1>3. CASE Evaluates("import", v, TRUE)
  <2>1. Quietly
    BY <1>1, <1>3, EvaluatesPlain, NotSetting, Zenon
  <2> QED BY <2>1, QuietCoherent
<1>4. CASE Evaluates("endModule", v, tok # decls[v.D].name)
  <2>1. Quietly
    BY <1>1, <1>4, EvaluatesPlain, NotSetting, Zenon
  <2> QED BY <2>1, QuietCoherent
<1> QED BY <1>2, <1>3, <1>4, Zenon DEF Module

LEMMA AnalyseCoherent == ASSUME Coherence, Analyse PROVE Coherence'
<1>1. CASE calls # <<>>
  <2>1. \/ TakeToken \/ LookUp \/ Operand \/ Operation \/ Statement
        \/ Declaration \/ Procedure \/ Module \/ EnterDeclScope
    BY DEF Analyse
  <2>2. TakeToken \/ LookUp \/ Operand \/ Operation \/ Statement => Quietly
    BY <1>1, TakeTokenQuiet, LookUpQuiet, OperandQuiet, OperationQuiet, StatementQuiet, Zenon
  <2> QED BY <1>1, <2>1, <2>2, QuietCoherent, DeclarationCoherent, ProcedureCoherent,
             ModuleCoherent, EnterCoherent, Zenon
<1>2. CASE calls = <<>>
  <2>1. ~\E op : Doing(op)
    BY <1>2 DEF Doing
  <2> QED BY <2>1, Zenon DEF Analyse, TakeToken, LookUp, Operand, Operation, Statement,
             Declaration, Procedure, Module, EnterDeclScope, Evaluates, Declares
<1> QED BY <1>1, <1>2

LEMMA DoneQuiet ==
  ASSUME Coherence, NEW op, Doing(op), op \in {"advance", "expect", "consume"}, Done(v),
         decls' = decls, scopes' = scopes, current' = current
  PROVE  Quietly
<1>1. op \notin Opening /\ op # "lookup" /\ op # "field"
  BY DEF Opening
<1>2. DOMAIN v = DOMAIN Locals /\ IsSeq(v.Ids)
  BY VFacts DEF Doing
<1>3. Kept(op, v)
  BY <1>1, <1>2 DEF Kept
<1> QED BY <1>1, <1>3, Zenon DEF Quietly

LEMMA StepCoherent == ASSUME Coherence, [Next]_vars PROVE Coherence'
<1>1. CASE DoAdvance
  BY <1>1, DoneQuiet, QuietCoherent DEF DoAdvance, semaVars
<1>2. CASE DoExpect
  <2>1. Doing("expect") /\ (Done(v) \/ Recover)
        /\ decls' = decls /\ scopes' = scopes /\ current' = current
    BY <1>2 DEF DoExpect
  <2> QED BY <2>1, DoneQuiet, QuietCoherent, RecoverCoherent DEF Doing
<1>3. CASE DoConsume
  <2>1. Doing("consume") /\ (Done(v) \/ Recover)
        /\ decls' = decls /\ scopes' = scopes /\ current' = current
    BY <1>3 DEF DoConsume, semaVars
  <2> QED BY <2>1, DoneQuiet, QuietCoherent, RecoverCoherent DEF Doing
<1>4. CASE DoWhen
  BY <1>4, WhenCoherent
<1>5. CASE DoWhile
  BY <1>5, WhileCoherent
<1>6. CASE DoCall
  BY <1>6, CallCoherent
<1>7. CASE DoFail
  BY <1>7, RecoverCoherent DEF DoFail, Doing, semaVars
<1>8. CASE DoReturn
  BY <1>8, LeaveCoherent DEF DoReturn
<1>9. CASE Resynchronise
  BY <1>9, LeaveCoherent DEF Resynchronise, Doing
<1>10. CASE Skip
  BY <1>10, LeaveCoherent, UnchangedCoherent DEF Skip, Doing, semaVars
<1>11. CASE Crash
  BY <1>11, UnchangedCoherent DEF Crash, semaVars
<1>12. CASE Analyse
  BY <1>12, AnalyseCoherent
<1>13. CASE UNCHANGED vars
  BY <1>13, UnchangedCoherent DEF vars, semaVars
<1> QED BY <1>1, <1>2, <1>3, <1>4, <1>5, <1>6, <1>7, <1>8, <1>9, <1>10, <1>11, <1>12, <1>13, Zenon
        DEF Next, Step, Halt

\* Before the parser runs, and before it has been called.
LEMMA StartCoherent ==
  /\ Coherent(<<Frame("parse", Locals, None)>>, InitialScopes, InitialDecls, Null)
  /\ Coherent(<<>>, InitialScopes, InitialDecls, Null)
<1>1. PICK f : f = Frame("parse", Locals, None)
  OBVIOUS
<1>2. /\ f.locals = Locals /\ f.out = None /\ f.scoped = FALSE /\ f.rest = Rules["parse"].body
      /\ DOMAIN f = {"fn", "rest", "locals", "out", "scoped"}
  BY <1>1 DEF Frame
<1>3. "parse" \in DOMAIN Rules
  BY DEF Rules
<1>4. Left(f.rest)
  BY <1>2, <1>3, Bodies DEF Left
<1>5. None \in Outs /\ IsSeq(Locals.Ids)
  <2>1. None \in Outs
    BY DEF Outs, OwnOuts, None
  <2>2. Locals.Ids = <<>> /\ <<>> \in Seq({})
    BY DEF Locals
  <2> QED BY <2>1, <2>2 DEF IsSeq
<1>6. PICK c, e, s, d : c = <<f>> /\ e = <<>> /\ s = InitialScopes /\ d = InitialDecls
  OBVIOUS
<1>7. /\ IsSeq(d) /\ DOMAIN d = 1..4
      /\ \A i \in 1..4 : DOMAIN d[i] = DeclFields /\ d[i].outer = Null
  <2>1. PICK x1, x2, x3, x4 :
          /\ x1 = Decl("Pervasive", "INTEGER", Null)
          /\ x2 = Decl("Pervasive", "BOOLEAN", Null)
          /\ x3 = [Decl("Const", "TRUE", Null) EXCEPT !.expr = BooleanLiteral(TRUE)]
          /\ x4 = [Decl("Const", "FALSE", Null) EXCEPT !.expr = BooleanLiteral(FALSE)]
    OBVIOUS
  <2>2. \A x \in {x1, x2, x3, x4} : DOMAIN x = DeclFields /\ x.outer = Null
    <3>1. DOMAIN x1 = DeclFields /\ x1.outer = Null
      BY <2>1 DEF Decl, DeclFields
    <3>2. DOMAIN x2 = DeclFields /\ x2.outer = Null
      BY <2>1 DEF Decl, DeclFields
    <3>3. DOMAIN x3 = DeclFields /\ x3.outer = Null
      BY <2>1 DEF Decl, DeclFields
    <3>4. DOMAIN x4 = DeclFields /\ x4.outer = Null
      BY <2>1 DEF Decl, DeclFields
    <3> QED BY <3>1, <3>2, <3>3, <3>4
  <2>3. d = <<x1, x2, x3, x4>>
    BY <1>6, <2>1 DEF InitialDecls
  <2>4. d \in Seq({x1, x2, x3, x4}) /\ DOMAIN d = 1..4
    BY <2>3
  <2>5. \A i \in 1..4 : d[i] \in {x1, x2, x3, x4}
    BY <2>3
  <2> QED BY <2>2, <2>4, <2>5 DEF IsSeq
<1>8. /\ IsSeq(s) /\ Len(s) = 1 /\ DOMAIN s = {1}
      /\ \A x \in DOMAIN s[1] : s[1][x] \in 1..4
  <2>1. PICK g : g = [INTEGER |-> IntegerType, BOOLEAN |-> BooleanType,
                      TRUE |-> TrueConst, FALSE |-> FalseConst]
    OBVIOUS
  <2>2. \A x \in DOMAIN g : g[x] \in 1..4
    BY <2>1 DEF IntegerType, BooleanType, TrueConst, FalseConst
  <2>3. s = <<g>>
    BY <1>6, <2>1 DEF InitialScopes
  <2>4. s \in Seq({g}) /\ Len(s) = 1 /\ DOMAIN s = {1} /\ s[1] = g
    BY <2>3
  <2> QED BY <2>2, <2>4 DEF IsSeq
<1>9. Cardinality({}) = 0
  BY FS_EmptySet
<1>10. ASSUME NEW x, IsSeq(x), \A k \in DOMAIN x : x[k] = f
       PROVE  Matches(x, s, d, Null) /\ Holds(x, s, d)
  <2>1. ScopedIn(x) = {} /\ \A k : OpenedIn(x, k) = {}
    BY <1>2, <1>10 DEF ScopedIn, OpenedIn
  <2>2. \A k : EnclosingIn(x, k) = Null
    BY <2>1 DEF EnclosingIn
  <2>3. Len(s) = Cardinality(ScopedIn(x)) + 1
    BY <1>8, <1>9, <2>1
  <2>4. Null = EnclosingIn(x, Len(x))
    BY <2>2
  <2>5. Matches(x, s, d, Null)
    BY <2>1, <2>3, <2>4 DEF Matches
  <2>6. Holds(x, s, d)
    BY <1>7, <1>8, <1>9, <2>1, <2>2 DEF Holds
  <2> QED BY <2>5, <2>6
<1>11. Declared(d) /\ Bound(s, d)
  BY <1>7, <1>8 DEF Declared, Bound
<1>12. IsSeq(c) /\ DOMAIN c = {1} /\ Len(c) = 1 /\ c[1] = f
  <2>1. c \in Seq({f}) /\ DOMAIN c = {1} /\ Len(c) = 1 /\ c[1] = f
    BY <1>6
  <2> QED BY <2>1 DEF IsSeq
<1>13. IsSeq(e) /\ DOMAIN e = {}
  <2>1. e \in Seq({}) /\ DOMAIN e = {}
    BY <1>6
  <2> QED BY <2>1 DEF IsSeq
<1>14. Active(c, d, Null) /\ Active(e, d, Null)
  <2>1. WellFormed(f, d) /\ Ready(f, d, Null)
    BY <1>2, <1>4, <1>5, LeftEntersNot DEF WellFormed, Ready
  <2> QED BY <1>12, <1>13, <2>1 DEF Active
<1>15. Coherent(c, s, d, Null) /\ Coherent(e, s, d, Null)
  BY <1>10, <1>11, <1>12, <1>13, <1>14 DEF Coherent
<1> QED BY <1>1, <1>6, <1>15, Zenon

LEMMA InitCoherent == ASSUME Init PROVE Coherence
  BY StartCoherent, Zenon DEF Init, initialize, Coherence

LEMMA CoherenceHolds == Spec => []Coherence
<1>1. Init => Coherence
  BY InitCoherent
<1>2. Coherence /\ [Next]_vars => Coherence'
  BY StepCoherent
<1> QED BY <1>1, <1>2, PTL DEF Spec

LEMMA SameScopes ==
  /\ Scoped = ScopedIn(calls)
  /\ \A k : Opened(k) = OpenedIn(calls, k) /\ Enclosing(k) = EnclosingIn(calls, k)
<1>1. Scoped = ScopedIn(calls)
  BY DEF Scoped, ScopedIn
<1>2. \A k : Opened(k) = OpenedIn(calls, k)
  BY <1>1 DEF Opened, OpenedIn
<1>3. ASSUME NEW k PROVE Enclosing(k) = EnclosingIn(calls, k)
  <2>1. PICK S : S = OpenedIn(calls, k)
    OBVIOUS
  <2>2. Enclosing(k) = IF S = {} THEN Null
                       ELSE calls[CHOOSE j \in S : \A i \in S : i <= j].locals.D
    <3>1. S = Opened(k)
      BY <1>2, <2>1
    <3> QED BY <3>1 DEF Enclosing
  <2>3. EnclosingIn(calls, k) = IF S = {} THEN Null
                       ELSE calls[CHOOSE j \in S : \A i \in S : i <= j].locals.D
    BY <2>1 DEF EnclosingIn
  <2> QED BY <2>2, <2>3
<1> QED BY <1>1, <1>2, <1>3

\* Whatever the text, and however often the parser recovers, the scopes that are open are
\* those of the parse functions that are active and have entered one, and each is
\* enclosed by the one before.
THEOREM ScopesMatchCallsHolds == Spec => []ScopesMatchCalls
<1>1. Coherence => ScopesMatchCalls
  BY SameScopes DEF Coherence, Coherent, Matches, ScopesMatchCalls
<1> QED BY <1>1, CoherenceHolds, PTL

\* What is declared in a scope is enclosed by the declaration the scope is of, whatever
\* was skipped in between.
THEOREM ScopesHoldOwnHolds == Spec => []ScopesHoldOwn
<1>1. Coherence => ScopesHoldOwn
  BY SameScopes DEF Coherence, Coherent, Holds, ScopesHoldOwn
<1> QED BY <1>1, CoherenceHolds, PTL

=============================================================================
