------------------------------- MODULE Driver -------------------------------
(***************************************************************************)
(* The main function of tinylang (tinylang/tools/driver/Driver.cpp): it reads,  *)
(* parses, generates and writes one file after the other, each with its own    *)
(* diagnostics, semantic analysis and parser, all in one process.              *)
(***************************************************************************)
EXTENDS Parser, CGModule

CONSTANT Others         \* the text of each file behind the first

ASSUME OthersAssumption == Others \in Seq(Seq(Tokens))

VARIABLES phase,      \* what happens to the current file; "gone" if the process died
          results,    \* what became of the files before
          ended       \* the module has got its declarations

driverVars == <<vars, cgVars, phase, results, ended>>

parserVars == vars
File == Len(results) + 1

\* The module that parse returns, or null.
Modules == {d \in DOMAIN decls : decls[d].kind = "Module"}

Dies == phase' = "gone" /\ UNCHANGED results
Becomes(result) == results' = Append(results, result) /\ phase' = "read"

\* A buffer that could not be read is dereferenced after the message.
ReadError == /\ phase = "read" /\ File <= Len(Others) + 1 /\ Dies
             /\ UNCHANGED <<parserVars, cgVars, ended>>

\* Diagnostics made once for all files.
ReadFileKeepingErrors ==
  /\ phase = "read" /\ File <= Len(Others) + 1 /\ phase' = "parse"
  /\ IF File = 1 THEN text' \in Programs /\ edits' = MaxEdits
     ELSE text' = Others[File - 1] /\ edits' = 0
  /\ tok' = "none" /\ calls' = <<Frame("parse", Locals, None)>>
  /\ crashed' = FALSE /\ dropped' = FALSE
  /\ decls' = InitialDecls /\ scopes' = InitialScopes /\ current' = Null
  /\ UNCHANGED errors
  /\ ended' = FALSE
  /\ todo' = {} /\ cached' = {} /\ symbols' = <<>> /\ UNCHANGED results

ReadFile ==
  /\ phase = "read" /\ File <= Len(Others) + 1 /\ phase' = "parse"
  /\ IF File = 1 THEN text' \in Programs /\ edits' = MaxEdits
     ELSE text' = Others[File - 1] /\ edits' = 0
  /\ tok' = "none" /\ calls' = <<Frame("parse", Locals, None)>>
  /\ crashed' = FALSE /\ dropped' = FALSE
  /\ decls' = InitialDecls /\ scopes' = InitialScopes /\ current' = Null
  /\ errors' = FALSE
  /\ ended' = FALSE
  /\ todo' = {} /\ cached' = {} /\ symbols' = <<>> /\ UNCHANGED results

\* The parser runs; at the end of the module setDecls is called.
Parse ==
  /\ phase = "parse" /\ Step
  /\ ended' = (ended \/ Doing("endModule"))
  /\ UNCHANGED <<cgVars, phase, results>>

\* A module is generated only if there is one and nothing was reported.
EndParse ==
  /\ phase = "parse" /\ calls = <<>> /\ ~crashed
  /\ IF Modules # {} /\ ~errors
       THEN /\ phase' = "generate" /\ UNCHANGED results
            /\ todo' = IF ended THEN getDecls(CHOOSE d \in Modules : TRUE) ELSE {}
       ELSE Becomes("rejected") /\ UNCHANGED todo
  /\ UNCHANGED <<parserVars, cached, symbols, ended>>

Generate == /\ phase = "generate" /\ EmitDecl
            /\ UNCHANGED <<parserVars, phase, results, ended>>

FatalError == /\ phase = "generate" /\ Fatal /\ Dies
              /\ UNCHANGED <<parserVars, cgVars, ended>>

\* emit: the passes or the output may be refused, then nothing is kept of it; the
\* driver reports that and goes on.
Emit == /\ phase = "generate" /\ todo = {}
        /\ Becomes("kept") \/ Becomes("not written")
        /\ UNCHANGED <<parserVars, cgVars, ended>>

Died == phase = "gone" \/ crashed
Exit == phase = "read" /\ File > Len(Others) + 1

DriverHalt == /\ Died \/ Exit
              /\ UNCHANGED driverVars

DriverInit ==
  /\ text = <<>> /\ edits = MaxEdits /\ tok = "none" /\ calls = <<>>
  /\ crashed = FALSE /\ dropped = FALSE /\ initialize
  /\ NothingEmitted /\ phase = "read" /\ results = <<>> /\ ended = FALSE

DriverNext ==
  \/ ReadError \/ ReadFile \/ Parse \/ EndParse \/ Generate \/ FatalError \/ Emit
  \/ DriverHalt

DriverSpec == DriverInit /\ [][DriverNext]_driverVars /\ WF_driverVars(DriverNext)

(* Properties. *)

DriverTypeOK ==
  /\ TypeOK
  /\ phase \in {"read", "parse", "generate", "gone"}
  /\ results \in Seq({"rejected", "kept", "not written"}) /\ ended \in BOOLEAN
  /\ todo \subseteq DOMAIN decls /\ cached \subseteq DOMAIN decls
  /\ symbols \in Seq(Seq(STRING))

\* Whatever an earlier file did to its own analysis, a correct file is parsed without
\* an error, and it is not rejected.
FilesIndependent ==
  File > 1 => /\ phase = "parse" => ~errors /\ ~dropped /\ ~crashed
              /\ \A i \in 2..Len(results) : results[i] # "rejected"

\* Each type that an accepted text declares is made of types declared before it, and
\* each variable and parameter has one: their conversion ends, and casts nothing else.
TypesWellFounded ==
  ~errors =>
    \A d \in DOMAIN decls :
      LET parts == IF decls[d].kind \in {"Var", "Param"} THEN {decls[d].type} ELSE Parts(d)
      IN  \A t \in parts : t \in 1..d - 1 /\ IsType(t)

\* No two symbols of a module have one name: LLVM would rename one of them.
SymbolsDistinct == \A i, j \in DOMAIN symbols : symbols[i] = symbols[j] => i = j

\* A null declaration is used only where an error has been reported, so that a text
\* without an undeclared name is never the reason.
NullReported ==
  /\ Doing("alias") \/ Doing("pointer") \/ Doing("field") \/ Doing("variable")
     \/ Doing("parameter") \/ Doing("procCall")
  /\ v.D = Null
  => errors

\* Whatever tokens the texts are of, if the lexer knows them, the process ends: no
\* handler and no list goes on at the end of a file.
ProcessEnds == <>(Died \/ Exit)
=============================================================================
