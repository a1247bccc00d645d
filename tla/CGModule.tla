------------------------------ MODULE CGModule ------------------------------
(***************************************************************************)
(* The emission of a module (tinylang/lib/CodeGen/CGModule.cpp, the types of    *)
(* procedures in CGProcedure.cpp): which declarations become symbols, which    *)
(* types are converted for them.  What a procedure does is CGProcedure's.      *)
(***************************************************************************)
EXTENDS Sema

VARIABLES todo,       \* the Decls of the module that run has not come to
          cached,     \* TypeCache: the types that have been converted
          symbols     \* the names of the globals and functions made so far

cgVars == <<todo, cached, symbols>>

\* The declarations of the module or procedure d, of which run comes to the first one first.
getDecls(d) == {e \in DOMAIN decls : decls[e].outer = d}
First == CHOOSE d \in todo : \A e \in todo : d <= e

\* What convertType asks of a type: the types it is made of.
Parts(t) ==
  CASE decls[t].kind \in {"Alias", "Pointer"} -> {decls[t].type}
    [] decls[t].kind = "Record" -> {decls[t].fields[i].type : i \in DOMAIN decls[t].fields}
    [] OTHER -> {}

\* All types convertType comes to.  A pointer is none it can convert, and it stops.
Unsupported(t) == decls[t].kind = "Pointer"

convertType(t) ==
  LET converts[u \in DOMAIN decls] ==
        IF Unsupported(u) THEN {u} ELSE {u} \cup UNION {converts[p] : p \in Parts(u)}
  IN  converts[t]

\* createFunctionType and run: the result, the parameters, the local variables.
TypesOf(d) ==
  CASE decls[d].kind = "Var" -> {decls[d].type}
    [] decls[d].kind = "Proc" ->
         ({decls[d].type} \ {Null})
         \cup {decls[decls[d].params[i]].type : i \in DOMAIN decls[d].params}
         \cup {decls[e].type : e \in {e \in DOMAIN decls : decls[e].outer = d
                                                          /\ decls[e].kind = "Var"}}
    [] OTHER -> {}

Converted(d) == UNION {convertType(t) : t \in TypesOf(d)}

\* The path of names; the length before each name keeps the parts apart.
mangleName(d) ==
  LET path[e \in 0..Len(decls)] ==
        IF e = Null THEN <<>> ELSE Append(path[decls[e].outer], decls[e].name)
  IN  path[d]

IsEmitted(d) == decls[d].kind \in {"Var", "Proc"}

\* One declaration.  It fails at a type that cannot be converted.
EmitDecl ==
  /\ todo # {}
  /\ ~\E t \in Converted(First) : Unsupported(t)
  /\ todo' = todo \ {First}
  /\ cached' = cached \cup {t \in Converted(First) : decls[t].kind # "Pervasive"}
  /\ symbols' = IF IsEmitted(First) THEN Append(symbols, mangleName(First)) ELSE symbols

\* report_fatal_error: an unsupported type, or something in the body of a procedure
\* that CGProcedure has not implemented.
Fatal ==
  /\ todo # {}
  /\ \/ \E t \in Converted(First) : Unsupported(t)
     \/ decls[First].kind = "Proc"

NothingEmitted == todo = {} /\ cached = {} /\ symbols = <<>>
=============================================================================
