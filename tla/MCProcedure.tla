------------------------------ MODULE MCProcedure ------------------------------
(***************************************************************************)
(* Instances of CGProcedure for TLC: two value parameters, a local that is  *)
(* not initialised, a VAR parameter and a global; the menus of statements   *)
(* from which procedures are put together.                                  *)
(***************************************************************************)
EXTENDS CGProcedure

CONSTANTS
  x, y,   \* value parameters
  l,      \* a local variable
  r,      \* a VAR parameter
  g       \* a global variable

MCVars == {x, y, l, r, g}
MCStorage ==
  [v \in MCVars |-> CASE v \in {x, y} -> "value" [] v = l -> "local"
                      [] v = r -> "var" [] v = g -> "global"]

Assign(kind, dst, reads) == [kind |-> kind, dst |-> dst, reads |-> reads, els |-> FALSE]
Control(kind, reads) == [kind |-> kind, dst |-> None, reads |-> reads, els |-> FALSE]

\* Conditions on memory leave the variables alone; conditions on x read it.
While == Control("while", <<g>>)
WhileX == Control("while", <<x>>)
If == Control("if", <<g>>)
IfElse == [If EXCEPT !.els = TRUE]
End == Control("end", <<>>)
ReturnX == Control("return", <<x>>)
SetX == Assign("const", x, <<>>)
AddX == Assign("op", x, <<x, y>>)
CopyX == Assign("copy", x, <<y>>)
UseL == Assign("op", y, <<l>>)
CountY == Assign("op", y, <<y>>)

\* What an ELSE part begins with: an assignment, which leaves its block empty, or a
\* WHILE, which then makes that block its header, or an IF.
FirstOfElse == {SetX, While, If}

\* Any four statements.
MixedMenu == [i \in 1 .. 4 |->
  {While, WhileX, If, IfElse, End, SetX, AddX, CopyX}]

\* Control flow, assignments, memory, an uninitialised local and RETURN, after an
\* assignment.
ExecMenu ==
  LET rest == {While, WhileX, If, IfElse, End, SetX, AddX, CopyX, ReturnX, UseL,
               Assign("op", l, <<x, r>>), Assign("op", g, <<x, g>>)}
  IN  << {CountY}, rest, rest, rest, rest >>

\* A loop with a conditional and an inner loop, and the assignments in any form, or
\* to memory, or a RETURN, or a use of the local that is not initialised.
LoopMenu ==
  LET assign == {SetX, AddX, CopyX}
      memory == {Assign("op", g, <<x>>), Assign("op", r, <<x>>), ReturnX}
  IN  << {CountY}, {SetX, AddX}, {While}, {If, IfElse}, {End}, {While, WhileX},
         assign \cup {UseL}, {If, End}, assign \cup memory, {End} >>

\* Three statements, the local that is not initialised among what they read.
FirstMenu == [i \in 1 .. 3 |-> {While, If, End, SetX, AddX, UseL}]

=============================================================================
