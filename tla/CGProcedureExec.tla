--------------------------- MODULE CGProcedureExec ----------------------------
(***************************************************************************)
(* The function CGProcedure emitted, executed next to the procedure it was  *)
(* emitted from.  The source keeps the value of each variable in src; the   *)
(* IR keeps the value of each instruction in tok.  Both run the same        *)
(* statements, so every operand of an instruction can be compared with the  *)
(* variable it was emitted for.                                             *)
(***************************************************************************)
EXTENDS CGProcedure

VARIABLES
  at, ip,   \* block and position of the next instruction; NoBlock when not running
  src,      \* value of each variable of the procedure
  tok       \* value of each instruction executed so far

execVars == <<at, ip, src, tok>>

\* An instruction's value differs from the one it had the time before.
NewValue(val) ==
  <<"run", val, IF val \in DOMAIN tok THEN 1 - tok[val][3] ELSE 0>>

\* Constants and arguments are their own values.
ValueOf(val) == IF val \in DOMAIN tok THEN tok[val] ELSE val

ExecInit ==
  /\ Init
  /\ at = NoBlock /\ ip = 1
  /\ src = [v \in Vars |-> IF v \in Parameters THEN Arg(v) ELSE Undef]
  /\ tok = <<>>

Translate == Next /\ ~ Stopped /\ UNCHANGED execVars

Enter ==
  /\ pc = "done" /\ status = "run"
  /\ at = NoBlock /\ tok = <<>> /\ ip = 1
  /\ at' = 1
  /\ UNCHANGED <<vars, ip, src, tok>>

Here == code[at][ip]
AtKind(kinds) == at # NoBlock /\ ip <= Len(code[at]) /\ Here.kind \in kinds

\* Variables in memory are read where they are used.
SourceValue(i) ==
  IF InRegister(Here.reads[i]) THEN src[Here.reads[i]] ELSE ValueOf(Here.vals[i])

Advance == ip' = ip + 1 /\ at' = at /\ UNCHANGED vars

ExecConstant ==
  /\ AtKind({"const"})
  /\ src' = [src EXCEPT ![Here.dst] = Here.res]
  /\ Advance /\ UNCHANGED tok

ExecCopy ==
  /\ AtKind({"copy"})
  /\ src' = [src EXCEPT ![Here.dst] = SourceValue(1)]
  /\ Advance /\ UNCHANGED tok

ExecInstruction ==
  /\ AtKind({"op", "load"})
  /\ tok' = Bind(tok, Here.res, NewValue(Here.res))
  /\ src' = IF Here.kind = "op" THEN [src EXCEPT ![Here.dst] = NewValue(Here.res)]
            ELSE src
  /\ Advance

ExecStore == AtKind({"store"}) /\ Advance /\ UNCHANGED <<src, tok>>

\* Entering a block evaluates its phis at once, on the edge taken.
ExecBranch ==
  /\ AtKind({"br", "ifbr", "whilebr"})
  /\ \E i \in DOMAIN Here.to :
       LET b    == Here.to[i]
           edge == CHOOSE k \in DOMAIN preds[b] : preds[b][k] = at
           here == {p \in DOMAIN phis : phis[p].bb = b}
       IN  /\ at' = b
           /\ tok' = [v \in DOMAIN tok \cup {Phi(p) : p \in here} |->
                        IF \E p \in here : v = Phi(p)
                        THEN ValueOf(phis[v[2]].ops[edge]) ELSE tok[v]]
  /\ ip' = 1
  /\ UNCHANGED <<vars, src>>

ExecReturn ==
  /\ AtKind({"ret"})
  /\ at' = NoBlock /\ ip' = 0
  /\ UNCHANGED <<vars, src, tok>>

ExecHalt == Stopped /\ at = NoBlock /\ (ip = 0 \/ status # "run")
            /\ UNCHANGED <<vars, execVars>>

ExecNext ==
  \/ Translate \/ Enter \/ ExecHalt
  \/ ExecConstant \/ ExecCopy \/ ExecInstruction \/ ExecStore
  \/ ExecBranch \/ ExecReturn

ExecSpec == ExecInit /\ [][ExecNext]_<<vars, execVars>>

-----------------------------------------------------------------------------

\* A WHILE took over a block in which variables were already defined.
HeaderReusedWithDefs ==
  \E b \in Blocks : \E i \in DOMAIN code[b] :
    /\ code[b][i].kind = "whilebr"
    /\ \/ b = 1 /\ Parameters # {}
       \/ \E j \in 1 .. i : code[b][j].kind \in Bookkeeping

OperandsAgree ==
  at # NoBlock /\ ip <= Len(code[at]) =>
    \A i \in DOMAIN Here.reads :
      InRegister(Here.reads[i]) =>
        src[Here.reads[i]] \in {Undef, ValueOf(Here.vals[i])}

UsesAgree == HeaderReusedWithDefs \/ OperandsAgree

=============================================================================
