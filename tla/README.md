# Verification of Learn-LLVM17's tinylang and calc compilers

The repository holds two small compilers built on LLVM, a pair of LLVM passes and
a collection of IR examples. Nothing in it runs concurrently: what is hard here is
*order*. Two kinds of it matter: the order in which recursive functions of one
component touch state another call of the same component still holds, and the
order of legal calls (emit, branch, seal, read) that only particular programs
produce. The specifications below therefore model the recursion explicitly, one
stack frame per active call, and let TLC put the programs together.

## 1. Inventory

Paths are relative to `src/`.

| component | code | state | operations | what makes it correct |
|---|---|---|---|---|
| SSA construction | `tinylang/lib/CodeGen/CGProcedure.cpp:7-144` | `CurrentDef` (per block `Defs`, `IncompletePhis`, `Sealed`), the phis of the function and their use lists | read/write a local variable, add an empty phi, fill it, simplify it, seal a block | every use gets the value of its variable; no phi is judged, erased or used at the wrong time; the recursion ends |
| procedure emission | `CGProcedure.cpp:146-206`, `:208-284`, `:286-654` | current block, blocks a statement has created, operands held while an expression is emitted | emit assignment, IF, WHILE, RETURN; `run` | every block is sealed once, after its last predecessor; one terminator per block |
| module emission | `CGModule.cpp`, `CodeGenerator.cpp` | cache of converted types, the declarations still to come, symbols | convert types, declare globals, run the procedures | the conversion of a type ends and meets only types; symbols are distinct |
| debug info, TBAA | `CGDebugInfo.cpp`, `CGTBAA.cpp` | caches of type nodes | describe types and variables | caches agree with the types |
| lexer | `tinylang/lib/Lexer/Lexer.cpp` | buffer position | next token | every character belongs to one token, comment or blank; a token is as its kind says; each scan ends |
| parser | `tinylang/lib/Parser/Parser.cpp` | one token of look-ahead | recursive descent, skip to a synchronising token | it ends on every input; scopes balance on error paths |
| semantic analysis | `tinylang/lib/Sema/Sema.cpp`, `Scope.cpp` | chain of scopes, current declaration | enter/leave a scope, declare, look up, check types, fold constants | declarations are visible where they should be; types agree; an earlier error is survived |
| AST | `tinylang/include/tinylang/AST/AST.h` | plain data | constructors, accessors | - |
| basic | `tinylang/lib/Basic` | error counter | report | one counter for each file |
| driver | `tinylang/tools/driver/Driver.cpp` | list of files, options | parse, emit, write one file after the other | a file does not depend on the one before; a rejected file gives no output |
| calc compiler | `calc/src` | token, names, tree, error flag; the builder, the landing pad | parse, check, emit (with exceptions for division by zero, and a loop for powers) | no text is dropped silently; the program computes the expression |
| calc runtime | `calc/rtcalc.cpp` | none | read and write a number | - |
| CountIR passes | `countirpass/lib`, `countirpasslegacy/lib` | two statistics | count blocks and instructions | - |
| IR examples | `IR_Examples` | - | - | not a program of this repository |

**Interaction.** The driver creates lexer, semantic analysis and parser for each
file; the parser pulls tokens and calls the semantic actions, which build the AST
and keep the scopes; the code generator walks the AST, with one `CGProcedure` per
procedure; `CGProcedure` asks `CGModule` for types and globals. Inside
`CGProcedure` the emitters call the SSA construction, which calls itself. calc is
a compiler of its own: `main` parses, checks, generates and writes the module, and
what it has generated is linked with `rtcalc.cpp`, which it calls to read its
variables and to write its result.

**What is hard.** (a) Mutual recursion over shared maps: `readLocalVariable`,
`addPhiOperands`, `optimizePhi` and `sealBlock` run inside each other. (b) Raw
pointers to phis held across calls that erase phis. (c) The discipline of sealing,
spread over five call sites. (d) Recovery after errors: tokens skipped, null
declarations, scopes left open, one file after another in one process. (e) Edges:
the end of the buffer, constant folding, exponents, division by zero inside of a loop.
`PROJECT.json` lists each hazard at its line.

## 2. Plan

| order | module | models | state |
|---|---|---|---|
| 1 | `SSAConstruction` | on-the-fly SSA construction | done |
| 2 | `CGProcedure` | the emitters, composed with 1 | done |
| 3 | `BlockSealing` | what 2 promises about blocks; 2 implements it | done, proved |
| 4 | `CGProcedureExec` | the emitted function, executed beside the source procedure | done |
| 5 | `Sema` | scopes, declarations, types of expressions, what is reported, which null pointers are used | done |
| 6 | `ParserRules`, `Parser` | the parse functions and their error handlers, composed with 5 | done, proved |
| 7 | `Lexer` | the scan of a buffer, character by character | done, proved |
| 8 | `CalcParser`, `CalcGen`, `CalcRun` | the compiler calc, composed with the program it emits and its runtime | done, proved but for what needs induction over the tree |
| 9 | `CGModule`, `Driver` | files, errors, the conversion of types, symbols, output; composed with 5 and 6 | done, its types, its symbols and what it reports proved |

Each compiler is composed once from end to end: `Driver` over `Parser`, `Sema` and
`CGModule`, `CalcRun` over `CalcParser` and `CalcGen`. `CGProcedure` is not part of
`Driver`: it chooses its procedure from a menu, and is composed with the execution of
what it emits instead. The proofs are in modules `*_proofs`
beside the modules they are about. Still worth proving: the part of `HeldValuesAlive`
that `UsedValuesAlive` leaves out.

## 3. What is modelled

### SSAConstruction

The functions of `CGProcedure.cpp:7-144`, as a stack machine. `calls` has one frame
per active call:

| frame | stands for |
|---|---|
| `read` | `readLocalVariable(BB, Decl)` that has not looked yet |
| `write` | `readLocalVariableRecursive` waiting for the value it writes at line 66 |
| `fill` | `addPhiOperands(BB, Decl, Phi)`; the number of operands the phi has is the loop variable |
| `opt` | `optimizePhi(Phi)` |
| `reopt` | `optimizePhi` after the phi is erased, in the loop over `CandidatePhis` |

`ret` is the value of the last call. `phis` holds the phi instructions of the
function, `users` the use list of each, newest first as LLVM keeps them, because
`CandidatePhis` is collected from it in that order and with repetitions. A value is
a tagged tuple: null, undef, a literal, an argument, an instruction or a phi; types
and names are left out. `Defs` holds `TrackingVH`s, so `ReplaceAndErase` rewrites
it; frames, operands and candidates are raw pointers, so it does not rewrite them.
`sealBlock` iterates over a `DenseMap` keyed by pointers: `SealPhi` takes the
entries in any order.

`AssertsOn` chooses the build. With assertions a null definition stops the compiler
(`status = "abort"`); without them emission goes on with the null. Use of an erased
phi stops the model (`"ub"`), as does the null dereference in `writeVariable`
(`"crash"`): what happens after undefined behaviour is not described.

### CGProcedure

The emitters. The procedure is chosen while it is emitted: the statement at
position `i` is any member of `Menu[i]`, so that one run covers all procedures
that can be put together from the menu. `pc` is where the driver is (`fetch` a
statement, evaluate its `operands`, `seal` blocks and enter the next one, `done`);
`ctl` has one frame per unfinished IF or WHILE and names the blocks its emitter has
in local variables and has not entered yet. An ELSE part has one statement at least
(that is how the source knows it is there), so the step that enters one chooses the first
of `ElseMenu`, and `stmt` holds it until it is begun; `sealq` and `next` are the calls of
`sealBlock` and `setCurr` the emitter makes before it goes on.

| action | code |
|---|---|
| `BeginSimple`, `BeginIf`, `BeginWhileReusing`, `BeginWhile` | `emit`, the start of `emitStmt(IfStatement)` (494-499) and of `emitStmt(WhileStatement)` (540-560) |
| `ReadLocal`, `TakeOperand`, `LoadMemory` | `emitExpr` and `readVariable` |
| `AssignLocal`, `AssignGlobal`, `AssignVarParameter` | `writeVariable`'s branches |
| `BranchIf`, `BranchWhile` | 504-514, 563-566 |
| `EndThen`, `EndIf`, `EndWhile`, `EndProcedure` | 518-533, 568-572, 651-653 |
| `Seal`, `SealStep`, `SealEnd`, `SetCurr` | the calls of `sealBlock` and `setCurr` |

An expression is the list of variables it mentions; its result is a new instruction,
or any constant when all operands are constants, because `IRBuilder` folds. A
declaration is a local variable, a value parameter, a `VAR` parameter or a global.
Arrays, records, pointers and aggregate locals are not modelled.

### BlockSealing

What `CGProcedure.h:38` says of a sealed block, as a specification of its own:
blocks are created open, gain predecessors and incomplete phis only while open, and
are sealed once, which settles their incomplete phis. `ImplementsBlockSealing` is
the refinement, with `waiting` mapped to `incomplete`.

### CGProcedureExec

When emission is done the function is executed along every path of its branches,
together with the source procedure. `src` is what each variable holds according to
the procedure, `tok` what each instruction holds according to the IR. A run-time
value is the instruction that made it and one bit that flips each time it is
executed, so that the values of consecutive iterations differ. `UsesAgree`: each
operand of an instruction holds what its variable holds. Variables that have not
been assigned may hold anything. Cases in which a WHILE reuses a block that has
definitions are set aside in `UsesAgree` and are the subject of `stale_condition`.

### Sema

The semantic analysis. `decls` is the heap of declarations, and a `Decl*` the index
of one, 0 for null; `scopes` is `CurrentScope` with its parents, each a function
from names to declarations; `current` is `CurrentDecl`; `errors` says whether
anything has been reported. An expression keeps what the analysis asks of it: its
class, its type, whether it is constant, the value of a Boolean literal. Each
`actOn` function that declares is an action; each that builds an expression is an
operator, with a companion for the error it reports (`TermError`, `AssignmentError`,
...), because the code reports and goes on. `RetType` of a procedure starts as
`Unset`: its constructor leaves it uninitialised.

The code casts what earlier errors have left null. `AssignmentCrashes`,
`FoldCrashes`, `NotCrashes`, `DesignatorCrashes` and `ReturnCrashes` say when the
next step dereferences a null pointer; `isa` and `dyn_cast` of null count as that.

### ParserRules and Parser

`ParserRules` has one rule per parse function: the tokens at which its
`_errorhandler` stops, and its body as a sequence of instructions (`Advance`,
`Expect`, `Consume`, `When`, `While`, `Call`, and `Act` for a semantic action).
`Parser` runs them: `calls` has a frame per active call with its local variables,
the reference parameters it has to write back, and whether its `EnterDeclScope` is
alive.

| action | code |
|---|---|
| `DoAdvance`, `DoExpect`, `DoConsume` | `advance`, `expect` (reports), `consume` (does not), `Parser.h:40-68` |
| `DoWhen`, `DoWhile`, `DoCall`, `DoFail`, `DoReturn` | the control flow of the parse functions |
| `Resynchronise`, `Skip` | the loop of `_errorhandler`: a token of the set ends it with `false`, "no error"; the end of the file with `true`, after which the caller's handler runs |
| `Analyse` | the `actOn` functions of `Sema`, grouped as `TakeToken`, `LookUp`, `Operand`, `Operation`, `Statement`, `Declaration`, `Procedure`, `Module`, `EnterDeclScope` |
| `Crash` | a null pointer is used |

The text is one of `Programs` with at most `MaxEdits` edits, decided while the lexer
reads: a token is dropped, put in or replaced, or the text ends. A token is its kind,
or the name of an identifier; values of integer literals are left out. The lexer has
no case for `[`, `]` and `^`, so the branches behind them cannot be reached and are
left out, except that the lexer stays at such a character (`unknown`). No module is
ever in scope, so a qualified name has one part and every import is an error.

### Lexer

`Lexer::next`, called until it says eof, on a buffer with a null character behind it.
A step is one iteration of a loop, or what the code does between two loops; `cur` is
`CurPtr`, `end` the local `End`, `level` the nesting of comments. A character stands
for all that the lexer treats alike, so that keywords, which are identifiers found in
a table, are identifiers here.

| action | code (`Lexer.cpp`) |
|---|---|
| `Blank`, `Start`, `Punctuator` | `next`: blanks, the first character, the switch |
| `identifier`, `number`, `string` | the functions of these names |
| `comment`, `endComment` | the loop of `comment` and what follows it |
| `formToken` | `formToken`; a span is kept for a comment too, so that `Tiled` can speak of it |

A string that the end of the file cuts short leaves `CurPtr` behind the null
character. What the lexer reads from there is not described: the model stops.

### CGModule and Driver

`Driver` is `main`: for each file new diagnostics, a new analysis and parser, whose
`Step` runs inside `Parse`; then, only with a module and without an error, the
generator. `results` keeps what became of each file.

| action | code |
|---|---|
| `ReadError`, `ReadFile` | `Driver.cpp:383-399`; after the message of a file that cannot be read the null buffer is dereferenced |
| `Parse`, `EndParse` | the call of `parse`, the test before `CodeGenerator::run` |
| `Generate`, `FatalError` | `CGModule::run`, one declaration a step; what it and `CGProcedure` have not implemented ends the process |
| `Emit` | `emit`, by its outcomes: kept, or not |

`CGModule` holds what `run` goes through (`todo`), the cache of converted types and
the symbols. `convertType` is a recursive function over the declarations, which is
defined because `TypesWellFounded` holds. The path of names stands for the mangled
one: each part is preceded by its length.

### CalcParser, CalcGen and CalcRun

`CalcParser` is the parser: one frame per active parse function, `ret` what the last
one returned, `nodes` the heap of the tree. The text is chosen while it is read, from
a pattern of sets of tokens, and may end anywhere.

| action | code (`Parser.cpp`) |
|---|---|
| `WithClause`, `WithName`, `WithNames`, `WithError`, `Drain`, `Finish` | `parseCalc` with its `_error` loop, and the test for the end of the input in `parse` |
| `ParseOperand`, `Join`, `TakeOperator`, `ReturnLeft` | `parseExpr` and `parseTerm`, which differ in their operators and in whom they call |
| `Leaf`, `OpenParen`, `CloseParen`, `NoFactor`, `Skip`, `ReturnFactor` | `parseFactor`, with the fall-through behind a parenthesis and the loop that skips |

`CalcGen` is `ToIRVisitor`: one frame per active visit, the value `V` they share, and
`ir`, which is the function under construction with its `IRBuilder` and the landing
pad. Instructions are records; two constants are folded as they are emitted.
`Divide`, `addThrow`, `Expand`, `LoopConstant` and `LoopVariable` follow `visit` of a
`BinaryOp` and `generateExponent` block by block. `Main` is what `main` does between
the parser and the generator, `SemanticErrors` what `Sema` finds.

`CalcRun` runs the emitted `main`: `pc`, `regs`, the memory cells of the loop
counters, what `calc_write` was given. Words have `2 * MaxWord + 2` values. A result
that does not fit is poison, and an operand that is poison, null, or was not executed
stops the run. `Meaning` is the value of the tree by the rules of arithmetic, written
without the generator; `Computes` compares the two.

## 4. Runs

`MCProcedure` gives two value parameters `x`, `y`, a local `l`, a `VAR` parameter
`r` and a global `g`, one literal, and the menus. Operands in memory leave the maps
alone, so a condition on `g` stands for every condition that reads no local.

| run | bound | shows |
|---|---|---|
| `loops` | 10 statements: a conditional and a second loop in a loop, the assignments free, one of them a use of the uninitialised local; assertions off | `TypeOK`, `PhiComplete`, `JoinsBreakCycles`, `OptimizesOnlyComplete`, `UnderConstructionAlive`, `HeldValuesAlive`, the action property `NoInsertDuringSeal`, `Termination` |
| `exec` | an assignment, then any 4 statements of 12 forms, memory, an uninitialised local and RETURN among them, emitted and executed; assertions on | `Ownership`, `SealedOnce`, `AllSealed`, `ReadsStayLocal`, `UsesAgree`, and the refinement `ImplementsBlockSealing` |
| `null_definition` | any 4 statements of 8 forms; assertions on | violated: the null written at a join |
| `use_after_erase` | as `loops`, assertions on | violated: a candidate erased twice |
| `stale_condition` | as `null_definition`, executed | violated: the condition reads the value from before the loop |
| `endless_read` | any 3 statements of 6 forms, an uninitialised local among what they read; assertions on | violated: a read goes round the entry block |
| `recovery` | two files: the first one of 3 programs with one edit of any token, the second correct | `DriverTypeOK`, `ScopesMatchCalls`, `ScopesHoldOwn`, `ReturnTypeKnown`, `TypesKnown`, `ProgramsCompile`, `TypesWellFounded`, `FilesIndependent`, `SymbolsDistinct`, `NullReported`, `NeverRebound`, `ProcessEnds` |
| `lexer` | all texts of 3 characters of 15 classes; of 8 of `(`, `*`, `)`; of 5 that make numbers, or strings | `TypeOK`, `Tiled`, `Spelled`, `CommentsClosed`, `LeavesByString`, `Termination` |
| `calc` | any 5 of 8 tokens, with a variable or without, and five patterns; inputs -1 to 3 | `TypeOK`, `TreesWhole`, `NothingLost`, `Precedence`, `WellFormed`, `DefinedBeforeUse`, `Computes`, `CalcEnds` |
| `silent_skip` | one program: an IF without THEN | violated: it compiles, with the statement skipped |
| `unknown_token` | one program: an array type | violated: the parser does not end |
| `exponent_one` | `with x: 3 ^ x` | violated: for `x` = 1 it writes 9 |

**Why the bounds are enough.** Four free statements give two nested or consecutive
loops, an IF with ELSE in a loop, a join after a loop, and the procedure may stop
inside any of them (open statements are closed when the menu ends). What needs more
than that is the simplification of phis that use each other: it takes two loops
around a join, which is the fixed frame of `loops`. An ELSE part begins with an
assignment, which leaves its block empty, with a WHILE, which then makes that block its
header, or with an IF; what follows is free. One literal and two parameters
are enough to tell equal from different operands. Nothing else is bounded: the
numbers of blocks, phis and frames follow from the menu.

The three programs of `MCParser` take every branch of every rule that the lexer lets
through and that a correct program may take; an edit drops a token, cuts the text, or
puts in one of 18: tokens at which some handler stops or some list goes on, a
declared and an undeclared name, a token no rule takes. One edit is enough for
recovery: between two errors a handler remembers nothing but what the model's state
shows, and what the second error would meet, a null local or a missing declaration,
the rest of the program meets as well. The second file has an edit of its own nowhere:
its part is to meet what the first has left behind, and the first may have been
kept, not written or rejected.

In `lexer` the longest mark has two characters, so three show every pair of
neighbouring tokens; comments nest, so they get eight, which is two levels that share
no character. A string or a number has a state of one bit (which quote, whether a
letter was seen).

Five tokens of `calc` are a parenthesised operation, or two operators and what is
missing, doubled or junk between them; behind the variable's clause they read an
input. `Row` has three operators of all six kinds in a row, `Powers` every constant
exponent from 0 to 10 and one that is read, `Mixed` divisions and powers whose
operands are divisions, so that the blocks of one are built inside of the other,
`Clause` the errors of the clause, `Least` the least number by -1. `MaxWord` is 2047,
large enough that 2 to the 10 and 3 to the 3 to the 1 fit and 10 to the 10 does not;
9999 stands for a number that does not fit an `int`. The inputs have a negative, both
neutral numbers and two that tell a power from a product. An `int` that was not
initialised holds one of three values of `Garbage`.

**Assertions on or off.** With assertions on, nearly every program with a join stops
at the finding `null_definition`; properties of phis and of their simplification are
therefore checked in the build without them, in which emission goes on (`loops`). What
the emitters do with blocks is checked with them on, in `exec`, where a join that reads
only memory lets every nesting through; section 6 proves it for both builds.

**Fairness.** `Spec` assumes `WF_vars(Next)`: the compiler is one sequential thread
and takes its next step as long as there is one. Nothing else is assumed; in
particular the choices of statements are not fair. `Termination` of `CGProcedure` says
that the emission stops or finishes, unless nothing branches to the header of a loop
before the loop itself does (`Unentered`): there a read can go round for ever, which is
finding 4, and the run `endless_read`. None of the procedures of `loops` is excused: they
begin with an assignment that emits an instruction, so that no WHILE reuses the entry
block, and read an uninitialised local behind and inside of their loops. Lexer, driver, calc and the program calc emits are
sequential as well: `Spec` of `Lexer` is fair to `Step`, `DriverSpec` to `DriverNext`,
`Spec` of `CalcRun` to `Next`, in each case to the one thread there is and to nothing
it chooses. `ProcessEnds` holds for the tokens of `recovery`, none of which is unknown
to the lexer; it says that no handler and no list goes on at the end of a file.

**Deadlock** is checked in every run: the only state without another action is a
stopped one, where `Halt` stutters.

## 5. Findings

Seven disagreements between the code and what it says of itself, one run each; the
quotes and lines are in `PROJECT.json`.

1. `CGProcedure.cpp:63` writes `Val`, still null, where the comment speaks of the
   empty phi: the compiler aborts at the first read in a sealed block with several
   predecessors (`null_definition`).
2. `:130` calls `optimizePhi` on a phi it has already erased when that phi used the
   erased one twice (`use_after_erase`).
3. `:549-553` takes over an empty block that already has definitions; the condition
   never sees the loop's (`stale_condition`).
4. `:52-55` reads through a block with one predecessor before anything is written for
   it. When a procedure begins with a WHILE (5.3 reuses the entry block) the end of the
   loop is the only predecessor of its header, and the read of an uninitialised local
   goes round: the compiler's stack overflows (`endless_read`). The same happens, with
   any variable, where a WHILE follows an IF that returns in both of its parts, and so has
   a header that nothing else branches to. Every other header is a join, and at a join the
   recursion ends: `JoinsBreakCycles`.
5. `Parser.h:60`: `consume` fails without a report and the handler then resynchronises
   without an error, so that an IF without THEN is left out of a program that compiles
   (`silent_skip`).
6. `Lexer.cpp:187` does not move past a character it does not know, and no handler
   ends (`unknown_token`). Brackets are among them, so no array type can be parsed.
7. `calc/src/CodeGen.cpp:312`: the loop for an exponent that is not a constant
   multiplies before it tests, so that an exponent of 1 squares (`exponent_one`).
   `Computes` sets these texts aside, by `RunTimeOne`.

Seen while modelling, in the models, but asserted by no run:

- *Procedures.* An assignment to a `VAR` parameter dereferences `V`, null in this
  branch (`CGProcedure.cpp:199`). A loop that ends behind a RETURN gets two
  terminators (`:568`). Without assertions the null of 5.1 becomes an operand of a phi.
- *Analysis.* `Sema.cpp:62` lacks a negation: variables are rejected for `VAR`
  parameters, other expressions accepted. An assignment to or from something
  undeclared (`Sema.cpp:312`), RETURN in the body of the module (`:380`), NOT of a
  declared constant and `1 OR 2` (`:434` and after), a type that is not declared
  (`:123` and after) and an undeclared name before a period (`Parser.cpp:1182`)
  dereference a null pointer. A sign applies to the whole sum behind it, not to its
  first term.
- *Driver.* A file that cannot be read is dereferenced behind its message
  (`Driver.cpp:383-396`). The exit code is 0 whatever was reported. A text that ends
  early without a report compiles as a module without declarations. Statements of a
  module and nested procedures are never emitted; calls and pointer types stop the
  whole process.
- *calc.* Names, numbers, `(`, `,` and `:` behind a factor are skipped without a report
  (`calc/src/Parser.cpp:156`): `2 3` is compiled as 2. The right side of `^` is a whole term: `2 * 3 ^ 2` is the square of 6 and
  `2 ^ 3 * 4` is 2 to the 12. A negative exponent gives the square of the base. A
  number too long for an `int` is used without having been converted; constants that
  overflow wrap.

## 6. Proofs

| theorem | module | statement |
|---|---|---|
| `OwnershipHolds` | `CGProcedure_proofs` | `Spec => []Ownership` |
| `SealedOnceHolds` | `CGProcedure_proofs` | `Spec => []SealedOnce` |
| `TypeCorrect` | `CGProcedure_proofs` | `Spec => []TypeOK` |
| `Refinement` | `CGProcedure_proofs` | `Spec => ImplementsBlockSealing` |
| `AllSealedHolds` | `CGProcedure_proofs` | `Spec => []AllSealed` |
| `ReadsStayLocalHolds` | `CGProcedure_proofs` | `Spec => []ReadsStayLocal` |
| `NoInsertHolds` | `CGProcedure_proofs` | `Spec => NoInsertDuringSeal` |
| `PhiCompleteHolds` | `Phis_proofs` | `Spec => []PhiComplete` |
| `OptimizesOnlyCompleteHolds` | `Phis_proofs` | `Spec => []OptimizesOnlyComplete` |
| `UnderConstructionAliveHolds` | `Phis_proofs` | `Spec => []UnderConstructionAlive` |
| `UsedValuesAliveHolds` | `Phis_proofs` | `Spec => []UsedValuesAlive` |
| `JoinsBreakCyclesHolds` | `Phis_proofs` | `Spec => []JoinsBreakCycles` |
| `TypeCorrect` | `Lexer_proofs` | `Spec => []TypeOK` |
| `TiledHolds` | `Lexer_proofs` | `Spec => []Tiled` |
| `SpelledHolds` | `Lexer_proofs` | `Spec => []Spelled` |
| `CommentsClosedHolds` | `Lexer_proofs` | `Spec => []CommentsClosed` |
| `LeavesByStringHolds` | `Lexer_proofs` | `Spec => []LeavesByString` |
| `NamesNeverRebound` | `Parser_proofs` | `Spec => NeverRebound` |
| `ScopesMatchCallsHolds` | `Parser_proofs` | `Spec => []ScopesMatchCalls` |
| `ScopesHoldOwnHolds` | `Parser_proofs` | `Spec => []ScopesHoldOwn` |
| `DriverScopesMatchCalls` | `Driver_proofs` | `DriverSpec => [](ScopesMatchCalls /\ ScopesHoldOwn)` |
| `DriverTypesWellFounded` | `Driver_proofs` | `DriverSpec => []TypesWellFounded` |
| `DriverNullReported` | `Driver_proofs` | `DriverSpec => []NullReported` |
| `DriverReturnTypeKnown` | `Driver_proofs` | `DriverSpec => []ReturnTypeKnown` |
| `DriverTypesKnown` | `Driver_proofs` | `DriverSpec => []TypesKnown` |
| `DriverSymbolsDistinct` | `Driver_proofs` | `DriverSpec => []SymbolsDistinct` |
| `ParserInvariant` | `CalcParser_proofs` | `Spec => []IInv` |
| `AcceptedTreesWhole` | `CalcParser_proofs` | `Spec => []TreesWhole` |
| `AcceptedPrecedence` | `CalcParser_proofs` | `Spec => []Precedence` |
| `CalcInvariant` | `CalcRun_proofs` | `Spec => []CalcInv` |
| `CalcTyped` | `CalcRun_proofs` | `Spec => []TypeOK` |
| `ProgramsWellFormed` | `CalcRun_proofs` | `Spec => []WellFormed` |
| `NothingUndefined` | `CalcRun_proofs` | `Spec => []DefinedBeforeUse` |

The first twelve are about `CGProcedure`, for every set `Vars` of declarations, every
`Literals`, `Storage`, `Menu`, `ElseMenu` and both values of `AssertsOn`, under the named
assumptions `AssertsAssumption`, `StorageAssumption`, `MenuAssumption` and
`ElseAssumption`, which only give their types (an ELSE part does not begin with an END). Those of the lexer hold for all texts (`TextsAssumption`: they are
sequences of characters), those of the parser for all programs and any number of edits
(`EditsAssumption`: it is a number; `TokensAssumption`: a text is a sequence of strings
other than `"eof"`, which is what the lexer returns behind a text, `Lexer.cpp:104`), those
of the driver for any further files as well (`OthersAssumption`: they are such texts), those of calc for all patterns, hence texts of
any length (`PatternsAssumption`: they are sequences of sets of strings, as is the mark of
the end of a text a string). Those about the programs that calc emits also hold for words
of any width (`WordAssumption`), for numerals of any value (`LiteralAssumption`), for any
`int` that `getAsInteger` leaves unset where the numeral is too large
(`GarbageAssumption`), and for any ints that `calc_read` returns (`InputsAssumption`).

**Blocks.** `sealBlock` is called from five places and its assertion is about
all of them together, so "no block is sealed twice" is not inductive. What is: every
open block is *owed* exactly one seal, by the driver (`Upcoming`: the current block,
the queue, the block entered next) or by exactly one unfinished statement (`Owed`),
and nobody owes a sealed block (`SealDiscipline`). `ControlShape` says which blocks a
frame owns in which phase; `BlocksOK` numbers the blocks. Their conjunction `IInv` is
inductive: an IF or WHILE pushes a frame that owns the blocks it creates
(`PushDiscipline`), branches hand blocks from the frame to the driver
(`ReplaceDiscipline`), its end hands over the rest (`PopDiscipline`), and the recursive
functions create and seal nothing (`SSAStepKeeps`). `Ownership` is checked by
`exec` too, so TLC sees the strengthening itself.

`Refinement` follows: an edge goes to a block that is owed or new, hence open
(`BranchRefines`, `EndRefines`), and an incomplete phi is registered only where
`Sealed` is false. `AllSealed` follows from ownership: at the end nobody owes
anything. `ReadsStayLocal` needs `OneRead`: a statement's read is in the current
block, which is open, so it hits or returns a new phi at once. `NoInsertDuringSeal`
needs `Covered`: while a block is sealed, every variable that the recursion can ask
for in it is already defined there, because an incomplete phi is written to `Defs`
when it is registered and definitions are never removed.

**Phis.** `PhiInv` says that a phi is in one of three states: it waits in
`IncompletePhis`, without operands (`Pending`), it is being filled (`Filling`), or it
has one operand for each predecessor and its block is sealed or being sealed (`Whole`).
`optimizePhi` goes on to whoever uses the phi it has erased, so "it judges only whole
phis" depends on who may be a user. While a phi is being filled, the only phis erased
are those that joins have created meanwhile, and these are *hidden*: `Defs` holds the
null of `CGProcedure.cpp:63` for them until the recursion returns, so no operand and no
definition refers to them (`Usable`), their use lists are empty (`UsersOK`) and their
simplification goes on to nobody. Only when the phi that `sealBlock` asked for is whole
itself, and no other is being filled, does the optimization spread (`InChain`), and
then to phis that do not wait (`Optimizable`). It may meet one that is erased already
(5.2), which stops the model. The null written at a join is what keeps the phis in
order when assertions are off, and what stops the compiler when they are on (5.1).
The proof needs `OneRead`, `Covered` and the ownership of blocks. `UsedValuesAlive` is
the part of `HeldValuesAlive` about what the rest of the emission uses.

**Cycles.** `JoinsBreakCycles` is about the calls that build a phi at a join: no two of
them, one inside of the other, are of one block and variable. What makes it inductive is
`Seen`: wherever such a call works its variable has a definition, be it the null of 5.1, so
a read that comes back finds that and is a hit. A block with one predecessor has no such
definition, which is why `NoReentrantRead`, the same for all blocks, fails (5.4).

**Lexer.** The invariant is the conjunction of the five properties with `ScanOK`, which
says of each scanning function what it has behind it: an identifier's characters are
those of identifiers, a string has met no quote and no end of line, a comment has
passed its opening mark and, once its level is 0, has just passed the closing one.
`formToken` then adds one span that begins at `CurPtr` and ends where `CurPtr` goes
(`Tiled`), and is spelled as `ScanOK` says (`Spelled`, `CommentsClosed`). Only a string
ends behind the character it stopped at, which may be the null character
(`LeavesByString`).

**Names.** Each step leaves the chain of scopes alone, appends an empty scope, cuts the
innermost one off, or extends the innermost one by names it does not have
(`Stays`, `Opens`, `Closes`, `Extends`); every semantic action is one of these, and
a handler does what a return does.

**Scopes.** Calls nest, and so do scopes, but only some calls have one and each enters
it late. `Parser_proofs` says what a rule does about it (`Bodies`): it creates its
declaration and enters the scope in its first steps, in this order and once, with
nothing in between that could call, or it never enters one. The invariant is
`Coherent`: there are as many scopes as calls that have entered one, plus the outermost;
`current` is the declaration of the innermost of these calls, and the declaration of
each is enclosed by that of the one before. What a declaration is enclosed by is
written when it is made, from `current`, so that the call that makes it has to be the
one that enters its scope, and its `D` must still be that declaration when it does and
for as long as the scope is open: no reference parameter of a call it makes refers to
it, which is why the rules of such calls have arguments of their own (`OwnOuts`). A
handler may run at any point of a rule, and the return behind it leaves what was
entered and nothing else. Between two files there is no call, and the analysis of the
next file starts with one scope (`DriverStepCoherent`).

**Types.** `TypesWellFounded` is about what a text without an error has declared; the
invariant is about every text, and needs no such condition, since a type that is not
known ends the process before a declaration is made of it (`Sema.cpp:123` and after).
`Typed` says that declarations are only appended, that each is made of types that were
there before it, and what the locals of the calls may hold until then: the result of
looking up a name is a declaration or null, each field of a record under construction
has a type, and the declaration of a call with a scope is a procedure or a module, so
that the heading that is completed later is not the type that another declaration has
been made of. It needs `Coherence` for the locals and the scopes to be those of the calls.

**Null declarations.** Which declaration a call has depends on how far it has come in its
rule, so the invariant `Nulls` is about what is left of it. `Guarded` are the instruction
sequences in which no step takes the declaration `D` before a call of `parseQualident`
has set it, on every path through conditions and loops; every rule is one, or opens a
scope of its own and creates its `D` (`GuardedBodies`). As long as no error has been
reported, a call whose `D` is null has a guarded rest, or waits for `parseQualident`;
and `parseQualident`, once it has looked the name up, has found it or reported it. A
handler throws the rest away and returns to a caller whose rest is guarded still, so
that recovery never lands between a lookup and its use. An error that was reported is
not forgotten (`ErrorsStay`).

**Return types.** `Headed` says of a call of `parseProcedureDeclaration` that it knows the
return type of its procedure (`Known`), has not come to the heading (`ToHeading`), or has
failed and has only its handler left; and if it waits for a block, that it knows it.
Before the heading there is no block to wait for (`ToHeadingNext`). The heading sets the
type or reports that there is none (`HeadingSets`); afterwards no step forgets it
(`TypesStay`), and the call's `D` is still the procedure, which is what `Coherence` says of
a call with a scope.

**Types of operands.** That every operand has a type (`TypesKnown`) depends on the one
thing that can have none: a procedure between its creation and its heading. The call of
one that is named by then would be taken for one of a function with whatever type
`RetType` happens to be. `Settled` says that this cannot be: an error has been reported;
or every procedure has a type, or no name can be looked up any more (`Calm`); or the only
procedure without one is that whose heading is being read (`Heading`), and below this call
nothing runs but the functions that read formal parameters (`Formal`), which look up types
and make no operand. The case in which no name can be looked up is that of `consume`,
which fails without a report (5.5): a handler of the formal parameters that finds nothing
to resume at skips to the end of the file and fails, and `parseProcedureDeclaration` fails
with it before its heading. From there nothing is expected successfully any more, as the lexer returns no token after
the end (`Ending`), and a name is looked up only right after it was expected, where the
token is an identifier (`Asked`). `Shapes` says what is left of a rule at each point: what
creates a declaration has not begun to read, or has entered its scope, and only
`parseQualident` writes the `D` of its caller or a return type. Given this, `Operands`
follows by the semantic actions: a constant, a variable, a selector, an operation and a
call of a function have types if their parts have (`GoodDecls`, `AllGood`), a proper
procedure that is called for a value is reported, and arguments are passed on as they
are. The conjunction with `TypesHold` and `Coherence` is the invariant (`KnownHold`).

**Names of symbols.** Two symbols of a module are different because the declarations of
one scope have different names. That is checked against the scope that is open, while
what is generated are the declarations that a module encloses (`outer`), so the proof has
to tie the two together: the chain of scopes is one of declarations, each enclosed by the
one before it, and the scope of each holds the names of all that it encloses
(`Enclosers`). An insertion into the innermost scope keeps that, and reports a name that is
taken (`InsertBinds`); a module, which is not inserted, is not emitted either (`Named`). A
scope that is entered starts without a name, so its declaration must not enclose anything
yet: the step before has created it (`Unused`), since the rules create and enter in two
successive instructions, neither of which can fail. A scope that is left is not entered
again. Declarations that clash are there only if an error has been reported (`Distinct`),
and then the file is not generated. The mangled name is the one of the enclosing
declaration with the name appended (`Mangled`), which takes that a declaration is enclosed
by an earlier one (`Inward`): the path, a recursive function, is defined for the first `n`
declarations for every `n` (`PathExists`, by the smallest counterexample, which needs no
induction theorem). `SymbolsHold` adds that the symbols so far are those of declarations of
one module that `run` has come to, and that those it has not come to are of it as well.

**Trees of calc.** `Precedence` is about finished trees, and says nothing of the frames
in which a tree is under construction. `FrameOK` does: what a frame holds in `Left` is
`Fit` for the function the frame is of, a term no sum and a factor no operation, unless
the text has parentheses or an error was reported; `RetOK` says the same of a value
just returned, for the function that `Callee` says the frame has called, and `StackOK`
that the frame above is indeed a call of that function. `NodesOK` holds of each node
when it is made, because both operands fit, and for good, because nodes never change
and parentheses and errors are not taken back.

**The programs of calc.** `WellFormed` and `DefinedBeforeUse` are about the finished
program; what makes them true happens while it is under construction, when a division or
a power has moved the insertion point between the visits of two operands. `Sound` says of
unfinished code with what is available where: `A` gives for each block the registers and
counters that every path to it has computed; every instruction reads only those and what
its own block computes before it; what is available in a block is so at the end of each
block that branches to it; a phi has a value for each of these, available at its end; and
a block is finished, or is among the open ones. There need not be a best `A`, only some:
an operation that adds blocks has to give an `A` for them and to leave it as it was for the
others. That is what `Delivers` says, once for the pieces all operations are made of (a
straight line, a branch, a loop, a check that throws), then for `Divide`, `addThrow`,
`Expand`, `LoopConstant` and `LoopVariable`: the code is sound again, what was available
where the generator stood is still available where it stands now, and so is the value it
returns. The last conjunct is what a visit relies on that has its `Left` in hand while its
right operand is generated (`VisitsOK`). Names have values because `DeclCheck` has seen
every name of the tree (`WholeTree`, `Variables`), which is where `TreesWhole` is needed.
There is at most one landing pad, made by the first division, and nothing is available
in it (`PadOK`). While the program runs, what the machine has computed so far includes what `A`
says is available where it stands, and, if it has just entered a block, at the end of the
block it came from, which is what its phis read (`RunOK`).

**Only model-checked.** What `HeldValuesAlive` adds to `UsedValuesAlive`: the values
that the calls of `optimizePhi` return within its loop over `CandidatePhis` are alive,
too. The code ignores them, and a proof would have to say which phis can still be
erased when. `UsesAgree` compares two executions. Of `Parser`,
`ProgramsCompile`, which is about the programs of the
run, as `FilesIndependent` of `Driver` is; of `Driver` also `DriverTypeOK`, whose sets of
strings this version of the prover cannot tell a literal to be in. Of
calc, `NothingLost`, whose definition is recursive over the tree, and `Computes`, which
compares two recursive evaluations of it (induction over data is outside of what the proof
system does). `NothingLost` is about what the parser has taken, not about what it skips
(section 5, calc). `NeverRebound` is proved of the parser and
checked with the driver. Liveness is only checked: the `Termination`s of `CGProcedure` and `Lexer`,
`ProcessEnds` and `CalcEnds`.

## 7. Not modelled, and why

- Debug information (only with `-g`) and TBAA metadata: they change no instruction, and
  of their state only caches are ever used: `emitProcedure` is called from nowhere, so
  the stack of scopes holds the file at most.
- Arrays, index and dereference selectors: no text reaches them (5.6). The values of
  integer literals of tinylang: they are only written.
- The bodies of procedures inside of `Driver`: `CGProcedure` is checked by itself.
- The command line, the target machine, plugins and passes of the driver: LLVM's.
- The characters of calc's lexer: it has no state between tokens.
- CountIR: a loop that adds to two statistics. `IR_Examples`: not a program.
- The AST and the diagnostics are data and text. LLVM is external: its instructions,
  use lists and builder appear as far as the generators rely on them.
