CONSTANTS
  Patterns <- MCPatterns
  Idents <- MCIdents
  Numbers <- MCNumbers
  Literal <- BeyondLiteral
  MaxWord = 2047
  Garbage <- MCGarbage
  Inputs <- MCInputs
SPECIFICATION Spec
INVARIANTS TypeOK TreesWhole NothingLost Precedence WellFormed
           DefinedBeforeUse Computes
PROPERTY CalcEnds
