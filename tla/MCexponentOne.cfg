CONSTANTS
  Patterns <- PowerPatterns
  Idents <- MCIdents
  Numbers <- MCNumbers
  Literal <- BeyondLiteral
  MaxWord = 2047
  Garbage <- MCGarbage
  Inputs <- MCInputs
SPECIFICATION Spec
INVARIANT PowersRight
