CONSTANTS
  Programs <- OnlyIfWithoutThen
  Names <- AllNames
  Alphabet <- NoEdits
  MaxEdits = 0
SPECIFICATION Spec
INVARIANT CompiledIsParsed
