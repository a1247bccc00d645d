CONSTANTS
  Programs <- OnlyArrayType
  Names <- AllNames
  Alphabet <- NoEdits
  MaxEdits = 0
SPECIFICATION Spec
PROPERTY Termination
