CONSTANTS
  Programs <- AllPrograms
  Names <- AllNames
  Alphabet <- Edits
  MaxEdits = 1
  Others <- SecondFile
SPECIFICATION DriverSpec
INVARIANTS DriverTypeOK ScopesMatchCalls ScopesHoldOwn ReturnTypeKnown TypesKnown
           ProgramsCompile TypesWellFounded FilesIndependent SymbolsDistinct NullReported
PROPERTIES NeverRebound ProcessEnds
