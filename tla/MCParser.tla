------------------------------ MODULE MCParser ------------------------------
(* Programs for Parser. *)
EXTENDS Parser

\* Every kind of declaration, a selector, a sign.
Declarations ==
  << "MODULE", "M", ";",
     "CONST", "c", "=", "integer", ";",
     "TYPE", "T", "=", "RECORD", "f", ",", "g", ":", "INTEGER", ";", "h", ":", "BOOLEAN", "END", ";",
             "U", "=", "POINTER", "TO", "T", ";", "A", "=", "U", ";",
     "VAR", "r", ":", "T", ";", "a", ":", "A", ";",
     "BEGIN", "r", ".", "g", ":=", "-", "c", "END", "M", "." >>

\* Procedures: a call of itself, a local declaration, parameters, calls.
Procedures ==
  << "MODULE", "M", ";",
     "PROCEDURE", "P", ";", "VAR", "x", ":", "INTEGER", ";",
     "BEGIN", "P", "(", ")", ";", "RETURN", "END", "P", ";",
     "PROCEDURE", "f", "(", "x", ",", "y", ":", "INTEGER", ";", "VAR", "b", ":", "BOOLEAN", ")",
        ":", "INTEGER", ";",
     "BEGIN", "RETURN", "f", "(", "x", ",", "integer", ",", "TRUE", ")", "END", "f", ";",
     "BEGIN", "P", "(", ")", "END", "M", "." >>

\* Statements and every level of expression.
Statements ==
  << "MODULE", "M", ";",
     "VAR", "x", ",", "y", ":", "INTEGER", ";", "b", ":", "BOOLEAN", ";",
     "BEGIN", "WHILE", "x", "<", "integer", "DO", "x", ":=", "x", "+", "integer", "*", "x", "END", ";",
     "IF", "NOT", "b", "AND", "(", "x", "#", "integer", ")", "THEN", "x", ":=", "integer",
     "ELSE", "b", ":=", "TRUE", "OR", "FALSE", "END", "END", "M", "." >>

\* An IF without THEN.
IfWithoutThen ==
  << "MODULE", "M", ";", "VAR", "b", ":", "BOOLEAN", ";",
     "BEGIN", "IF", "b", "b", ":=", "FALSE", "END", "M", "." >>

\* An array type: the lexer does not know the bracket.
ArrayType ==
  << "MODULE", "M", ";", "TYPE", "A", "=", "ARRAY", "unknown", "integer" >>

AllNames == {"M", "c", "T", "f", "g", "h", "U", "A", "r", "a", "x", "y", "b", "P", "u",
             "INTEGER", "BOOLEAN", "TRUE", "FALSE"}

AllPrograms == {Declarations, Procedures, Statements}
OnlyArrayType == {ArrayType}
OnlyIfWithoutThen == {IfWithoutThen}

\* Tokens at which some handler stops or some list goes on, names, a token no rule
\* takes.
Edits == {";", "END", "ELSE", ")", "(", ".", ",", ":", "=", "x", "u", "BEGIN", "VAR",
          "PROCEDURE", "RETURN", "NOT", "IMPORT", "string"}
NoEdits == {}
=============================================================================
