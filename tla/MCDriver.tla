------------------------------ MODULE MCDriver ------------------------------
(* Files for Driver. *)
EXTENDS MCParser, Driver

\* What the file before may have left behind would matter to it: it declares names
\* and types, and uses them.
Second ==
  << "MODULE", "M", ";", "TYPE", "T", "=", "INTEGER", ";", "VAR", "x", ":", "T", ";",
     "PROCEDURE", "P", ";", "BEGIN", "x", ":=", "x", "END", "P", ";", "END", "M", "." >>

SecondFile == <<Second>>
=============================================================================
