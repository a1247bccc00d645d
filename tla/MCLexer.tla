------------------------------- MODULE MCLexer ------------------------------
(* Texts for Lexer. *)
EXTENDS Lexer

Words(chars, n) == UNION {[1..k -> chars] : k \in 0..n}

\* Short texts of every class of characters, and longer ones of the characters that
\* comments are made of, or hexadecimal numbers, or strings.
MCTexts == Words({"a", "F", "H", "1", "\"", "'", "(", "*", ")", ":", "=", ";", " ", "nl", "["}, 3)
           \cup Words({"(", "*", ")"}, 8)
           \cup Words({"1", "F", "H", "a", " "}, 5)
           \cup Words({"\"", "'", "nl", "a", "("}, 5)
=============================================================================
