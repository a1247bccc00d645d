------------------------------- MODULE MCCalc -------------------------------
(* Texts and words for CalcRun. *)
EXTENDS CalcRun

MCIdents == {"x", "y"}
MCNumbers == {"0", "1", "2", "3", "4", "5", "6", "7", "8", "9", "10", "9999"}

MCLiteral(t) ==
  (CHOOSE i \in 1..12 :
     <<"0", "1", "2", "3", "4", "5", "6", "7", "8", "9", "10", "9999">>[i] = t) - 1

\* "9999" is beyond the word.
BeyondLiteral(t) == IF t = "9999" THEN 2 * MaxWord ELSE MCLiteral(t)

With(ids) == << {"with"}, ids, {":"} >>

\* Any short text, with a variable or without.
Tokens == {"2", "x", "(", ")", "-", "/", "^", "?"}
Free(n) == [i \in 1..n |-> Tokens]

\* The clause of variables and its errors, names used and not declared.
Clause == << {"with", ","}, {"x", "2"}, {",", ":", "x"}, {"x", "y"}, {",", ":"}, {"y", "2"}, {"+"}, {"x"} >>

\* All operators in a row, by constants.
Row == << {"2"}, Operators, {"3"}, Operators, {"2"}, Operators, {"2"} >>

\* Powers, with every constant exponent and one that is not.
Powers == With({"x"}) \o << {"2", "x"}, {"^"}, MCNumbers \cup {"x"}, {"+", "^", "%"}, {"x"} >>

\* Divisions and powers of computed values.
Mixed == With({"x"}) \o << {"("}, {"2", "x"}, {"-", "/"}, {"x"}, {")"}, {"/", "^"},
                           {"("}, {"x"}, {"-", "%"}, {"2"}, {")"} >>

\* The least int by -1.
Least == << {"9999"}, {"/", "%", "-"}, {"("}, {"0"}, {"-"}, {"1"}, {")"} >>

MCPatterns == {Free(5), With({"x"}) \o Free(5), Clause, Row, Powers, Mixed, Least}
PowerPatterns == {With({"x"}) \o << {"3"}, {"^"}, {"x"} >>}

MCInputs == {-1, 0, 1, 2, 3}
MCGarbage == {-2048, 0, 2}
=============================================================================
