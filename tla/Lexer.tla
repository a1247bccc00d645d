------------------------------- MODULE Lexer --------------------------------
(***************************************************************************)
(* The lexer of tinylang (tinylang/lib/Lexer/Lexer.cpp): next, called until   *)
(* the end of the file, on a buffer that ends with a null character.         *)
(*                                                                         *)
(* A character stands for all that the lexer treats alike: "a" for the letters *)
(* after F but H, "F" for A to F, "1" for the digits, "nl" for the vertical   *)
(* blanks, "[" for those without a case.  Each step is an iteration of a loop *)
(* of the code, or what it does between two loops.                          *)
(***************************************************************************)
EXTENDS Integers, Sequences

CONSTANT Texts          \* the buffers, without the null character

ASSUME TextsAssumption == Texts \subseteq Seq(STRING)

VARIABLES text,         \* CurBuf
          cur,          \* CurPtr
          end,          \* End of the function that scans
          scanning,     \* that function
          level,        \* Level of comment
          spans,        \* the tokens and the comments found so far
          reported      \* what Diags was told

vars == <<text, cur, end, scanning, level, spans, reported>>

(* charinfo. *)

VerticalWhitespace == {"nl"}
Whitespace == {" "} \cup VerticalWhitespace
Digits == {"1"}
HexDigits == Digits \cup {"F"}
IdentifierHead == {"a", "F", "H"}
IdentifierBody == IdentifierHead \cup Digits
Quotes == {"\"", "'"}
Singles == {"=", "#", "+", "-", "*", "/", ",", ".", ";", ")"}
Pairs == {":", "<", ">"}     \* alone, or before "="

NUL == "nul"
At(p) == IF p \in 1..Len(text) THEN text[p] ELSE NUL

\* The buffer is not read behind its null character.
Inside == cur <= Len(text) + 1

(* The steps. *)

Span(kind, to) == [kind |-> kind, from |-> cur, to |-> to]

\* A token that takes one character more than it has.
formTokenLong(kind, to) ==
  /\ spans' = Append(spans, Span(kind, to)) /\ cur' = to + 1
  /\ scanning' = "next"
  /\ UNCHANGED <<text, end, level>>

\* formToken
formToken(kind, to) ==
  /\ spans' = Append(spans, Span(kind, to)) /\ cur' = to
  /\ scanning' = "next"
  /\ UNCHANGED <<text, end, level>>

Next1 == scanning = "next" /\ Inside

Blank == /\ Next1 /\ At(cur) \in Whitespace
         /\ cur' = cur + 1
         /\ UNCHANGED <<text, end, scanning, level, spans, reported>>

Scan(function, from, lev) ==
  /\ scanning' = function /\ end' = from /\ level' = lev
  /\ UNCHANGED <<text, cur, spans, reported>>

Start ==
  /\ Next1
  /\ \/ At(cur) \in IdentifierHead /\ Scan("identifier", cur + 1, level)
     \/ At(cur) \in Digits /\ Scan("number", cur + 1, level)
     \/ At(cur) \in Quotes /\ Scan("string", cur + 1, level)
     \/ At(cur) = "(" /\ At(cur + 1) = "*" /\ Scan("comment", cur + 2, 1)
     \/ At(cur) = NUL /\ Scan("eof", end, level)

Punctuator ==
  /\ Next1 /\ UNCHANGED reported
  /\ \/ At(cur) \in Singles /\ formToken(At(cur), cur + 1)
     \/ At(cur) \in Pairs /\ At(cur + 1) = "=" /\ formToken("pair", cur + 2)
     \/ At(cur) \in Pairs /\ At(cur + 1) # "=" /\ formToken(At(cur), cur + 1)
     \/ At(cur) = "(" /\ At(cur + 1) # "*" /\ formToken("(", cur + 1)

\* A loop that does not advance.
AdvanceNot(n) == UNCHANGED vars

\* More characters of what is scanned.
Advance(n) == /\ end' = end + n
              /\ UNCHANGED <<text, cur, scanning, level, spans, reported>>

Report(what) == reported' = reported \cup what

identifier ==
  /\ scanning = "identifier"
  /\ \/ At(end) \in IdentifierBody /\ Advance(1)
     \/ At(end) \notin IdentifierBody /\ formToken("identifier", end) /\ UNCHANGED reported

\* IsHex: a hexadecimal digit was read that is not a digit.
IsHex == \E p \in cur..end - 1 : At(p) \notin Digits

number ==
  /\ scanning = "number"
  /\ \/ At(end) \in HexDigits /\ Advance(1)
     \/ At(end) = "H" /\ formToken("integer", end + 1) /\ UNCHANGED reported
     \/ /\ At(end) \notin HexDigits \cup {"H"} /\ formToken("integer", end)
        /\ Report(IF IsHex THEN {"hexDigit"} ELSE {})

\* A string that any quote ends.
stringAnyQuote ==
  /\ scanning = "string"
  /\ LET stops == At(end) \in {NUL} \cup Quotes \cup VerticalWhitespace
     IN  \/ ~stops /\ Advance(1)
         \/ /\ stops /\ formToken("string", end + 1)
            /\ Report(IF At(end) \in VerticalWhitespace THEN {"string"} ELSE {})

\* The end of the buffer ends a string as its quote does.
string ==
  /\ scanning = "string"
  /\ LET stops == At(end) \in {NUL, At(cur)} \cup VerticalWhitespace
     IN  \/ ~stops /\ Advance(1)
         \/ /\ stops /\ formToken("string", end + 1)
            /\ Report(IF At(end) \in VerticalWhitespace THEN {"string"} ELSE {})

\* Levels counted twice.
NestTwice(by) == /\ end' = end + 2 /\ level' = level + 2 * by
                 /\ UNCHANGED <<text, cur, scanning, spans, reported>>

Nest(by) == /\ end' = end + 2 /\ level' = level + by
            /\ UNCHANGED <<text, cur, scanning, spans, reported>>

comment ==
  /\ scanning = "comment" /\ At(end) # NUL /\ level > 0
  /\ LET opens == At(end) = "(" /\ At(end + 1) = "*"
         closes == At(end) = "*" /\ At(end + 1) = ")"
     IN  \/ opens /\ Nest(1)
         \/ closes /\ Nest(-1)
         \/ ~opens /\ ~closes /\ Advance(1)

\* An unterminated comment is not reported.
endCommentSilently ==
  /\ scanning = "comment" /\ (At(end) = NUL \/ level = 0)
  /\ formToken("comment", end) /\ UNCHANGED reported

\* A comment that ends behind the null character, as a string does.
endCommentPast ==
  /\ scanning = "comment" /\ (At(end) = NUL \/ level = 0)
  /\ formToken("comment", IF At(end) = NUL THEN end + 1 ELSE end)
  /\ Report(IF At(end) = NUL THEN {"comment"} ELSE {})

\* The end of the buffer behind a comment counts as the end of the buffer in it.
endComment ==
  /\ scanning = "comment" /\ (At(end) = NUL \/ level = 0)
  /\ formToken("comment", end)
  /\ Report(IF At(end) = NUL THEN {"comment"} ELSE {})

\* The lexer says eof, or unknown, from now on; or it reads what is behind the
\* buffer, which is not described.
Unknown == scanning = "next" /\ Inside /\ At(cur) = "["

Halt == /\ scanning = "eof" \/ ~Inside \/ Unknown
        /\ UNCHANGED vars

Init == /\ text \in Texts /\ cur = 1 /\ end = 1
        /\ scanning = "next" /\ level = 0 /\ spans = <<>> /\ reported = {}

Step == \/ Blank \/ Start \/ Punctuator
        \/ identifier \/ number \/ string \/ comment \/ endComment

Next == Step \/ Halt

Spec == Init /\ [][Next]_vars /\ WF_vars(Step)

(* Properties. *)

Kinds == {"identifier", "integer", "string", "comment", "pair", "("} \cup Singles \cup Pairs
Spans == [kind : Kinds, from : Nat, to : Nat]

TypeOK ==
  /\ text \in Seq(STRING) /\ cur \in Nat \ {0} /\ end \in Nat \ {0} /\ level \in Nat
  /\ scanning \in {"next", "identifier", "number", "string", "comment", "eof"}
  /\ spans \in Seq(Spans)
  /\ reported \subseteq {"hexDigit", "string", "comment"}

\* Every character up to CurPtr is a blank, or in a token or a comment; those are in
\* the order of the text and do not overlap: nothing is lost or read twice between
\* the calls of next.
Tiled ==
  /\ \A i \in DOMAIN spans :
       /\ spans[i].from < spans[i].to /\ spans[i].to <= cur
       /\ \A j \in 1..i - 1 : spans[j].to <= spans[i].from
  /\ \A p \in 1..cur - 1 :
       At(p) \in Whitespace \/ \E i \in DOMAIN spans : p \in spans[i].from..spans[i].to - 1

\* The text of a token is of its kind and could not be longer.
SpelledAs(s, told) ==
  LET Of(kind) == s.kind = kind
  IN  /\ Of("identifier") => /\ At(s.from) \in IdentifierHead
                             /\ \A p \in s.from + 1..s.to - 1 : At(p) \in IdentifierBody
                             /\ At(s.to) \notin IdentifierBody
      /\ Of("integer") => /\ At(s.from) \in Digits
                          /\ \A p \in s.from..s.to - 2 : At(p) \in HexDigits
                          /\ \/ At(s.to - 1) = "H"
                             \/ At(s.to - 1) \in HexDigits /\ At(s.to) \notin HexDigits \cup {"H"}
      /\ Of("string") => /\ At(s.from) \in Quotes
                         /\ \A p \in s.from + 1..s.to - 2 :
                              At(p) \notin {At(s.from)} \cup VerticalWhitespace
                         /\ \/ At(s.to - 1) = At(s.from)
                            \/ At(s.to - 1) \in VerticalWhitespace /\ "string" \in told
                            \/ At(s.to - 1) = NUL
      /\ (Of(":") \/ Of("<") \/ Of(">")) => At(s.to) # "="
      /\ Of("(") => At(s.to) # "*"

\* So are all tokens.  A string without its quote was reported, or the buffer ended.
Spelled == \A i \in DOMAIN spans : SpelledAs(spans[i], reported)

\* A comment ends with the mark that closes it, which shares no character with the
\* one that opens it.
Closed(s) == /\ s.to - s.from >= 4
             /\ At(s.to - 2) = "*" /\ At(s.to - 1) = ")"

\* So do all comments, unless one was reported.
CommentsClosed ==
  "comment" \notin reported =>
    \A i \in DOMAIN spans : spans[i].kind = "comment" => Closed(spans[i])

\* CurPtr leaves the buffer only behind a string that has no closing quote before
\* the end of the file.
LeavesByString ==
  ~Inside => /\ spans # <<>> /\ spans[Len(spans)].kind = "string"
             /\ spans[Len(spans)].to = Len(text) + 2

\* Whatever the text, no scan of blanks, of a word, a string or a comment goes on for
\* ever: the lexer comes to the end or to a character that no token starts with, where
\* next makes a token without moving.  What that means for the parser is in Parser.
Termination == <>(scanning = "eof" \/ ~Inside \/ Unknown)
=============================================================================
