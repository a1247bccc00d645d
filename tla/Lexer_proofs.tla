----------------------------- MODULE Lexer_proofs -----------------------------
(***************************************************************************)
(* The safety properties of Lexer, for every set of texts.  They are        *)
(* inductive together with ScanOK, which says what each scanning function    *)
(* has read between cur and end: the tokens and comments it makes of that    *)
(* are then spelled, closed and placed as they should be.                   *)
(***************************************************************************)
EXTENDS Lexer, SequenceTheorems, TLAPS

Scanners == {"identifier", "number", "string", "comment"}

\* What a function has read when it looks at the character at end.
ScanOK ==
  /\ scanning \in Scanners => cur < end /\ end <= Len(text) + 1
  /\ scanning = "identifier" => /\ At(cur) \in IdentifierHead
                                /\ \A p \in cur + 1..end - 1 : At(p) \in IdentifierBody
  /\ scanning = "number" => /\ At(cur) \in Digits
                            /\ \A p \in cur..end - 1 : At(p) \in HexDigits
  /\ scanning = "string" => /\ At(cur) \in Quotes
                            /\ \A p \in cur + 1..end - 1 :
                                 At(p) \notin {At(cur)} \cup VerticalWhitespace
  /\ scanning = "comment" => /\ cur + 2 <= end
                             /\ level = 0 => /\ end - cur >= 4
                                             /\ At(end - 2) = "*" /\ At(end - 1) = ")"
  /\ scanning # "next" => Inside

IInv == TypeOK /\ ScanOK /\ Tiled /\ Spelled /\ CommentsClosed /\ LeavesByString

\* A character that is not the null character is in the buffer.
LEMMA InBuffer ==
  ASSUME TypeOK, NEW p \in Nat \ {0}
  PROVE  /\ Len(text) \in Nat
         /\ At(p) # NUL => p <= Len(text)
<1>1. Len(text) \in Nat
  BY DEF TypeOK
<1> QED BY <1>1 DEF At

\* A sequence with one element more.
LEMMA Appended ==
  ASSUME NEW S, NEW q \in Seq(S), NEW e \in S
  PROVE  /\ Append(q, e) \in Seq(S)
         /\ Len(q) \in Nat /\ DOMAIN q = 1..Len(q)
         /\ Len(Append(q, e)) = Len(q) + 1
         /\ DOMAIN Append(q, e) = 1..Len(q) + 1
         /\ Append(q, e)[Len(q) + 1] = e
         /\ \A i \in 1..Len(q) : Append(q, e)[i] = q[i]
  OBVIOUS

\* What a span is.
LEMMA SpansTyped ==
  ASSUME TypeOK
  PROVE  /\ Len(spans) \in Nat /\ DOMAIN spans = 1..Len(spans)
         /\ \A i \in DOMAIN spans : spans[i].from \in Nat /\ spans[i].to \in Nat
<1>1. spans \in Seq(Spans)
  BY DEF TypeOK
<1>2. \A i \in 1..Len(spans) : spans[i] \in Spans
  BY <1>1, ElementOfSeq
<1> QED BY <1>1, <1>2 DEF Spans

\* Nothing but scanning, end and level changes.
LEMMA Scanned ==
  ASSUME IInv, UNCHANGED <<text, cur, spans, reported>>, TypeOK', ScanOK'
  PROVE  IInv'
<1>1. \A p : At(p)' = At(p)
  BY DEF At
<1>2. Tiled' /\ Spelled' /\ CommentsClosed' /\ LeavesByString'
  BY <1>1 DEF IInv, Tiled, Spelled, CommentsClosed, LeavesByString, SpelledAs, Closed, Inside
<1> QED BY <1>2 DEF IInv

\* A token or comment is made.
LEMMA Formed ==
  ASSUME IInv, Inside, NEW kind \in Kinds, NEW to \in Nat, formToken(kind, to), cur < to,
         \/ to <= Len(text) + 1
         \/ kind = "string" /\ to = Len(text) + 2,
         reported \subseteq reported', reported' \subseteq {"hexDigit", "string", "comment"},
         SpelledAs(Span(kind, to), reported'),
         kind = "comment" /\ "comment" \notin reported' => Closed(Span(kind, to))
  PROVE  IInv'
<1> DEFINE s == Span(kind, to)
           n == Len(spans)
<1>0. TypeOK
  BY DEF IInv
<1>1. /\ s \in Spans
      /\ s.kind = kind /\ s.from = cur /\ s.to = to
  BY DEF Span, Spans, IInv, TypeOK
<1>2. /\ spans' \in Seq(Spans)
      /\ n \in Nat /\ DOMAIN spans = 1..n /\ DOMAIN spans' = 1..n + 1
      /\ Len(spans') = n + 1 /\ spans'[n + 1] = s
      /\ \A i \in 1..n : spans'[i] = spans[i]
  <2>1. spans' = Append(spans, s) /\ spans \in Seq(Spans)
    BY DEF formToken, IInv, TypeOK
  <2> HIDE DEF s
  <2> QED BY <1>1, <2>1, Appended
<1>2b. \A i \in 1..n : spans[i].from \in Nat /\ spans[i].to \in Nat
  BY <1>0, <1>2, SpansTyped
<1> HIDE DEF s, n
<1>3. text' = text /\ cur' = to /\ scanning' = "next" /\ level' = level /\ end' = end
  BY DEF formToken
<1>4. \A p : At(p)' = At(p)
  BY <1>3 DEF At
<1>5. TypeOK'
  BY <1>0, <1>2, <1>3 DEF TypeOK
<1>6. ScanOK'
  BY <1>3 DEF ScanOK, Scanners
<1>7. Tiled'
  <2>2. cur \in Nat
    BY <1>0 DEF TypeOK
  <2>3. ASSUME NEW i \in 1..n + 1
        PROVE  /\ spans'[i].from < spans'[i].to /\ spans'[i].to <= to
               /\ \A j \in 1..i - 1 : spans'[j].to <= spans'[i].from
    <3>1. Tiled
      BY DEF IInv
    <3>2. CASE i = n + 1
      <4>1. \A j \in 1..n : spans[j].to <= cur
        BY <3>1, <1>2 DEF Tiled
      <4>2. spans'[i].from = cur /\ spans'[i].to = to
        BY <3>2, <1>1, <1>2
      <4>3. \A j \in 1..i - 1 : j \in 1..n /\ spans'[j] = spans[j]
        BY <3>2, <1>2
      <4> QED BY <4>1, <4>2, <4>3, <2>2
    <3>3. CASE i \in 1..n
      <4>1. /\ spans[i].from < spans[i].to /\ spans[i].to <= cur
            /\ \A j \in 1..i - 1 : spans[j].to <= spans[i].from
        BY <3>1, <3>3, <1>2 DEF Tiled
      <4>2. spans[i].to \in Nat /\ \A j \in 1..i - 1 : j \in 1..n
        BY <3>3, <1>2, <1>2b
      <4>3. \A j \in 1..i - 1 : spans'[j] = spans[j]
        BY <4>2, <1>2
      <4>4. spans'[i] = spans[i] /\ spans[i].to <= to
        BY <4>1, <4>2, <3>3, <1>2, <2>2
      <4> QED BY <4>1, <4>3, <4>4
    <3> QED BY <3>2, <3>3, <1>2
  <2>4. ASSUME NEW p \in 1..to - 1
        PROVE  At(p) \in Whitespace \/ \E i \in 1..n + 1 : p \in spans'[i].from..spans'[i].to - 1
    <3>1. CASE p < cur
      <4>1. \/ At(p) \in Whitespace
            \/ \E i \in 1..n : p \in spans[i].from..spans[i].to - 1
        BY <3>1, <1>2, <2>2 DEF IInv, Tiled
      <4> QED BY <4>1, <1>2
    <3>2. CASE p >= cur
      BY <3>2, <1>1, <1>2, <2>2
    <3> QED BY <3>1, <3>2, <2>2
  <2> QED BY <1>2, <1>3, <1>4, <2>3, <2>4 DEF Tiled
<1>8. Spelled'
  <2>1. ASSUME NEW i \in 1..n + 1  PROVE SpelledAs(spans'[i], reported')
    <3>1. CASE i = n + 1
      BY <3>1, <1>2 DEF s
    <3>2. CASE i \in 1..n
      <4>1. SpelledAs(spans[i], reported)
        BY <3>2, <1>2 DEF IInv, Spelled
      <4> QED BY <4>1, <3>2, <1>2 DEF SpelledAs
    <3> QED BY <3>1, <3>2, <1>2
  <2> QED BY <2>1, <1>2, <1>4 DEF Spelled, SpelledAs
<1>9. CommentsClosed'
  <2>1. ASSUME "comment" \notin reported', NEW i \in 1..n + 1, spans'[i].kind = "comment"
        PROVE  Closed(spans'[i])
    <3>1. CASE i = n + 1
      BY <2>1, <3>1, <1>1, <1>2 DEF s
    <3>2. CASE i \in 1..n
      BY <2>1, <3>2, <1>2 DEF IInv, CommentsClosed
    <3> QED BY <3>1, <3>2, <1>2
  <2> QED BY <2>1, <1>2, <1>4 DEF CommentsClosed, Closed
<1>10. LeavesByString'
  <2>1. Len(text) \in Nat /\ spans' # <<>>
    BY <1>0, <1>2 DEF TypeOK
  <2>2. Inside' \/ (kind = "string" /\ to = Len(text) + 2)
    BY <2>1, <1>3 DEF Inside
  <2> QED BY <2>1, <2>2, <1>1, <1>2, <1>3 DEF LeavesByString
<1> QED BY <1>5, <1>6, <1>7, <1>8, <1>9, <1>10 DEF IInv

LEMMA Initial == ASSUME Init PROVE IInv
<1>1. text \in Seq(STRING) /\ cur = 1 /\ end = 1 /\ spans = <<>> /\ level = 0
      /\ scanning = "next" /\ reported = {}
  BY TextsAssumption DEF Init
<1>2. TypeOK
  BY <1>1 DEF TypeOK
<1>3. ScanOK
  BY <1>1 DEF ScanOK, Scanners
<1>4. DOMAIN spans = {} /\ Len(text) \in Nat
  BY <1>1
<1>5. Tiled /\ Spelled /\ CommentsClosed /\ LeavesByString
  BY <1>1, <1>4 DEF Tiled, Spelled, CommentsClosed, LeavesByString, Inside
<1> QED BY <1>2, <1>3, <1>5 DEF IInv

LEMMA BlankStep == ASSUME IInv, Blank PROVE IInv'
<1>1. TypeOK /\ scanning = "next" /\ Inside
  BY DEF IInv, Blank, Next1
<1>2. /\ cur' = cur + 1 /\ scanning' = "next" /\ At(cur) \in Whitespace
      /\ UNCHANGED <<text, end, level, spans, reported>>
  BY <1>1 DEF Blank
<1>3. \A p : At(p)' = At(p)
  BY <1>2 DEF At
<1>4. TypeOK' /\ ScanOK'
  BY <1>1, <1>2 DEF TypeOK, ScanOK, Scanners
<1>5. Tiled'
  <2>1. cur \in Nat
    BY <1>1 DEF TypeOK
  <2>2. \A i \in DOMAIN spans : spans[i].to \in Nat
    BY <1>1, SpansTyped
  <2>3. ASSUME NEW p \in 1..cur
        PROVE  At(p) \in Whitespace \/ \E i \in DOMAIN spans : p \in spans[i].from..spans[i].to - 1
    BY <1>2, <2>1 DEF IInv, Tiled
  <2>4. \A i \in DOMAIN spans : spans[i].to <= cur + 1
    BY <2>1, <2>2 DEF IInv, Tiled
  <2> QED BY <1>2, <1>3, <2>1, <2>3, <2>4 DEF IInv, Tiled
<1>6. Inside'
  <2>1. At(cur) # NUL
    BY <1>2 DEF Whitespace, VerticalWhitespace, NUL
  <2> QED BY <2>1, <1>1, <1>2, InBuffer DEF TypeOK, Inside
<1>7. Spelled' /\ CommentsClosed' /\ LeavesByString'
  BY <1>2, <1>3, <1>6 DEF IInv, Spelled, CommentsClosed, LeavesByString, SpelledAs, Closed
<1> QED BY <1>4, <1>5, <1>7 DEF IInv

LEMMA StartStep == ASSUME IInv, Start PROVE IInv'
<1>1. /\ TypeOK /\ scanning = "next" /\ Inside
      /\ UNCHANGED <<text, cur, spans, reported>>
  BY DEF IInv, Start, Next1, Scan
<1>2. \A p : At(p)' = At(p)
  BY <1>1 DEF At
<1>3. cur \in Nat \ {0} /\ end \in Nat \ {0} /\ level \in Nat /\ Len(text) \in Nat
  BY <1>1, InBuffer DEF TypeOK
<1>4. At(cur) # NUL => cur <= Len(text)
  BY <1>1, <1>3, InBuffer
<1>5. TypeOK' /\ ScanOK'
  <2>1. CASE At(cur) \in IdentifierHead /\ Scan("identifier", cur + 1, level)
    <3>1. At(cur) # NUL
      BY <2>1 DEF IdentifierHead, NUL
    <3> QED BY <2>1, <3>1, <1>1, <1>2, <1>3, <1>4 DEF TypeOK, ScanOK, Scan, Scanners, Inside
  <2>2. CASE At(cur) \in Digits /\ Scan("number", cur + 1, level)
    <3>1. At(cur) # NUL /\ At(cur) \in HexDigits
      BY <2>2 DEF Digits, HexDigits, NUL
    <3> QED BY <2>2, <3>1, <1>1, <1>2, <1>3, <1>4 DEF TypeOK, ScanOK, Scan, Scanners, Inside
  <2>3. CASE At(cur) \in Quotes /\ Scan("string", cur + 1, level)
    <3>1. At(cur) # NUL
      BY <2>3 DEF Quotes, NUL
    <3> QED BY <2>3, <3>1, <1>1, <1>2, <1>3, <1>4 DEF TypeOK, ScanOK, Scan, Scanners, Inside
  <2>4. CASE At(cur + 1) = "*" /\ Scan("comment", cur + 2, 1)
    <3>1. cur + 1 <= Len(text)
      <4>1. At(cur + 1) # NUL
        BY <2>4 DEF NUL
      <4> QED BY <4>1, <1>1, <1>3, InBuffer
    <3> QED BY <2>4, <3>1, <1>1, <1>2, <1>3 DEF TypeOK, ScanOK, Scan, Scanners, Inside
  <2>5. CASE Scan("eof", end, level)
    BY <2>5, <1>1, <1>2, <1>3 DEF TypeOK, ScanOK, Scan, Scanners, Inside
  <2> QED BY <2>1, <2>2, <2>3, <2>4, <2>5 DEF Start
<1> QED BY <1>1, <1>5, Scanned

LEMMA PunctuatorStep == ASSUME IInv, Punctuator PROVE IInv'
<1>1. TypeOK /\ Inside /\ reported' = reported
  BY DEF IInv, Punctuator, Next1
<1>2. cur \in Nat \ {0} /\ Len(text) \in Nat
  BY <1>1, InBuffer DEF TypeOK
<1>3. /\ At(cur) # NUL => cur + 1 <= Len(text) + 1
      /\ At(cur + 1) # NUL => cur + 2 <= Len(text) + 1
  BY <1>1, <1>2, InBuffer
<1>4. \A kind, to : Span(kind, to).kind = kind /\ Span(kind, to).from = cur
                    /\ Span(kind, to).to = to
  BY DEF Span
<1>5. reported' \subseteq {"hexDigit", "string", "comment"}
  BY <1>1 DEF TypeOK
<1>6. CASE At(cur) \in Singles /\ formToken(At(cur), cur + 1)
  <2>1. /\ At(cur) \in Kinds /\ At(cur) # NUL
        /\ At(cur) \notin {"comment", "identifier", "integer", "string", ":", "<", ">", "("}
    BY <1>6 DEF Singles, Kinds, NUL
  <2>2. SpelledAs(Span(At(cur), cur + 1), reported')
    BY <1>4, <2>1 DEF SpelledAs
  <2> QED BY <1>1, <1>2, <1>3, <1>5, <1>6, <2>1, <2>2, Formed
<1>7. CASE At(cur) \in Pairs /\ At(cur + 1) = "=" /\ formToken("pair", cur + 2)
  <2>1. At(cur + 1) # NUL /\ "pair" \in Kinds
    BY <1>7 DEF Kinds, NUL
  <2>2. SpelledAs(Span("pair", cur + 2), reported')
    BY <1>4 DEF SpelledAs
  <2> QED BY <1>1, <1>2, <1>3, <1>5, <1>7, <2>1, <2>2, Formed
<1>8. CASE At(cur) \in Pairs /\ At(cur + 1) # "=" /\ formToken(At(cur), cur + 1)
  <2>1. /\ At(cur) \in Kinds /\ At(cur) # NUL
        /\ At(cur) \notin {"comment", "identifier", "integer", "string", "("}
    BY <1>8 DEF Pairs, Kinds, NUL
  <2>2. SpelledAs(Span(At(cur), cur + 1), reported')
    BY <1>4, <1>8, <2>1 DEF SpelledAs
  <2> QED BY <1>1, <1>2, <1>3, <1>5, <1>8, <2>1, <2>2, Formed
<1>9. CASE At(cur) = "(" /\ At(cur + 1) # "*" /\ formToken("(", cur + 1)
  <2>1. "(" \in Kinds /\ At(cur) # NUL
    BY <1>9 DEF Kinds, NUL
  <2>2. SpelledAs(Span("(", cur + 1), reported')
    BY <1>4, <1>9 DEF SpelledAs
  <2> QED BY <1>1, <1>2, <1>3, <1>5, <1>9, <2>1, <2>2, Formed
<1> QED BY <1>6, <1>7, <1>8, <1>9 DEF Punctuator

\* One character more is read by a scanning function; it is not the null character.
LEMMA Advanced ==
  ASSUME IInv, scanning \in Scanners, At(end) # NUL, Advance(1),
         scanning = "identifier" => At(end) \in IdentifierBody,
         scanning = "number" => At(end) \in HexDigits,
         scanning = "string" => At(end) \notin {At(cur)} \cup VerticalWhitespace,
         scanning = "comment" => level # 0
  PROVE  IInv'
<1>1. /\ TypeOK /\ end' = end + 1
      /\ UNCHANGED <<text, cur, scanning, level, spans, reported>>
  BY DEF IInv, Advance
<1>2. /\ cur \in Nat \ {0} /\ end \in Nat \ {0} /\ Len(text) \in Nat
      /\ end <= Len(text)
  BY <1>1, InBuffer DEF TypeOK
<1>3. \A p : At(p)' = At(p)
  BY <1>1 DEF At
<1>4. TypeOK'
  BY <1>1, <1>2 DEF TypeOK
<1>5. ScanOK
  BY DEF IInv
<1>6. ScanOK'
  <2>1. \A p \in cur..end : p \in cur..end - 1 \/ p = end
    BY <1>2
  <2>2. \A p \in cur + 1..end : p \in cur + 1..end - 1 \/ p = end
    BY <1>2
  <2>3. end' - 1 = end /\ (scanning \in Scanners => cur < end' /\ end' <= Len(text) + 1)
    BY <1>1, <1>2, <1>5 DEF ScanOK
  <2>4. scanning = "identifier" => \A p \in cur + 1..end : At(p) \in IdentifierBody
    BY <1>5, <2>2 DEF ScanOK
  <2>5. scanning = "number" => \A p \in cur..end : At(p) \in HexDigits
    BY <1>5, <2>1 DEF ScanOK
  <2>6. scanning = "string" =>
          \A p \in cur + 1..end : At(p) \notin {At(cur)} \cup VerticalWhitespace
    BY <1>5, <2>2 DEF ScanOK
  <2>7. scanning = "comment" => cur + 2 <= end' /\ level # 0
    BY <1>1, <1>2, <1>5 DEF ScanOK
  <2>8. Inside' <=> Inside
    BY <1>1 DEF Inside
  <2> QED BY <1>1, <1>3, <1>5, <2>3, <2>4, <2>5, <2>6, <2>7, <2>8 DEF ScanOK
<1> QED BY <1>1, <1>4, <1>6, Scanned

LEMMA identifierStep == ASSUME IInv, identifier PROVE IInv'
<1>1. TypeOK /\ ScanOK /\ scanning = "identifier" /\ scanning \in Scanners /\ Inside
  BY DEF IInv, identifier, ScanOK, Scanners
<1>2. cur \in Nat /\ end \in Nat
  BY <1>1 DEF TypeOK
<1>3. CASE At(end) \in IdentifierBody /\ Advance(1)
  <2>1. At(end) # NUL
    BY <1>3 DEF IdentifierBody, IdentifierHead, Digits, NUL
  <2> QED BY <2>1, <1>1, <1>3, Advanced
<1>4. CASE At(end) \notin IdentifierBody /\ formToken("identifier", end) /\ UNCHANGED reported
  <2>1. "identifier" \in Kinds
    BY DEF Kinds
  <2>2. SpelledAs(Span("identifier", end), reported')
    BY <1>1, <1>4 DEF SpelledAs, Span, ScanOK
  <2>3. cur < end /\ end <= Len(text) + 1
    BY <1>1 DEF ScanOK
  <2> QED BY <1>1, <1>2, <1>4, <2>1, <2>2, <2>3, Formed DEF TypeOK
<1> QED BY <1>3, <1>4 DEF identifier

LEMMA numberStep == ASSUME IInv, number PROVE IInv'
<1>1. TypeOK /\ ScanOK /\ scanning = "number" /\ scanning \in Scanners /\ Inside
  BY DEF IInv, number, ScanOK, Scanners
<1>2. cur \in Nat \ {0} /\ end \in Nat \ {0} /\ Len(text) \in Nat
      /\ cur < end /\ end <= Len(text) + 1
  BY <1>1, InBuffer DEF TypeOK, ScanOK
<1>3. "integer" \in Kinds
  BY DEF Kinds
<1>4. CASE At(end) \in HexDigits /\ Advance(1)
  <2>1. At(end) # NUL
    BY <1>4 DEF HexDigits, Digits, NUL
  <2> QED BY <2>1, <1>1, <1>4, Advanced
<1>5. CASE At(end) = "H" /\ formToken("integer", end + 1) /\ UNCHANGED reported
  <2>1. end <= Len(text)
    <3>1. At(end) # NUL
      BY <1>5 DEF NUL
    <3> QED BY <3>1, <1>1, <1>2, InBuffer
  <2>2. SpelledAs(Span("integer", end + 1), reported')
    <3>1. (end + 1) - 2 = end - 1 /\ (end + 1) - 1 = end
      BY <1>2
    <3> QED BY <3>1, <1>1, <1>5 DEF SpelledAs, Span, ScanOK
  <2> QED BY <1>1, <1>2, <1>3, <1>5, <2>1, <2>2, Formed DEF TypeOK
<1>6. CASE /\ At(end) \notin HexDigits \cup {"H"} /\ formToken("integer", end)
           /\ Report(IF IsHex THEN {"hexDigit"} ELSE {})
  <2>1. SpelledAs(Span("integer", end), reported')
    <3>1. end - 1 \in cur..end - 1 /\ \A p \in cur..end - 2 : p \in cur..end - 1
      BY <1>2
    <3> QED BY <3>1, <1>1, <1>6 DEF SpelledAs, Span, ScanOK
  <2>2. reported \subseteq reported' /\ reported' \subseteq {"hexDigit", "string", "comment"}
    BY <1>1, <1>6 DEF Report, TypeOK
  <2> QED BY <1>1, <1>2, <1>3, <1>6, <2>1, <2>2, Formed
<1> QED BY <1>4, <1>5, <1>6 DEF number

LEMMA stringStep == ASSUME IInv, string PROVE IInv'
<1>1. TypeOK /\ ScanOK /\ scanning = "string" /\ scanning \in Scanners /\ Inside
  BY DEF IInv, string, ScanOK, Scanners
<1>2. cur \in Nat \ {0} /\ end \in Nat \ {0} /\ Len(text) \in Nat
      /\ cur < end /\ end <= Len(text) + 1
  BY <1>1, InBuffer DEF TypeOK, ScanOK
<1>3. CASE At(end) \notin {NUL, At(cur)} \cup VerticalWhitespace /\ Advance(1)
  BY <1>1, <1>3, Advanced
<1>4. CASE /\ At(end) \in {NUL, At(cur)} \cup VerticalWhitespace /\ formToken("string", end + 1)
           /\ Report(IF At(end) \in VerticalWhitespace THEN {"string"} ELSE {})
  <2>1. (end + 1) - 1 = end /\ (end + 1) - 2 = end - 1
    BY <1>2
  <2>2. SpelledAs(Span("string", end + 1), reported')
    BY <2>1, <1>1, <1>4 DEF SpelledAs, Span, ScanOK, Report
  <2>3. reported \subseteq reported' /\ reported' \subseteq {"hexDigit", "string", "comment"}
    BY <1>1, <1>4 DEF Report, TypeOK
  <2>4. "string" \in Kinds /\ end + 1 \in Nat /\ cur < end + 1
        /\ (end + 1 <= Len(text) + 1 \/ end + 1 = Len(text) + 2)
    BY <1>2 DEF Kinds
  <2> QED BY <1>1, <1>4, <2>2, <2>3, <2>4, Formed
<1> QED BY <1>3, <1>4 DEF string

\* A mark, of two characters, opens or closes a level of comment.
LEMMA Nested ==
  ASSUME IInv, scanning = "comment", level > 0, NEW by \in {1, -1}, Nest(by),
         At(end) # NUL, At(end + 1) # NUL,
         by = -1 => At(end) = "*" /\ At(end + 1) = ")"
  PROVE  IInv'
<1>1. TypeOK /\ ScanOK /\ end' = end + 2 /\ level' = level + by
      /\ UNCHANGED <<text, cur, scanning, spans, reported>>
  BY DEF IInv, Nest
<1>2. cur \in Nat \ {0} /\ end \in Nat \ {0} /\ Len(text) \in Nat /\ level \in Nat
      /\ cur + 2 <= end /\ end + 1 \in Nat \ {0}
  BY <1>1, InBuffer DEF TypeOK, ScanOK
<1>3. end + 1 <= Len(text)
  BY <1>1, <1>2, InBuffer
<1>4. TypeOK'
  BY <1>1, <1>2 DEF TypeOK
<1>5. \A p : At(p)' = At(p)
  BY <1>1 DEF At
<1>6. ScanOK'
  <2>1. level' = 0 => by = -1
    BY <1>1, <1>2
  <2>2. end' - 2 = end /\ end' - 1 = end + 1 /\ end' - cur >= 4 /\ cur < end'
        /\ end' <= Len(text) + 1 /\ cur + 2 <= end'
    BY <1>1, <1>2, <1>3
  <2>3. Inside' <=> Inside
    BY <1>1 DEF Inside
  <2> QED BY <1>1, <1>5, <2>1, <2>2, <2>3 DEF ScanOK
<1> QED BY <1>1, <1>4, <1>6, Scanned

LEMMA commentStep == ASSUME IInv, comment PROVE IInv'
<1>1. TypeOK /\ scanning = "comment" /\ scanning \in Scanners /\ At(end) # NUL
      /\ level > 0 /\ level # 0
  BY DEF IInv, comment, Scanners, TypeOK
<1>2. CASE At(end) = "(" /\ At(end + 1) = "*" /\ Nest(1)
  <2>1. At(end + 1) # NUL
    BY <1>2 DEF NUL
  <2> QED BY <1>1, <1>2, <2>1, Nested
<1>3. CASE At(end) = "*" /\ At(end + 1) = ")" /\ Nest(-1)
  <2>1. At(end + 1) # NUL
    BY <1>3 DEF NUL
  <2> QED BY <1>1, <1>3, <2>1, Nested
<1>4. CASE Advance(1)
  BY <1>1, <1>4, Advanced
<1> QED BY <1>2, <1>3, <1>4 DEF comment

LEMMA endCommentStep == ASSUME IInv, endComment PROVE IInv'
<1>1. TypeOK /\ ScanOK /\ scanning = "comment" /\ Inside /\ formToken("comment", end)
      /\ Report(IF At(end) = NUL THEN {"comment"} ELSE {})
      /\ (At(end) = NUL \/ level = 0)
  BY DEF IInv, endComment, ScanOK
<1>2. cur \in Nat \ {0} /\ end \in Nat \ {0} /\ cur < end /\ end <= Len(text) + 1
  BY <1>1 DEF TypeOK, ScanOK, Scanners
<1>3. reported \subseteq reported' /\ reported' \subseteq {"hexDigit", "string", "comment"}
  BY <1>1 DEF Report, TypeOK
<1>4. SpelledAs(Span("comment", end), reported') /\ "comment" \in Kinds
  BY DEF SpelledAs, Span, Kinds
<1>5. "comment" \notin reported' => Closed(Span("comment", end))
  <2>1. "comment" \notin reported' => level = 0
    BY <1>1 DEF Report
  <2> QED BY <1>1, <2>1 DEF ScanOK, Closed, Span
<1> QED BY <1>1, <1>2, <1>3, <1>4, <1>5, Formed

LEMMA Inductive == Spec => []IInv
<1>1. IInv /\ [Next]_vars => IInv'
  <2> SUFFICES ASSUME IInv, [Next]_vars PROVE IInv'
    OBVIOUS
  <2>1. CASE Step
    BY <2>1, BlankStep, StartStep, PunctuatorStep, identifierStep, numberStep,
       stringStep, commentStep, endCommentStep DEF Step
  <2>2. CASE UNCHANGED vars
    <3>1. TypeOK' /\ ScanOK'
      BY <2>2 DEF IInv, vars, TypeOK, ScanOK, Inside, At
    <3> QED BY <2>2, <3>1, Scanned DEF vars
  <2> QED BY <2>1, <2>2 DEF Next, Halt
<1> QED BY <1>1, Initial, PTL DEF Spec

\* The type invariant.
THEOREM TypeCorrect == Spec => []TypeOK
<1>1. IInv => TypeOK
  BY DEF IInv
<1> QED BY <1>1, Inductive, PTL

\* Between the calls of next no character is lost or read twice, for every text.
THEOREM TiledHolds == Spec => []Tiled
<1>1. IInv => Tiled
  BY DEF IInv
<1> QED BY <1>1, Inductive, PTL

\* Every token of every text is spelled as its kind, and is as long as it can be.
THEOREM SpelledHolds == Spec => []Spelled
<1>1. IInv => Spelled
  BY DEF IInv
<1> QED BY <1>1, Inductive, PTL

\* However deep comments nest, one that is not closed is reported.
THEOREM CommentsClosedHolds == Spec => []CommentsClosed
<1>1. IInv => CommentsClosed
  BY DEF IInv
<1> QED BY <1>1, Inductive, PTL

\* Only a string without its quote takes the lexer behind the buffer.
THEOREM LeavesByStringHolds == Spec => []LeavesByString
<1>1. IInv => LeavesByString
  BY DEF IInv
<1> QED BY <1>1, Inductive, PTL
===============================================================================
