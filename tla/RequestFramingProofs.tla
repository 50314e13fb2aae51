------------------------ MODULE RequestFramingProofs ------------------------
(***************************************************************************)
(* However TCP cuts a request of the client, the parser makes of it what   *)
(* was sent, and leaves nothing unread: for every such request, any number *)
(* of headers, every buffer and every width of size_t.                     *)
(***************************************************************************)
EXTENDS RequestParserProofs, SubsequencesProofs

Text == Seq(Chars)

\* What is left of s after its first n characters.
Drop(s, n) == SubSeq(s, n + 1, Len(s))

s ++ t == s \o t

Method == <<"P", SP>>
Colon == <<":", SP>>
LineEnd == <<CR, LF>>

-----------------------------------------------------------------------------
\* Which characters are of which class.
LEMMA CharFacts ==
  /\ "P" \in Token /\ SP \notin Token /\ ":" \notin Token /\ CR \notin Token
  /\ CR \notin Printable /\ LF \notin Printable /\ "." \notin Digit /\ CR \notin Digit
  /\ "1" \in Digit /\ "0" \in Digit /\ CR # LF /\ SP # CR /\ SP # LF
  /\ Token \subseteq Chars \ Blank /\ Printable \subseteq Chars
  /\ {CR, LF, SP, ":", "/", "H", "T", "P", "1", ".", "0"} \subseteq Chars
<1>1. "P" \in Letter /\ "." \in Letter /\ Letter \cap (Ctl \cup Tspecial \cup High \cup Digit) = {}
  BY AlphabetAssumption
<1>2. SP \in Tspecial /\ ":" \in Tspecial /\ CR \in Ctl /\ LF \in Ctl /\ Blank \subseteq Tspecial
  BY DEF Tspecial, Ctl, Blank
<1>3. "1" \in Digit /\ "0" \in Digit /\ CR # LF /\ SP # CR /\ SP # LF /\ CR \notin Digit
  BY DEF Digit, CR, LF, SP
<1>4. {CR, LF, SP, ":", "/", "H", "T", "P", "1", ".", "0"} \subseteq Chars
  BY AlphabetAssumption DEF Chars, Ctl, Tspecial, Digit
<1>5. "." \notin Digit
  BY <1>1
<1>6. "P" \in Token /\ SP \notin Token /\ ":" \notin Token /\ CR \notin Token
  BY <1>1, <1>2 DEF Token, Chars
<1>7. CR \notin Printable /\ LF \notin Printable
  BY <1>2 DEF Printable
<1>8. Token \subseteq Chars \ Blank /\ Printable \subseteq Chars
  BY <1>2 DEF Token, Printable
<1> QED
  BY <1>3, <1>4, <1>5, <1>6, <1>7, <1>8

-----------------------------------------------------------------------------
\* Two texts in a row are a text.
LEMMA Joined ==
  ASSUME NEW a \in Text, NEW b \in Text
  PROVE  a ++ b \in Text
BY ConcatProperties DEF Text, ++

\* Concatenation of texts is associative.
LEMMA Regroup ==
  ASSUME NEW a \in Text, NEW b \in Text, NEW c \in Text
  PROVE  (a ++ b) ++ c = a ++ (b ++ c)
BY ConcatAssociative DEF Text, ++

\* Four pieces, from the first on.
LEMMA RegroupFour ==
  ASSUME NEW a \in Text, NEW b \in Text, NEW c \in Text, NEW d \in Text
  PROVE  ((a ++ b) ++ c) ++ d = a ++ (b ++ (c ++ d))
<1>1. a ++ b \in Text /\ c ++ d \in Text
  BY Joined
<1> QED
  BY <1>1, Regroup

\* Five pieces, from the first on.
LEMMA RegroupFive ==
  ASSUME NEW a \in Text, NEW b \in Text, NEW c \in Text, NEW d \in Text, NEW e \in Text
  PROVE  (((a ++ b) ++ c) ++ d) ++ e = a ++ (b ++ (c ++ (d ++ e)))
<1>1. a ++ b \in Text /\ c ++ (d ++ e) \in Text
  BY Joined
<1> QED
  BY <1>1, RegroupFour, Regroup

\* A text that begins with a character: that character, and the rest.
LEMMA Begins ==
  ASSUME NEW c \in Chars, NEW t \in Text
  PROVE  /\ <<c>> \in Text /\ <<c>> ++ t \in Text /\ <<c>> ++ t # <<>>
         /\ Head(<<c>> ++ t) = c /\ Tail(<<c>> ++ t) = t
<1>1. /\ <<c>> \in Text /\ Len(<<c>>) = 1 /\ <<c>>[1] = c
  BY DEF Text
<1>2. /\ <<c>> \o t \in Text
      /\ Len(<<c>> \o t) = 1 + Len(t)
      /\ \A i \in 1..1 + Len(t) : (<<c>> \o t)[i] = IF i <= 1 THEN <<c>>[i] ELSE t[i - 1]
  BY <1>1, ConcatProperties DEF Text
<1> DEFINE s == <<c>> \o t
<1>3. Len(t) \in Nat
  BY DEF Text
<1> HIDE DEF s
<1>4. s \in Text /\ Len(s) = 1 + Len(t) /\ s[1] = c
  BY <1>1, <1>2, <1>3 DEF s
<1>5. s # <<>>
  BY <1>3, <1>4 DEF Text
<1>6. Head(s) = c
  BY <1>4, <1>5 DEF Text
<1>7. Tail(s) = t
  <2>1. Tail(s) \in Text /\ Len(Tail(s)) = Len(t) /\ \A i \in 1..Len(t) : Tail(s)[i] = s[i + 1]
    BY <1>3, <1>4, <1>5, HeadTailProperties DEF Text
  <2>2. \A i \in 1..Len(t) : s[i + 1] = t[i]
    BY <1>2, <1>3 DEF s
  <2> QED
    BY <2>1, <2>2, SeqEqual DEF Text
<1> QED
  BY <1>1, <1>4, <1>5, <1>6, <1>7 DEF s, ++

\* What is left of a text that has not ended begins with its next character.
LEMMA DropStep ==
  ASSUME NEW s \in Text, NEW n \in 0..Len(s)
  PROVE  /\ Drop(s, n) \in Text
         /\ n < Len(s) => s[n + 1] \in Chars /\ Drop(s, n) = <<s[n + 1]>> ++ Drop(s, n + 1)
         /\ n = Len(s) => Drop(s, n) = <<>>
<1>1. Drop(s, n) \in Text
  BY SubSeqProperties DEF Drop, Text
<1>2. ASSUME n < Len(s)
      PROVE  s[n + 1] \in Chars /\ Drop(s, n) = <<s[n + 1]>> ++ Drop(s, n + 1)
  <2>1. n + 1 \in 1..Len(s) /\ Len(s) \in (n + 1)..Len(s) /\ s[n + 1] \in Chars
    BY <1>2 DEF Text
  <2>2. Drop(s, n + 1) = SubSeq(s, (n + 1) + 1, Len(s))
    BY DEF Drop
  <2> QED
    BY <2>1, <2>2, SubSeqRecursiveFirst DEF Text, Drop, ++
<1>3. n = Len(s) => Drop(s, n) = <<>>
  BY SubSeqEmpty DEF Drop, Text
<1> QED
  BY <1>1, <1>2, <1>3

\* Nothing has been taken of a text yet, or all of it.
LEMMA DropEnds ==
  ASSUME NEW s \in Text, NEW t \in Text
  PROVE  Drop(s, 0) = s /\ Drop(s, Len(s)) ++ t = t /\ Len(s) \in Nat
<1>1. Drop(s, 0) = s /\ Len(s) \in Nat
  BY SubSeqFull DEF Drop, Text
<1>2. Drop(s, Len(s)) = <<>>
  <2>1. Len(s) \in 0..Len(s)
    BY <1>1
  <2> QED
    BY <2>1, DropStep
<1> QED
  BY <1>1, <1>2, ConcatEmptySeq DEF Text, ++

-----------------------------------------------------------------------------
\* The text from a header on, by the text from the next one on.
TextAt(m, text, i) ==
  IF i > Len(m.headers) THEN <<CR, LF>> \o m.body
  ELSE line(m.headers[i]) \o text[i + 1]

\* What a message is made of is text.
LEMMA MessageText ==
  ASSUME NEW m \in Messages
  PROVE  /\ m.uri \in Text /\ m.body \in Text /\ Len(m.headers) \in Nat
         /\ m.headers \in Seq(HeaderType)
         /\ \A i \in 1..Len(m.headers) :
              /\ m.headers[i].name \in Seq(Token) /\ m.headers[i].name # <<>>
              /\ m.headers[i].value \in Seq(Printable)
              /\ m.headers[i].name \in Text /\ m.headers[i].value \in Text
              /\ line(m.headers[i]) \in Text
<1> DEFINE H == [name : Seq(Token) \ {<<>>}, value : Seq(Printable)]
<1>1. /\ m.uri \in Seq(Printable \ {SP}) /\ m.headers \in Seq(H)
      /\ m.body \in Seq(Printable \cup {CR, LF})
  BY DEF Messages
<1>2. m.uri \in Text /\ m.body \in Text
  BY <1>1, CharFacts, SeqMonotonic DEF Text
<1>3. \A h \in H : /\ h.name \in Seq(Token) /\ h.name # <<>>
                  /\ h.value \in Seq(Printable)
  OBVIOUS
<1>4. \A s \in Seq(Token) : s \in Text
  BY CharFacts, SeqMonotonic DEF Text
<1>5. \A s \in Seq(Printable) : s \in Text
  BY CharFacts, SeqMonotonic DEF Text
<1>6. ASSUME NEW h \in H
      PROVE  h \in HeaderType /\ line(h) \in Text
  <2>1. h.name \in Text /\ h.value \in Text
    BY <1>3, <1>4, <1>5
  <2>2. h \in HeaderType
    BY <2>1 DEF HeaderType, Text
  <2>3. <<":", SP>> \in Text /\ <<CR, LF>> \in Text
    BY CharFacts DEF Text
  <2> QED
    BY <2>1, <2>2, <2>3, ConcatProperties DEF line, Text
<1>7. m.headers \in Seq(HeaderType)
  <2>1. H \subseteq HeaderType
    BY <1>6
  <2> HIDE DEF H
  <2> QED
    BY <1>1, <2>1, SeqMonotonic
<1>8. Len(m.headers) \in Nat /\ \A i \in 1..Len(m.headers) : m.headers[i] \in H
  <2> HIDE DEF H
  <2> QED
    BY <1>1
<1> HIDE DEF H
<1> QED
  BY <1>2, <1>3, <1>4, <1>5, <1>6, <1>7, <1>8

\* The recursion of headersFrom has a solution on every number of last headers.
LEMMA TextExists ==
  ASSUME NEW m \in Messages
  PROVE  \A k \in 0..Len(m.headers) : \E text :
           /\ text \in [(Len(m.headers) + 1 - k)..(Len(m.headers) + 1) -> Text]
           /\ \A i \in (Len(m.headers) + 1 - k)..(Len(m.headers) + 1) :
                text[i] = TextAt(m, text, i)
<1> DEFINE n == Len(m.headers)
           Is(text, k) == /\ text \in [(n + 1 - k)..(n + 1) -> Text]
                          /\ \A i \in (n + 1 - k)..(n + 1) : text[i] = TextAt(m, text, i)
           S == {k \in Nat : k <= n => \E text : Is(text, k)}
<1>1. n \in Nat /\ m.body \in Text /\ \A i \in 1..n : line(m.headers[i]) \in Text
  BY MessageText
<1>2. <<CR, LF>> \o m.body \in Text
  <2>1. <<CR, LF>> \in Text
    BY CharFacts DEF Text
  <2> QED
    BY <1>1, <2>1, ConcatProperties DEF Text
<1> HIDE DEF n
<1>3. 0 \in S
  <2> DEFINE text == [i \in (n + 1 - 0)..(n + 1) |-> <<CR, LF>> \o m.body]
  <2>1. text \in [(n + 1 - 0)..(n + 1) -> Text]
    BY <1>2
  <2>2. \A i \in (n + 1 - 0)..(n + 1) : text[i] = TextAt(m, text, i)
    BY <1>1 DEF TextAt, n
  <2>3. Is(text, 0)
    BY <2>1, <2>2
  <2> QED
    BY <2>3
<1>4. ASSUME NEW k \in Nat, k \in S
      PROVE  k + 1 \in S
  <2> SUFFICES ASSUME k + 1 <= n
               PROVE  \E text : Is(text, k + 1)
    <3> HIDE DEF Is
    <3> QED OBVIOUS
  <2>1. PICK text : Is(text, k)
    BY <1>1, <1>4
  <2> DEFINE j == n + 1 - (k + 1)
             longer == [i \in j..(n + 1) |->
                          IF i = j THEN line(m.headers[j]) \o text[j + 1] ELSE text[i]]
  <2>2. j \in 1..n /\ j + 1 \in (n + 1 - k)..(n + 1)
    BY <1>1
  <2>3. line(m.headers[j]) \o text[j + 1] \in Text
    <3>1. line(m.headers[j]) \in Text /\ text[j + 1] \in Text
      BY <1>1, <2>1, <2>2
    <3> HIDE DEF j
    <3> QED
      BY <3>1, ConcatProperties DEF Text
  <2>4. \A i \in j..(n + 1) : i # j => i \in (n + 1 - k)..(n + 1)
    BY <1>1
  <2>5. longer \in [j..(n + 1) -> Text]
    BY <2>1, <2>3, <2>4
  <2>6. ASSUME NEW i \in j..(n + 1)
        PROVE  longer[i] = TextAt(m, longer, i)
    <3>1. CASE i = j
      <4>1. longer[j + 1] = text[j + 1]
        BY <1>1, <2>2
      <4>2. longer[i] = line(m.headers[j]) \o text[j + 1]
        BY <3>1
      <4>3. ~(i > Len(m.headers))
        <5>1. ~(i > n)
          BY <1>1, <3>1
        <5> QED
          BY <5>1 DEF n
      <4>4. TextAt(m, longer, i) = line(m.headers[i]) \o longer[i + 1]
        BY <4>3 DEF TextAt
      <4> HIDE DEF longer, j
      <4> QED
        BY <3>1, <4>1, <4>2, <4>4
    <3>2. CASE i # j
      <4>1. i \in (n + 1 - k)..(n + 1) /\ longer[i] = text[i]
        BY <2>4, <3>2
      <4>2. text[i] = TextAt(m, text, i)
        BY <2>1, <4>1
      <4>3. i > Len(m.headers) \/ longer[i + 1] = text[i + 1]
        <5>1. i > n \/ (i + 1 \in j..(n + 1) /\ i + 1 # j)
          BY <1>1, <4>1
        <5> HIDE DEF j
        <5> QED
          BY <5>1 DEF n
      <4> HIDE DEF longer, j
      <4>4. TextAt(m, longer, i) = TextAt(m, text, i)
        BY <4>3 DEF TextAt
      <4> QED
        BY <4>1, <4>2, <4>4
    <3> QED
      BY <3>1, <3>2
  <2>7. Is(longer, k + 1)
    BY <2>5, <2>6
  <2> QED
    BY <2>7
<1>5. Nat \subseteq S
  <2> HIDE DEF S
  <2> QED
    BY <1>3, <1>4, InductionBySet
<1> QED
  BY <1>1, <1>5 DEF n

\* headersFrom, as equations.
LEMMA HeadersFromIs ==
  ASSUME NEW m \in Messages
  PROVE  /\ \A i \in 1..(Len(m.headers) + 1) : headersFrom(m)[i] \in Text
         /\ \A i \in 1..Len(m.headers) :
              headersFrom(m)[i] = line(m.headers[i]) \o headersFrom(m)[i + 1]
         /\ headersFrom(m)[Len(m.headers) + 1] = <<CR, LF>> \o m.body
<1> DEFINE n == Len(m.headers)
           F(text) == [i \in 1..(n + 1) |-> TextAt(m, text, i)]
<1>1. n \in Nat
  BY MessageText
<1>2. PICK text : text \in [1..(n + 1) -> Text] /\ \A i \in 1..(n + 1) : text[i] = TextAt(m, text, i)
  <2>1. n \in 0..n /\ n + 1 - n = 1
    BY <1>1
  <2> QED
    BY <2>1, TextExists
<1>3. text = F(text)
  BY <1>2
<1>4. headersFrom(m) = CHOOSE t : t = F(t)
  BY DEF headersFrom, TextAt
<1>5. headersFrom(m) = F(headersFrom(m))
  <2> HIDE DEF F
  <2> QED
    BY <1>3, <1>4
<1> DEFINE h == headersFrom(m)
           S == {k \in Nat : k <= n => h[n + 1 - k] \in Text}
<1>6. \A i \in 1..(n + 1) : h[i] = TextAt(m, h, i)
  <2> HIDE DEF h
  <2>1. h = F(h)
    BY <1>5 DEF h
  <2> QED
    BY <2>1
<1> HIDE DEF h, n
<1>7. h[n + 1] = <<CR, LF>> \o m.body
  <2>1. n + 1 > Len(m.headers) /\ n + 1 \in 1..(n + 1)
    BY <1>1 DEF n
  <2>2. TextAt(m, h, n + 1) = <<CR, LF>> \o m.body
    BY <2>1 DEF TextAt
  <2> QED
    BY <1>6, <2>1, <2>2
<1>8. \A i \in 1..n : h[i] = line(m.headers[i]) \o h[i + 1]
  <2> SUFFICES ASSUME NEW i \in 1..n
               PROVE  h[i] = line(m.headers[i]) \o h[i + 1]
    OBVIOUS
  <2>1. ~(i > Len(m.headers)) /\ i \in 1..(n + 1)
    BY <1>1 DEF n
  <2> QED
    BY <1>6, <2>1 DEF TextAt
<1>9. 0 \in S
  <2>1. <<CR, LF>> \in Text /\ m.body \in Text
    BY CharFacts, MessageText DEF Text
  <2>2. h[n + 1] \in Text
    BY <1>7, <2>1, ConcatProperties DEF Text
  <2>3. n + 1 - 0 = n + 1
    BY <1>1
  <2> QED
    BY <2>2, <2>3
<1>10. ASSUME NEW k \in Nat, k \in S
       PROVE  k + 1 \in S
  <2> SUFFICES ASSUME k + 1 <= n
               PROVE  h[n + 1 - (k + 1)] \in Text
    OBVIOUS
  <2>1. PICK j : j = n + 1 - (k + 1)
    OBVIOUS
  <2>2. j \in 1..n /\ j + 1 = n + 1 - k
    BY <1>1, <2>1
  <2>3. h[j + 1] \in Text /\ line(m.headers[j]) \in Text
    <3>1. h[j + 1] \in Text
      BY <1>1, <1>10, <2>2
    <3> QED
      BY <2>2, <3>1, MessageText DEF n
  <2>4. h[j] \in Text
    BY <1>8, <2>2, <2>3, ConcatProperties DEF Text
  <2> QED
    BY <2>1, <2>4
<1>11. Nat \subseteq S
  <2> HIDE DEF S
  <2> QED
    BY <1>9, <1>10, InductionBySet
<1>12. ASSUME NEW i \in 1..(n + 1)
       PROVE  h[i] \in Text
  <2>1. n + 1 - i \in Nat /\ n + 1 - i <= n /\ n + 1 - (n + 1 - i) = i
    BY <1>1
  <2> QED
    BY <1>11, <2>1
<1> QED
  BY <1>7, <1>8, <1>12 DEF h, n

\* The literal pieces of a request.
LEMMA Pieces ==
  /\ Method \in Text /\ Len(Method) = 2 /\ Method[1] = "P" /\ Method[2] = SP
  /\ Colon \in Text /\ Len(Colon) = 2 /\ Colon[1] = ":" /\ Colon[2] = SP
  /\ LineEnd \in Text /\ Len(LineEnd) = 2 /\ LineEnd[1] = CR /\ LineEnd[2] = LF
  /\ Version \in Text /\ Len(Version) = 11
BY CharFacts DEF Method, Colon, LineEnd, Version, Text

\* What follows each part of a request.
AfterUri(m) == Version ++ headersFrom(m)[1]
AfterMethod(m) == m.uri ++ AfterUri(m)
AfterValue(m, k) == LineEnd ++ headersFrom(m)[k + 1]
AfterColon(m, k) == m.headers[k].value ++ AfterValue(m, k)
AfterName(m, k) == Colon ++ AfterColon(m, k)

\* The bytes of a request, one piece after the other.
LEMMA RenderIs ==
  ASSUME NEW m \in Messages
  PROVE  /\ render(m) = Method ++ AfterMethod(m)
         /\ headersFrom(m)[1] \in Text /\ AfterUri(m) \in Text /\ AfterMethod(m) \in Text
<1>1. headersFrom(m)[1] \in Text
  <2>1. 1 \in 1..(Len(m.headers) + 1)
    BY MessageText
  <2> QED
    BY <2>1, HeadersFromIs
<1>2. PICK t : t = headersFrom(m)[1]
  OBVIOUS
<1>3. m.uri \in Text
  BY MessageText
<1>4. render(m) = ((Method ++ m.uri) ++ Version) ++ t
  BY <1>2 DEF render, Method, ++
<1>5. Version ++ t \in Text /\ m.uri ++ (Version ++ t) \in Text
  BY <1>1, <1>2, <1>3, Pieces, Joined
<1>6. render(m) = Method ++ (m.uri ++ (Version ++ t))
  BY <1>1, <1>2, <1>3, <1>4, Pieces, RegroupFour
<1> QED
  BY <1>1, <1>2, <1>5, <1>6 DEF AfterUri, AfterMethod

\* The text of the headers from one on: its name, its value, and the next ones.
LEMMA LineIs ==
  ASSUME NEW m \in Messages, NEW i \in 1..Len(m.headers)
  PROVE  /\ headersFrom(m)[i + 1] \in Text /\ AfterValue(m, i) \in Text
         /\ AfterColon(m, i) \in Text /\ AfterName(m, i) \in Text
         /\ headersFrom(m)[i] = m.headers[i].name ++ AfterName(m, i)
<1>1. PICK t : t = headersFrom(m)[i + 1]
  OBVIOUS
<1>2. t \in Text /\ headersFrom(m)[i] = line(m.headers[i]) \o t
  <2>1. i + 1 \in 1..(Len(m.headers) + 1)
    BY MessageText
  <2> QED
    BY <1>1, <2>1, HeadersFromIs
<1>3. PICK n, v : n = m.headers[i].name /\ v = m.headers[i].value
  OBVIOUS
<1>4. n \in Text /\ v \in Text
  BY <1>3, MessageText
<1>5. line(m.headers[i]) \o t = (((n ++ Colon) ++ v) ++ LineEnd) ++ t
  BY <1>3 DEF line, Colon, LineEnd, ++
<1>6. LineEnd ++ t \in Text /\ v ++ (LineEnd ++ t) \in Text
  BY <1>2, <1>4, Pieces, Joined
<1>7. Colon ++ (v ++ (LineEnd ++ t)) \in Text
  BY <1>6, Pieces, Joined
<1>8. (((n ++ Colon) ++ v) ++ LineEnd) ++ t = n ++ (Colon ++ (v ++ (LineEnd ++ t)))
  BY <1>2, <1>4, Pieces, RegroupFive
<1> QED
  BY <1>1, <1>2, <1>3, <1>5, <1>6, <1>7, <1>8 DEF AfterValue, AfterColon, AfterName

\* What follows the last header.
LEMMA EndIs ==
  ASSUME NEW m \in Messages
  PROVE  headersFrom(m)[Len(m.headers) + 1] = LineEnd ++ m.body
BY HeadersFromIs DEF LineEnd, ++

-----------------------------------------------------------------------------
\* What the parser has not seen yet, wherever it is.
Pending == buffer_ ++ (network ++ unsent)

\* Every byte on its way is one of the alphabet.
Bytes == buffer_ \in Text /\ network \in Text /\ unsent \in Text

\* u is s, as far as it goes.
Begun(s, u) == Len(u) <= Len(s) /\ \A i \in 1..Len(u) : u[i] = s[i]

VersionStates == <<"http_version_h", "http_version_t_1", "http_version_t_2",
  "http_version_p", "http_version_slash", "http_version_major_start",
  "http_version_major", "http_version_minor_start", "http_version_minor",
  "expecting_newline_1">>

\* The first k headers are there, as they were sent.
HeadersUpTo(m, k) ==
  /\ uri = m.uri
  /\ k <= Len(m.headers)
  /\ \A i \in 1..k : headers[i] = m.headers[i]

\* The last header is being read, those before it are there.
OpenLine(m) ==
  /\ headers # <<>>
  /\ Len(headers) <= Len(m.headers)
  /\ HeadersUpTo(m, Len(headers) - 1)

\* The place in the request the parser is at, for each of its states: what it holds
\* is what has been taken, and what is on its way is the rest.
AtMethod(m) ==
  /\ state_ = "method_start" /\ uri = <<>>
  /\ Pending = Drop(Method, 0) ++ AfterMethod(m)
InMethod(m) ==
  /\ state_ = "method" /\ uri = <<>>
  /\ Pending = Drop(Method, 1) ++ AfterMethod(m)
InUri(m) ==
  /\ state_ = "uri" /\ Begun(m.uri, uri)
  /\ Pending = Drop(m.uri, Len(uri)) ++ AfterUri(m)
InVersion(m) ==
  \E n \in 1..10 :
    /\ state_ = VersionStates[n] /\ uri = m.uri
    /\ Pending = Drop(Version, n) ++ headersFrom(m)[1]
AtLine(m) ==
  /\ state_ = "header_line_start" /\ HeadersUpTo(m, Len(headers))
  /\ Pending = headersFrom(m)[Len(headers) + 1]
InName(m) ==
  /\ state_ = "header_name" /\ OpenLine(m)
  /\ back.name # <<>> /\ Begun(m.headers[Len(headers)].name, back.name)
  /\ back.value = <<>>
  /\ Pending = Drop(m.headers[Len(headers)].name, Len(back.name)) ++ AfterName(m, Len(headers))
BeforeValue(m) ==
  /\ state_ = "space_before_header_value" /\ OpenLine(m)
  /\ back.name = m.headers[Len(headers)].name
  /\ back.value = <<>>
  /\ Pending = Drop(Colon, 1) ++ AfterColon(m, Len(headers))
InValue(m) ==
  /\ state_ = "header_value" /\ OpenLine(m)
  /\ back.name = m.headers[Len(headers)].name
  /\ Begun(m.headers[Len(headers)].value, back.value)
  /\ Pending = Drop(m.headers[Len(headers)].value, Len(back.value))
                 ++ AfterValue(m, Len(headers))
AtLineEnd(m) ==
  /\ state_ = "expecting_newline_2" /\ HeadersUpTo(m, Len(headers))
  /\ Pending = Drop(LineEnd, 1) ++ headersFrom(m)[Len(headers) + 1]
AtHeadersEnd(m) ==
  /\ state_ = "expecting_newline_3" /\ HeadersUpTo(m, Len(headers))
  /\ Len(headers) = Len(m.headers)
  /\ Pending = Drop(LineEnd, 1) ++ m.body
InBody(m) ==
  /\ state_ \in BodyStates /\ HeadersUpTo(m, Len(headers))
  /\ Len(headers) = Len(m.headers)
  /\ Begun(m.body, jsonData)
  /\ Pending = Drop(m.body, Len(jsonData)) ++ <<>>

Under(m) ==
  /\ result = "indeterminate"
  /\ \/ AtMethod(m) \/ InMethod(m) \/ InUri(m) \/ InVersion(m)
     \/ AtLine(m) \/ InName(m) \/ BeforeValue(m) \/ InValue(m) \/ AtLineEnd(m)
     \/ AtHeadersEnd(m) \/ InBody(m)

\* The whole of it has been taken.
Over(m) ==
  /\ result = "true"
  /\ HeadersUpTo(m, Len(headers)) /\ Len(headers) = Len(m.headers)
  /\ Begun(m.body, jsonData) /\ Len(jsonData) = Len(m.body)
  /\ Pending = <<>>

Follows == message # Anything => message \in Requests /\ (Under(message) \/ Over(message))

-----------------------------------------------------------------------------
\* Sending and reading move what is on its way, and lose none of it.
LEMMA Moved ==
  ASSUME Bytes, peer_sends \/ read_some
  PROVE  Bytes' /\ Pending' = Pending
<1>1. \A s \in Text : \A n \in 1..Len(s) :
        /\ SubSeq(s, 1, n) \in Text /\ SubSeq(s, n + 1, Len(s)) \in Text
        /\ SubSeq(s, 1, n) ++ SubSeq(s, n + 1, Len(s)) = s
  <2> TAKE s \in Text
  <2> TAKE n \in 1..Len(s)
  <2>1. Len(s) \in Nat /\ n \in 0..Len(s)
    BY DEF Text
  <2>2. SubSeq(s, 1, n) \in Text /\ SubSeq(s, n + 1, Len(s)) \in Text
    BY <2>1, SubSeqProperties DEF Text
  <2>3. SubSeq(s, 1, n) \o SubSeq(s, n + 1, Len(s)) = SubSeq(s, 1, Len(s))
    BY <2>1, ConcatAdjacentSubSeq DEF Text
  <2>4. SubSeq(s, 1, Len(s)) = s
    BY SubSeqFull DEF Text
  <2> QED
    BY <2>2, <2>3, <2>4 DEF ++
<1>2. CASE peer_sends
  <2>1. PICK n \in 1..Len(unsent) : /\ network' = network ++ SubSeq(unsent, 1, n)
                                    /\ unsent' = SubSeq(unsent, n + 1, Len(unsent))
    BY <1>2 DEF peer_sends, ++
  <2>2. PICK a, b : a = SubSeq(unsent, 1, n) /\ b = SubSeq(unsent, n + 1, Len(unsent))
    OBVIOUS
  <2>3. a \in Text /\ b \in Text /\ a ++ b = unsent
    BY <1>1, <2>2 DEF Bytes
  <2>4. network' = network ++ a /\ unsent' = b /\ buffer_' = buffer_
    BY <1>2, <2>1, <2>2 DEF peer_sends
  <2>5. (network ++ a) ++ b = network ++ (a ++ b) /\ network ++ a \in Text
    BY <2>3, Regroup, Joined DEF Bytes
  <2> QED
    BY <2>3, <2>4, <2>5 DEF Bytes, Pending
<1>3. CASE read_some
  <2>1. PICK n \in 1..Len(network) : /\ buffer_' = SubSeq(network, 1, n)
                                     /\ network' = SubSeq(network, n + 1, Len(network))
    BY <1>3 DEF read_some
  <2>2. PICK a, b : a = SubSeq(network, 1, n) /\ b = SubSeq(network, n + 1, Len(network))
    OBVIOUS
  <2>3. a \in Text /\ b \in Text /\ a ++ b = network
    BY <1>1, <2>2 DEF Bytes
  <2>4. buffer_' = a /\ network' = b /\ unsent' = unsent /\ buffer_ = <<>>
    BY <1>3, <2>1, <2>2 DEF read_some
  <2>5. (a ++ b) ++ unsent = a ++ (b ++ unsent) /\ network ++ unsent \in Text
    BY <2>3, Regroup, Joined DEF Bytes
  <2>6. Pending = network ++ unsent
    BY <2>4, <2>5, ConcatEmptySeq DEF Text, ++, Pending
  <2> QED
    BY <2>3, <2>4, <2>5, <2>6 DEF Bytes, Pending
<1> QED
  BY <1>2, <1>3

\* The parser takes the next character of what is pending.
LEMMA Advance ==
  ASSUME Bytes, parse, NEW s \in Text, NEW t \in Text, NEW n \in Nat, n < Len(s),
         Pending = Drop(s, n) ++ t
  PROVE  /\ s[n + 1] \in Chars /\ consume(s[n + 1])
         /\ Bytes' /\ Pending' = Drop(s, n + 1) ++ t
<1>1. /\ buffer_ # <<>> /\ consume(Head(buffer_)) /\ buffer_' = Tail(buffer_)
      /\ network' = network /\ unsent' = unsent
  BY DEF parse
<1>2. PICK c, u, w : c = Head(buffer_) /\ u = Tail(buffer_) /\ w = network ++ unsent
  OBVIOUS
<1>3. c \in Chars /\ u \in Text /\ w \in Text /\ buffer_ = <<c>> ++ u
  <2>1. c \in Chars /\ u \in Text
    BY <1>1, <1>2, HeadTailProperties DEF Bytes, Text
  <2>2. w \in Text
    BY <1>2, Joined DEF Bytes
  <2>3. buffer_ = <<c>> ++ u
    <3>1. /\ <<c>> ++ u \in Text /\ <<c>> ++ u # <<>>
          /\ Head(<<c>> ++ u) = c /\ Tail(<<c>> ++ u) = u
      BY <2>1, Begins
    <3>2. \A v \in Text : v # <<>> => v = <<Head(v)>> \o Tail(v)
      BY DEF Text
    <3> QED
      BY <1>1, <1>2, <3>1, <3>2 DEF Bytes, ++
  <2> QED
    BY <2>1, <2>2, <2>3
<1>4. n \in 0..Len(s)
  BY DEF Text
<1>5. PICK d, r : d = s[n + 1] /\ r = Drop(s, n + 1)
  OBVIOUS
<1>6. d \in Chars /\ r \in Text /\ Drop(s, n) = <<d>> ++ r
  <2>1. n + 1 \in 0..Len(s)
    BY DEF Text
  <2> QED
    BY <1>4, <1>5, <2>1, DropStep
<1>7. Pending = <<c>> ++ (u ++ w) /\ u ++ w \in Text
  <2>1. <<c>> \in Text
    BY <1>3, Begins
  <2> QED
    BY <1>2, <1>3, <2>1, Regroup, Joined DEF Pending
<1>8. Pending = <<d>> ++ (r ++ t) /\ r ++ t \in Text
  <2>1. <<d>> \in Text
    BY <1>6, Begins
  <2> QED
    BY <1>6, <2>1, Regroup, Joined
<1>9. c = d /\ u ++ w = r ++ t
  <2>1. Head(Pending) = c /\ Tail(Pending) = u ++ w
    BY <1>3, <1>7, Begins
  <2>2. Head(Pending) = d /\ Tail(Pending) = r ++ t
    BY <1>6, <1>8, Begins
  <2> QED
    BY <2>1, <2>2
<1>10. Pending' = u ++ w /\ Bytes'
  BY <1>1, <1>2, <1>3 DEF Pending, Bytes
<1> QED
  BY <1>1, <1>2, <1>5, <1>6, <1>9, <1>10

\* The table has one row for the character in the state.
OnlyRow(from, c, row) ==
  /\ row \in Table /\ row.from = from /\ c \in row.on
  /\ \A r \in Table : r.from = from /\ c \in r.on => r = row

\* In a state that has a row for the next character of what is pending, the parser
\* takes that row.
LEMMA Takes ==
  ASSUME Bytes, parse, NEW s \in Text, NEW t \in Text, NEW n \in Nat, n < Len(s),
         Pending = Drop(s, n) ++ t,
         NEW row, OnlyRow(state_, s[n + 1], row), ~completes(s[n + 1])
  PROVE  Taken(row, s[n + 1]) /\ Bytes' /\ Pending' = Drop(s, n + 1) ++ t
<1>1. consume(s[n + 1]) /\ Bytes' /\ Pending' = Drop(s, n + 1) ++ t
  BY Advance
<1>2. PICK c : c = s[n + 1]
  OBVIOUS
<1>3. PICK r \in Table : /\ r.from = state_ /\ c \in r.on
                         /\ state_' = r.to /\ store(r, c)
                         /\ \/ /\ ends_length(r) /\ IsNumber(back.value)
                               /\ expectedContentLength' = stoul(back.value)
                               /\ result' = "indeterminate"
                            \/ /\ ends_length(r) /\ ~IsNumber(back.value)
                               /\ result' = "threw"
                               /\ UNCHANGED expectedContentLength
                            \/ /\ ~ends_length(r)
                               /\ result' = "indeterminate"
                               /\ UNCHANGED expectedContentLength
  BY <1>1, <1>2 DEF consume, OnlyRow
<1>4. r = row /\ result = "indeterminate" /\ ~completes(c)
  BY <1>1, <1>2, <1>3 DEF OnlyRow, consume
<1> QED
  BY <1>1, <1>2, <1>3, <1>4 DEF Taken

\* The rows of the request line up to the version.
LEMMA RequestLineRows ==
  /\ OnlyRow("method_start", "P", Row("method_start", Token, "method"))
  /\ OnlyRow("method", SP, Row("method", {SP}, "uri"))
  /\ OnlyRow("uri", SP, Row("uri", {SP}, "http_version_h"))
  /\ \A c \in Printable \ {SP} : OnlyRow("uri", c, Row("uri", Printable \ {SP}, "uri"))
<1>1. \A r \in Table : r.from \in {"method_start", "method", "uri"} => r \in RequestLine
  <2>1. \A r \in HeaderLines \cup Body : r.from \notin {"method_start", "method", "uri"}
    BY DEF HeaderLines, Body, Row
  <2> QED
    BY <2>1 DEF Table
<1> HIDE DEF Token, Printable, SP
<1>2. /\ \A r \in RequestLine : r.from = "method_start" => r = Row("method_start", Token, "method")
      /\ \A r \in RequestLine : r.from = "method" =>
           r = Row("method", {SP}, "uri") \/ r = Row("method", Token, "method")
      /\ \A r \in RequestLine : r.from = "uri" =>
           r = Row("uri", {SP}, "http_version_h") \/ r = Row("uri", Printable \ {SP}, "uri")
  BY DEF RequestLine, Row
<1>3. /\ Row("method_start", Token, "method") \in Table
      /\ Row("method", {SP}, "uri") \in Table
      /\ Row("uri", {SP}, "http_version_h") \in Table
      /\ Row("uri", Printable \ {SP}, "uri") \in Table
  BY DEF RequestLine, Table
<1>4. /\ OnlyRow("method_start", "P", Row("method_start", Token, "method"))
      /\ OnlyRow("method", SP, Row("method", {SP}, "uri"))
  BY <1>1, <1>2, <1>3, CharFacts DEF OnlyRow, Row
<1>5. /\ OnlyRow("uri", SP, Row("uri", {SP}, "http_version_h"))
      /\ \A c \in Printable \ {SP} : OnlyRow("uri", c, Row("uri", Printable \ {SP}, "uri"))
  BY <1>1, <1>2, <1>3 DEF OnlyRow, Row
<1> QED
  BY <1>4, <1>5

\* The rows of the version that the characters of the version are on.
LEMMA VersionRows ==
  ASSUME NEW n \in 1..10
  PROVE  /\ VersionStates[n] \in LineStates
         /\ \E row : /\ OnlyRow(VersionStates[n], Version[n + 1], row)
                     /\ row.to = IF n < 10 THEN VersionStates[n + 1] ELSE "header_line_start"
<1> DEFINE V == {VersionStates[i] : i \in 1..10}
<1>1. \A r \in Table : r.from \in V => r \in RequestLine
  <2>1. \A r \in HeaderLines \cup Body : r.from \notin V
    BY DEF HeaderLines, Body, Row, VersionStates
  <2> QED
    BY <2>1 DEF Table
<1>2. /\ VersionStates[n] \in V /\ RequestLine \subseteq Table
      /\ VersionStates[n] \in LineStates
  BY DEF Table, VersionStates, LineStates
<1> HIDE DEF V
<1> SUFFICES \E row \in RequestLine :
               /\ row.from = VersionStates[n] /\ Version[n + 1] \in row.on
               /\ row.to = IF n < 10 THEN VersionStates[n + 1] ELSE "header_line_start"
               /\ \A r \in RequestLine :
                    r.from = VersionStates[n] /\ Version[n + 1] \in r.on => r = row
  BY <1>1, <1>2 DEF OnlyRow
<1>3. CASE n = 1
  <2> DEFINE row == Row("http_version_h", {"H"}, "http_version_t_1")
  <2>1. /\ VersionStates[n] = "http_version_h" /\ VersionStates[n + 1] = "http_version_t_1" 
        /\ Version[n + 1] = "H"
    BY <1>3 DEF VersionStates, Version
  <2>2. row \in RequestLine /\ row.from = "http_version_h" /\ row.on = {"H"} /\ row.to = "http_version_t_1"
    BY DEF RequestLine, Row
  <2>3. "H" \in {"H"}
    BY CharFacts
  <2>4. \A r \in RequestLine : r.from = "http_version_h" => r = row
    BY DEF RequestLine, Row
  <2> HIDE DEF row
  <2> QED
    BY <1>3, <2>1, <2>2, <2>3, <2>4
<1>4. CASE n = 2
  <2> DEFINE row == Row("http_version_t_1", {"T"}, "http_version_t_2")
  <2>1. /\ VersionStates[n] = "http_version_t_1" /\ VersionStates[n + 1] = "http_version_t_2" 
        /\ Version[n + 1] = "T"
    BY <1>4 DEF VersionStates, Version
  <2>2. row \in RequestLine /\ row.from = "http_version_t_1" /\ row.on = {"T"} /\ row.to = "http_version_t_2"
    BY DEF RequestLine, Row
  <2>3. "T" \in {"T"}
    BY CharFacts
  <2>4. \A r \in RequestLine : r.from = "http_version_t_1" => r = row
    BY DEF RequestLine, Row
  <2> HIDE DEF row
  <2> QED
    BY <1>4, <2>1, <2>2, <2>3, <2>4
<1>5. CASE n = 3
  <2> DEFINE row == Row("http_version_t_2", {"T"}, "http_version_p")
  <2>1. /\ VersionStates[n] = "http_version_t_2" /\ VersionStates[n + 1] = "http_version_p" 
        /\ Version[n + 1] = "T"
    BY <1>5 DEF VersionStates, Version
  <2>2. row \in RequestLine /\ row.from = "http_version_t_2" /\ row.on = {"T"} /\ row.to = "http_version_p"
    BY DEF RequestLine, Row
  <2>3. "T" \in {"T"}
    BY CharFacts
  <2>4. \A r \in RequestLine : r.from = "http_version_t_2" => r = row
    BY DEF RequestLine, Row
  <2> HIDE DEF row
  <2> QED
    BY <1>5, <2>1, <2>2, <2>3, <2>4
<1>6. CASE n = 4
  <2> DEFINE row == Row("http_version_p", {"P"}, "http_version_slash")
  <2>1. /\ VersionStates[n] = "http_version_p" /\ VersionStates[n + 1] = "http_version_slash" 
        /\ Version[n + 1] = "P"
    BY <1>6 DEF VersionStates, Version
  <2>2. row \in RequestLine /\ row.from = "http_version_p" /\ row.on = {"P"} /\ row.to = "http_version_slash"
    BY DEF RequestLine, Row
  <2>3. "P" \in {"P"}
    BY CharFacts
  <2>4. \A r \in RequestLine : r.from = "http_version_p" => r = row
    BY DEF RequestLine, Row
  <2> HIDE DEF row
  <2> QED
    BY <1>6, <2>1, <2>2, <2>3, <2>4
<1>7. CASE n = 5
  <2> DEFINE row == Row("http_version_slash", {"/"}, "http_version_major_start")
  <2>1. /\ VersionStates[n] = "http_version_slash" /\ VersionStates[n + 1] = "http_version_major_start" 
        /\ Version[n + 1] = "/"
    BY <1>7 DEF VersionStates, Version
  <2>2. row \in RequestLine /\ row.from = "http_version_slash" /\ row.on = {"/"} /\ row.to = "http_version_major_start"
    BY DEF RequestLine, Row
  <2>3. "/" \in {"/"}
    BY CharFacts
  <2>4. \A r \in RequestLine : r.from = "http_version_slash" => r = row
    BY DEF RequestLine, Row
  <2> HIDE DEF row
  <2> QED
    BY <1>7, <2>1, <2>2, <2>3, <2>4
<1>8. CASE n = 6
  <2> DEFINE row == Row("http_version_major_start", Digit, "http_version_major")
  <2>1. /\ VersionStates[n] = "http_version_major_start" /\ VersionStates[n + 1] = "http_version_major" 
        /\ Version[n + 1] = "1"
    BY <1>8 DEF VersionStates, Version
  <2>2. row \in RequestLine /\ row.from = "http_version_major_start" /\ row.on = Digit /\ row.to = "http_version_major"
    BY DEF RequestLine, Row
  <2>3. "1" \in Digit
    BY CharFacts
  <2>4. \A r \in RequestLine : r.from = "http_version_major_start" => r = row
    BY DEF RequestLine, Row
  <2> HIDE DEF row
  <2> QED
    BY <1>8, <2>1, <2>2, <2>3, <2>4
<1>9. CASE n = 7
  <2> DEFINE row == Row("http_version_major", {"."}, "http_version_minor_start")
  <2>1. /\ VersionStates[n] = "http_version_major" /\ VersionStates[n + 1] = "http_version_minor_start" 
        /\ Version[n + 1] = "."
    BY <1>9 DEF VersionStates, Version
  <2>2. row \in RequestLine /\ row.from = "http_version_major" /\ row.on = {"."} /\ row.to = "http_version_minor_start"
    BY DEF RequestLine, Row
  <2>3. "." \in {"."}
    BY CharFacts
  <2>4. \A r \in RequestLine : r.from = "http_version_major" => r = row \/ r = Row("http_version_major", Digit, "http_version_major")
    BY DEF RequestLine, Row
  <2>5. "." \notin Digit
    BY CharFacts
  <2>6. \A r \in RequestLine : r.from = "http_version_major" /\ "." \in r.on => r = row
    BY <2>4, <2>5 DEF Row
  <2> HIDE DEF row
  <2> QED
    BY <1>9, <2>1, <2>2, <2>3, <2>6
<1>10. CASE n = 8
  <2> DEFINE row == Row("http_version_minor_start", Digit, "http_version_minor")
  <2>1. /\ VersionStates[n] = "http_version_minor_start" /\ VersionStates[n + 1] = "http_version_minor" 
        /\ Version[n + 1] = "0"
    BY <1>10 DEF VersionStates, Version
  <2>2. row \in RequestLine /\ row.from = "http_version_minor_start" /\ row.on = Digit /\ row.to = "http_version_minor"
    BY DEF RequestLine, Row
  <2>3. "0" \in Digit
    BY CharFacts
  <2>4. \A r \in RequestLine : r.from = "http_version_minor_start" => r = row
    BY DEF RequestLine, Row
  <2> HIDE DEF row
  <2> QED
    BY <1>10, <2>1, <2>2, <2>3, <2>4
<1>11. CASE n = 9
  <2> DEFINE row == Row("http_version_minor", {CR}, "expecting_newline_1")
  <2>1. /\ VersionStates[n] = "http_version_minor" /\ VersionStates[n + 1] = "expecting_newline_1" 
        /\ Version[n + 1] = CR
    BY <1>11 DEF VersionStates, Version
  <2>2. row \in RequestLine /\ row.from = "http_version_minor" /\ row.on = {CR} /\ row.to = "expecting_newline_1"
    BY DEF RequestLine, Row
  <2>3. CR \in {CR}
    BY CharFacts
  <2>4. \A r \in RequestLine : r.from = "http_version_minor" => r = row \/ r = Row("http_version_minor", Digit, "http_version_minor")
    BY DEF RequestLine, Row
  <2>5. CR \notin Digit
    BY CharFacts
  <2>6. \A r \in RequestLine : r.from = "http_version_minor" /\ CR \in r.on => r = row
    BY <2>4, <2>5 DEF Row
  <2> HIDE DEF row
  <2> QED
    BY <1>11, <2>1, <2>2, <2>3, <2>6
<1>12. CASE n = 10
  <2> DEFINE row == Row("expecting_newline_1", {LF}, "header_line_start")
  <2>1. /\ VersionStates[n] = "expecting_newline_1" 
        /\ Version[n + 1] = LF
    BY <1>12 DEF VersionStates, Version
  <2>2. row \in RequestLine /\ row.from = "expecting_newline_1" /\ row.on = {LF} /\ row.to = "header_line_start"
    BY DEF RequestLine, Row
  <2>3. LF \in {LF}
    BY CharFacts
  <2>4. \A r \in RequestLine : r.from = "expecting_newline_1" => r = row
    BY DEF RequestLine, Row
  <2> HIDE DEF row
  <2> QED
    BY <1>12, <2>1, <2>2, <2>3, <2>4
<1> QED
  BY <1>3, <1>4, <1>5, <1>6, <1>7, <1>8, <1>9, <1>10, <1>11, <1>12

\* The rows of the headers and of the body that a request as the client writes it
\* meets.
LEMMA LineRows ==
  /\ OnlyRow("header_line_start", CR, Row("header_line_start", {CR}, "expecting_newline_3"))
  /\ \A c \in Token :
       /\ OnlyRow("header_line_start", c, Row("header_line_start", Token, "header_name"))
       /\ OnlyRow("header_name", c, Row("header_name", Token, "header_name"))
  /\ OnlyRow("header_name", ":", Row("header_name", {":"}, "space_before_header_value"))
  /\ OnlyRow("space_before_header_value", SP,
             Row("space_before_header_value", {SP}, "header_value"))
  /\ OnlyRow("header_value", CR, Row("header_value", {CR}, "expecting_newline_2"))
  /\ \A c \in Printable :
       /\ OnlyRow("header_value", c, Row("header_value", Printable, "header_value"))
       /\ OnlyRow("body_content_normal", c,
                  Row("body_content_normal", Printable, "body_content_normal"))
  /\ OnlyRow("expecting_newline_2", LF, Row("expecting_newline_2", {LF}, "header_line_start"))
  /\ OnlyRow("expecting_newline_3", LF, Row("expecting_newline_3", {LF}, "body_content_normal"))
  /\ OnlyRow("body_content_normal", CR,
             Row("body_content_normal", {CR}, "body_content_expect_newline"))
  /\ OnlyRow("body_content_expect_newline", LF,
             Row("body_content_expect_newline", {LF}, "body_content_normal"))
<1>1. /\ Row("header_line_start", {CR}, "expecting_newline_3") \in Table
      /\ Row("header_line_start", Token, "header_name") \in Table
      /\ Row("header_name", {":"}, "space_before_header_value") \in Table
      /\ Row("header_name", Token, "header_name") \in Table
      /\ Row("space_before_header_value", {SP}, "header_value") \in Table
      /\ Row("header_value", {CR}, "expecting_newline_2") \in Table
      /\ Row("header_value", Printable, "header_value") \in Table
      /\ Row("expecting_newline_2", {LF}, "header_line_start") \in Table
      /\ Row("expecting_newline_3", {LF}, "body_content_normal") \in Table
      /\ Row("body_content_normal", {CR}, "body_content_expect_newline") \in Table
      /\ Row("body_content_normal", Printable, "body_content_normal") \in Table
      /\ Row("body_content_expect_newline", {LF}, "body_content_normal") \in Table
  <2> HIDE DEF Row, Token, Printable, CR, LF, SP
  <2> QED
    BY DEF Table, HeaderLines, Body
<1>2. Continuation \subseteq Blank
  BY DEF Continuation
<1>3. /\ CR \notin Continuation /\ \A c \in Token : c \notin Continuation
      /\ \A c \in Token : c # CR /\ c # ":"
      /\ \A c \in Printable : c # CR
      /\ ":" \notin Token /\ CR \notin Token /\ CR \notin Printable
  BY <1>2, CharFacts DEF Blank, CR, SP, HT
<1> HIDE DEF Token, Printable, Continuation, CR, LF, SP
<1>4. /\ OnlyRow("header_line_start", CR, Row("header_line_start", {CR}, "expecting_newline_3"))
      /\ \A c \in Token :
           OnlyRow("header_line_start", c, Row("header_line_start", Token, "header_name"))
  BY <1>1, <1>3, TableRows DEF OnlyRow, Row, LineStates
<1>5. /\ \A c \in Token : OnlyRow("header_name", c, Row("header_name", Token, "header_name"))
      /\ OnlyRow("header_name", ":", Row("header_name", {":"}, "space_before_header_value"))
  BY <1>1, <1>3, TableRows DEF OnlyRow, Row, LineStates
<1>6. OnlyRow("space_before_header_value", SP,
              Row("space_before_header_value", {SP}, "header_value"))
  BY <1>1, <1>3, TableRows DEF OnlyRow, Row, LineStates
<1>7. /\ OnlyRow("header_value", CR, Row("header_value", {CR}, "expecting_newline_2"))
      /\ \A c \in Printable :
           OnlyRow("header_value", c, Row("header_value", Printable, "header_value"))
  BY <1>1, <1>3, TableRows DEF OnlyRow, Row, LineStates
<1>8. /\ OnlyRow("expecting_newline_2", LF, Row("expecting_newline_2", {LF}, "header_line_start"))
      /\ OnlyRow("expecting_newline_3", LF, Row("expecting_newline_3", {LF}, "body_content_normal"))
  BY <1>1, <1>3, TableRows DEF OnlyRow, Row, LineStates
<1>9. /\ \A c \in Printable : OnlyRow("body_content_normal", c,
                                Row("body_content_normal", Printable, "body_content_normal"))
      /\ OnlyRow("body_content_normal", CR,
                 Row("body_content_normal", {CR}, "body_content_expect_newline"))
  BY <1>1, <1>3, TableRows DEF OnlyRow, Row, LineStates
<1>10. OnlyRow("body_content_expect_newline", LF,
               Row("body_content_expect_newline", {LF}, "body_content_normal"))
  BY <1>1, <1>3, TableRows DEF OnlyRow, Row, LineStates
<1> QED
  BY <1>4, <1>5, <1>6, <1>7, <1>8, <1>9, <1>10

-----------------------------------------------------------------------------
\* One more character of what is being taken; and the whole of it.
LEMMA BegunGrows ==
  ASSUME NEW s \in Text, NEW u \in Text, Begun(s, u)
  PROVE  /\ Len(u) \in Nat /\ Len(s) \in Nat /\ Len(u) <= Len(s)
         /\ Len(u) < Len(s) =>
              LET v == Append(u, s[Len(u) + 1])
              IN v \in Text /\ v # <<>> /\ Len(v) = Len(u) + 1 /\ Begun(s, v)
         /\ ~(Len(u) < Len(s)) => u = s
<1>1. Len(u) \in Nat /\ Len(s) \in Nat /\ Len(u) <= Len(s)
  BY DEF Text, Begun
<1>2. ASSUME Len(u) < Len(s)
      PROVE  LET v == Append(u, s[Len(u) + 1])
             IN v \in Text /\ v # <<>> /\ Len(v) = Len(u) + 1 /\ Begun(s, v)
  <2>1. s[Len(u) + 1] \in Chars
    BY <1>1, <1>2 DEF Text
  <2>2. PICK v : v = Append(u, s[Len(u) + 1])
    OBVIOUS
  <2>3. /\ v \in Text /\ v # <<>> /\ Len(v) = Len(u) + 1
        /\ \A i \in 1..Len(u) : v[i] = u[i]
        /\ v[Len(u) + 1] = s[Len(u) + 1]
    BY <2>1, <2>2, BodyGrows DEF Text
  <2>4. Begun(s, v)
    BY <1>1, <1>2, <2>3 DEF Begun
  <2> QED
    BY <2>2, <2>3, <2>4
<1>3. ~(Len(u) < Len(s)) => u = s
  BY <1>1, SeqEqual DEF Begun, Text
<1> QED
  BY <1>1, <1>2, <1>3

\* Nothing has been taken yet.
LEMMA BegunEmpty ==
  ASSUME NEW s \in Text
  PROVE  Begun(s, <<>>) /\ Len(<<>>) = 0
BY DEF Begun, Text

-----------------------------------------------------------------------------
(***************************************************************************)
(* One turn of the loop in parse, for each place in the request.           *)
(***************************************************************************)
\* The method, and the space after it.
LEMMA TakesMethod ==
  ASSUME IInv, Bytes, parse, NEW m \in Messages, AtMethod(m) \/ InMethod(m)
  PROVE  Bytes' /\ Under(m)'
<1>1. Method \in Text /\ AfterMethod(m) \in Text /\ Len(Method) = 2
  BY Pieces, RenderIs
<1>2. CASE AtMethod(m)
  <2> DEFINE row == Row("method_start", Token, "method")
  <2>1. OnlyRow(state_, Method[0 + 1], row) /\ ~completes(Method[0 + 1])
    BY <1>2, Pieces, RequestLineRows DEF AtMethod, completes
  <2>2. row.from = "method_start" /\ row.to = "method"
    BY DEF Row
  <2> HIDE DEF row
  <2>3. Taken(row, Method[0 + 1]) /\ Bytes' /\ Pending' = Drop(Method, 0 + 1) ++ AfterMethod(m)
    BY <1>1, <1>2, <2>1, Takes DEF AtMethod
  <2>4. state_' = "method" /\ uri' = uri /\ result' = "indeterminate"
    BY <2>2, <2>3 DEF Taken, store, ends_length
  <2> QED
    BY <1>2, <2>3, <2>4 DEF AtMethod, InMethod, Under
<1>3. CASE InMethod(m)
  <2> DEFINE row == Row("method", {SP}, "uri")
  <2>1. OnlyRow(state_, Method[1 + 1], row) /\ ~completes(Method[1 + 1])
    BY <1>3, Pieces, RequestLineRows DEF InMethod, completes
  <2>2. row.from = "method" /\ row.to = "uri"
    BY DEF Row
  <2> HIDE DEF row
  <2>3. Taken(row, Method[1 + 1]) /\ Bytes' /\ Pending' = Drop(Method, 1 + 1) ++ AfterMethod(m)
    <3>1. 1 \in Nat /\ 1 < Len(Method) /\ Pending = Drop(Method, 1) ++ AfterMethod(m)
      BY <1>1, <1>3 DEF InMethod
    <3> QED
      BY <1>1, <2>1, <3>1, Takes
  <2>4. state_' = "uri" /\ uri' = uri /\ result' = "indeterminate"
    BY <2>2, <2>3 DEF Taken, store, ends_length
  <2>5. uri' = <<>> /\ Begun(m.uri, <<>>) /\ Len(<<>>) = 0
    BY <1>3, <2>4, MessageText, BegunEmpty DEF InMethod
  <2>6. Pending' = Drop(m.uri, 0) ++ AfterUri(m)
    <3>1. Drop(Method, 1 + 1) ++ AfterMethod(m) = AfterMethod(m)
      <4>1. 1 + 1 = Len(Method)
        BY <1>1
      <4> QED
        BY <1>1, <4>1, DropEnds
    <3>2. Drop(m.uri, 0) = m.uri
      BY MessageText, DropEnds
    <3> QED
      BY <2>3, <3>1, <3>2 DEF AfterMethod
  <2>7. InUri(m)'
    BY <2>4, <2>5, <2>6 DEF InUri
  <2> QED
    BY <2>3, <2>4, <2>7 DEF Under
<1> QED
  BY <1>2, <1>3

\* The path, and the space after it.
LEMMA TakesUri ==
  ASSUME IInv, Bytes, parse, NEW m \in Messages, InUri(m)
  PROVE  Bytes' /\ Under(m)'
<1>1. /\ m.uri \in Text /\ m.uri \in Seq(Printable \ {SP}) /\ uri \in Text
      /\ AfterUri(m) \in Text /\ headersFrom(m)[1] \in Text /\ Version \in Text
      /\ state_ = "uri"
      /\ Begun(m.uri, uri) /\ Pending = Drop(m.uri, Len(uri)) ++ AfterUri(m)
  BY MessageText, RenderIs, Pieces DEF Messages, IInv, TypeOK, Text, InUri
<1>2. Len(uri) \in Nat /\ Len(m.uri) \in Nat
  BY <1>1, BegunGrows
<1>3. CASE Len(uri) < Len(m.uri)
  <2> DEFINE row == Row("uri", Printable \ {SP}, "uri")
             c == m.uri[Len(uri) + 1]
  <2>1. c \in Printable \ {SP}
    BY <1>1, <1>2, <1>3
  <2>2. OnlyRow(state_, c, row) /\ ~completes(c)
    BY <1>1, <2>1, RequestLineRows DEF completes
  <2>3. row.from = "uri" /\ row.to = "uri"
    BY DEF Row
  <2> HIDE DEF row
  <2>4. Taken(row, c) /\ Bytes' /\ Pending' = Drop(m.uri, Len(uri) + 1) ++ AfterUri(m)
    BY <1>1, <1>2, <1>3, <2>2, Takes
  <2>5. state_' = "uri" /\ uri' = Append(uri, c) /\ result' = "indeterminate"
    BY <2>3, <2>4 DEF Taken, store, ends_length
  <2>6. Len(uri') = Len(uri) + 1 /\ Begun(m.uri, uri')
    BY <1>1, <1>3, <2>5, BegunGrows
  <2>7. InUri(m)'
    BY <2>4, <2>5, <2>6 DEF InUri
  <2> QED
    BY <2>4, <2>5, <2>7 DEF Under
<1>4. CASE ~(Len(uri) < Len(m.uri))
  <2> DEFINE row == Row("uri", {SP}, "http_version_h")
  <2>1. uri = m.uri
    BY <1>1, <1>4, BegunGrows
  <2>2. Pending = Drop(Version, 0) ++ headersFrom(m)[1]
    <3>1. Pending = AfterUri(m)
      BY <1>1, <2>1, DropEnds
    <3> QED
      BY <1>1, <3>1, DropEnds DEF AfterUri
  <2>3. OnlyRow(state_, Version[0 + 1], row) /\ ~completes(Version[0 + 1])
    <3>1. Version[0 + 1] = SP
      BY DEF Version
    <3> QED
      BY <1>1, <3>1, RequestLineRows DEF completes
  <2>4. row.from = "uri" /\ row.to = "http_version_h"
    BY DEF Row
  <2> HIDE DEF row
  <2>5. 0 < Len(Version)
    BY Pieces
  <2>6. /\ Taken(row, Version[0 + 1]) /\ Bytes'
        /\ Pending' = Drop(Version, 0 + 1) ++ headersFrom(m)[1]
    BY <1>1, <2>2, <2>3, <2>5, Takes
  <2>7. state_' = "http_version_h" /\ uri' = uri /\ result' = "indeterminate"
    BY <2>4, <2>6 DEF Taken, store, ends_length
  <2>8. VersionStates[1] = "http_version_h"
    BY DEF VersionStates
  <2>9. InVersion(m)'
    BY <2>1, <2>6, <2>7, <2>8 DEF InVersion
  <2> QED
    BY <2>6, <2>7, <2>9 DEF Under
<1> QED
  BY <1>3, <1>4

\* The version, and the end of the request line.
LEMMA TakesVersion ==
  ASSUME IInv, Bytes, parse, NEW m \in Messages, InVersion(m)
  PROVE  Bytes' /\ Under(m)'
<1>1. PICK n \in 1..10 : /\ state_ = VersionStates[n] /\ uri = m.uri
                         /\ Pending = Drop(Version, n) ++ headersFrom(m)[1]
  BY DEF InVersion
<1>2. Version \in Text /\ Len(Version) = 11 /\ headersFrom(m)[1] \in Text
  BY Pieces, RenderIs
<1>3. PICK row : /\ OnlyRow(state_, Version[n + 1], row)
                 /\ row.to = IF n < 10 THEN VersionStates[n + 1] ELSE "header_line_start"
                 /\ state_ \in LineStates
  BY <1>1, VersionRows
<1>4. row.from = state_ /\ row.from # "uri"
  <2>1. \A i \in 1..10 : VersionStates[i] # "uri"
    BY DEF VersionStates
  <2> QED
    BY <1>1, <1>3, <2>1 DEF OnlyRow
<1>5. ~completes(Version[n + 1])
  BY <1>3 DEF completes, LineStates
<1>6. /\ Taken(row, Version[n + 1]) /\ Bytes'
      /\ Pending' = Drop(Version, n + 1) ++ headersFrom(m)[1]
  <2>1. n \in Nat /\ n < Len(Version)
    BY <1>2
  <2> QED
    BY <1>1, <1>2, <1>3, <1>5, <2>1, Takes
<1>7. state_' = row.to /\ uri' = uri /\ headers' = headers /\ result' = "indeterminate"
  BY <1>3, <1>4, <1>6 DEF Taken, store, ends_length, LineStates
<1>8. CASE n < 10
  <2>1. InVersion(m)'
    BY <1>1, <1>3, <1>6, <1>7, <1>8 DEF InVersion
  <2> QED
    BY <1>6, <1>7, <2>1 DEF Under
<1>9. CASE n = 10
  <2>1. headers' = <<>> /\ Len(headers') = 0
    BY <1>3, <1>7 DEF IInv, HeadersBegin
  <2>2. Pending' = headersFrom(m)[Len(headers') + 1]
    <3>1. n + 1 = Len(Version)
      BY <1>2, <1>9
    <3>2. Drop(Version, n + 1) ++ headersFrom(m)[1] = headersFrom(m)[1]
      BY <1>2, <3>1, DropEnds
    <3> QED
      BY <1>6, <2>1, <3>2
  <2>3. HeadersUpTo(m, Len(headers))'
    BY <1>1, <1>7, <2>1, MessageText DEF HeadersUpTo
  <2>4. AtLine(m)'
    BY <1>3, <1>7, <1>9, <2>2, <2>3 DEF AtLine
  <2> QED
    BY <1>6, <1>7, <2>4 DEF Under
<1> QED
  BY <1>8, <1>9

\* The beginning of a line: of a header, or of the empty line.
LEMMA TakesLine ==
  ASSUME IInv, Bytes, parse, NEW m \in Messages, AtLine(m)
  PROVE  Bytes' /\ Under(m)'
<1>1. PICK k : k = Len(headers)
  OBVIOUS
<1>2. /\ k \in Nat /\ headers \in Seq(HeaderType) /\ k <= Len(m.headers)
      /\ state_ = "header_line_start" /\ HeadersUpTo(m, k)
      /\ Pending = headersFrom(m)[k + 1] /\ Len(m.headers) \in Nat
  BY <1>1, MessageText DEF IInv, TypeOK, AtLine, HeadersUpTo
<1>3. CASE k < Len(m.headers)
  <2>1. k + 1 \in 1..Len(m.headers)
    BY <1>2, <1>3
  <2>2. PICK name : name = m.headers[k + 1].name
    OBVIOUS
  <2>3. name \in Text /\ name \in Seq(Token) /\ name # <<>> /\ AfterName(m, k + 1) \in Text
    BY <2>1, <2>2, MessageText, LineIs
  <2>4. Pending = Drop(name, 0) ++ AfterName(m, k + 1)
    BY <1>2, <2>1, <2>2, <2>3, LineIs, DropEnds
  <2>5. 0 < Len(name)
    BY <2>3
  <2> DEFINE row == Row("header_line_start", Token, "header_name")
             c == name[0 + 1]
  <2>6. c \in Token /\ c \in Chars
    BY <2>3, <2>5, CharFacts
  <2>7. OnlyRow(state_, c, row) /\ ~completes(c)
    BY <1>2, <2>6, LineRows DEF completes
  <2>8. row.from = "header_line_start" /\ row.to = "header_name"
    BY DEF Row
  <2> HIDE DEF row
  <2>9. Taken(row, c) /\ Bytes' /\ Pending' = Drop(name, 0 + 1) ++ AfterName(m, k + 1)
    BY <2>3, <2>4, <2>5, <2>7, Takes
  <2> HIDE DEF c
  <2>10. PICK h : h = [name |-> <<c>>, value |-> <<>>]
    OBVIOUS
  <2>11. /\ state_' = "header_name" /\ uri' = uri /\ result' = "indeterminate"
         /\ headers' = Append(headers, h)
    BY <2>8, <2>9, <2>10 DEF Taken, store, ends_length
  <2>12. h \in HeaderType
    BY <2>6, <2>10 DEF HeaderType
  <2>13. /\ headers' # <<>> /\ Len(headers') = k + 1 /\ headers'[k + 1] = h
         /\ \A i \in 1..k : headers'[i] = headers[i]
    BY <1>1, <1>2, <2>11, <2>12
  <2>14. back' = h
    BY <2>13 DEF back
  <2>15. /\ h.name = <<c>> /\ h.value = <<>>
    BY <2>10
  <2>16. <<c>> # <<>> /\ Len(<<c>>) = 0 + 1 /\ Begun(name, <<c>>)
    <3>1. Len(<<c>>) = 1 /\ <<c>>[1] = c /\ c = name[1]
      BY DEF c
    <3>2. Len(<<c>>) <= Len(name)
      BY <2>3, <2>5, <3>1
    <3> QED
      BY <3>1, <3>2 DEF Begun
  <2>17. HeadersUpTo(m, Len(headers) - 1)'
    <3>1. Len(headers') - 1 = k
      BY <1>2, <2>13
    <3> QED
      BY <1>2, <2>11, <2>13, <3>1 DEF HeadersUpTo
  <2>18. OpenLine(m)'
    BY <2>1, <2>13, <2>17 DEF OpenLine
  <2>19. InName(m)'
    BY <2>2, <2>9, <2>11, <2>13, <2>14, <2>15, <2>16, <2>18 DEF InName
  <2> QED
    BY <2>9, <2>11, <2>19 DEF Under
<1>4. CASE k = Len(m.headers)
  <2> DEFINE row == Row("header_line_start", {CR}, "expecting_newline_3")
  <2>1. LineEnd \in Text /\ 0 < Len(LineEnd) /\ m.body \in Text
    BY Pieces, MessageText
  <2>2. Pending = Drop(LineEnd, 0) ++ m.body
    BY <1>2, <1>4, <2>1, EndIs, DropEnds
  <2>3. OnlyRow(state_, LineEnd[0 + 1], row) /\ ~completes(LineEnd[0 + 1])
    BY <1>2, Pieces, LineRows DEF completes
  <2>4. row.from = "header_line_start" /\ row.to = "expecting_newline_3"
    BY DEF Row
  <2> HIDE DEF row
  <2>5. Taken(row, LineEnd[0 + 1]) /\ Bytes' /\ Pending' = Drop(LineEnd, 0 + 1) ++ m.body
    BY <2>1, <2>2, <2>3, Takes
  <2>6. /\ state_' = "expecting_newline_3" /\ uri' = uri /\ result' = "indeterminate"
        /\ headers' = headers
    BY <2>4, <2>5 DEF Taken, store, ends_length
  <2>7. AtHeadersEnd(m)'
    <3>1. HeadersUpTo(m, Len(headers))'
      BY <1>1, <1>2, <2>6 DEF HeadersUpTo
    <3>2. 0 + 1 = 1
      OBVIOUS
    <3> QED
      BY <1>1, <1>4, <2>5, <2>6, <3>1, <3>2 DEF AtHeadersEnd
  <2> QED
    BY <2>5, <2>6, <2>7 DEF Under
<1> QED
  BY <1>2, <1>3, <1>4

\* The header of the line that is being read.
LEMMA OpenFacts ==
  ASSUME IInv, NEW m \in Messages, OpenLine(m), NEW k, k = Len(headers)
  PROVE  /\ k \in 1..Len(m.headers) /\ headers \in Seq(HeaderType) /\ headers # <<>>
         /\ back = headers[k] /\ back.name \in Text /\ back.value \in Text
         /\ back = [name |-> back.name, value |-> back.value]
         /\ m.headers[k].name \in Text /\ m.headers[k].name \in Seq(Token)
         /\ m.headers[k].value \in Text /\ m.headers[k].value \in Seq(Printable)
         /\ m.headers[k] = [name |-> m.headers[k].name, value |-> m.headers[k].value]
         /\ AfterName(m, k) \in Text /\ AfterColon(m, k) \in Text
         /\ AfterValue(m, k) \in Text /\ headersFrom(m)[k + 1] \in Text
         /\ HeadersUpTo(m, k - 1)
<1>1. headers \in Seq(HeaderType) /\ headers # <<>> /\ k <= Len(m.headers)
  BY DEF IInv, TypeOK, OpenLine
<1>2. k \in 1..Len(m.headers) /\ k \in 1..Len(headers)
  BY <1>1, MessageText
<1>3. back = headers[k] /\ back \in HeaderType
  BY <1>1, <1>2 DEF back
<1>4. /\ back.name \in Text /\ back.value \in Text
      /\ back = [name |-> back.name, value |-> back.value]
  BY <1>3 DEF HeaderType, Text
<1>5. m.headers[k] \in HeaderType
  BY <1>2, MessageText
<1>6. m.headers[k] = [name |-> m.headers[k].name, value |-> m.headers[k].value]
  BY <1>5 DEF HeaderType
<1>7. /\ m.headers[k].name \in Text /\ m.headers[k].name \in Seq(Token)
      /\ m.headers[k].value \in Text /\ m.headers[k].value \in Seq(Printable)
  BY <1>2, MessageText
<1>8. /\ AfterName(m, k) \in Text /\ AfterColon(m, k) \in Text
      /\ AfterValue(m, k) \in Text /\ headersFrom(m)[k + 1] \in Text
  BY <1>2, LineIs
<1> QED
  BY <1>1, <1>2, <1>3, <1>4, <1>6, <1>7, <1>8 DEF OpenLine

\* A line that is being read stays the last one.
LEMMA OpenStays ==
  ASSUME NEW m, OpenLine(m), uri' = uri, headers' # <<>>, Len(headers') = Len(headers),
         \A i \in 1..(Len(headers) - 1) : headers'[i] = headers[i]
  PROVE  OpenLine(m)'
BY DEF OpenLine, HeadersUpTo

\* The name of a header, and the colon after it.
LEMMA TakesName ==
  ASSUME IInv, Bytes, parse, NEW m \in Messages, InName(m)
  PROVE  Bytes' /\ Under(m)'
<1>1. PICK k : k = Len(headers)
  OBVIOUS
<1>2. PICK name, u : name = m.headers[k].name /\ u = back.name
  OBVIOUS
<1>3. /\ state_ = "header_name" /\ OpenLine(m) /\ u # <<>> /\ Begun(name, u)
      /\ back.value = <<>> /\ Pending = Drop(name, Len(u)) ++ AfterName(m, k)
  BY <1>1, <1>2 DEF InName
<1>4. /\ k \in 1..Len(m.headers) /\ headers \in Seq(HeaderType) /\ headers # <<>>
      /\ back = headers[k] /\ u \in Text /\ name \in Text /\ name \in Seq(Token)
      /\ AfterName(m, k) \in Text /\ AfterColon(m, k) \in Text
  BY <1>1, <1>2, <1>3, OpenFacts
<1>5. Len(u) \in Nat /\ Len(name) \in Nat
  BY <1>3, <1>4, BegunGrows
<1>6. CASE Len(u) < Len(name)
  <2> DEFINE row == Row("header_name", Token, "header_name")
             c == name[Len(u) + 1]
  <2>1. c \in Token /\ c \in Chars
    BY <1>4, <1>5, <1>6, CharFacts
  <2>2. OnlyRow(state_, c, row) /\ ~completes(c)
    BY <1>3, <2>1, LineRows DEF completes
  <2>3. row.from = "header_name" /\ row.to = "header_name"
    BY DEF Row
  <2> HIDE DEF row
  <2>4. Taken(row, c) /\ Bytes' /\ Pending' = Drop(name, Len(u) + 1) ++ AfterName(m, k)
    BY <1>3, <1>4, <1>5, <1>6, <2>2, Takes
  <2>5. /\ state_' = "header_name" /\ uri' = uri /\ result' = "indeterminate"
        /\ headers' = NameGrown(headers, c)
    BY <2>3, <2>4 DEF Taken, store, ends_length, NameGrown
  <2> HIDE DEF c
  <2>6. /\ Len(headers') = k /\ headers' # <<>>
        /\ \A i \in 1..k : i # k => headers'[i] = headers[i]
        /\ headers'[k].name = Append(headers[k].name, c)
        /\ headers'[k].value = headers[k].value
    BY <1>1, <1>4, <2>1, <2>5, NameGrows
  <2>7. back' = headers'[k]
    BY <2>6 DEF back
  <2>8. back'.name = Append(u, c) /\ back'.value = <<>>
    BY <1>2, <1>3, <1>4, <2>6, <2>7
  <2>9. back'.name # <<>> /\ Len(back'.name) = Len(u) + 1 /\ Begun(name, back'.name)
    BY <1>3, <1>4, <1>6, <2>8, BegunGrows DEF c
  <2>10. OpenLine(m)'
    <3>1. \A i \in 1..(Len(headers) - 1) : headers'[i] = headers[i]
      BY <1>1, <1>4, <2>6
    <3> QED
      BY <1>1, <1>3, <2>5, <2>6, <3>1, OpenStays
  <2>11. InName(m)'
    BY <1>2, <2>4, <2>5, <2>6, <2>8, <2>9, <2>10 DEF InName
  <2> QED
    BY <2>4, <2>5, <2>11 DEF Under
<1>7. CASE ~(Len(u) < Len(name))
  <2> DEFINE row == Row("header_name", {":"}, "space_before_header_value")
  <2>1. u = name /\ Colon \in Text /\ 0 < Len(Colon)
    BY <1>3, <1>4, <1>7, BegunGrows, Pieces
  <2>2. Pending = Drop(Colon, 0) ++ AfterColon(m, k)
    <3>1. Pending = AfterName(m, k)
      BY <1>3, <1>4, <2>1, DropEnds
    <3> QED
      BY <1>4, <2>1, <3>1, DropEnds DEF AfterName
  <2>3. OnlyRow(state_, Colon[0 + 1], row) /\ ~completes(Colon[0 + 1])
    BY <1>3, Pieces, LineRows DEF completes
  <2>4. row.from = "header_name" /\ row.to = "space_before_header_value"
    BY DEF Row
  <2> HIDE DEF row
  <2>5. Taken(row, Colon[0 + 1]) /\ Bytes' /\ Pending' = Drop(Colon, 0 + 1) ++ AfterColon(m, k)
    BY <1>4, <2>1, <2>2, <2>3, Takes
  <2>6. /\ state_' = "space_before_header_value" /\ uri' = uri /\ result' = "indeterminate"
        /\ headers' = headers
    BY <2>4, <2>5 DEF Taken, store, ends_length
  <2>7. OpenLine(m)' /\ back' = back
    BY <1>3, <1>4, <2>6, OpenStays DEF back
  <2>8. BeforeValue(m)'
    <3>1. 0 + 1 = 1
      OBVIOUS
    <3>2. back.name = m.headers[k].name /\ back.value = <<>>
      BY <1>2, <1>3, <2>1
    <3> QED
      BY <1>1, <2>5, <2>6, <2>7, <3>1, <3>2 DEF BeforeValue
  <2> QED
    BY <2>5, <2>6, <2>8 DEF Under
<1> QED
  BY <1>6, <1>7

\* The space before the value.
LEMMA TakesSpace ==
  ASSUME IInv, Bytes, parse, NEW m \in Messages, BeforeValue(m)
  PROVE  Bytes' /\ Under(m)'
<1>1. PICK k : k = Len(headers)
  OBVIOUS
<1>2. /\ state_ = "space_before_header_value" /\ OpenLine(m)
      /\ back.name = m.headers[k].name /\ back.value = <<>>
      /\ Pending = Drop(Colon, 1) ++ AfterColon(m, k)
  BY <1>1 DEF BeforeValue
<1>3. /\ headers # <<>> /\ m.headers[k].value \in Text
      /\ AfterColon(m, k) \in Text /\ AfterValue(m, k) \in Text
  BY <1>1, <1>2, OpenFacts
<1>4. Colon \in Text /\ 1 \in Nat /\ 1 < Len(Colon)
  BY Pieces
<1> DEFINE row == Row("space_before_header_value", {SP}, "header_value")
<1>5. OnlyRow(state_, Colon[1 + 1], row) /\ ~completes(Colon[1 + 1])
  BY <1>2, Pieces, LineRows DEF completes
<1>6. row.from = "space_before_header_value" /\ row.to = "header_value"
  BY DEF Row
<1> HIDE DEF row
<1>7. Taken(row, Colon[1 + 1]) /\ Bytes' /\ Pending' = Drop(Colon, 1 + 1) ++ AfterColon(m, k)
  BY <1>2, <1>3, <1>4, <1>5, Takes
<1>8. /\ state_' = "header_value" /\ uri' = uri /\ result' = "indeterminate"
      /\ headers' = headers
  BY <1>6, <1>7 DEF Taken, store, ends_length
<1>9. OpenLine(m)' /\ back' = back
  BY <1>2, <1>3, <1>8, OpenStays DEF back
<1>10. Pending' = Drop(m.headers[k].value, 0) ++ AfterValue(m, k)
  <2>1. Drop(Colon, 1 + 1) ++ AfterColon(m, k) = AfterColon(m, k)
    <3>1. 1 + 1 = Len(Colon)
      BY Pieces
    <3> QED
      BY <1>3, <1>4, <3>1, DropEnds
  <2>2. Drop(m.headers[k].value, 0) = m.headers[k].value
    BY <1>3, DropEnds
  <2> QED
    BY <1>7, <2>1, <2>2 DEF AfterColon
<1>11. Begun(m.headers[k].value, back.value) /\ Len(back.value) = 0
  BY <1>2, <1>3, BegunEmpty
<1>12. InValue(m)'
  BY <1>1, <1>2, <1>8, <1>9, <1>10, <1>11 DEF InValue
<1> QED
  BY <1>7, <1>8, <1>12 DEF Under

\* The value of a header, and the end of its line: a length that is read there is the
\* number the peer wrote, so stoul does not throw.
LEMMA TakesValue ==
  ASSUME IInv, Bytes, parse, NEW m \in Messages, SaysItsLength(m), InValue(m)
  PROVE  Bytes' /\ Under(m)'
<1>1. PICK k : k = Len(headers)
  OBVIOUS
<1>2. PICK value, u : value = m.headers[k].value /\ u = back.value
  OBVIOUS
<1>3. /\ state_ = "header_value" /\ OpenLine(m) /\ Begun(value, u)
      /\ back.name = m.headers[k].name /\ Pending = Drop(value, Len(u)) ++ AfterValue(m, k)
  BY <1>1, <1>2 DEF InValue
<1>4. /\ k \in 1..Len(m.headers) /\ headers \in Seq(HeaderType) /\ headers # <<>>
      /\ back = headers[k] /\ u \in Text /\ value \in Text /\ value \in Seq(Printable)
      /\ AfterValue(m, k) \in Text /\ headersFrom(m)[k + 1] \in Text
      /\ back = [name |-> back.name, value |-> back.value]
      /\ m.headers[k] = [name |-> m.headers[k].name, value |-> m.headers[k].value]
      /\ HeadersUpTo(m, k - 1)
  BY <1>1, <1>2, <1>3, OpenFacts
<1>5. Len(u) \in Nat /\ Len(value) \in Nat
  BY <1>3, <1>4, BegunGrows
<1>6. CASE Len(u) < Len(value)
  <2> DEFINE row == Row("header_value", Printable, "header_value")
             c == value[Len(u) + 1]
  <2>1. c \in Printable /\ c \in Chars
    BY <1>4, <1>5, <1>6, CharFacts
  <2>2. OnlyRow(state_, c, row) /\ ~completes(c)
    BY <1>3, <2>1, LineRows DEF completes
  <2>3. row.from = "header_value" /\ row.to = "header_value"
    BY DEF Row
  <2> HIDE DEF row
  <2>4. Taken(row, c) /\ Bytes' /\ Pending' = Drop(value, Len(u) + 1) ++ AfterValue(m, k)
    BY <1>3, <1>4, <1>5, <1>6, <2>2, Takes
  <2>5. /\ state_' = "header_value" /\ uri' = uri /\ result' = "indeterminate"
        /\ headers' = ValueGrown(headers, c)
    BY <2>3, <2>4 DEF Taken, store, ends_length, ValueGrown
  <2> HIDE DEF c
  <2>6. /\ Len(headers') = k /\ headers' # <<>>
        /\ \A i \in 1..k : i # k => headers'[i] = headers[i]
        /\ headers'[k].name = headers[k].name
        /\ headers'[k].value = Append(headers[k].value, c)
    BY <1>1, <1>4, <2>1, <2>5, ValueGrows
  <2>7. back' = headers'[k]
    BY <2>6 DEF back
  <2>8. back'.value = Append(u, c) /\ back'.name = m.headers[k].name
    BY <1>2, <1>3, <1>4, <2>6, <2>7
  <2>9. Len(back'.value) = Len(u) + 1 /\ Begun(value, back'.value)
    BY <1>3, <1>4, <1>6, <2>8, BegunGrows DEF c
  <2>10. OpenLine(m)'
    <3>1. \A i \in 1..(Len(headers) - 1) : headers'[i] = headers[i]
      BY <1>1, <1>4, <2>6
    <3> QED
      BY <1>1, <1>3, <2>5, <2>6, <3>1, OpenStays
  <2>11. InValue(m)'
    BY <1>2, <2>4, <2>5, <2>6, <2>8, <2>9, <2>10 DEF InValue
  <2> QED
    BY <2>4, <2>5, <2>11 DEF Under
<1>7. CASE ~(Len(u) < Len(value))
  <2> DEFINE row == Row("header_value", {CR}, "expecting_newline_2")
  <2>1. u = value /\ LineEnd \in Text /\ 0 < Len(LineEnd)
    BY <1>3, <1>4, <1>7, BegunGrows, Pieces
  <2>2. Pending = Drop(LineEnd, 0) ++ headersFrom(m)[k + 1]
    <3>1. Pending = AfterValue(m, k)
      BY <1>3, <1>4, <2>1, DropEnds
    <3> QED
      BY <1>4, <2>1, <3>1, DropEnds DEF AfterValue
  <2>3. OnlyRow(state_, LineEnd[0 + 1], row) /\ ~completes(LineEnd[0 + 1])
    BY <1>3, Pieces, LineRows DEF completes
  <2>4. row.from = "header_value" /\ row.to = "expecting_newline_2"
    BY DEF Row
  <2> HIDE DEF row
  <2>5. /\ Taken(row, LineEnd[0 + 1]) /\ Bytes'
        /\ Pending' = Drop(LineEnd, 0 + 1) ++ headersFrom(m)[k + 1]
    BY <1>4, <2>1, <2>2, <2>3, Takes
  <2>6. back = m.headers[k]
    BY <1>2, <1>3, <1>4, <2>1
  <2>7. back.name = <<CL>> => IsNumber(back.value)
    <3>1. k \in DOMAIN m.headers
      BY <1>4, MessageText
    <3> QED
      BY <2>6, <3>1 DEF SaysItsLength, LengthsOf
  <2>8. /\ state_' = "expecting_newline_2" /\ uri' = uri /\ result' = "indeterminate"
        /\ headers' = headers
    BY <2>4, <2>5, <2>7 DEF Taken, store, ends_length
  <2>9. HeadersUpTo(m, k)
    <3>1. k \in Nat /\ k <= Len(m.headers) /\ headers[k] = m.headers[k]
      BY <1>4, <2>6, MessageText
    <3>2. uri = m.uri /\ \A i \in 1..(k - 1) : headers[i] = m.headers[i]
      BY <1>4 DEF HeadersUpTo
    <3>3. \A i \in 1..k : i = k \/ i \in 1..(k - 1)
      BY <3>1
    <3> QED
      BY <3>1, <3>2, <3>3 DEF HeadersUpTo
  <2>10. HeadersUpTo(m, Len(headers))'
    BY <1>1, <2>8, <2>9 DEF HeadersUpTo
  <2>11. AtLineEnd(m)'
    <3>1. 0 + 1 = 1
      OBVIOUS
    <3> QED
      BY <1>1, <2>5, <2>8, <2>10, <3>1 DEF AtLineEnd
  <2> QED
    BY <2>5, <2>8, <2>11 DEF Under
<1> QED
  BY <1>6, <1>7

\* The line feed after a header.
LEMMA TakesLineEnd ==
  ASSUME IInv, Bytes, parse, NEW m \in Messages, AtLineEnd(m)
  PROVE  Bytes' /\ Under(m)'
<1>1. PICK k : k = Len(headers)
  OBVIOUS
<1>2. /\ state_ = "expecting_newline_2" /\ HeadersUpTo(m, k)
      /\ Pending = Drop(LineEnd, 1) ++ headersFrom(m)[k + 1]
  BY <1>1 DEF AtLineEnd
<1>3. headersFrom(m)[k + 1] \in Text
  <2>1. k + 1 \in 1..(Len(m.headers) + 1)
    BY <1>1, <1>2, MessageText DEF HeadersUpTo, IInv, TypeOK
  <2> QED
    BY <2>1, HeadersFromIs
<1>4. LineEnd \in Text /\ 1 \in Nat /\ 1 < Len(LineEnd)
  BY Pieces
<1> DEFINE row == Row("expecting_newline_2", {LF}, "header_line_start")
<1>5. OnlyRow(state_, LineEnd[1 + 1], row) /\ ~completes(LineEnd[1 + 1])
  BY <1>2, Pieces, LineRows DEF completes
<1>6. row.from = "expecting_newline_2" /\ row.to = "header_line_start"
  BY DEF Row
<1> HIDE DEF row
<1>7. /\ Taken(row, LineEnd[1 + 1]) /\ Bytes'
      /\ Pending' = Drop(LineEnd, 1 + 1) ++ headersFrom(m)[k + 1]
  BY <1>2, <1>3, <1>4, <1>5, Takes
<1>8. /\ state_' = "header_line_start" /\ uri' = uri /\ result' = "indeterminate"
      /\ headers' = headers
  BY <1>6, <1>7 DEF Taken, store, ends_length
<1>9. Pending' = headersFrom(m)[k + 1]
  <2>1. 1 + 1 = Len(LineEnd)
    BY Pieces
  <2> QED
    BY <1>3, <1>4, <1>7, <2>1, DropEnds
<1>10. HeadersUpTo(m, Len(headers))'
  BY <1>1, <1>2, <1>8 DEF HeadersUpTo
<1>11. AtLine(m)'
  BY <1>1, <1>8, <1>9, <1>10 DEF AtLine
<1> QED
  BY <1>7, <1>8, <1>11 DEF Under

\* With all headers in, the length they declare is that of the body, also when none
\* does.
LEMMA LengthKnown ==
  ASSUME IInv, NEW m \in Messages, SaysItsLength(m), result = "indeterminate",
         state_ \in {"expecting_newline_3"} \cup BodyStates,
         HeadersUpTo(m, Len(headers)), Len(headers) = Len(m.headers)
  PROVE  expectedContentLength = Len(m.body)
<1>1. headers \in Seq(HeaderType) /\ m.headers \in Seq(HeaderType)
  BY MessageText DEF IInv, TypeOK
<1>2. /\ DOMAIN headers = 1..Len(m.headers) /\ DOMAIN m.headers = 1..Len(m.headers)
      /\ \A i \in 1..Len(m.headers) : headers[i] = m.headers[i]
  BY <1>1 DEF HeadersUpTo
<1>3. LengthHeaders = LengthsOf(m)
  BY <1>2 DEF LengthHeaders, LengthsOf
<1>4. DeclaredBy(LengthHeaders)
  BY DEF IInv, LengthFollows, EndedStates
<1>5. CASE LengthHeaders = {}
  <2>1. m.body = <<>> /\ expectedContentLength = 0
    BY <1>3, <1>4, <1>5 DEF DeclaredBy, SaysItsLength
  <2> QED
    BY <2>1
<1>6. CASE LengthHeaders # {}
  <2>1. PICK last \in LengthHeaders : expectedContentLength = stoul(headers[last].value)
    BY <1>4, <1>6 DEF DeclaredBy
  <2>2. last \in LengthsOf(m) /\ headers[last] = m.headers[last]
    BY <1>2, <1>3, <2>1 DEF LengthHeaders
  <2> QED
    BY <2>1, <2>2 DEF SaysItsLength
<1> QED
  BY <1>5, <1>6

\* The end of the empty line: the body follows, or the request is complete.
LEMMA TakesHeadersEnd ==
  ASSUME IInv, Bytes, parse, NEW m \in Messages, SaysItsLength(m), AtHeadersEnd(m)
  PROVE  Bytes' /\ (Under(m)' \/ Over(m)')
<1>1. /\ state_ = "expecting_newline_3" /\ HeadersUpTo(m, Len(headers))
      /\ Len(headers) = Len(m.headers) /\ Pending = Drop(LineEnd, 1) ++ m.body
  BY DEF AtHeadersEnd
<1>2. /\ LineEnd \in Text /\ 1 \in Nat /\ 1 < Len(LineEnd) /\ LineEnd[1 + 1] = LF
      /\ m.body \in Text
  BY Pieces, MessageText
<1>3. /\ consume(LF) /\ Bytes' /\ Pending' = Drop(LineEnd, 1 + 1) ++ m.body
  BY <1>1, <1>2, Advance
<1>4. Pending' = m.body
  <2>1. 1 + 1 = Len(LineEnd)
    BY Pieces
  <2> QED
    BY <1>2, <1>3, <2>1, DropEnds
<1>5. result = "indeterminate"
  BY <1>3 DEF consume
<1>6. expectedContentLength = Len(m.body) /\ jsonData = <<>>
  BY <1>1, <1>5, LengthKnown DEF IInv, BodyCounted, BodyStates
<1>7. Begun(m.body, <<>>) /\ Len(<<>>) = 0
  BY <1>2, BegunEmpty
<1>8. CASE completes(LF)
  <2>1. /\ result' = "true" /\ jsonData' = jsonData /\ headers' = headers /\ uri' = uri
    BY <1>1, <1>3, <1>8 DEF consume, BodyStates
  <2>2. Len(m.body) = 0 /\ m.body = <<>>
    <3>1. expectedContentLength = 0
      BY <1>1, <1>8 DEF completes
    <3>2. Len(m.body) = 0
      BY <1>6, <3>1
    <3> QED
      BY <1>2, <3>2, EmptySeq DEF Text
  <2>3. HeadersUpTo(m, Len(headers))' /\ Len(headers') = Len(m.headers)
    BY <1>1, <2>1 DEF HeadersUpTo
  <2>4. Over(m)'
    BY <1>4, <1>6, <1>7, <2>1, <2>2, <2>3 DEF Over
  <2> QED
    BY <1>3, <2>4
<1>9. CASE ~completes(LF)
  <2> DEFINE row == Row("expecting_newline_3", {LF}, "body_content_normal")
  <2>1. OnlyRow(state_, LineEnd[1 + 1], row) /\ ~completes(LineEnd[1 + 1])
    BY <1>1, <1>2, <1>9, LineRows
  <2>2. row.from = "expecting_newline_3" /\ row.to = "body_content_normal"
    BY DEF Row
  <2> HIDE DEF row
  <2>3. Taken(row, LineEnd[1 + 1])
    BY <1>1, <1>2, <2>1, Takes
  <2>4. /\ state_' = "body_content_normal" /\ uri' = uri /\ result' = "indeterminate"
        /\ headers' = headers /\ jsonData' = jsonData
    BY <2>2, <2>3 DEF Taken, store, ends_length, BodyStates
  <2>5. HeadersUpTo(m, Len(headers))' /\ Len(headers') = Len(m.headers)
    BY <1>1, <2>4 DEF HeadersUpTo
  <2>6. Pending' = Drop(m.body, 0) ++ <<>>
    BY <1>2, <1>4, DropEnds, ConcatEmptySeq DEF Text, ++
  <2>7. InBody(m)'
    BY <1>6, <1>7, <2>4, <2>5, <2>6 DEF InBody, BodyStates
  <2> QED
    BY <1>3, <2>4, <2>7 DEF Under
<1> QED
  BY <1>8, <1>9

\* A character of the body: its lines end as the parser requires, and the last of them
\* is the first that reaches the declared length.
LEMMA TakesBody ==
  ASSUME IInv, Bytes, parse, NEW m \in Messages, SaysItsLength(m), BodyInLines(m), InBody(m)
  PROVE  Bytes' /\ (Under(m)' \/ Over(m)')
<1>1. PICK n : n = Len(jsonData)
  OBVIOUS
<1>2. PICK empty : empty = <<>>
  OBVIOUS
<1>3. /\ state_ \in BodyStates /\ HeadersUpTo(m, Len(headers))
      /\ Len(headers) = Len(m.headers) /\ Begun(m.body, jsonData)
      /\ Pending = Drop(m.body, n) ++ empty
  BY <1>1, <1>2 DEF InBody
<1>4. jsonData \in Text /\ m.body \in Text /\ empty \in Text
  BY <1>2, MessageText DEF IInv, TypeOK, Text
<1>5. n \in Nat /\ Len(m.body) \in Nat /\ n <= Len(m.body)
  BY <1>1, <1>3, <1>4, BegunGrows
<1>6. n < Len(m.body)
  <2> SUFFICES ASSUME n = Len(m.body)
               PROVE  FALSE
    BY <1>5
  <2>1. Pending = <<>>
    BY <1>2, <1>3, <1>4, DropEnds
  <2>2. buffer_ # <<>>
    BY DEF parse
  <2>3. network ++ unsent \in Text
    BY Joined DEF Bytes
  <2> QED
    BY <2>1, <2>2, <2>3, ConcatEmptySeq DEF Pending, Bytes, Text, ++
<1>7. PICK c : c = m.body[n + 1]
  OBVIOUS
<1>8. consume(c) /\ Bytes' /\ Pending' = Drop(m.body, n + 1) ++ empty /\ c \in Chars
  BY <1>3, <1>4, <1>5, <1>6, <1>7, Advance
<1>9. result = "indeterminate" /\ expectedContentLength = Len(m.body) /\ contentCtr = n
  <2>1. result = "indeterminate"
    BY <1>8 DEF consume
  <2> QED
    BY <1>1, <1>3, <2>1, LengthKnown DEF IInv, BodyCounted
<1>10. PICK d : d = Append(jsonData, c)
  OBVIOUS
<1>11. Len(d) = n + 1 /\ Begun(m.body, d)
  BY <1>1, <1>3, <1>4, <1>6, <1>7, <1>10, BegunGrows
<1>12. c \in Printable \cup {CR, LF}
  BY <1>5, <1>6, <1>7 DEF Messages
<1>13. c = LF <=> state_ = "body_content_expect_newline"
  <2>1. state_ = "body_content_expect_newline" <=> n > 0 /\ m.body[n] = CR
    <3>1. state_ = "body_content_expect_newline" <=> jsonData # <<>> /\ jsonData[n] = CR
      BY <1>1, <1>9 DEF IInv, LineEnds
    <3>2. jsonData # <<>> <=> n > 0
      BY <1>1, <1>4 DEF Text
    <3>3. n > 0 => jsonData[n] = m.body[n]
      BY <1>1, <1>3, <1>5 DEF Begun
    <3> QED
      BY <3>1, <3>2, <3>3
  <2>2. DOMAIN m.body = 1..Len(m.body)
    BY <1>4 DEF Text
  <2>3. c = LF => n > 0 /\ m.body[n] = CR
    <3>1. \A i \in DOMAIN m.body : m.body[i] = LF => i > 1 /\ m.body[i - 1] = CR
      BY DEF BodyInLines
    <3>2. PICK j : j = n + 1
      OBVIOUS
    <3>3. j \in DOMAIN m.body /\ j - 1 = n
      BY <1>5, <1>6, <2>2, <3>2
    <3>4. m.body[j] = LF => j > 1 /\ m.body[j - 1] = CR
      BY <3>1, <3>3, Zenon
    <3> QED
      BY <1>5, <1>7, <3>2, <3>3, <3>4
  <2>4. n > 0 /\ m.body[n] = CR => m.body[n + 1] = LF
    BY <1>5, <1>6, <2>2 DEF BodyInLines
  <2> QED
    BY <1>7, <2>1, <2>3, <2>4
<1>14. CASE completes(c)
  <2>1. n + 1 = Len(m.body)
    BY <1>3, <1>5, <1>6, <1>9, <1>14 DEF completes, BodyStates
  <2>2. /\ result' = "true" /\ jsonData' = d /\ headers' = headers /\ uri' = uri
    BY <1>3, <1>8, <1>10, <1>14 DEF consume
  <2>3. HeadersUpTo(m, Len(headers))' /\ Len(headers') = Len(m.headers)
    BY <1>3, <2>2 DEF HeadersUpTo
  <2>4. Pending' = <<>>
    BY <1>2, <1>4, <1>8, <2>1, DropEnds
  <2>5. Over(m)'
    BY <1>11, <2>1, <2>2, <2>3, <2>4 DEF Over
  <2> QED
    BY <1>8, <2>5
<1>15. CASE ~completes(c)
  <2>1. \E row : /\ OnlyRow(state_, c, row) /\ row.to \in BodyStates
    <3>1. CASE state_ = "body_content_expect_newline"
      BY <1>13, <3>1, LineRows DEF Row, BodyStates
    <3>2. CASE state_ = "body_content_normal"
      <4>1. c \in Printable \cup {CR}
        BY <1>12, <1>13, <3>2
      <4> QED
        BY <3>2, <4>1, LineRows DEF Row, BodyStates
    <3> QED
      BY <1>3, <3>1, <3>2 DEF BodyStates
  <2>2. PICK row : OnlyRow(state_, c, row) /\ row.to \in BodyStates
    BY <2>1
  <2>3. Taken(row, c)
    BY <1>3, <1>4, <1>5, <1>6, <1>7, <1>15, <2>2, Takes
  <2>4. row.from = state_
    BY <2>2 DEF OnlyRow
  <2>5. /\ state_' \in BodyStates /\ uri' = uri /\ result' = "indeterminate"
        /\ headers' = headers /\ jsonData' = d
    BY <1>3, <1>10, <2>2, <2>3, <2>4 DEF Taken, store, ends_length, BodyStates
  <2>6. HeadersUpTo(m, Len(headers))' /\ Len(headers') = Len(m.headers)
    BY <1>3, <2>5 DEF HeadersUpTo
  <2>7. InBody(m)'
    BY <1>2, <1>8, <1>11, <2>5, <2>6 DEF InBody
  <2> QED
    BY <1>8, <2>5, <2>7 DEF Under
<1> QED
  BY <1>14, <1>15

-----------------------------------------------------------------------------
\* Whatever moves, the parser is where the request is.
LEMMA FollowsStep ==
  ASSUME IInv, Bytes, Follows, FNext, message # Anything
  PROVE  Bytes' /\ Follows'
<1>1. PICK m : m = message
  OBVIOUS
<1>2. /\ m \in Requests /\ m # Anything /\ m \in Messages /\ SaysItsLength(m) /\ BodyInLines(m)
      /\ Under(m) \/ Over(m)
  BY <1>1, RequestsAssumption DEF Follows
<1>3. message' = m
  BY <1>1 DEF FNext, peer_sends, read_some, parse, parse_anything, framingVars
<1>4. SUFFICES Bytes' /\ (Under(m)' \/ Over(m)')
  BY <1>2, <1>3 DEF Follows, Under, Over, AtMethod, InMethod, InUri, InVersion, AtLine,
       InName, BeforeValue, InValue, AtLineEnd, AtHeadersEnd, InBody, HeadersUpTo, OpenLine
<1>5. CASE peer_sends \/ read_some
  <2>1. Bytes' /\ Pending' = Pending
    BY <1>5, Moved
  <2>2. UNCHANGED <<state_, uri, headers, jsonData, result>>
    BY <1>5 DEF peer_sends, read_some, vars, request
  <2>3. Under(m)' = Under(m) /\ Over(m)' = Over(m)
    BY <2>1, <2>2 DEF Under, Over, AtMethod, InMethod, InUri, InVersion, AtLine, InName,
         BeforeValue, InValue, AtLineEnd, AtHeadersEnd, InBody, HeadersUpTo, OpenLine, back
  <2> QED
    BY <1>2, <2>1, <2>3
<1>6. CASE parse
  <2>1. Under(m)
    BY <1>2, <1>6 DEF parse, consume, Over
  <2> QED
    BY <1>2, <1>6, <2>1, TakesMethod, TakesUri, TakesVersion, TakesLine, TakesName,
       TakesSpace, TakesValue, TakesLineEnd, TakesHeadersEnd, TakesBody DEF Under
<1> QED
  BY <1>1, <1>2, <1>5, <1>6 DEF FNext, parse_anything

\* It starts at the method, with the whole request on its way.
LEMMA FollowsStarts ==
  ASSUME FInit, message # Anything
  PROVE  Bytes /\ Follows
<1>1. PICK m : m = message
  OBVIOUS
<1>2. m \in Requests /\ m \in Messages
  BY <1>1, RequestsAssumption DEF FInit
<1>3. unsent = Method ++ AfterMethod(m) /\ unsent \in Text
  <2>1. unsent = render(m)
    BY <1>1 DEF FInit
  <2> QED
    BY <1>2, <2>1, RenderIs, Pieces, Joined
<1>4. buffer_ = <<>> /\ network = <<>> /\ <<>> \in Text
  BY DEF FInit, Text
<1>5. Pending = unsent
  BY <1>3, <1>4, ConcatEmptySeq DEF Pending, Text, ++
<1>6. AtMethod(m)
  BY <1>3, <1>5, Pieces, DropEnds DEF AtMethod, FInit, Init
<1> QED
  BY <1>1, <1>2, <1>3, <1>4, <1>6 DEF Bytes, Follows, Under, FInit, Init

\* A request that is over has been taken as it was sent, and nothing of it is left.
LEMMA OverAsSent ==
  ASSUME IInv, Bytes, Follows
  PROVE  ParsedAsSent
<1> SUFFICES ASSUME message # Anything, result # "indeterminate"
             PROVE  /\ result = "true"
                    /\ unsent = <<>> /\ network = <<>> /\ buffer_ = <<>>
                    /\ uri = message.uri
                    /\ headers = message.headers
                    /\ jsonData = message.body
  BY DEF ParsedAsSent
<1>1. PICK m : m = message
  OBVIOUS
<1>2. m \in Messages /\ Over(m)
  BY <1>1, RequestsAssumption DEF Follows, Under
<1>3. /\ result = "true" /\ Pending = <<>> /\ uri = m.uri
      /\ Len(headers) = Len(m.headers) /\ Len(jsonData) = Len(m.body)
      /\ \A i \in 1..Len(headers) : headers[i] = m.headers[i]
      /\ Begun(m.body, jsonData)
  BY <1>2 DEF Over, HeadersUpTo
<1>4. headers = m.headers
  <2>1. headers \in Seq(HeaderType) /\ m.headers \in Seq(HeaderType)
    BY <1>2, MessageText DEF IInv, TypeOK
  <2> QED
    BY <1>3, <2>1, SeqEqual
<1>5. jsonData = m.body
  <2>1. jsonData \in Text /\ m.body \in Text
    BY <1>2, MessageText DEF IInv, TypeOK, Text
  <2>2. ~(Len(jsonData) < Len(m.body))
    BY <1>3, <2>1 DEF Text
  <2> QED
    BY <1>3, <2>1, <2>2, BegunGrows
<1>6. unsent = <<>> /\ network = <<>> /\ buffer_ = <<>>
  <2>1. \A a, b \in Text : a ++ b = <<>> => a = <<>> /\ b = <<>>
    <3> TAKE a, b \in Text
    <3>1. Len(a \o b) = Len(a) + Len(b) /\ Len(a) \in Nat /\ Len(b) \in Nat
      BY ConcatProperties DEF Text
    <3>2. a \o b = <<>> => Len(a) = 0 /\ Len(b) = 0
      BY <3>1
    <3> QED
      BY <3>2 DEF Text, ++
  <2>2. network ++ unsent \in Text
    BY Joined DEF Bytes
  <2> QED
    BY <1>3, <2>1, <2>2 DEF Bytes, Pending
<1> QED
  BY <1>1, <1>3, <1>4, <1>5, <1>6

\* However a request of the client is cut, and however many headers it has, the server
\* answers with the request that was sent in its hands, and with nothing of it left
\* unread (connection.cpp:35-82, request_parser.cpp:21-326).
THEOREM ParsedAsSentAlways == FSpec => []ParsedAsSent
<1> DEFINE Inv == IInv /\ (message # Anything => Bytes /\ Follows)
<1>1. FInit => Inv
  BY Starts, FollowsStarts DEF FInit
<1>2. Inv /\ [FNext]_<<framingVars, vars>> => Inv'
  <2> SUFFICES ASSUME Inv, [FNext]_<<framingVars, vars>>
               PROVE  Inv'
    OBVIOUS
  <2>1. IInv'
    BY Consumed, Unconsumed DEF FNext, peer_sends, read_some, parse, parse_anything, Next
  <2>2. message' = message
    BY DEF FNext, peer_sends, read_some, parse, parse_anything, framingVars
  <2>3. CASE FNext
    BY <2>1, <2>2, <2>3, FollowsStep
  <2>4. CASE UNCHANGED <<framingVars, vars>>
    <3>1. /\ UNCHANGED <<message, unsent, network, buffer_>>
          /\ UNCHANGED <<state_, uri, headers, jsonData, result>>
      BY <2>4 DEF framingVars, vars, request
    <3>2. Bytes' = Bytes /\ Pending' = Pending
      BY <3>1 DEF Bytes, Pending
    <3>3. Follows' = Follows
      BY <3>1, <3>2 DEF Follows, Under, Over, AtMethod, InMethod, InUri, InVersion, AtLine,
           InName, BeforeValue, InValue, AtLineEnd, AtHeadersEnd, InBody, HeadersUpTo,
           OpenLine, back
    <3> QED
      BY <2>1, <2>2, <3>2, <3>3
  <2> QED
    BY <2>3, <2>4
<1>3. Inv => ParsedAsSent
  <2>1. message = Anything => ParsedAsSent
    BY DEF ParsedAsSent
  <2> QED
    BY <2>1, OverAsSent
<1> QED
  BY <1>1, <1>2, <1>3, PTL DEF FSpec
=============================================================================
