--------------------------- MODULE ReplyTextProofs ---------------------------
(***************************************************************************)
(* base64_decode stays within its text, for every request: whatever the    *)
(* uri, the headers, the body, and however what the searches cut out of    *)
(* the body as an image is made.  It needs the null character at the end   *)
(* of a std::string to be none of the alphabet, and that a turn looks at   *)
(* its characters in the order it does.                                    *)
(*                                                                         *)
(* And it gives back what base64_encode was given: a text is four          *)
(* characters for every three bytes begun, a character is at one place of  *)
(* its alphabet, and four times six bits are three bytes.                  *)
(*                                                                         *)
(* The same of the path and its uri: between two turns, url_decode is at a *)
(* character of the path, and what comes before it is decoded.             *)
(***************************************************************************)
EXTENDS ReplyText, SubsequencesProofs, TLAPS

IInv ==
  /\ request \in Requests
  /\ header \in Nat \ {0}
  /\ boundary \in Seq(Tokens)
  /\ currentIdx \in Nat \ {0}
  /\ \A f \in DOMAIN out : out[f] \in Seq(Tokens)
  /\ encoded_string \in Seq(Tokens) /\ pos \in Nat

-----------------------------------------------------------------------------
\* A set of numbers that is not empty has a least one, and Min is it.
LEMMA MinIs ==
  ASSUME NEW S \in SUBSET Nat, S # {}
  PROVE Min(S) \in S /\ \A x \in S : Min(S) <= x
<1> DEFINE R == {ss \in Nat \X Nat : ss[1] < ss[2]}
<1>1. IsWellFoundedOn(R, Nat)
  BY NatLessThanWellFounded DEF OpToRel
<1>2. PICK x \in S : \A y \in S : ~(<<y, x>> \in R)
  <2> HIDE DEF R
  <2> QED BY <1>1, WFMin
<1>3. ASSUME NEW y \in S PROVE x <= y
  <2>1. x \in Nat /\ y \in Nat
    OBVIOUS
  <2>2. ~(y < x)
    BY <1>2, <2>1
  <2> QED BY <2>1, <2>2
<1> QED BY <1>3 DEF Min

\* substr of a text, from a place in it or at its end, is a text of the same characters.
LEMMA SubSeqType ==
  ASSUME NEW X, NEW s \in Seq(X), NEW m \in Nat \ {0}, NEW n \in Int, n <= Len(s)
  PROVE SubSeq(s, m, n) \in Seq(X)
<1>1. CASE m <= n
  BY <1>1
<1>2. CASE n < m
  BY <1>2
<1> QED BY <1>1, <1>2

\* find returns npos, or a place from which all of the text is in the string.
LEMMA FindIs ==
  ASSUME NEW in \in Seq(Tokens), NEW text \in Seq(Tokens), NEW from \in Nat \ {0}
  PROVE LET i == find(in, text, from)
        IN i # npos => i \in Nat /\ i >= from /\ i <= Len(in) - Len(text) + 1
<1> DEFINE found == {i \in from..(Len(in) - Len(text) + 1) :
                       SubSeq(in, i, i + Len(text) - 1) = text}
<1>1. found \in SUBSET Nat
  OBVIOUS
<1>2. find(in, text, from) = IF found = {} THEN npos ELSE Min(found)
  BY DEF find
<1>3. found # {} => Min(found) \in found
  BY <1>1, MinIs
<1>4. found # {} => /\ Min(found) \in Nat /\ Min(found) >= from
                   /\ Min(found) <= Len(in) - Len(text) + 1
  <2>1. \A i \in found : i \in Nat /\ i >= from /\ i <= Len(in) - Len(text) + 1
    OBVIOUS
  <2> HIDE DEF found
  <2> QED BY <1>3, <2>1
<1> HIDE DEF found
<1> QED BY <1>2, <1>4

\* Tokens are strings.
LEMMA TextOf ==
  /\ <<Name>> \in Seq(Tokens) /\ Len(<<Name>>) = 1
  /\ CRLF \in Seq(Tokens) /\ Len(CRLF) = 1
  /\ CRLF \o CRLF \in Seq(Tokens) /\ Len(CRLF \o CRLF) = 2
  /\ Dashes \in Seq(Tokens) /\ Len(Dashes) = 2
<1>1. <<Name>> \in Seq(Tokens) /\ Len(<<Name>>) = 1
  BY TokensAssumption
<1>2. CRLF \in Seq(Tokens) /\ Len(CRLF) = 1
  BY TokensAssumption DEF CRLF
<1>3. Dashes \in Seq(Tokens) /\ Len(Dashes) = 2
  BY TokensAssumption DEF Dashes
<1>4. CRLF \o CRLF \in Seq(Tokens) /\ Len(CRLF \o CRLF) = 2
  BY <1>2
<1> QED BY <1>1, <1>2, <1>3, <1>4

\* What a Content-Type header says the boundary is.
LEMMA BoundaryType ==
  ASSUME NEW in \in Seq(Tokens)
  PROVE retrieveMultipartBoundary(in) \in Seq(Tokens)
<1> DEFINE text == <<Name>>
           start == find(in, text, 1) + 1
           ends == {i \in start..Len(in) : in[i] \in Ends}
           last == IF ends = {} THEN Len(in) ELSE Min(ends)
<1>1. start \in Nat \ {0}
  <2>1. text \in Seq(Tokens)
    BY TextOf
  <2> HIDE DEF text
  <2>2. find(in, text, 1) \in Nat
    BY <2>1, FindIs DEF npos
  <2> QED BY <2>2
<1> HIDE DEF start
<1>2. ends \in SUBSET Nat
  BY <1>1
<1>3. ends # {} => Min(ends) \in ends
  BY <1>2, MinIs
<1>4. last \in Int /\ last <= Len(in)
  <2>1. CASE ends = {}
    BY <2>1
  <2>2. CASE ends # {}
    <3>1. Min(ends) \in Nat /\ Min(ends) <= Len(in)
      BY <1>1, <1>3, <2>2
    <3> HIDE DEF ends
    <3> QED BY <2>2, <3>1
  <2> QED BY <2>1, <2>2
<1> HIDE DEF start, ends, last
<1>5. SubSeq(in, start, last) \in Seq(Tokens)
  BY <1>1, <1>4, SubSeqType
<1> QED BY <1>5 DEF retrieveMultipartBoundary, start, ends, last, text

\* retrieveImage cuts text out of a part, whatever the part is.
LEMMA ImageIsText ==
  ASSUME NEW part \in Seq(Tokens)
  PROVE retrieveImage(part).text \in Seq(Tokens)
<1> DEFINE open == CRLF \o CRLF
           o == find(part, open, 1)
           start == o + Len(open)
           c == find(part, CRLF, start)
<1>1. open \in Seq(Tokens) /\ Len(open) = 2 /\ CRLF \in Seq(Tokens) /\ Len(CRLF) = 1
  BY TextOf
<1>2. start \in Nat \ {0}
  <2>1. o \in Nat
    <3> HIDE DEF open
    <3> QED BY <1>1, FindIs DEF npos
  <2> HIDE DEF o, open
  <2> QED BY <1>1, <2>1
<1>3. c # npos => c \in Nat /\ c <= Len(part)
  <2> HIDE DEF start
  <2> QED BY <1>1, <1>2, FindIs
<1>4. retrieveImage(part).text \in {<<>>, SubSeq(part, start, c - 1)}
  BY DEF retrieveImage, Between
<1>5. c # npos => SubSeq(part, start, c - 1) \in Seq(Tokens)
  <2> HIDE DEF start, c
  <2> QED BY <1>2, <1>3, SubSeqType DEF npos
<1>6. <<>> \in Seq(Tokens)
  OBVIOUS
<1>7. c = npos => retrieveImage(part).text = <<>>
  BY DEF retrieveImage, Between
<1> QED BY <1>4, <1>5, <1>6, <1>7

-----------------------------------------------------------------------------
\* A function on the first n places is a sequence.
LEMMA FunctionIsSeq ==
  ASSUME NEW n \in Nat, NEW f, f = [i \in 1..n |-> f[i]]
  PROVE f \in Seq({f[i] : i \in 1..n}) /\ Len(f) = n
OBVIOUS

\* An alphabet is the letters and digits with two more characters.
With(x, y) == Letters \o <<x, y>>

\* What that makes the character at each place.
LEMMA AlphabetIs ==
  ASSUME NEW x, NEW y, NEW r, r = With(x, y)
  PROVE /\ Len(r) = 64 /\ r[63] = x /\ r[64] = y
        /\ \A i \in 1..62 : r[i] = Letters[i]
<1>1. PICK A : Letters \in Seq(A) /\ Len(Letters) = 62
  <2>1. Letters = [i \in 1..62 |-> Letters[i]]
    BY DEF Letters
  <2>2. Letters \in Seq({Letters[i] : i \in 1..62}) /\ Len(Letters) = 62
    <3>1. 62 \in Nat
      OBVIOUS
    <3> QED BY <2>1, <3>1, FunctionIsSeq, Zenon
  <2> QED BY <2>2
<1>2. PICK X : Letters \in Seq(X) /\ <<x, y>> \in Seq(X)
  <2>1. Letters \in Seq(A \cup {x, y}) /\ <<x, y>> \in Seq(A \cup {x, y})
    BY <1>1
  <2> QED BY <2>1
<1>3. PICK s \in Seq(X) : s = Letters
  BY <1>2
<1>4. PICK t \in Seq(X) : t = <<x, y>>
  BY <1>2
<1>5. Len(s) = 62 /\ Len(t) = 2 /\ t[1] = x /\ t[2] = y
  BY <1>1, <1>3, <1>4
<1>6. r = s \o t
  BY <1>3, <1>4 DEF With
<1>7. /\ Len(r) = Len(s) + Len(t)
      /\ \A i \in 1..Len(s) : r[i] = s[i]
      /\ \A i \in 1..Len(t) : r[Len(s) + i] = t[i]
  BY <1>6, ConcatIs
<1>8. Len(r) = 64 /\ (\A i \in 1..62 : r[i] = s[i]) /\ r[63] = t[1] /\ r[64] = t[2]
  <2>1. 1 \in 1..Len(t) /\ 2 \in 1..Len(t) /\ Len(s) + 1 = 63 /\ Len(s) + 2 = 64
    BY <1>5
  <2> QED BY <1>5, <1>7, <2>1
<1> QED BY <1>3, <1>5, <1>8

\* A character by a name of its own.
Underscore == "_"

\* The alphabets only differ in their last two characters.
LEMMA CharsAre ==
  ASSUME NEW url \in BOOLEAN
  PROVE /\ \A i \in 1..62 : base64_chars(url)[i] = Letters[i]
        /\ base64_chars(url)[63] \in {"-", "+"}
        /\ base64_chars(url)[64] \in {Underscore, "/"}
<1>1. base64_chars(url) = With("-", Underscore) \/ base64_chars(url) = With("+", "/")
  BY Zenon DEF base64_chars, With, Underscore
<1>2. \A x, y : /\ \A i \in 1..62 : With(x, y)[i] = Letters[i]
                /\ With(x, y)[63] = x /\ With(x, y)[64] = y
  BY AlphabetIs
<1> QED BY <1>1, <1>2

\* Letters, as a set.
LetterSet == {"A", "B", "C", "D", "E", "F", "G", "H", "I", "J", "K", "L", "M",
              "N", "O", "P", "Q", "R", "S", "T", "U", "V", "W", "X", "Y", "Z",
              "a", "b", "c", "d", "e", "f", "g", "h", "i", "j", "k", "l", "m",
              "n", "o", "p", "q", "r", "s", "t", "u", "v", "w", "x", "y", "z",
              "0", "1", "2", "3", "4", "5", "6", "7", "8", "9"}

\* No letter comes twice, and none is one of the characters with a meaning of their own.
LEMMA LettersDiffer ==
  /\ \A i, j \in 1..62 : Letters[i] = Letters[j] => i = j
  /\ \A i \in 1..62 : Letters[i] \notin {"-", "+", Underscore, "/", "=", ".", Nul}
  /\ Underscore \notin {"-", "+", "/", "=", ".", Nul}
<1>1. ASSUME NEW i \in 1..62, NEW j \in 1..62, Letters[i] = Letters[j] PROVE i = j
  BY <1>1, SMTT(30) DEF Letters
<1>2. \A i \in 1..62 : Letters[i] # "-" /\ Letters[i] # "+" /\ Letters[i] # "/"
  BY SMTT(30) DEF Letters
<1>3. \A i \in 1..62 : Letters[i] # "=" /\ Letters[i] # "." /\ Letters[i] # Nul
  BY SMTT(30) DEF Letters, Nul
<1>4. \A i \in 1..62 : Letters[i] \in LetterSet
  BY SMTT(30) DEF Letters, LetterSet
<1>5. Underscore \notin LetterSet
  BY Zenon DEF LetterSet, Underscore
<1>6. Underscore \notin {"-", "+", "/", "=", ".", Nul}
  BY Zenon DEF Underscore, Nul
<1>7. \A i \in 1..62 : Letters[i] # Underscore
  BY <1>4, <1>5
<1> QED BY <1>1, <1>2, <1>3, <1>6, <1>7

\* A character of an alphabet is at one place in it, which is its place in the other.
LEMMA CharsDiffer ==
  ASSUME NEW u \in BOOLEAN, NEW v \in BOOLEAN, NEW i \in 1..64, NEW j \in 1..64,
         base64_chars(u)[i] = base64_chars(v)[j]
  PROVE i = j
<1>1. \A k \in 1..64 : k \in 1..62 \/ k = 63 \/ k = 64
  OBVIOUS
<1>2. PICK a, b : a = base64_chars(u)[i] /\ b = base64_chars(v)[j] /\ a = b
  OBVIOUS
<1>3. /\ i \in 1..62 => a = Letters[i]
      /\ i = 63 => a \in {"-", "+"}
      /\ i = 64 => a \in {Underscore, "/"}
  BY <1>2, CharsAre
<1>4. /\ j \in 1..62 => b = Letters[j]
      /\ j = 63 => b \in {"-", "+"}
      /\ j = 64 => b \in {Underscore, "/"}
  BY <1>2, CharsAre
<1>5. CASE i \in 1..62 /\ j \in 1..62
  BY <1>2, <1>3, <1>4, <1>5, LettersDiffer
<1> DEFINE Rest == {"-", "+", Underscore, "/"}
<1>6. j \notin 1..62 => b \in Rest
  BY <1>1, <1>4
<1>7. i \notin 1..62 => a \in Rest
  BY <1>1, <1>3
<1>8. \A k \in 1..62 : Letters[k] \notin Rest
  BY LettersDiffer
<1>9. \A x \in {"-", "+"} : x \notin {Underscore, "/"}
  BY LettersDiffer
<1> HIDE DEF Rest
<1>10. CASE i \in 1..62 /\ j \notin 1..62
  BY <1>2, <1>3, <1>10, <1>6, <1>8
<1>11. CASE i \notin 1..62 /\ j \in 1..62
  BY <1>2, <1>4, <1>11, <1>7, <1>8
<1>12. CASE i \notin 1..62 /\ j \notin 1..62
  <2>1. (i = 63 \/ i = 64) /\ (j = 63 \/ j = 64)
    BY <1>1, <1>12
  <2>2. CASE i = j
    BY <2>2
  <2>3. CASE i = 63 /\ j = 64
    <3>1. a \in {"-", "+"} /\ b \in {Underscore, "/"}
      BY <1>3, <1>4, <2>3
    <3> QED BY <1>2, <1>9, <3>1
  <2>4. CASE i = 64 /\ j = 63
    <3>1. a \in {Underscore, "/"} /\ b \in {"-", "+"}
      BY <1>3, <1>4, <2>4
    <3> QED BY <1>2, <1>9, <3>1
  <2> QED BY <2>1, <2>2, <2>3, <2>4
<1> QED BY <1>5, <1>10, <1>11, <1>12

\* The padding and the null character are none of the alphabet.
LEMMA CharsAreLetters ==
  ASSUME NEW u \in BOOLEAN, NEW i \in 1..64
  PROVE base64_chars(u)[i] \notin {"=", ".", Nul}
<1>1. i \in 1..62 \/ i = 63 \/ i = 64
  OBVIOUS
<1>2. CASE i \in 1..62
  <2>1. base64_chars(u)[i] = Letters[i]
    BY <1>2, CharsAre
  <2> QED BY <1>2, <2>1, LettersDiffer
<1>3. CASE i \notin 1..62
  <2>1. base64_chars(u)[i] \in {"-", "+", Underscore, "/"}
    BY <1>1, <1>3, CharsAre
  <2> QED BY <2>1, LettersDiffer DEF Nul
<1> QED BY <1>2, <1>3

\* The null character at the end of a std::string is none of the alphabet.
LEMMA EndThrows == Throws(Nul)
BY CharsAreLetters DEF Throws, pos_of_char

\* pos_of_char finds a character where the encoder took it from.
LEMMA PosOfChar ==
  ASSUME NEW u \in BOOLEAN, NEW n \in 0..63
  PROVE pos_of_char(base64_chars(u)[n + 1]) = n
<1> DEFINE c == base64_chars(u)[n + 1]
           places == {i \in 1..64 : \E url \in BOOLEAN : base64_chars(url)[i] = c}
<1>1. n + 1 \in 1..64
  OBVIOUS
<1>2. n + 1 \in places
  BY <1>1
<1>3. \A i \in places : i = n + 1
  BY <1>1, CharsDiffer
<1>4. places \in SUBSET Nat
  OBVIOUS
<1>5. Min(places) = n + 1
  <2> HIDE DEF places
  <2> QED BY <1>2, <1>3, <1>4, MinIs
<1>6. pos_of_char(c) = Min(places) - 1
  BY <1>2 DEF pos_of_char
<1> QED BY <1>5, <1>6

\* A turn looks at its third and fourth character only when the text goes on.
LEMMA TurnInBounds ==
  ASSUME encoded_string \in Seq(Tokens), pos \in Nat, ~Decoded
  PROVE \A k \in LookedAt : pos + k <= Len(encoded_string) + 1
<1>1. pos + 1 <= Len(encoded_string)
  BY DEF Decoded
<1>2. \A k \in 1..4 : ~Throws(char_at(k)) => pos + k <= Len(encoded_string)
  BY EndThrows DEF char_at
<1>3. LookedAt \subseteq 1..4
  BY DEF LookedAt
<1>4. 3 \in LookedAt => ~Throws(char_at(2))
  BY DEF LookedAt
<1>5. 4 \in LookedAt => ~Throws(char_at(3))
  BY DEF LookedAt
<1> QED BY <1>1, <1>2, <1>3, <1>4, <1>5

-----------------------------------------------------------------------------
\* What contents are made of.
Byte == 0..255

\* The four numbers that base64_encode makes of three bytes.
First(a)     == a \div 4
Second(a, b) == (a % 4) * 16 + b \div 16
Third(b, c)  == (b % 16) * 4 + c \div 64
Fourth(c)    == c % 64

\* They have six bits each, and the bytes can be told from them.
LEMMA SixBits ==
  ASSUME NEW a \in Byte, NEW b \in Byte, NEW c \in Byte
  PROVE /\ First(a) \in 0..63 /\ Second(a, b) \in 0..63
        /\ Third(b, c) \in 0..63 /\ Fourth(c) \in 0..63
        /\ First(a) * 4 + Second(a, b) \div 16 = a
        /\ (Second(a, b) % 16) * 16 + Third(b, c) \div 4 = b
        /\ (Third(b, c) % 4) * 64 + Fourth(c) = c
<1> USE DEF Byte
<1>1. PICK a1 \in 0..63, a2 \in 0..3 : a1 = a \div 4 /\ a2 = a % 4 /\ a = 4 * a1 + a2
  OBVIOUS
<1>2. PICK b1 \in 0..15, b2 \in 0..15 : b1 = b \div 16 /\ b2 = b % 16 /\ b = 16 * b1 + b2
  OBVIOUS
<1>3. PICK c1 \in 0..3, c2 \in 0..63 : c1 = c \div 64 /\ c2 = c % 64 /\ c = 64 * c1 + c2
  OBVIOUS
<1>4. PICK j \in 0..63 : j = a2 * 16 + b1 /\ j \div 16 = a2 /\ j % 16 = b1
  OBVIOUS
<1>5. PICK k \in 0..63 : k = b2 * 4 + c1 /\ k \div 4 = b2 /\ k % 4 = c1
  OBVIOUS
<1>6. First(a) = a1 /\ Second(a, b) = j /\ Third(b, c) = k /\ Fourth(c) = c2
  BY <1>1, <1>2, <1>3, <1>4, <1>5 DEF First, Second, Third, Fourth
<1>7. a1 * 4 + a2 = a /\ b1 * 16 + b2 = b /\ c1 * 64 + c2 = c
  BY <1>1, <1>2, <1>3
<1>8. a1 * 4 + j \div 16 = a /\ (j % 16) * 16 + k \div 4 = b /\ (k % 4) * 64 + c2 = c
  BY <1>4, <1>5, <1>7
<1> QED BY <1>6, <1>8

\* A byte of the contents from p on, or none behind their end.
ByteAt(data, p, n) == IF n <= Len(data) - p THEN data[p + n] ELSE 0

\* It is a byte in either case.
LEMMA ByteType ==
  ASSUME NEW data \in Seq(Byte), NEW p \in Nat, NEW n \in 1..3
  PROVE ByteAt(data, p, n) \in Byte
<1>1. CASE n <= Len(data) - p
  <2>1. p + n \in 1..Len(data)
    BY <1>1
  <2> QED BY <1>1, <2>1 DEF ByteAt
<1>2. CASE ~(n <= Len(data) - p)
  BY <1>2 DEF Byte, ByteAt
<1> QED BY <1>1, <1>2

\* A group, with the bytes that are not there as zero.
LEMMA GroupIs ==
  ASSUME NEW data, NEW p, NEW url, NEW a, NEW b, NEW c, NEW t,
         a = ByteAt(data, p, 1), b = ByteAt(data, p, 2), c = ByteAt(data, p, 3),
         t = IF url THEN "." ELSE "="
  PROVE Group(data, p, url) =
          <<base64_chars(url)[First(a) + 1], base64_chars(url)[Second(a, b) + 1],
            IF Len(data) - p >= 2 THEN base64_chars(url)[Third(b, c) + 1] ELSE t,
            IF Len(data) - p >= 3 THEN base64_chars(url)[Fourth(c) + 1] ELSE t>>
BY DEF Group, ByteAt, First, Second, Third, Fourth

\* The groups of a text.
Fours(data, url) == [g \in 1..((Len(data) + 2) \div 3) |-> Group(data, 3 * (g - 1), url)]

\* The text of some contents is a group of four characters for every three bytes begun.
LEMMA EncodedIs ==
  ASSUME NEW data \in Seq(Byte), NEW url
  PROVE /\ Len(base64_encode(data, url)) = 4 * ((Len(data) + 2) \div 3)
        /\ \A g \in Nat : \A k \in 1..4 :
             3 * g < Len(data) =>
               base64_encode(data, url)[4 * g + k] = Group(data, 3 * g, url)[k]
<1> DEFINE n == (Len(data) + 2) \div 3
           X == {Group(data, p, url)[k] : p \in Nat, k \in 1..4}
<1>1. n \in Nat
  OBVIOUS
<1>2. ASSUME NEW p \in Nat PROVE Group(data, p, url) \in Seq(X) /\ Len(Group(data, p, url)) = 4
  <2> DEFINE q == Group(data, p, url)
  <2>1. \E w, x, y, z : q = <<w, x, y, z>>
    BY DEF Group
  <2>2. \A k \in 1..4 : q[k] \in X
    OBVIOUS
  <2> HIDE DEF q, X
  <2> QED BY <2>1, <2>2 DEF q
<1> HIDE DEF X
<1>3. PICK seqs : seqs = Fours(data, url)
  OBVIOUS
<1>4. /\ seqs \in Seqs(X) /\ Len(seqs) = n
      /\ \A i \in 1..n : seqs[i] = Group(data, 3 * (i - 1), url)
  <2>1. seqs = [g \in 1..n |-> Group(data, 3 * (g - 1), url)]
    BY <1>3 DEF Fours
  <2>2. \A g \in 1..n : 3 * (g - 1) \in Nat
    BY <1>1
  <2> QED BY <1>1, <1>2, <2>1, <2>2 DEF Seqs
<1>5. \A i \in 1..Len(seqs) : Len(seqs[i]) = 4
  <2>1. \A i \in 1..n : 3 * (i - 1) \in Nat
    BY <1>1
  <2> QED BY <1>2, <1>4, <2>1
<1>6. /\ Len(FlattenSeq(seqs)) = 4 * Len(seqs)
      /\ \A i \in 1..Len(seqs) : \A k \in 1..4 :
             FlattenSeq(seqs)[4 * (i - 1) + k] = seqs[i][k]
  BY <1>4, <1>5, FlattenFours
<1>7. base64_encode(data, url) = FlattenSeq(seqs)
  BY <1>3 DEF base64_encode, Fours
<1>8. ASSUME NEW g \in Nat, NEW k \in 1..4, 3 * g < Len(data)
      PROVE base64_encode(data, url)[4 * g + k] = Group(data, 3 * g, url)[k]
  <2>1. g + 1 \in 1..n /\ (g + 1) - 1 = g
    BY <1>8
  <2> HIDE DEF n
  <2>2. seqs[g + 1] = Group(data, 3 * g, url)
    BY <1>4, <2>1
  <2>3. FlattenSeq(seqs)[4 * g + k] = seqs[g + 1][k]
    BY <1>4, <1>6, <2>1
  <2> QED BY <1>7, <2>2, <2>3
<1> QED BY <1>4, <1>6, <1>7, <1>8

\* The character for six bits, read back.
LEMMA CharIs ==
  ASSUME NEW url \in BOOLEAN, NEW n \in 0..63, NEW x, x = base64_chars(url)[n + 1]
  PROVE pos_of_char(x) = n /\ ~Throws(x) /\ ~Trailing(x)
<1>1. pos_of_char(x) = n
  <2>1. pos_of_char(base64_chars(url)[n + 1]) = n
    BY PosOfChar, Zenon
  <2> QED BY <2>1
<1>2. ~Trailing(x)
  <2>1. n + 1 \in 1..64
    OBVIOUS
  <2>2. base64_chars(url)[n + 1] \notin {"=", ".", Nul}
    BY <2>1, CharsAreLetters, Zenon
  <2> QED BY <2>2 DEF Trailing
<1> QED BY <1>1, <1>2 DEF Throws

\* A turn of base64_decode gives back the bytes that a turn of base64_encode took.
LEMMA GroupDecodes ==
  ASSUME NEW data \in Seq(Byte), NEW url \in BOOLEAN, NEW p \in Nat, p < Len(data),
         bytes \in Seq(Byte),
         \A k \in 1..4 : char_at(k) = Group(data, p, url)[k]
  PROVE /\ ~decode_throws
        /\ decode_group =>
             /\ bytes' \in Seq(Byte)
             /\ Len(bytes') = Len(bytes) + (IF p + 3 <= Len(data) THEN 3 ELSE Len(data) - p)
             /\ \A n \in 1..Len(bytes) : bytes'[n] = bytes[n]
             /\ \A n \in 1..3 :
                  p + n <= Len(data) => bytes'[Len(bytes) + n] = data[p + n]
<1> DEFINE char(n) == base64_chars(url)[n + 1]
<1>1. ByteAt(data, p, 1) \in Byte /\ ByteAt(data, p, 2) \in Byte /\ ByteAt(data, p, 3) \in Byte
  <2>1. 1 \in 1..3 /\ 2 \in 1..3 /\ 3 \in 1..3
    OBVIOUS
  <2> QED BY <2>1, ByteType, Zenon
<1>2. PICK a \in Byte : a = ByteAt(data, p, 1)
  BY <1>1
<1>3. PICK b \in Byte : b = ByteAt(data, p, 2)
  BY <1>1
<1>4. PICK c \in Byte : c = ByteAt(data, p, 3)
  BY <1>1
<1>5. /\ First(a) \in 0..63 /\ Second(a, b) \in 0..63
      /\ Third(b, c) \in 0..63 /\ Fourth(c) \in 0..63
      /\ First(a) * 4 + Second(a, b) \div 16 = a
      /\ (Second(a, b) % 16) * 16 + Third(b, c) \div 4 = b
      /\ (Third(b, c) % 4) * 64 + Fourth(c) = c
  BY SixBits
<1>6. PICK i \in 0..63, j \in 0..63, k \in 0..63, l \in 0..63 :
        i = First(a) /\ j = Second(a, b) /\ k = Third(b, c) /\ l = Fourth(c)
  BY <1>5
<1>7. /\ i * 4 + j \div 16 = a
      /\ (j % 16) * 16 + k \div 4 = b
      /\ (k % 4) * 64 + l = c
  BY <1>6, <1>5
<1>8. PICK t \in {"=", "."} : t = IF url THEN "." ELSE "="
  BY Zenon
<1>9. Group(data, p, url) =
        <<char(i), char(j), IF Len(data) - p >= 2 THEN char(k) ELSE t,
          IF Len(data) - p >= 3 THEN char(l) ELSE t>>
  <2>1. Group(data, p, url) =
          <<base64_chars(url)[First(a) + 1], base64_chars(url)[Second(a, b) + 1],
            IF Len(data) - p >= 2 THEN base64_chars(url)[Third(b, c) + 1] ELSE t,
            IF Len(data) - p >= 3 THEN base64_chars(url)[Fourth(c) + 1] ELSE t>>
    BY <1>2, <1>3, <1>4, <1>8, GroupIs
  <2> QED BY <1>6, <2>1, Zenon
<1> HIDE DEF char
<1>10. /\ char_at(1) = char(i) /\ char_at(2) = char(j)
      /\ char_at(3) = (IF Len(data) - p >= 2 THEN char(k) ELSE t)
      /\ char_at(4) = (IF Len(data) - p >= 3 THEN char(l) ELSE t)
  <2>1. \A n \in {1, 2, 3, 4} : n \in 1..4
    OBVIOUS
  <2> QED BY <1>9, <2>1
<1>11. ASSUME NEW n \in 0..63, NEW x, x = char(n)
      PROVE  pos_of_char(x) = n /\ ~Throws(x) /\ ~Trailing(x)
  BY <1>11, CharIs, Zenon DEF char
<1>12. Trailing(t)
  BY <1>8 DEF Trailing
<1>13. /\ pos_of_char(char_at(1)) = i /\ ~Throws(char_at(1))
       /\ pos_of_char(char_at(2)) = j /\ ~Throws(char_at(2))
  BY <1>10, <1>11
<1>14. Len(data) - p >= 2 =>
         pos_of_char(char_at(3)) = k /\ ~Throws(char_at(3)) /\ ~Trailing(char_at(3))
  BY <1>10, <1>11
<1>15. Len(data) - p >= 3 =>
         pos_of_char(char_at(4)) = l /\ ~Throws(char_at(4)) /\ ~Trailing(char_at(4))
  BY <1>10, <1>11
<1>16. /\ ~(Len(data) - p >= 2) => Trailing(char_at(3))
       /\ ~(Len(data) - p >= 3) => Trailing(char_at(4))
  BY <1>10, <1>12
<1>17. (Len(data) - p >= 3) => (Len(data) - p >= 2)
  OBVIOUS
<1>18. ~decode_throws
  BY <1>13, <1>14, <1>15, <1>16, <1>17 DEF decode_throws
<1>19. Len(data) - p \in Nat \ {0}
  OBVIOUS
<1> DEFINE left == Len(data) - p
<1>20. ASSUME decode_group
       PROVE  bytes' = bytes \o <<a>> \o (IF left < 2 THEN <<>> ELSE
                                          <<b>> \o IF left < 3 THEN <<>> ELSE <<c>>)
  <2>1. bytes' = bytes \o <<pos_of_char(char_at(1)) * 4 + pos_of_char(char_at(2)) \div 16>>
          \o (IF Trailing(char_at(3)) THEN <<>> ELSE
              <<(pos_of_char(char_at(2)) % 16) * 16 + pos_of_char(char_at(3)) \div 4>>
              \o IF Trailing(char_at(4)) THEN <<>>
                 ELSE <<(pos_of_char(char_at(3)) % 4) * 64 + pos_of_char(char_at(4))>>)
    BY <1>20 DEF decode_group
  <2>2. pos_of_char(char_at(1)) * 4 + pos_of_char(char_at(2)) \div 16 = a
    BY <1>7, <1>13
  <2>3. CASE left = 1
    <3>1. Trailing(char_at(3))
      BY <1>16, <2>3
    <3>2. left < 2
      BY <2>3
    <3> QED BY <2>1, <2>2, <3>1, <3>2, Zenon
  <2>4. CASE left = 2
    <3>1. ~Trailing(char_at(3)) /\ Trailing(char_at(4))
      BY <1>14, <1>16, <2>4
    <3>2. (pos_of_char(char_at(2)) % 16) * 16 + pos_of_char(char_at(3)) \div 4 = b
      BY <1>7, <1>13, <1>14, <2>4
    <3>3. ~(left < 2) /\ left < 3
      BY <2>4
    <3> QED BY <2>1, <2>2, <3>1, <3>2, <3>3, Zenon
  <2>5. CASE left >= 3
    <3>1. ~Trailing(char_at(3)) /\ ~Trailing(char_at(4))
      BY <1>14, <1>15, <1>17, <2>5
    <3>2. (pos_of_char(char_at(2)) % 16) * 16 + pos_of_char(char_at(3)) \div 4 = b
      BY <1>7, <1>13, <1>14, <1>17, <2>5
    <3>3. (pos_of_char(char_at(3)) % 4) * 64 + pos_of_char(char_at(4)) = c
      BY <1>7, <1>14, <1>15, <1>17, <2>5
    <3>4. ~(left < 2) /\ ~(left < 3)
      BY <1>19, <2>5
    <3> QED BY <2>1, <2>2, <3>1, <3>2, <3>3, <3>4, Zenon
  <2>6. left = 1 \/ left = 2 \/ left >= 3
    BY <1>19
  <2> QED BY <2>3, <2>4, <2>5, <2>6, Zenon
<1>21. /\ a = data[p + 1]
       /\ left >= 2 => b = data[p + 2]
       /\ left >= 3 => c = data[p + 3]
  BY <1>2, <1>3, <1>4, <1>19 DEF ByteAt
<1> DEFINE Grown(r, s) ==
             /\ r \in Seq(Byte)
             /\ Len(r) = Len(s) + (IF p + 3 <= Len(data) THEN 3 ELSE Len(data) - p)
             /\ \A n \in 1..Len(s) : r[n] = s[n]
             /\ \A n \in 1..3 : p + n <= Len(data) => r[Len(s) + n] = data[p + n]
<1>22. PICK s \in Seq(Byte) : s = bytes
  OBVIOUS
<1>23. ASSUME NEW r, r = s \o <<a>> \o (IF left < 2 THEN <<>> ELSE
                                         <<b>> \o IF left < 3 THEN <<>> ELSE <<c>>)
       PROVE  Grown(r, s)
  <2>1. CASE left = 1
    <3>1. r = s \o <<a>> \o <<>>
      <4>1. left < 2
        BY <2>1
      <4> QED BY <1>23, <4>1, Zenon
    <3>2. /\ r \in Seq(Byte) /\ Len(r) = Len(s) + 1
          /\ (\A n \in 1..Len(s) : r[n] = s[n]) /\ r[Len(s) + 1] = a
      BY <3>1
    <3>3. ~(p + 3 <= Len(data)) /\ \A n \in 1..3 : p + n <= Len(data) => n = 1
      BY <2>1
    <3> QED BY <1>21, <2>1, <3>2, <3>3
  <2>2. CASE left = 2
    <3>1. r = s \o <<a>> \o (<<b>> \o <<>>)
      <4>1. ~(left < 2) /\ left < 3
        BY <2>2
      <4> QED BY <1>23, <4>1, Zenon
    <3>2. /\ r \in Seq(Byte) /\ Len(r) = Len(s) + 2
          /\ (\A n \in 1..Len(s) : r[n] = s[n])
          /\ r[Len(s) + 1] = a /\ r[Len(s) + 2] = b
      BY <3>1
    <3>3. ~(p + 3 <= Len(data)) /\ \A n \in 1..3 : p + n <= Len(data) => n = 1 \/ n = 2
      BY <2>2
    <3>4. Len(data) - p = 2 /\ a = data[p + 1] /\ b = data[p + 2]
      BY <1>21, <2>2
    <3>5. Len(r) = Len(s) + (IF p + 3 <= Len(data) THEN 3 ELSE Len(data) - p)
      BY <3>2, <3>3, <3>4
    <3>6. \A n \in 1..3 : p + n <= Len(data) => r[Len(s) + n] = data[p + n]
      BY <3>2, <3>3, <3>4
    <3> QED BY <3>2, <3>5, <3>6
  <2>3. CASE left >= 3
    <3>1. r = s \o <<a>> \o (<<b>> \o <<c>>)
      <4>1. ~(left < 2) /\ ~(left < 3)
        BY <2>3
      <4> QED BY <1>23, <4>1, Zenon
    <3>2. /\ r \in Seq(Byte) /\ Len(r) = Len(s) + 3
          /\ (\A n \in 1..Len(s) : r[n] = s[n])
          /\ r[Len(s) + 1] = a /\ r[Len(s) + 2] = b /\ r[Len(s) + 3] = c
      BY <3>1
    <3>3. p + 3 <= Len(data) /\ left >= 2 /\ \A n \in 1..3 : n = 1 \/ n = 2 \/ n = 3
      BY <2>3
    <3> QED BY <1>21, <2>3, <3>2, <3>3
  <2>4. left = 1 \/ left = 2 \/ left >= 3
    BY <1>19
  <2> QED BY <2>1, <2>2, <2>3, <2>4, Zenon
<1>24. decode_group => Grown(bytes', bytes)
  <2> HIDE DEF Grown, left
  <2> QED BY <1>20, <1>22, <1>23, Zenon
<1> QED BY <1>18, <1>24

-----------------------------------------------------------------------------
\* What base64_decode has made of the text of some contents after so many turns.
DecodedTo(data) ==
  \E g \in Nat :
    /\ pos = 4 * g /\ 3 * g < Len(data) + 3
    /\ bytes \in Seq(Byte)
    /\ Len(bytes) = IF 3 * g <= Len(data) THEN 3 * g ELSE Len(data)
    /\ \A n \in 1..Len(bytes) : bytes[n] = data[n]

\* Whatever contents the text at hand is made of, in either alphabet.
RoundTrip ==
  \A data \in Seq(Byte), url \in BOOLEAN :
    encoded_string = base64_encode(data, url) => DecodedTo(data)

\* As long as there is text left, a turn does not throw, and goes on with them.
LEMMA TurnDecodes ==
  ASSUME NEW data \in Seq(Byte), NEW url \in BOOLEAN, DecodedTo(data), ~Decoded,
         encoded_string = base64_encode(data, url)
  PROVE ~decode_throws /\ (decode_group => DecodedTo(data)')
<1>1. PICK g \in Nat :
        /\ pos = 4 * g /\ 3 * g < Len(data) + 3
        /\ bytes \in Seq(Byte)
        /\ Len(bytes) = IF 3 * g <= Len(data) THEN 3 * g ELSE Len(data)
        /\ \A n \in 1..Len(bytes) : bytes[n] = data[n]
  BY DEF DecodedTo
<1>2. Len(data) \in Nat /\ Len(encoded_string) = 4 * ((Len(data) + 2) \div 3)
  BY EncodedIs
<1>3. 3 * g < Len(data) /\ 4 * g + 4 <= Len(encoded_string)
  <2>1. 4 * g < 4 * ((Len(data) + 2) \div 3)
    BY <1>1, <1>2 DEF Decoded
  <2> QED BY <1>2, <2>1
<1>4. \A k \in 1..4 : char_at(k) = Group(data, 3 * g, url)[k]
  <2> SUFFICES ASSUME NEW k \in 1..4 PROVE char_at(k) = Group(data, 3 * g, url)[k]
    OBVIOUS
  <2>1. base64_encode(data, url)[4 * g + k] = Group(data, 3 * g, url)[k]
    BY <1>3, EncodedIs
  <2>2. char_at(k) = encoded_string[4 * g + k]
    BY <1>1, <1>2, <1>3 DEF char_at
  <2> QED BY <2>1, <2>2
<1>5. PICK p \in Nat : p = 3 * g /\ p < Len(data) /\ p = Len(bytes)
  BY <1>1, <1>2, <1>3
<1>6. /\ ~decode_throws
      /\ decode_group =>
           /\ bytes' \in Seq(Byte)
           /\ Len(bytes') = Len(bytes) + (IF p + 3 <= Len(data) THEN 3 ELSE Len(data) - p)
           /\ \A n \in 1..Len(bytes) : bytes'[n] = bytes[n]
           /\ \A n \in 1..3 : p + n <= Len(data) => bytes'[Len(bytes) + n] = data[p + n]
  <2>1. bytes \in Seq(Byte)
    BY <1>1
  <2>2. p < Len(data) /\ \A k \in 1..4 : char_at(k) = Group(data, p, url)[k]
    BY <1>4, <1>5
  <2> QED BY <2>1, <2>2, GroupDecodes, Zenon
<1>7. ASSUME decode_group PROVE DecodedTo(data)'
  <2>1. pos' = 4 * (g + 1)
    BY <1>1, <1>7 DEF decode_group
  <2>2. Len(bytes') = IF 3 * (g + 1) <= Len(data) THEN 3 * (g + 1) ELSE Len(data)
    BY <1>2, <1>5, <1>6, <1>7
  <2>3. ASSUME NEW n \in 1..Len(bytes') PROVE bytes'[n] = data[n]
    <3>1. CASE n <= p
      <4>1. n \in 1..Len(bytes)
        BY <1>5, <3>1
      <4>2. bytes'[n] = bytes[n] /\ bytes[n] = data[n]
        BY <1>1, <1>6, <1>7, <4>1, Zenon
      <4> QED BY <4>2
    <3>2. CASE ~(n <= p)
      <4>1. n - p \in 1..3 /\ p + (n - p) = n /\ n <= Len(data)
        BY <1>2, <1>5, <2>2, <3>2
      <4> QED BY <1>5, <1>6, <1>7, <4>1
    <3> QED BY <3>1, <3>2
  <2>4. g + 1 \in Nat /\ 3 * (g + 1) < Len(data) + 3
    BY <1>2, <1>3
  <2> QED BY <1>6, <1>7, <2>1, <2>2, <2>3, <2>4 DEF DecodedTo
<1> QED BY <1>6, <1>7

\* With no text left, all of the contents are there.
LEMMA AllDecoded ==
  ASSUME NEW data \in Seq(Byte), NEW url \in BOOLEAN, DecodedTo(data), Decoded,
         encoded_string = base64_encode(data, url)
  PROVE bytes = data
<1>1. PICK g \in Nat :
        /\ pos = 4 * g /\ 3 * g < Len(data) + 3
        /\ bytes \in Seq(Byte)
        /\ Len(bytes) = IF 3 * g <= Len(data) THEN 3 * g ELSE Len(data)
        /\ \A n \in 1..Len(bytes) : bytes[n] = data[n]
  BY DEF DecodedTo
<1>2. Len(data) \in Nat /\ Len(encoded_string) = 4 * ((Len(data) + 2) \div 3)
  BY EncodedIs
<1>3. 3 * g >= Len(data)
  <2>1. 4 * g >= 4 * ((Len(data) + 2) \div 3)
    BY <1>1, <1>2 DEF Decoded
  <2> QED BY <1>2, <2>1
<1>4. Len(bytes) = Len(data)
  BY <1>1, <1>2, <1>3
<1> QED BY <1>1, <1>4

-----------------------------------------------------------------------------
\* What handle_request reads of a request is text.
LEMMA RequestIs ==
  ASSUME NEW r \in Requests
  PROVE r.body \in Seq(Tokens) /\ \A i \in 1..Len(r.types) : r.types[i] \in Seq(Tokens)
<1>1. r.body \in Seq(Tokens) /\ r.types \in Seq(Seq(Tokens))
  BY RequestsAssumption
<1> QED BY <1>1

\* What is cut out of the body is text, and the place to go on from is a place.
LEMMA PartIs ==
  ASSUME IInv
  PROVE /\ boundary_rn \in Seq(Tokens) /\ boundary_end_rn \in Seq(Tokens)
        /\ \A from \in Nat \ {0} : find(request.body, boundary_rn, from) \in Nat
        /\ PartUpTo(find(request.body, boundary_rn, currentIdx)) \in Seq(Tokens)
        /\ PartUpTo(find(request.body, boundary_end_rn, currentIdx)) \in Seq(Tokens)
<1>1. request.body \in Seq(Tokens) /\ currentIdx \in Nat \ {0}
  BY RequestIs DEF IInv
<1>2. /\ boundary_rn \in Seq(Tokens) /\ Len(boundary_rn) >= 1
      /\ boundary_end_rn \in Seq(Tokens) /\ Len(boundary_end_rn) >= 1
  BY TextOf DEF IInv, boundary_rn, boundary_end_rn
<1>3. \A from \in Nat \ {0} : find(request.body, boundary_rn, from) \in Nat
  BY <1>1, <1>2, FindIs DEF npos
<1>4. \A text \in Seq(Tokens) :
        Len(text) >= 1 =>
          LET i == find(request.body, text, currentIdx)
          IN i # npos => i \in Nat /\ i <= Len(request.body)
  BY <1>1, FindIs
<1>5. \A e : (e # npos => e \in Nat /\ e <= Len(request.body)) =>
        PartUpTo(e) \in Seq(Tokens)
  BY <1>1, SubSeqType DEF PartUpTo
<1> QED BY <1>2, <1>3, <1>4, <1>5

\* A call begins with a request and has cut nothing out of it.
LEMMA InitInv == Init => IInv
BY DEF Init, TextInit, DecodeBase64Init, IInv

\* The steps up to the images.
LEMMA RequestSteps ==
  ASSUME IInv, read_request, UNCHANGED base64Vars
  PROVE IInv'
<1> USE DEF base64Vars, textVars, goto, refuse
<1>1. encoded_string' \in Seq(Tokens) /\ pos' \in Nat
  BY DEF IInv
<1>2. CASE UNCHANGED textVars
  BY <1>1, <1>2 DEF IInv
<1>3. CASE decode \/ route \/ headers_read
  BY <1>2, <1>3 DEF decode, route, headers_read
<1>4. CASE read_header
  <2>1. CASE /\ header <= Len(request.types)
             /\ boundary' = retrieveMultipartBoundary(request.types[header])
             /\ header' = header + 1
             /\ UNCHANGED <<request, currentIdx, out>>
    <3>1. header \in 1..Len(request.types)
      BY <2>1, RequestsAssumption DEF IInv
    <3>2. request.types[header] \in Seq(Tokens)
      BY <3>1, RequestIs DEF IInv
    <3>3. boundary' \in Seq(Tokens)
      BY <2>1, <3>2, BoundaryType
    <3> QED BY <1>1, <2>1, <3>3 DEF IInv
  <2> QED BY <1>2, <1>4, <2>1 DEF read_header
<1>5. CASE first_boundary
  <2> DEFINE first == find(request.body, boundary_rn, 1)
  <2>1. first \in Nat /\ Len(boundary_rn) \in Nat
    BY PartIs
  <2>2. CASE /\ first # npos
             /\ currentIdx' = first + Len(boundary_rn)
             /\ UNCHANGED <<request, header, boundary, out>>
    <3>1. currentIdx' \in Nat \ {0}
      <4> HIDE DEF first
      <4> QED BY <2>1, <2>2 DEF npos
    <3> QED BY <1>1, <2>2, <3>1 DEF IInv
  <2> QED BY <1>2, <1>5, <2>2 DEF first_boundary
<1>6. ASSUME NEW part \in Seq(Tokens),
             LET f == retrieveFilename(part).text
             IN out' = [g \in DOMAIN out \cup {f} |->
                          IF g = f THEN retrieveImage(part).text ELSE out[g]]
      PROVE \A f \in DOMAIN out' : out'[f] \in Seq(Tokens)
  BY <1>6, ImageIsText DEF IInv
<1>7. CASE next_part
  <2> DEFINE end == find(request.body, boundary_rn, currentIdx)
             part == PartUpTo(end)
  <2>1. end \in Nat /\ Len(boundary_rn) \in Nat /\ part \in Seq(Tokens)
    BY PartIs DEF IInv
  <2>2. CASE /\ LET f == retrieveFilename(part).text
                IN out' = [g \in DOMAIN out \cup {f} |->
                             IF g = f THEN retrieveImage(part).text ELSE out[g]]
             /\ end # npos /\ currentIdx' = end + Len(boundary_rn)
             /\ UNCHANGED <<request, header, boundary>>
    <3> HIDE DEF end, part
    <3>1. currentIdx' \in Nat \ {0}
      BY <2>1, <2>2 DEF npos
    <3>2. \A f \in DOMAIN out' : out'[f] \in Seq(Tokens)
      BY <1>6, <2>1, <2>2
    <3> QED BY <1>1, <2>2, <3>1, <3>2 DEF IInv
  <2> HIDE DEF part
  <2>3. take(part, currentIdx' = end + Len(boundary_rn) /\ UNCHANGED stage) /\ end # npos
    BY <1>7 DEF next_part, part
  <2> QED BY <1>2, <2>2, <2>3 DEF take
<1>8. CASE last_part
  <2> DEFINE part == PartUpTo(find(request.body, boundary_end_rn, currentIdx))
  <2>1. part \in Seq(Tokens)
    BY PartIs
  <2>2. CASE /\ LET f == retrieveFilename(part).text
                IN out' = [g \in DOMAIN out \cup {f} |->
                             IF g = f THEN retrieveImage(part).text ELSE out[g]]
             /\ UNCHANGED <<request, header, boundary, currentIdx>>
    <3> HIDE DEF part
    <3>1. \A f \in DOMAIN out' : out'[f] \in Seq(Tokens)
      BY <1>6, <2>1, <2>2
    <3> QED BY <1>1, <2>2, <3>1 DEF IInv
  <2> HIDE DEF part
  <2>3. take(part, stage' = "images" /\ UNCHANGED currentIdx)
    BY <1>8 DEF last_part, part
  <2> QED BY <1>2, <2>2, <2>3 DEF take
<1> QED BY <1>3, <1>4, <1>5, <1>7, <1>8 DEF read_request

\* Parsing a request and every turn of the loop over its images keep the invariant.
LEMMA StepInv == IInv /\ [Next]_vars => IInv'
<1> SUFFICES ASSUME IInv, [Next]_vars PROVE IInv'
  OBVIOUS
<1>1. CASE parse_request
  BY <1>1, RequestSteps DEF parse_request
<1>2. CASE next_image
  <2>1. PICK f \in DOMAIN out :
          encoded_string' = Chosen(out[f], {k \in DOMAIN out[f] : out[f][k] # "LF"})
    BY <1>2 DEF next_image, Left, base64_decode
  <2>2. encoded_string' \in Seq(Tokens)
    BY <2>1, ChosenType DEF IInv
  <2>3. pos' = 0 /\ UNCHANGED textVars
    BY <1>2 DEF next_image, base64_decode
  <2> QED BY <2>2, <2>3 DEF IInv, textVars
<1>3. CASE decode_image
  <2>1. UNCHANGED <<textVars, encoded_string>> /\ (pos' = pos \/ pos' = pos + 4)
    BY <1>3 DEF decode_image, decode_group, throw, base64Vars
  <2> QED BY <2>1 DEF IInv, textVars
<1>4. CASE run_image \/ reply_results \/ reply_refused \/ reply_history \/ UNCHANGED vars
  <2>1. UNCHANGED <<textVars, base64Vars>>
    BY <1>4 DEF run_image, reply_results, reply_refused, reply_history, reply_with, throw, vars
  <2> QED BY <2>1 DEF IInv, textVars, base64Vars
<1> QED BY <1>1, <1>2, <1>3, <1>4 DEF Next

\* base64_decode reads no character past the null at the end of its text, whatever a
\* peer sends: texts of any length, with padding anywhere, or characters that are none
\* of the alphabet.
THEOREM InBoundsAlways == Spec => []InBounds
<1>1. Init => IInv
  BY InitInv
<1>2. IInv /\ [Next]_vars => IInv'
  BY StepInv
<1>3. IInv => InBounds
  BY TurnInBounds DEF IInv, InBounds
<1> QED BY <1>1, <1>2, <1>3, PTL DEF Spec

-----------------------------------------------------------------------------
\* Nothing else touches the loop: a text is taken, read by turns, and left alone.
LEMMA RoundTripSteps ==
  ASSUME RoundTrip
  PROVE /\ UNCHANGED base64Vars => RoundTrip'
        /\ ~Decoded /\ decode_group => RoundTrip'
        /\ (pos' = 0 /\ bytes' = <<>>) => RoundTrip'
<1>1. ASSUME UNCHANGED base64Vars PROVE RoundTrip'
  BY <1>1 DEF RoundTrip, DecodedTo, base64Vars
<1>2. ASSUME ~Decoded, decode_group,
             NEW data \in Seq(Byte), NEW url \in BOOLEAN,
             encoded_string' = base64_encode(data, url)
      PROVE DecodedTo(data)'
  <2>1. encoded_string = base64_encode(data, url)
    BY <1>2 DEF decode_group
  <2>2. DecodedTo(data)
    BY <2>1, Zenon DEF RoundTrip
  <2> QED BY <1>2, <2>1, <2>2, TurnDecodes, Zenon
<1>3. ASSUME pos' = 0, bytes' = <<>>, NEW data \in Seq(Byte) PROVE DecodedTo(data)'
  <2>1. 0 \in Nat /\ pos' = 4 * 0 /\ 3 * 0 < Len(data) + 3 /\ 3 * 0 <= Len(data)
    BY <1>3
  <2>2. bytes' \in Seq(Byte) /\ Len(bytes') = 0
    BY <1>3
  <2> QED BY <2>1, <2>2 DEF DecodedTo
<1>4. ASSUME ~Decoded, decode_group PROVE RoundTrip'
  BY <1>2, <1>4, Zenon DEF RoundTrip
<1>5. ASSUME pos' = 0, bytes' = <<>> PROVE RoundTrip'
  BY <1>3, <1>5, Zenon DEF RoundTrip
<1> QED BY <1>1, <1>4, <1>5

\* At first there is no text, and no byte.
LEMMA RoundTripInit == Init => RoundTrip
<1> SUFFICES ASSUME Init, NEW data \in Seq(Byte) PROVE DecodedTo(data)
  BY Zenon DEF RoundTrip
<1>1. pos = 0 /\ bytes = <<>>
  BY DEF Init, DecodeBase64Init
<1>2. 0 \in Nat /\ pos = 4 * 0 /\ 3 * 0 < Len(data) + 3 /\ 3 * 0 <= Len(data)
  BY <1>1
<1>3. bytes \in Seq(Byte) /\ Len(bytes) = 0
  BY <1>1
<1> QED BY <1>2, <1>3 DEF DecodedTo

\* Every step of handle_request leaves base64_decode where it was, or is a turn of it.
LEMMA RoundTripInv == RoundTrip /\ [Next]_vars => RoundTrip'
<1> SUFFICES ASSUME RoundTrip, [Next]_vars PROVE RoundTrip'
  OBVIOUS
<1>1. CASE next_image
  <2>1. pos' = 0 /\ bytes' = <<>>
    BY <1>1 DEF next_image, base64_decode
  <2> QED BY <2>1, RoundTripSteps
<1>2. CASE decode_image
  <2>1. (~Decoded /\ decode_group) \/ UNCHANGED base64Vars
    BY <1>2 DEF decode_image, throw
  <2> QED BY <2>1, RoundTripSteps
<1>3. CASE ~next_image /\ ~decode_image
  <2>1. UNCHANGED base64Vars
    BY <1>3 DEF Next, parse_request, run_image, reply_results, reply_refused, reply_history,
                reply_with, throw, vars, base64Vars
  <2> QED BY <2>1, RoundTripSteps
<1> QED BY <1>1, <1>2, <1>3

\* The contents of a file, of any length, come through base64 as they were, whichever
\* of its alphabets the client uses: no turn throws, and in the end the bytes are those
\* that were encoded.
THEOREM BytesAsEncodedAlways == Spec => []BytesAsEncoded
<1>1. Init => RoundTrip
  BY RoundTripInit
<1>2. RoundTrip /\ [Next]_vars => RoundTrip'
  BY RoundTripInv
<1>3. IInv /\ RoundTrip => BytesAsEncoded
  <2> SUFFICES ASSUME IInv, RoundTrip,
                      NEW i \in DOMAIN request.files, NEW url \in BOOLEAN,
                      encoded_string = base64_encode(request.files[i].data, url)
               PROVE  IF Decoded THEN bytes = request.files[i].data ELSE ~decode_throws
    BY Zenon DEF BytesAsEncoded
  <2>1. PICK data \in Seq(Byte) : data = request.files[i].data
    <3>1. request.files \in Seq(FileType)
      BY RequestsAssumption DEF IInv
    <3>2. request.files[i] \in FileType
      BY <3>1
    <3> QED BY <3>2 DEF FileType, Byte
  <2>2. encoded_string = base64_encode(data, url)
    BY <2>1, Zenon
  <2>3. DecodedTo(data)
    BY <2>2, Zenon DEF RoundTrip
  <2>4. Decoded => bytes = data
    BY <2>2, <2>3, AllDecoded, Zenon
  <2>5. ~Decoded => ~decode_throws
    BY <2>2, <2>3, TurnDecodes, Zenon
  <2> QED BY <2>1, <2>4, <2>5
<1>4. Init => IInv
  BY InitInv
<1>5. IInv /\ [Next]_vars => IInv'
  BY StepInv
<1> QED BY <1>1, <1>2, <1>3, <1>4, <1>5, PTL DEF Spec

-----------------------------------------------------------------------------
\* Reading stops at the first character that is no digit, if there is one.
LEMMA LeadingIs ==
  ASSUME NEW d \in Seq(Byte), d # <<>>
  PROVE /\ (\A i \in 1..Len(d) : IsHex(d[i])) => Leading(d) = d
        /\ ~IsHex(d[1]) => Leading(d) = <<>>
        /\ Len(d) = 2 /\ IsHex(d[1]) /\ ~IsHex(d[2]) => Leading(d) = <<d[1]>>
<1> DEFINE others == {i \in 1..Len(d) : ~IsHex(d[i])}
<1>1. SelectInSeq(d, LAMBDA c : ~IsHex(c)) = IF others # {} THEN Min(others) ELSE 0
  BY Zenon DEF SelectInSeq
<1>2. Leading(d) = LET n == IF others # {} THEN Min(others) ELSE 0
                   IN IF n = 0 THEN d ELSE SubSeq(d, 1, n - 1)
  <2> HIDE DEF others
  <2> QED BY <1>1, Zenon DEF Leading
<1>3. ASSUME \A i \in 1..Len(d) : IsHex(d[i]) PROVE Leading(d) = d
  <2>1. others = {}
    BY <1>3
  <2> HIDE DEF others
  <2> QED BY <1>2, <2>1
<1>4. ASSUME ~IsHex(d[1]) PROVE Leading(d) = <<>>
  <2>1. 1 \in others /\ others \in SUBSET Nat /\ \A i \in others : i >= 1
    BY <1>4
  <2> HIDE DEF others
  <2>2. PICK m \in Nat : m = Min(others) /\ m \in others /\ m <= 1
    BY <2>1, MinIs
  <2>3. Min(others) = 1
    BY <2>1, <2>2
  <2>4. Leading(d) = SubSeq(d, 1, 0)
    BY <1>2, <2>1, <2>3
  <2> QED BY <2>4
<1>5. ASSUME Len(d) = 2, IsHex(d[1]), ~IsHex(d[2]) PROVE Leading(d) = <<d[1]>>
  <2>1. 2 \in others /\ others \in SUBSET Nat /\ \A i \in others : i = 2
    BY <1>5
  <2> HIDE DEF others
  <2>2. Min(others) = 2
    BY <2>1, MinIs
  <2>3. Leading(d) = SubSeq(d, 1, 1)
    BY <1>2, <2>1, <2>2
  <2>4. PICK t : t = SubSeq(d, 1, 1)
    OBVIOUS
  <2>5. t \in Seq(Byte) /\ Len(t) = 1 /\ t[1] = d[1]
    BY <1>5, <2>4
  <2>6. PICK u : u = <<d[1]>>
    OBVIOUS
  <2>7. u \in Seq(Byte) /\ Len(u) = 1 /\ u[1] = d[1]
    <3>1. d[1] \in Byte
      BY <1>5
    <3> QED BY <2>6, <3>1
  <2>8. t = u
    BY <2>5, <2>7
  <2> QED BY <2>3, <2>4, <2>6, <2>8
<1> QED BY <1>3, <1>4, <1>5

\* What `is >> std::hex' reads of two characters, by what they are.
LEMMA DigitsAre ==
  ASSUME NEW h \in Byte, NEW l \in Byte
  PROVE /\ TwoDigits(h, l) => digits(<<h, l>>) = <<h, l>>
        /\ IsHex(h) /\ ~IsHex(l) => digits(<<h, l>>) = <<h>>
        /\ Signed(h, l) => digits(<<h, l>>) = <<l>>
        /\ ~IsHex(h) /\ ~Signed(h, l) => digits(<<h, l>>) = <<>>
<1>1. PICK two \in Seq(Byte) : two = <<h, l>>
  <2>1. <<h, l>> \in Seq(Byte)
    OBVIOUS
  <2> QED BY <2>1
<1>2. two[1] = h /\ two[2] = l /\ Len(two) = 2 /\ two # <<>>
  BY <1>1
<1>3. IsHex(h) => h \notin {Plus, Minus}
  BY DEF Byte, IsHex, Plus, Minus
<1>4. h \notin {Plus, Minus} => digits(two) = Leading(two)
  BY <1>2 DEF digits
<1>5. TwoDigits(h, l) => digits(two) = two
  <2> SUFFICES ASSUME TwoDigits(h, l) PROVE digits(two) = two
    OBVIOUS
  <2>1. \A i \in 1..Len(two) : IsHex(two[i])
    BY <1>2 DEF TwoDigits
  <2> QED BY <1>2, <1>3, <1>4, <2>1, LeadingIs DEF TwoDigits
<1>6. IsHex(h) /\ ~IsHex(l) => digits(two) = <<h>>
  BY <1>2, <1>3, <1>4, LeadingIs
<1>7. CASE h \in {Plus, Minus}
  <2>1. PICK d \in Seq(Byte) : d = <<l>>
    <3>1. <<l>> \in Seq(Byte)
      OBVIOUS
    <3> QED BY <3>1
  <2>2. Tail(two) = d
    BY <1>1, <2>1
  <2>3. digits(two) = Leading(d)
    BY <1>2, <1>7, <2>2 DEF digits
  <2>4. d[1] = l /\ Len(d) = 1 /\ d # <<>>
    BY <2>1
  <2>5. Signed(h, l) => digits(two) = d
    BY <2>3, <2>4, LeadingIs DEF Signed
  <2>6. ~Signed(h, l) => digits(two) = <<>>
    BY <1>7, <2>3, <2>4, LeadingIs DEF Signed
  <2> QED BY <1>1, <1>3, <1>7, <2>1, <2>5, <2>6 DEF TwoDigits
<1>8. CASE h \notin {Plus, Minus}
  <2>1. ~IsHex(h) => digits(two) = <<>>
    BY <1>2, <1>4, <1>8, LeadingIs
  <2> QED BY <1>1, <1>5, <1>6, <1>8, <2>1 DEF Signed
<1> QED BY <1>7, <1>8

\* An escape with a number in it is read as what it stands for.
LEMMA HexIs ==
  ASSUME NEW h \in Byte, NEW l \in Byte,
         TwoDigits(h, l) \/ OneDigit(h, l) \/ Signed(h, l)
  PROVE readsHex(<<h, l>>) /\ hex(<<h, l>>) = Escaped(h, l)
<1>1. PICK two : two = <<h, l>> /\ two[1] = h /\ two[2] = l
  <2>1. <<h, l>>[1] = h /\ <<h, l>>[2] = l
    OBVIOUS
  <2> QED BY <2>1
<1>2. PICK d : d = digits(two)
  OBVIOUS
<1>3. /\ TwoDigits(h, l) => d = <<h, l>>
      /\ OneDigit(h, l) => d = <<h>>
      /\ Signed(h, l) => d = <<l>>
  BY <1>1, <1>2, DigitsAre DEF OneDigit
<1>4. d # <<>>
  BY <1>3
<1>5. ~(h = 48 /\ l \in LettersX)
  BY DEF TwoDigits, OneDigit, Signed, IsHex, LettersX, Plus, Minus
<1>6. readsHex(two)
  BY <1>1, <1>2, <1>4, <1>5, Zenon DEF readsHex
<1>7. hex(two) = LET v == IF Len(d) = 1 THEN hexValue(d[1])
                          ELSE 16 * hexValue(d[1]) + hexValue(d[2])
                 IN IF h = Minus THEN (256 - v) % 256 ELSE v
  BY <1>1, <1>2 DEF hex
<1>8. CASE TwoDigits(h, l)
  <2>1. Len(d) = 2 /\ d[1] = h /\ d[2] = l
    BY <1>3, <1>8
  <2>2. h # Minus
    BY <1>8 DEF TwoDigits, IsHex, Minus
  <2>3. hex(two) = 16 * hexValue(h) + hexValue(l)
    BY <1>7, <2>1, <2>2
  <2> QED BY <1>1, <1>6, <1>8, <2>3 DEF Escaped
<1>9. CASE OneDigit(h, l)
  <2>1. Len(d) = 1 /\ d[1] = h
    BY <1>3, <1>9
  <2>2. h # Minus /\ ~TwoDigits(h, l)
    BY <1>9 DEF OneDigit, TwoDigits, IsHex, Minus
  <2>3. hex(two) = hexValue(h)
    BY <1>7, <2>1, <2>2
  <2> QED BY <1>1, <1>6, <1>9, <2>2, <2>3 DEF Escaped
<1>10. CASE Signed(h, l)
  <2>1. Len(d) = 1 /\ d[1] = l
    BY <1>3, <1>10
  <2>2. ~OneDigit(h, l) /\ ~TwoDigits(h, l) /\ Plus # Minus
    BY <1>10 DEF Signed, OneDigit, TwoDigits, IsHex, Plus, Minus
  <2>3. hex(two) = IF h = Minus THEN (256 - hexValue(l)) % 256 ELSE hexValue(l)
    BY <1>7, <2>1
  <2>4. hexValue(l) \in 0..15 /\ (l = 48 <=> hexValue(l) = 0)
    BY <1>10 DEF Signed, IsHex, hexValue
  <2>5. PICK v \in 0..15 : v = hexValue(l)
    BY <2>4
  <2>6. (256 - v) % 256 = IF v = 0 THEN 0 ELSE 256 - v
    OBVIOUS
  <2>7. h = Plus \/ h = Minus
    BY <1>10 DEF Signed
  <2>8. Escaped(h, l) = IF h = Plus THEN v ELSE IF v = 0 THEN 0 ELSE 256 - v
    BY <2>2, <2>4, <2>5 DEF Escaped
  <2> QED BY <1>1, <1>6, <2>2, <2>3, <2>5, <2>6, <2>7, <2>8
<1> QED BY <1>8, <1>9, <1>10

\* Every other one makes it fail.
LEMMA NoHexIs ==
  ASSUME NEW h \in Byte, NEW l \in Byte,
         ~TwoDigits(h, l), ~OneDigit(h, l), ~Signed(h, l)
  PROVE ~readsHex(<<h, l>>)
<1>1. CASE IsHex(h)
  BY <1>1 DEF TwoDigits, OneDigit, readsHex
<1>2. CASE ~IsHex(h)
  BY <1>2, DigitsAre DEF readsHex
<1> QED BY <1>1, <1>2

-----------------------------------------------------------------------------
\* Where url_decode is between two turns: at a character of the path, with those
\* before it decoded.
DecodedUpTo(k) ==
  /\ at \in Nat /\ at + 1 = request.places[k]
  /\ path \in Seq(Int) /\ Len(path) = k - 1
  /\ request.path # Invalid => \A i \in 1..(k - 1) : path[i] = request.path[i]

\* That, and that a uri is only refused if it is no encoding.
UriInv ==
  /\ request \in Requests /\ uri = request.uri
  /\ decoded = "false" => request.path = Invalid
  /\ decoded = "true" => at = Len(uri)
  /\ \E k \in 1..Len(request.places) : DecodedUpTo(k)

\* What UrisAssumption says of the request at hand.
LEMMA UriIs ==
  ASSUME UriInv
  PROVE /\ uri \in Seq(Byte) /\ request.path \in Seq(Int)
        /\ Len(request.places) \in Nat \ {0} /\ request.places[1] = 1
        /\ \A k \in 1..Len(request.places) : request.places[k] \in Nat
        /\ \A k \in 1..(Len(request.places) - 1) :
             /\ Written(uri, request.places[k])
             /\ request.places[k + 1] = request.places[k] + Taken(uri, request.places[k])
        /\ request.path = Invalid =>
             /\ request.places[Len(request.places)] <= Len(uri)
             /\ ~Written(uri, request.places[Len(request.places)])
        /\ request.path # Invalid =>
             /\ request.places[Len(request.places)] = Len(uri) + 1
             /\ Len(request.path) = Len(request.places) - 1
             /\ \A k \in 1..(Len(request.places) - 1) :
                  request.path[k] = Stands(uri, request.places[k])
<1>1. request \in Requests /\ uri = request.uri
  BY DEF UriInv
<1>2. uri \in Seq(Byte) /\ request.path \in Seq(Int) /\ request.places \in Seq(Nat)
  <2>1. uri \in Seq(UriChar) /\ request.path \in Seq(Int) /\ request.places \in Seq(Nat)
    BY <1>1, RequestsAssumption
  <2>2. Len(uri) \in Nat /\ \A i \in 1..Len(uri) : uri[i] \in Byte
    <3>1. UriChar \subseteq Byte
      BY DEF UriChar, Byte
    <3> QED BY <2>1, <3>1
  <2>3. uri = [i \in 1..Len(uri) |-> uri[i]]
    BY <2>1
  <2> QED BY <2>1, <2>2, <2>3
<1>3. AsWritten(uri, request.path, request.places)
  BY <1>1, UrisAssumption, Zenon
<1>4. PICK places \in Seq(Nat), p \in Seq(Int) : places = request.places /\ p = request.path
  BY <1>2
<1>5. AsWritten(uri, p, places)
  BY <1>3, <1>4, Zenon
<1>6. /\ Len(places) >= 1 /\ places[1] = 1
      /\ \A k \in 1..(Len(places) - 1) :
           Written(uri, places[k]) /\ places[k + 1] = places[k] + Taken(uri, places[k])
      /\ p = Invalid => places[Len(places)] <= Len(uri) /\ ~Written(uri, places[Len(places)])
      /\ p # Invalid =>
           /\ places[Len(places)] = Len(uri) + 1 /\ Len(p) = Len(places) - 1
           /\ \A k \in 1..(Len(places) - 1) : p[k] = Stands(uri, places[k])
  BY <1>5, Zenon DEF AsWritten
<1>7. Len(places) \in Nat /\ \A k \in 1..Len(places) : places[k] \in Nat
  OBVIOUS
<1>8. Len(places) \in Nat \ {0}
  BY <1>6, <1>7
<1> QED BY <1>2, <1>4, <1>6, <1>7, <1>8, Zenon

\* Before a turn, the character at hand is one of the path that is written as it
\* should be, or the percent sign with no number.
LEMMA TurnIs ==
  ASSUME UriInv, Decoding, NEW k \in 1..Len(request.places), DecodedUpTo(k)
  PROVE \/ /\ k + 1 \in 1..Len(request.places) /\ Written(uri, at + 1)
           /\ request.places[k + 1] = at + 1 + Taken(uri, at + 1)
           /\ request.path # Invalid => request.path[k] = Stands(uri, at + 1)
        \/ request.path = Invalid /\ ~Written(uri, at + 1)
<1> DEFINE n == Len(request.places)
<1>1. n \in Nat \ {0} /\ at + 1 = request.places[k] /\ at \in Int
  BY UriIs DEF DecodedUpTo
<1>2. CASE k < n
  BY <1>1, <1>2, UriIs
<1>3. CASE k = n
  <2>1. request.path = Invalid
    BY <1>1, <1>3, UriIs DEF Decoding
  <2> QED BY <1>1, <1>3, <2>1, UriIs
<1> QED BY <1>1, <1>2, <1>3

\* Two characters in a row.
LEMMA TwoOf ==
  ASSUME NEW X, NEW s \in Seq(X), NEW m \in Nat \ {0}, m + 1 <= Len(s)
  PROVE SubSeq(s, m, m + 1) = <<s[m], s[m + 1]>>
<1>1. PICK t : t = SubSeq(s, m, m + 1)
  OBVIOUS
<1>2. t \in Seq(X) /\ Len(t) = 2 /\ t[1] = s[m] /\ t[2] = s[m + 1]
  BY <1>1
<1>3. PICK u : u = <<s[m], s[m + 1]>>
  OBVIOUS
<1>4. u \in Seq(X) /\ Len(u) = 2 /\ u[1] = s[m] /\ u[2] = s[m + 1]
  <2>1. s[m] \in X /\ s[m + 1] \in X
    OBVIOUS
  <2> QED BY <1>3, <2>1
<1>5. t = u
  BY <1>2, <1>4
<1> QED BY <1>1, <1>3, <1>5

\* A turn on a character that is written as it should be takes all it is written as,
\* and decodes it.
LEMMA WrittenTurn ==
  ASSUME url_decode, Decoding, Written(uri, at + 1), uri \in Seq(Byte), at \in Nat
  PROVE push(Stands(uri, at + 1), Taken(uri, at + 1))
<1>1. current = uri[at + 1] /\ ~decode_ends
  BY DEF current, Decoding, decode_ends
<1>2. CASE current = Percent
  <2>1. /\ at + 3 <= Len(uri)
        /\ \/ TwoDigits(uri[at + 2], uri[at + 3])
           \/ OneDigit(uri[at + 2], uri[at + 3])
           \/ Signed(uri[at + 2], uri[at + 3])
    <3>1. at + 1 + 1 = at + 2 /\ at + 1 + 2 = at + 3
      OBVIOUS
    <3> QED BY <1>1, <1>2, <3>1 DEF Written
  <2>2. SubSeq(uri, at + 2, at + 3) = <<uri[at + 2], uri[at + 3]>>
    <3>1. at + 2 \in Nat \ {0} /\ (at + 2) + 1 = at + 3
      OBVIOUS
    <3> QED BY <2>1, <3>1, TwoOf
  <2>3. uri[at + 2] \in Byte /\ uri[at + 3] \in Byte
    <3>1. at + 2 \in 1..Len(uri) /\ at + 3 \in 1..Len(uri)
      BY <2>1
    <3> QED BY <3>1
  <2>4. readsHex(SubSeq(uri, at + 2, at + 3))
        /\ hex(SubSeq(uri, at + 2, at + 3)) = Escaped(uri[at + 2], uri[at + 3])
    BY <2>1, <2>2, <2>3, HexIs
  <2>5. escape
    BY <1>1, <1>2 DEF url_decode, plus, plain, Percent, Plus
  <2>6. push(hex(SubSeq(uri, at + 2, at + 3)), 3)
    <3>1. ~(at + 3 > Len(uri))
      BY <2>1
    <3> QED BY <2>4, <2>5, <3>1, Zenon DEF escape
  <2>7. Taken(uri, at + 1) = 3 /\ Stands(uri, at + 1) = Escaped(uri[at + 2], uri[at + 3])
    <3>1. at + 1 + 1 = at + 2 /\ at + 1 + 2 = at + 3
      OBVIOUS
    <3> QED BY <1>1, <1>2, <3>1 DEF Taken, Stands
  <2> QED BY <2>4, <2>6, <2>7, Zenon
<1>3. CASE current = Plus
  <2>1. push(Space, 1)
    BY <1>1, <1>3 DEF url_decode, escape, plus, plain, Percent, Plus
  <2>2. Stands(uri, at + 1) = Space /\ Taken(uri, at + 1) = 1
    BY <1>1, <1>3 DEF Stands, Taken, Percent, Plus
  <2> QED BY <2>1, <2>2, Zenon
<1>4. CASE current \notin {Percent, Plus}
  <2>1. push(current, 1)
    BY <1>1, <1>4 DEF url_decode, escape, plus, plain
  <2>2. Stands(uri, at + 1) = current /\ Taken(uri, at + 1) = 1
    BY <1>1, <1>4 DEF Stands, Taken
  <2> QED BY <2>1, <2>2, Zenon
<1> QED BY <1>2, <1>3, <1>4

\* One on a percent sign with no number fails.
LEMMA NoNumberTurn ==
  ASSUME url_decode, Decoding, ~Written(uri, at + 1), uri \in Seq(Byte), at \in Nat
  PROVE fail
<1>1. current = Percent /\ current = uri[at + 1] /\ ~decode_ends
  BY DEF current, Decoding, decode_ends, Written
<1>2. escape
  BY <1>1 DEF url_decode, plus, plain, Percent, Plus
<1>3. CASE at + 3 > Len(uri)
  BY <1>2, <1>3 DEF escape
<1>4. CASE at + 3 <= Len(uri)
  <2>1. SubSeq(uri, at + 2, at + 3) = <<uri[at + 2], uri[at + 3]>>
    <3>1. at + 2 \in Nat \ {0} /\ (at + 2) + 1 = at + 3
      OBVIOUS
    <3> QED BY <1>4, <3>1, TwoOf
  <2>2. uri[at + 2] \in Byte /\ uri[at + 3] \in Byte
    <3>1. at + 2 \in 1..Len(uri) /\ at + 3 \in 1..Len(uri)
      BY <1>4
    <3> QED BY <3>1
  <2>3. PICK h \in Byte, l \in Byte : h = uri[at + 2] /\ l = uri[at + 3]
    BY <2>2
  <2>4. ~TwoDigits(h, l) /\ ~OneDigit(h, l) /\ ~Signed(h, l)
    <3>1. at + 1 + 1 = at + 2 /\ at + 1 + 2 = at + 3
      OBVIOUS
    <3> QED BY <1>1, <1>4, <2>3, <3>1 DEF Written
  <2>5. ~readsHex(SubSeq(uri, at + 2, at + 3))
    <3>1. ~readsHex(<<h, l>>)
      BY <2>4, NoHexIs
    <3> QED BY <2>1, <2>3, <3>1, Zenon
  <2>6. ~(at + 3 > Len(uri))
    BY <1>4
  <2> QED BY <1>2, <2>5, <2>6, Zenon DEF escape
<1> QED BY <1>3, <1>4

\* What is written at a place is a character.
LEMMA StandsType ==
  ASSUME NEW text \in Seq(Byte), NEW i \in Nat \ {0}, Written(text, i)
  PROVE Stands(text, i) \in Byte /\ Taken(text, i) \in Nat \ {0}
        /\ i + Taken(text, i) <= Len(text) + 1
<1>1. text[i] \in Byte /\ i <= Len(text)
  BY DEF Written
<1>2. \A c \in Byte : IsHex(c) => hexValue(c) \in 0..15 /\ (c # 48 => hexValue(c) # 0)
  BY DEF hexValue, Byte, IsHex
<1>3. CASE text[i] = Percent
  <2>1. i + 2 <= Len(text) /\ text[i + 1] \in Byte /\ text[i + 2] \in Byte
    <3>1. i + 1 \in 1..Len(text) /\ i + 2 \in 1..Len(text)
      BY <1>3 DEF Written
    <3> QED BY <3>1
  <2>2. PICK h \in Byte, l \in Byte : h = text[i + 1] /\ l = text[i + 2]
    BY <2>1
  <2>3. TwoDigits(h, l) \/ OneDigit(h, l) \/ Signed(h, l)
    BY <1>3, <2>2 DEF Written
  <2>4. Escaped(h, l) \in Byte
    <3>1. CASE TwoDigits(h, l)
      <4>1. PICK v \in 0..15, w \in 0..15 : v = hexValue(h) /\ w = hexValue(l)
        BY <1>2, <3>1 DEF TwoDigits
      <4>2. Escaped(h, l) = 16 * v + w
        BY <3>1, <4>1 DEF Escaped
      <4>3. 16 * v + w \in 0..255
        OBVIOUS
      <4> QED BY <4>2, <4>3 DEF Byte
    <3>2. CASE OneDigit(h, l)
      <4>1. PICK v \in 0..15 : v = hexValue(h)
        BY <1>2, <3>2 DEF OneDigit
      <4>2. Escaped(h, l) = v
        BY <3>2, <4>1 DEF Escaped, OneDigit, TwoDigits
      <4>3. v \in 0..255
        OBVIOUS
      <4> QED BY <4>2, <4>3 DEF Byte
    <3>3. CASE Signed(h, l)
      <4>1. PICK v \in 0..15 : v = hexValue(l) /\ (l # 48 => v # 0)
        BY <1>2, <3>3 DEF Signed
      <4>2. ~TwoDigits(h, l) /\ ~OneDigit(h, l)
        BY <3>3 DEF Signed, TwoDigits, OneDigit, IsHex, Plus, Minus
      <4>3. Escaped(h, l) = IF h = Plus THEN v ELSE IF l = 48 THEN 0 ELSE 256 - v
        BY <4>1, <4>2 DEF Escaped
      <4>4. v \in 0..255 /\ 0 \in 0..255 /\ (v # 0 => 256 - v \in 0..255)
        OBVIOUS
      <4> QED BY <4>1, <4>3, <4>4 DEF Byte
    <3> QED BY <2>3, <3>1, <3>2, <3>3
  <2>5. Stands(text, i) = Escaped(h, l) /\ Taken(text, i) = 3
    BY <1>3, <2>2 DEF Stands, Taken
  <2> QED BY <2>1, <2>4, <2>5
<1>4. CASE text[i] # Percent
  BY <1>1, <1>4 DEF Stands, Taken, Space, Byte
<1> QED BY <1>3, <1>4

\* Whatever text a uri is, there is a path it stands for, or an escape in it that has
\* no number: UrisAssumption leaves no uri out, also none with an escape the encoding
\* does not know (request_handler.cpp:157-177).
THEOREM EveryUriRead ==
  ASSUME NEW text \in Seq(Byte)
  PROVE \E p \in Seq(Int), places \in Seq(Nat) : AsWritten(text, p, places)
<1> DEFINE Reads(places) ==
             /\ places \in Seq(Nat \ {0}) /\ Len(places) >= 1 /\ places[1] = 1
             /\ \A i \in 1..(Len(places) - 1) :
                  /\ Written(text, places[i])
                  /\ places[i + 1] = places[i] + Taken(text, places[i])
           Reached(places) == places[Len(places)]
           Ahead == {m \in Nat :
                       \E places : Reads(places) /\ Reached(places) + m = Len(text) + 1}
\* A reading that goes as far as one can.
<1>1. PICK m \in Ahead : \A k \in Ahead : m <= k
  <2>1. PICK first : first = <<1>>
    OBVIOUS
  <2>2. first \in Seq(Nat \ {0}) /\ Len(first) = 1 /\ first[1] = 1
    BY <2>1
  <2>3. Reads(first) /\ Reached(first) + Len(text) = Len(text) + 1
    BY <2>2
  <2>4. Len(text) \in Ahead
    <3> HIDE DEF Reads, Reached
    <3> QED BY <2>3
  <2>5. Ahead \in SUBSET Nat
    OBVIOUS
  <2> HIDE DEF Ahead
  <2> QED BY <2>4, <2>5, MinIs
<1>2. PICK places : Reads(places) /\ Reached(places) + m = Len(text) + 1
  <2> HIDE DEF Reads, Reached
  <2> QED BY <1>1
<1>3. PICK n \in Nat \ {0}, l \in Nat \ {0} :
        n = Len(places) /\ l = Reached(places) /\ l + m = Len(text) + 1 /\ m \in Nat
  <2>1. Len(places) \in Nat \ {0} /\ \A i \in 1..Len(places) : places[i] \in Nat \ {0}
    BY <1>2
  <2>2. Reached(places) \in Nat \ {0}
    BY <2>1
  <2> HIDE DEF Reads, Reached
  <2> QED BY <1>1, <1>2, <2>1, <2>2
\* It does not end at a character that is written as it should be: that could be read.
<1>4. ~Written(text, l)
  <2> SUFFICES ASSUME Written(text, l) PROVE FALSE
    OBVIOUS
  <2>1. PICK t \in Nat \ {0} : t = Taken(text, l) /\ l + t <= Len(text) + 1
    BY StandsType
  <2>2. PICK more : more = Append(places, l + t)
    OBVIOUS
  <2>3. /\ more \in Seq(Nat \ {0}) /\ Len(more) = n + 1 /\ more[n + 1] = l + t
        /\ \A i \in 1..n : more[i] = places[i]
    <3>1. places \in Seq(Nat \ {0}) /\ Len(places) = n /\ l + t \in Nat \ {0}
      BY <1>2, <1>3, <2>1
    <3> HIDE DEF Reads
    <3> QED BY <2>2, <3>1
  <2>4. ASSUME NEW i \in 1..n
        PROVE  Written(text, more[i]) /\ more[i + 1] = more[i] + Taken(text, more[i])
    <3>1. CASE i = n
      BY <1>3, <2>1, <2>3, <3>1
    <3>2. CASE i # n
      <4>1. i \in 1..(Len(places) - 1) /\ i + 1 \in 1..n
        BY <1>3, <3>2
      <4> QED BY <1>2, <2>3, <4>1
    <3> QED BY <3>1, <3>2
  <2>5. Reads(more)
    BY <1>2, <1>3, <2>3, <2>4
  <2>6. Reached(more) + (m - t) = Len(text) + 1 /\ m - t \in Nat
    <3>1. Reached(more) = l + t
      BY <2>3
    <3> HIDE DEF Reads, Reached
    <3> QED BY <1>3, <2>1, <3>1
  <2>7. m - t \in Ahead
    <3> HIDE DEF Reads, Reached
    <3> QED BY <2>5, <2>6
  <2>8. m <= m - t
    <3> HIDE DEF Ahead
    <3> QED BY <1>1, <2>7
  <2> QED BY <1>3, <2>1, <2>8
<1>5. CASE l <= Len(text)
  <2>1. AsWritten(text, Invalid, places)
    BY <1>2, <1>3, <1>4, <1>5 DEF AsWritten
  <2>2. Invalid \in Seq(Int)
    BY DEF Invalid
  <2> QED BY <1>2, <2>1, <2>2
<1>6. CASE l = Len(text) + 1
  <2>1. PICK p : p = [i \in 1..(n - 1) |-> Stands(text, places[i])]
    OBVIOUS
  <2>2. ASSUME NEW i \in 1..(n - 1)
        PROVE  Stands(text, places[i]) \in Byte
    <3>1. places[i] \in Nat \ {0} /\ Written(text, places[i])
      BY <1>2, <1>3
    <3> QED BY <3>1, StandsType
  <2>3. /\ p \in Seq(Byte) /\ Len(p) = n - 1
        /\ \A i \in 1..(n - 1) : p[i] = Stands(text, places[i])
    BY <1>3, <2>1, <2>2
  <2>4. p # Invalid
    <3>1. Len(p) >= 1 => p[1] \in Byte
      BY <2>3
    <3>2. Len(Invalid) = 1 /\ Invalid[1] = -1
      BY DEF Invalid
    <3>3. -1 \notin Byte
      BY DEF Byte
    <3>4. ASSUME p = Invalid PROVE FALSE
      <4>1. Len(p) = 1 /\ p[1] = -1
        BY <3>2, <3>4, Zenon
      <4>2. Len(p) >= 1
        BY <4>1
      <4> QED BY <3>1, <3>3, <4>1, <4>2
    <3> QED BY <3>4, Zenon
  <2>5. p \in Seq(Int)
    <3>1. Byte \subseteq Int
      BY DEF Byte
    <3>2. Len(p) \in Nat /\ p = [i \in 1..Len(p) |-> p[i]] /\ \A i \in 1..Len(p) : p[i] \in Int
      BY <2>3, <3>1
    <3> HIDE DEF Reads, Reached
    <3> QED BY <3>2
  <2>6. AsWritten(text, p, places)
    BY <1>2, <1>3, <1>6, <2>3, <2>4 DEF AsWritten
  <2> QED BY <1>2, <2>5, <2>6
<1> QED BY <1>3, <1>5, <1>6

\* A turn goes on with the next character of the path, or finds that there is none.
LEMMA DecodeStep ==
  ASSUME UriInv, url_decode, UNCHANGED request
  PROVE UriInv'
<1>1. PICK k \in 1..Len(request.places) : DecodedUpTo(k)
  BY DEF UriInv
<1>2. uri \in Seq(Byte) /\ at \in Nat /\ path \in Seq(Int) /\ Len(path) = k - 1
      /\ Len(request.places) \in Nat
  BY <1>1, UriIs DEF DecodedUpTo
<1>3. CASE decode_ends
  <2>1. UNCHANGED <<uri, at, path>> /\ decoded' = "true" /\ at' = Len(uri')
    BY <1>3 DEF decode_ends
  <2>2. DecodedUpTo(k)'
    BY <1>1, <2>1 DEF DecodedUpTo
  <2> QED BY <2>1, <2>2 DEF UriInv
<1>4. CASE ~decode_ends
  <2>1. Decoding
    BY <1>4 DEF url_decode, escape, plus, plain
  <2>2. CASE /\ k + 1 \in 1..Len(request.places) /\ Written(uri, at + 1)
             /\ request.places[k + 1] = at + 1 + Taken(uri, at + 1)
             /\ request.path # Invalid => request.path[k] = Stands(uri, at + 1)
    <3>1. push(Stands(uri, at + 1), Taken(uri, at + 1))
      BY <1>2, <2>1, <2>2, WrittenTurn
    <3>2. Stands(uri, at + 1) \in Int /\ Taken(uri, at + 1) \in Nat
      <4>1. at + 1 \in Nat \ {0}
        BY <1>2
      <4>2. Stands(uri, at + 1) \in Byte /\ Taken(uri, at + 1) \in Nat \ {0}
        BY <1>2, <2>2, <4>1, StandsType
      <4>3. \A c \in Byte : c \in Int
        BY DEF Byte
      <4> QED BY <4>2, <4>3
    <3>3. /\ path' = Append(path, Stands(uri, at + 1))
          /\ at' = at + Taken(uri, at + 1)
          /\ UNCHANGED <<uri, decoded>>
      BY <3>1, Zenon DEF push
    <3>4. at' \in Nat /\ at' + 1 = request'.places[k + 1]
      BY <1>2, <2>2, <3>2, <3>3
    <3>5. path' \in Seq(Int) /\ Len(path') = (k + 1) - 1
      BY <1>2, <3>2, <3>3
    <3>6. ASSUME request.path # Invalid, NEW i \in 1..((k + 1) - 1)
          PROVE  path'[i] = request.path[i]
      <4>1. CASE i = k
        <5>1. path'[Len(path) + 1] = Stands(uri, at + 1)
          BY <1>2, <3>2, <3>3
        <5> QED BY <1>2, <2>2, <3>6, <4>1, <5>1
      <4>2. CASE i # k
        <5>1. i \in 1..Len(path)
          BY <1>2, <4>2
        <5>2. path'[i] = path[i]
          BY <1>2, <3>2, <3>3, <5>1
        <5> QED BY <1>1, <1>2, <3>6, <5>1, <5>2 DEF DecodedUpTo
      <4> QED BY <4>1, <4>2
    <3>7. DecodedUpTo(k + 1)'
      BY <3>4, <3>5, <3>6 DEF DecodedUpTo
    <3>8. k + 1 \in 1..Len(request'.places) /\ decoded' = "none"
      BY <2>1, <2>2, <3>3 DEF Decoding
    <3> QED BY <3>3, <3>7, <3>8 DEF UriInv
  <2>3. CASE request.path = Invalid /\ ~Written(uri, at + 1)
    <3>1. decoded' = "false" /\ UNCHANGED <<uri, at, path>>
      BY <1>2, <2>1, <2>3, NoNumberTurn DEF fail
    <3>2. DecodedUpTo(k)'
      BY <1>1, <3>1 DEF DecodedUpTo
    <3> QED BY <2>3, <3>1, <3>2 DEF UriInv
  <2> QED BY <1>1, <2>1, <2>2, <2>3, TurnIs
<1> QED BY <1>3, <1>4

\* At first nothing of the path is decoded.
LEMMA UriInit == Init => UriInv
<1> SUFFICES ASSUME Init PROVE UriInv
  OBVIOUS
<1>1. /\ request \in Requests /\ uri = request.uri
      /\ at = 0 /\ path = <<>> /\ decoded = "none"
  BY DEF Init, TextInit, DecodeInit
<1>2. request.places \in Seq(Nat) /\ Len(request.places) >= 1 /\ request.places[1] = 1
  <2>1. request.places \in Seq(Nat)
    BY <1>1, RequestsAssumption
  <2>2. AsWritten(uri, request.path, request.places)
    BY <1>1, UrisAssumption, Zenon
  <2> QED BY <2>1, <2>2, Zenon DEF AsWritten
<1>3. 1 \in 1..Len(request.places) /\ DecodedUpTo(1)
  BY <1>1, <1>2 DEF DecodedUpTo
<1> QED BY <1>1, <1>3 DEF UriInv

\* Every other step of handle_request leaves url_decode alone.
LEMMA UriStep == UriInv /\ [Next]_vars => UriInv'
<1> SUFFICES ASSUME UriInv, [Next]_vars PROVE UriInv'
  OBVIOUS
<1>1. CASE decode
  BY <1>1, DecodeStep DEF decode, textVars
<1>2. CASE UNCHANGED <<request, decodeVars>>
  BY <1>2 DEF UriInv, DecodedUpTo, decodeVars
<1>3. CASE read_request /\ ~decode
  <2>1. UNCHANGED <<request, decodeVars>>
    BY <1>3 DEF read_request, route, read_header, headers_read, first_boundary, next_part,
                last_part, take, refuse, goto, textVars
  <2> QED BY <1>2, <2>1
<1>4. CASE ~parse_request
  <2>1. UNCHANGED <<request, decodeVars>>
    BY <1>4 DEF Next, next_image, decode_image, run_image, reply_results, reply_refused,
                reply_history, reply_with, throw, vars, textVars
  <2> QED BY <1>2, <2>1
<1> QED BY <1>1, <1>3, <1>4 DEF parse_request

\* However a path is encoded in a uri, url_decode gives it back, each character of it
\* once; it fails on a uri only if that has an escape that is cut off or has no number,
\* and always on such a one (request_handler.cpp:151-188).
THEOREM DecodedAsEncodedAlways == Spec => []DecodedAsEncoded
<1>1. Init => UriInv
  BY UriInit
<1>2. UriInv /\ [Next]_vars => UriInv'
  BY UriStep
<1>3. UriInv => DecodedAsEncoded
  <2> SUFFICES ASSUME UriInv, decoded = "true" PROVE path = request.path
    BY DEF UriInv, DecodedAsEncoded
  <2>1. PICK k \in 1..Len(request.places) : DecodedUpTo(k)
    BY DEF UriInv
  <2>2. at \in Nat /\ request.places[k] = Len(uri) + 1 /\ uri \in Seq(Byte)
        /\ Len(request.places) \in Nat
    BY <2>1, UriIs DEF UriInv, DecodedUpTo
  <2>3. k = Len(request.places)
    <3>1. CASE k \in 1..(Len(request.places) - 1)
      <4>1. Written(uri, Len(uri) + 1)
        BY <2>2, <3>1, UriIs
      <4> QED BY <2>2, <4>1 DEF Written
    <3> QED BY <2>2, <3>1
  <2>4. request.path # Invalid
    BY <2>2, <2>3, UriIs
  <2>5. path \in Seq(Int) /\ Len(path) = k - 1 /\ \A i \in 1..(k - 1) : path[i] = request.path[i]
    BY <2>1, <2>4 DEF DecodedUpTo
  <2>6. request.path \in Seq(Int) /\ Len(request.path) = k - 1
    BY <2>3, <2>4, UriIs
  <2> QED BY <2>5, <2>6
<1> QED BY <1>1, <1>2, <1>3, PTL DEF Spec
==============================================================================
