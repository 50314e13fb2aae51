------------------------------- MODULE Base64 -------------------------------
(***************************************************************************)
(* base64_encode, as the client calls it for each file, and base64_decode, *)
(* as handle_request calls it for each image: one turn of its loop, four   *)
(* characters, per step.  Bytes are 0..255, characters are strings.        *)
(***************************************************************************)
EXTENDS Integers, Sequences, SequencesExt, Subsequences

Letters == <<"A", "B", "C", "D", "E", "F", "G", "H", "I", "J", "K", "L", "M",
             "N", "O", "P", "Q", "R", "S", "T", "U", "V", "W", "X", "Y", "Z",
             "a", "b", "c", "d", "e", "f", "g", "h", "i", "j", "k", "l", "m",
             "n", "o", "p", "q", "r", "s", "t", "u", "v", "w", "x", "y", "z",
             "0", "1", "2", "3", "4", "5", "6", "7", "8", "9">>

base64_chars(url) == Letters \o IF url THEN <<"-", "_">> ELSE <<"+", "/">>

\* Up to three bytes, from pos on, in four characters.  A byte that is not there
\* adds no bits, and takes the trailing character for those that would be its own.
Group(bytes_to_encode, pos, url) ==
  LET left == Len(bytes_to_encode) - pos
      byte(k) == IF k <= left THEN bytes_to_encode[pos + k] ELSE 0
      char(n) == base64_chars(url)[n + 1]
      trailing_char == IF url THEN "." ELSE "="
  IN << char(byte(1) \div 4),
        char((byte(1) % 4) * 16 + byte(2) \div 16),
        IF left >= 2 THEN char((byte(2) % 16) * 4 + byte(3) \div 64) ELSE trailing_char,
        IF left >= 3 THEN char(byte(3) % 64) ELSE trailing_char >>

base64_encode(bytes_to_encode, url) ==
  FlattenSeq([g \in 1..((Len(bytes_to_encode) + 2) \div 3) |->
                Group(bytes_to_encode, 3 * (g - 1), url)])

-----------------------------------------------------------------------------
VARIABLES
  encoded_string,  \* what is decoded, without line breaks
  pos,             \* characters of it decoded
  bytes            \* ret

base64Vars == <<encoded_string, pos, bytes>>

\* The null character at size(), which std::string lets its readers see.
Nul == "NUL"
char_at(k) == IF pos + k <= Len(encoded_string) THEN encoded_string[pos + k] ELSE Nul

Trailing(c) == c \in {"=", "."}

\* Both alphabets are taken.
pos_of_char(c) ==
  LET n == {i \in 1..64 : \E url \in BOOLEAN : base64_chars(url)[i] = c}
  IN IF n = {} THEN -1 ELSE Min(n) - 1

\* Mutant: the end of the string is a zero, like "A".
Throws_not_at_end(c) == c # Nul /\ pos_of_char(c) = -1

\* pos_of_char throws a const char*.
Throws(c) == pos_of_char(c) = -1

\* The characters of a turn that are looked at: the second first, and each one
\* only if none before it was the end or made pos_of_char throw.
LookedAt ==
  {2} \cup (IF Throws(char_at(2)) THEN {} ELSE {1})
      \cup (IF Throws(char_at(2)) \/ Throws(char_at(1)) THEN {} ELSE {3})
      \cup (IF \E k \in 1..3 : Throws(char_at(k)) THEN {} ELSE {4})

DecodeBase64Init == encoded_string = <<>> /\ pos = 0 /\ bytes = <<>>

\* base64_decode(s, true): line feeds are erased first.
base64_decode(s) ==
  /\ encoded_string' = Chosen(s, {k \in DOMAIN s : s[k] # "LF"})
  /\ pos' = 0
  /\ bytes' = <<>>

Decoded == pos >= Len(encoded_string)

\* A turn that throws.
decode_throws ==
  \/ Throws(char_at(1)) \/ Throws(char_at(2))
  \/ ~Trailing(char_at(3)) /\ Throws(char_at(3))
  \/ ~Trailing(char_at(3)) /\ ~Trailing(char_at(4)) /\ Throws(char_at(4))

\* Mutant: the bits of the second character are not masked.
decode_group_unmasked ==
  LET p(k) == pos_of_char(char_at(k))
  IN /\ bytes' = bytes
           \o <<p(1) * 4 + p(2) \div 16>>
           \o (IF Trailing(char_at(3)) THEN <<>> ELSE
               <<p(2) * 16 + p(3) \div 4>>
               \o IF Trailing(char_at(4)) THEN <<>> ELSE <<(p(3) % 4) * 64 + p(4)>>)
     /\ pos' = pos + 4
     /\ UNCHANGED encoded_string

\* A turn that does not: one to three bytes.
decode_group ==
  LET p(k) == pos_of_char(char_at(k))
  IN /\ bytes' = bytes
           \o <<p(1) * 4 + p(2) \div 16>>
           \o (IF Trailing(char_at(3)) THEN <<>> ELSE
               <<(p(2) % 16) * 16 + p(3) \div 4>>
               \o IF Trailing(char_at(4)) THEN <<>> ELSE <<(p(3) % 4) * 64 + p(4)>>)
     /\ pos' = pos + 4
     /\ UNCHANGED encoded_string
=============================================================================
