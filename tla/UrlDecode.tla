----------------------------- MODULE UrlDecode -----------------------------
(***************************************************************************)
(* request_handler::url_decode, one turn of its loop per step.  Characters *)
(* are their codes.  There is no space in a uri: it would have ended it.   *)
(***************************************************************************)
EXTENDS Integers, Sequences, SequencesExt

Percent == 37
Plus    == 43
Minus   == 45
Space   == 32
LettersX == {88, 120}

VARIABLES
  uri,     \* what is decoded
  at,      \* characters of it looked at
  path,    \* the path decoded so far
  decoded  \* what url_decode returned; "none" while its loop runs

decodeVars == <<uri, at, path, decoded>>

-----------------------------------------------------------------------------
IsHex(c) == c \in 48..57 \/ c \in 65..70 \/ c \in 97..102
hexValue(c) == IF c < 65 THEN c - 48 ELSE IF c < 97 THEN c - 55 ELSE c - 87

\* `is >> std::hex >> value' on two characters: a sign, then the digits up to the
\* first character that is none.  At least one digit; "0x" and "0X" are a prefix, not
\* one.
Leading(d) ==
  LET n == SelectInSeq(d, LAMBDA c : ~IsHex(c))
  IN IF n = 0 THEN d ELSE SubSeq(d, 1, n - 1)

digits(two) == Leading(IF two[1] \in {Plus, Minus} THEN Tail(two) ELSE two)

readsHex(two) == digits(two) # <<>> /\ ~(two[1] = 48 /\ two[2] \in LettersX)

\* static_cast<char>(value)
hex(two) ==
  LET d == digits(two)
      v == IF Len(d) = 1 THEN hexValue(d[1]) ELSE 16 * hexValue(d[1]) + hexValue(d[2])
  IN IF two[1] = Minus THEN (256 - v) % 256 ELSE v

-----------------------------------------------------------------------------
DecodeInit ==
  /\ at = 0
  /\ path = <<>>
  /\ decoded = "none"

Decoding == decoded = "none" /\ at < Len(uri)
current == uri[at + 1]

push(x, taken) ==
  /\ path' = Append(path, x)
  /\ at' = at + taken
  /\ UNCHANGED <<uri, decoded>>

fail == decoded' = "false" /\ UNCHANGED <<uri, at, path>>

\* Mutant: the digits are not skipped.
escape_unskipped ==
  /\ Decoding /\ current = Percent
  /\ \/ /\ at + 3 <= Len(uri)
        /\ LET two == SubSeq(uri, at + 2, at + 3)
           IN \/ readsHex(two) /\ push(hex(two), 1)
              \/ ~readsHex(two) /\ fail
     \/ at + 3 > Len(uri) /\ fail

\* A percent sign: two characters must follow, the first digits of which count.
escape ==
  /\ Decoding /\ current = Percent
  /\ \/ /\ at + 3 <= Len(uri)
        /\ LET two == SubSeq(uri, at + 2, at + 3)
           IN \/ readsHex(two) /\ push(hex(two), 3)
              \/ ~readsHex(two) /\ fail
     \/ at + 3 > Len(uri) /\ fail

plus == Decoding /\ current = Plus /\ push(Space, 1)

plain == Decoding /\ current \notin {Percent, Plus} /\ push(current, 1)

decode_ends ==
  /\ decoded = "none" /\ at = Len(uri)
  /\ decoded' = "true"
  /\ UNCHANGED <<uri, at, path>>

url_decode == escape \/ plus \/ plain \/ decode_ends
=============================================================================
