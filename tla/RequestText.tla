---------------------------- MODULE RequestText ----------------------------
(***************************************************************************)
(* The text of a request in request_handler::handle_request: the path in   *)
(* its uri, and for /predict the boundary in its headers and the images in *)
(* its body.  Except for the uri, text is a sequence of tokens: a          *)
(* character the searches of this code can stop at is a token of its own,  *)
(* any other stretch of text is one token.  So is CR LF, because the       *)
(* parser lets neither of the two into a body alone (LinesPaired).         *)
(* Images are in base64, one token per character.                          *)
(***************************************************************************)
EXTENDS UrlDecode, Images, RequestForm, FiniteSetsExt

\* Requests: uri, Content-Type headers and body; and what they were meant to be:
\* a path (Invalid if an escape in the uri has no number), with the places in the uri
\* its characters are written at, and files, intact or not.
CONSTANTS
  Tokens,   \* what the headers and the body are made of
  Requests

ASSUME TokensAssumption == {"-", "CRLF", Name} \subseteq Tokens

\* What the parser lets into a uri: no blank and no control character.
UriChar == (33..126) \cup (128..255)

FileType == [filename : Seq(Tokens), data : Seq(0..255), image : Seq(Tokens)]

ASSUME RequestsAssumption ==
  Requests \subseteq
    [uri : Seq(UriChar), types : Seq(Seq(Tokens)), body : Seq(Tokens), path : Seq(Int),
     places : Seq(Nat), files : Seq(FileType), intact : BOOLEAN]

Invalid == <<-1>>   \* no character

\* A percent sign and two hexadecimal digits stand for the character with that code.
\* The code takes three more forms for a number: one digit before a character that is
\* none, and a plus or a minus sign before a digit; but not "0x", a prefix.
TwoDigits(h, l) == IsHex(h) /\ IsHex(l)
OneDigit(h, l) == IsHex(h) /\ ~IsHex(l) /\ ~(h = 48 /\ l \in LettersX)
Signed(h, l) == h \in {Plus, Minus} /\ IsHex(l)

Escaped(h, l) ==
  IF TwoDigits(h, l) THEN 16 * hexValue(h) + hexValue(l)
  ELSE IF OneDigit(h, l) THEN hexValue(h)
  ELSE IF h = Plus THEN hexValue(l)
  ELSE IF l = 48 THEN 0 ELSE 256 - hexValue(l)

\* A character of a path is written as it is, or as an escape; a space also as a plus
\* sign.
Taken(text, i) == IF text[i] = Percent THEN 3 ELSE 1
Stands(text, i) ==
  IF text[i] = Percent THEN Escaped(text[i + 1], text[i + 2])
  ELSE IF text[i] = Plus THEN Space ELSE text[i]
Written(text, i) ==
  /\ i <= Len(text)
  /\ text[i] = Percent =>
       /\ i + 2 <= Len(text)
       /\ \/ TwoDigits(text[i + 1], text[i + 2])
          \/ OneDigit(text[i + 1], text[i + 2])
          \/ Signed(text[i + 1], text[i + 2])

\* Every uri is what a path is written as, or has an escape in it that is cut off or
\* has no number.
AsWritten(text, p, places) ==
  LET n == Len(places)
  IN /\ n >= 1 /\ places[1] = 1
     /\ \A i \in 1..(n - 1) :
          Written(text, places[i]) /\ places[i + 1] = places[i] + Taken(text, places[i])
     /\ \/ p = Invalid /\ places[n] <= Len(text) /\ ~Written(text, places[n])
        \/ /\ p # Invalid /\ places[n] = Len(text) + 1 /\ Len(p) = n - 1
           /\ \A i \in 1..(n - 1) : p[i] = Stands(text, places[i])

\* It leaves no uri out (EveryUriRead).
ASSUME UrisAssumption == \A r \in Requests : AsWritten(r.uri, r.path, r.places)

Slash   == 47
Dot     == 46
PredictPath == <<47, 112, 114, 101, 100, 105, 99, 116>>
HistoryPath == <<47, 104, 105, 115, 116, 111, 114, 121>>

VARIABLES
  request,     \* what was received
  stage,       \* where handle_request is: uri, headers, first, parts; in the end
               \* history, images or refused
  header,      \* the Content-Type header looked at next
  boundary,
  currentIdx,  \* where the current part starts in the body
  out          \* filename -> image

textVars == <<request, header, boundary, currentIdx, out>>

-----------------------------------------------------------------------------
npos == 0

\* std::string::find, from 1.
find(in, text, from) ==
  LET found == {i \in from..(Len(in) - Len(text) + 1) :
                  SubSeq(in, i, i + Len(text) - 1) = text}
  IN IF found = {} THEN npos ELSE Min(found)

\* retrieveMultipartBoundary: what follows "boundary=", up to and including the
\* first of the characters of "/r ;" (a slash and the letter r, not a return).
Ends == {"/", "r", " ", ";"}
HasBoundary(in) == find(in, <<Name>>, 1) # npos
retrieveMultipartBoundary(in) ==
  LET start == find(in, <<Name>>, 1) + 1
      ends == {i \in start..Len(in) : in[i] \in Ends}
  IN SubSeq(in, start, IF ends = {} THEN Len(in) ELSE Min(ends))

boundary_rn == Dashes \o boundary \o CRLF
boundary_end_rn == Dashes \o boundary \o Dashes \o CRLF

\* The text between the first `open' of a part and the next `close'.
Between(part, open, close) ==
  LET o == find(part, open, 1)
      start == o + Len(open)
      c == IF o = npos THEN npos ELSE find(part, close, start)
  IN [found |-> c # npos, text |-> IF c = npos THEN <<>> ELSE SubSeq(part, start, c - 1)]

\* retrieveFilenameFromMultiPartMessage, retrieveImageFromMultiPartMessage
retrieveFilename(part) == Between(part, <<Filename>>, <<Quote>>)
retrieveImage(part) == Between(part, CRLF \o CRLF, CRLF)

-----------------------------------------------------------------------------
TextInit ==
  /\ request \in Requests
  /\ uri = request.uri
  /\ DecodeInit
  /\ stage = "uri"
  /\ header = 1
  /\ boundary = <<>>
  /\ currentIdx = 1
  /\ out = <<>>

goto(where) ==
  /\ stage' = where
  /\ UNCHANGED <<textVars, decodeVars>>

\* A stock reply, bad_request.
refuse == goto("refused")

decode ==
  /\ stage = "uri"
  /\ url_decode
  /\ UNCHANGED <<textVars, stage>>

\* "Request path must be absolute and not contain ..": nothing else is looked at.
Served ==
  /\ path # <<>> /\ path[1] = Slash
  /\ \A i \in 1..(Len(path) - 1) : ~(path[i] = Dot /\ path[i + 1] = Dot)

\* With the path decoded, the request is refused or goes its way.
route ==
  /\ stage = "uri"
  /\ \/ decoded = "false" /\ refuse
     \/ decoded = "true" /\ ~Served /\ refuse
     \/ decoded = "true" /\ Served /\ path \notin {PredictPath, HistoryPath} /\ refuse
     \/ decoded = "true" /\ path = PredictPath /\ goto("headers")
     \/ decoded = "true" /\ path = HistoryPath /\ goto("history")

\* The loop over the headers: the last Content-Type counts, but each one must
\* have a boundary.
read_header ==
  /\ stage = "headers" /\ header <= Len(request.types)
  /\ \/ /\ HasBoundary(request.types[header])
        /\ boundary' = retrieveMultipartBoundary(request.types[header])
        /\ header' = header + 1
        /\ UNCHANGED <<request, stage, currentIdx, out, decodeVars>>
     \/ ~HasBoundary(request.types[header]) /\ refuse

headers_read ==
  /\ stage = "headers" /\ header > Len(request.types)
  /\ \/ boundary = <<>> /\ refuse
     \/ boundary # <<>> /\ goto("first")

first_boundary ==
  /\ stage = "first"
  /\ LET first == find(request.body, boundary_rn, 1)
     IN \/ first = npos /\ refuse
        \/ /\ first # npos
           /\ stage' = "parts"
           /\ currentIdx' = first + Len(boundary_rn)
           /\ UNCHANGED <<request, header, boundary, out, decodeVars>>

\* Mutant: the part goes on to the end of the body.
PartUpTo_end(end) == SubSeq(request.body, currentIdx, Len(request.body))

\* substr(currentIdx, end - currentIdx + 1): with the first dash of the boundary.
\* Without a boundary (npos) the part goes on to the end of the body.
PartUpTo(end) ==
  SubSeq(request.body, currentIdx, IF end = npos THEN Len(request.body) ELSE end)

\* One part of the body goes into the map, or makes the request a bad one.
take(text, next) == \E part \in {text} :
  \/ /\ retrieveFilename(part).found /\ retrieveImage(part).found
     /\ LET f == retrieveFilename(part).text
        IN out' = [g \in DOMAIN out \cup {f} |->
                     IF g = f THEN retrieveImage(part).text ELSE out[g]]
     /\ next
     /\ UNCHANGED <<request, header, boundary, decodeVars>>
  \/ ~(retrieveFilename(part).found /\ retrieveImage(part).found) /\ refuse

\* Mutant: the position is not moved on.
next_part_again ==
  /\ stage = "parts"
  /\ LET end == find(request.body, boundary_rn, currentIdx)
     IN end # npos /\ take(PartUpTo(end), UNCHANGED <<stage, currentIdx>>)

\* A part that another one follows.
next_part ==
  /\ stage = "parts"
  /\ LET end == find(request.body, boundary_rn, currentIdx)
     IN /\ end # npos
        /\ take(PartUpTo(end),
                currentIdx' = end + Len(boundary_rn) /\ UNCHANGED stage)

\* The last part.
last_part ==
  /\ stage = "parts"
  /\ find(request.body, boundary_rn, currentIdx) = npos
  /\ take(PartUpTo(find(request.body, boundary_end_rn, currentIdx)),
          stage' = "images" /\ UNCHANGED currentIdx)

\* From the uri to the images.
read_request ==
  \/ decode \/ route
  \/ read_header \/ headers_read
  \/ first_boundary \/ next_part \/ last_part

-----------------------------------------------------------------------------
\* However a path was encoded, and mixed with characters that were not, decoding
\* gives the path back, no character of it lost or taken twice.  Of the other escapes
\* only those are refused that are cut off or begin with no number: one digit, or a
\* sign and a digit, count as the number they are, and what stands in the place of a
\* missing digit is swallowed, as in "%2g" (request_handler.cpp:41-55, 151-188).
DecodedAsEncoded ==
  /\ decoded = "true" => path = request.path
  /\ decoded = "false" => request.path = Invalid

\* A name is never paired with the image of another file, not even when a piece
\* of the message is missing or comes twice: at worst the file is dropped, its
\* image is none of those sent, or the request is refused
\* (request_handler.cpp:225-237).
Paired ==
  \A i, j \in DOMAIN request.files :
    LET mine == request.files[i]
        other == request.files[j]
    IN mine.filename \in DOMAIN out /\ out[mine.filename] = other.image =>
         [other EXCEPT !.filename = mine.filename] \in ToSet(request.files)

\* "Http messages involving file transfer are based on http standard multi-part
\* message" (README.md:27): a message that is well-formed is not refused.
StandardAccepted == stage # "refused"
=============================================================================
