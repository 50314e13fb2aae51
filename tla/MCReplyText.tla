---------------------------- MODULE MCReplyText ----------------------------
(***************************************************************************)
(* ReplyText with the requests of the client, the same requests with a     *)
(* piece missing or doubled or with other uris, and those of other clients.*)
(***************************************************************************)
EXTENDS ReplyText

MCTokens == STRING

Message(types, b, files) ==
  [uri |-> PredictPath, path |-> PredictPath, places |-> [i \in 1..9 |-> i],
   types |-> types, body |-> Body(b, files), files |-> files, intact |-> TRUE]

ClientMessage(files) == Message(<<ContentType(ClientBoundary)>>, ClientBoundary, files)

\* No file without contents has an image in it, and one other has no person.
MCBlank == {<<>>, <<7>>}

Plain(f, data) == File(f, data, FALSE)
Files == {Plain(f, data) : f \in {<<"a">>, <<"b", ".", "-">>}, data \in {<<>>, <<1>>, <<2, 255>>}}
UpTo(n, S) == UNION {[1..k -> S] : k \in 1..n}

ClientRequests == {ClientMessage(fs) : fs \in UpTo(3, Files)}

\* Every bit of a byte, and none or all of them.
Bytes == {0, 1, 2, 4, 8, 16, 32, 64, 128, 255}
Contents == UpTo(3, Bytes) \cup {<<1, 2, 4, 128>>, <<255, 0, 255, 7, 9>>, <<7>>}

\* One file with any contents, in either alphabet.
ContentRequests ==
  {ClientMessage(<<File(<<"a">>, data, url)>>) : data \in Contents, url \in BOOLEAN}

\* A token of the structure, not of a name or an image, is lost or doubled.
Structure == {"-", "CRLF", Quote, Filename, "Content-Disposition", "Content-Type"}

Without(s, i) == SubSeq(s, 1, i - 1) \o SubSeq(s, i + 1, Len(s))
Twice(s, i) == SubSeq(s, 1, i) \o SubSeq(s, i, Len(s))

Damaged(m) ==
  UNION {{[m EXCEPT !.intact = FALSE, !.body = Without(m.body, i)],
          [m EXCEPT !.intact = FALSE, !.body = Twice(m.body, i)]} :
           i \in {j \in DOMAIN m.body : m.body[j] \in Structure}}

Distinct == {<<Plain(<<"a">>, <<1>>), Plain(<<"b">>, <<2>>), Plain(<<"c">>, <<3>>)>>,
             <<Plain(<<"a">>, <<1>>), Plain(<<"a">>, <<2>>)>>}

Whole == {ClientMessage(fs) : fs \in Distinct}

\* Bodies with one piece out of place, and headers without a boundary.
DamagedRequests ==
  UNION {Damaged(m) : m \in Whole}
  \cup {[m EXCEPT !.intact = FALSE, !.types = t] : m \in Whole,
          t \in {<<>>, <<ContentType(<<>>)>>, <<<<"image/jpeg">>>>,
                 <<ContentType(<<"7">>), ContentType(ClientBoundary)>>}}

\* Images that are cut short, have a character that is not base64, or padding where
\* there should be none.
Texts(data) ==
  LET t == base64_encode(data, FALSE)
  IN {SubSeq(t, 1, n) : n \in 0..(Len(t) - 1)}
     \cup {[t EXCEPT ![i] = c] : i \in DOMAIN t, c \in {"=", "*"}}

GarbledRequests ==
  {[ClientMessage(<<[Plain(<<"a">>, <<1>>) EXCEPT !.image = t]>>) EXCEPT !.intact = FALSE] :
     t \in Texts(<<1, 2, 3>>) \cup Texts(<<1, 2, 3, 4>>) \cup Texts(<<1, 2, 3, 4, 5>>)}

-----------------------------------------------------------------------------
\* A uri, and where in it each character of the path begins; in the end, where the
\* text ends or goes wrong.
Uri(text, meant, places) == [uri |-> text, path |-> meant, places |-> places]

\* A hexadecimal digit in lower and in upper case.
HexDigits(n) == IF n < 10 THEN {48 + n} ELSE {55 + n, 87 + n}

\* The ways to write one character: "/", "o", and those with a role of their own.
PathChars == {47, 111, Space, Plus, Percent}
Codes(x) ==
  {<<Percent, h, l>> : h \in HexDigits(x \div 16), l \in HexDigits(x % 16)}
  \cup (IF x = Space THEN {<<Plus>>} ELSE IF x \in {47, 111} THEN {<<x>>} ELSE {})

Encoded == UNION {{Uri(e, <<x>>, <<1, 1 + Len(e)>>) : e \in Codes(x)} : x \in PathChars}
Moved(places, n) == [i \in DOMAIN places |-> places[i] + n]
Join(u, v) ==
  Uri(u.uri \o v.uri, IF v.path = Invalid THEN Invalid ELSE u.path \o v.path,
      u.places \o Tail(Moved(v.places, Len(u.uri))))
Encoded2 == {Join(u, v) : u, v \in Encoded}
Encoded3 == {Join(u, v) : u \in Encoded, v \in Encoded2}

\* Any text, with the path it stands for read off character by character.
RECURSIVE PlacesFrom(_, _)
PlacesFrom(text, i) ==
  <<i>> \o IF Written(text, i) THEN PlacesFrom(text, i + Taken(text, i)) ELSE <<>>

Reading(text) ==
  LET places == PlacesFrom(text, 1)
      n == Len(places)
  IN Uri(text,
         IF places[n] <= Len(text) THEN Invalid
         ELSE [i \in 1..(n - 1) |-> Stands(text, places[i])],
         places)

\* Everything an escape may be made of: digits of each kind, signs, the x of a prefix in
\* both cases, what is no digit, and a second percent sign.
UriChars == {Percent, Plus, Minus, 47, 48, 50, 70, 88, 102, 103, 120}
AnyUris == {Reading(text) : text \in UpTo(3, UriChars)}

\* An escape of any kind, after or before a character that is written as it should be.
Escapes == {Reading(<<Percent, h, l>>) : h, l \in UriChars}
EncodedUris ==
  {Uri(<<>>, <<>>, <<1>>)} \cup Encoded \cup Encoded2 \cup Encoded3
  \cup {Join(u, v) : u \in Encoded, v \in Escapes}
  \cup {Join(v, u) : u \in Encoded, v \in {e \in Escapes : e.path # Invalid}}

\* A path written as it is but for the character at i.
But(p, i, code) ==
  Uri(SubSeq(p, 1, i - 1) \o code \o SubSeq(p, i + 1, Len(p)), p,
      [k \in 1..(Len(p) + 1) |-> IF k <= i THEN k ELSE k + Len(code) - 1])

\* Paths that are routed, plain and with a character encoded, or refused.
RoutedUris ==
  {But(PredictPath, 1, <<Percent, 50, 102>>),
   But(HistoryPath, 1, <<Slash>>),
   But(<<Slash, Dot, Dot>> \o PredictPath, 3, <<Percent, 50, 69>>)}

\* Any request may come with these.
UriRequests ==
  {[m EXCEPT !.intact = FALSE, !.uri = u.uri, !.path = u.path, !.places = u.places] :
     m \in {ClientMessage(<<Plain(<<"a">>, <<1>>)>>)},
     u \in AnyUris \cup EncodedUris \cup RoutedUris}

AllRequests ==
  ClientRequests \cup ContentRequests \cup DamagedRequests \cup GarbledRequests
  \cup UriRequests

\* Boundaries and headers of other clients: RFC 2046 allows every letter in a
\* boundary, and a parameter after it.
OtherRequests ==
  LET fs == <<Plain(<<"a">>, <<1>>)>>
  IN {Message(<<ContentType(<<"F", "o", "r", "m">>)>>, <<"F", "o", "r", "m">>, fs),
      Message(<<ContentType(ClientBoundary) \o <<";", " ", "charset">>>>, ClientBoundary, fs)}

\* Two images with a person in each.
BatchRequests == {ClientMessage(<<Plain(<<"a">>, <<1>>), Plain(<<"b">>, <<2>>)>>)}

MCRecords == <<Json(<<Member(<<"a">>, <<1>>), LineFeed>>)>>
=============================================================================
